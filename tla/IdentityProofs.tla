-------------------------- MODULE IdentityProofs --------------------------
(***************************************************************************)
(* Identity is well typed, for any number of requests, agents, rows, keys  *)
(* and documents.  A request in progress has what its handler goes on to   *)
(* write (Hands), which the types of the columns alone do not say.         *)
(***************************************************************************)
EXTENDS Identity, TLAPS

HandOK(h) ==
  /\ h.pc = "rekeying" => h.pkey \in ParentKeys
  /\ h.pc \in {"registering", "issuing", "rotating"} => h.deleg \in Delegations
  /\ h.pc \in {"issuing", "rotating", "burning", "opening", "acting"} => h.agent \in Agents
  /\ h.pc \in {"burning", "opening"} =>
       h.nonce \in Nonces /\ h.cred \in Creds /\ h.key \in Keys

Hands == \A r \in Requests : HandOK(req[r])

IdTypes == TypeOK /\ Hands

\* The steps of a request, by what they write.
ParentStep(r) ==
  \/ ApproveParent(r) \/ ApproveCommit(r) \/ RevokeParent(r) \/ RevokeParentCommit(r)
  \/ \E k \in ParentKeys : RotateParentKey(r, k)
  \/ RotateParentKeyCommit(r)

AgentStep(r) ==
  \/ \E d \in Delegations, v1 \in BOOLEAN : Register(r, d, v1)
  \/ \E a \in Agents, c \in Creds : RegisterCommit(r, a, c)
  \/ \E c \in Creds : IssueCredential(r, c)
  \/ \E a \in Agents, d \in Delegations : RotateKey(r, a, d)
  \/ \E c \in Creds : RotateCommit(r, c)

SessionStep(r) ==
  \/ \E n \in Nonces, c \in Creds, k \in Keys : VerifyChallenge(r, n, c, k)
  \/ BurnNonce(r)
  \/ \E t \in Tokens : OpenSession(r, t)
  \/ \E t \in Tokens, j \in Opt(Proofs) : Authenticate(r, t, j)
  \/ ActCommit(r) \/ Abort(r)

LEMMA NextSplit ==
  ASSUME [Next]_vars
  PROVE  \/ \E r \in Requests : ParentStep(r) \/ AgentStep(r) \/ SessionStep(r)
         \/ AtOnce \/ UNCHANGED vars
<1>1. CASE \E r \in Requests : Begins(r)
  BY <1>1, Zenon DEF Begins, ParentStep, AgentStep, SessionStep
<1>2. CASE \E r \in Requests : Continues(r)
  BY <1>2, Zenon DEF Continues, ParentStep, AgentStep, SessionStep
<1> QED BY <1>1, <1>2, Zenon DEF Next

LEMMA OptTypes == \A S : S \subseteq Opt(S) /\ None \in Opt(S)
  BY DEF Opt

LEMMA IdleTypes == NoAgent \in Agent /\ Idle \in Request /\ HandOK(Idle)
  BY DEF NoAgent, Agent, Idle, Request, Pcs, Opt, HandOK

\* A request that becomes a request keeps the types of all of them.
LEMMA BecomeTypes ==
  ASSUME NEW r, NEW rec, IdTypes, rec \in Request, HandOK(rec), Become(r, rec)
  PROVE  req' \in [Requests -> Request] /\ Hands'
<1>1. req' \in [Requests -> Request]
  BY DEF IdTypes, TypeOK, Become
<1>2. \A q \in Requests : req'[q] = rec \/ req'[q] = req[q]
  BY DEF IdTypes, TypeOK, Become
<1> QED BY <1>1, <1>2 DEF IdTypes, Hands, HandOK

LEMMA DoneTypes ==
  ASSUME NEW r, IdTypes, Done(r) PROVE req' \in [Requests -> Request] /\ Hands'
  BY IdleTypes, BecomeTypes DEF Done

LEMMA NewCredTypes ==
  ASSUME TypeOK, NEW a \in Agents, NEW d \in Delegations
  PROVE  NewCred(a, d) \in Cred
<1>1. CredUntil(d) \in Nat
  BY IdentityAssumption DEF TypeOK, CredUntil
<1> QED BY <1>1 DEF NewCred, Cred, Opt

LEMMA RevokeAllTypes ==
  ASSUME TypeOK, NEW live PROVE RevokeAll(live) \in [Creds -> Cred]
  BY DEF TypeOK, RevokeAll, Cred

LEMMA ParentTypes ==
  ASSUME IdTypes, NEW r \in Requests, ParentStep(r) PROVE IdTypes'
<1> USE DEF Parent, Statuses, IdTypes, TypeOK
<1>1. CASE ApproveParent(r)
  <2>1. /\ [Idle EXCEPT !.pc = "approving"] \in Request
        /\ HandOK([Idle EXCEPT !.pc = "approving"])
    BY IdleTypes DEF Request, Pcs, HandOK
  <2> QED BY <1>1, <2>1, BecomeTypes DEF ApproveParent
<1>2. CASE ApproveCommit(r)
  BY <1>2, DoneTypes DEF ApproveCommit
<1>3. CASE RevokeParent(r)
  <2> DEFINE rec == [Idle EXCEPT !.pc = IF parent.status = "revoked" THEN "purging" ELSE "revoking",
                                 !.live = {c \in Creds : Live(c)}]
  <2>1. rec \in Request /\ HandOK(rec)
    BY IdleTypes DEF Request, Pcs, HandOK
  <2> QED BY <1>3, <2>1, BecomeTypes DEF RevokeParent
<1>4. CASE RevokeParentCommit(r)
  BY <1>4, DoneTypes, RevokeAllTypes DEF RevokeParentCommit
<1>5. ASSUME NEW k \in ParentKeys, RotateParentKey(r, k) PROVE IdTypes'
  <2> DEFINE rec == [Idle EXCEPT !.pc = "rekeying", !.pkey = k]
  <2>1. rec \in Request /\ HandOK(rec)
    BY IdleTypes, OptTypes DEF Request, Pcs, HandOK
  <2> QED BY <1>5, <2>1, BecomeTypes DEF RotateParentKey
<1>6. CASE RotateParentKeyCommit(r)
  <2>1. req[r].pkey \in ParentKeys
    BY <1>6 DEF RotateParentKeyCommit, At, Hands, HandOK
  <2> QED BY <1>6, <2>1, DoneTypes DEF RotateParentKeyCommit
<1> QED BY <1>1, <1>2, <1>3, <1>4, <1>5, <1>6 DEF ParentStep

LEMMA AgentTypes ==
  ASSUME IdTypes, NEW r \in Requests, AgentStep(r) PROVE IdTypes'
<1> USE IdentityAssumption DEF IdTypes, TypeOK
<1>1. ASSUME NEW d \in Delegations, NEW v1 \in BOOLEAN, Register(r, d, v1) PROVE IdTypes'
  <2> DEFINE rec == [Idle EXCEPT !.pc = "registering", !.deleg = d, !.v1 = v1]
  <2>1. rec \in Request /\ HandOK(rec)
    BY IdleTypes, OptTypes DEF Request, Pcs, HandOK
  <2> QED BY <1>1, <2>1, BecomeTypes DEF Register
<1>2. ASSUME NEW a \in Agents, NEW c \in Creds, RegisterCommit(r, a, c) PROVE IdTypes'
  <2> DEFINE d == req[r].deleg
  <2>1. d \in Delegations /\ req[r].v1 \in BOOLEAN
    BY <1>2 DEF RegisterCommit, At, Hands, HandOK, Request
  <2>2. [NoAgent EXCEPT !.status = "active", !.deleg = d, !.key = Bound[d],
                        !.until = Until[d], !.v1 = req[r].v1] \in Agent
    BY <2>1, IdleTypes DEF Agent, Opt
  <2>3. agents' \in [Agents -> Agent] /\ used' \subseteq Delegations
    BY <1>2, <2>1, <2>2 DEF RegisterCommit, Consume
  <2>4. creds' \in [Creds -> Cred] /\ req' \in [Requests -> Request] /\ Hands'
    <3>1. CASE req[r].v1
      <4>1. Done(r) /\ creds' = [creds EXCEPT ![c] = NewCred(a, d)]
        BY <1>2, <3>1 DEF RegisterCommit
      <4>2. NewCred(a, d) \in Cred
        BY <2>1, NewCredTypes
      <4> QED BY <4>1, <4>2, DoneTypes
    <3>2. CASE ~req[r].v1
      <4> DEFINE rec == [req[r] EXCEPT !.pc = "issuing", !.agent = a]
      <4>1. rec \in Request /\ HandOK(rec)
        <5>1. req[r] \in Request
          OBVIOUS
        <5>2. rec \in Request
          BY <5>1, OptTypes DEF Request, Pcs
        <5>3. rec.pc = "issuing" /\ rec.agent = a /\ rec.deleg = d
          BY <5>1 DEF Request
        <5> QED BY <2>1, <5>2, <5>3 DEF HandOK
      <4>2. Become(r, rec) /\ creds' = creds
        BY <1>2, <3>2 DEF RegisterCommit
      <4> QED BY <4>1, <4>2, BecomeTypes
    <3> QED BY <3>1, <3>2
  <2> QED BY <1>2, <2>3, <2>4 DEF RegisterCommit
<1>3. ASSUME NEW c \in Creds, IssueCredential(r, c) PROVE IdTypes'
  <2>1. req[r].deleg \in Delegations /\ req[r].agent \in Agents
    BY <1>3 DEF IssueCredential, At, Hands, HandOK
  <2> QED BY <1>3, <2>1, DoneTypes, NewCredTypes DEF IssueCredential
<1>4. ASSUME NEW a \in Agents, NEW d \in Delegations, RotateKey(r, a, d) PROVE IdTypes'
  <2> DEFINE rec == [Idle EXCEPT !.pc = "rotating", !.now = clock, !.agent = a, !.deleg = d,
                                 !.row = agents[a], !.live = LiveOf(a)]
  <2>1. rec \in Request /\ HandOK(rec)
    BY IdleTypes, OptTypes DEF Request, Pcs, HandOK, LiveOf
  <2> QED BY <1>4, <2>1, BecomeTypes DEF RotateKey
<1>5. ASSUME NEW c \in Creds, RotateCommit(r, c) PROVE IdTypes'
  <2> DEFINE a == req[r].agent
             d == req[r].deleg
             row == req[r].row
  <2>1. /\ a \in Agents /\ d \in Delegations /\ row \in Agent /\ req[r].now \in Nat
        /\ Bound[d] \in Keys /\ Until[d] \in Nat
    BY <1>5 DEF RotateCommit, At, Hands, HandOK, Request
  <2>2. \A x, y, z \in Opt(Keys) : Written(x, y, z) \in Opt(Keys)
    BY DEF Written
  <2>3. \A x, y, z \in Nat : Written(x, y, z) \in Nat
    BY DEF Written
  <2>4. agents[a] \in Agent /\ row.key \in Opt(Keys) /\ row.old \in Opt(Keys) /\ row.until \in Nat
    BY <2>1 DEF Agent
  <2>5. Rotated(a, d, row, req[r].now) \in Agent
    <3>1. /\ Written(agents[a].old, row.old, row.key) \in Opt(Keys)
          /\ Written(agents[a].key, row.key, Bound[d]) \in Opt(Keys)
          /\ Written(agents[a].until, row.until, Until[d]) \in Nat
      BY <2>1, <2>2, <2>3, <2>4, OptTypes DEF Agent
    <3>2. req[r].now + Grace \in Nat /\ d \in Opt(Delegations)
      BY <2>1, OptTypes
    <3> QED BY <2>4, <3>1, <3>2 DEF Rotated, Agent
  <2>6. agents' \in [Agents -> Agent] /\ used' \subseteq Delegations
    BY <1>5, <2>1, <2>5 DEF RotateCommit, Consume
  <2>7. creds' \in [Creds -> Cred]
    BY <1>5, <2>1, NewCredTypes, RevokeAllTypes DEF RotateCommit
  <2>8. told' \in [Agents -> Announced]
    <3> DEFINE until == [told[a].until EXCEPT ![agents[a].key] = req[r].now + Grace]
               rec == [key |-> agents[a].key, until |-> until]
    <3>1. agents[a].key \in Opt(Keys) /\ req[r].now + Grace \in Nat
      BY <2>1, <2>4 DEF Agent
    <3>2. told[a] \in Announced
      BY <2>1
    <3>3. until \in [Keys -> Nat]
      BY <3>1, <3>2 DEF Announced
    <3> HIDE DEF until
    <3>4. rec \in Announced
      BY <3>1, <3>3 DEF Announced
    <3>5. told' = [told EXCEPT ![a] = rec]
      BY <1>5 DEF RotateCommit, until
    <3> HIDE DEF rec
    <3> QED BY <2>1, <3>4, <3>5
  <2> QED BY <1>5, <2>6, <2>7, <2>8, DoneTypes DEF RotateCommit
<1> QED BY <1>1, <1>2, <1>3, <1>4, <1>5 DEF AgentStep

LEMMA SessionTypes ==
  ASSUME IdTypes, NEW r \in Requests, SessionStep(r) PROVE IdTypes'
<1> USE IdentityAssumption DEF IdTypes, TypeOK
<1>1. ASSUME NEW n \in Nonces, NEW c \in Creds, NEW k \in Keys, VerifyChallenge(r, n, c, k)
      PROVE  IdTypes'
  <2> DEFINE a == nonces[n].agent
             rec == [Idle EXCEPT !.pc = "burning", !.agent = a, !.nonce = n, !.cred = c, !.key = k]
  <2>1. a \in Agents
    BY <1>1 DEF VerifyChallenge, Spendable, Nonce, Opt
  <2>2. rec \in Request /\ HandOK(rec)
    BY <2>1, IdleTypes, OptTypes DEF Request, Pcs, HandOK
  <2> QED BY <1>1, <2>2, BecomeTypes DEF VerifyChallenge
<1>2. CASE BurnNonce(r)
  <2> DEFINE rec == [req[r] EXCEPT !.pc = "opening"]
  <2>1. rec \in Request /\ HandOK(rec)
    <3>1. req[r] \in Request /\ HandOK(req[r]) /\ req[r].pc = "burning"
      BY <1>2 DEF BurnNonce, At, Hands
    <3>2. rec \in Request
      BY <3>1 DEF Request, Pcs
    <3>3. /\ rec.pc = "opening" /\ rec.agent = req[r].agent /\ rec.nonce = req[r].nonce
          /\ rec.cred = req[r].cred /\ rec.key = req[r].key
      BY <3>1 DEF Request
    <3> QED BY <3>1, <3>2, <3>3 DEF HandOK
  <2>2. nonces' \in [Nonces -> Nonce]
    BY <1>2 DEF BurnNonce, Nonce
  <2> QED BY <1>2, <2>1, <2>2, BecomeTypes DEF BurnNonce
<1>3. ASSUME NEW t \in Tokens, OpenSession(r, t) PROVE IdTypes'
  <2>1. /\ req[r].agent \in Agents /\ req[r].nonce \in Nonces
        /\ req[r].cred \in Creds /\ req[r].key \in Keys
    BY <1>3 DEF OpenSession, At, Hands, HandOK
  <2>2. [agent |-> req[r].agent, nonce |-> req[r].nonce, cred |-> req[r].cred,
         key |-> req[r].key, until |-> clock + SessionTTL, v1 |-> agents[req[r].agent].v1] \in Token
    BY <2>1 DEF Token, Opt, Agent
  <2>3. tokens' \in [Tokens -> Token]
    BY <1>3, <2>2 DEF OpenSession
  <2> QED BY <1>3, <2>3, DoneTypes DEF OpenSession
<1>4. ASSUME NEW t \in Tokens, NEW j \in Opt(Proofs), Authenticate(r, t, j) PROVE IdTypes'
  <2> DEFINE rec == [Idle EXCEPT !.pc = "acting", !.agent = tokens[t].agent,
                                 !.key = tokens[t].key, !.proof = j]
  <2>1. tokens[t].agent \in Agents /\ tokens[t].key \in Opt(Keys)
    BY <1>4 DEF Authenticate, Authentic, Token, Opt
  <2>2. rec \in Request /\ HandOK(rec)
    BY <2>1, IdleTypes, OptTypes DEF Request, Pcs, HandOK
  <2> QED BY <1>4, <2>2, BecomeTypes DEF Authenticate
<1>5. CASE ActCommit(r)
  <2>1. req[r].proof \in Opt(Proofs)
    BY DEF Request
  <2>2. burned' \subseteq Proofs /\ served' \in [Proofs -> Nat]
    <3>1. \/ burned' = burned /\ served' = served
          \/ /\ req[r].proof \in Proofs /\ burned' = burned \cup {req[r].proof}
             /\ served' = [served EXCEPT ![req[r].proof] = @ + 1]
      BY <1>5, <2>1 DEF ActCommit, Opt
    <3>2. burned \subseteq Proofs /\ served \in [Proofs -> Nat]
      OBVIOUS
    <3> QED BY <3>1, <3>2
  <2> QED BY <1>5, <2>2, DoneTypes DEF ActCommit
<1>6. CASE Abort(r)
  BY <1>6, DoneTypes DEF Abort
<1> QED BY <1>1, <1>2, <1>3, <1>4, <1>5, <1>6 DEF SessionStep

LEMMA AtOnceTypes == ASSUME IdTypes, AtOnce PROVE IdTypes'
<1> USE IdentityAssumption DEF IdTypes, TypeOK, Hands
<1>1. CASE RejectParent
  BY <1>1 DEF RejectParent, Parent, Statuses
<1>2. CASE Tick
  BY <1>2 DEF Tick
<1>3. ASSUME NEW a \in Agents, RevokeAgent(a) PROVE IdTypes'
  BY <1>3, RevokeAllTypes DEF RevokeAgent, Agent
<1>4. ASSUME NEW a \in Agents, NEW n \in Nonces, CreateChallenge(a, n) PROVE IdTypes'
  BY <1>4 DEF CreateChallenge, Nonce, Opt
<1> QED BY <1>1, <1>2, <1>3, <1>4 DEF AtOnce

LEMMA IdTypesStep == ASSUME IdTypes, [Next]_vars PROVE IdTypes'
<1>1. CASE UNCHANGED vars
  BY <1>1 DEF vars, IdTypes, TypeOK, Hands
<1> QED BY <1>1, NextSplit, ParentTypes, AgentTypes, SessionTypes, AtOnceTypes

LEMMA IdTypesInit == Init => IdTypes
<1> SUFFICES ASSUME Init PROVE IdTypes
  OBVIOUS
<1> USE IdentityAssumption DEF Init
<1>1. parent \in Parent /\ clock \in Nat
  BY DEF Parent, Statuses
<1>2. agents \in [Agents -> Agent] /\ req \in [Requests -> Request] /\ Hands
  BY IdleTypes DEF Hands
<1>3. NoCred \in Cred /\ NoNonce \in Nonce /\ NoToken \in Token
  BY OptTypes DEF NoCred, Cred, NoNonce, Nonce, NoToken, Token
<1>4. served \in [Proofs -> Nat] /\ told \in [Agents -> Announced]
  BY OptTypes DEF Announced
<1> QED BY <1>1, <1>2, <1>3, <1>4 DEF IdTypes, TypeOK

\* Every row of the identity tables, and every request in progress, is of its
\* type (app/models.py, app/routers/agents.py, auth.py, parents.py, v1.py).
THEOREM IdentityTypeCorrect == Spec => []TypeOK
<1>1. IdTypes => TypeOK
  BY DEF IdTypes
<1> QED BY <1>1, IdTypesInit, IdTypesStep, PTL DEF Spec

-----------------------------------------------------------------------------
(***************************************************************************)
(* What Identity guarantees however its requests overlap: a proof serves   *)
(* one request, a delegation makes one agent and one credential, and what  *)
(* is revoked stays revoked.  What it guarantees when they do not: a nonce *)
(* opens one session, what is live is current, replaced keys expire.       *)
(***************************************************************************)
\* What a step does to one request, for all that reads only that.
LEMMA OneRequest ==
  ASSUME TypeOK, NEW r \in Requests, NEW rec, Become(r, rec)
  PROVE  \A q \in Requests : req'[q] = IF q = r THEN rec ELSE req[q]
  BY DEF TypeOK, Become

-----------------------------------------------------------------------------
(* Proofs.                                                                 *)

\* A proof in a request's hand is in no other's, and not burned yet.
ProofInv ==
  /\ \A j \in Proofs : served[j] = IF j \in burned THEN 1 ELSE 0
  /\ \A r \in Requests : req[r].proof # None =>
       /\ req[r].proof \in Proofs \ burned
       /\ \A q \in Requests \ {r} : req[q].proof # req[r].proof

\* All other steps leave the proofs alone.
LEMMA ProofsStay ==
  ASSUME IdTypes, ProofInv, UNCHANGED <<burned, served>>,
         \A q \in Requests : req'[q].proof = None \/ req'[q].proof = req[q].proof
  PROVE  ProofInv'
  BY DEF ProofInv

LEMMA ProofStep == ASSUME IdTypes, ProofInv, [Next]_vars PROVE ProofInv'
<1> USE DEF IdTypes
<1>1. CASE UNCHANGED vars
  BY <1>1 DEF vars, ProofInv
<1>2. CASE AtOnce
  BY <1>2, ProofsStay DEF AtOnce, RejectParent, Tick, RevokeAgent, CreateChallenge
<1>3. ASSUME NEW r \in Requests, ParentStep(r) PROVE ProofInv'
  <2>1. PICK rec : Become(r, rec) /\ rec.proof = None /\ UNCHANGED <<burned, served>>
    BY <1>3 DEF ParentStep, ApproveParent, ApproveCommit, RevokeParent, RevokeParentCommit,
                RotateParentKey, RotateParentKeyCommit, Done, Idle
  <2> QED BY <2>1, OneRequest, ProofsStay
<1>4. ASSUME NEW r \in Requests, AgentStep(r) PROVE ProofInv'
  <2>1. PICK rec : /\ Become(r, rec) /\ UNCHANGED <<burned, served>>
                   /\ rec.proof = None \/ rec.proof = req[r].proof
    <3>1. ASSUME NEW a \in Agents, NEW c \in Creds, RegisterCommit(r, a, c)
          PROVE \E rec : /\ Become(r, rec) /\ UNCHANGED <<burned, served>>
                         /\ rec.proof = None \/ rec.proof = req[r].proof
      <4>1. CASE req[r].v1
        BY <3>1, <4>1 DEF RegisterCommit, Done, Idle
      <4>2. CASE ~req[r].v1
        <5> DEFINE rec == [req[r] EXCEPT !.pc = "issuing", !.agent = a]
        <5>1. req[r] \in Request
          BY DEF TypeOK
        <5>2. rec.proof = req[r].proof
          BY <5>1 DEF Request
        <5> QED BY <3>1, <4>2, <5>2 DEF RegisterCommit
      <4> QED BY <4>1, <4>2
    <3>2. CASE \/ \E d \in Delegations, v1 \in BOOLEAN : Register(r, d, v1)
               \/ \E a \in Agents, d \in Delegations : RotateKey(r, a, d)
      <4>1. ASSUME NEW d \in Delegations, NEW v1 \in BOOLEAN, Register(r, d, v1)
            PROVE  \E rec : Become(r, rec) /\ UNCHANGED <<burned, served>> /\ rec.proof = None
        <5> DEFINE rec == [Idle EXCEPT !.pc = "registering", !.deleg = d, !.v1 = v1]
        <5>1. Become(r, rec) /\ rec.proof = None /\ UNCHANGED <<burned, served>>
          BY <4>1 DEF Register, Idle
        <5> QED BY <5>1
      <4>2. ASSUME NEW a \in Agents, NEW d \in Delegations, RotateKey(r, a, d)
            PROVE  \E rec : Become(r, rec) /\ UNCHANGED <<burned, served>> /\ rec.proof = None
        <5> DEFINE rec == [Idle EXCEPT !.pc = "rotating", !.now = clock, !.agent = a, !.deleg = d,
                                       !.row = agents[a], !.live = LiveOf(a)]
        <5>1. Become(r, rec) /\ rec.proof = None /\ UNCHANGED <<burned, served>>
          BY <4>2 DEF RotateKey, Idle
        <5> QED BY <5>1
      <4> QED BY <3>2, <4>1, <4>2
    <3>3. CASE \E c \in Creds : IssueCredential(r, c) \/ RotateCommit(r, c)
      <4>1. Become(r, Idle) /\ Idle.proof = None /\ UNCHANGED <<burned, served>>
        BY <3>3 DEF IssueCredential, RotateCommit, Done, Idle
      <4> QED BY <4>1
    <3> QED BY <1>4, <3>1, <3>2, <3>3 DEF AgentStep
  <2> QED BY <2>1, OneRequest, ProofsStay
<1>5. ASSUME NEW r \in Requests, SessionStep(r) PROVE ProofInv'
  <2>1. ASSUME NEW n \in Nonces, NEW c \in Creds, NEW k \in Keys, VerifyChallenge(r, n, c, k)
        PROVE  ProofInv'
    <3>1. PICK rec : Become(r, rec) /\ rec.proof = None /\ UNCHANGED <<burned, served>>
      BY <2>1 DEF VerifyChallenge, Idle
    <3> QED BY <3>1, OneRequest, ProofsStay
  <2>2. CASE BurnNonce(r)
    <3> DEFINE rec == [req[r] EXCEPT !.pc = "opening"]
    <3>1. req[r] \in Request
      BY DEF TypeOK
    <3>2. rec.proof = req[r].proof
      BY <3>1 DEF Request
    <3>3. Become(r, rec) /\ UNCHANGED <<burned, served>>
      BY <2>2 DEF BurnNonce
    <3> QED BY <3>2, <3>3, OneRequest, ProofsStay
  <2>3. CASE Abort(r) \/ \E t \in Tokens : OpenSession(r, t)
    <3>1. Become(r, Idle) /\ Idle.proof = None /\ UNCHANGED <<burned, served>>
      BY <2>3 DEF OpenSession, Abort, Done, Idle
    <3> QED BY <3>1, OneRequest, ProofsStay
  <2>4. ASSUME NEW t \in Tokens, NEW j \in Opt(Proofs), Authenticate(r, t, j) PROVE ProofInv'
    <3>1. PICK rec : Become(r, rec) /\ rec.proof = j /\ UNCHANGED <<burned, served>>
      BY <2>4 DEF Authenticate, Idle
    <3>2. j = None \/ (j \in Proofs /\ Fresh(j))
      BY <2>4 DEF Authenticate, Opt
    <3> QED BY <3>1, <3>2, OneRequest DEF ProofInv, Fresh
  <2>5. CASE ActCommit(r)
    <3>1. \A q \in Requests : req'[q] = IF q = r THEN Idle ELSE req[q]
      BY <2>5, OneRequest DEF ActCommit, Done
    <3>2. Idle.proof = None
      BY DEF Idle
    <3>3. CASE req[r].proof = None
      BY <2>5, <3>1, <3>2, <3>3, ProofsStay DEF ActCommit
    <3>4. CASE req[r].proof # None
      <4>1. /\ burned' = burned \cup {req[r].proof}
            /\ served' = [served EXCEPT ![req[r].proof] = @ + 1]
        BY <2>5, <3>4 DEF ActCommit
      <4>2. req[r].proof \in Proofs \ burned
        BY <3>4 DEF ProofInv
      <4>3. \A j \in Proofs : served'[j] = IF j \in burned' THEN 1 ELSE 0
        BY <4>1, <4>2 DEF ProofInv, TypeOK
      <4>4. \A q \in Requests \ {r} : req[q].proof # req[r].proof
        BY <3>4 DEF ProofInv
      <4> QED BY <3>1, <3>2, <4>1, <4>3, <4>4 DEF ProofInv
    <3> QED BY <3>3, <3>4
  <2> QED BY <1>5, <2>1, <2>2, <2>3, <2>4, <2>5 DEF SessionStep
<1> QED BY <1>1, <1>2, <1>3, <1>4, <1>5, NextSplit

\* Whatever requests overlap, are rolled back and tried again, no proof carries
\* two of them to a commit (verify_request_proof).
THEOREM ProofsServeOnce == Spec => []ProofServedOnce
<1>1. Init => ProofInv
  BY DEF Init, ProofInv, Idle
<1>2. ProofInv => ProofServedOnce
  BY DEF ProofInv, ProofServedOnce
<1> QED BY <1>1, <1>2, IdTypesInit, IdTypesStep, ProofStep, PTL DEF Spec

-----------------------------------------------------------------------------
(* Delegations.                                                            *)

\* A registration between its two commits has consumed its delegation and has
\* issued nothing for it yet.
DelegationInv ==
  /\ DelegationUsedOnce
  /\ \A r \in Requests : At(r, "issuing") =>
       /\ req[r].deleg \in used
       /\ \A c \in Creds : creds[c].deleg # req[r].deleg
       /\ \A q \in Requests \ {r} : At(q, "issuing") => req[q].deleg # req[r].deleg

\* Nothing new was consumed, issued or half issued.
LEMMA DelegationsStay ==
  ASSUME IdTypes, DelegationInv, used' = used,
         \A a \in Agents : agents'[a].deleg = agents[a].deleg,
         \A c \in Creds : creds'[c].deleg = creds[c].deleg,
         \A q \in Requests : req'[q] = req[q] \/ req'[q].pc # "issuing"
  PROVE  DelegationInv'
  BY DEF DelegationInv, DelegationUsedOnce, At

LEMMA RevokeAllKeeps ==
  ASSUME TypeOK, NEW live, NEW c \in Creds
  PROVE  /\ RevokeAll(live)[c].deleg = creds[c].deleg
         /\ RevokeAll(live)[c].agent = creds[c].agent
         /\ creds[c].revoked => RevokeAll(live)[c].revoked
  BY DEF TypeOK, RevokeAll, Cred

\* A delegation that was free now has its agent, and it may have its credential.
LEMMA DelegationTaken ==
  ASSUME IdTypes, DelegationInv, NEW d \in Delegations, Consume(d),
         NEW a \in Agents, agents'[a].deleg = d,
         \A b \in Agents \ {a} : agents'[b].deleg = agents[b].deleg,
         NEW C \in SUBSET Creds, \A c, e \in C : c = e,
         \A c \in Creds : creds'[c].deleg = IF c \in C THEN d ELSE creds[c].deleg,
         \A q \in Requests : \/ req'[q] = req[q]
                             \/ req'[q].pc # "issuing"
                             \/ /\ C = {} /\ req'[q].deleg = d
                                /\ \A p \in Requests \ {q} : req'[p] = req[p]
  PROVE  DelegationInv'
<1>1. d \notin used /\ used' = used \cup {d} /\ d # None
  BY IdentityAssumption DEF Consume
<1>2. DelegationUsedOnce'
  BY <1>1 DEF DelegationInv, DelegationUsedOnce, Opt
<1>3. \A c \in Creds : creds[c].deleg # d
  BY <1>1 DEF DelegationInv, DelegationUsedOnce, Opt
<1>4. ASSUME NEW q \in Requests, At(q, "issuing")'
      PROVE  /\ req'[q].deleg \in used'
             /\ \A c \in Creds : creds'[c].deleg # req'[q].deleg
             /\ \A p \in Requests \ {q} : At(p, "issuing")' => req'[p].deleg # req'[q].deleg
  <2>1. CASE req'[q] = req[q]
    <3>1. At(q, "issuing") /\ req[q].deleg \in used /\ req[q].deleg # d
      BY <1>1, <1>4, <2>1 DEF At, DelegationInv
    <3>2. \A c \in Creds : creds'[c].deleg # req'[q].deleg
      BY <2>1, <3>1 DEF DelegationInv
    <3>3. ASSUME NEW p \in Requests \ {q}, At(p, "issuing")' PROVE req'[p].deleg # req'[q].deleg
      BY <2>1, <3>1, <3>3 DEF At, DelegationInv
    <3> QED BY <1>1, <2>1, <3>1, <3>2, <3>3
  <2>2. CASE /\ C = {} /\ req'[q].deleg = d
             /\ \A p \in Requests \ {q} : req'[p] = req[p]
    <3>1. ASSUME NEW p \in Requests \ {q}, At(p, "issuing")' PROVE req'[p].deleg # req'[q].deleg
      BY <1>1, <2>2, <3>1 DEF At, DelegationInv
    <3> QED BY <1>1, <1>3, <2>2, <3>1
  <2> QED BY <1>4, <2>1, <2>2 DEF At
<1> QED BY <1>2, <1>4 DEF DelegationInv

LEMMA DelegationStep == ASSUME IdTypes, DelegationInv, [Next]_vars PROVE DelegationInv'
<1> USE DEF IdTypes
<1>1. CASE UNCHANGED vars
  BY <1>1, DelegationsStay DEF vars
<1>2. CASE AtOnce
  <2>1. ASSUME NEW a \in Agents, RevokeAgent(a) PROVE DelegationInv'
    <3>1. \A b \in Agents : agents'[b].deleg = agents[b].deleg
      BY <2>1 DEF RevokeAgent, TypeOK, Agent
    <3>2. \A c \in Creds : creds'[c].deleg = creds[c].deleg
      BY <2>1, RevokeAllKeeps DEF RevokeAgent
    <3> QED BY <2>1, <3>1, <3>2, DelegationsStay DEF RevokeAgent
  <2> QED BY <1>2, <2>1, DelegationsStay DEF AtOnce, RejectParent, Tick, CreateChallenge
<1>3. ASSUME NEW r \in Requests, ParentStep(r) PROVE DelegationInv'
  <2>1. PICK rec : Become(r, rec) /\ rec.pc # "issuing" /\ UNCHANGED <<used, agents>>
    BY <1>3 DEF ParentStep, ApproveParent, ApproveCommit, RevokeParent, RevokeParentCommit,
                RotateParentKey, RotateParentKeyCommit, Done, Idle
  <2>2. \A c \in Creds : creds'[c].deleg = creds[c].deleg
    <3>1. creds' = creds \/ creds' = RevokeAll(req[r].live)
      BY <1>3 DEF ParentStep, ApproveParent, ApproveCommit, RevokeParent, RevokeParentCommit,
                  RotateParentKey, RotateParentKeyCommit
    <3> QED BY <3>1, RevokeAllKeeps
  <2> QED BY <2>1, <2>2, OneRequest, DelegationsStay
<1>4. ASSUME NEW r \in Requests, SessionStep(r) PROVE DelegationInv'
  <2>1. PICK rec : Become(r, rec) /\ rec.pc # "issuing"
    <3>1. CASE BurnNonce(r)
      <4> DEFINE rec == [req[r] EXCEPT !.pc = "opening"]
      <4>1. rec.pc # "issuing"
        BY DEF TypeOK, Request
      <4> QED BY <3>1, <4>1 DEF BurnNonce
    <3>2. CASE \/ \E n \in Nonces, c \in Creds, k \in Keys : VerifyChallenge(r, n, c, k)
               \/ \E t \in Tokens, j \in Opt(Proofs) : Authenticate(r, t, j)
      <4>1. ASSUME NEW n \in Nonces, NEW c \in Creds, NEW k \in Keys, VerifyChallenge(r, n, c, k)
            PROVE  \E rec : Become(r, rec) /\ rec.pc # "issuing"
        <5> DEFINE rec == [Idle EXCEPT !.pc = "burning", !.agent = nonces[n].agent, !.nonce = n,
                                       !.cred = c, !.key = k]
        <5>1. Become(r, rec) /\ rec.pc = "burning"
          BY <4>1 DEF VerifyChallenge, Idle
        <5> QED BY <5>1
      <4>2. ASSUME NEW t \in Tokens, NEW j \in Opt(Proofs), Authenticate(r, t, j)
            PROVE  \E rec : Become(r, rec) /\ rec.pc # "issuing"
        <5> DEFINE rec == [Idle EXCEPT !.pc = "acting", !.agent = tokens[t].agent,
                                       !.key = tokens[t].key, !.proof = j]
        <5>1. Become(r, rec) /\ rec.pc = "acting"
          BY <4>2 DEF Authenticate, Idle
        <5> QED BY <5>1
      <4> QED BY <3>2, <4>1, <4>2
    <3>3. CASE ActCommit(r) \/ Abort(r) \/ \E t \in Tokens : OpenSession(r, t)
      <4>1. Become(r, Idle) /\ Idle.pc # "issuing"
        BY <3>3 DEF OpenSession, ActCommit, Abort, Done, Idle
      <4> QED BY <4>1
    <3> QED BY <1>4, <3>1, <3>2, <3>3 DEF SessionStep
  <2>2. UNCHANGED <<used, agents, creds>>
    BY <1>4 DEF SessionStep, VerifyChallenge, BurnNonce, OpenSession, Authenticate,
                ActCommit, Abort
  <2> QED BY <2>1, <2>2, OneRequest, DelegationsStay
<1>5. ASSUME NEW r \in Requests, AgentStep(r) PROVE DelegationInv'
  <2>0. req[r] \in Request /\ Idle.pc # "issuing"
    BY DEF TypeOK, Idle
  <2>1. CASE \/ \E d \in Delegations, v1 \in BOOLEAN : Register(r, d, v1)
             \/ \E a \in Agents, d \in Delegations : RotateKey(r, a, d)
    <3>1. PICK rec : Become(r, rec) /\ rec.pc # "issuing" /\ UNCHANGED <<used, agents, creds>>
      BY <2>1 DEF Register, RotateKey, Idle
    <3> QED BY <3>1, OneRequest, DelegationsStay
  <2>2. ASSUME NEW a \in Agents, NEW c \in Creds, RegisterCommit(r, a, c) PROVE DelegationInv'
    <3> DEFINE d == req[r].deleg
               C == IF req[r].v1 THEN {c} ELSE {}
    <3>1. d \in Delegations /\ Consume(d)
      BY <2>2 DEF RegisterCommit, At, Hands, HandOK
    <3>2. agents'[a].deleg = d /\ \A b \in Agents \ {a} : agents'[b].deleg = agents[b].deleg
      BY <2>2, IdleTypes DEF RegisterCommit, TypeOK, Agent
    <3>3. \A e \in Creds : creds'[e].deleg = IF e \in C THEN d ELSE creds[e].deleg
      BY <2>2 DEF RegisterCommit, NewCred, TypeOK
    <3>4. CASE req[r].v1
      <4>1. \A q \in Requests : req'[q] = req[q] \/ req'[q].pc # "issuing"
        BY <2>0, <2>2, <3>4, OneRequest DEF RegisterCommit, Done
      <4>2. C \in SUBSET Creds /\ \A e, f \in C : e = f
        BY <3>4
      <4> HIDE DEF C, d
      <4> QED BY <3>1, <3>2, <3>3, <4>1, <4>2, DelegationTaken
    <3>5. CASE ~req[r].v1
      <4> DEFINE rec == [req[r] EXCEPT !.pc = "issuing", !.agent = a]
      <4>1. rec.deleg = d
        BY <2>0 DEF Request
      <4>2. \A q \in Requests : req'[q] = IF q = r THEN rec ELSE req[q]
        BY <2>2, <3>5, OneRequest DEF RegisterCommit
      <4>3. C = {}
        BY <3>5
      <4>4. \A q \in Requests : \/ req'[q] = req[q]
                                \/ /\ C = {} /\ req'[q].deleg = d
                                   /\ \A p \in Requests \ {q} : req'[p] = req[p]
        BY <4>1, <4>2, <4>3
      <4>5. C \in SUBSET Creds /\ \A e, f \in C : e = f
        BY <4>3
      <4> HIDE DEF C, d, rec
      <4> QED BY <3>1, <3>2, <3>3, <4>4, <4>5, DelegationTaken
    <3> QED BY <3>4, <3>5
  <2>3. ASSUME NEW c \in Creds, IssueCredential(r, c) PROVE DelegationInv'
    <3> DEFINE d == req[r].deleg
    <3>1. /\ d \in Delegations /\ d \in used /\ At(r, "issuing")
          /\ \A e \in Creds : creds[e].deleg # d
          /\ \A q \in Requests \ {r} : At(q, "issuing") => req[q].deleg # d
      BY <2>3 DEF IssueCredential, DelegationInv, At, Hands, HandOK
    <3>2. \A e \in Creds : creds'[e].deleg = IF e = c THEN d ELSE creds[e].deleg
      BY <2>3 DEF IssueCredential, NewCred, TypeOK
    <3>3. \A q \in Requests : req'[q] = IF q = r THEN Idle ELSE req[q]
      BY <2>3, OneRequest DEF IssueCredential, Done
    <3>4. used' = used /\ agents' = agents
      BY <2>3 DEF IssueCredential
    <3> HIDE DEF d
    <3>5. DelegationUsedOnce'
      BY <3>1, <3>2, <3>4 DEF DelegationInv, DelegationUsedOnce, Opt
    <3> QED BY <2>0, <3>1, <3>2, <3>3, <3>4, <3>5 DEF DelegationInv, At
  <2>4. ASSUME NEW c \in Creds, RotateCommit(r, c) PROVE DelegationInv'
    <3> DEFINE d == req[r].deleg
               a == req[r].agent
               C == {c}
    <3>1. d \in Delegations /\ a \in Agents /\ Consume(d)
      BY <2>4 DEF RotateCommit, At, Hands, HandOK
    <3>2. agents'[a].deleg = d /\ \A b \in Agents \ {a} : agents'[b].deleg = agents[b].deleg
      BY <2>4, <3>1 DEF RotateCommit, Rotated, TypeOK, Agent
    <3>3. \A e \in Creds : creds'[e].deleg = IF e \in C THEN d ELSE creds[e].deleg
      BY <2>4, RevokeAllKeeps, RevokeAllTypes DEF RotateCommit, NewCred
    <3>4. \A q \in Requests : req'[q] = req[q] \/ req'[q].pc # "issuing"
      BY <2>0, <2>4, OneRequest DEF RotateCommit, Done
    <3>5. C \in SUBSET Creds /\ \A e, f \in C : e = f
      OBVIOUS
    <3> HIDE DEF C, d, a
    <3> QED BY <3>1, <3>2, <3>3, <3>4, <3>5, DelegationTaken
  <2> QED BY <1>5, <2>1, <2>2, <2>3, <2>4 DEF AgentStep
<1> QED BY <1>1, <1>2, <1>3, <1>4, <1>5, NextSplit

\* Whatever registrations and rotations present one delegation at the same time,
\* it makes one agent and one credential (register_agent, v1_register_agent,
\* rotate_agent_key).
THEOREM DelegationsAreUsedOnce == Spec => []DelegationUsedOnce
<1>1. Init => DelegationInv
  BY DEF Init, DelegationInv, DelegationUsedOnce, At, Idle, NoAgent, NoCred, Opt
<1>2. DelegationInv => DelegationUsedOnce
  BY DEF DelegationInv
<1> QED BY <1>1, <1>2, IdTypesInit, IdTypesStep, DelegationStep, PTL DEF Spec
-----------------------------------------------------------------------------
(* Revocations.                                                            *)

\* A credential that is revoked, or that a request is about to revoke, exists.
RevokedExist ==
  /\ \A c \in Creds : creds[c].revoked => Issued(c)
  /\ \A r \in Requests : \A c \in req[r].live : Issued(c)

LEMMA RevokedStep ==
  ASSUME IdTypes, RevokedExist, [Next]_vars
  PROVE  /\ \A a \in Agents : agents[a].status = "revoked" => agents'[a].status = "revoked"
         /\ \A c \in Creds : creds[c].revoked => creds'[c].revoked
         /\ \A c \in Creds : Issued(c) => Issued(c)'
<1> USE DEF IdTypes, RevokedExist
<1>1. CASE UNCHANGED vars
  BY <1>1 DEF vars, Issued
<1>2. CASE AtOnce
  <2>1. ASSUME NEW a \in Agents, RevokeAgent(a)
        PROVE  /\ \A b \in Agents : agents[b].status = "revoked" => agents'[b].status = "revoked"
               /\ \A c \in Creds : creds[c].revoked => creds'[c].revoked
               /\ \A c \in Creds : Issued(c) => Issued(c)'
    BY <2>1, RevokeAllKeeps DEF RevokeAgent, TypeOK, Agent, Issued
  <2> QED BY <1>2, <2>1 DEF AtOnce, RejectParent, Tick, CreateChallenge, Issued
<1>3. ASSUME NEW r \in Requests, ParentStep(r) \/ SessionStep(r)
      PROVE  /\ agents' = agents
             /\ \A c \in Creds : creds[c].revoked => creds'[c].revoked
             /\ \A c \in Creds : Issued(c) => Issued(c)'
  <2>1. agents' = agents /\ (creds' = creds \/ creds' = RevokeAll(req[r].live))
    BY <1>3 DEF ParentStep, ApproveParent, ApproveCommit, RevokeParent, RevokeParentCommit,
                RotateParentKey, RotateParentKeyCommit, SessionStep, VerifyChallenge, BurnNonce,
                OpenSession, Authenticate, ActCommit, Abort
  <2> QED BY <2>1, RevokeAllKeeps DEF Issued
<1>4. ASSUME NEW r \in Requests, AgentStep(r)
      PROVE  /\ \A a \in Agents : agents[a].status = "revoked" => agents'[a].status = "revoked"
             /\ \A c \in Creds : creds[c].revoked => creds'[c].revoked
             /\ \A c \in Creds : Issued(c) => Issued(c)'
  <2>1. CASE \/ \E d \in Delegations, v1 \in BOOLEAN : Register(r, d, v1)
             \/ \E a \in Agents, d \in Delegations : RotateKey(r, a, d)
    BY <2>1 DEF Register, RotateKey, Issued
  <2>2. ASSUME NEW a \in Agents, NEW c \in Creds, RegisterCommit(r, a, c)
        PROVE  /\ \A b \in Agents : agents[b].status = "revoked" => agents'[b].status = "revoked"
               /\ \A e \in Creds : creds[e].revoked => creds'[e].revoked
               /\ \A e \in Creds : Issued(e) => Issued(e)'
    BY <2>2 DEF RegisterCommit, TypeOK, Issued
  <2>3. ASSUME NEW c \in Creds, IssueCredential(r, c)
        PROVE  /\ agents' = agents
               /\ \A e \in Creds : creds[e].revoked => creds'[e].revoked
               /\ \A e \in Creds : Issued(e) => Issued(e)'
    BY <2>3 DEF IssueCredential, TypeOK, Issued
  <2>4. ASSUME NEW c \in Creds, RotateCommit(r, c)
        PROVE  /\ \A b \in Agents : agents[b].status = "revoked" => agents'[b].status = "revoked"
               /\ \A e \in Creds : creds[e].revoked => creds'[e].revoked
               /\ \A e \in Creds : Issued(e) => Issued(e)'
    <3>1. \A b \in Agents : agents'[b].status = agents[b].status
      BY <2>4 DEF RotateCommit, Rotated, TypeOK, Agent
    <3>2. ~Issued(c) /\ creds' = [RevokeAll(req[r].live) EXCEPT
                                    ![c] = NewCred(req[r].agent, req[r].deleg)]
      BY <2>4 DEF RotateCommit
    <3>3. \A e \in Creds : e # c => creds'[e] = RevokeAll(req[r].live)[e]
      BY <3>2 DEF RevokeAll
    <3> QED BY <3>1, <3>2, <3>3, RevokeAllKeeps DEF Issued
  <2> QED BY <1>4, <2>1, <2>2, <2>3, <2>4 DEF AgentStep
<1> QED BY <1>1, <1>2, <1>3, <1>4, NextSplit

LEMMA RevokedExistStep ==
  ASSUME IdTypes, RevokedExist, [Next]_vars PROVE RevokedExist'
<1>1. \A c \in Creds : Issued(c) => Issued(c)'
  BY RevokedStep
<1>2. \A r \in Requests : req[r].live \subseteq Creds /\ req[r] \in Request
  BY DEF IdTypes, TypeOK, Request
<1>3. \A r \in Requests : \A c \in req'[r].live : Issued(c)
  <2>1. ASSUME NEW r \in Requests, NEW rec, Become(r, rec), \A c \in rec.live : Issued(c)
        PROVE  \A q \in Requests : \A c \in req'[q].live : Issued(c)
    BY <2>1, OneRequest DEF IdTypes, RevokedExist
  <2>2. Idle.live = {} /\ \A r \in Requests : \A c \in req[r].live : Issued(c)
    BY DEF Idle, RevokedExist
  <2>3. CASE AtOnce \/ UNCHANGED vars
    BY <2>2, <2>3 DEF AtOnce, vars, RejectParent, Tick, RevokeAgent, CreateChallenge
  <2>4. ASSUME NEW r \in Requests, ParentStep(r)
        PROVE  \A q \in Requests : \A c \in req'[q].live : Issued(c)
    <3>1. CASE RevokeParent(r)
      <4> DEFINE rec == [Idle EXCEPT !.pc = IF parent.status = "revoked" THEN "purging"
                                            ELSE "revoking",
                                     !.live = {c \in Creds : Live(c)}]
      <4>1. Become(r, rec) /\ \A c \in rec.live : Issued(c)
        BY <3>1 DEF RevokeParent, Live, Idle
      <4> QED BY <2>1, <4>1
    <3>2. CASE ApproveParent(r)
      <4> DEFINE rec == [Idle EXCEPT !.pc = "approving"]
      <4>1. Become(r, rec) /\ rec.live = {}
        BY <3>2 DEF ApproveParent, Idle
      <4> QED BY <2>1, <4>1
    <3>3. ASSUME NEW k \in ParentKeys, RotateParentKey(r, k)
          PROVE  \A q \in Requests : \A c \in req'[q].live : Issued(c)
      <4> DEFINE rec == [Idle EXCEPT !.pc = "rekeying", !.pkey = k]
      <4>1. Become(r, rec) /\ rec.live = {}
        BY <3>3 DEF RotateParentKey, Idle
      <4> QED BY <2>1, <4>1
    <3>4. CASE ApproveCommit(r) \/ RevokeParentCommit(r) \/ RotateParentKeyCommit(r)
      <4>1. Become(r, Idle)
        BY <3>4 DEF ApproveCommit, RevokeParentCommit, RotateParentKeyCommit, Done
      <4> QED BY <2>1, <2>2, <4>1
    <3> QED BY <2>4, <3>1, <3>2, <3>3, <3>4 DEF ParentStep
  <2>5. ASSUME NEW r \in Requests, AgentStep(r)
        PROVE  \A q \in Requests : \A c \in req'[q].live : Issued(c)
    <3>1. ASSUME NEW d \in Delegations, NEW v1 \in BOOLEAN, Register(r, d, v1)
          PROVE  \A q \in Requests : \A c \in req'[q].live : Issued(c)
      <4> DEFINE rec == [Idle EXCEPT !.pc = "registering", !.deleg = d, !.v1 = v1]
      <4>1. Become(r, rec) /\ rec.live = {}
        BY <3>1 DEF Register, Idle
      <4> QED BY <2>1, <4>1
    <3>2. ASSUME NEW a \in Agents, NEW c \in Creds, RegisterCommit(r, a, c)
          PROVE  \A q \in Requests : \A e \in req'[q].live : Issued(e)
      <4> DEFINE rec == [req[r] EXCEPT !.pc = "issuing", !.agent = a]
      <4>1. rec.live = req[r].live
        BY <1>2 DEF Request
      <4>2. Become(r, rec) \/ Become(r, Idle)
        BY <3>2 DEF RegisterCommit, Done
      <4> QED BY <2>1, <2>2, <4>1, <4>2
    <3>3. ASSUME NEW a \in Agents, NEW d \in Delegations, RotateKey(r, a, d)
          PROVE  \A q \in Requests : \A c \in req'[q].live : Issued(c)
      <4> DEFINE rec == [Idle EXCEPT !.pc = "rotating", !.now = clock, !.agent = a, !.deleg = d,
                                     !.row = agents[a], !.live = LiveOf(a)]
      <4>1. Become(r, rec) /\ \A c \in rec.live : Issued(c)
        BY <3>3 DEF RotateKey, LiveOf, Live, Idle
      <4> QED BY <2>1, <4>1
    <3>4. CASE \E c \in Creds : IssueCredential(r, c) \/ RotateCommit(r, c)
      <4>1. Become(r, Idle)
        BY <3>4 DEF IssueCredential, RotateCommit, Done
      <4> QED BY <2>1, <2>2, <4>1
    <3> QED BY <2>5, <3>1, <3>2, <3>3, <3>4 DEF AgentStep
  <2>6. ASSUME NEW r \in Requests, SessionStep(r)
        PROVE  \A q \in Requests : \A c \in req'[q].live : Issued(c)
    <3>1. ASSUME NEW n \in Nonces, NEW c \in Creds, NEW k \in Keys, VerifyChallenge(r, n, c, k)
          PROVE  \A q \in Requests : \A e \in req'[q].live : Issued(e)
      <4> DEFINE rec == [Idle EXCEPT !.pc = "burning", !.agent = nonces[n].agent, !.nonce = n,
                                     !.cred = c, !.key = k]
      <4>1. Become(r, rec) /\ rec.live = {}
        BY <3>1 DEF VerifyChallenge, Idle
      <4> QED BY <2>1, <4>1
    <3>2. CASE BurnNonce(r)
      <4> DEFINE rec == [req[r] EXCEPT !.pc = "opening"]
      <4>1. Become(r, rec) /\ rec.live = req[r].live
        BY <1>2, <3>2 DEF BurnNonce, Request
      <4> QED BY <2>1, <2>2, <4>1
    <3>3. ASSUME NEW t \in Tokens, NEW j \in Opt(Proofs), Authenticate(r, t, j)
          PROVE  \A q \in Requests : \A c \in req'[q].live : Issued(c)
      <4> DEFINE rec == [Idle EXCEPT !.pc = "acting", !.agent = tokens[t].agent,
                                     !.key = tokens[t].key, !.proof = j]
      <4>1. Become(r, rec) /\ rec.live = {}
        BY <3>3 DEF Authenticate, Idle
      <4> QED BY <2>1, <4>1
    <3>4. CASE ActCommit(r) \/ Abort(r) \/ \E t \in Tokens : OpenSession(r, t)
      <4>1. Become(r, Idle)
        BY <3>4 DEF ActCommit, Abort, OpenSession, Done
      <4> QED BY <2>1, <2>2, <4>1
    <3> QED BY <2>6, <3>1, <3>2, <3>3, <3>4 DEF SessionStep
  <2> QED BY <2>3, <2>4, <2>5, <2>6, NextSplit
<1>4. \A c \in Creds : creds'[c].revoked => Issued(c)'
  <2>1. ASSUME NEW live \in SUBSET Creds, \A c \in live : Issued(c), NEW c \in Creds,
               RevokeAll(live)[c].revoked
        PROVE  Issued(c)
    BY <2>1 DEF RevokeAll, RevokedExist
  <2>2. CASE creds' = creds
    BY <2>2 DEF RevokedExist, Issued
  <2>3. ASSUME NEW live \in SUBSET Creds, \A c \in live : Issued(c), creds' = RevokeAll(live)
        PROVE  \A c \in Creds : creds'[c].revoked => Issued(c)'
    BY <1>1, <2>1, <2>3
  <2>4. ASSUME NEW live \in SUBSET Creds, \A c \in live : Issued(c), NEW e \in Creds,
               NEW rec, rec.revoked = FALSE, creds' = [RevokeAll(live) EXCEPT ![e] = rec]
        PROVE  \A c \in Creds : creds'[c].revoked => Issued(c)'
    <3>1. \A c \in Creds : creds'[c] = IF c = e THEN rec ELSE RevokeAll(live)[c]
      BY <2>4 DEF RevokeAll
    <3> QED BY <1>1, <2>1, <2>4, <3>1
  <2>5. ASSUME NEW e \in Creds, NEW rec, rec.revoked = FALSE, creds' = [creds EXCEPT ![e] = rec]
        PROVE  \A c \in Creds : creds'[c].revoked => Issued(c)'
    BY <1>1, <2>5 DEF RevokedExist, IdTypes, TypeOK
  <2>6. \A a, d : NewCred(a, d).revoked = FALSE
    BY DEF NewCred
  <2>7. CASE \E r \in Requests : ParentStep(r)
    <3>1. PICK r \in Requests : creds' = creds \/ creds' = RevokeAll(req[r].live)
      BY <2>7 DEF ParentStep, ApproveParent, ApproveCommit, RevokeParent, RevokeParentCommit,
                  RotateParentKey, RotateParentKeyCommit
    <3> QED BY <1>2, <2>2, <2>3, <3>1 DEF RevokedExist
  <2>8. CASE AtOnce
    <3>1. creds' = creds \/ \E a \in Agents : creds' = RevokeAll(LiveOf(a))
      BY <2>8 DEF AtOnce, RejectParent, Tick, RevokeAgent, CreateChallenge
    <3>2. \A a \in Agents : LiveOf(a) \in SUBSET Creds /\ \A c \in LiveOf(a) : Issued(c)
      BY DEF LiveOf, Live
    <3> QED BY <2>2, <2>3, <3>1, <3>2
  <2>9. CASE \E r \in Requests : SessionStep(r)
    BY <2>2, <2>9 DEF SessionStep, VerifyChallenge, BurnNonce, OpenSession, Authenticate,
                      ActCommit, Abort
  <2>10. ASSUME NEW r \in Requests, AgentStep(r)
         PROVE  \A c \in Creds : creds'[c].revoked => Issued(c)'
    <3>1. CASE \/ \E d \in Delegations, v1 \in BOOLEAN : Register(r, d, v1)
               \/ \E a \in Agents, d \in Delegations : RotateKey(r, a, d)
      BY <2>2, <3>1 DEF Register, RotateKey
    <3>2. ASSUME NEW a \in Agents, NEW c \in Creds, RegisterCommit(r, a, c)
          PROVE  \A e \in Creds : creds'[e].revoked => Issued(e)'
      <4>1. creds' = creds \/ creds' = [creds EXCEPT ![c] = NewCred(a, req[r].deleg)]
        BY <3>2 DEF RegisterCommit
      <4> QED BY <2>2, <2>5, <2>6, <4>1
    <3>3. ASSUME NEW c \in Creds, IssueCredential(r, c)
          PROVE  \A e \in Creds : creds'[e].revoked => Issued(e)'
      <4>1. creds' = [creds EXCEPT ![c] = NewCred(req[r].agent, req[r].deleg)]
        BY <3>3 DEF IssueCredential
      <4> QED BY <2>5, <2>6, <4>1
    <3>4. ASSUME NEW c \in Creds, RotateCommit(r, c)
          PROVE  \A e \in Creds : creds'[e].revoked => Issued(e)'
      <4>1. creds' = [RevokeAll(req[r].live) EXCEPT ![c] = NewCred(req[r].agent, req[r].deleg)]
        BY <3>4 DEF RotateCommit
      <4>2. req[r].live \in SUBSET Creds /\ \A e \in req[r].live : Issued(e)
        BY <1>2 DEF RevokedExist
      <4> QED BY <2>4, <2>6, <4>1, <4>2
    <3> QED BY <2>10, <3>1, <3>2, <3>3, <3>4 DEF AgentStep
  <2> QED BY <2>2, <2>7, <2>8, <2>9, <2>10, NextSplit DEF vars
<1>5. \A r \in Requests : req'[r].live \subseteq Creds
  BY IdTypesStep DEF IdTypes, TypeOK, Request
<1>6. \A r \in Requests : \A c \in req'[r].live : Issued(c)'
  BY <1>1, <1>3, <1>5
<1> QED BY <1>4, <1>6 DEF RevokedExist

\* A revoked agent and a revoked credential stay revoked, whatever a registration
\* or a rotation that read them before writes afterwards (revoke_agent,
\* revoke_parent, rotate_agent_key).
THEOREM RevocationsStand == Spec => RevocationIsFinal
<1>1. Init => RevokedExist
  BY DEF Init, RevokedExist, NoCred, Idle
<1> QED
  BY <1>1, IdTypesInit, IdTypesStep, RevokedExistStep, RevokedStep, PTL
     DEF Spec, RevocationIsFinal

-----------------------------------------------------------------------------
(* Requests that do not overlap.                                           *)

OneOpen == \A r, q \in Requests : At(r, "idle") \/ At(q, "idle") \/ r = q

\* Only request r is open, before and after.
Alone(r) == \A q \in Requests \ {r} : At(q, "idle") /\ req'[q] = req[q]

LEMMA SerialIsNext == ASSUME [SerialNext]_vars PROVE [Next]_vars
  BY Zenon DEF SerialNext, Next, AtOnce

LEMMA SerialSplit ==
  ASSUME IdTypes, OneOpen, [SerialNext]_vars
  PROVE  \/ UNCHANGED vars
         \/ AtOnce /\ (Tick \/ \A r \in Requests : At(r, "idle"))
         \/ \E r \in Requests : Alone(r) /\ (ParentStep(r) \/ AgentStep(r) \/ SessionStep(r))
<1> USE DEF IdTypes, TypeOK
<1>1. ASSUME NEW r \in Requests, Begins(r) PROVE \A q \in Requests \ {r} : req'[q] = req[q]
  BY <1>1 DEF Begins, ApproveParent, RevokeParent, RotateParentKey, Register, RotateKey,
              VerifyChallenge, Authenticate, Become
<1>2. ASSUME NEW r \in Requests, Continues(r)
      PROVE  ~At(r, "idle") /\ \A q \in Requests \ {r} : req'[q] = req[q]
  BY <1>2 DEF Continues, ApproveCommit, RevokeParentCommit, RotateParentKeyCommit, RegisterCommit,
              IssueCredential, RotateCommit, BurnNonce, OpenSession, ActCommit, Abort, Done,
              Become, At
<1>3. ASSUME NEW r \in Requests, Continues(r)
      PROVE  Alone(r) /\ (ParentStep(r) \/ AgentStep(r) \/ SessionStep(r))
  <2>1. Alone(r)
    BY <1>2, <1>3 DEF Alone, OneOpen
  <2>2. ParentStep(r) \/ AgentStep(r) \/ SessionStep(r)
    BY <1>3, Zenon DEF Continues, ParentStep, AgentStep, SessionStep
  <2> QED BY <2>1, <2>2
<1>4. ASSUME NEW r \in Requests, Begins(r), \A q \in Requests : At(q, "idle")
      PROVE  Alone(r) /\ (ParentStep(r) \/ AgentStep(r) \/ SessionStep(r))
  <2>1. Alone(r)
    BY <1>1, <1>4 DEF Alone
  <2>2. ParentStep(r) \/ AgentStep(r) \/ SessionStep(r)
    BY <1>4, Zenon DEF Begins, ParentStep, AgentStep, SessionStep
  <2> QED BY <2>1, <2>2
<1>5. Tick => AtOnce
  BY DEF AtOnce
<1> QED BY <1>3, <1>4, <1>5 DEF SerialNext

LEMMA AtOnceLeaves == ASSUME AtOnce PROVE req' = req
  BY DEF AtOnce, RejectParent, Tick, RevokeAgent, CreateChallenge

LEMMA OneOpenStep == ASSUME IdTypes, OneOpen, [SerialNext]_vars PROVE OneOpen'
  BY SerialSplit, AtOnceLeaves DEF OneOpen, Alone, At, vars

\* Which places each kind of step leads to, and what it leaves alone.
LEMMA ParentPlaces ==
  ASSUME IdTypes, NEW r \in Requests, ParentStep(r)
  PROVE  /\ req'[r].pc \in {"idle", "approving", "revoking", "purging", "rekeying"}
         /\ UNCHANGED <<clock, agents, nonces, tokens, told>>
<1> USE DEF IdTypes, TypeOK, Become, Idle
<1>1. CASE ApproveParent(r) \/ RevokeParent(r)
  BY <1>1 DEF ApproveParent, RevokeParent
<1>3. ASSUME NEW k \in ParentKeys, RotateParentKey(r, k)
      PROVE  req'[r].pc = "rekeying" /\ UNCHANGED <<clock, agents, nonces, tokens, told>>
  BY <1>3 DEF RotateParentKey
<1>2. CASE ApproveCommit(r) \/ RevokeParentCommit(r) \/ RotateParentKeyCommit(r)
  BY <1>2 DEF ApproveCommit, RevokeParentCommit, RotateParentKeyCommit, Done
<1> QED BY <1>1, <1>2, <1>3 DEF ParentStep

LEMMA AgentPlaces ==
  ASSUME IdTypes, NEW r \in Requests, AgentStep(r)
  PROVE  /\ req'[r].pc \in {"idle", "registering", "issuing", "rotating"}
         /\ UNCHANGED <<clock, parent, nonces, tokens>>
<1> USE DEF IdTypes, TypeOK, Become, Idle
<1>1. ASSUME NEW d \in Delegations, NEW v1 \in BOOLEAN, Register(r, d, v1)
      PROVE  req'[r].pc = "registering" /\ UNCHANGED <<clock, parent, nonces, tokens>>
  BY <1>1 DEF Register
<1>2. ASSUME NEW a \in Agents, NEW d \in Delegations, RotateKey(r, a, d)
      PROVE  req'[r].pc = "rotating" /\ UNCHANGED <<clock, parent, nonces, tokens>>
  BY <1>2 DEF RotateKey
<1>3. ASSUME NEW a \in Agents, NEW c \in Creds, RegisterCommit(r, a, c)
      PROVE  req'[r].pc \in {"idle", "issuing"} /\ UNCHANGED <<clock, parent, nonces, tokens>>
  <2>1. CASE req[r].v1
    BY <1>3, <2>1 DEF RegisterCommit, Done
  <2>2. CASE ~req[r].v1
    <3> DEFINE rec == [req[r] EXCEPT !.pc = "issuing", !.agent = a]
    <3>1. rec.pc = "issuing"
      BY DEF Request
    <3>2. req' = [req EXCEPT ![r] = rec] /\ UNCHANGED <<clock, parent, nonces, tokens>>
      BY <1>3, <2>2 DEF RegisterCommit
    <3> QED BY <3>1, <3>2
  <2> QED BY <2>1, <2>2
<1>4. ASSUME NEW c \in Creds, IssueCredential(r, c) \/ RotateCommit(r, c)
      PROVE  req'[r].pc = "idle" /\ UNCHANGED <<clock, parent, nonces, tokens>>
  BY <1>4 DEF IssueCredential, RotateCommit, Done
<1> QED BY <1>1, <1>2, <1>3, <1>4 DEF AgentStep

LEMMA SessionPlaces ==
  ASSUME IdTypes, NEW r \in Requests, SessionStep(r)
  PROVE  /\ req'[r].pc \in {"idle", "burning", "opening", "acting"}
         /\ UNCHANGED <<clock, parent, used, agents, creds, told>>
<1> USE DEF IdTypes, TypeOK, Become, Idle
<1>1. ASSUME NEW n \in Nonces, NEW c \in Creds, NEW k \in Keys, VerifyChallenge(r, n, c, k)
      PROVE  req'[r].pc = "burning"
  BY <1>1 DEF VerifyChallenge
<1>2. ASSUME NEW t \in Tokens, NEW j \in Opt(Proofs), Authenticate(r, t, j)
      PROVE  req'[r].pc = "acting"
  BY <1>2 DEF Authenticate
<1>3. CASE BurnNonce(r)
  BY <1>3 DEF BurnNonce, Request
<1>4. CASE ActCommit(r) \/ Abort(r) \/ \E t \in Tokens : OpenSession(r, t)
  BY <1>4 DEF ActCommit, Abort, OpenSession, Done
<1>5. req'[r].pc \in {"idle", "burning", "opening", "acting"}
  BY <1>1, <1>2, <1>3, <1>4 DEF SessionStep, BurnNonce, Request
<1>6. UNCHANGED <<clock, parent, used, agents, creds, told>>
  BY DEF SessionStep, VerifyChallenge, BurnNonce, OpenSession, Authenticate, ActCommit, Abort
<1> QED BY <1>5, <1>6

\* A used nonce was issued, and its session is open, about to be, or given up.
NonceInv ==
  /\ OneSessionPerNonce
  /\ \A t \in Tokens : tokens[t].nonce # None => nonces[tokens[t].nonce].used
  /\ \A n \in Nonces : nonces[n].used => nonces[n].agent # None
  /\ \A r \in Requests :
       /\ At(r, "burning") => /\ nonces[req[r].nonce].agent # None
                              /\ ~nonces[req[r].nonce].used
       /\ At(r, "opening") => /\ nonces[req[r].nonce].used
                              /\ \A t \in Tokens : tokens[t].nonce # req[r].nonce

LEMMA NoncesStay ==
  ASSUME IdTypes, NonceInv, UNCHANGED <<nonces, tokens>>,
         \A q \in Requests : req'[q] = req[q] \/ req'[q].pc \notin {"burning", "opening"}
  PROVE  NonceInv'
  BY DEF NonceInv, OneSessionPerNonce, At

LEMMA NonceStep == ASSUME IdTypes, OneOpen, NonceInv, [SerialNext]_vars PROVE NonceInv'
<1> USE DEF IdTypes
<1>t. /\ \A t \in Tokens : tokens[t].nonce \in Nonces \cup {None}
      /\ \A n \in Nonces : nonces[n].used \in BOOLEAN
  BY DEF TypeOK, Token, Nonce, Opt
<1>1. CASE UNCHANGED vars
  BY <1>1, NoncesStay DEF vars
<1>2. CASE AtOnce
  <2>1. ASSUME NEW a \in Agents, NEW n \in Nonces, CreateChallenge(a, n) PROVE NonceInv'
    <3>1. /\ UNCHANGED <<tokens, req>>
          /\ \A m \in Nonces \ {n} : nonces'[m] = nonces[m]
          /\ nonces[n].agent = None /\ nonces'[n].agent = a /\ ~nonces'[n].used
      BY <2>1 DEF CreateChallenge, TypeOK
    <3>2. ~nonces[n].used
      BY <3>1 DEF NonceInv
    <3>3. \A t \in Tokens : tokens[t].nonce # n
      BY <3>2, IdentityAssumption DEF NonceInv
    <3>4. \A q \in Requests : At(q, "burning") \/ At(q, "opening") =>
             req[q].nonce \in Nonces /\ req[q].nonce # n
      BY <3>1, <3>2 DEF NonceInv, Hands, HandOK, At
    <3> QED BY <1>t, <3>1, <3>2, <3>3, <3>4, IdentityAssumption
             DEF NonceInv, OneSessionPerNonce, At
  <2>2. CASE RejectParent \/ Tick \/ \E a \in Agents : RevokeAgent(a)
    BY <2>2, NoncesStay DEF RejectParent, Tick, RevokeAgent
  <2> QED BY <1>2, <2>1, <2>2 DEF AtOnce
<1>3. ASSUME NEW r \in Requests, Alone(r), ParentStep(r) \/ AgentStep(r) PROVE NonceInv'
  BY <1>3, ParentPlaces, AgentPlaces, NoncesStay DEF Alone
<1>4. ASSUME NEW r \in Requests, Alone(r), SessionStep(r) PROVE NonceInv'
  <2>o. \A q \in Requests \ {r} : At(q, "idle")' /\ req'[q] = req[q]
    BY <1>4 DEF Alone, At
  <2>1. ASSUME NEW n \in Nonces, NEW c \in Creds, NEW k \in Keys, VerifyChallenge(r, n, c, k)
        PROVE  NonceInv'
    <3>1. req'[r].pc = "burning" /\ req'[r].nonce = n /\ UNCHANGED <<nonces, tokens>>
      BY <2>1 DEF VerifyChallenge, Become, Idle, TypeOK
    <3>2. nonces[n].agent # None /\ ~nonces[n].used
      BY <2>1 DEF VerifyChallenge, Spendable
    <3> QED BY <2>o, <3>1, <3>2 DEF NonceInv, OneSessionPerNonce, At
  <2>2. CASE BurnNonce(r)
    <3> DEFINE n == req[r].nonce
    <3>1. n \in Nonces /\ nonces[n].agent # None /\ ~nonces[n].used
      BY <2>2 DEF BurnNonce, NonceInv, Hands, HandOK, At
    <3>2. /\ req'[r].pc = "opening" /\ req'[r].nonce = n /\ tokens' = tokens
          /\ \A m \in Nonces \ {n} : nonces'[m] = nonces[m]
          /\ nonces'[n].agent = nonces[n].agent /\ nonces'[n].used
      BY <2>2, <3>1 DEF BurnNonce, Become, TypeOK, Request, Nonce
    <3>3. \A t \in Tokens : tokens[t].nonce # n
      BY <3>1, IdentityAssumption DEF NonceInv
    <3> HIDE DEF n
    <3> QED BY <1>t, <2>o, <3>1, <3>2, <3>3 DEF NonceInv, OneSessionPerNonce, At
  <2>3. ASSUME NEW t \in Tokens, OpenSession(r, t) PROVE NonceInv'
    <3> DEFINE n == req[r].nonce
    <3>1. n \in Nonces /\ nonces[n].used /\ \A u \in Tokens : tokens[u].nonce # n
      BY <2>3 DEF OpenSession, NonceInv, Hands, HandOK, At
    <3>2. /\ req'[r].pc = "idle" /\ nonces' = nonces
          /\ \A u \in Tokens \ {t} : tokens'[u] = tokens[u]
          /\ tokens'[t].nonce = n
      BY <2>3 DEF OpenSession, Done, Become, Idle, TypeOK
    <3> HIDE DEF n
    <3> QED BY <2>o, <3>1, <3>2 DEF NonceInv, OneSessionPerNonce, At
  <2>4. CASE \E t \in Tokens, j \in Opt(Proofs) : Authenticate(r, t, j)
    <3>1. req'[r].pc = "acting" /\ UNCHANGED <<nonces, tokens>>
      BY <2>4 DEF Authenticate, Become, Idle, TypeOK
    <3> QED BY <2>o, <3>1, NoncesStay
  <2>5. CASE ActCommit(r) \/ Abort(r)
    <3>1. req'[r].pc = "idle" /\ UNCHANGED <<nonces, tokens>>
      BY <2>5 DEF ActCommit, Abort, Done, Become, Idle, TypeOK
    <3> QED BY <2>o, <3>1, NoncesStay
  <2> QED BY <1>4, <2>1, <2>2, <2>3, <2>4, <2>5 DEF SessionStep
<1> QED BY <1>1, <1>2, <1>3, <1>4, SerialSplit

\* As long as no other request runs between the look at a nonce and its burning,
\* it opens one session, however many attempts die in between (verify_challenge).
THEOREM NoncesOpenOneSession == SerialSpec => []OneSessionPerNonce
<1>1. Init => OneOpen /\ NonceInv
  BY DEF Init, OneOpen, NonceInv, OneSessionPerNonce, At, Idle, NoToken, NoNonce
<1>2. NonceInv => OneSessionPerNonce
  BY DEF NonceInv
<1> QED BY <1>1, <1>2, IdTypesInit, IdTypesStep, SerialIsNext, OneOpenStep, NonceStep, PTL
        DEF SerialSpec

\* What a request that goes on to write credentials has read is still so.
HoldsCreds(r) ==
  /\ req[r].pc \in {"revoking", "purging"} => req[r].live = {c \in Creds : Live(c)}
  /\ req[r].pc \in {"registering", "issuing", "rotating"} => parent.status # "revoked"
  /\ At(r, "purging") => parent.status = "revoked"
  /\ At(r, "issuing") => /\ agents[req[r].agent].status # "none"
                         /\ agents[req[r].agent].deleg = req[r].deleg
  /\ At(r, "rotating") => /\ agents[req[r].agent].status # "none"
                          /\ req[r].live = LiveOf(req[r].agent)

IssuedToAgents == \A c \in Creds : Issued(c) => agents[creds[c].agent].status # "none"

CredInv == CredentialsLive /\ IssuedToAgents /\ \A r \in Requests : HoldsCreds(r)

\* Nothing was issued or revoked.
LEMMA CredsStay ==
  ASSUME IdTypes, CredInv, UNCHANGED <<agents, creds>>,
         parent'.status = parent.status \/ parent'.status # "revoked"
  PROVE  CredentialsLive' /\ IssuedToAgents'
  BY DEF CredInv, CredentialsLive, LiveCredentialIsCurrent, RevocationReachesCredentials,
         IssuedToAgents, Live, Issued

\* Credentials were revoked, and no agent was bound to another delegation.
LEMMA CredsRevoked ==
  ASSUME IdTypes, CredInv, NEW live, creds' = RevokeAll(live),
         \A a \in Agents : agents'[a].deleg = agents[a].deleg,
         \A a \in Agents : agents[a].status # "none" => agents'[a].status # "none"
  PROVE  /\ LiveCredentialIsCurrent' /\ IssuedToAgents'
         /\ \A c \in Creds : Live(c)' => Live(c) /\ c \notin live
<1>1. \A c \in Creds : /\ creds'[c].agent = creds[c].agent /\ creds'[c].deleg = creds[c].deleg
                       /\ ~creds'[c].revoked => ~creds[c].revoked /\ c \notin live
  BY DEF IdTypes, TypeOK, RevokeAll, Cred
<1>2. \A c \in Creds : Issued(c) => creds[c].agent \in Agents
  BY DEF IdTypes, TypeOK, Cred, Opt, Issued
<1> QED BY <1>1, <1>2 DEF CredInv, CredentialsLive, LiveCredentialIsCurrent, IssuedToAgents,
                          Live, Issued

\* One credential is issued to agent a under the delegation that binds it, and
\* none that a had is live.
LEMMA CredIssued ==
  ASSUME IdTypes, CredInv, NEW a \in Agents, NEW c \in Creds, NEW d \in Delegations,
         creds'[c] = NewCred(a, d), agents'[a].deleg = d, agents'[a].status # "none",
         parent'.status # "revoked",
         \A b \in Agents \ {a} : agents'[b] = agents[b],
         \A e \in Creds \ {c} : /\ creds'[e].agent = creds[e].agent
                                /\ creds'[e].deleg = creds[e].deleg
                                /\ ~creds'[e].revoked => ~creds[e].revoked,
         \A e \in Creds \ {c} : ~creds'[e].revoked /\ creds'[e].agent = a => creds'[e].deleg = d
  PROVE  CredentialsLive' /\ IssuedToAgents'
<1>1. creds'[c].agent = a /\ creds'[c].deleg = d
  BY DEF NewCred
<1>2. \A e \in Creds : Issued(e) => creds[e].agent \in Agents
  BY DEF IdTypes, TypeOK, Cred, Opt, Issued
<1> QED BY <1>1, <1>2 DEF CredInv, CredentialsLive, LiveCredentialIsCurrent,
             RevocationReachesCredentials, IssuedToAgents, Live, Issued

LEMMA CredStep == ASSUME IdTypes, OneOpen, CredInv, [SerialNext]_vars PROVE CredInv'
<1> USE DEF IdTypes
<1>1. CASE UNCHANGED vars
  BY <1>1 DEF vars, CredInv, CredentialsLive, LiveCredentialIsCurrent,
              RevocationReachesCredentials, IssuedToAgents, HoldsCreds, Live, Issued, LiveOf, At
<1>2. ASSUME NEW r \in Requests, Alone(r), HoldsCreds(r)', CredentialsLive', IssuedToAgents'
      PROVE  CredInv'
  <2>1. \A q \in Requests \ {r} : HoldsCreds(q)'
    BY <1>2 DEF Alone, HoldsCreds, At
  <2> QED BY <1>2, <2>1 DEF CredInv
<1>3. ASSUME NEW r \in Requests, Alone(r), SessionStep(r) PROVE CredInv'
  <2>1. HoldsCreds(r)'
    BY <1>3, SessionPlaces DEF HoldsCreds, At
  <2> QED BY <1>2, <1>3, <2>1, SessionPlaces, CredsStay
<1>4. ASSUME NEW r \in Requests, Alone(r), ParentStep(r) PROVE CredInv'
  <2>1. CASE RevokeParent(r)
    <3> DEFINE rec == [Idle EXCEPT !.pc = IF parent.status = "revoked" THEN "purging"
                                          ELSE "revoking",
                                   !.live = {c \in Creds : Live(c)}]
    <3>1. /\ rec.pc = (IF parent.status = "revoked" THEN "purging" ELSE "revoking")
          /\ rec.live = {c \in Creds : Live(c)}
      BY DEF Idle
    <3>2. req'[r] = rec /\ UNCHANGED <<parent, agents, creds>>
      BY <2>1, OneRequest DEF RevokeParent
    <3> HIDE DEF rec
    <3>3. HoldsCreds(r)'
      BY <3>1, <3>2 DEF HoldsCreds, At, Live, Issued
    <3> QED BY <1>2, <1>4, <3>2, <3>3, CredsStay
  <2>2. CASE RevokeParentCommit(r)
    <3>1. req'[r].pc = "idle"
      BY <2>2 DEF RevokeParentCommit, Done, Become, Idle, TypeOK
    <3>2. creds' = RevokeAll(req[r].live) /\ agents' = agents
      BY <2>2 DEF RevokeParentCommit
    <3>3. req[r].live = {c \in Creds : Live(c)}
      BY <2>2 DEF RevokeParentCommit, CredInv, HoldsCreds, At
    <3>4. LiveCredentialIsCurrent' /\ IssuedToAgents' /\ \A c \in Creds : ~Live(c)'
      BY <3>2, <3>3, CredsRevoked
    <3>5. CredentialsLive' /\ HoldsCreds(r)'
      BY <3>1, <3>4 DEF CredentialsLive, RevocationReachesCredentials, HoldsCreds, At
    <3> QED BY <1>2, <1>4, <3>4, <3>5
  <2>3. CASE \/ ApproveParent(r) \/ ApproveCommit(r) \/ RotateParentKeyCommit(r)
             \/ \E k \in ParentKeys : RotateParentKey(r, k)
    <3>1. /\ UNCHANGED <<agents, creds>>
          /\ parent'.status = parent.status \/ parent'.status # "revoked"
      BY <2>3 DEF ApproveParent, ApproveCommit, RotateParentKeyCommit, RotateParentKey, TypeOK, Parent
    <3>2. req'[r].pc \in {"idle", "approving", "rekeying"}
      <4>1. ASSUME NEW k \in ParentKeys, RotateParentKey(r, k) PROVE req'[r].pc = "rekeying"
        BY <4>1 DEF RotateParentKey, Become, Idle, TypeOK
      <4>2. CASE ApproveParent(r) \/ ApproveCommit(r) \/ RotateParentKeyCommit(r)
        BY <4>2 DEF ApproveParent, ApproveCommit, RotateParentKeyCommit, Done, Become, Idle, TypeOK
      <4> QED BY <2>3, <4>1, <4>2
    <3>3. HoldsCreds(r)'
      BY <3>2 DEF HoldsCreds, At
    <3> QED BY <1>2, <1>4, <3>1, <3>3, CredsStay
  <2> QED BY <1>4, <2>1, <2>2, <2>3 DEF ParentStep
<1>5. CASE AtOnce /\ (Tick \/ \A r \in Requests : At(r, "idle"))
  <2>1. CASE Tick
    BY <2>1 DEF Tick, CredInv, CredentialsLive, LiveCredentialIsCurrent,
                RevocationReachesCredentials, IssuedToAgents, HoldsCreds, Live, Issued, LiveOf, At
  <2>2. CASE \A r \in Requests : At(r, "idle")
    <3>1. \A r \in Requests : HoldsCreds(r)'
      BY <1>5, <2>2, AtOnceLeaves DEF HoldsCreds, At
    <3>2. CASE RejectParent \/ Tick \/ \E a \in Agents, n \in Nonces : CreateChallenge(a, n)
      <4>1. /\ UNCHANGED <<agents, creds>>
            /\ parent'.status = parent.status \/ parent'.status # "revoked"
        BY <3>2 DEF RejectParent, Tick, CreateChallenge, TypeOK, Parent
      <4> QED BY <3>1, <4>1, CredsStay DEF CredInv
    <3>3. ASSUME NEW a \in Agents, RevokeAgent(a) PROVE CredInv'
      <4>1. /\ creds' = RevokeAll(LiveOf(a)) /\ parent' = parent
            /\ \A b \in Agents : agents'[b].deleg = agents[b].deleg
            /\ \A b \in Agents : agents[b].status # "none" => agents'[b].status # "none"
        BY <3>3 DEF RevokeAgent, TypeOK, Agent
      <4>2. LiveCredentialIsCurrent' /\ IssuedToAgents' /\ \A c \in Creds : Live(c)' => Live(c)
        BY <4>1, CredsRevoked
      <4>3. CredentialsLive'
        BY <4>1, <4>2 DEF CredInv, CredentialsLive, RevocationReachesCredentials
      <4> QED BY <3>1, <4>2, <4>3 DEF CredInv
    <3> QED BY <1>5, <3>2, <3>3 DEF AtOnce
  <2> QED BY <1>5, <2>1, <2>2
<1>6. ASSUME NEW r \in Requests, Alone(r), AgentStep(r) PROVE CredInv'
  <2>0. req[r] \in Request
    BY DEF TypeOK
  <2>1. ASSUME NEW d \in Delegations, NEW v1 \in BOOLEAN, Register(r, d, v1) PROVE CredInv'
    <3>1. req'[r].pc = "registering" /\ UNCHANGED <<parent, agents, creds>>
      BY <2>1 DEF Register, Become, Idle, TypeOK
    <3>2. parent.status = "active"
      BY <2>1 DEF Register, Presentable
    <3>3. HoldsCreds(r)'
      BY <3>1, <3>2 DEF HoldsCreds, At
    <3> QED BY <1>2, <1>6, <3>1, <3>3, CredsStay
  <2>2. ASSUME NEW a \in Agents, NEW d \in Delegations, RotateKey(r, a, d) PROVE CredInv'
    <3>1. /\ req'[r].pc = "rotating" /\ UNCHANGED <<parent, agents, creds>>
          /\ req'[r].agent = a /\ req'[r].live = LiveOf(a)
      BY <2>2 DEF RotateKey, Become, Idle, TypeOK
    <3>2. parent.status = "active" /\ agents[a].status = "active"
      BY <2>2 DEF RotateKey, Presentable
    <3>3. HoldsCreds(r)'
      BY <3>1, <3>2 DEF HoldsCreds, At, LiveOf, Live, Issued
    <3> QED BY <1>2, <1>6, <3>1, <3>3, CredsStay
  <2>3. ASSUME NEW a \in Agents, NEW c \in Creds, RegisterCommit(r, a, c) PROVE CredInv'
    <3> DEFINE d == req[r].deleg
    <3>1. d \in Delegations /\ parent.status # "revoked" /\ parent' = parent
      BY <2>3 DEF RegisterCommit, CredInv, HoldsCreds, Hands, HandOK, At
    <3>2. /\ agents'[a].deleg = d /\ agents'[a].status = "active"
          /\ \A b \in Agents \ {a} : agents'[b] = agents[b]
      BY <2>3, IdleTypes DEF RegisterCommit, TypeOK, Agent
    <3>3. \A e \in Creds : creds[e].agent # a
      BY <2>3, IdentityAssumption DEF RegisterCommit, CredInv, IssuedToAgents, Issued
    <3>4. CASE req[r].v1
      <4>1. creds' = [creds EXCEPT ![c] = NewCred(a, d)] /\ req'[r].pc = "idle"
        BY <2>3, <3>4 DEF RegisterCommit, Done, Become, Idle, TypeOK
      <4>2. creds'[c] = NewCred(a, d) /\ \A e \in Creds \ {c} : creds'[e] = creds[e]
        BY <4>1 DEF TypeOK
      <4>3. HoldsCreds(r)'
        BY <4>1 DEF HoldsCreds, At
      <4>4. CredentialsLive' /\ IssuedToAgents'
        BY <3>1, <3>2, <3>3, <4>2, CredIssued
      <4> QED BY <1>2, <1>6, <4>3, <4>4
    <3>5. CASE ~req[r].v1
      <4> DEFINE rec == [req[r] EXCEPT !.pc = "issuing", !.agent = a]
      <4>1. rec.pc = "issuing" /\ rec.agent = a /\ rec.deleg = d
        BY <2>0 DEF Request
      <4>2. req'[r] = rec /\ creds' = creds
        BY <2>3, <3>5, OneRequest DEF RegisterCommit
      <4> HIDE DEF rec, d
      <4>3. HoldsCreds(r)'
        BY <3>1, <3>2, <4>1, <4>2 DEF HoldsCreds, At
      <4>4. CredentialsLive' /\ IssuedToAgents'
        <5>1. \A e \in Creds : Issued(e) => creds[e].agent \in Agents \ {a}
          BY <3>3 DEF TypeOK, Cred, Opt, Issued
        <5> QED BY <3>1, <3>2, <4>2, <5>1 DEF CredInv, CredentialsLive, LiveCredentialIsCurrent,
                  RevocationReachesCredentials, IssuedToAgents, Live, Issued
      <4> QED BY <1>2, <1>6, <4>3, <4>4
    <3> QED BY <3>4, <3>5
  <2>4. ASSUME NEW c \in Creds, IssueCredential(r, c) PROVE CredInv'
    <3> DEFINE a == req[r].agent
               d == req[r].deleg
    <3>1. /\ a \in Agents /\ d \in Delegations /\ parent.status # "revoked"
          /\ agents[a].status # "none" /\ agents[a].deleg = d
      BY <2>4 DEF IssueCredential, CredInv, HoldsCreds, Hands, HandOK, At
    <3>2. /\ creds' = [creds EXCEPT ![c] = NewCred(a, d)] /\ UNCHANGED <<parent, agents>>
          /\ req'[r].pc = "idle"
      BY <2>4 DEF IssueCredential, Done, Become, Idle, TypeOK
    <3>3. creds'[c] = NewCred(a, d) /\ \A e \in Creds \ {c} : creds'[e] = creds[e]
      BY <3>2 DEF TypeOK
    <3>4. \A e \in Creds : ~creds[e].revoked /\ creds[e].agent = a => creds[e].deleg = d
      BY <3>1, IdentityAssumption DEF CredInv, CredentialsLive, LiveCredentialIsCurrent, Live, Issued
    <3> HIDE DEF a, d
    <3>5. CredentialsLive' /\ IssuedToAgents'
      BY <3>1, <3>2, <3>3, <3>4, CredIssued
    <3>6. HoldsCreds(r)'
      BY <3>2 DEF HoldsCreds, At
    <3> QED BY <1>2, <1>6, <3>5, <3>6
  <2>5. ASSUME NEW c \in Creds, RotateCommit(r, c) PROVE CredInv'
    <3> DEFINE a == req[r].agent
               d == req[r].deleg
               live == req[r].live
    <3>1. /\ a \in Agents /\ d \in Delegations /\ parent.status # "revoked"
          /\ agents[a].status # "none" /\ live = LiveOf(a)
      BY <2>5 DEF RotateCommit, CredInv, HoldsCreds, Hands, HandOK, At
    <3>2. /\ creds' = [RevokeAll(live) EXCEPT ![c] = NewCred(a, d)] /\ parent' = parent
          /\ req'[r].pc = "idle"
      BY <2>5 DEF RotateCommit, Done, Become, Idle, TypeOK
    <3>3. /\ agents'[a].deleg = d /\ agents'[a].status = agents[a].status
          /\ \A b \in Agents \ {a} : agents'[b] = agents[b]
      BY <2>5, <3>1 DEF RotateCommit, Rotated, TypeOK, Agent
    <3>4. creds'[c] = NewCred(a, d) /\ \A e \in Creds \ {c} : creds'[e] = RevokeAll(live)[e]
      BY <3>2 DEF RevokeAll
    <3>5. \A e \in Creds : ~RevokeAll(live)[e].revoked => ~creds[e].revoked /\ e \notin live
      BY DEF RevokeAll, TypeOK, Cred
    <3>6. \A e \in Creds \ {c} : ~(~creds'[e].revoked /\ creds'[e].agent = a)
      <4>1. \A e \in Creds : RevokeAll(live)[e].agent = creds[e].agent
        BY RevokeAllKeeps
      <4>2. a # None
        BY <3>1, IdentityAssumption
      <4>3. \A e \in Creds : creds[e].agent = a /\ ~creds[e].revoked => e \in live
        BY <3>1, <4>2 DEF LiveOf, Live, Issued
      <4> QED BY <3>4, <3>5, <4>1, <4>3
    <3> HIDE DEF a, d, live
    <3>7. \A e \in Creds \ {c} : /\ creds'[e].agent = creds[e].agent
                                 /\ creds'[e].deleg = creds[e].deleg
                                 /\ ~creds'[e].revoked => ~creds[e].revoked
      BY <3>4, <3>5, RevokeAllKeeps
    <3>8. CredentialsLive' /\ IssuedToAgents'
      BY <3>1, <3>2, <3>3, <3>4, <3>6, <3>7, CredIssued
    <3>9. HoldsCreds(r)'
      BY <3>2 DEF HoldsCreds, At
    <3> QED BY <1>2, <1>6, <3>8, <3>9
  <2> QED BY <1>6, <2>1, <2>2, <2>3, <2>4, <2>5 DEF AgentStep
<1> QED BY <1>1, <1>3, <1>4, <1>5, <1>6, SerialSplit

\* What the table calls live is the agent's current credential under a parent
\* that is not revoked, when requests do not overlap, whichever of their commits
\* a crash comes between (register_agent, rotate_agent_key, revoke_parent).
THEOREM LiveCredentialsAreCurrent == SerialSpec => []CredentialsLive
<1>1. Init => OneOpen /\ CredInv
  BY DEF Init, OneOpen, CredInv, CredentialsLive, LiveCredentialIsCurrent,
         RevocationReachesCredentials, IssuedToAgents, HoldsCreds, Live, Issued, At, Idle, NoCred
<1>2. CredInv => CredentialsLive
  BY DEF CredInv
<1> QED BY <1>1, <1>2, IdTypesInit, IdTypesStep, SerialIsNext, OneOpenStep, CredStep, PTL
        DEF SerialSpec

\* The row keeps the key that the last rotation replaced, with the sunset that was
\* announced for it, and a rotation under way has read the row as it is.
KeyInv ==
  /\ \A a \in Agents :
       /\ told[a].key = agents[a].old
       /\ \A k \in Keys : agents[a].old = k => agents[a].sunset = told[a].until[k]
       /\ agents[a].status = "none" => agents[a].old = None
  /\ \A r \in Requests : At(r, "rotating") =>
       req[r].row = agents[req[r].agent] /\ agents[req[r].agent].status # "none"

LEMMA KeyStep == ASSUME IdTypes, OneOpen, KeyInv, [SerialNext]_vars PROVE KeyInv'
<1> USE DEF IdTypes
<1>1. CASE UNCHANGED vars
  BY <1>1 DEF vars, KeyInv, At
<1>2. CASE Tick
  BY <1>2 DEF Tick, KeyInv, At, TypeOK, Request
<1>3. CASE AtOnce /\ \A r \in Requests : At(r, "idle")
  <2>1. /\ UNCHANGED <<told, req>>
        /\ \A a \in Agents : /\ agents'[a].old = agents[a].old
                             /\ agents'[a].sunset = agents[a].sunset
                             /\ agents'[a].status = "none" => agents[a].status = "none"
    BY <1>3 DEF AtOnce, RejectParent, Tick, RevokeAgent, CreateChallenge, TypeOK, Agent
  <2> QED BY <1>3, <2>1 DEF KeyInv, At
<1>4. ASSUME NEW r \in Requests, Alone(r), ParentStep(r) \/ SessionStep(r) PROVE KeyInv'
  <2>1. UNCHANGED <<clock, agents, told>> /\ req'[r].pc # "rotating"
    BY <1>4, ParentPlaces, SessionPlaces
  <2> QED BY <1>4, <2>1 DEF KeyInv, Alone, At
<1>5. ASSUME NEW r \in Requests, Alone(r), AgentStep(r) PROVE KeyInv'
  <2>0. clock' = clock
    BY <1>5, AgentPlaces
  <2>1. ASSUME NEW d \in Delegations, NEW v1 \in BOOLEAN, Register(r, d, v1) PROVE KeyInv'
    <3>1. req'[r].pc = "registering" /\ UNCHANGED <<agents, told>>
      BY <2>1 DEF Register, Become, Idle, TypeOK
    <3> QED BY <1>5, <2>0, <3>1 DEF KeyInv, Alone, At
  <2>2. ASSUME NEW a \in Agents, NEW d \in Delegations, RotateKey(r, a, d) PROVE KeyInv'
    <3>1. /\ req'[r].pc = "rotating" /\ UNCHANGED <<agents, told>>
          /\ req'[r].agent = a /\ req'[r].row = agents[a] /\ agents[a].status = "active"
      BY <2>2 DEF RotateKey, Become, Idle, TypeOK
    <3> QED BY <1>5, <2>0, <3>1 DEF KeyInv, Alone, At, TypeOK
  <2>3. ASSUME NEW c \in Creds, IssueCredential(r, c) PROVE KeyInv'
    <3>1. req'[r].pc = "idle" /\ UNCHANGED <<agents, told>>
      BY <2>3 DEF IssueCredential, Done, Become, Idle, TypeOK
    <3> QED BY <1>5, <2>0, <3>1 DEF KeyInv, Alone, At
  <2>4. ASSUME NEW a \in Agents, NEW c \in Creds, RegisterCommit(r, a, c) PROVE KeyInv'
    <3>1. req'[r].pc \in {"idle", "issuing"}
      <4>1. CASE req[r].v1
        BY <2>4, <4>1 DEF RegisterCommit, Done, Become, Idle, TypeOK
      <4>2. CASE ~req[r].v1
        <5> DEFINE rec == [req[r] EXCEPT !.pc = "issuing", !.agent = a]
        <5>1. rec.pc = "issuing"
          BY DEF TypeOK, Request
        <5>2. req'[r] = rec
          BY <2>4, <4>2, OneRequest DEF RegisterCommit
        <5> QED BY <5>1, <5>2
      <4> QED BY <4>1, <4>2
    <3>2. /\ told' = told /\ agents[a].status = "none" /\ agents'[a].old = None
          /\ \A b \in Agents \ {a} : agents'[b] = agents[b]
      BY <2>4 DEF RegisterCommit, TypeOK, NoAgent
    <3> QED BY <1>5, <2>0, <3>1, <3>2, IdentityAssumption DEF KeyInv, Alone, At
  <2>5. ASSUME NEW c \in Creds, RotateCommit(r, c) PROVE KeyInv'
    <3> DEFINE a == req[r].agent
               d == req[r].deleg
               row == req[r].row
    <3>1. a \in Agents /\ row = agents[a] /\ agents[a].status # "none"
      BY <2>5 DEF RotateCommit, KeyInv, Hands, HandOK, At
    <3>2. req'[r].pc = "idle"
      BY <2>5 DEF RotateCommit, Done, Become, Idle, TypeOK
    <3>3. agents' = [agents EXCEPT ![a] = Rotated(a, d, row, req[r].now)]
      BY <2>5 DEF RotateCommit
    <3>4. /\ agents'[a].sunset = req[r].now + Grace
          /\ agents'[a].old = agents[a].key
          /\ agents'[a].status = agents[a].status
          /\ \A b \in Agents \ {a} : agents'[b] = agents[b]
      BY <3>1, <3>3 DEF Rotated, Written, TypeOK, Agent
    <3>5. told' = [told EXCEPT ![a] =
                     [key |-> agents[a].key,
                      until |-> [@.until EXCEPT ![agents[a].key] = req[r].now + Grace]]]
      BY <2>5 DEF RotateCommit
    <3>6. /\ told'[a].key = agents[a].key
          /\ \A k \in Keys : agents[a].key = k => told'[a].until[k] = req[r].now + Grace
          /\ \A b \in Agents \ {a} : told'[b] = told[b]
      BY <3>1, <3>5 DEF TypeOK, Announced
    <3> HIDE DEF a, d, row
    <3> QED BY <1>5, <2>0, <3>1, <3>2, <3>4, <3>6 DEF KeyInv, Alone, At
  <2> QED BY <1>5, <2>1, <2>2, <2>3, <2>4, <2>5 DEF AgentStep
<1> QED BY <1>1, <1>2, <1>3, <1>4, <1>5, SerialSplit

\* When requests do not overlap, the key that the last rotation replaced is accepted
\* until the sunset it announced, and no replaced key past its own
\* (rotate_agent_key, verify_challenge, verify_request_proof).
THEOREM OldKeysExpire == SerialSpec => []KeyGrace
<1>1. Init => OneOpen /\ KeyInv
  BY IdentityAssumption DEF Init, OneOpen, KeyInv, At, Idle, NoAgent
<1>2. IdTypes /\ KeyInv => KeyGrace
  <2> SUFFICES ASSUME IdTypes, KeyInv, NEW a \in Agents
               PROVE  /\ \A k \in Keys : KeyAccepted(a, k) => k = agents[a].key \/ clock < told[a].until[k]
                      /\ told[a].key # None /\ clock < told[a].until[told[a].key]
                           => KeyAccepted(a, told[a].key)
    BY DEF KeyGrace
  <2>1. clock \in Nat /\ agents[a].sunset \in Nat /\ told[a].key \in Opt(Keys)
    BY DEF IdTypes, TypeOK, Agent, Announced
  <2>2. told[a].key # None => told[a].key \in Keys
    BY <2>1 DEF Opt
  <2> QED BY <2>1, <2>2 DEF KeyInv, KeyAccepted
<1> QED BY <1>1, <1>2, IdTypesInit, IdTypesStep, SerialIsNext, OneOpenStep, KeyStep, PTL
        DEF SerialSpec
=============================================================================
