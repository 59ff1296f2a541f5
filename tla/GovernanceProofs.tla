------------------------- MODULE GovernanceProofs -------------------------
(***************************************************************************)
(* What Governance keeps for any number of requests, keys, mandates and    *)
(* challenges.                                                             *)
(***************************************************************************)
EXTENDS Governance, FiniteSetTheorems, WellFoundedInduction, TLAPS

-----------------------------------------------------------------------------
(* Type correctness.                                                       *)

\* A verdict is one of the three decisions.
LEMMA VerdictType ==
  \A active, amount, now : Verdict(active, amount, now) \in Decisions
BY DEF Verdict, Decisions

\* Releasing the gates of a session leaves the others as they are.
LEMMA ReleaseType ==
  ASSUME TypeOK, NEW s \in Sessions
  PROVE  /\ WithoutGates(s) \in [Mandates -> Sessions \cup {NoSession}]
         /\ \A m \in Mandates : WithoutGates(s)[m] # NoSession =>
              gate[m] = WithoutGates(s)[m] /\ gate[m] # s
BY DEF TypeOK, WithoutGates

\* The variables other than the sessions and the gates.
RowsOK ==
  /\ clock \in Times /\ authority \in BOOLEAN
  /\ mand \in [Mandates -> Mandate]
  /\ intents \in [Keys -> Intent]
  /\ auths \subseteq Keys
  /\ chals \in [Challenges -> Challenge]

LEMMA IdleType == Idle \in Session /\ Idle.pc = "idle" /\ "idle" \notin InGates
BY DEF Idle, Session, Pcs, Submitting, InGates, Decisions

LEMMA PcType ==
  /\ InGates \subseteq Pcs /\ Submitting \subseteq Pcs
  /\ {"evaluating", "recording", "trying", "committing"} = InGates
  /\ {"resolving", "free", "minting", "idle", "challenging", "verifying"} \subseteq Pcs
  /\ {"resolving", "free", "minting", "idle", "challenging", "verifying"} \cap InGates = {}
BY DEF Pcs, Submitting, InGates

LEMMA TypeInit == Init => TypeOK
<1> SUFFICES ASSUME Init PROVE TypeOK
  OBVIOUS
<1>1. RowsOK
  BY GovernanceAssumption DEF Init, RowsOK, Times, Mandate, Intent, Challenge, NoMandate,
                              NoIntent, Unissued, Decisions
<1>2. sess \in [Sessions -> Session] /\ \A s \in Sessions : At(s, "idle")
  BY IdleType DEF Init, At
<1> QED BY <1>1, <1>2 DEF Init, TypeOK, RowsOK

\* A step of one session keeps the types if what the session becomes is well
\* typed and it does not leave the gates with one in hand.
LEMMA SessionType ==
  ASSUME TypeOK, RowsOK', NEW s \in Sessions, NEW rec \in Session,
         Become(s, rec), rec.pc # "idle" => rec.key \in Keys,
         gate' \in [Mandates -> Sessions \cup {NoSession}],
         \A m \in Mandates : gate'[m] # NoSession =>
           IF gate'[m] = s THEN rec.pc \in InGates ELSE gate'[m] = gate[m]
  PROVE  TypeOK'
<1>1. sess' \in [Sessions -> Session]
  BY DEF Become, TypeOK
<1>2. sess'[s] = rec /\ \A t \in Sessions \ {s} : sess'[t] = sess[t]
  BY DEF Become, TypeOK
<1>3. \A t \in Sessions : sess'[t].pc # "idle" => sess'[t].key \in Keys
  BY <1>2 DEF TypeOK, At
<1>4. \A m \in Mandates : gate'[m] # NoSession => sess'[gate'[m]].pc \in InGates
  BY <1>2 DEF TypeOK
<1> QED BY <1>1, <1>3, <1>4 DEF TypeOK, RowsOK, At

\* The same for a step that leaves the gates alone, or releases those of s.
LEMMA SessionTypeSameGates ==
  ASSUME TypeOK, RowsOK', NEW s \in Sessions, NEW rec \in Session,
         Become(s, rec), rec.pc # "idle" => rec.key \in Keys,
         \/ gate' = gate /\ (sess[s].pc \in InGates => rec.pc \in InGates)
         \/ gate' = WithoutGates(s)
  PROVE  TypeOK'
<1>1. gate' \in [Mandates -> Sessions \cup {NoSession}]
  BY ReleaseType DEF TypeOK
<1>2. \A m \in Mandates : gate'[m] # NoSession =>
        IF gate'[m] = s THEN rec.pc \in InGates ELSE gate'[m] = gate[m]
  BY ReleaseType DEF TypeOK
<1> QED BY <1>1, <1>2, SessionType

\* No step of a request breaks the types.
LEMMA TypeSubmit ==
  ASSUME TypeOK, NEW s \in Sessions, SubmitStep(s)
  PROVE  TypeOK'
<1> DEFINE r == sess[s]
<1>r. r \in Session /\ (r.pc # "idle" => r.key \in Keys)
  BY DEF TypeOK, At
<1>1. ASSUME NEW k \in Keys, NEW amount \in Amounts, NEW fits \in BOOLEAN,
             Submit(s, k, amount, fits)
      PROVE  TypeOK'
  <2> DEFINE rec == [Idle EXCEPT
       !.pc = IF fits /\ amount > 0 /\ amount <= AgentLimit THEN "resolving" ELSE "recording",
       !.key = k, !.amount = amount, !.now = clock]
  <2>1. clock \in Nat /\ amount \in Nat
    BY GovernanceAssumption DEF TypeOK, Times
  <2>2. rec \in Session /\ rec.key = k
    BY <2>1, PcType DEF Idle, Session, Decisions
  <2>3. RowsOK' /\ gate' = gate /\ r.pc = "idle" /\ Become(s, rec)
    BY <1>1 DEF Submit, TypeOK, RowsOK, At
  <2> HIDE DEF rec
  <2> QED BY <2>2, <2>3, PcType, SessionTypeSameGates
<1>2. ASSUME Resolve(s) PROVE TypeOK'
  <2> DEFINE rec == [r EXCEPT !.want = ActiveAt(r.now),
       !.pc = IF ActiveAt(r.now) # {} THEN "trying"
              ELSE IF Lapsed \/ MandateRequired THEN "recording" ELSE "free"]
  <2>1. ActiveAt(r.now) \subseteq Mandates
    BY DEF ActiveAt
  <2>2. rec \in Session /\ rec.key = r.key
    BY <1>r, <2>1, PcType DEF Session
  <2>3. RowsOK' /\ gate' = gate /\ r.pc = "resolving" /\ Become(s, rec)
    BY <1>2 DEF Resolve, TypeOK, RowsOK, At
  <2> HIDE DEF rec
  <2> QED BY <1>r, <2>2, <2>3, PcType, SessionTypeSameGates
<1>3. ASSUME TakeGate(s) PROVE TypeOK'
  <2> DEFINE m == Min(r.want)
             rec == [r EXCEPT !.want = @ \ {m},
                       !.pc = IF r.want = {m} THEN "evaluating" ELSE "committing"]
  <2>1. rec \in Session /\ rec.key = r.key /\ rec.pc \in InGates
    BY <1>r, PcType DEF Session
  <2>2. RowsOK' /\ gate' = [gate EXCEPT ![m] = s] /\ r.pc = "trying" /\ Become(s, rec)
    BY <1>3 DEF TakeGate, TypeOK, RowsOK, At
  <2>3. /\ gate' \in [Mandates -> Sessions \cup {NoSession}]
        /\ \A n \in Mandates : gate'[n] # s => gate'[n] = gate[n]
    BY <2>2 DEF TypeOK
  <2> HIDE DEF rec, m
  <2> QED BY <1>r, <2>1, <2>2, <2>3, SessionType
<1>4. ASSUME CommitForNext(s) PROVE TypeOK'
  <2> DEFINE rec == [r EXCEPT !.pc = "trying"]
  <2>1. rec \in Session /\ rec.key = r.key
    BY <1>r, PcType DEF Session
  <2>2. RowsOK' /\ gate' = WithoutGates(s) /\ r.pc = "committing" /\ Become(s, rec)
    BY <1>4 DEF CommitForNext, TypeOK, RowsOK, At
  <2> HIDE DEF rec
  <2> QED BY <1>r, <2>1, <2>2, SessionTypeSameGates
<1>5. ASSUME GateTimeout(s) PROVE TypeOK'
  <2> DEFINE rec == [r EXCEPT !.pc = "recording", !.want = {}]
  <2>1. rec \in Session /\ rec.key = r.key /\ rec.pc \in InGates
    BY <1>r, PcType DEF Session
  <2>2. RowsOK' /\ gate' = gate /\ r.pc = "trying" /\ Become(s, rec)
    BY <1>5 DEF GateTimeout, TypeOK, RowsOK, At
  <2> HIDE DEF rec
  <2> QED BY <1>r, <2>1, <2>2, SessionTypeSameGates
<1>6. ASSUME Evaluate(s) PROVE TypeOK'
  <2> DEFINE rec == [r EXCEPT !.pc = "recording", !.under = ActiveAt(r.now),
               !.verdict = IF ActiveAt(r.now) = {} THEN "DENY"
                           ELSE Verdict(ActiveAt(r.now), r.amount, r.now)]
  <2>1. ActiveAt(r.now) \subseteq Mandates /\ "DENY" \in Decisions
    BY DEF ActiveAt, Decisions
  <2>2. rec \in Session /\ rec.key = r.key /\ rec.pc \in InGates
    BY <1>r, <2>1, PcType, VerdictType DEF Session
  <2>3. RowsOK' /\ gate' = gate /\ r.pc = "evaluating" /\ Become(s, rec)
    BY <1>6 DEF Evaluate, TypeOK, RowsOK, At
  <2> HIDE DEF rec
  <2> QED BY <1>r, <2>2, <2>3, SessionTypeSameGates
<1>7. ASSUME EvaluateFree(s) PROVE TypeOK'
  <2> DEFINE rec == [r EXCEPT !.pc = "recording", !.under = {},
               !.verdict = Verdict({}, r.amount, r.now)]
  <2>1. rec \in Session /\ rec.key = r.key /\ rec.pc \in InGates
    BY <1>r, PcType, VerdictType DEF Session
  <2>2. RowsOK' /\ gate' = gate /\ r.pc = "free" /\ Become(s, rec)
    BY <1>7 DEF EvaluateFree, TypeOK, RowsOK, At
  <2> HIDE DEF rec
  <2> QED BY <1>r, <2>1, <2>2, SessionTypeSameGates
<1>8. ASSUME Record(s) PROVE TypeOK'
  <2> DEFINE rec == IF Mints(r.verdict)
                    THEN [Idle EXCEPT !.pc = "minting", !.key = r.key, !.now = r.now] ELSE Idle
  <2>1. r.pc = "recording" /\ r.key \in Keys /\ clock \in Nat
    BY <1>8, <1>r, GovernanceAssumption DEF Record, At, TypeOK, Times
  <2>2. rec \in Session /\ (rec.pc # "idle" => rec.key \in Keys)
    BY <1>r, <2>1, PcType, IdleType DEF Session, Idle, Decisions
  <2>3. intents' \in [Keys -> Intent]
    BY <1>8, <1>r, <2>1 DEF Record, TypeOK, Session, Intent, Decisions
  <2>4. RowsOK' /\ gate' = WithoutGates(s) /\ Become(s, rec)
    BY <1>8, <2>3 DEF Record, TypeOK, RowsOK
  <2> HIDE DEF rec
  <2> QED BY <2>2, <2>4, SessionTypeSameGates
<1>9. ASSUME Mint(s) PROVE TypeOK'
  <2>1. RowsOK' /\ gate' = gate /\ r.pc = "minting" /\ Become(s, Idle)
    BY <1>9, <1>r DEF Mint, TypeOK, RowsOK, At
  <2> QED BY <2>1, IdleType, PcType, SessionTypeSameGates
<1>10. ASSUME Crash(s) PROVE TypeOK'
  <2>1. RowsOK' /\ gate' = WithoutGates(s) /\ Become(s, Idle)
    BY <1>10 DEF Crash, TypeOK, RowsOK
  <2> QED BY <2>1, IdleType, SessionTypeSameGates
<1> QED BY <1>1, <1>2, <1>3, <1>4, <1>5, <1>6, <1>7, <1>8, <1>9, <1>10 DEF SubmitStep

LEMMA TypeApproval ==
  ASSUME TypeOK, NEW s \in Sessions, ApprovalStep(s)
  PROVE  TypeOK'
<1> DEFINE r == sess[s]
<1>r. r \in Session /\ (r.pc # "idle" => r.key \in Keys) /\ clock \in Nat
  BY DEF TypeOK, At, Times
<1>1. ASSUME NEW k \in Keys, ChallengeRead(s, k) PROVE TypeOK'
  <2> DEFINE rec == [Idle EXCEPT !.pc = "challenging", !.key = k, !.now = clock,
               !.burn = {c \in Challenges : chals[c].key = k /\ ~chals[c].used}]
  <2>1. rec \in Session /\ rec.key = k
    BY <1>r, PcType DEF Session, Idle, Decisions
  <2>2. RowsOK' /\ gate' = gate /\ r.pc = "idle" /\ Become(s, rec)
    BY <1>1 DEF ChallengeRead, TypeOK, RowsOK, At
  <2> HIDE DEF rec
  <2> QED BY <2>1, <2>2, PcType, SessionTypeSameGates
<1>2. ASSUME NEW c \in Challenges, ChallengeIssue(s, c) PROVE TypeOK'
  <2>1. r.key \in Keys /\ r.now + ChallengeTTL \in Nat
    BY <1>2, <1>r, GovernanceAssumption DEF ChallengeIssue, At, Session
  <2>2. chals' \in [Challenges -> Challenge]
    BY <1>2, <2>1 DEF ChallengeIssue, TypeOK, Challenge
  <2>3. RowsOK' /\ gate' = gate /\ r.pc = "challenging" /\ Become(s, Idle)
    BY <1>2, <2>2 DEF ChallengeIssue, TypeOK, RowsOK, At
  <2> QED BY <2>3, IdleType, PcType, SessionTypeSameGates
<1>3. ASSUME NEW c \in Challenges, VerifyRead(s, c) PROVE TypeOK'
  <2> DEFINE rec == [Idle EXCEPT !.pc = "verifying", !.key = chals[c].key, !.burn = {c}]
  <2>1. chals[c].key \in Keys
    BY <1>3 DEF VerifyRead, TypeOK, Challenge
  <2>2. rec \in Session /\ rec.key \in Keys
    BY <2>1, PcType DEF Session, Idle, Decisions
  <2>3. RowsOK' /\ gate' = gate /\ r.pc = "idle" /\ Become(s, rec)
    BY <1>3 DEF VerifyRead, TypeOK, RowsOK, At
  <2> HIDE DEF rec
  <2> QED BY <2>2, <2>3, PcType, SessionTypeSameGates
<1>4. ASSUME VerifyCommit(s) PROVE TypeOK'
  <2>1. intents' \in [Keys -> Intent] /\ auths' \subseteq Keys
    <3>1. r.key \in Keys /\ intents \in [Keys -> Intent] /\ auths \subseteq Keys
      BY <1>4, <1>r DEF VerifyCommit, At, TypeOK
    <3>2. [intents[r.key] EXCEPT !.decision = "ALLOW", !.verified = TRUE] \in Intent
      BY <3>1 DEF Intent, Decisions
    <3>3. \/ intents' = intents /\ auths' = auths
          \/ /\ intents' = [intents EXCEPT ![r.key].decision = "ALLOW", ![r.key].verified = TRUE]
             /\ auths' = auths \cup {r.key}
      BY <1>4 DEF VerifyCommit
    <3> QED BY <3>1, <3>2, <3>3
  <2>9. \A c \in Challenges : chals[c] \in Challenge /\ [chals[c] EXCEPT !.used = TRUE] \in Challenge
    BY DEF TypeOK, Challenge
  <2>10. \/ chals' = chals
        \/ chals' = [c \in Challenges |->
             IF c \in r.burn THEN [chals[c] EXCEPT !.used = TRUE] ELSE chals[c]]
    BY <1>4 DEF VerifyCommit
  <2>2. chals' \in [Challenges -> Challenge]
    BY <2>9, <2>10 DEF TypeOK
  <2>3. UNCHANGED <<clock, authority, mand, gate>>
    BY <1>4 DEF VerifyCommit
  <2>4. r.pc = "verifying" /\ Become(s, Idle)
    BY <1>4 DEF VerifyCommit, At
  <2>5. RowsOK'
    BY <2>1, <2>2, <2>3 DEF TypeOK, RowsOK
  <2> QED BY <2>3, <2>4, <2>5, IdleType, PcType, SessionTypeSameGates
<1> QED BY <1>1, <1>2, <1>3, <1>4 DEF ApprovalStep

LEMMA TypeAdmin ==
  ASSUME TypeOK, AdminStep
  PROVE  TypeOK'
<1> USE GovernanceAssumption
<1>1. ASSUME NEW m \in Mandates, NEW from \in Times, NEW until \in 1 .. MaxClock + 1,
             CreateMandate(m, from, until)
      PROVE  TypeOK'
  <2>1. clock \in Nat /\ from \in Nat /\ until \in Nat
    BY DEF TypeOK, Times
  <2>2. mand' \in [Mandates -> Mandate]
    BY <1>1, <2>1 DEF CreateMandate, TypeOK, Mandate
  <2> QED BY <1>1, <2>2 DEF CreateMandate, TypeOK, At
<1>2. ASSUME NEW m \in Mandates, RevokeMandate(m) PROVE TypeOK'
  BY <1>2 DEF RevokeMandate, TypeOK, Mandate, At
<1>3. ASSUME SweepMandates PROVE TypeOK'
  BY <1>3 DEF SweepMandates, TypeOK, Mandate, At
<1>4. ASSUME ExpireReviews PROVE TypeOK'
  BY <1>4 DEF ExpireReviews, TypeOK, Intent, Decisions, At
<1>5. ASSUME RevokeAuthority PROVE TypeOK'
  BY <1>5 DEF RevokeAuthority, TypeOK, At
<1>6. ASSUME Tick PROVE TypeOK'
  BY <1>6 DEF Tick, TypeOK, Times, At
<1> QED BY <1>1, <1>2, <1>3, <1>4, <1>5, <1>6 DEF AdminStep

LEMMA TypeStep == TypeOK /\ [Next]_vars => TypeOK'
<1>1. ASSUME TypeOK, UNCHANGED vars PROVE TypeOK'
  BY <1>1 DEF TypeOK, vars, At
<1> QED BY <1>1, TypeSubmit, TypeApproval, TypeAdmin DEF Next

\* Every variable keeps its type under every interleaving, and no gate outlives
\* the transaction that took it.
THEOREM GovernanceTypeCorrect == Spec => []TypeOK
<1> QED BY TypeInit, TypeStep, PTL DEF Spec

-----------------------------------------------------------------------------
(***************************************************************************)
(* A recorded decision is final, mandates bind, and an authorization needs *)
(* a decision to allow: for any number of requests, keys and mandates.     *)
(***************************************************************************)
\* The places of a submission before it has a verdict.
Before == {"resolving", "trying", "committing", "evaluating", "free"}

\* What a request that is about to approve relies on: the intent it read still
\* awaits approval, or was approved and authorized by another.
ApprovalInv ==
  \A s \in Sessions : At(s, "verifying") =>
    /\ MfaRequired(intents[sess[s].key].amount)
    /\ \/ intents[sess[s].key].decision = "REVIEW"
       \/ intents[sess[s].key].decision = "ALLOW" /\ sess[s].key \in auths

\* What a step may do to a recorded intent.
KeepsIntent(k) ==
  /\ intents'[k].amount = intents[k].amount
  /\ intents'[k].created = intents[k].created
  /\ intents'[k].under = intents[k].under
  /\ intents[k].verified => intents'[k].verified
  /\ \/ intents'[k].decision = intents[k].decision
     \/ /\ intents[k].decision = "REVIEW" /\ MfaRequired(intents[k].amount)
        /\ intents'[k].decision = "ALLOW" /\ intents'[k].verified /\ k \in auths'
     \/ /\ intents[k].decision = "REVIEW" /\ ~MfaRequired(intents[k].amount)
        /\ intents'[k].decision = "DENY"

\* A step of one request leaves the others where they are.
LEMMA OthersStay ==
  ASSUME TypeOK, NEW s \in Sessions, SubmitStep(s) \/ ApprovalStep(s)
  PROVE  \A t \in Sessions \ {s} : sess'[t] = sess[t]
<1>1. \E rec : Become(s, rec)
  <2>1. CASE SubmitStep(s)
    BY <2>1 DEF SubmitStep, Submit, Resolve, TakeGate, CommitForNext, GateTimeout, Evaluate,
                EvaluateFree, Record, Mint, Crash
  <2>2. CASE ApprovalStep(s)
    BY <2>2 DEF ApprovalStep, ChallengeRead, ChallengeIssue, VerifyRead, VerifyCommit
  <2> QED BY <2>1, <2>2
<1> QED BY <1>1 DEF Become, TypeOK

LEMMA AdminStays == AdminStep => sess' = sess
BY DEF AdminStep, CreateMandate, RevokeMandate, SweepMandates, ExpireReviews, RevokeAuthority, Tick

\* Where each step of a submission leaves its session.
LEMMA SubmitMoves ==
  ASSUME TypeOK, NEW s \in Sessions, SubmitStep(s)
  PROVE  /\ sess'[s].pc \in Submitting \cup {"idle"}
         /\ sess'[s].pc = "minting" => Record(s)
<1> USE DEF Become, TypeOK, Session, Submitting, InGates, Idle
<1>1. ASSUME NEW k \in Keys, NEW amount \in Amounts, NEW fits \in BOOLEAN,
             Submit(s, k, amount, fits)
      PROVE  sess'[s].pc \in {"resolving", "recording"}
  BY <1>1 DEF Submit
<1>2. Resolve(s) => sess'[s].pc \in {"trying", "recording", "free"}
  BY DEF Resolve
<1>3. TakeGate(s) => sess'[s].pc \in {"evaluating", "committing"}
  BY DEF TakeGate
<1>4. CommitForNext(s) => sess'[s].pc = "trying"
  BY DEF CommitForNext
<1>5. GateTimeout(s) => sess'[s].pc = "recording"
  BY DEF GateTimeout
<1>6. Evaluate(s) => sess'[s].pc = "recording"
  BY DEF Evaluate
<1>7. EvaluateFree(s) => sess'[s].pc = "recording"
  BY DEF EvaluateFree
<1>8. Record(s) => sess'[s].pc \in {"minting", "idle"}
  BY DEF Record
<1>9. Mint(s) \/ Crash(s) => sess'[s].pc = "idle"
  BY DEF Mint, Crash
<1> QED BY <1>1, <1>2, <1>3, <1>4, <1>5, <1>6, <1>7, <1>8, <1>9 DEF SubmitStep

\* The same for step-up approval.
LEMMA ApprovalMoves ==
  ASSUME TypeOK, NEW s \in Sessions
  PROVE  /\ \A k \in Keys : ChallengeRead(s, k) => sess'[s].pc = "challenging"
         /\ \A c \in Challenges : ChallengeIssue(s, c) => sess'[s].pc = "idle"
         /\ \A c \in Challenges : VerifyRead(s, c) =>
              sess'[s].pc = "verifying" /\ sess'[s].key = chals[c].key
         /\ VerifyCommit(s) => sess'[s].pc = "idle"
<1> USE DEF Become, TypeOK, Idle
<1>1. ASSUME NEW k \in Keys, ChallengeRead(s, k) PROVE sess'[s].pc = "challenging"
  BY <1>1 DEF ChallengeRead
<1>2. ASSUME NEW c \in Challenges, ChallengeIssue(s, c) PROVE sess'[s].pc = "idle"
  <2>1. Become(s, Idle)
    BY <1>2 DEF ChallengeIssue
  <2> QED BY <2>1
<1>3. ASSUME NEW c \in Challenges, VerifyRead(s, c)
      PROVE  sess'[s].pc = "verifying" /\ sess'[s].key = chals[c].key
  BY <1>3 DEF VerifyRead
<1>4. ASSUME VerifyCommit(s) PROVE sess'[s].pc = "idle"
  <2>1. Become(s, Idle)
    BY <1>4 DEF VerifyCommit
  <2> QED BY <2>1
<1> QED BY <1>1, <1>2, <1>3, <1>4

\* Only three steps write a recorded intent or none at all.
LEMMA IntentMoves ==
  ASSUME TypeOK, ApprovalInv, [Next]_vars
  PROVE  /\ \A k \in Keys : Recorded(k) => KeepsIntent(k)
         /\ auths \subseteq auths'
<1>1. ASSUME intents' = intents PROVE \A k \in Keys : KeepsIntent(k)
  BY <1>1 DEF KeepsIntent
<1>2. ASSUME NEW s \in Sessions, SubmitStep(s)
      PROVE  (\A k \in Keys : Recorded(k) => KeepsIntent(k)) /\ auths \subseteq auths'
  <2>1. CASE Record(s)
    <3>1. auths' = auths
      BY <2>1 DEF Record
    <3>2. \A k \in Keys : Recorded(k) => intents'[k] = intents[k]
      BY <2>1 DEF Record, TypeOK, Recorded
    <3> QED BY <3>1, <3>2 DEF KeepsIntent
  <2>2. CASE ~Record(s)
    <3>1. intents' = intents /\ auths \subseteq auths'
      BY <1>2, <2>2 DEF SubmitStep, Submit, Resolve, TakeGate, CommitForNext, GateTimeout,
                        Evaluate, EvaluateFree, Mint, Crash
    <3> QED BY <3>1, <1>1
  <2> QED BY <2>1, <2>2
<1>3. ASSUME NEW s \in Sessions, ApprovalStep(s)
      PROVE  (\A k \in Keys : Recorded(k) => KeepsIntent(k)) /\ auths \subseteq auths'
  <2>1. CASE VerifyCommit(s)
    <3> DEFINE key == sess[s].key
    <3>1. CASE key \in auths
      <4>1. intents' = intents /\ auths' = auths
        BY <2>1, <3>1 DEF VerifyCommit
      <4> QED BY <4>1, <1>1
    <3>2. CASE key \notin auths
      <4>1. At(s, "verifying") /\ key \in Keys
        BY <2>1 DEF VerifyCommit, At, TypeOK
      <4>2. intents[key].decision = "REVIEW" /\ MfaRequired(intents[key].amount)
        BY <4>1, <3>2 DEF ApprovalInv
      <4>3. /\ intents' = [intents EXCEPT ![key].decision = "ALLOW", ![key].verified = TRUE]
            /\ auths' = auths \cup {key}
        BY <2>1, <3>2 DEF VerifyCommit
      <4>4. /\ \A k \in Keys \ {key} : intents'[k] = intents[k]
            /\ intents'[key].decision = "ALLOW" /\ intents'[key].verified
            /\ intents'[key].amount = intents[key].amount
            /\ intents'[key].created = intents[key].created
            /\ intents'[key].under = intents[key].under
        BY <4>1, <4>3 DEF TypeOK, Intent
      <4> QED BY <4>2, <4>3, <4>4 DEF KeepsIntent
    <3> QED BY <3>1, <3>2
  <2>2. CASE ~VerifyCommit(s)
    <3>1. intents' = intents /\ auths' = auths
      BY <1>3, <2>2 DEF ApprovalStep, ChallengeRead, ChallengeIssue, VerifyRead
    <3> QED BY <3>1, <1>1
  <2> QED BY <2>1, <2>2
<1>4. ASSUME AdminStep
      PROVE  (\A k \in Keys : Recorded(k) => KeepsIntent(k)) /\ auths \subseteq auths'
  <2>1. CASE ExpireReviews
    <3>1. auths' = auths
      BY <2>1 DEF ExpireReviews
    <3>2. ASSUME NEW k \in Keys PROVE KeepsIntent(k)
      <4>1. CASE Stale(k)
        <5>1. intents'[k] = [intents[k] EXCEPT !.decision = "DENY"]
          BY <2>1, <4>1 DEF ExpireReviews
        <5>2. /\ intents'[k].decision = "DENY" /\ intents'[k].amount = intents[k].amount
              /\ intents'[k].created = intents[k].created
              /\ intents'[k].under = intents[k].under
              /\ intents'[k].verified = intents[k].verified
          BY <5>1 DEF TypeOK, Intent
        <5> QED BY <5>2, <4>1 DEF Stale, KeepsIntent
      <4>2. CASE ~Stale(k)
        BY <2>1, <4>2 DEF ExpireReviews, KeepsIntent
      <4> QED BY <4>1, <4>2
    <3> QED BY <3>1, <3>2
  <2>2. CASE ~ExpireReviews
    <3>1. intents' = intents /\ auths' = auths
      BY <1>4, <2>2 DEF AdminStep, CreateMandate, RevokeMandate, SweepMandates,
                        RevokeAuthority, Tick
    <3> QED BY <3>1, <1>1
  <2> QED BY <2>1, <2>2
<1>5. CASE UNCHANGED vars
  BY <1>5, <1>1 DEF vars
<1> QED BY <1>2, <1>3, <1>4, <1>5 DEF Next

\* A request that is about to approve was there before, or has just read an
\* intent that awaits approval.
LEMMA VerifyingStep ==
  ASSUME TypeOK, [Next]_vars, NEW t \in Sessions, At(t, "verifying")'
  PROVE  \/ sess'[t] = sess[t]
         \/ intents' = intents /\ sess'[t].key \in Keys /\ AwaitsApproval(sess'[t].key)
<1>1. ASSUME NEW s \in Sessions, SubmitStep(s) PROVE sess'[t] = sess[t]
  <2>1. CASE t = s
    <3>1. sess'[s].pc # "verifying"
      BY <1>1, SubmitMoves DEF Submitting, InGates
    <3> QED BY <2>1, <3>1 DEF At
  <2>2. CASE t # s
    BY <1>1, <2>2, OthersStay
  <2> QED BY <2>1, <2>2
<1>2. ASSUME NEW s \in Sessions, ApprovalStep(s)
      PROVE  \/ sess'[t] = sess[t]
             \/ intents' = intents /\ sess'[t].key \in Keys /\ AwaitsApproval(sess'[t].key)
  <2>1. CASE t = s
    <3>1. PICK c \in Challenges : VerifyRead(s, c)
      BY <1>2, <2>1, ApprovalMoves DEF ApprovalStep, At
    <3>2. sess'[s].key = chals[c].key /\ intents' = intents /\ chals[c].key \in Keys
      BY <3>1, ApprovalMoves DEF VerifyRead, TypeOK, Challenge
    <3> QED BY <2>1, <3>1, <3>2 DEF VerifyRead
  <2>2. CASE t # s
    BY <1>2, <2>2, OthersStay
  <2> QED BY <2>1, <2>2
<1>3. ASSUME AdminStep \/ UNCHANGED vars PROVE sess'[t] = sess[t]
  BY <1>3, AdminStays DEF vars
<1> QED BY <1>1, <1>2, <1>3 DEF Next

LEMMA ApprovalStepInv ==
  ASSUME TypeOK, ApprovalInv, [Next]_vars
  PROVE  ApprovalInv'
<1> SUFFICES ASSUME NEW t \in Sessions, At(t, "verifying")'
             PROVE  /\ MfaRequired(intents[sess[t].key].amount)'
                    /\ \/ (intents[sess[t].key].decision = "REVIEW")'
                       \/ (intents[sess[t].key].decision = "ALLOW" /\ sess[t].key \in auths)'
  BY DEF ApprovalInv
<1>1. CASE sess'[t] = sess[t]
  <2> DEFINE k == sess[t].key
  <2>1. At(t, "verifying") /\ k \in Keys
    BY <1>1 DEF At, TypeOK
  <2>2. Recorded(k) /\ MfaRequired(intents[k].amount)
        /\ (intents[k].decision = "REVIEW" \/ (intents[k].decision = "ALLOW" /\ k \in auths))
    BY <2>1 DEF ApprovalInv, Recorded
  <2>3. KeepsIntent(k) /\ auths \subseteq auths'
    BY <2>1, <2>2, IntentMoves
  <2> QED BY <1>1, <2>2, <2>3 DEF KeepsIntent, MfaRequired
<1>2. CASE intents' = intents /\ sess'[t].key \in Keys /\ AwaitsApproval(sess'[t].key)
  BY <1>2 DEF AwaitsApproval, MfaRequired
<1> QED BY <1>1, <1>2, VerifyingStep

\* DecisionIsFinal holds of every behaviour: the sweeper and a parent's approval
\* are the only writers of a recorded decision, and they never meet on an intent.
THEOREM RecordedDecisionIsFinal == Spec => DecisionIsFinal
<1>1. Init => ApprovalInv
  BY DEF Init, ApprovalInv, At, Idle
<1>2. TypeOK /\ ApprovalInv /\ [Next]_vars => ApprovalInv'
  BY ApprovalStepInv
<1>3. TypeOK /\ ApprovalInv /\ [Next]_vars =>
        [\A k \in Keys :
           Recorded(k) /\ intents'[k].decision # intents[k].decision =>
             /\ intents[k].decision = "REVIEW"
             /\ intents'[k].decision = IF MfaRequired(intents[k].amount) THEN "ALLOW" ELSE "DENY"]_vars
  BY IntentMoves DEF KeepsIntent
<1> QED BY <1>1, <1>2, <1>3, GovernanceTypeCorrect, PTL DEF Spec, DecisionIsFinal

-----------------------------------------------------------------------------
(* Mandates bind.                                                          *)

\* A submission judges as of a time that has passed, and until it has written its
\* intent the mandates in its hand still bind it.
MandateInv ==
  /\ \A k \in Keys : intents[k].created <= clock
  /\ \A s \in Sessions : sess[s].now <= clock
  /\ \A s \in Sessions : sess[s].pc \in Before => sess[s].verdict = "DENY"
  /\ \A s \in Sessions : At(s, "free") => BoundBy({}, sess[s].now)
  /\ \A s \in Sessions : At(s, "recording") /\ sess[s].verdict # "DENY" =>
                            BoundBy(sess[s].under, sess[s].now)
  /\ MandatesBind

\* A mandate is created now or ends; nothing brings one back.
LEMMA MandateMoves ==
  ASSUME TypeOK, [Next]_vars, NEW m \in Mandates
  PROVE  \/ mand'[m] = mand[m]
         \/ mand[m].status = "none" /\ mand'[m].born = clock
         \/ mand[m].status # "none" /\ mand'[m].born = mand[m].born /\ mand'[m].status # "active"
<1>1. ASSUME NEW n \in Mandates, NEW from \in Times, NEW until \in 1 .. MaxClock + 1,
             CreateMandate(n, from, until)
      PROVE  mand'[m] = mand[m] \/ (mand[m].status = "none" /\ mand'[m].born = clock)
  BY <1>1 DEF CreateMandate, TypeOK
<1>2. ASSUME NEW n \in Mandates, RevokeMandate(n)
      PROVE  \/ mand'[m] = mand[m]
             \/ mand[m].status # "none" /\ mand'[m].born = mand[m].born /\ mand'[m].status # "active"
  BY <1>2 DEF RevokeMandate, TypeOK, Mandate
<1>3. ASSUME SweepMandates
      PROVE  \/ mand'[m] = mand[m]
             \/ mand[m].status # "none" /\ mand'[m].born = mand[m].born /\ mand'[m].status # "active"
  BY <1>3 DEF SweepMandates, TypeOK, Mandate
<1>4. ASSUME ExpireReviews \/ RevokeAuthority \/ Tick \/ UNCHANGED vars PROVE mand' = mand
  BY <1>4 DEF ExpireReviews, RevokeAuthority, Tick, vars
<1>5. ASSUME NEW s \in Sessions, SubmitStep(s) PROVE mand' = mand
  BY <1>5 DEF SubmitStep, Submit, Resolve, TakeGate, CommitForNext, GateTimeout, Evaluate,
              EvaluateFree, Record, Mint, Crash
<1>6. ASSUME NEW s \in Sessions, ApprovalStep(s) PROVE mand' = mand
  BY <1>6 DEF ApprovalStep, ChallengeRead, ChallengeIssue, VerifyRead, VerifyCommit
<1> QED BY <1>1, <1>2, <1>3, <1>4, <1>5, <1>6 DEF Next, AdminStep

\* What binds a payment keeps binding it, and nothing later binds it.
LEMMA BoundStays ==
  ASSUME TypeOK, [Next]_vars, NEW under, NEW t \in Nat, t <= clock, BoundBy(under, t)
  PROVE  BoundBy(under, t)'
<1> SUFFICES ASSUME NEW m \in Mandates, mand'[m].status # "none", mand'[m].born < t
             PROVE  /\ under # {}
                    /\ m \in ActiveAt(t)' => m \in under
  BY DEF BoundBy
<1>1. clock \in Nat
  BY GovernanceAssumption DEF TypeOK, Times
<1>2. CASE mand'[m] = mand[m]
  BY <1>2 DEF BoundBy, ActiveAt
<1>3. CASE mand[m].status = "none" /\ mand'[m].born = clock
  BY <1>1, <1>3
<1>4. CASE mand[m].status # "none" /\ mand'[m].born = mand[m].born /\ mand'[m].status # "active"
  BY <1>4 DEF BoundBy, ActiveAt
<1> QED BY <1>2, <1>3, <1>4, MandateMoves

LEMMA ClockMoves ==
  ASSUME TypeOK, [Next]_vars
  PROVE  clock \in Nat /\ clock' \in Nat /\ clock <= clock'
<1>1. clock \in Nat
  BY GovernanceAssumption DEF TypeOK, Times
<1>2. clock' = clock \/ clock' = clock + 1
  BY DEF Next, SubmitStep, ApprovalStep, AdminStep, Submit, Resolve, TakeGate, CommitForNext,
         GateTimeout, Evaluate, EvaluateFree, Record, Mint, Crash, ChallengeRead,
         ChallengeIssue, VerifyRead, VerifyCommit, CreateMandate, RevokeMandate,
         SweepMandates, ExpireReviews, RevokeAuthority, Tick, vars
<1> QED BY <1>1, <1>2

\* What one step of a submission leaves in the hand of its session.
LEMMA SubmitHand ==
  ASSUME TypeOK, MandateInv, NEW s \in Sessions, SubmitStep(s)
  PROVE  /\ sess'[s].now <= clock
         /\ sess'[s].pc \in Before => sess'[s].verdict = "DENY"
         /\ sess'[s].pc = "free" => BoundBy({}, sess'[s].now)
         /\ sess'[s].pc = "recording" /\ sess'[s].verdict # "DENY" =>
              BoundBy(sess'[s].under, sess'[s].now)
<1> DEFINE r == sess[s]
           Goal == /\ sess'[s].now <= clock
                   /\ sess'[s].pc \in Before => sess'[s].verdict = "DENY"
                   /\ sess'[s].pc = "free" => BoundBy({}, sess'[s].now)
                   /\ sess'[s].pc = "recording" /\ sess'[s].verdict # "DENY" =>
                        BoundBy(sess'[s].under, sess'[s].now)
<1>0. /\ r \in Session /\ clock \in Nat /\ r.now <= clock /\ r.now \in Nat
      /\ r.pc \in Before => r.verdict = "DENY"
      /\ r.pc = "free" => BoundBy({}, r.now)
  BY GovernanceAssumption DEF TypeOK, MandateInv, Times, At, Session
<1>9. \A rec : Become(s, rec) => sess'[s] = rec
  BY DEF Become, TypeOK
<1>1. ASSUME NEW k \in Keys, NEW amount \in Amounts, NEW fits \in BOOLEAN,
             Submit(s, k, amount, fits)
      PROVE  Goal
  <2>1. sess'[s].verdict = "DENY" /\ sess'[s].now = clock /\ sess'[s].pc \in {"resolving", "recording"}
    BY <1>1, <1>9 DEF Submit, Idle
  <2> QED BY <2>1, <1>0
<1>2. ASSUME Resolve(s) PROVE Goal
  <2>1. /\ r.pc = "resolving"
        /\ sess'[s] = [r EXCEPT !.want = ActiveAt(r.now),
             !.pc = IF ActiveAt(r.now) # {} THEN "trying"
                    ELSE IF Lapsed \/ MandateRequired THEN "recording" ELSE "free"]
    BY <1>2, <1>9 DEF Resolve, At
  <2>2. sess'[s].now = r.now /\ sess'[s].verdict = "DENY"
    BY <2>1, <1>0 DEF Before, Session
  <2>3. sess'[s].pc = "free" => ~Lapsed /\ ~MandateRequired
    BY <2>1, <1>0 DEF Session
  <2>4. sess'[s].pc = "free" => BoundBy({}, r.now)
    BY <2>3 DEF BoundBy, Lapsed
  <2> QED BY <2>2, <2>4, <1>0
<1>3. ASSUME TakeGate(s) \/ CommitForNext(s) \/ GateTimeout(s) PROVE Goal
  <2>1. r.pc \in {"trying", "committing"}
    BY <1>3 DEF TakeGate, CommitForNext, GateTimeout, At
  <2>2. sess'[s].now = r.now /\ sess'[s].verdict = r.verdict /\ sess'[s].pc # "free"
    BY <1>3, <1>9, <1>0 DEF TakeGate, CommitForNext, GateTimeout, Session
  <2> QED BY <2>1, <2>2, <1>0 DEF Before
<1>4. ASSUME Evaluate(s) PROVE Goal
  <2>1. /\ sess'[s].pc = "recording" /\ sess'[s].now = r.now
        /\ sess'[s].under = ActiveAt(r.now)
        /\ ActiveAt(r.now) = {} => sess'[s].verdict = "DENY"
    BY <1>4, <1>9, <1>0 DEF Evaluate, Session
  <2>2. ActiveAt(r.now) # {} => BoundBy(ActiveAt(r.now), r.now)
    BY DEF BoundBy
  <2> QED BY <2>1, <2>2, <1>0 DEF Before
<1>5. ASSUME EvaluateFree(s) PROVE Goal
  <2>1. /\ r.pc = "free" /\ sess'[s].pc = "recording" /\ sess'[s].now = r.now
        /\ sess'[s].under = {}
    BY <1>5, <1>9, <1>0 DEF EvaluateFree, Session, At
  <2> QED BY <2>1, <1>0 DEF Before
<1>6. ASSUME Record(s) \/ Mint(s) \/ Crash(s) PROVE Goal
  <2>1. CASE sess'[s] = Idle
    BY <2>1, <1>0 DEF Idle, Before
  <2>2. CASE sess'[s] = [Idle EXCEPT !.pc = "minting", !.key = r.key, !.now = r.now]
    <3>1. sess'[s].pc = "minting" /\ sess'[s].now = r.now
      BY <2>2 DEF Idle
    <3> QED BY <3>1, <1>0 DEF Before
  <2>3. CASE Record(s)
    BY <2>1, <2>2, <2>3, <1>9 DEF Record
  <2>4. CASE Mint(s) \/ Crash(s)
    BY <2>1, <2>4, <1>9 DEF Mint, Crash
  <2> QED BY <1>6, <2>3, <2>4
<1> QED BY <1>1, <1>2, <1>3, <1>4, <1>5, <1>6 DEF SubmitStep

LEMMA ApprovalHand ==
  ASSUME TypeOK, MandateInv, NEW s \in Sessions, ApprovalStep(s)
  PROVE  /\ sess'[s].now <= clock
         /\ sess'[s].pc \in {"challenging", "verifying", "idle"}
<1>0. clock \in Nat
  BY GovernanceAssumption DEF TypeOK, Times
<1>9. \A rec : Become(s, rec) => sess'[s] = rec
  BY DEF Become, TypeOK
<1>1. ASSUME NEW k \in Keys, ChallengeRead(s, k) PROVE sess'[s].now = clock
  BY <1>1, <1>9 DEF ChallengeRead, Idle
<1>2. ASSUME NEW c \in Challenges, ChallengeIssue(s, c) PROVE sess'[s].now = 0
  BY <1>2, <1>9 DEF ChallengeIssue, Idle
<1>3. ASSUME NEW c \in Challenges, VerifyRead(s, c) PROVE sess'[s].now = 0
  BY <1>3, <1>9 DEF VerifyRead, Idle
<1>4. ASSUME VerifyCommit(s) PROVE sess'[s].now = 0
  BY <1>4, <1>9 DEF VerifyCommit, Idle
<1> QED BY <1>0, <1>1, <1>2, <1>3, <1>4, ApprovalMoves DEF ApprovalStep

\* An intent that a step changes was kept or is new: what the session that wrote
\* it had in hand, dated at its arrival, or at once when it is a denial.
LEMMA NewIntent ==
  ASSUME TypeOK, ApprovalInv, [Next]_vars, NEW k \in Keys
  PROVE  \/ intents'[k] = intents[k]
         \/ KeepsIntent(k)
         \/ \E s \in Sessions :
              /\ At(s, "recording")
              /\ intents'[k].decision = sess[s].verdict
              /\ intents'[k].under = sess[s].under
              /\ intents'[k].created = IF sess[s].verdict = "DENY" THEN clock ELSE sess[s].now
<1>1. CASE Recorded(k)
  BY <1>1, IntentMoves
<1>2. CASE ~Recorded(k)
  <2>1. ASSUME NEW s \in Sessions, Record(s)
        PROVE  \/ intents'[k] = intents[k]
               \/ /\ At(s, "recording")
                  /\ intents'[k].decision = sess[s].verdict
                  /\ intents'[k].under = sess[s].under
                  /\ intents'[k].created = IF sess[s].verdict = "DENY" THEN clock ELSE sess[s].now
    BY <2>1 DEF Record, TypeOK
  <2>2. ASSUME NEW s \in Sessions, SubmitStep(s), ~Record(s) PROVE intents' = intents
    BY <2>2 DEF SubmitStep, Submit, Resolve, TakeGate, CommitForNext, GateTimeout, Evaluate,
                EvaluateFree, Mint, Crash
  <2>3. ASSUME NEW s \in Sessions, VerifyCommit(s) PROVE intents'[k] = intents[k]
    <3>1. CASE sess[s].key \in auths
      BY <2>3, <3>1 DEF VerifyCommit
    <3>2. CASE sess[s].key \notin auths
      <4>1. At(s, "verifying") /\ intents[sess[s].key].decision = "REVIEW"
        BY <2>3, <3>2 DEF VerifyCommit, ApprovalInv
      <4>2. sess[s].key # k
        BY <4>1, <1>2 DEF Recorded
      <4>3. intents' = [intents EXCEPT ![sess[s].key].decision = "ALLOW",
                                       ![sess[s].key].verified = TRUE]
        BY <2>3, <3>2 DEF VerifyCommit
      <4> QED BY <4>2, <4>3 DEF TypeOK
    <3> QED BY <3>1, <3>2
  <2>4. ASSUME NEW s \in Sessions, ApprovalStep(s), ~VerifyCommit(s) PROVE intents' = intents
    BY <2>4 DEF ApprovalStep, ChallengeRead, ChallengeIssue, VerifyRead
  <2>5. CASE ExpireReviews
    BY <2>5, <1>2 DEF ExpireReviews, Stale, Recorded
  <2>6. ASSUME AdminStep, ~ExpireReviews PROVE intents' = intents
    BY <2>6 DEF AdminStep, CreateMandate, RevokeMandate, SweepMandates, RevokeAuthority, Tick
  <2>7. CASE UNCHANGED vars
    BY <2>7 DEF vars
  <2> QED BY <2>1, <2>2, <2>3, <2>4, <2>5, <2>6, <2>7 DEF Next
<1> QED BY <1>1, <1>2

LEMMA MandateStep ==
  ASSUME TypeOK, ApprovalInv, MandateInv, [Next]_vars
  PROVE  MandateInv'
<1>0. clock \in Nat /\ clock' \in Nat /\ clock <= clock'
  BY ClockMoves
<1>t. /\ \A s \in Sessions : sess[s].now \in Nat /\ sess[s].now <= clock
      /\ \A k \in Keys : intents[k].created \in Nat /\ intents[k].created <= clock
  BY DEF TypeOK, MandateInv, Session, Intent
<1>1. ASSUME NEW t \in Sessions
      PROVE  /\ sess'[t].now <= clock
             /\ sess'[t].pc \in Before => sess'[t].verdict = "DENY"
             /\ sess'[t].pc = "free" => BoundBy({}, sess'[t].now)
             /\ sess'[t].pc = "recording" /\ sess'[t].verdict # "DENY" =>
                  BoundBy(sess'[t].under, sess'[t].now)
  <2>1. CASE sess'[t] = sess[t]
    BY <2>1 DEF MandateInv, At
  <2>2. CASE SubmitStep(t)
    BY <2>2, SubmitHand
  <2>3. CASE ApprovalStep(t)
    BY <2>3, ApprovalHand DEF Before
  <2>4. CASE \E s \in Sessions \ {t} : SubmitStep(s) \/ ApprovalStep(s)
    BY <2>1, <2>4, OthersStay
  <2>5. CASE AdminStep \/ UNCHANGED vars
    BY <2>1, <2>5, AdminStays DEF vars
  <2> QED BY <2>2, <2>3, <2>4, <2>5 DEF Next
<1>2. \A under : \A n \in Nat : n <= clock /\ BoundBy(under, n) => BoundBy(under, n)'
  BY BoundStays
<1>3. ASSUME NEW t \in Sessions
      PROVE  /\ (At(t, "free") => BoundBy({}, sess[t].now))'
             /\ (At(t, "recording") /\ sess[t].verdict # "DENY" =>
                   BoundBy(sess[t].under, sess[t].now))'
  <2>1. sess'[t].now \in Nat /\ sess'[t].now <= clock
    BY TypeStep, <1>1 DEF TypeOK, Session
  <2>2. PICK n, u : n \in Nat /\ n = sess'[t].now /\ u = sess'[t].under
    BY <2>1
  <2>3. BoundBy({}, n) => BoundBy({}, n)'
    BY <1>2, <2>1, <2>2
  <2>4. BoundBy(u, n) => BoundBy(u, n)'
    BY <1>2, <2>1, <2>2
  <2>5. (sess'[t].pc = "free" => BoundBy({}, n))
        /\ (sess'[t].pc = "recording" /\ sess'[t].verdict # "DENY" => BoundBy(u, n))
    BY <1>1, <2>2
  <2>6. /\ BoundBy({}, n)' => BoundBy({}, sess[t].now)'
        /\ BoundBy(u, n)' => BoundBy(sess[t].under, sess[t].now)'
    BY <2>2 DEF BoundBy, ActiveAt
  <2> QED BY <2>3, <2>4, <2>5, <2>6 DEF At
<1>4. ASSUME NEW k \in Keys
      PROVE  /\ intents'[k].created <= clock
             /\ Undenied(k)' => BoundBy(intents'[k].under, intents'[k].created)
  <2>1. CASE intents'[k] = intents[k]
    BY <2>1, <1>t DEF MandateInv, MandatesBind, Undenied
  <2>2. CASE KeepsIntent(k)
    BY <2>2, <1>t DEF KeepsIntent, MandateInv, MandatesBind, Undenied
  <2>3. ASSUME NEW s \in Sessions, At(s, "recording"),
               intents'[k].decision = sess[s].verdict, intents'[k].under = sess[s].under,
               intents'[k].created = IF sess[s].verdict = "DENY" THEN clock ELSE sess[s].now
        PROVE  /\ intents'[k].created <= clock
               /\ Undenied(k)' => BoundBy(intents'[k].under, intents'[k].created)
    <3>1. CASE sess[s].verdict = "DENY"
      BY <2>3, <3>1, <1>0 DEF Undenied
    <3>2. CASE sess[s].verdict # "DENY"
      BY <2>3, <3>2, <1>t DEF Undenied, MandateInv
    <3> QED BY <3>1, <3>2
  <2> QED BY <2>1, <2>2, <2>3, NewIntent
<1>5. ASSUME NEW k \in Keys
      PROVE  (Undenied(k) => BoundBy(intents[k].under, intents[k].created))'
  <2>1. intents'[k].created \in Nat
    BY TypeStep DEF TypeOK, Intent
  <2>2. PICK n, u : n \in Nat /\ n = intents'[k].created /\ u = intents'[k].under
    BY <2>1
  <2>3. Undenied(k)' => BoundBy(u, n)'
    BY <1>2, <1>4, <2>2
  <2>4. BoundBy(u, n)' => BoundBy(intents[k].under, intents[k].created)'
    BY <2>2 DEF BoundBy, ActiveAt
  <2> QED BY <2>3, <2>4
<1>6. \A k \in Keys : intents'[k].created <= clock'
  BY <1>0, <1>4, TypeStep DEF TypeOK, Intent
<1>7. \A t \in Sessions : sess'[t].now <= clock'
  BY <1>0, <1>1, TypeStep DEF TypeOK, Session
<1> QED BY <1>1, <1>3, <1>5, <1>6, <1>7 DEF MandateInv, MandatesBind

LEMMA MandateInit == Init => ApprovalInv /\ MandateInv
<1> SUFFICES ASSUME Init PROVE ApprovalInv /\ MandateInv
  OBVIOUS
<1>1. \A k \in Keys : intents[k].created = 0 /\ intents[k].decision = "none"
  BY DEF Init, NoIntent
<1>2. \A s \in Sessions : sess[s].now = 0 /\ sess[s].pc = "idle"
  BY DEF Init, Idle
<1> QED BY <1>1, <1>2 DEF Init, ApprovalInv, MandateInv, MandatesBind, Undenied, At, Before

\* MandatesBind holds of every behaviour: a payment is bound by every mandate that
\* was in force when it arrived and still is, whatever lapsed, was revoked or
\* raced with it.
THEOREM MandatesAlwaysBind == Spec => []MandatesBind
<1>1. Init => ApprovalInv /\ MandateInv
  BY MandateInit
<1>2. TypeOK /\ ApprovalInv /\ MandateInv /\ [Next]_vars => ApprovalInv' /\ MandateInv'
  BY ApprovalStepInv, MandateStep
<1>3. MandateInv => MandatesBind
  BY DEF MandateInv
<1> QED BY <1>1, <1>2, <1>3, GovernanceTypeCorrect, PTL DEF Spec

-----------------------------------------------------------------------------
(* An authorization needs a decision to allow.                             *)

Allowed(k) ==
  intents[k].decision = "ALLOW" /\ (MfaRequired(intents[k].amount) => intents[k].verified)

\* While overlapping submissions carry different keys, nobody else records the key
\* of a submission that has not; what it mints is allowed.
OrderInv ==
  /\ Orderly
  /\ \A s \in Sessions : sess[s].pc \in Before \cup {"recording"} => ~Recorded(sess[s].key)
  /\ \A s \in Sessions : At(s, "recording") /\ sess[s].verdict = "ALLOW" =>
                            ~MfaRequired(sess[s].amount)
  /\ \A s \in Sessions : At(s, "minting") => Allowed(sess[s].key)
  /\ \A k \in auths : Allowed(k)

\* An allowed intent stays allowed.
LEMMA AllowedStays ==
  ASSUME TypeOK, ApprovalInv, [Next]_vars, NEW k \in Keys, Allowed(k)
  PROVE  Allowed(k)'
<1>1. Recorded(k) /\ KeepsIntent(k)
  BY IntentMoves DEF Allowed, Recorded
<1> QED BY <1>1 DEF Allowed, KeepsIntent, MfaRequired

\* A verdict to allow is only reached when no step-up is needed.
LEMMA AllowNeedsNoMfa ==
  \A active, amount, now : Verdict(active, amount, now) = "ALLOW" => ~MfaRequired(amount)
BY DEF Verdict, NeedsReview

\* A step of a submission that has not recorded its intent leaves all intents
\* alone, and its session with a key that has none.
LEMMA SubmitKey ==
  ASSUME TypeOK, MandateInv, OrderInv, NEW s \in Sessions, SubmitStep(s),
         sess'[s].pc \in Before \cup {"recording"}
  PROVE  /\ intents' = intents
         /\ ~Recorded(sess'[s].key)
         /\ sess'[s].pc = "recording" /\ sess'[s].verdict = "ALLOW" =>
              ~MfaRequired(sess'[s].amount)
<1> DEFINE r == sess[s]
           Goal == /\ intents' = intents
                   /\ ~Recorded(sess'[s].key)
                   /\ sess'[s].pc = "recording" /\ sess'[s].verdict = "ALLOW" =>
                        ~MfaRequired(sess'[s].amount)
<1>0. /\ r \in Session
      /\ r.pc \in Before => r.verdict = "DENY" /\ ~Recorded(r.key)
  BY DEF TypeOK, MandateInv, OrderInv
<1>9. \A rec : Become(s, rec) => sess'[s] = rec
  BY DEF Become, TypeOK
<1>1. ASSUME NEW k \in Keys, NEW amount \in Amounts, NEW fits \in BOOLEAN,
             Submit(s, k, amount, fits)
      PROVE  Goal
  <2>1. sess'[s].verdict = "DENY" /\ sess'[s].key = k
    BY <1>1, <1>9 DEF Submit, Idle
  <2> QED BY <1>1, <2>1 DEF Submit
<1>2. ASSUME Resolve(s) PROVE Goal
  <2>1. r.pc = "resolving" /\ intents' = intents
    BY <1>2 DEF Resolve, At
  <2>2. sess'[s].key = r.key /\ sess'[s].verdict = r.verdict
    BY <1>2, <1>9, <1>0 DEF Resolve, Session
  <2> QED BY <2>1, <2>2, <1>0 DEF Before
<1>3. ASSUME TakeGate(s) \/ CommitForNext(s) \/ GateTimeout(s) PROVE Goal
  <2>1. r.pc \in {"trying", "committing"} /\ intents' = intents
    BY <1>3 DEF TakeGate, CommitForNext, GateTimeout, At
  <2>2. sess'[s].key = r.key /\ sess'[s].verdict = r.verdict
    BY <1>3, <1>9, <1>0 DEF TakeGate, CommitForNext, GateTimeout, Session
  <2> QED BY <2>1, <2>2, <1>0 DEF Before
<1>4. ASSUME Evaluate(s) PROVE Goal
  <2>1. r.pc = "evaluating" /\ intents' = intents
    BY <1>4 DEF Evaluate, At
  <2>2. /\ sess'[s].key = r.key /\ sess'[s].amount = r.amount
        /\ sess'[s].verdict = IF ActiveAt(r.now) = {} THEN "DENY"
                              ELSE Verdict(ActiveAt(r.now), r.amount, r.now)
    BY <1>4, <1>9, <1>0 DEF Evaluate, Session
  <2> QED BY <2>1, <2>2, <1>0, AllowNeedsNoMfa DEF Before
<1>5. ASSUME EvaluateFree(s) PROVE Goal
  <2>1. r.pc = "free" /\ intents' = intents
    BY <1>5 DEF EvaluateFree, At
  <2>2. /\ sess'[s].key = r.key /\ sess'[s].amount = r.amount
        /\ sess'[s].verdict = Verdict({}, r.amount, r.now)
    BY <1>5, <1>9, <1>0 DEF EvaluateFree, Session
  <2> QED BY <2>1, <2>2, <1>0, AllowNeedsNoMfa DEF Before
<1>6. ASSUME Record(s) \/ Mint(s) \/ Crash(s) PROVE FALSE
  <2>1. CASE sess'[s] = Idle
    BY <2>1 DEF Idle, Before
  <2>2. CASE sess'[s] = [Idle EXCEPT !.pc = "minting", !.key = r.key, !.now = r.now]
    BY <2>2 DEF Idle, Before
  <2> QED BY <1>6, <1>9, <2>1, <2>2 DEF Record, Mint, Crash
<1> QED BY <1>1, <1>2, <1>3, <1>4, <1>5, <1>6 DEF SubmitStep

\* A key comes to be recorded only by the session that has it in hand.
LEMMA NewKey ==
  ASSUME TypeOK, ApprovalInv, [Next]_vars, NEW k \in Keys, ~Recorded(k), Recorded(k)'
  PROVE  \E s \in Sessions : /\ Record(s) /\ At(s, "recording") /\ sess[s].key = k
                            /\ intents'[k].decision = sess[s].verdict
                            /\ intents'[k].amount = sess[s].amount
<1>1. ASSUME NEW s \in Sessions, Record(s)
      PROVE  /\ At(s, "recording") /\ sess[s].key = k
             /\ intents'[k].decision = sess[s].verdict /\ intents'[k].amount = sess[s].amount
  BY <1>1 DEF Record, TypeOK, Recorded
<1>2. ASSUME NEW s \in Sessions, SubmitStep(s), ~Record(s) PROVE FALSE
  <2>1. intents' = intents
    BY <1>2 DEF SubmitStep, Submit, Resolve, TakeGate, CommitForNext, GateTimeout, Evaluate,
                EvaluateFree, Mint, Crash
  <2> QED BY <2>1 DEF Recorded
<1>3. ASSUME NEW s \in Sessions, ApprovalStep(s) PROVE FALSE
  <2>1. ASSUME VerifyCommit(s), sess[s].key \notin auths PROVE intents'[k] = intents[k]
    <3>1. At(s, "verifying") /\ intents[sess[s].key].decision = "REVIEW"
      BY <2>1 DEF VerifyCommit, ApprovalInv
    <3>2. sess[s].key # k
      BY <3>1 DEF Recorded
    <3>3. intents' = [intents EXCEPT ![sess[s].key].decision = "ALLOW",
                                     ![sess[s].key].verified = TRUE]
      BY <2>1 DEF VerifyCommit
    <3> QED BY <3>2, <3>3 DEF TypeOK
  <2>2. ASSUME ~(VerifyCommit(s) /\ sess[s].key \notin auths) PROVE intents' = intents
    BY <1>3, <2>2 DEF ApprovalStep, ChallengeRead, ChallengeIssue, VerifyRead, VerifyCommit
  <2> QED BY <2>1, <2>2 DEF Recorded
<1>4. ASSUME AdminStep PROVE FALSE
  <2>1. CASE ExpireReviews
    BY <2>1 DEF ExpireReviews, Stale, Recorded
  <2>2. ASSUME ~ExpireReviews PROVE intents' = intents
    BY <1>4, <2>2 DEF AdminStep, CreateMandate, RevokeMandate, SweepMandates, RevokeAuthority, Tick
  <2> QED BY <2>1, <2>2 DEF Recorded
<1>5. ASSUME UNCHANGED vars PROVE FALSE
  BY <1>5 DEF vars, Recorded
<1> QED BY <1>1, <1>2, <1>3, <1>4, <1>5 DEF Next

\* A request that is about to mint was there before, or has just recorded an
\* intent to allow.
LEMMA MintingStep ==
  ASSUME TypeOK, NEW s \in Sessions, SubmitStep(s), sess'[s].pc = "minting"
  PROVE  Record(s) /\ sess[s].verdict = "ALLOW"
<1>1. Record(s)
  BY SubmitMoves
<1>2. sess'[s] = IF Mints(sess[s].verdict)
                 THEN [Idle EXCEPT !.pc = "minting", !.key = sess[s].key, !.now = sess[s].now]
                 ELSE Idle
  BY <1>1 DEF Record, Become, TypeOK
<1>3. Mints(sess[s].verdict)
  BY <1>2 DEF Idle
<1> QED BY <1>1, <1>3 DEF Mints

\* What a session that has written an intent to allow wrote is allowed.
LEMMA RecordAllows ==
  ASSUME TypeOK, OrderInv, NEW s \in Sessions, Record(s), sess[s].verdict = "ALLOW"
  PROVE  Allowed(sess[s].key)'
<1> DEFINE k == sess[s].key
<1>1. At(s, "recording") /\ k \in Keys
  BY DEF Record, At, TypeOK
<1>2. ~Recorded(k) /\ ~MfaRequired(sess[s].amount)
  BY <1>1 DEF OrderInv, At
<1>3. intents'[k].decision = "ALLOW" /\ intents'[k].amount = sess[s].amount
  BY <1>1, <1>2 DEF Record, TypeOK
<1>4. sess'[s].key = k
  BY DEF Record, Mints, Become, TypeOK, Idle
<1> QED BY <1>2, <1>3, <1>4 DEF Allowed, MfaRequired

\* An authorization is new only when its session minted or approved it.
LEMMA AuthorizedStep ==
  ASSUME TypeOK, ApprovalInv, OrderInv, [Next]_vars, NEW k \in Keys, k \in auths'
  PROVE  Allowed(k)'
<1>1. CASE k \in auths
  BY <1>1, AllowedStays DEF OrderInv
<1>2. ASSUME NEW s \in Sessions, Mint(s), k \notin auths PROVE Allowed(k)'
  <2>1. Allowed(k)
    BY <1>2 DEF Mint, OrderInv
  <2> QED BY <2>1, AllowedStays
<1>3. ASSUME NEW s \in Sessions, VerifyCommit(s), k \notin auths PROVE Allowed(k)'
  <2>1. /\ k = sess[s].key
        /\ intents' = [intents EXCEPT ![k].decision = "ALLOW", ![k].verified = TRUE]
    BY <1>3 DEF VerifyCommit
  <2>2. intents'[k].decision = "ALLOW" /\ intents'[k].verified
    BY <2>1 DEF TypeOK, Intent
  <2> QED BY <2>2 DEF Allowed
<1>4. ASSUME NEW s \in Sessions, SubmitStep(s), ~Mint(s) PROVE auths' = auths
  BY <1>4 DEF SubmitStep, Submit, Resolve, TakeGate, CommitForNext, GateTimeout, Evaluate,
              EvaluateFree, Record, Crash
<1>5. ASSUME NEW s \in Sessions, ApprovalStep(s), ~VerifyCommit(s) PROVE auths' = auths
  BY <1>5 DEF ApprovalStep, ChallengeRead, ChallengeIssue, VerifyRead
<1>6. ASSUME AdminStep \/ UNCHANGED vars PROVE auths' = auths
  BY <1>6 DEF AdminStep, CreateMandate, RevokeMandate, SweepMandates, ExpireReviews,
              RevokeAuthority, Tick, vars
<1> QED BY <1>1, <1>2, <1>3, <1>4, <1>5, <1>6 DEF Next

LEMMA OrderStep ==
  ASSUME TypeOK, ApprovalInv, MandateInv, OrderInv, [Next /\ Orderly']_vars
  PROVE  OrderInv'
<1>0. [Next]_vars /\ TypeOK'
  BY TypeStep
<1>1. Orderly'
  BY DEF OrderInv, Orderly, vars
<1>2. ASSUME NEW t \in Sessions
      PROVE  /\ \/ sess'[t] = sess[t]
                \/ SubmitStep(t)
                \/ sess'[t].pc \in {"challenging", "verifying", "idle"}
  <2>1. CASE \E s \in Sessions \ {t} : SubmitStep(s) \/ ApprovalStep(s)
    BY <2>1, OthersStay
  <2>2. CASE ApprovalStep(t)
    BY <2>2, ApprovalHand
  <2>3. CASE AdminStep \/ UNCHANGED vars
    BY <2>3, AdminStays DEF vars
  <2> QED BY <1>0, <2>1, <2>2, <2>3 DEF Next
<1>3. ASSUME NEW t \in Sessions, sess'[t].pc \in Before \cup {"recording"}
      PROVE  /\ ~Recorded(sess[t].key)'
             /\ sess'[t].pc = "recording" /\ sess'[t].verdict = "ALLOW" =>
                  ~MfaRequired(sess'[t].amount)
  <2>1. CASE sess'[t] = sess[t]
    <3>1. ~Recorded(sess[t].key) /\ sess[t].key \in Keys
      BY <1>3, <2>1 DEF OrderInv, TypeOK, At, Before
    <3>2. ASSUME Recorded(sess[t].key)' PROVE FALSE
      <4>1. PICK s \in Sessions : At(s, "recording") /\ sess[s].key = sess[t].key /\ Record(s)
        <5> DEFINE k == sess[t].key
        <5>1. intents'[k].decision # "none"
          BY <3>2, <2>1 DEF Recorded
        <5>2. PICK n \in Keys : n = k
          BY <3>1
        <5> QED BY <1>0, <3>1, <5>1, <5>2, NewKey DEF Recorded
      <4>2. sess'[s].pc \in {"minting", "idle"}
        BY <4>1 DEF Record, Become, TypeOK, Idle
      <4>3. s # t
        BY <4>2, <1>3 DEF Before
      <4>4. sess[s].pc \in Submitting /\ sess[t].pc \in Submitting
        BY <4>1, <1>3, <2>1 DEF At, Submitting, InGates, Before
      <4> QED BY <4>1, <4>3, <4>4 DEF OrderInv, Orderly
    <3> QED BY <1>3, <2>1, <3>2 DEF OrderInv, At
  <2>2. CASE SubmitStep(t)
    BY <1>3, <2>2, SubmitKey DEF Recorded
  <2>3. CASE sess'[t].pc \in {"challenging", "verifying", "idle"}
    BY <1>3, <2>3 DEF Before
  <2> QED BY <1>2, <2>1, <2>2, <2>3
<1>4. ASSUME NEW t \in Sessions, sess'[t].pc = "minting"
      PROVE  Allowed(sess[t].key)'
  <2>1. CASE sess'[t] = sess[t]
    <3>1. PICK k \in Keys : k = sess[t].key
      BY <1>4, <2>1 DEF TypeOK, At
    <3>2. Allowed(k)'
      BY <1>0, <1>4, <2>1, <3>1, AllowedStays DEF OrderInv, At
    <3> QED BY <3>1, <3>2, <2>1 DEF Allowed
  <2>2. CASE SubmitStep(t)
    <3>1. Record(t) /\ sess[t].verdict = "ALLOW"
      BY <1>4, <2>2, MintingStep
    <3> QED BY <3>1, RecordAllows
  <2>3. CASE sess'[t].pc \in {"challenging", "verifying", "idle"}
    BY <1>4, <2>3
  <2> QED BY <1>2, <2>1, <2>2, <2>3
<1>5. ASSUME NEW k \in auths' PROVE Allowed(k)'
  BY <1>0, AuthorizedStep DEF TypeOK
<1> QED BY <1>1, <1>3, <1>4, <1>5 DEF OrderInv, At

LEMMA OrderInit == Init => OrderInv
<1> SUFFICES ASSUME Init PROVE OrderInv
  OBVIOUS
<1>1. \A s \in Sessions : sess[s].pc = "idle"
  BY DEF Init, Idle
<1> QED BY <1>1 DEF Init, OrderInv, Orderly, Submitting, InGates, Before, At

\* AuthorizedOnlyIfAllowed holds of every behaviour in which no key is submitted
\* twice at the same time: no race of submission, approval and sweeper mints an
\* authorization for what is denied or held for review.
THEOREM AuthorizedNeedsAllow == OrderlySpec => []AuthorizedOnlyIfAllowed
<1> DEFINE IInv == TypeOK /\ ApprovalInv /\ MandateInv /\ OrderInv
<1>1. Init => IInv
  BY TypeInit, MandateInit, OrderInit
<1>2. IInv /\ [Next /\ Orderly']_vars => IInv'
  BY TypeStep, ApprovalStepInv, MandateStep, OrderStep
<1>3. IInv => AuthorizedOnlyIfAllowed
  BY DEF OrderInv, Allowed, AuthorizedOnlyIfAllowed
<1> QED BY <1>1, <1>2, <1>3, PTL DEF OrderlySpec

-----------------------------------------------------------------------------
(* Sums over finite sets of keys.                                          *)

Pick(s) == CHOOSE x \in s : TRUE
Adds(rows, f, s) == IF s = {} THEN 0 ELSE rows[Pick(s)].amount + f[s \ {Pick(s)}]

\* What f adds up on the subsets of S.
Sums(rows, f, S) == \A s \in SUBSET S : f[s] = Adds(rows, f, s)

\* Total is the value at the whole set of a function that is defined by
\* recursion on its subsets.
LEMMA TotalIs ==
  ASSUME NEW rows, NEW S
  PROVE  Total(rows, S) = (CHOOSE f : f = [s \in SUBSET S |-> Adds(rows, f, s)])[S]
BY DEF Total, MapThenSumSet, MapThenFoldSet, Adds, Pick

LEMMA PickIn == \A s : s # {} => Pick(s) \in s
BY DEF Pick

\* Induction over the numbers.
LEMMA CountUp ==
  ASSUME NEW T, T \subseteq Nat, 0 \in T, \A n \in T : n + 1 \in T
  PROVE  T = Nat
<1> SUFFICES ASSUME Nat \ T # {} PROVE FALSE
  OBVIOUS
<1>1. PICK m \in Nat \ T : \A n \in Nat \ T : ~(<<n, m>> \in OpToRel(<, Nat))
  BY NatLessThanWellFounded, WFMin
<1>2. \A n \in Nat : n < m => n \in T
  BY <1>1 DEF OpToRel
<1>3. m # 0 /\ m - 1 \in Nat /\ m - 1 < m
  OBVIOUS
<1> QED BY <1>2, <1>3

\* Induction over the subsets of a finite set.
LEMMA SubsetInduction ==
  ASSUME NEW S, IsFiniteSet(S), NEW T,
         \A s \in SUBSET S : (\A t \in SUBSET s : t # s => t \in T) => s \in T
  PROVE  SUBSET S \subseteq T
<1> SUFFICES ASSUME (SUBSET S) \ T # {} PROVE FALSE
  OBVIOUS
<1> DEFINE C == (SUBSET S) \ T
<1>0. FiniteSubsetsOf(S) = SUBSET S
  BY FS_FiniteSubsetsOfFinite
<1>1. IsWellFoundedOn(StrictSubsetOrdering(S), SUBSET S)
  BY ONLY <1>0, FS_StrictSubsetOrderingWellFounded
<1>2. PICK s \in C : \A t \in C : ~(<<t, s>> \in StrictSubsetOrdering(S))
  <2>1. C \subseteq SUBSET S /\ C # {}
    OBVIOUS
  <2> HIDE DEF C
  <2> QED BY ONLY <1>1, <2>1, WFMin
<1>3. \A t \in SUBSET s : t # s => t \in T
  BY <1>2 DEF StrictSubsetOrdering
<1> QED BY <1>2, <1>3

\* There is a function that the recursion defines, and its values are numbers.
LEMMA SumExists ==
  ASSUME NEW rows, NEW S, IsFiniteSet(S), \A k \in S : rows[k].amount \in Nat
  PROVE  \E f \in [SUBSET S -> Nat] : Sums(rows, f, S)
<1> DEFINE Small(n) == {s \in SUBSET S : Cardinality(s) <= n}
           Defined(n) == \E f \in [Small(n) -> Nat] : \A s \in Small(n) : f[s] = Adds(rows, f, s)
<1>0. \A s \in SUBSET S : IsFiniteSet(s) /\ Cardinality(s) \in Nat
  BY FS_Subset, FS_CardinalityType
<1>1. ASSUME NEW s \in SUBSET S, s # {}
      PROVE  /\ s \ {Pick(s)} \in SUBSET S /\ rows[Pick(s)].amount \in Nat
             /\ Cardinality(s \ {Pick(s)}) = Cardinality(s) - 1
  BY <1>0, <1>1, PickIn, FS_RemoveElement
<1>2. Defined(0)
  <2> DEFINE f == [s \in Small(0) |-> 0]
  <2>1. ASSUME NEW s \in Small(0) PROVE s = {}
    BY <1>0, FS_EmptySet
  <2>2. \A s \in Small(0) : f[s] = Adds(rows, f, s)
    BY <2>1 DEF Adds
  <2> QED BY <2>2
<1>3. ASSUME NEW n \in Nat, Defined(n) PROVE Defined(n + 1)
  <2>1. PICK f \in [Small(n) -> Nat] : \A s \in Small(n) : f[s] = Adds(rows, f, s)
    BY <1>3
  <2> DEFINE g == [s \in Small(n + 1) |-> Adds(rows, f, s)]
  <2>2. ASSUME NEW s \in Small(n + 1), s # {} PROVE s \ {Pick(s)} \in Small(n)
    BY <1>0, <1>1, <2>2
  <2>3. ASSUME NEW s \in Small(n + 1) PROVE Adds(rows, f, s) \in Nat
    BY <1>1, <2>1, <2>2 DEF Adds
  <2>4. g \in [Small(n + 1) -> Nat]
    BY <2>3
  <2>5. ASSUME NEW s \in Small(n) PROVE s \in Small(n + 1) /\ g[s] = f[s]
    BY <1>0, <2>1
  <2>6. ASSUME NEW s \in Small(n + 1) PROVE g[s] = Adds(rows, g, s)
    BY <2>2, <2>5 DEF Adds
  <2> QED BY <2>4, <2>6
<1> DEFINE T == {n \in Nat : Defined(n)}
<1> HIDE DEF Defined
<1>4. T = Nat
  <2>1. 0 \in T /\ \A n \in T : n + 1 \in T
    BY <1>2, <1>3
  <2> HIDE DEF T
  <2> QED BY <2>1, CountUp DEF T
<1>5. Cardinality(S) \in Nat /\ Small(Cardinality(S)) = SUBSET S
  BY <1>0, FS_Subset
<1>6. Defined(Cardinality(S))
  BY <1>4, <1>5
<1> QED BY <1>5, <1>6 DEF Defined, Sums

\* There is only one.
LEMMA SumUnique ==
  ASSUME NEW rows, NEW S, IsFiniteSet(S), NEW f, NEW g, Sums(rows, f, S), Sums(rows, g, S)
  PROVE  f[S] = g[S]
<1> DEFINE T == {s \in SUBSET S : f[s] = g[s]}
<1>1. ASSUME NEW s \in SUBSET S, \A t \in SUBSET s : t # s => t \in T
      PROVE  s \in T
  <2>1. s # {} => s \ {Pick(s)} \in SUBSET s /\ s \ {Pick(s)} # s
    BY PickIn
  <2> QED BY <1>1, <2>1 DEF Adds, Sums
<1> HIDE DEF T
<1>2. SUBSET S \subseteq T
  BY <1>1, SubsetInduction
<1> QED BY <1>2 DEF T

\* What Total computes.
LEMMA TotalAt ==
  ASSUME NEW rows, NEW S, IsFiniteSet(S), \A k \in S : rows[k].amount \in Nat
  PROVE  /\ Total(rows, S) \in Nat
         /\ Total(rows, S) = IF S = {} THEN 0
                             ELSE rows[Pick(S)].amount + Total(rows, S \ {Pick(S)})
<1> DEFINE Is(f, U) == f = [s \in SUBSET U |-> Adds(rows, f, s)]
           iter(U) == CHOOSE f : Is(f, U)
<1>1. ASSUME NEW U \in SUBSET S
      PROVE  Total(rows, U) = iter(U)[U] /\ iter(U)[U] \in Nat /\ Sums(rows, iter(U), U)
  <2>1. IsFiniteSet(U) /\ \A k \in U : rows[k].amount \in Nat
    BY FS_Subset
  <2>2. PICK f \in [SUBSET U -> Nat] : Sums(rows, f, U)
    BY <2>1, SumExists
  <2>3. Is(f, U)
    BY <2>2 DEF Sums
  <2>4. Is(iter(U), U)
    BY <2>3
  <2>5. Sums(rows, iter(U), U)
    BY <2>4 DEF Sums
  <2>6. Total(rows, U) = iter(U)[U]
    BY TotalIs
  <2> HIDE DEF iter
  <2>7. iter(U)[U] = f[U]
    BY <2>1, <2>2, <2>5, SumUnique
  <2> QED BY <2>2, <2>5, <2>6, <2>7
<1> HIDE DEF iter
<1>2. CASE S = {}
  BY <1>1, <1>2 DEF Adds, Sums
<1>3. CASE S # {}
  <2> DEFINE U == S \ {Pick(S)}
  <2>1. U \in SUBSET S /\ IsFiniteSet(U)
    BY FS_Subset
  <2>2. iter(S)[U] = iter(U)[U]
    <3>1. Sums(rows, iter(S), U) /\ Sums(rows, iter(U), U)
      BY <1>1, <2>1 DEF Sums
    <3> HIDE DEF U
    <3> QED BY <2>1, <3>1, SumUnique
  <2>3. iter(S)[S] = rows[Pick(S)].amount + iter(S)[U]
    BY <1>1, <1>3 DEF Adds, Sums
  <2> QED BY <1>1, <1>3, <2>1, <2>2, <2>3
<1> QED BY <1>2, <1>3

\* The order does not matter: any key can be taken out first.
LEMMA TotalSplit ==
  ASSUME NEW rows, NEW S, IsFiniteSet(S), \A k \in S : rows[k].amount \in Nat,
         NEW k \in S
  PROVE  Total(rows, S) = rows[k].amount + Total(rows, S \ {k})
<1> DEFINE T == {s \in SUBSET S : \A x \in s :
                   Total(rows, s) = rows[x].amount + Total(rows, s \ {x})}
<1>0. ASSUME NEW s \in SUBSET S PROVE IsFiniteSet(s) /\ Total(rows, s) \in Nat
  BY FS_Subset, TotalAt
<1>1. ASSUME NEW s \in SUBSET S, \A t \in SUBSET s : t # s => t \in T, NEW x \in s
      PROVE  Total(rows, s) = rows[x].amount + Total(rows, s \ {x})
  <2> DEFINE y == Pick(s)
  <2>1. y \in s /\ Total(rows, s) = rows[y].amount + Total(rows, s \ {y})
    <3>1. s # {} /\ \A j \in s : rows[j].amount \in Nat
      OBVIOUS
    <3> QED BY <1>0, <3>1, PickIn, TotalAt
  <2>2. CASE x = y
    BY <2>1, <2>2
  <2>3. CASE x # y
    <3> HIDE DEF y
    <3>1. s \ {y} \in T /\ s \ {x} \in T /\ x \in s \ {y} /\ y \in s \ {x}
      BY <1>1, <2>1, <2>3
    <3>2. Total(rows, s \ {y}) = rows[x].amount + Total(rows, (s \ {y}) \ {x})
      BY <3>1
    <3>3. Total(rows, s \ {x}) = rows[y].amount + Total(rows, (s \ {x}) \ {y})
      BY <3>1
    <3>4. (s \ {x}) \ {y} = (s \ {y}) \ {x} /\ (s \ {y}) \ {x} \in SUBSET S
      OBVIOUS
    <3>5. Total(rows, (s \ {y}) \ {x}) \in Nat
      BY <1>0, <3>4
    <3>6. rows[x].amount \in Nat /\ rows[y].amount \in Nat
      BY <2>1
    <3>7. PICK a, b, c : a = rows[x].amount /\ b = rows[y].amount /\ c = Total(rows, (s \ {y}) \ {x})
      OBVIOUS
    <3>8. Total(rows, s) = b + (a + c) /\ Total(rows, s \ {x}) = b + c
      BY ONLY <2>1, <3>2, <3>3, <3>4, <3>7
    <3>9. b + (a + c) = a + (b + c)
      BY ONLY <3>5, <3>6, <3>7
    <3> QED BY ONLY <3>7, <3>8, <3>9
  <2> QED BY <2>2, <2>3
<1>2. SUBSET S \subseteq T
  <2>1. ASSUME NEW s \in SUBSET S, \A t \in SUBSET s : t # s => t \in T PROVE s \in T
    BY <1>1, <2>1
  <2> HIDE DEF T
  <2> QED BY <2>1, SubsetInduction
<1> QED BY <1>2

\* A part of the rows adds up to no more than all of them.
LEMMA TotalGrows ==
  ASSUME NEW rows, NEW S, IsFiniteSet(S), \A k \in S : rows[k].amount \in Nat,
         NEW R \in SUBSET S
  PROVE  Total(rows, R) \in Nat /\ Total(rows, S) \in Nat /\ Total(rows, R) <= Total(rows, S)
<1> DEFINE T == {s \in SUBSET S : R \subseteq s => Total(rows, R) <= Total(rows, s)}
<1>0. ASSUME NEW s \in SUBSET S PROVE IsFiniteSet(s) /\ Total(rows, s) \in Nat
  BY FS_Subset, TotalAt
<1>1. ASSUME NEW s \in SUBSET S, \A t \in SUBSET s : t # s => t \in T, R \subseteq s
      PROVE  Total(rows, R) <= Total(rows, s)
  <2>1. CASE R = s
    BY <1>0, <2>1
  <2>2. CASE R # s
    <3>1. PICK k \in s : k \notin R
      BY <1>1, <2>2
    <3>2. s \ {k} \in T /\ R \subseteq s \ {k}
      BY <1>1, <3>1
    <3>3. Total(rows, s) = rows[k].amount + Total(rows, s \ {k})
      BY <1>0, TotalSplit
    <3>4. Total(rows, R) \in Nat /\ Total(rows, s \ {k}) \in Nat /\ rows[k].amount \in Nat
      BY <1>0
    <3>5. Total(rows, R) <= Total(rows, s \ {k})
      BY <3>2
    <3> QED BY <3>3, <3>4, <3>5
  <2> QED BY <2>1, <2>2
<1>2. SUBSET S \subseteq T
  <2>1. ASSUME NEW s \in SUBSET S, \A t \in SUBSET s : t # s => t \in T PROVE s \in T
    BY <1>1, <2>1
  <2> HIDE DEF T
  <2> QED BY <2>1, SubsetInduction
<1> QED BY <1>0, <1>2

\* The sum depends on the amounts of the rows that are summed, and on no others.
LEMMA TotalSame ==
  ASSUME NEW rows, NEW new, NEW S, IsFiniteSet(S),
         \A k \in S : rows[k].amount \in Nat /\ new[k].amount = rows[k].amount
  PROVE  Total(new, S) = Total(rows, S)
<1> DEFINE T == {s \in SUBSET S : Total(new, s) = Total(rows, s)}
<1>1. ASSUME NEW s \in SUBSET S, \A t \in SUBSET s : t # s => t \in T PROVE s \in T
  <2>0. IsFiniteSet(s) /\ \A k \in s : rows[k].amount \in Nat /\ new[k].amount \in Nat
    BY FS_Subset
  <2>1. CASE s = {}
    BY <2>0, <2>1, TotalAt
  <2>2. CASE s # {}
    <3>1. PICK k \in s : TRUE
      BY <2>2
    <3>2. s \ {k} \in T /\ new[k].amount = rows[k].amount
      BY <1>1, <3>1
    <3>3. Total(rows, s) = rows[k].amount + Total(rows, s \ {k})
      BY <2>0, TotalSplit
    <3>4. Total(new, s) = new[k].amount + Total(new, s \ {k})
      BY <2>0, TotalSplit
    <3> QED BY <3>2, <3>3, <3>4
  <2> QED BY <2>1, <2>2
<1> HIDE DEF T
<1>2. SUBSET S \subseteq T
  BY <1>1, SubsetInduction
<1> QED BY <1>2 DEF T

-----------------------------------------------------------------------------
(* Budgets.                                                                *)

\* A submission that has not written its intent yet.
Pending(s) == sess[s].pc \in Before \cup {"recording"}

\* The payments under m that one that arrived at now has to share a window with.
InWindow(m, window, now) ==
  {k \in Keys : /\ Undenied(k) /\ m \in intents[k].under
                /\ intents[k].created <= now /\ intents[k].created + window >= now}

\* A payment under m arrived in the time of m.
Binding(m, t) == mand[m].status # "none" /\ mand[m].from <= t

\* No payment is later than one that is still to be written; and with one mandate
\* to wait for, a submission holds its gate from before it reads what is spent
\* until it has written what it spends.
HandInv(s) ==
  /\ Pending(s) => \A k \in Keys : Undenied(k) => intents[k].created <= sess[s].now
  /\ ~At(s, "committing") /\ (At(s, "trying") => sess[s].want # {})
  /\ At(s, "evaluating") => \A m \in Mandates : gate[m] = s
  /\ At(s, "recording") /\ sess[s].verdict # "DENY" =>
       \A m \in sess[s].under :
         /\ gate[m] = s /\ Binding(m, sess[s].now)
         /\ \A b \in Limits[m].budgets :
              sess[s].amount + Total(intents, InWindow(m, b.window, sess[s].now)) <= b.limit

BudgetInv ==
  /\ IsFiniteSet({k \in Keys : Recorded(k)})
  /\ \A s \in Sessions : HandInv(s)
  /\ \A k \in Keys : Undenied(k) =>
       \A m \in intents[k].under : Binding(m, intents[k].created)
  /\ BudgetKept

OneMandate == \A m, n \in Mandates : m = n

\* An intent that is not denied was not denied before, or is what the session that
\* wrote it had in hand.
LEMMA UndeniedMoves ==
  ASSUME TypeOK, ApprovalInv, [Next]_vars, NEW k \in Keys, Undenied(k)'
  PROVE  \/ Undenied(k) /\ KeepsIntent(k)
         \/ \E s \in Sessions :
              /\ Record(s) /\ At(s, "recording") /\ sess[s].key = k
              /\ sess[s].verdict # "DENY"
              /\ intents'[k].amount = sess[s].amount
              /\ intents'[k].created = sess[s].now
              /\ intents'[k].under = sess[s].under
<1>1. CASE Recorded(k)
  <2>1. KeepsIntent(k)
    BY <1>1, IntentMoves
  <2> QED BY <1>1, <2>1 DEF KeepsIntent, Undenied
<1>2. CASE ~Recorded(k)
  <2>1. PICK s \in Sessions : /\ Record(s) /\ At(s, "recording") /\ sess[s].key = k
                              /\ intents'[k].decision = sess[s].verdict
    BY <1>2, NewKey DEF Undenied, Recorded
  <2>2. sess[s].verdict # "DENY"
    BY <2>1 DEF Undenied
  <2>3. intents'[k] = [decision |-> sess[s].verdict, amount |-> sess[s].amount,
                       verified |-> FALSE, created |-> sess[s].now, under |-> sess[s].under]
    BY <1>2, <2>1, <2>2 DEF Record, TypeOK
  <2> QED BY <2>1, <2>2, <2>3
<1> QED BY <1>1, <1>2

\* A session writes its own intent only.
LEMMA RecordsOne ==
  ASSUME TypeOK, NEW s \in Sessions, Record(s)
  PROVE  \A k \in Keys \ {sess[s].key} : intents'[k] = intents[k]
BY DEF Record, TypeOK

LEMMA FiniteStep ==
  ASSUME TypeOK, ApprovalInv, [Next]_vars, IsFiniteSet({k \in Keys : Recorded(k)})
  PROVE  IsFiniteSet({k \in Keys : Recorded(k)'})
<1> DEFINE R == {k \in Keys : Recorded(k)}
           N == {k \in Keys : Recorded(k)'}
<1>1. CASE N \subseteq R
  BY <1>1, FS_Subset
<1>2. CASE ~(N \subseteq R)
  <2>1. PICK s \in Sessions : Record(s)
    BY <1>2, NewKey
  <2>2. N \subseteq R \cup {sess[s].key}
    BY <2>1, RecordsOne DEF Recorded
  <2>3. IsFiniteSet(R \cup {sess[s].key})
    BY FS_AddElement
  <2> HIDE DEF N, R
  <2> QED BY <2>2, <2>3, FS_Subset DEF N
<1> QED BY <1>1, <1>2

\* The sum over intents that a step keeps, and of some of them after it.
LEMMA TotalMoves ==
  ASSUME TypeOK, TypeOK', IsFiniteSet({k \in Keys : Recorded(k)}),
         NEW W, \A k \in W : k \in Keys /\ Undenied(k),
         NEW V \in SUBSET W, \A k \in V : KeepsIntent(k)
  PROVE  /\ IsFiniteSet(W) /\ Total(intents, W) \in Nat
         /\ Total(intents', V) \in Nat /\ Total(intents', V) <= Total(intents, W)
<1>1. W \in SUBSET {k \in Keys : Recorded(k)}
  BY DEF Undenied, Recorded
<1>2. IsFiniteSet(W) /\ IsFiniteSet(V)
  <2>1. IsFiniteSet(W)
    BY <1>1, FS_Subset
  <2> QED BY <2>1, FS_Subset
<1>3. \A k \in W : intents[k].amount \in Nat
  BY DEF TypeOK, Intent
<1>4. \A k \in V : intents'[k].amount = intents[k].amount
  BY DEF KeepsIntent
<1>5. Total(intents', V) = Total(intents, V)
  BY <1>2, <1>3, <1>4, TotalSame
<1>6. Total(intents, V) \in Nat /\ Total(intents, W) \in Nat /\ Total(intents, V) <= Total(intents, W)
  BY <1>2, <1>3, TotalGrows
<1> QED BY <1>2, <1>5, <1>6

\* A mandate keeps the time from which it holds.
LEMMA BindingStays ==
  ASSUME TypeOK, [Next]_vars, NEW m \in Mandates, mand[m].status # "none"
  PROVE  mand'[m].status # "none" /\ mand'[m].from = mand[m].from
<1>1. ASSUME NEW n \in Mandates, NEW from \in Times, NEW until \in 1 .. MaxClock + 1,
             CreateMandate(n, from, until)
      PROVE  mand'[m] = mand[m]
  BY <1>1 DEF CreateMandate, TypeOK
<1>2. ASSUME NEW n \in Mandates, RevokeMandate(n)
      PROVE  mand'[m].status # "none" /\ mand'[m].from = mand[m].from
  BY <1>2 DEF RevokeMandate, TypeOK, Mandate
<1>3. ASSUME SweepMandates PROVE mand'[m].status # "none" /\ mand'[m].from = mand[m].from
  BY <1>3 DEF SweepMandates, TypeOK, Mandate
<1>4. ASSUME ExpireReviews \/ RevokeAuthority \/ Tick \/ UNCHANGED vars PROVE mand' = mand
  BY <1>4 DEF ExpireReviews, RevokeAuthority, Tick, vars
<1>5. ASSUME NEW s \in Sessions, SubmitStep(s) PROVE mand' = mand
  BY <1>5 DEF SubmitStep, Submit, Resolve, TakeGate, CommitForNext, GateTimeout, Evaluate,
              EvaluateFree, Record, Mint, Crash
<1>6. ASSUME NEW s \in Sessions, ApprovalStep(s) PROVE mand' = mand
  BY <1>6 DEF ApprovalStep, ChallengeRead, ChallengeIssue, VerifyRead, VerifyCommit
<1> QED BY <1>1, <1>2, <1>3, <1>4, <1>5, <1>6 DEF Next, AdminStep

\* Only the session that holds a gate gives it up.
LEMMA GateStays ==
  ASSUME TypeOK, [Next]_vars, NEW t \in Sessions, ~SubmitStep(t),
         NEW m \in Mandates, gate[m] = t
  PROVE  gate'[m] = t
<1>1. t # NoSession
  BY GovernanceAssumption
<1>2. ASSUME NEW s \in Sessions, SubmitStep(s) PROVE gate'[m] = t
  <2>1. s # t
    BY <1>2
  <2>2. WithoutGates(s)[m] = t
    BY <2>1 DEF WithoutGates
  <2>3. ASSUME TakeGate(s) PROVE gate'[m] = t
    <3>1. gate' = [gate EXCEPT ![Min(sess[s].want)] = s] /\ gate[Min(sess[s].want)] = NoSession
      BY <2>3 DEF TakeGate, GateFree
    <3> QED BY <1>1, <3>1 DEF TypeOK
  <2>4. ASSUME ~TakeGate(s) PROVE gate' = gate \/ gate' = WithoutGates(s)
    BY <1>2, <2>4 DEF SubmitStep, Submit, Resolve, CommitForNext, GateTimeout, Evaluate,
                      EvaluateFree, Record, Mint, Crash
  <2> QED BY <2>2, <2>3, <2>4
<1>3. ASSUME NEW s \in Sessions, ApprovalStep(s) PROVE gate' = gate
  BY <1>3 DEF ApprovalStep, ChallengeRead, ChallengeIssue, VerifyRead, VerifyCommit
<1>4. ASSUME AdminStep \/ UNCHANGED vars PROVE gate' = gate
  BY <1>4 DEF AdminStep, CreateMandate, RevokeMandate, SweepMandates, ExpireReviews,
              RevokeAuthority, Tick, vars
<1> QED BY <1>2, <1>3, <1>4 DEF Next

\* A mandate that a submission finds active holds when it arrived; when its budgets
\* permit the payment, there is room for it beside what is already in the window.
LEMMA PermittedFits ==
  ASSUME TypeOK, BudgetInv, NEW m \in Mandates, NEW amount \in Nat, NEW now \in Nat,
         Permits(m, amount, now), NEW b \in Limits[m].budgets
  PROVE  amount + Total(intents, InWindow(m, b.window, now)) <= b.limit
<1> DEFINE V == InWindow(m, b.window, now)
           W == {k \in Keys : Undenied(k) /\ intents[k].created <= now
                              /\ intents[k].created + b.window >= now
                              /\ intents[k].created >= mand[m].from}
<1>1. V \subseteq W
  <2>1. \A k \in V : k \in Keys /\ Undenied(k) /\ m \in intents[k].under
    BY DEF InWindow
  <2>2. \A k \in V : mand[m].from <= intents[k].created
    BY <2>1 DEF BudgetInv, Binding
  <2>3. \A k \in Keys : mand[m].from \in Nat /\ intents[k].created \in Nat
    BY DEF TypeOK, Intent, Mandate
  <2> QED BY <2>1, <2>2, <2>3 DEF InWindow
<1>2. IsFiniteSet(W)
  <2>1. W \in SUBSET {k \in Keys : Recorded(k)}
    BY DEF Undenied, Recorded
  <2> HIDE DEF W
  <2> QED BY <2>1, FS_Subset DEF BudgetInv
<1>3. \A k \in W : intents[k].amount \in Nat
  BY DEF TypeOK, Intent
<1>4. amount + Total(intents, W) <= b.limit
  BY DEF Permits, Spent
<1> HIDE DEF V, W
<1>5. Total(intents, V) \in Nat /\ Total(intents, W) \in Nat /\ Total(intents, V) <= Total(intents, W)
  BY <1>1, <1>2, <1>3, TotalGrows
<1>6. b.limit \in Nat
  BY GovernanceAssumption
<1> QED BY <1>4, <1>5, <1>6 DEF V

\* What a step of a submission leaves in the hand of its session.
LEMMA HandSubmit ==
  ASSUME OneMandate, TypeOK, MandateInv, OrderInv, BudgetInv, NEW s \in Sessions, SubmitStep(s)
  PROVE  HandInv(s)'
<1> DEFINE r == sess[s]
<1>0. /\ r \in Session /\ clock \in Nat /\ HandInv(s)
      /\ r.pc \in Before => r.verdict = "DENY"
  BY GovernanceAssumption DEF TypeOK, MandateInv, BudgetInv, Times
<1>9. \A rec : Become(s, rec) => sess'[s] = rec
  BY DEF Become, TypeOK
<1>8. \A k \in Keys : intents[k].created <= clock
  BY DEF MandateInv
<1>1. ASSUME NEW k \in Keys, NEW amount \in Amounts, NEW fits \in BOOLEAN,
             Submit(s, k, amount, fits)
      PROVE  HandInv(s)'
  <2>1. /\ sess'[s].verdict = "DENY" /\ sess'[s].now = clock
        /\ sess'[s].pc \in {"resolving", "recording"} /\ intents' = intents
    BY <1>1, <1>9 DEF Submit, Idle
  <2> QED BY <2>1, <1>8 DEF HandInv, Pending, At, Undenied
<1>7. ASSUME r.pc \in Before, intents' = intents, sess'[s].now = r.now,
             sess'[s].pc \in {"resolving", "trying", "evaluating", "recording", "free"},
             sess'[s].pc = "trying" => sess'[s].want # {},
             sess'[s].pc = "evaluating" => \A m \in Mandates : gate'[m] = s,
             sess'[s].pc = "recording" => sess'[s].verdict = "DENY"
      PROVE  HandInv(s)'
  BY <1>0, <1>7 DEF HandInv, Pending, At, Undenied
<1>2. ASSUME Resolve(s) PROVE HandInv(s)'
  <2>1. /\ r.pc = "resolving" /\ intents' = intents
        /\ sess'[s] = [r EXCEPT !.want = ActiveAt(r.now),
             !.pc = IF ActiveAt(r.now) # {} THEN "trying"
                    ELSE IF Lapsed \/ MandateRequired THEN "recording" ELSE "free"]
    BY <1>2, <1>9 DEF Resolve, At
  <2>2. /\ sess'[s].now = r.now /\ sess'[s].verdict = r.verdict
        /\ sess'[s].pc \in {"trying", "recording", "free"}
        /\ sess'[s].pc = "trying" => sess'[s].want # {}
    BY <2>1, <1>0 DEF Session
  <2> QED BY <2>1, <2>2, <1>0, <1>7 DEF Before
<1>3. ASSUME TakeGate(s) PROVE HandInv(s)'
  <2> DEFINE n == Min(r.want)
  <2>1. /\ r.pc = "trying" /\ intents' = intents
        /\ gate' = [gate EXCEPT ![n] = s]
        /\ sess'[s] = [r EXCEPT !.want = @ \ {n},
                         !.pc = IF r.want = {n} THEN "evaluating" ELSE "committing"]
    BY <1>3, <1>9 DEF TakeGate, At
  <2>2. PICK m \in Mandates : r.want = {m}
    BY <1>0, <2>1 DEF HandInv, At, Session, OneMandate
  <2>3. n = m
    <3>1. m \in Nat
      BY GovernanceAssumption
    <3> QED BY <2>2, <3>1 DEF Min
  <2> HIDE DEF n
  <2>4. sess'[s].now = r.now /\ sess'[s].pc = "evaluating"
    BY <2>1, <2>2, <2>3, <1>0 DEF Session
  <2>5. \A x \in Mandates : gate'[x] = s
    BY <2>1, <2>3 DEF OneMandate, TypeOK
  <2> QED BY <2>1, <2>4, <2>5, <1>7 DEF Before
<1>4. ASSUME CommitForNext(s) PROVE HandInv(s)'
  BY <1>4, <1>0 DEF CommitForNext, HandInv
<1>5. ASSUME GateTimeout(s) PROVE HandInv(s)'
  <2>1. r.pc = "trying" /\ intents' = intents
    BY <1>5 DEF GateTimeout, At
  <2>2. sess'[s].now = r.now /\ sess'[s].pc = "recording" /\ sess'[s].verdict = r.verdict
    BY <1>5, <1>9, <1>0 DEF GateTimeout, Session
  <2> QED BY <2>1, <2>2, <1>0, <1>7 DEF Before
<1>6. ASSUME Evaluate(s) PROVE HandInv(s)'
  <2>1. r.pc = "evaluating" /\ UNCHANGED <<intents, gate, mand>>
    BY <1>6 DEF Evaluate, At
  <2>2. /\ sess'[s].pc = "recording" /\ sess'[s].now = r.now /\ sess'[s].amount = r.amount
        /\ sess'[s].under = ActiveAt(r.now)
        /\ sess'[s].verdict = IF ActiveAt(r.now) = {} THEN "DENY"
                              ELSE Verdict(ActiveAt(r.now), r.amount, r.now)
    BY <1>6, <1>9, <1>0 DEF Evaluate, Session
  <2>3. (Pending(s) => \A k \in Keys : Undenied(k) => intents[k].created <= sess[s].now)'
    BY <1>0, <2>1, <2>2 DEF HandInv, Pending, Before, Undenied
  <2>4. ASSUME sess'[s].verdict # "DENY", NEW m \in ActiveAt(r.now)
        PROVE  /\ gate'[m] = s
               /\ mand'[m].status # "none" /\ mand'[m].from <= r.now
               /\ \A b \in Limits[m].budgets :
                    r.amount + Total(intents, InWindow(m, b.window, r.now)) <= b.limit
    <3>1. m \in Mandates /\ mand[m].status # "none" /\ mand[m].from <= r.now
      BY DEF ActiveAt
    <3>2. Permits(m, r.amount, r.now)
      BY <2>2, <2>4 DEF Verdict
    <3>3. r.amount \in Nat /\ r.now \in Nat
      BY <1>0 DEF Session
    <3>4. gate'[m] = s
      BY <1>0, <2>1, <3>1 DEF HandInv, At
    <3> QED BY <2>1, <3>1, <3>2, <3>3, <3>4, PermittedFits
  <2>5. \A m, w, t : InWindow(m, w, t)' = InWindow(m, w, t)
    BY <2>1 DEF InWindow, Undenied
  <2>6. (At(s, "recording") /\ sess[s].verdict # "DENY" =>
          \A m \in sess[s].under :
            /\ gate[m] = s /\ Binding(m, sess[s].now)
            /\ \A b \in Limits[m].budgets :
                 sess[s].amount + Total(intents, InWindow(m, b.window, sess[s].now)) <= b.limit)'
    BY <2>1, <2>2, <2>4, <2>5 DEF Binding
  <2> QED BY <2>2, <2>3, <2>6 DEF HandInv, At
<1>10. ASSUME EvaluateFree(s) PROVE HandInv(s)'
  <2>1. r.pc = "free" /\ intents' = intents
    BY <1>10 DEF EvaluateFree, At
  <2>2. sess'[s].pc = "recording" /\ sess'[s].now = r.now /\ sess'[s].under = {}
    BY <1>10, <1>9, <1>0 DEF EvaluateFree, Session
  <2> QED BY <2>1, <2>2, <1>0 DEF HandInv, Pending, Before, At, Undenied
<1>11. ASSUME Record(s) \/ Mint(s) \/ Crash(s) PROVE HandInv(s)'
  <2>1. sess'[s].pc \in {"minting", "idle"}
    <3>1. Idle.pc = "idle" /\ [Idle EXCEPT !.pc = "minting", !.key = r.key, !.now = r.now].pc = "minting"
      BY DEF Idle
    <3> QED BY <1>11, <1>9, <3>1 DEF Record, Mint, Crash
  <2> QED BY <2>1 DEF HandInv, Pending, Before, At
<1> QED BY <1>1, <1>2, <1>3, <1>4, <1>5, <1>6, <1>10, <1>11 DEF SubmitStep

\* What a session holds is still so after a step of another.
LEMMA HandStays ==
  ASSUME TypeOK, ApprovalInv, OrderInv, BudgetInv, [Next]_vars, NEW t \in Sessions,
         sess'[t] = sess[t], ~SubmitStep(t)
  PROVE  HandInv(t)'
<1> DEFINE now == sess[t].now
<1>0. HandInv(t) /\ TypeOK'
  BY TypeStep DEF BudgetInv
<1>1. ASSUME NEW m \in Mandates, gate[m] = t PROVE gate'[m] = t
  BY <1>1, GateStays
<1>2. ASSUME Pending(t), NEW k \in Keys, Undenied(k)' PROVE intents'[k].created <= now
  <2>1. CASE Undenied(k) /\ KeepsIntent(k)
    BY <1>0, <1>2, <2>1 DEF HandInv, KeepsIntent
  <2>2. ASSUME NEW s \in Sessions, Record(s), At(s, "recording"), intents'[k].created = sess[s].now
        PROVE  intents'[k].created <= now
    <3>1. s # t
      BY <2>2 DEF SubmitStep
    <3>2. sess[s].pc \in Submitting /\ sess[t].pc \in Submitting
      BY <1>2, <2>2 DEF Pending, Before, Submitting, InGates, At
    <3>3. sess[s].now = now /\ now \in Nat
      BY <3>1, <3>2 DEF OrderInv, Orderly, TypeOK, Session
    <3> QED BY <2>2, <3>3
  <2> QED BY <1>2, <2>1, <2>2, UndeniedMoves
<1>3. ASSUME At(t, "recording"), sess[t].verdict # "DENY", NEW m \in sess[t].under
      PROVE  /\ gate'[m] = t /\ Binding(m, now)'
             /\ \A b \in Limits[m].budgets :
                  sess[t].amount + Total(intents', InWindow(m, b.window, now)') <= b.limit
  <2>1. m \in Mandates /\ gate[m] = t /\ Binding(m, now) /\ sess[t].amount \in Nat
    BY <1>0, <1>3 DEF HandInv, TypeOK, Session
  <2>2. Binding(m, now)'
    BY <2>1, BindingStays, <1>0 DEF Binding
  <2>3. ASSUME NEW b \in Limits[m].budgets
        PROVE  sess[t].amount + Total(intents', InWindow(m, b.window, now)') <= b.limit
    <3> DEFINE W == InWindow(m, b.window, now)
               V == InWindow(m, b.window, now)'
    <3>1. ASSUME NEW k \in V PROVE Undenied(k) /\ KeepsIntent(k)
      <4>1. k \in Keys /\ Undenied(k)' /\ m \in intents'[k].under
        BY DEF InWindow
      <4>2. ASSUME NEW s \in Sessions, Record(s), At(s, "recording"),
                   sess[s].verdict # "DENY", intents'[k].under = sess[s].under
            PROVE  FALSE
        <5>1. gate[m] = s
          BY <4>1, <4>2 DEF BudgetInv, HandInv
        <5> QED BY <2>1, <4>2, <5>1 DEF SubmitStep
      <4> QED BY <4>1, <4>2, UndeniedMoves
    <3>2. V \in SUBSET W /\ \A k \in V : KeepsIntent(k)
      BY <3>1 DEF KeepsIntent, InWindow
    <3>3. \A k \in W : k \in Keys /\ Undenied(k)
      BY DEF InWindow
    <3>4. sess[t].amount + Total(intents, W) <= b.limit /\ b.limit \in Nat
      BY <1>0, <1>3, <2>1, GovernanceAssumption DEF HandInv
    <3> HIDE DEF V, W
    <3>5. /\ Total(intents, W) \in Nat /\ Total(intents', V) \in Nat
          /\ Total(intents', V) <= Total(intents, W)
      BY <1>0, <3>2, <3>3, TotalMoves DEF BudgetInv
    <3>6. sess[t].amount + Total(intents', V) <= b.limit
      BY <2>1, <3>4, <3>5
    <3> QED BY <3>6 DEF V
  <2> QED BY <2>1, <2>2, <2>3, <1>1
<1>4. (Pending(t) => \A k \in Keys : Undenied(k) => intents[k].created <= sess[t].now)'
  BY <1>2 DEF Pending
<1>5. (~At(t, "committing") /\ (At(t, "trying") => sess[t].want # {}))'
  BY <1>0 DEF HandInv, At
<1>6. (At(t, "evaluating") => \A m \in Mandates : gate[m] = t)'
  BY <1>0, <1>1 DEF HandInv, At
<1>7. \A m, w : InWindow(m, w, sess[t].now)' = InWindow(m, w, now)'
  BY DEF InWindow
<1>8. (At(t, "recording") /\ sess[t].verdict # "DENY" =>
        \A m \in sess[t].under :
          /\ gate[m] = t /\ Binding(m, sess[t].now)
          /\ \A b \in Limits[m].budgets :
               sess[t].amount + Total(intents, InWindow(m, b.window, sess[t].now)) <= b.limit)'
  BY <1>3, <1>7 DEF At, Binding
<1> QED BY <1>4, <1>5, <1>6, <1>8 DEF HandInv

LEMMA HandStep ==
  ASSUME OneMandate, TypeOK, ApprovalInv, MandateInv, OrderInv, BudgetInv, [Next]_vars,
         NEW t \in Sessions
  PROVE  HandInv(t)'
<1>1. CASE SubmitStep(t)
  BY <1>1, HandSubmit
<1>2. CASE ApprovalStep(t)
  <2>1. sess'[t].pc \in {"challenging", "verifying", "idle"}
    BY <1>2, ApprovalHand
  <2> QED BY <2>1 DEF HandInv, Pending, Before, At
<1>3. CASE ~SubmitStep(t) /\ ~ApprovalStep(t)
  <2>1. sess'[t] = sess[t]
    <3>1. ASSUME NEW s \in Sessions, SubmitStep(s) \/ ApprovalStep(s) PROVE sess'[t] = sess[t]
      BY <1>3, <3>1, OthersStay
    <3>2. AdminStep \/ UNCHANGED vars => sess'[t] = sess[t]
      BY AdminStays DEF vars
    <3> QED BY <3>1, <3>2 DEF Next
  <2> QED BY <1>3, <2>1, HandStays
<1> QED BY <1>1, <1>2, <1>3

\* Every budget is kept by the payments that are kept; a new one was judged to fit
\* with all that can share a window with it, and none of them is later.
LEMMA BudgetKeptStep ==
  ASSUME TypeOK, ApprovalInv, BudgetInv, [Next]_vars
  PROVE  BudgetKept'
<1>0. TypeOK'
  BY TypeStep
<1> SUFFICES ASSUME NEW m \in Mandates, NEW b \in Limits[m].budgets, NEW start \in Times
             PROVE  Total(intents', {k \in Keys : /\ Undenied(k)' /\ m \in intents'[k].under
                                                  /\ intents'[k].created \in start .. start + b.window})
                      <= b.limit
  BY DEF BudgetKept, Undenied
<1> DEFINE W == {k \in Keys : /\ Undenied(k) /\ m \in intents[k].under
                              /\ intents[k].created \in start .. start + b.window}
           V == {k \in Keys : /\ Undenied(k)' /\ m \in intents'[k].under
                              /\ intents'[k].created \in start .. start + b.window}
           Kept == {k \in V : Undenied(k) /\ KeepsIntent(k)}
<1>1. b.window \in Nat /\ b.limit \in Nat /\ start \in Nat
  BY GovernanceAssumption DEF Times
<1>2. Kept \in SUBSET W /\ \A k \in Kept : KeepsIntent(k)
  BY DEF KeepsIntent
<1>3. \A k \in W : k \in Keys /\ Undenied(k)
  OBVIOUS
<1>4. Total(intents, W) <= b.limit
  BY DEF BudgetInv, BudgetKept
<1>5. CASE V = Kept
  <2>1. V \in SUBSET W /\ \A k \in V : KeepsIntent(k)
    BY <1>2, <1>5
  <2> HIDE DEF V, W, Kept
  <2>2. /\ Total(intents', V) \in Nat /\ Total(intents, W) \in Nat
        /\ Total(intents', V) <= Total(intents, W)
    BY <1>0, <1>3, <2>1, TotalMoves DEF BudgetInv
  <2>3. Total(intents', V) <= b.limit
    BY <1>1, <1>4, <2>2
  <2> QED BY <2>3 DEF V
<1>6. CASE V # Kept
  <2>1. PICK k \in V : ~(Undenied(k) /\ KeepsIntent(k))
    BY <1>6
  <2>2. PICK s \in Sessions :
          /\ Record(s) /\ At(s, "recording") /\ sess[s].key = k /\ sess[s].verdict # "DENY"
          /\ intents'[k].amount = sess[s].amount /\ intents'[k].created = sess[s].now
          /\ intents'[k].under = sess[s].under
    BY <2>1, UndeniedMoves
  <2> DEFINE now == sess[s].now
             H == InWindow(m, b.window, now)
             R == V \ {k}
  <2>3. /\ sess[s].amount \in Nat /\ now \in Nat /\ sess[s].amount + Total(intents, H) <= b.limit
        /\ now \in start .. start + b.window
    BY <2>2 DEF BudgetInv, HandInv, TypeOK, Session
  <2>4. ASSUME NEW j \in R PROVE Undenied(j) /\ KeepsIntent(j) /\ j \in H
    <3>1. j \in Keys /\ Undenied(j)' /\ j # k
      OBVIOUS
    <3>2. intents'[j] = intents[j]
      BY <2>2, <3>1, RecordsOne
    <3>3. Undenied(j) /\ KeepsIntent(j)
      BY <3>1, <3>2 DEF Undenied, KeepsIntent
    <3>4. intents[j].created <= now
      BY <2>2, <3>1, <3>3 DEF BudgetInv, HandInv, Pending, At
    <3>5. intents[j].created \in Nat /\ intents[j].created >= start /\ m \in intents[j].under
      BY <1>1, <3>1, <3>2 DEF TypeOK, Intent
    <3>6. intents[j].created + b.window >= now
      BY <1>1, <2>3, <3>5
    <3> QED BY <3>1, <3>3, <3>4, <3>5, <3>6 DEF InWindow
  <2>5. R \in SUBSET H /\ (\A j \in R : KeepsIntent(j)) /\ (\A j \in H : j \in Keys /\ Undenied(j))
    BY <2>4 DEF InWindow
  <2>6. /\ Total(intents, H) \in Nat /\ Total(intents', R) \in Nat
        /\ Total(intents', R) <= Total(intents, H)
    <3> HIDE DEF H, R
    <3> QED BY <1>0, <2>5, TotalMoves DEF BudgetInv
  <2>7. IsFiniteSet(V) /\ \A j \in V : intents'[j].amount \in Nat
    <3>1. IsFiniteSet({j \in Keys : Recorded(j)'})
      BY FiniteStep DEF BudgetInv
    <3>2. V \in SUBSET {j \in Keys : Recorded(j)'}
      BY DEF Undenied, Recorded
    <3>3. \A j \in V : intents'[j].amount \in Nat
      BY <1>0 DEF TypeOK, Intent
    <3> HIDE DEF V
    <3> QED BY <3>1, <3>2, <3>3, FS_Subset
  <2> HIDE DEF V, H
  <2>8. Total(intents', V) = sess[s].amount + Total(intents', R)
    BY <2>2, <2>7, TotalSplit
  <2>9. Total(intents', V) <= b.limit
    BY <1>1, <2>3, <2>6, <2>8
  <2> QED BY <2>9 DEF V
<1> QED BY <1>5, <1>6

LEMMA BudgetStep ==
  ASSUME OneMandate, TypeOK, ApprovalInv, MandateInv, OrderInv, BudgetInv, [Next]_vars
  PROVE  BudgetInv'
<1>1. \A s \in Sessions : HandInv(s)'
  BY HandStep
<1>2. IsFiniteSet({k \in Keys : Recorded(k)})'
  BY FiniteStep DEF BudgetInv
<1>3. ASSUME NEW k \in Keys, Undenied(k)', NEW m \in intents'[k].under
      PROVE  Binding(m, intents[k].created)'
  <2>1. m \in Mandates
    BY TypeStep DEF TypeOK, Intent
  <2>2. Binding(m, intents'[k].created)
    <3>1. CASE Undenied(k) /\ KeepsIntent(k)
      BY <1>3, <3>1 DEF BudgetInv, KeepsIntent
    <3>2. ASSUME NEW s \in Sessions, At(s, "recording"), sess[s].verdict # "DENY",
                 intents'[k].created = sess[s].now, intents'[k].under = sess[s].under
          PROVE  Binding(m, intents'[k].created)
      BY <1>3, <3>2 DEF BudgetInv, HandInv
    <3> QED BY <1>3, <3>1, <3>2, UndeniedMoves
  <2> QED BY <2>1, <2>2, BindingStays DEF Binding
<1>4. BudgetKept'
  BY BudgetKeptStep
<1> QED BY <1>1, <1>2, <1>3, <1>4 DEF BudgetInv

LEMMA BudgetInit == Init => BudgetInv
<1> SUFFICES ASSUME Init PROVE BudgetInv
  OBVIOUS
<1>1. \A k \in Keys : ~Recorded(k) /\ ~Undenied(k)
  BY DEF Init, NoIntent, Recorded, Undenied
<1>2. {k \in Keys : Recorded(k)} = {}
  BY <1>1
<1>3. \A s \in Sessions : HandInv(s)
  BY DEF Init, Idle, HandInv, Pending, Before, At
<1>4. ASSUME NEW m \in Mandates, NEW b \in Limits[m].budgets, NEW start \in Times
      PROVE  Total(intents, {k \in Keys : /\ Undenied(k) /\ m \in intents[k].under
                                          /\ intents[k].created \in start .. start + b.window})
               <= b.limit
  <2> DEFINE W == {k \in Keys : /\ Undenied(k) /\ m \in intents[k].under
                                /\ intents[k].created \in start .. start + b.window}
  <2>1. W = {}
    BY <1>1
  <2>2. Total(intents, {}) = 0
    BY FS_EmptySet, TotalAt
  <2>3. b.limit \in Nat
    BY GovernanceAssumption
  <2> HIDE DEF W
  <2>4. Total(intents, W) <= b.limit
    BY <2>1, <2>2, <2>3
  <2> QED BY <2>4 DEF W
<1>5. IsFiniteSet({k \in Keys : Recorded(k)})
  BY <1>2, FS_EmptySet
<1>6. BudgetKept
  BY <1>4 DEF BudgetKept
<1> QED BY <1>1, <1>3, <1>5, <1>6 DEF BudgetInv

\* BudgetKept holds of every behaviour with one mandate in which overlapping
\* submissions read the same time and carry different keys: no interleaving of
\* requests, approvals, sweeps and crashes lets undenied payments, reviews
\* included, exceed a budget in any of its windows.
THEOREM BudgetAlwaysKept ==
  ASSUME OneMandate
  PROVE  OrderlySpec => []BudgetKept
<1> DEFINE IInv == TypeOK /\ ApprovalInv /\ MandateInv /\ OrderInv /\ BudgetInv
<1>1. Init => IInv
  BY TypeInit, MandateInit, OrderInit, BudgetInit
<1>2. IInv /\ [Next /\ Orderly']_vars => IInv'
  BY OneMandate, TypeStep, ApprovalStepInv, MandateStep, OrderStep, BudgetStep
<1>3. IInv => BudgetKept
  BY DEF BudgetInv
<1> QED BY <1>1, <1>2, <1>3, PTL DEF OrderlySpec
=============================================================================
