----------------------------- MODULE AgentRun -----------------------------
(***************************************************************************)
(* One run of an LLM agent (llm_agent/loop.py, broker.py, tools.py,        *)
(* model.py) over the protocol client (sdk/paari_agent/client.py): the     *)
(* model proposes tool calls, the broker decides which of them become      *)
(* signed requests, and the server's rows change by what it receives.      *)
(*                                                                         *)
(* Requests and answers travel: a client that gives up waiting raises, the *)
(* run is over, and its last request may still be handled afterwards.      *)
(* The server is reduced to what a run can make it do; Governance.tla and  *)
(* Settlement.tla are about its inside.                                    *)
(***************************************************************************)
EXTENDS Naturals, Sequences, FiniteSets

CONSTANTS
  Calls,        \* the tool calls the model may emit
  Cap,          \* PaariBroker.max_amount_minor_units
  MaxConsumes,  \* PaariBroker.max_consumes
  MaxTurns,     \* run_goal's max_turns
  MaxToolCalls, \* run_goal's max_tool_calls
  MaxReply      \* bound: tool calls in one reply

\* Transactions are numbered in the order they are proposed; a number not yet
\* reached stands for an id the model invented.
Txns == 1 .. MaxToolCalls
NoTxn == 0
CallIds == (1 .. MaxTurns) \X (1 .. MaxReply)
NoCall == <<0, 0>>

-----------------------------------------------------------------------------
(* tools.py: the contract of each tool, and what a call must look like.     *)

Specs == [get_delegation        |-> {},
          get_payment_authority |-> {},
          propose_payment       |-> {"merchant", "amount_minor_units", "currency",
                                     "purpose", "merchant_category"},
          confirm_payment       |-> {"authorization_id"},
          read_proof            |-> {"transaction_id"}]

RequiredArguments == [Specs EXCEPT
  !.propose_payment = {"merchant", "amount_minor_units", "currency"}]

Arguments == UNION {Specs[name] : name \in DOMAIN Specs}

\* `keys` are the arguments given, `bad` those of them with a value of the wrong
\* type, empty or too long; the rest is what a well-formed call carries.
Call == [name : DOMAIN Specs \cup {"transfer"}, keys : SUBSET (Arguments \cup {"limit"}),
         bad : SUBSET Arguments, amount : Nat, currency : {"own", "other"},
         txn : Txns \cup {NoTxn}]

ASSUME RunAssumption ==
  /\ Cap \in Nat /\ MaxConsumes \in Nat
  /\ MaxTurns \in Nat /\ MaxToolCalls \in Nat /\ MaxReply \in Nat
  /\ Calls \subseteq Call

\* validate: an unknown tool, an argument too many, one missing, or a bad value.
Valid(call) ==
  /\ call.name \in DOMAIN Specs
  /\ call.keys \subseteq Specs[call.name]
  /\ RequiredArguments[call.name] \subseteq call.keys
  /\ call.bad \cap call.keys = {}

-----------------------------------------------------------------------------
VARIABLES
  client,  \* PaariAgentClient: new, registered, with a session, or a lapsed one
  run,     \* run_goal's position and Outcome
  broker,  \* PaariBroker: authorizations in hand, payments counted, causal stamp
  wire,    \* the request on its way to the server
  answer,  \* the answer on its way back
  intents, \* the server's payment intents of this run, by transaction
  auths,   \* their authorizations
  moved,   \* transactions for which a provider was asked to move money
  origin,  \* history: the tool call each transaction was proposed by
  asked,   \* history: consume requests sent for each transaction
  acked    \* history: transactions whose consume the server answered with 200

server == <<intents, auths, moved>>
history == <<origin, asked, acked>>
vars == <<client, run, broker, wire, answer, server, history>>

Intent == [decision : {"none", "allow", "review", "deny"}, amount : Nat,
           label : CallIds \cup {NoCall}]
NoIntent == [decision |-> "none", amount |-> 0, label |-> NoCall]

Request == [kind : {"none", "intent", "consume"}, txn : Txns \cup {NoTxn}, amount : Nat,
            label : CallIds \cup {NoCall}]
Silent == [kind |-> "none", txn |-> NoTxn, amount |-> 0, label |-> NoCall]
NoAnswer == "none"
Answers == {NoAnswer, "allow", "review", "deny", "executed", "rejected"}

Broker == [pending : SUBSET Txns, known : 0 .. MaxToolCalls, consumes : Nat,
           stamp : CallIds \cup {NoCall}]

Errors == {"none", "EMPTY_REPLY", "MAX_TOOL_CALLS", "MAX_TURNS"}
Queued == [id : CallIds, call : Calls]
Run == [pc : {"onboarding", "turn", "waiting", "tools", "sent", "done", "raised"},
        turn : 0 .. MaxTurns, calls : 0 .. MaxToolCalls,
        queue : Seq(Queued), ok : BOOLEAN, error : Errors,
        executed : BOOLEAN, txn : Txns \cup {NoTxn}]
Start == [pc |-> "onboarding", turn |-> 0, calls |-> 0, queue |-> <<>>, ok |-> FALSE,
          error |-> "none", executed |-> FALSE, txn |-> NoTxn]

Init ==
  /\ client = "new"
  /\ run = Start
  /\ broker = [pending |-> {}, known |-> 0, consumes |-> 0, stamp |-> NoCall]
  /\ wire = Silent /\ answer = NoAnswer
  /\ intents = [t \in Txns |-> NoIntent]
  /\ auths = [t \in Txns |-> "none"]
  /\ moved = {}
  /\ origin = [t \in Txns |-> NoCall]
  /\ asked = [t \in Txns |-> 0]
  /\ acked = {}

Over == run.pc \in {"done", "raised"}
Known(t) == t \in 1 .. broker.known

Current == Head(run.queue)
Raised(r) == [r EXCEPT !.pc = "raised"]
Returned(r, error) == [r EXCEPT !.pc = "done", !.error = error, !.ok = (error = "none")]

\* One tool call is over: on to the next of the reply, or to the next turn.
Counted(r) ==
  [r EXCEPT !.calls = @ + 1, !.queue = Tail(@),
            !.pc = IF Len(r.queue) = 1 THEN "turn" ELSE "tools"]

-----------------------------------------------------------------------------
(* client.py: onboarding.  The harness stops at the first error.            *)

\* The card is verified after agent_id and credential have been stored.
Register ==
  /\ run.pc = "onboarding" /\ client = "new"
  /\ client' = "registered"
  /\ run' \in {run, Raised(run)}
  /\ UNCHANGED <<broker, wire, answer, server, history>>

\* Challenge and verification.
Authenticate ==
  /\ run.pc = "onboarding" /\ client = "registered"
  /\ client' = "session"
  /\ run' = [run EXCEPT !.pc = "turn"]
  /\ UNCHANGED <<broker, wire, answer, server, history>>

OnboardingFails ==
  /\ run.pc = "onboarding"
  /\ run' = Raised(run)
  /\ UNCHANGED <<client, broker, wire, answer, server, history>>

\* The session token lapses during the run; nothing renews it.
SessionLapses ==
  /\ client = "session"
  /\ client' = "lapsed"
  /\ UNCHANGED <<run, broker, wire, answer, server, history>>

-----------------------------------------------------------------------------
(* loop.py: turns and replies.                                             *)

StartTurn ==
  /\ run.pc = "turn"
  /\ run' = IF run.turn = MaxTurns THEN Returned(run, "MAX_TURNS")
            ELSE [run EXCEPT !.turn = @ + 1, !.pc = "waiting"]
  /\ UNCHANGED <<client, broker, wire, answer, server, history>>

\* model.py: unreachable, an error status, or a body that does not parse.
ModelFails ==
  /\ run.pc = "waiting"
  /\ run' = Raised(run)
  /\ UNCHANGED <<client, broker, wire, answer, server, history>>

ModelAnswers(empty) ==
  /\ run.pc = "waiting"
  /\ run' = Returned(run, IF empty THEN "EMPTY_REPLY" ELSE "none")
  /\ UNCHANGED <<client, broker, wire, answer, server, history>>

\* A reply that would pass the limit is dropped whole.
ModelCalls(calls) ==
  /\ run.pc = "waiting"
  /\ run' = IF run.calls + Len(calls) > MaxToolCalls THEN Returned(run, "MAX_TOOL_CALLS")
            ELSE [run EXCEPT !.pc = "tools",
                    !.queue = [i \in 1 .. Len(calls) |-> [id |-> <<run.turn, i>>, call |-> calls[i]]]]
  /\ UNCHANGED <<client, broker, wire, answer, server, history>>

-----------------------------------------------------------------------------
(* broker.py: one tool call.                                               *)

\* Mutant: the stamp of the reply's first call stays for the others.
StampOfTurn == IF Current.id[2] = 1 THEN Current.id ELSE broker.stamp

\* The causal context carries the id of the very call being executed.
Stamp == Current.id

Calling(name) == run.pc = "tools" /\ Valid(Current.call) /\ Current.call.name = name

\* propose_payment refuses before the wire.
Grantable(call) == call.amount > 0 /\ call.amount <= Cap /\ call.currency = "own"

\* Mutant: an authorization stays in hand, to be asked for again.
InHandKept(t) == broker.pending

\* confirm_payment pops the authorization before it calls the server.
InHand(t) == broker.pending \ {t}

Confirmable(call) == broker.consumes < MaxConsumes /\ call.txn \in broker.pending

\* A call that stops at the broker: malformed, or refused by its tool.
RefuseCall ==
  /\ run.pc = "tools"
  /\ \/ ~Valid(Current.call)
     \/ Calling("propose_payment") /\ ~Grantable(Current.call)
     \/ Calling("confirm_payment") /\ ~Confirmable(Current.call)
     \/ Calling("read_proof") /\ ~Known(Current.call.txn)
  /\ broker' = [broker EXCEPT !.stamp = Stamp]
  /\ run' = Counted(run)
  /\ UNCHANGED <<client, wire, answer, server, history>>

\* The tools that only read; their request may raise.
Query ==
  /\ \/ Calling("get_delegation") \/ Calling("get_payment_authority")
     \/ Calling("read_proof") /\ Known(Current.call.txn)
  /\ broker' = [broker EXCEPT !.stamp = Stamp]
  /\ run' \in {Counted(run)} \cup (IF Calling("get_delegation") THEN {} ELSE {Raised(run)})
  /\ UNCHANGED <<client, wire, answer, server, history>>

\* A fresh transaction, known to the run before the server has heard of it.
Propose ==
  LET t == broker.known + 1 IN
  /\ Calling("propose_payment") /\ Grantable(Current.call)
  /\ broker' = [broker EXCEPT !.known = t, !.stamp = Stamp]
  /\ wire' = [kind |-> "intent", txn |-> t, amount |-> Current.call.amount, label |-> Stamp]
  /\ origin' = [origin EXCEPT ![t] = Current.id]
  /\ run' = [run EXCEPT !.pc = "sent"]
  /\ UNCHANGED <<client, answer, server, asked, acked>>

Confirm ==
  LET t == Current.call.txn IN
  /\ Calling("confirm_payment") /\ Confirmable(Current.call)
  /\ broker' = [broker EXCEPT !.pending = InHand(t), !.stamp = Stamp]
  /\ wire' = [Silent EXCEPT !.kind = "consume", !.txn = t]
  /\ asked' = [asked EXCEPT ![t] = @ + 1]
  /\ run' = [run EXCEPT !.pc = "sent"]
  /\ UNCHANGED <<client, answer, server, origin, acked>>

\* Mutant: whatever confirm_payment returned is taken for an executed payment.
AfterConfirmAny(r, t) == [r EXCEPT !.executed = TRUE, !.txn = t]

AfterConfirm(r, t) ==
  IF answer = "executed" THEN [r EXCEPT !.executed = TRUE, !.txn = t] ELSE r

\* Mutant: a confirmed payment is not counted.
ConsumesUncounted == broker.consumes

ConsumesAfter == IF answer = "executed" THEN broker.consumes + 1 ELSE broker.consumes

\* The answer of the server, whose errors are data for the model.
ReceiveDecision ==
  /\ run.pc = "sent" /\ answer # NoAnswer
  /\ Current.call.name = "propose_payment"
  /\ broker' = IF answer = "allow" THEN [broker EXCEPT !.pending = @ \cup {broker.known}] ELSE broker
  /\ run' = Counted(run)
  /\ answer' = NoAnswer
  /\ UNCHANGED <<client, wire, server, history>>

ReceiveExecution ==
  /\ run.pc = "sent" /\ answer # NoAnswer
  /\ Current.call.name = "confirm_payment"
  /\ broker' = [broker EXCEPT !.consumes = ConsumesAfter]
  /\ run' = AfterConfirm(Counted(run), Current.call.txn)
  /\ answer' = NoAnswer
  /\ UNCHANGED <<client, wire, server, history>>

\* Mutant: the HTTP client waits without a timeout.
GiveUpNever == FALSE /\ UNCHANGED vars

\* The timeout of the HTTP client, a broken connection or an unreadable body.
GiveUp ==
  /\ run.pc = "sent"
  /\ run' = Raised(run)
  /\ UNCHANGED <<client, broker, wire, answer, server, history>>

-----------------------------------------------------------------------------
(* The server, by what a run sees of it, and those around it.              *)

Handled(ans) == wire' = Silent /\ answer' = ans

\* Any refusal; the only answer once the session has lapsed.
Reject ==
  /\ wire # Silent
  /\ Handled("rejected")
  /\ UNCHANGED <<client, run, broker, server, history>>

\* The decision and the mint are two commits: a failure between them answers
\* with an error although the intent is allowed.
Decide(decision, minted) ==
  LET t == wire.txn IN
  /\ wire.kind = "intent" /\ client = "session"
  /\ minted => decision = "allow"
  /\ intents' = [intents EXCEPT ![t] = [decision |-> decision, amount |-> wire.amount,
                                        label |-> wire.label]]
  /\ auths' = IF minted THEN [auths EXCEPT ![t] = "open"] ELSE auths
  /\ Handled(IF decision = "allow" /\ ~minted THEN "rejected" ELSE decision)
  /\ UNCHANGED <<client, run, broker, moved, history>>

\* Consume: 200 once the provider has answered, whatever it made of the payment;
\* an error, with the authorization spent, when its answer is lost or an error.
Execute(ok) ==
  LET t == wire.txn IN
  /\ wire.kind = "consume" /\ client = "session"
  /\ auths[t] = "open"
  /\ auths' = [auths EXCEPT ![t] = "spent"]
  /\ moved' \in IF ok THEN {moved \cup {t}} ELSE {moved, moved \cup {t}}
  /\ acked' = IF ok THEN acked \cup {t} ELSE acked
  /\ Handled(IF ok THEN "executed" ELSE "rejected")
  /\ UNCHANGED <<client, run, broker, intents, origin, asked>>

\* Another client of the same agent.
OwnerRevokes(t) ==
  /\ auths[t] = "open"
  /\ auths' = [auths EXCEPT ![t] = "revoked"]
  /\ UNCHANGED <<client, run, broker, wire, answer, intents, moved, history>>

\* A step-up approval mints an authorization the run never hears of.
ParentApproves(t) ==
  /\ intents[t].decision = "review"
  /\ intents' = [intents EXCEPT ![t].decision = "allow"]
  /\ auths' = [auths EXCEPT ![t] = "open"]
  /\ UNCHANGED <<client, run, broker, wire, answer, moved, history>>

-----------------------------------------------------------------------------
Replies == UNION {[1 .. n -> Calls] : n \in 1 .. MaxReply}

ModelStep ==
  \/ ModelFails
  \/ \E empty \in BOOLEAN : ModelAnswers(empty)
  \/ \E calls \in Replies : ModelCalls(calls)

RunStep ==
  \/ Register \/ Authenticate \/ OnboardingFails
  \/ StartTurn \/ ModelStep
  \/ RefuseCall \/ Query \/ Propose \/ Confirm
  \/ ReceiveDecision \/ ReceiveExecution \/ GiveUp

ServerStep ==
  \/ Reject
  \/ \E decision \in {"allow", "review", "deny"}, minted \in BOOLEAN : Decide(decision, minted)
  \/ \E ok \in BOOLEAN : Execute(ok)

Next ==
  \/ RunStep
  \/ ServerStep
  \/ SessionLapses
  \/ \E t \in Txns : OwnerRevokes(t) \/ ParentApproves(t)

Spec == Init /\ [][Next]_vars

\* Every HTTP call of the client and of the model client has a timeout (30 and
\* 90 seconds), so a run never waits for ever; the server owes nothing.
FairSpec == Spec /\ WF_vars(RunStep)

-----------------------------------------------------------------------------
(* Properties.                                                             *)

TypeOK ==
  /\ client \in {"new", "registered", "session", "lapsed"}
  /\ run \in Run
  /\ broker \in Broker
  /\ wire \in Request
  /\ answer \in Answers
  /\ intents \in [Txns -> Intent]
  /\ auths \in [Txns -> {"none", "open", "spent", "revoked"}]
  /\ moved \subseteq Txns /\ acked \subseteq Txns
  /\ origin \in [Txns -> CallIds \cup {NoCall}]
  /\ asked \in [Txns -> Nat]

\* What reaches the server as a payment is a proposal of this run, within the
\* grant, that governance allowed when it was proposed; and each authorization is
\* presented at most once, whatever was lost, refused, or approved by others
\* meanwhile (broker.py 177-188: "only an authorization_id returned by a
\* successful propose_payment in this run can be confirmed").
OnlyOwnProposals ==
  \A t \in Txns :
    /\ asked[t] <= 1
    /\ asked[t] = 1 => /\ Known(t) /\ intents[t].decision = "allow"
                       /\ intents[t].amount \in 1 .. Cap
                       /\ auths[t] # "none"

\* The server acknowledges no more payments than the run was given, also when
\* the last one is handled after the run has given up.
AckedWithinBudget == Cardinality(acked) <= MaxConsumes

\* No run reaches past what it was given: its own proposals, and their number.
WithinGrant == OnlyOwnProposals /\ AckedWithinBudget

\* The label stored with an intent is the id of the tool call that proposed it,
\* for every call of a reply with several.
TracedToCall ==
  \A t \in Txns : intents[t].decision # "none" => intents[t].label = origin[t]

\* The outcome reports an executed payment exactly when one was acknowledged, and
\* names one that was; only a run that raised may have executed unreported.
OutcomeIsTrue ==
  /\ run.executed => run.txn \in acked /\ auths[run.txn] = "spent"
  /\ run.pc = "done" => (run.executed <=> acked # {}) /\ broker.consumes = Cardinality(acked)

\* A run ends, whatever the model says and whether or not the server answers.
RunEnds == <>Over
=============================================================================
