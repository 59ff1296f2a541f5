-------------------------- MODULE AgentRunProofs --------------------------
(***************************************************************************)
(* A run of an agent stays within what it was given, for any number of     *)
(* turns, calls and payments and whatever calls the model may emit.        *)
(***************************************************************************)
EXTENDS AgentRun, FiniteSetTheorems, SequenceTheorems, TLAPS

-----------------------------------------------------------------------------
(* The inductive invariant.                                                *)

\* Where the run is: a turn that waits for the model has a number, what is left
\* of a reply fits the limit, and no more transactions are known than calls made.
PlaceInv ==
  /\ run.pc = "waiting" => run.turn >= 1
  /\ run.pc \in {"tools", "sent"} =>
       run.queue # <<>> /\ run.calls + Len(run.queue) <= MaxToolCalls
  /\ run.pc \in {"onboarding", "turn", "waiting", "tools"} => broker.known <= run.calls
  /\ run.pc = "sent" => broker.known <= run.calls + 1

Proposing == run.pc = "sent" /\ Current.call.name = "propose_payment"
Confirming == run.pc = "sent" /\ Current.call.name = "confirm_payment"

\* What travels: one request or its answer, of the call being executed unless the
\* run is over.
TravelInv ==
  /\ wire # Silent => wire.kind # "none"
  /\ wire # Silent => answer = NoAnswer /\ run.pc \in {"sent", "raised"}
  /\ answer # NoAnswer => run.pc \in {"sent", "raised"}
  /\ wire.kind = "intent" => wire.txn = broker.known /\ wire.txn \in Txns /\ ~Confirming
  /\ wire.kind = "consume" =>
       wire.txn \in Txns /\ ~Proposing /\ (Confirming => wire.txn = Current.call.txn)
  /\ answer \in {"allow", "review", "deny"} => ~Confirming
  /\ answer = "allow" => broker.known \in Txns
  /\ answer = "executed" =>
       ~Proposing /\ (Confirming => Current.call.txn \in acked)

\* A transaction the server was not yet asked to decide has no row.
Untouched(t) ==
  /\ intents[t] = NoIntent /\ auths[t] = "none" /\ asked[t] = 0
  /\ t \notin acked /\ t \notin broker.pending

\* A transaction that governance allowed as the run proposed it, and that the run
\* has not asked to execute.
Allowed(t) ==
  /\ Known(t) /\ intents[t].decision = "allow" /\ auths[t] # "none"
Offered(t) == Allowed(t) /\ asked[t] = 0

\* The rows of the server and what the run holds of them.
RowInv ==
  /\ \A t \in Txns : ~Known(t) => Untouched(t)
  /\ \A t \in Txns : intents[t].decision # "none" =>
       intents[t].amount \in 1 .. Cap /\ intents[t].label = origin[t]
  /\ \A t \in Txns : auths[t] # "none" => intents[t].decision = "allow"
  /\ \A t \in broker.pending : Offered(t)
  /\ \A t \in Txns : asked[t] <= 1 /\ (asked[t] = 1 => Allowed(t))
  /\ \A t \in acked : asked[t] = 1 /\ auths[t] = "spent"
  /\ wire.kind = "intent" =>
       /\ Untouched(wire.txn)
       /\ wire.amount \in 1 .. Cap /\ wire.label = origin[wire.txn]
  /\ wire.kind = "consume" => asked[wire.txn] = 1
  /\ answer = "allow" => Offered(broker.known)

\* Payments acknowledged by the server against those the broker counted.
CountInv ==
  /\ IsFiniteSet(acked)
  /\ run.pc # "raised" =>
       Cardinality(acked) = broker.consumes + (IF answer = "executed" THEN 1 ELSE 0)
  /\ Cardinality(acked) <= MaxConsumes
  /\ wire.kind = "consume" => Cardinality(acked) < MaxConsumes
  /\ run.executed => run.txn \in acked
  /\ run.pc # "raised" => (run.executed <=> broker.consumes # 0)

RunInv == TypeOK /\ PlaceInv /\ TravelInv /\ RowInv /\ CountInv

-----------------------------------------------------------------------------
(* What the operators of the loop and the broker return.                   *)

\* A call in the queue is one the model may emit, with the id of its turn.
LEMMA CurrentType ==
  ASSUME TypeOK, run.queue # <<>>
  PROVE  Current.id \in CallIds /\ Current.call \in Call
<1>1. run.queue \in Seq(Queued)
  BY DEF TypeOK, Run
<1>2. Current \in Queued
  BY <1>1, HeadTailProperties DEF Current
<1> QED BY <1>2, RunAssumption DEF Queued

\* Counting a call drops it from the queue and changes nothing of the outcome.
LEMMA CountedType ==
  ASSUME TypeOK, PlaceInv, run.pc \in {"tools", "sent"}
  PROVE  /\ Counted(run) \in Run
         /\ Counted(run).pc \in {"turn", "tools"}
         /\ Counted(run).calls = run.calls + 1
         /\ Counted(run).executed = run.executed /\ Counted(run).txn = run.txn
         /\ Counted(run).pc = "tools" =>
              /\ Counted(run).queue # <<>>
              /\ Counted(run).calls + Len(Counted(run).queue) <= MaxToolCalls
<1> DEFINE next == IF Len(run.queue) = 1 THEN "turn" ELSE "tools"
<1>1. run \in Run /\ run.queue \in Seq(Queued) /\ run.queue # <<>> /\ run.calls \in Nat
      /\ run.calls + Len(run.queue) <= MaxToolCalls
  BY DEF TypeOK, Run, PlaceInv
<1>2. Len(run.queue) \in Nat /\ Len(run.queue) >= 1
  BY <1>1
<1>3. Tail(run.queue) \in Seq(Queued) /\ Len(Tail(run.queue)) = Len(run.queue) - 1
  BY <1>1, HeadTailProperties
<1>4. run.calls + 1 \in 0 .. MaxToolCalls
  BY <1>1, <1>2, RunAssumption
<1>5. Counted(run) = [run EXCEPT !.calls = run.calls + 1, !.queue = Tail(run.queue), !.pc = next]
  BY DEF Counted
<1>6. next \in {"turn", "tools"}
  OBVIOUS
<1>7. next = "tools" => Tail(run.queue) # <<>>
  <2>1. Len(run.queue) # 1 => Len(Tail(run.queue)) # 0
    BY <1>2, <1>3
  <2>2. Len(<<>>) = 0
    OBVIOUS
  <2> QED BY <2>1, <2>2
<1> HIDE DEF next
<1>8. Counted(run) \in Run
  BY <1>1, <1>3, <1>4, <1>5, <1>6 DEF Run
<1>9. Counted(run).pc = next /\ Counted(run).calls = run.calls + 1
      /\ Counted(run).queue = Tail(run.queue)
      /\ Counted(run).executed = run.executed /\ Counted(run).txn = run.txn
  BY <1>1, <1>5 DEF Run
<1>10. run.calls + 1 + Len(Tail(run.queue)) <= MaxToolCalls
  BY <1>1, <1>2, <1>3, RunAssumption
<1> QED BY <1>6, <1>7, <1>8, <1>9, <1>10

\* A run that raises or returns keeps everything but its place and its error.
LEMMA OverType ==
  ASSUME run \in Run, NEW error \in Errors
  PROVE  /\ Raised(run) \in Run /\ Raised(run).pc = "raised"
         /\ Raised(run).executed = run.executed /\ Raised(run).txn = run.txn
         /\ Returned(run, error) \in Run /\ Returned(run, error).pc = "done"
         /\ Returned(run, error).executed = run.executed /\ Returned(run, error).txn = run.txn
  BY DEF Run, Raised, Returned

LEMMA BrokerStamp ==
  ASSUME broker \in Broker, NEW stamp \in CallIds
  PROVE  LET b == [broker EXCEPT !.stamp = stamp] IN
         /\ b \in Broker /\ b.stamp = stamp
         /\ b.pending = broker.pending /\ b.known = broker.known /\ b.consumes = broker.consumes
  BY DEF Broker

-----------------------------------------------------------------------------
(* Steps that send and receive nothing.                                    *)

QuietStep ==
  \/ Register \/ Authenticate \/ OnboardingFails \/ StartTurn \/ ModelStep
  \/ RefuseCall \/ Query \/ GiveUp \/ SessionLapses

\* Such a step leaves what travels and the server alone, and does not send.
QuietMove ==
  /\ UNCHANGED <<wire, answer, intents, auths, moved, origin, asked, acked>>
  /\ client' \in {"new", "registered", "session", "lapsed"}
  /\ run' \in Run /\ run'.executed = run.executed /\ run'.txn = run.txn
  /\ broker' \in Broker /\ broker'.pending = broker.pending
  /\ broker'.known = broker.known /\ broker'.consumes = broker.consumes
  /\ \/ run' = run
     \/ run'.pc # "sent" /\ run.pc # "raised" /\ (run.pc = "sent" => run'.pc = "raised")
  /\ PlaceInv'

LEMMA QuietMoves ==
  ASSUME TypeOK, PlaceInv, QuietStep
  PROVE  QuietMove
<1> USE DEF QuietMove, server, history
<1>a. /\ client \in {"new", "registered", "session", "lapsed"} /\ run \in Run /\ broker \in Broker
      /\ run.calls \in Nat /\ run.turn \in 0 .. MaxTurns /\ broker.known \in Nat
  BY DEF TypeOK, Run, Broker
<1>r. /\ Raised(run) \in Run /\ Raised(run).pc = "raised"
      /\ Raised(run).executed = run.executed /\ Raised(run).txn = run.txn
  BY <1>a, OverType DEF Errors
<1>1. CASE Register
  BY <1>1, <1>a, <1>r DEF Register, PlaceInv
<1>2. CASE Authenticate
  <2>1. /\ run' \in Run /\ run'.pc = "turn" /\ run'.executed = run.executed
        /\ run'.txn = run.txn /\ run'.calls = run.calls
    BY <1>2, <1>a DEF Authenticate, Run
  <2> QED BY <1>2, <1>a, <2>1 DEF Authenticate, PlaceInv
<1>3. CASE OnboardingFails
  BY <1>3, <1>a, <1>r DEF OnboardingFails, PlaceInv
<1>4. CASE StartTurn
  <2>1. CASE run.turn = MaxTurns
    <3>1. run' = Returned(run, "MAX_TURNS")
      BY <1>4, <2>1 DEF StartTurn
    <3>2. run' \in Run /\ run'.pc = "done" /\ run'.executed = run.executed /\ run'.txn = run.txn
      BY <3>1, <1>a, OverType DEF Errors
    <3> QED BY <1>4, <1>a, <3>2 DEF StartTurn, PlaceInv
  <2>2. CASE run.turn # MaxTurns
    <3>1. run' = [run EXCEPT !.turn = run.turn + 1, !.pc = "waiting"]
      BY <1>4, <2>2 DEF StartTurn
    <3>2. run.turn + 1 \in 0 .. MaxTurns /\ run.turn + 1 >= 1
      BY <1>a, <2>2, RunAssumption
    <3>3. /\ run' \in Run /\ run'.pc = "waiting" /\ run'.executed = run.executed
          /\ run'.txn = run.txn /\ run'.calls = run.calls /\ run'.turn >= 1
      BY <3>1, <3>2, <1>a DEF Run
    <3> QED BY <1>4, <1>a, <3>3 DEF StartTurn, PlaceInv
  <2> QED BY <2>1, <2>2
<1>5. CASE ModelStep
  <2>1. CASE ModelFails
    BY <2>1, <1>a, <1>r DEF ModelFails, PlaceInv
  <2>2. ASSUME NEW empty \in BOOLEAN, ModelAnswers(empty) PROVE QuietMove
    <3>1. run' \in Run /\ run'.pc = "done" /\ run'.executed = run.executed /\ run'.txn = run.txn
      BY <2>2, <1>a, OverType DEF ModelAnswers, Errors
    <3> QED BY <2>2, <1>a, <3>1 DEF ModelAnswers, PlaceInv
  <2>3. ASSUME NEW calls \in Replies, ModelCalls(calls) PROVE QuietMove
    <3> DEFINE queue == [i \in 1 .. Len(calls) |-> [id |-> <<run.turn, i>>, call |-> calls[i]]]
    <3>1. PICK n \in 1 .. MaxReply : calls \in [1 .. n -> Calls]
      BY DEF Replies
    <3>2. n \in Nat /\ Len(calls) = n /\ n >= 1
      BY <3>1, RunAssumption
    <3>3. CASE run.calls + Len(calls) > MaxToolCalls
      <4>1. run' = Returned(run, "MAX_TOOL_CALLS")
        BY <2>3, <3>3 DEF ModelCalls
      <4>2. run' \in Run /\ run'.pc = "done" /\ run'.executed = run.executed /\ run'.txn = run.txn
        BY <4>1, <1>a, OverType DEF Errors
      <4> QED BY <2>3, <1>a, <4>2 DEF ModelCalls, PlaceInv
    <3>4. CASE ~(run.calls + Len(calls) > MaxToolCalls)
      <4>1. run' = [run EXCEPT !.pc = "tools", !.queue = queue] /\ run.pc = "waiting"
        BY <2>3, <3>4 DEF ModelCalls
      <4>2. \A i \in 1 .. n : <<run.turn, i>> \in CallIds /\ calls[i] \in Calls
        BY <1>a, <4>1, <3>1, <3>2, RunAssumption DEF PlaceInv, CallIds
      <4>3. queue \in [1 .. n -> Queued]
        BY <3>2, <4>2 DEF Queued
      <4>4. queue \in Seq(Queued) /\ Len(queue) = n /\ queue # <<>>
        BY <4>3, <3>2
      <4> HIDE DEF queue
      <4>5. /\ run' \in Run /\ run'.pc = "tools" /\ run'.queue = queue /\ run'.calls = run.calls
            /\ run'.executed = run.executed /\ run'.txn = run.txn
        BY <1>a, <4>1, <4>4 DEF Run
      <4>6. run.calls + n <= MaxToolCalls /\ broker.known <= run.calls
        BY <1>a, <3>2, <3>4, <4>1, RunAssumption DEF PlaceInv
      <4> QED BY <2>3, <1>a, <4>1, <4>4, <4>5, <4>6 DEF ModelCalls, PlaceInv
    <3> QED BY <3>3, <3>4
  <2> QED BY <1>5, <2>1, <2>2, <2>3 DEF ModelStep
<1>6. CASE RefuseCall
  <2>1. run.pc = "tools" /\ run' = Counted(run) /\ broker' = [broker EXCEPT !.stamp = Current.id]
    BY <1>6 DEF RefuseCall, Stamp
  <2>2. broker.known <= run.calls /\ Current.id \in CallIds
    BY <2>1, CurrentType DEF PlaceInv
  <2>3. PlaceInv'
    BY <1>a, <2>1, <2>2, CountedType, BrokerStamp DEF PlaceInv
  <2> QED BY <1>6, <1>a, <2>1, <2>2, <2>3, CountedType, BrokerStamp DEF RefuseCall
<1>7. CASE Query
  <2>1. run.pc = "tools" /\ run' \in {Counted(run), Raised(run)}
        /\ broker' = [broker EXCEPT !.stamp = Current.id]
    BY <1>7 DEF Query, Stamp, Calling
  <2>2. broker.known <= run.calls /\ Current.id \in CallIds
    BY <2>1, CurrentType DEF PlaceInv
  <2>3. PlaceInv'
    BY <1>a, <1>r, <2>1, <2>2, CountedType, BrokerStamp DEF PlaceInv
  <2> QED BY <1>7, <1>a, <1>r, <2>1, <2>2, <2>3, CountedType, BrokerStamp DEF Query
<1>8. CASE GiveUp
  BY <1>8, <1>a, <1>r DEF GiveUp, PlaceInv
<1>9. CASE SessionLapses
  BY <1>9, <1>a DEF SessionLapses, PlaceInv
<1> QED BY <1>1, <1>2, <1>3, <1>4, <1>5, <1>6, <1>7, <1>8, <1>9 DEF QuietStep

LEMMA QuietKeeps ==
  ASSUME RunInv, QuietStep
  PROVE  RunInv'
<1>1. QuietMove
  BY QuietMoves DEF RunInv
<1>2. TypeOK'
  BY <1>1 DEF QuietMove, RunInv, TypeOK
<1>3. PlaceInv'
  BY <1>1 DEF QuietMove
<1>4. TravelInv'
  <2>1. CASE run' = run
    BY <1>1, <2>1 DEF QuietMove, RunInv, TravelInv, Proposing, Confirming, Current
  <2>2. CASE run'.pc # "sent" /\ run.pc # "raised" /\ (run.pc = "sent" => run'.pc = "raised")
    <3>1. ~Proposing' /\ ~Confirming'
      BY <2>2 DEF Proposing, Confirming
    <3> QED BY <1>1, <2>2, <3>1 DEF QuietMove, RunInv, TravelInv
  <2> QED BY <1>1, <2>1, <2>2 DEF QuietMove
<1>5. RowInv'
  <2>1. \A t \in Txns : Untouched(t)' <=> Untouched(t)
    BY <1>1 DEF QuietMove, Untouched
  <2>2. \A t : Known(t)' <=> Known(t)
    BY <1>1 DEF QuietMove, Known
  <2>3. \A t : (Allowed(t)' <=> Allowed(t)) /\ (Offered(t)' <=> Offered(t))
    BY <1>1, <2>2 DEF QuietMove, Allowed, Offered
  <2>4. (wire.kind = "intent" => wire.txn \in Txns)
    BY DEF RunInv, TravelInv
  <2> QED BY <1>1, <2>1, <2>2, <2>3, <2>4 DEF QuietMove, RunInv, RowInv
<1>6. CountInv'
  <2>1. run'.pc # "raised" => run.pc # "raised"
    BY <1>1 DEF QuietMove
  <2> QED BY <1>1, <2>1 DEF QuietMove, RunInv, CountInv
<1> QED BY <1>2, <1>3, <1>4, <1>5, <1>6 DEF RunInv

-----------------------------------------------------------------------------
(* The run sends a request or takes an answer.                             *)

\* With the run at its tools nothing travels.
LEMMA NothingTravels ==
  ASSUME TravelInv, run.pc \notin {"sent", "raised"}
  PROVE  wire = Silent /\ answer = NoAnswer
  BY DEF TravelInv

LEMMA ProposeKeeps ==
  ASSUME RunInv, Propose
  PROVE  RunInv'
<1> DEFINE t == broker.known + 1
<1> USE DEF server, history
<1>a. /\ TypeOK /\ PlaceInv /\ TravelInv /\ RowInv /\ CountInv /\ run.pc = "tools"
      /\ run \in Run /\ broker \in Broker
  BY DEF Propose, Calling, RunInv, TypeOK
<1>b. wire = Silent /\ answer = NoAnswer
  BY <1>a, NothingTravels
<1>c. /\ Current.id \in CallIds /\ Current.call \in Call /\ Current.call.name = "propose_payment"
      /\ Current.call.amount \in 1 .. Cap
  <2>1. Current.id \in CallIds /\ Current.call \in Call
    BY <1>a, CurrentType DEF PlaceInv
  <2>2. Current.call.amount \in Nat
    BY <2>1 DEF Call
  <2> QED BY <2>1, <2>2, RunAssumption DEF Propose, Calling, Grantable
<1>d. /\ broker.known \in Nat /\ run.calls \in Nat /\ t <= run.calls + 1
      /\ t = broker.known + 1 /\ t \in Txns /\ t \in 0 .. MaxToolCalls
  <2>1. broker.known \in Nat /\ run.calls \in Nat /\ broker.known <= run.calls
    BY <1>a DEF PlaceInv, Run, Broker
  <2>2. Len(run.queue) \in Nat /\ Len(run.queue) # 0
    <3>1. run.queue \in Seq(Queued) /\ run.queue # <<>>
      BY <1>a DEF Run, PlaceInv
    <3> QED BY <3>1, EmptySeq
  <2>3. run.calls + Len(run.queue) <= MaxToolCalls
    BY <1>a DEF PlaceInv
  <2> QED BY <2>1, <2>2, <2>3, RunAssumption DEF Txns
<1>e. ~Known(t) /\ \A u \in Txns : u # t => (~(u \in 1 .. t) <=> ~Known(u))
  BY <1>d, RunAssumption DEF Known, Txns
<1>f. /\ run' = [run EXCEPT !.pc = "sent"]
      /\ broker' = [broker EXCEPT !.known = t, !.stamp = Current.id]
      /\ wire' = [kind |-> "intent", txn |-> t, amount |-> Current.call.amount,
                  label |-> Current.id]
      /\ origin' = [origin EXCEPT ![t] = Current.id]
      /\ UNCHANGED <<client, answer, intents, auths, moved, asked, acked>>
  BY DEF Propose, Stamp
<1> HIDE DEF t
<1>g. /\ run' \in Run /\ run'.pc = "sent" /\ run'.queue = run.queue /\ run'.calls = run.calls
      /\ run'.executed = run.executed /\ run'.txn = run.txn
  BY <1>a, <1>f DEF Run
<1>h. /\ broker' \in Broker /\ broker'.known = t /\ broker'.pending = broker.pending
      /\ broker'.consumes = broker.consumes
  BY ONLY <1>a, <1>c, <1>d, <1>f DEF Broker
<1>i. wire'.kind = "intent" /\ wire'.txn = t /\ wire' \in Request /\ wire' # Silent
      /\ wire'.amount = Current.call.amount /\ wire'.label = Current.id
  BY <1>c, <1>d, <1>f, RunAssumption DEF Request, Silent
<1>1. TypeOK'
  BY <1>a, <1>c, <1>d, <1>f, <1>g, <1>h, <1>i DEF TypeOK
<1>2. PlaceInv'
  BY <1>a, <1>d, <1>g, <1>h DEF PlaceInv
<1>3. TravelInv'
  <2>1. ~Confirming'
    BY <1>c, <1>g DEF Confirming, Current
  <2> QED BY <1>b, <1>d, <1>f, <1>g, <1>h, <1>i, <2>1 DEF TravelInv, NoAnswer
<1>4. RowInv'
  <2>1. Untouched(t) /\ \A u \in Txns : ~Known(u)' => u # t /\ ~Known(u)
    BY <1>a, <1>d, <1>e, <1>h DEF RowInv, Known, Txns
  <2>2. \A u \in Txns : Untouched(u) => Untouched(u)'
    BY <1>f, <1>h DEF Untouched
  <2>3. \A u \in Txns : Known(u) => Known(u)'
    BY ONLY <1>d, <1>h DEF Known
  <2>4. \A u \in Txns : (Allowed(u) => Allowed(u)') /\ (Offered(u) => Offered(u)')
    BY <1>f, <2>3 DEF Allowed, Offered
  <2>5. \A u \in Txns : origin'[u] = IF u = t THEN Current.id ELSE origin[u]
    BY <1>a, <1>f DEF TypeOK
  <2>6. intents[t].decision = "none"
    BY <2>1 DEF Untouched, NoIntent
  <2>7. \A u \in Txns : intents[u].decision # "none" =>
          intents[u].amount \in 1 .. Cap /\ intents[u].label = origin'[u]
    BY <1>a, <2>5, <2>6 DEF RowInv
  <2>8. \A u \in broker.pending : Offered(u)'
    BY <1>a, <2>4 DEF RowInv, TypeOK, Broker
  <2>9. \A u \in Txns : asked[u] <= 1 /\ (asked[u] = 1 => Allowed(u)')
    BY <1>a, <2>4 DEF RowInv
  <2>10. wire'.kind = "intent" =>
           Untouched(wire.txn)' /\ wire'.amount \in 1 .. Cap /\ wire'.label = origin'[wire'.txn]
    BY <1>c, <1>d, <1>i, <2>1, <2>2, <2>5
  <2> QED BY <1>a, <1>b, <1>f, <1>h, <1>i, <2>1, <2>2, <2>7, <2>8, <2>9, <2>10 DEF RowInv, NoAnswer
<1>5. CountInv'
  BY <1>a, <1>b, <1>f, <1>g, <1>h, <1>i DEF CountInv
<1> QED BY <1>1, <1>2, <1>3, <1>4, <1>5 DEF RunInv

LEMMA ConfirmKeeps ==
  ASSUME RunInv, Confirm
  PROVE  RunInv'
<1> DEFINE t == Current.call.txn
<1> USE DEF server, history
<1>a. /\ TypeOK /\ PlaceInv /\ TravelInv /\ RowInv /\ CountInv /\ run.pc = "tools"
      /\ run \in Run /\ broker \in Broker
  BY DEF Confirm, Calling, RunInv, TypeOK
<1>b. wire = Silent /\ answer = NoAnswer
  BY <1>a, NothingTravels
<1>c. /\ Current.id \in CallIds /\ Current.call.name = "confirm_payment"
      /\ t \in broker.pending /\ t \in Txns /\ broker.consumes < MaxConsumes
  BY <1>a, CurrentType DEF Confirm, Calling, Confirmable, PlaceInv, Broker
<1>f. /\ run' = [run EXCEPT !.pc = "sent"]
      /\ broker' = [broker EXCEPT !.pending = broker.pending \ {t}, !.stamp = Current.id]
      /\ wire' = [Silent EXCEPT !.kind = "consume", !.txn = t]
      /\ asked' = [asked EXCEPT ![t] = asked[t] + 1]
      /\ UNCHANGED <<client, answer, intents, auths, moved, origin, acked>>
  BY DEF Confirm, InHand, Stamp
<1>g. /\ run' \in Run /\ run'.pc = "sent" /\ run'.queue = run.queue /\ run'.calls = run.calls
      /\ run'.executed = run.executed /\ run'.txn = run.txn
  BY <1>a, <1>f DEF Run
<1>h. /\ broker' \in Broker /\ broker'.known = broker.known /\ broker'.pending = broker.pending \ {t}
      /\ broker'.consumes = broker.consumes
  BY <1>a, <1>c, <1>f DEF Broker
<1>i. wire'.kind = "consume" /\ wire'.txn = t /\ wire' \in Request /\ wire' # Silent
  BY <1>c, <1>f DEF Request, Silent, NoCall, NoTxn
<1>j. Current' = Current
  BY <1>g DEF Current
<1> HIDE DEF t
<1>k. Offered(t) /\ asked[t] = 0
  BY <1>a, <1>c DEF RowInv, Offered
<1>l. \A u \in Txns : asked'[u] = IF u = t THEN 1 ELSE asked[u]
  BY <1>a, <1>c, <1>f, <1>k DEF TypeOK
<1>1. TypeOK'
  <2>1. asked' \in [Txns -> Nat]
    BY <1>a, <1>c, <1>f, <1>k DEF TypeOK
  <2> QED BY <1>a, <1>c, <1>f, <1>g, <1>h, <1>i, <2>1 DEF TypeOK
<1>2. PlaceInv'
  BY <1>a, <1>g, <1>h DEF PlaceInv, Run, Broker
<1>3. TravelInv'
  <2>1. ~Proposing' /\ Current'.call.txn = t
    BY <1>c, <1>j DEF Proposing, t
  <2> QED BY <1>b, <1>c, <1>f, <1>g, <1>i, <2>1 DEF TravelInv, NoAnswer
<1>4. RowInv'
  <2>1. Known(t) /\ \A u : Known(u)' <=> Known(u)
    BY <1>h, <1>k DEF Known, Offered, Allowed
  <2>2. \A u \in Txns : ~Known(u)' => Untouched(u)'
    BY <1>a, <1>f, <1>h, <1>l, <2>1 DEF RowInv, Untouched
  <2>3. \A u : Allowed(u)' <=> Allowed(u)
    BY <1>f, <2>1 DEF Allowed
  <2>4. \A u \in broker'.pending : Offered(u)'
    BY <1>a, <1>h, <1>l, <2>3 DEF RowInv, Offered, TypeOK, Broker
  <2>5. \A u \in Txns : asked'[u] <= 1 /\ (asked'[u] = 1 => Allowed(u)')
    BY <1>a, <1>k, <1>l, <2>3 DEF RowInv, Offered
  <2>6. \A u \in acked : asked'[u] = 1 /\ auths[u] = "spent"
    BY <1>a, <1>l DEF RowInv, TypeOK
  <2> QED BY <1>a, <1>b, <1>c, <1>f, <1>h, <1>i, <1>l, <2>2, <2>4, <2>5, <2>6 DEF RowInv, NoAnswer
<1>5. CountInv'
  <2>1. Cardinality(acked) = broker.consumes + 0
    BY <1>a, <1>b DEF CountInv, NoAnswer
  <2>2. Cardinality(acked) < MaxConsumes
    BY <1>a, <1>c, <2>1 DEF Broker
  <2> QED BY <1>a, <1>b, <1>f, <1>g, <1>h, <1>i, <2>1, <2>2 DEF CountInv
<1> QED BY <1>1, <1>2, <1>3, <1>4, <1>5 DEF RunInv

LEMMA ReceiveDecisionKeeps ==
  ASSUME RunInv, ReceiveDecision
  PROVE  RunInv'
<1> USE DEF server, history
<1>a. /\ TypeOK /\ PlaceInv /\ TravelInv /\ RowInv /\ CountInv
      /\ run.pc = "sent" /\ Proposing /\ answer # NoAnswer
      /\ run \in Run /\ broker \in Broker
  BY DEF ReceiveDecision, Proposing, RunInv, TypeOK
<1>b. wire = Silent /\ answer # "executed" /\ (answer = "allow" => broker.known \in Txns)
  BY <1>a DEF TravelInv
<1>f. /\ run' = Counted(run) /\ answer' = NoAnswer
      /\ UNCHANGED <<client, wire, intents, auths, moved, origin, asked, acked>>
  BY DEF ReceiveDecision
<1>g. /\ run' \in Run /\ run'.pc \in {"turn", "tools"} /\ run'.calls = run.calls + 1
      /\ run'.executed = run.executed /\ run'.txn = run.txn
      /\ run'.pc = "tools" => run'.queue # <<>> /\ run'.calls + Len(run'.queue) <= MaxToolCalls
  BY <1>a, <1>f, CountedType
<1>h. /\ broker' \in Broker /\ broker'.known = broker.known /\ broker'.consumes = broker.consumes
      /\ broker'.pending = IF answer = "allow" THEN broker.pending \cup {broker.known}
                           ELSE broker.pending
  BY <1>a, <1>b DEF ReceiveDecision, Broker
<1>1. TypeOK'
  BY <1>a, <1>f, <1>g, <1>h DEF TypeOK, Answers
<1>2. PlaceInv'
  BY <1>a, <1>g, <1>h DEF PlaceInv
<1>3. TravelInv'
  BY <1>b, <1>f DEF TravelInv, NoAnswer, Silent
<1>4. RowInv'
  <2>1. \A u : (Known(u)' <=> Known(u)) /\ (Offered(u)' <=> Offered(u)) /\ (Allowed(u)' <=> Allowed(u))
    BY <1>f, <1>h DEF Known, Offered, Allowed
  <2>2. \A u \in broker'.pending : Offered(u)'
    BY <1>a, <1>h, <2>1 DEF RowInv
  <2>3. \A u \in Txns : ~Known(u)' => Untouched(u)'
    <3> SUFFICES ASSUME NEW u \in Txns, ~Known(u) PROVE Untouched(u)'
      BY <2>1
    <3>1. Untouched(u) /\ ~Offered(u)
      BY <1>a DEF RowInv, Offered, Allowed
    <3>2. u \notin broker'.pending
      BY <2>1, <2>2, <3>1
    <3> QED BY <1>f, <3>1, <3>2 DEF Untouched
  <2> QED BY <1>a, <1>b, <1>f, <2>1, <2>2, <2>3 DEF RowInv, NoAnswer, Silent
<1>5. CountInv'
  BY <1>a, <1>b, <1>f, <1>g, <1>h DEF CountInv, NoAnswer
<1> QED BY <1>1, <1>2, <1>3, <1>4, <1>5 DEF RunInv

LEMMA ReceiveExecutionKeeps ==
  ASSUME RunInv, ReceiveExecution
  PROVE  RunInv'
<1> DEFINE t == Current.call.txn
<1> USE DEF server, history
<1>a. /\ TypeOK /\ PlaceInv /\ TravelInv /\ RowInv /\ CountInv
      /\ run.pc = "sent" /\ Confirming /\ answer # NoAnswer
      /\ run \in Run /\ broker \in Broker
  BY DEF ReceiveExecution, Confirming, RunInv, TypeOK
<1>b. /\ wire = Silent /\ answer # "allow" /\ (answer = "executed" => t \in acked)
      /\ t \in Txns \cup {NoTxn}
  <2>1. Current.call \in Call
    BY <1>a, CurrentType DEF PlaceInv
  <2> QED BY <1>a, <2>1 DEF TravelInv, Call
<1>f. /\ answer' = NoAnswer /\ run' = AfterConfirm(Counted(run), t)
      /\ broker' = [broker EXCEPT !.consumes = ConsumesAfter]
      /\ UNCHANGED <<client, wire, intents, auths, moved, origin, asked, acked>>
  BY DEF ReceiveExecution
<1>g. /\ Counted(run) \in Run /\ Counted(run).pc \in {"turn", "tools"}
      /\ Counted(run).calls = run.calls + 1
      /\ Counted(run).executed = run.executed /\ Counted(run).txn = run.txn
      /\ Counted(run).pc = "tools" =>
           /\ Counted(run).queue # <<>>
           /\ Counted(run).calls + Len(Counted(run).queue) <= MaxToolCalls
  BY <1>a, CountedType
<1> DEFINE r == Counted(run)
<1> HIDE DEF t, r
<1>h. /\ run' \in Run /\ run'.pc = r.pc /\ run'.calls = r.calls /\ run'.queue = r.queue
      /\ run'.executed = (answer = "executed" \/ run.executed)
      /\ run'.txn = IF answer = "executed" THEN t ELSE run.txn
  <2>1. r \in Run /\ r.executed = run.executed /\ r.txn = run.txn /\ run' = AfterConfirm(r, t)
    BY <1>f, <1>g DEF r
  <2>2. CASE answer = "executed"
    <3>1. run' = [r EXCEPT !.executed = TRUE, !.txn = t]
      BY <2>1, <2>2 DEF AfterConfirm
    <3> QED BY <1>b, <2>1, <2>2, <3>1 DEF Run
  <2>3. CASE answer # "executed"
    BY <2>1, <2>3 DEF AfterConfirm, Run
  <2> QED BY <2>2, <2>3
<1>i. /\ broker' \in Broker /\ broker'.known = broker.known /\ broker'.pending = broker.pending
      /\ broker'.consumes = ConsumesAfter
  <2>1. ConsumesAfter \in Nat
    BY <1>a DEF ConsumesAfter, Broker
  <2> QED BY <1>a, <1>f, <2>1 DEF Broker
<1>1. TypeOK'
  BY <1>a, <1>f, <1>h, <1>i DEF TypeOK, Answers
<1>2. PlaceInv'
  BY <1>a, <1>g, <1>h, <1>i DEF PlaceInv, r
<1>3. TravelInv'
  BY <1>b, <1>f DEF TravelInv, NoAnswer, Silent
<1>4. RowInv'
  <2>1. \A u : (Known(u)' <=> Known(u)) /\ (Offered(u)' <=> Offered(u)) /\ (Allowed(u)' <=> Allowed(u))
    BY <1>f, <1>i DEF Known, Offered, Allowed
  <2>2. \A u : Untouched(u)' <=> Untouched(u)
    BY <1>f, <1>i DEF Untouched
  <2> QED BY <1>a, <1>b, <1>f, <1>i, <2>1, <2>2 DEF RowInv, NoAnswer, Silent
<1>5. CountInv'
  <2>1. /\ IsFiniteSet(acked) /\ Cardinality(acked) <= MaxConsumes
        /\ Cardinality(acked) = broker.consumes + (IF answer = "executed" THEN 1 ELSE 0)
        /\ (run.executed => run.txn \in acked) /\ (run.executed <=> broker.consumes # 0)
        /\ broker.consumes \in Nat
    BY <1>a DEF CountInv, Broker
  <2>2. Cardinality(acked) = ConsumesAfter
    BY <2>1 DEF ConsumesAfter
  <2>3. run'.executed => run'.txn \in acked
    BY <1>b, <1>h, <2>1
  <2>4. run'.executed <=> ConsumesAfter # 0
    <3>1. CASE answer = "executed"
      <4>1. ConsumesAfter # 0
        BY <2>1, <3>1 DEF ConsumesAfter
      <4> QED BY <1>h, <3>1, <4>1
    <3>2. CASE answer # "executed"
      <4>1. ConsumesAfter = broker.consumes /\ run'.executed = run.executed
        BY <1>a, <1>h, <3>2 DEF ConsumesAfter, Run
      <4> QED BY <2>1, <4>1
    <3> QED BY <3>1, <3>2
  <2> QED BY <1>b, <1>f, <1>i, <2>1, <2>2, <2>3, <2>4 DEF CountInv, NoAnswer, Silent
<1> QED BY <1>1, <1>2, <1>3, <1>4, <1>5 DEF RunInv

-----------------------------------------------------------------------------
(* The server answers.                                                     *)

LEMMA RejectKeeps ==
  ASSUME RunInv, Reject
  PROVE  RunInv'
<1> USE DEF server, history
<1>a. /\ TypeOK /\ PlaceInv /\ TravelInv /\ RowInv /\ CountInv /\ wire # Silent
      /\ answer = NoAnswer /\ run.pc \in {"sent", "raised"}
  BY DEF Reject, RunInv, TravelInv
<1>f. /\ wire' = Silent /\ answer' = "rejected"
      /\ UNCHANGED <<client, run, broker, intents, auths, moved, origin, asked, acked>>
  BY DEF Reject, Handled
<1>1. TypeOK'
  BY <1>a, <1>f DEF TypeOK, Answers, Request, Silent
<1>2. PlaceInv'
  BY <1>a, <1>f DEF PlaceInv
<1>3. TravelInv'
  BY <1>a, <1>f DEF TravelInv, Silent
<1>4. RowInv'
  <2>1. \A u : (Known(u)' <=> Known(u)) /\ (Offered(u)' <=> Offered(u)) /\ (Allowed(u)' <=> Allowed(u))
    BY <1>f DEF Known, Offered, Allowed
  <2>2. \A u : Untouched(u)' <=> Untouched(u)
    BY <1>f DEF Untouched
  <2> QED BY <1>a, <1>f, <2>1, <2>2 DEF RowInv, Silent
<1>5. CountInv'
  BY <1>a, <1>f DEF CountInv, Silent, NoAnswer
<1> QED BY <1>1, <1>2, <1>3, <1>4, <1>5 DEF RunInv

LEMMA DecideKeeps ==
  ASSUME RunInv, NEW decision \in {"allow", "review", "deny"}, NEW minted \in BOOLEAN,
         Decide(decision, minted)
  PROVE  RunInv'
<1> DEFINE t == wire.txn
           rec == [decision |-> decision, amount |-> wire.amount, label |-> wire.label]
           ans == IF decision = "allow" /\ ~minted THEN "rejected" ELSE decision
<1> USE DEF server, history
<1>a. /\ TypeOK /\ PlaceInv /\ TravelInv /\ RowInv /\ CountInv /\ wire.kind = "intent"
      /\ wire # Silent /\ answer = NoAnswer /\ run.pc \in {"sent", "raised"}
      /\ minted => decision = "allow"
  BY DEF Decide, RunInv, TravelInv, Silent
<1>b. /\ t \in Txns /\ t = broker.known /\ ~Confirming /\ Untouched(t) /\ Known(t)
      /\ wire.amount \in 1 .. Cap /\ wire.label = origin[t] /\ wire \in Request
  BY <1>a, RunAssumption DEF TravelInv, RowInv, TypeOK, Known, Txns
<1>f. /\ wire' = Silent /\ answer' = ans
      /\ intents' = [intents EXCEPT ![t] = rec]
      /\ auths' = IF minted THEN [auths EXCEPT ![t] = "open"] ELSE auths
      /\ UNCHANGED <<client, run, broker, moved, origin, asked, acked>>
  BY DEF Decide, Handled
<1>g. \A u \in Txns : /\ intents'[u] = IF u = t THEN rec ELSE intents[u]
                      /\ auths'[u] = IF u = t THEN (IF minted THEN "open" ELSE "none")
                                     ELSE auths[u]
  BY <1>a, <1>b, <1>f DEF TypeOK, Untouched
<1>h. rec \in Intent /\ rec.decision = decision /\ rec.amount = wire.amount /\ rec.label = wire.label
  BY <1>b DEF Intent, Request
<1>i. ans \in {"rejected", "allow", "review", "deny"} /\ (ans = "allow" => decision = "allow" /\ minted)
  OBVIOUS
<1> HIDE DEF t, rec, ans
<1>1. TypeOK'
  <2>1. wire' \in Request /\ answer' \in Answers
    BY <1>f, <1>i DEF Request, Silent, Answers
  <2>2. intents' \in [Txns -> Intent] /\ auths' \in [Txns -> {"none", "open", "spent", "revoked"}]
    BY <1>a, <1>b, <1>f, <1>h DEF TypeOK
  <2> QED BY <1>a, <1>f, <2>1, <2>2 DEF TypeOK
<1>2. PlaceInv'
  BY <1>a, <1>f DEF PlaceInv
<1>3. TravelInv'
  <2>1. (Proposing' <=> Proposing) /\ (Confirming' <=> Confirming)
    BY <1>f DEF Proposing, Confirming, Current
  <2> QED BY <1>a, <1>b, <1>f, <1>i, <2>1 DEF TravelInv, Silent
<1>4. RowInv'
  <2>1. \A u : Known(u)' <=> Known(u)
    BY <1>f DEF Known
  <2>2. \A u \in Txns : u # t => (Offered(u)' <=> Offered(u)) /\ (Allowed(u)' <=> Allowed(u))
                                 /\ (Untouched(u)' <=> Untouched(u))
    BY <1>f, <1>g, <2>1 DEF Offered, Allowed, Untouched
  <2>3. t \notin broker.pending /\ t \notin acked /\ asked[t] = 0
    BY <1>b DEF Untouched
  <2>4. \A u \in Txns : intents'[u].decision # "none" =>
          intents'[u].amount \in 1 .. Cap /\ intents'[u].label = origin[u]
    BY <1>a, <1>b, <1>g, <1>h DEF RowInv
  <2>5. \A u \in Txns : auths'[u] # "none" => intents'[u].decision = "allow"
    BY <1>a, <1>g, <1>h DEF RowInv
  <2>6. answer' = "allow" => Offered(broker.known)'
    <3> SUFFICES ASSUME answer' = "allow" PROVE Offered(broker.known)'
      OBVIOUS
    <3>1. intents'[t].decision = "allow" /\ auths'[t] # "none" /\ asked'[t] = 0 /\ Known(t)
      BY <1>b, <1>f, <1>g, <1>h, <1>i, <2>3
    <3>2. broker'.known = t /\ Known(broker.known)'
      BY <1>b, <1>f, <3>1 DEF Known
    <3> QED BY <3>1, <3>2 DEF Offered, Allowed
  <2>7. \A u \in Txns : ~Known(u)' => Untouched(u)'
    BY <1>a, <1>b, <2>1, <2>2 DEF RowInv
  <2>8. \A u \in broker.pending : Offered(u)'
    BY <1>a, <2>2, <2>3 DEF RowInv, TypeOK, Broker
  <2>9. \A u \in Txns : asked[u] <= 1 /\ (asked[u] = 1 => Allowed(u)')
    BY <1>a, <2>2, <2>3 DEF RowInv
  <2>10. \A u \in acked : asked[u] = 1 /\ auths'[u] = "spent"
    BY <1>a, <1>g, <2>3 DEF RowInv, TypeOK
  <2> QED BY <1>b, <1>f, <2>4, <2>5, <2>6, <2>7, <2>8, <2>9, <2>10 DEF RowInv, Silent
<1>5. CountInv'
  BY <1>a, <1>f, <1>i DEF CountInv, Silent, NoAnswer
<1> QED BY <1>1, <1>2, <1>3, <1>4, <1>5 DEF RunInv

LEMMA ExecuteKeeps ==
  ASSUME RunInv, NEW ok \in BOOLEAN, Execute(ok)
  PROVE  RunInv'
<1> DEFINE ans == IF ok THEN "executed" ELSE "rejected"
<1> USE DEF server, history
<1>a. /\ TypeOK /\ PlaceInv /\ TravelInv /\ RowInv /\ CountInv /\ wire.kind = "consume"
      /\ wire # Silent /\ answer = NoAnswer /\ run.pc \in {"sent", "raised"}
  BY DEF Execute, RunInv, TravelInv, Silent
<1>p. PICK t \in Txns : t = wire.txn
  BY <1>a DEF TravelInv
<1>b. /\ ~Proposing /\ (Confirming => t = Current.call.txn) /\ asked[t] = 1 /\ auths[t] = "open"
      /\ Known(t) /\ intents[t].decision = "allow" /\ t \notin acked
  BY <1>a, <1>p DEF Execute, TravelInv, RowInv, Allowed
<1>f. /\ wire' = Silent /\ answer' = ans
      /\ auths' = [auths EXCEPT ![t] = "spent"]
      /\ moved' \in {moved, moved \cup {t}}
      /\ acked' = IF ok THEN acked \cup {t} ELSE acked
      /\ UNCHANGED <<client, run, broker, intents, origin, asked>>
  BY <1>p DEF Execute, Handled
<1>g. \A u \in Txns : auths'[u] = IF u = t THEN "spent" ELSE auths[u]
  BY <1>a, <1>f DEF TypeOK
<1>i. ans \in {"executed", "rejected"} /\ (ans = "executed" <=> ok)
  OBVIOUS
<1> HIDE DEF ans
<1>1. TypeOK'
  <2>1. wire' \in Request /\ answer' \in Answers
    BY <1>f, <1>i DEF Request, Silent, Answers
  <2>2. auths' \in [Txns -> {"none", "open", "spent", "revoked"}]
    BY <1>a, <1>f DEF TypeOK
  <2>3. moved' \subseteq Txns /\ acked' \subseteq Txns
    BY <1>a, <1>f DEF TypeOK
  <2> QED BY <1>a, <1>f, <2>1, <2>2, <2>3 DEF TypeOK
<1>2. PlaceInv'
  BY <1>a, <1>f DEF PlaceInv
<1>3. TravelInv'
  <2>1. (Proposing' <=> Proposing) /\ (Confirming' <=> Confirming) /\ Current' = Current
    BY <1>f DEF Proposing, Confirming, Current
  <2> QED BY <1>a, <1>b, <1>f, <1>i, <2>1 DEF TravelInv, Silent
<1>4. RowInv'
  <2>1. \A u : Known(u)' <=> Known(u)
    BY <1>f DEF Known
  <2>2. \A u \in Txns : Allowed(u) => Allowed(u)'
    BY <1>f, <1>g, <2>1 DEF Allowed
  <2>3. \A u \in Txns : Offered(u) => Offered(u)'
    BY <1>f, <2>2 DEF Offered
  <2>4. \A u \in Txns : ~Known(u)' => Untouched(u)'
    BY <1>a, <1>b, <1>f, <1>g, <2>1 DEF RowInv, Untouched
  <2>5. \A u \in Txns : auths'[u] # "none" => intents'[u].decision = "allow"
    BY <1>a, <1>b, <1>f, <1>g DEF RowInv
  <2>6. \A u \in broker.pending : Offered(u)'
    BY <1>a, <2>3 DEF RowInv, TypeOK, Broker
  <2>7. \A u \in Txns : asked[u] <= 1 /\ (asked[u] = 1 => Allowed(u)')
    BY <1>a, <2>2 DEF RowInv
  <2>8. \A u \in acked' : asked[u] = 1 /\ auths'[u] = "spent"
    BY <1>a, <1>b, <1>f, <1>g DEF RowInv, TypeOK
  <2> QED BY <1>a, <1>f, <1>i, <2>4, <2>5, <2>6, <2>7, <2>8 DEF RowInv, Silent
<1>5. CountInv'
  <2>1. /\ IsFiniteSet(acked) /\ Cardinality(acked) \in Nat /\ Cardinality(acked) < MaxConsumes
        /\ (run.pc # "raised" => Cardinality(acked) = broker.consumes)
        /\ broker.consumes \in Nat
    BY <1>a, FS_CardinalityType DEF CountInv, NoAnswer, TypeOK, Broker
  <2>2. IsFiniteSet(acked \cup {t}) /\ Cardinality(acked \cup {t}) = Cardinality(acked) + 1
    BY <1>b, <2>1, FS_AddElement
  <2>3. /\ IsFiniteSet(acked') /\ Cardinality(acked') <= MaxConsumes
        /\ Cardinality(acked') = Cardinality(acked) + (IF answer' = "executed" THEN 1 ELSE 0)
    BY <1>f, <1>i, <2>1, <2>2, RunAssumption
  <2>4. run.executed => run.txn \in acked'
    BY <1>a, <1>f DEF CountInv
  <2>5. run.pc # "raised" =>
          Cardinality(acked') = broker.consumes + (IF answer' = "executed" THEN 1 ELSE 0)
    BY <2>1, <2>3
  <2> QED BY <1>a, <1>f, <2>3, <2>4, <2>5 DEF CountInv, Silent
<1> QED BY <1>1, <1>2, <1>3, <1>4, <1>5 DEF RunInv

\* What others do to the rows of a run leaves it what it holds.
LEMMA OthersKeep ==
  ASSUME RunInv, NEW t \in Txns, OwnerRevokes(t) \/ ParentApproves(t)
  PROVE  RunInv'
<1> USE DEF server, history
<1>a. TypeOK /\ PlaceInv /\ TravelInv /\ RowInv /\ CountInv
  BY DEF RunInv
<1>f. UNCHANGED <<client, run, broker, wire, answer, moved, origin, asked, acked>>
  BY DEF OwnerRevokes, ParentApproves
<1>g. /\ intents' \in [Txns -> Intent] /\ auths' \in [Txns -> {"none", "open", "spent", "revoked"}]
      /\ \A u \in Txns : /\ intents'[u].amount = intents[u].amount
                         /\ intents'[u].label = intents[u].label
                         /\ u # t => intents'[u] = intents[u] /\ auths'[u] = auths[u]
      /\ intents'[t].decision = "allow" /\ auths'[t] \in {"open", "revoked"}
      /\ intents[t].decision # "none" /\ auths[t] # "spent"
  <2>1. CASE OwnerRevokes(t)
    BY <1>a, <2>1 DEF OwnerRevokes, TypeOK, RowInv
  <2>2. CASE ParentApproves(t)
    <3>1. intents[t].decision = "review" /\ auths[t] = "none"
      BY <1>a, <2>2 DEF ParentApproves, RowInv
    <3>2. /\ intents' = [intents EXCEPT ![t] = [intents[t] EXCEPT !.decision = "allow"]]
          /\ auths' = [auths EXCEPT ![t] = "open"]
      BY <2>2 DEF ParentApproves
    <3>3. /\ [intents[t] EXCEPT !.decision = "allow"] \in Intent
          /\ [intents[t] EXCEPT !.decision = "allow"].decision = "allow"
          /\ [intents[t] EXCEPT !.decision = "allow"].amount = intents[t].amount
          /\ [intents[t] EXCEPT !.decision = "allow"].label = intents[t].label
      BY <1>a DEF TypeOK, Intent
    <3> QED BY <1>a, <3>1, <3>2, <3>3 DEF TypeOK
  <2> QED BY <2>1, <2>2
<1>1. TypeOK'
  BY <1>a, <1>f, <1>g DEF TypeOK
<1>2. PlaceInv'
  BY <1>a, <1>f DEF PlaceInv
<1>3. TravelInv'
  BY <1>a, <1>f DEF TravelInv, Proposing, Confirming, Current
<1>4. RowInv'
  <2>1. \A u : Known(u)' <=> Known(u)
    BY <1>f DEF Known
  <2>2. \A u \in Txns : (Allowed(u) => Allowed(u)') /\ (Offered(u) => Offered(u)')
    BY <1>f, <1>g, <2>1 DEF Allowed, Offered
  <2>3. ~Untouched(t)
    BY <1>g DEF Untouched, NoIntent
  <2>4. \A u \in Txns : Untouched(u) => Untouched(u)'
    BY <1>f, <1>g, <2>3 DEF Untouched
  <2>5. \A u \in Txns : intents'[u].decision # "none" =>
          intents'[u].amount \in 1 .. Cap /\ intents'[u].label = origin[u]
    BY <1>a, <1>g DEF RowInv
  <2>6. \A u \in Txns : auths'[u] # "none" => intents'[u].decision = "allow"
    BY <1>a, <1>g DEF RowInv
  <2>7. \A u \in acked : asked[u] = 1 /\ auths'[u] = "spent"
    BY <1>a, <1>g DEF RowInv, TypeOK
  <2>8. \A u \in broker.pending : Offered(u)'
    BY <1>a, <2>2 DEF RowInv, TypeOK, Broker
  <2>9. \A u \in Txns : asked[u] <= 1 /\ (asked[u] = 1 => Allowed(u)')
    BY <1>a, <2>2 DEF RowInv
  <2>10. wire.kind = "intent" => Untouched(wire.txn)'
    <3> SUFFICES ASSUME wire.kind = "intent" PROVE Untouched(wire.txn)'
      OBVIOUS
    <3>1. wire.txn \in Txns /\ Untouched(wire.txn)
      BY <1>a DEF TravelInv, RowInv
    <3> QED BY <1>f, <1>g, <2>3, <3>1 DEF Untouched
  <2>11. answer = "allow" => Offered(broker.known)'
    <3>1. answer = "allow" => broker.known \in Txns /\ Offered(broker.known)
      BY <1>a DEF TravelInv, RowInv
    <3> QED BY <1>f, <2>2, <3>1
  <2>12. \A u \in Txns : ~Known(u)' => Untouched(u)'
    BY <1>a, <2>1, <2>4 DEF RowInv
  <2> QED BY <1>a, <1>f, <2>5, <2>6, <2>7, <2>8, <2>9, <2>10, <2>11, <2>12 DEF RowInv
<1>5. CountInv'
  BY <1>a, <1>f DEF CountInv
<1> QED BY <1>1, <1>2, <1>3, <1>4, <1>5 DEF RunInv

-----------------------------------------------------------------------------
(* The theorems.                                                           *)

LEMMA RunInit == Init => RunInv
<1> SUFFICES ASSUME Init PROVE RunInv
  OBVIOUS
<1>1. TypeOK
  <2>1. run \in Run
    BY RunAssumption DEF Init, Start, Run, Errors
  <2>2. broker \in Broker /\ wire \in Request /\ answer \in Answers
    BY RunAssumption DEF Init, Broker, Request, Silent, Answers
  <2>3. intents \in [Txns -> Intent]
    BY DEF Init, NoIntent, Intent
  <2> QED BY <2>1, <2>2, <2>3 DEF Init, TypeOK
<1>2. PlaceInv
  BY DEF Init, Start, PlaceInv
<1>3. TravelInv
  BY DEF Init, TravelInv, Silent, NoAnswer
<1>4. RowInv
  BY DEF Init, RowInv, Untouched, NoIntent, Silent, NoAnswer
<1>5. CountInv
  <2>1. IsFiniteSet(acked) /\ Cardinality(acked) = 0
    BY FS_EmptySet DEF Init
  <2> QED BY <2>1, RunAssumption DEF Init, CountInv, Start, Silent, NoAnswer
<1> QED BY <1>1, <1>2, <1>3, <1>4, <1>5 DEF RunInv

LEMMA RunKeeps == RunInv /\ [Next]_vars => RunInv'
<1> SUFFICES ASSUME RunInv, [Next]_vars PROVE RunInv'
  OBVIOUS
<1>1. CASE RunStep
  <2>1. QuietStep \/ Propose \/ Confirm \/ ReceiveDecision \/ ReceiveExecution
    BY <1>1 DEF RunStep, QuietStep
  <2> QED BY <2>1, QuietKeeps, ProposeKeeps, ConfirmKeeps, ReceiveDecisionKeeps,
             ReceiveExecutionKeeps
<1>2. CASE ServerStep
  BY <1>2, RejectKeeps, DecideKeeps, ExecuteKeeps DEF ServerStep
<1>3. CASE SessionLapses
  BY <1>3, QuietKeeps DEF QuietStep
<1>4. ASSUME NEW t \in Txns, OwnerRevokes(t) \/ ParentApproves(t) PROVE RunInv'
  BY <1>4, OthersKeep
<1>5. CASE UNCHANGED vars
  BY <1>5 DEF vars, server, history, RunInv, TypeOK, PlaceInv, TravelInv, RowInv, CountInv,
              Untouched, Allowed, Offered, Known, Proposing, Confirming, Current
<1> QED BY <1>1, <1>2, <1>3, <1>4, <1>5 DEF Next

LEMMA RunSafe == Spec => []RunInv
  BY RunInit, RunKeeps, PTL DEF Spec

\* Type correctness of every state of a run (loop.py, broker.py, client.py).
THEOREM AgentRunTypeCorrect == Spec => []TypeOK
<1>1. RunInv => TypeOK
  BY DEF RunInv
<1> QED BY <1>1, RunSafe, PTL

\* A run presents only authorizations of its own proposals that governance allowed
\* within the grant, each at most once, and the server acknowledges no more
\* payments than the run was given (broker.py 108-146, 177-190).
THEOREM RunStaysWithinGrant == Spec => []WithinGrant
<1>1. RunInv => WithinGrant
  <2> SUFFICES ASSUME RunInv PROVE WithinGrant
    OBVIOUS
  <2>1. RowInv /\ CountInv
    BY DEF RunInv
  <2>2. \A t \in Txns : asked[t] = 1 => intents[t].decision # "none"
    BY <2>1 DEF RowInv, Allowed
  <2>3. OnlyOwnProposals
    BY <2>1, <2>2 DEF RowInv, Allowed, OnlyOwnProposals
  <2> QED BY <2>1, <2>3 DEF CountInv, WithinGrant, AckedWithinBudget
<1> QED BY <1>1, RunSafe, PTL

\* The label stored with an intent is the id of the tool call that proposed it,
\* whatever else the reply asked for (loop.py 92-96).
THEOREM IntentsTraceToCalls == Spec => []TracedToCall
<1>1. RunInv => TracedToCall
  BY DEF RunInv, RowInv, TracedToCall
<1> QED BY <1>1, RunSafe, PTL

\* A run that ends by itself reports an executed payment exactly when the server
\* acknowledged one, and has counted each (loop.py 100-103, broker.py 190).
THEOREM OutcomesAreTrue == Spec => []OutcomeIsTrue
<1>1. RunInv => OutcomeIsTrue
  <2> SUFFICES ASSUME RunInv PROVE OutcomeIsTrue
    OBVIOUS
  <2>1. TypeOK /\ TravelInv /\ RowInv /\ CountInv
    BY DEF RunInv
  <2>2. run.executed => run.txn \in acked /\ auths[run.txn] = "spent"
    BY <2>1 DEF CountInv, RowInv
  <2>3. ASSUME run.pc = "done"
        PROVE  (run.executed <=> acked # {}) /\ broker.consumes = Cardinality(acked)
    <3>1. answer = NoAnswer
      BY <2>1, <2>3 DEF TravelInv
    <3>2. broker.consumes = Cardinality(acked) /\ (run.executed <=> broker.consumes # 0)
      BY <2>1, <2>3, <3>1 DEF CountInv, NoAnswer, TypeOK, Broker
    <3>3. Cardinality(acked) = 0 <=> acked = {}
      BY <2>1, FS_EmptySet DEF CountInv
    <3> QED BY <3>2, <3>3
  <2> QED BY <2>2, <2>3 DEF OutcomeIsTrue
<1> QED BY <1>1, RunSafe, PTL
=============================================================================
