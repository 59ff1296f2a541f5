------------------------- MODULE SettlementProofs -------------------------
(***************************************************************************)
(* Theorems about Settlement, for any number of sessions and workers, any  *)
(* set of payment attempts and any subset of them of the right value.      *)
(***************************************************************************)
EXTENDS Settlement, TLAPS

USE SettlementAssumption, NoEventAssumption DEF MaxUsage

-----------------------------------------------------------------------------
(* The unit of work and the answers to it are well typed.                  *)

\* A commit merges a copy of the row into the row: what is written was in one
\* of the two.
LEMMA MergedType ==
  ASSUME NEW db \in Row, NEW old \in Row, NEW new \in Row
  PROVE  /\ Merged(db, old, new) \in Row
         /\ Merged(db, old, new).state \in {db.state, new.state}
         /\ Merged(db, old, new).pay \in {db.pay, new.pay}
  BY DEF Merged, Row

LEMMA TableType ==
  \A from \in TxnStates : TransitionTable[from] \subseteq TxnStates
  BY DEF TransitionTable, TxnStates

LEMMA TryType ==
  ASSUME NEW from \in TxnStates, NEW to \in TxnStates
  PROVE  Try(from, to) \in TxnStates
  BY DEF Try

LEMMA IdleType == Idle \in Session /\ NoObs \in Observation /\ FreshRow \in Row
  BY DEF Idle, Session, Pcs, Row, FreshRow, NoObs, Observation, OrderStates,
         PayStates, Answers, TxnStates

LEMMA OneMoreType == \A n \in 0 .. DeadLetterAfter : OneMore(n) \in 0 .. DeadLetterAfter
  BY DEF OneMore

LEMMA QueriedType ==
  ASSUME TypeOK, NEW row \in Row, NEW has
  PROVE  Queried(row, has) \in Pays \cup {NoPay}
  BY DEF Queried, TypeOK, Row

LEMMA ObservedType ==
  ASSUME TypeOK, NEW o \in OrderStates, NEW p \in Pays \cup {NoPay}
  PROVE  Observed(o, p) \in Observation
  BY DEF Observed, TypeOK, Observation, PayStates

LEMMA WebhookTargetType ==
  /\ WebhookTarget \in [EventTypes -> {"PROVIDER_AUTHORIZED", "CAPTURED", "FAILED"}]
  /\ {"PROVIDER_AUTHORIZED", "CAPTURED", "FAILED"} \subseteq TxnStates
  BY DEF WebhookTarget, EventTypes, TxnStates

LEMMA ConsumeOutcomeType ==
  ASSUME NEW row \in Row, NEW answer \in Answers
  PROVE  ConsumeOutcome(row, answer) \in Row
  BY DEF ConsumeOutcome, Row, Try, TxnStates

LEMMA ConfirmOutcomeType ==
  ASSUME NEW row \in Row, NEW obs \in Observation
  PROVE  ConfirmOutcome(row, obs) \in Row
  BY DEF ConfirmOutcome, Row, Observation, Try, TxnStates, ValueMatches

\* What reconcile_one may ask for, and what it has then seen.
LEMMA ReconcileTargetType ==
  ASSUME NEW row \in Row, NEW obs \in Observation
  PROVE  /\ ReconcileTarget(row, obs) \in
              {"none", "CANCELLED", "EXPIRED", "DECLINED", "PAID", "FAILED", "PROVIDER_AUTHORIZED"}
         /\ ReconcileTarget(row, obs) = "PAID" => obs.status = "captured" /\ obs.pay \in Matching
         /\ ReconcileTarget(row, obs) \in {"CANCELLED", "EXPIRED"} => HasOrder(row, obs)
  BY DEF ReconcileTarget, OrderClosed, ClosedTarget, StatusTarget, ValueMatches, Observation, PayStates

LEMMA HasOrderType == ASSUME NEW row \in Row, NEW obs PROVE HasOrder(row, obs) \in BOOLEAN
  BY DEF HasOrder, NeedsReceipt, Row

-----------------------------------------------------------------------------
(* Type correctness.                                                       *)

\* Every step keeps every variable in its type, whatever the session copies
\* hold: in particular usage_count never passes max_usage.
LEMMA TypeStep == TypeOK /\ [Next]_vars => TypeOK'
<1> SUFFICES ASSUME TypeOK, [Next]_vars PROVE TypeOK'
  OBVIOUS
<1> USE IdleType DEF TypeOK, At, Become, Finish, Commit, provider
<1>a. \A s \in Sessions : sess[s] \in Session
  OBVIOUS
<1>b. ASSUME NEW s \in Sessions
      PROVE  /\ sess[s].row \in Row /\ sess[s].obs \in Observation
             /\ sess[s].ans \in Answers /\ sess[s].evt \in EventIds \cup {NoEvent}
             /\ sess[s].row.state \in TxnStates
  BY <1>a DEF Session, Row
<1>1. ASSUME NEW s \in Sessions, ConsumeReserve(s) PROVE TypeOK'
  <2>1. usage' \in 0..MaxUsage
    BY <1>1 DEF ConsumeReserve, Unused
  <2>2. txn' \in Row
    BY <1>1, OneMoreType DEF ConsumeReserve, Row
  <2>3. [Idle EXCEPT !.pc = "reserved"] \in Session
    BY DEF Session, Pcs, Idle
  <2> QED BY <2>1, <2>2, <2>3, <1>1 DEF ConsumeReserve
<1>2. ASSUME NEW s \in Sessions, NEW answer \in Answers \ {"none"}, SubmitOrder(s, answer) PROVE TypeOK'
  <2>1. order' \in OrderStates /\ calls' \in Nat
    BY <1>2 DEF SubmitOrder, OrderStates
  <2>2. [sess[s] EXCEPT !.pc = "answered", !.ans = answer] \in Session
    BY <1>a DEF Session, Pcs
  <2> QED BY <2>1, <2>2, <1>2 DEF SubmitOrder
<1>3. ASSUME NEW s \in Sessions, ConsumeLoad(s) PROVE TypeOK'
  BY <1>3, <1>a DEF ConsumeLoad, Session, Pcs
<1>4. ASSUME NEW s \in Sessions, ConsumeRecord(s) PROVE TypeOK'
  BY <1>4, <1>b, ConsumeOutcomeType, MergedType DEF ConsumeRecord, Idle
<1>5. ASSUME NEW s \in Sessions, NEW e \in EventIds, WebhookRead(s, e) PROVE TypeOK'
  BY <1>5 DEF WebhookRead, Session, Pcs, Idle
<1>6. ASSUME NEW s \in Sessions, WebhookApply(s) PROVE TypeOK'
  <2> DEFINE e == sess[s].evt
             new == [sess[s].row EXCEPT !.state = WebhookTarget[e.type], !.evt = e,
                       !.pay = IF e.type = "payment.captured" THEN e.pay ELSE @]
  <2>1. e \in EventIds /\ e.type \in EventTypes /\ e.pay \in Pays
    BY <1>6 DEF WebhookApply, EventIds
  <2>2. new \in Row
    BY <2>1, <1>b, WebhookTargetType DEF Row
  <2>3. txn' \in Row
    BY <2>2, <1>b, <1>6, MergedType DEF WebhookApply
  <2> QED BY <2>3, <1>6 DEF WebhookApply, Session, Pcs, Idle
<1>7. ASSUME NEW s \in Sessions, ConfirmLoad(s) PROVE TypeOK'
  BY <1>7, <1>a DEF ConfirmLoad, Session, Pcs
<1>8. ASSUME NEW s \in Sessions, ConfirmRead(s) PROVE TypeOK'
  <2> DEFINE p == Queried(sess[s].row, sess[s].row.order)
  <2>1. Observed("none", p) \in Observation
    BY <1>b, ObservedType, QueriedType DEF OrderStates
  <2> QED BY <2>1, <1>8, <1>a DEF ConfirmRead, Session, Pcs
<1>9. ASSUME NEW s \in Sessions, ConfirmCommit(s) PROVE TypeOK'
  BY <1>9, <1>b, ConfirmOutcomeType, MergedType DEF ConfirmCommit, Idle
<1>10. ASSUME NEW s \in Sessions, ReconcileRead(s) PROVE TypeOK'
  BY <1>10, <1>a DEF ReconcileRead, Session, Pcs, Idle
<1>11. ASSUME NEW s \in Sessions, NEW o \in OrderStates, NEW p \in Pays \cup {NoPay}, ReconcileObserve(s, o, p)
       PROVE TypeOK'
  <2>1. Observed(o, p) \in Observation
    BY ObservedType
  <2> QED BY <2>1, <1>11, <1>a DEF ReconcileObserve, Session, Pcs
<1>12. ASSUME NEW s \in Sessions, ReconcileSettle(s) PROVE TypeOK'
  <2> DEFINE row == sess[s].row
             obs == sess[s].obs
             to  == ReconcileTarget(row, obs)
             new == [row EXCEPT !.state = to, !.order = HasOrder(row, obs),
                                !.pay = IF to = "PAID" THEN obs.pay ELSE @]
  <2>1. to \in TxnStates
    BY <1>12, <1>b, TableType DEF ReconcileSettle, Reconciles, Legal
  <2>2. obs.pay \in Pays \cup {NoPay}
    BY <1>b DEF Observation
  <2>3. new \in Row
    BY <2>1, <2>2, <1>b, HasOrderType DEF Row
  <2>4. txn' \in Row
    BY <2>3, <1>b, <1>12, MergedType DEF ReconcileSettle
  <2> QED BY <2>4, <1>12 DEF ReconcileSettle, Idle
<1>13. ASSUME NEW s \in Sessions, ReconcileGiveUp(s) PROVE TypeOK'
  <2> DEFINE row == sess[s].row
             new == [row EXCEPT !.order = HasOrder(row, sess[s].obs)]
  <2>1. new \in Row
    BY <1>b, HasOrderType DEF Row
  <2>2. txn' \in Row
    BY <2>1, <1>b, <1>13, MergedType DEF ReconcileGiveUp
  <2> QED BY <2>2, <1>13 DEF ReconcileGiveUp, Session, Pcs, Idle
<1>14. ASSUME NEW s \in Sessions, WorkerReload(s) PROVE TypeOK'
  BY <1>14, <1>a DEF WorkerReload, Session, Pcs, Idle
<1>15. ASSUME NEW s \in Sessions, WorkerCount(s) PROVE TypeOK'
  <2> DEFINE row == sess[s].row
             n   == OneMore(row.attempts)
             new == [row EXCEPT !.attempts = n, !.order = HasOrder(row, sess[s].obs),
                       !.state = IF n >= DeadLetterAfter THEN Try(@, "PROVIDER_UNKNOWN") ELSE @]
  <2>1. n \in 0 .. DeadLetterAfter
    BY <1>b, OneMoreType DEF Row
  <2>2. Try(row.state, "PROVIDER_UNKNOWN") \in TxnStates
    BY <1>b, TryType DEF TxnStates
  <2>3. new \in Row
    BY <2>1, <2>2, <1>b, HasOrderType DEF Row
  <2>4. txn' \in Row
    BY <2>3, <1>b, <1>15, MergedType DEF WorkerCount
  <2> QED BY <2>4, <1>15 DEF WorkerCount, Idle
<1>16. ASSUME NEW s \in Sessions, RefundRead(s) PROVE TypeOK'
  BY <1>16, <1>a DEF RefundRead, Session, Pcs, Idle
<1>17. ASSUME NEW s \in Sessions, NEW answered \in BOOLEAN, RefundCall(s, answered) PROVE TypeOK'
  BY <1>17, <1>a DEF RefundCall, Session, Pcs, Idle
<1>18. ASSUME NEW s \in Sessions, RefundRecord(s) PROVE TypeOK'
  <2> DEFINE new == [sess[s].row EXCEPT !.state = "REFUNDED"]
  <2>1. new \in Row
    BY <1>b DEF Row, TxnStates
  <2>2. txn' \in Row
    BY <2>1, <1>b, <1>18, MergedType DEF RefundRecord
  <2> QED BY <2>2, <1>18 DEF RefundRecord, Idle
<1>19. ASSUME NEW s \in Sessions, Crash(s) PROVE TypeOK'
  BY <1>19 DEF Crash, Idle
<1>20. ASSUME Revoke PROVE TypeOK'
  BY <1>20 DEF Revoke, Unused
<1>21. ASSUME NEW p \in Pays, PayerAttempt(p) PROVE TypeOK'
  BY <1>21 DEF PayerAttempt, PayStates
<1>22. ASSUME NEW p \in Pays, ProviderAuthorizes(p) PROVE TypeOK'
  BY <1>22 DEF ProviderAuthorizes, PayStates, Announce, EventIds, EventTypes
<1>23. ASSUME NEW p \in Pays, ProviderAnnouncesCapture(p) PROVE TypeOK'
  BY <1>23 DEF ProviderAnnouncesCapture, Announce, EventIds, EventTypes
<1>24. ASSUME NEW p \in Pays, ProviderCaptures(p) PROVE TypeOK'
  BY <1>24 DEF ProviderCaptures, PayStates, Announce, EventIds, EventTypes
<1>25. ASSUME NEW p \in Pays, NEW how \in {"failed", "declined"}, ProviderFails(p, how) PROVE TypeOK'
  BY <1>25 DEF ProviderFails, PayStates, Announce, EventIds, EventTypes
<1>26. ASSUME NEW how \in Closings, ProviderCloses(how) PROVE TypeOK'
  BY <1>26 DEF ProviderCloses, OrderStates
<1>27. ASSUME UNCHANGED vars PROVE TypeOK'
  BY <1>27 DEF vars
<1> QED
  BY <1>1, <1>2, <1>3, <1>4, <1>5, <1>6, <1>7, <1>8, <1>9, <1>10, <1>11, <1>12, <1>13, <1>14,
     <1>15, <1>16, <1>17, <1>18, <1>19, <1>20, <1>21, <1>22, <1>23, <1>24, <1>25, <1>26, <1>27
     DEF Next, SessionStep, ConsumeStep, WebhookStep, ReconcileStep, RefundStep, ProviderStep

LEMMA TypeInit == Init => TypeOK
<1>1. Idle.pc = "idle"
  BY DEF Idle
<1> SUFFICES ASSUME Init PROVE TypeOK
  OBVIOUS
<1>2. usage \in 0 .. MaxUsage /\ calls \in Nat /\ refunds \in 0 .. RefundParts
  BY DEF Init
<1>3. revoked \in BOOLEAN /\ txn \in Row /\ events \subseteq EventIds
  BY IdleType, Zenon DEF Init
<1>4. sess \in [Sessions -> Session] /\ \A s \in Sessions : ~At(s, "applying")
  BY <1>1, IdleType DEF Init, At
<1>5. /\ order \in OrderStates /\ last \in Pays \cup {NoPay}
      /\ pays \in [Pays -> PayStates]
  BY DEF Init, OrderStates, PayStates
<1> QED BY <1>2, <1>3, <1>4, <1>5 DEF TypeOK

\* Type correctness of every reachable state (models.py columns, payments.py).
THEOREM TypeCorrect == Spec => []TypeOK
  BY TypeInit, TypeStep, PTL DEF Spec

-----------------------------------------------------------------------------
(***************************************************************************)
(* The safety properties of Settlement hold in every instance.  None is    *)
(* inductive: a commit writes what a session computed from an old copy, so *)
(* each invariant below says of the copies what it says of the row.        *)
(***************************************************************************)

(* Settled only if captured, refunded only if paid back.                   *)

SettledStates == {"PAID", "REFUNDED"}

Captured == \E p \in Matching : pays[p] = "captured"

\* A capture, once it happened or was seen by a session, stays.
CaptureInv ==
  /\ txn.state \in SettledStates => Captured
  /\ \A s \in Sessions :
       /\ sess[s].row.state \in SettledStates => Captured
       /\ sess[s].obs.status = "captured" =>
            sess[s].obs.pay \in Pays /\ pays[sess[s].obs.pay] = "captured"
       /\ sess[s].pc \in {"refunding", "refunded"} => sess[s].row.state = "PAID"
  /\ txn.state = "REFUNDED" => refunds > 0
  /\ \A s \in Sessions :
       sess[s].row.state = "REFUNDED" \/ sess[s].pc = "refunded" => refunds > 0

LEMMA CaptureStep == TypeOK /\ CaptureInv /\ [Next]_vars => CaptureInv'
<1> SUFFICES ASSUME TypeOK, CaptureInv, [Next]_vars PROVE CaptureInv'
  OBVIOUS
<1> USE DEF At, Become, Finish, Commit, provider, SettledStates
<1>t. /\ txn \in Row /\ sess \in [Sessions -> Session]
      /\ pays \in [Pays -> PayStates] /\ refunds \in Nat
  BY DEF TypeOK
<1>i. /\ Idle.row.state = "AUTHORIZED" /\ Idle.obs.status = "none" /\ Idle.pc = "idle"
      /\ NoObs.status = "none"
  BY DEF Idle, FreshRow, NoObs
<1>b. ASSUME NEW s \in Sessions
      PROVE  /\ sess[s] \in Session /\ sess[s].row \in Row /\ sess[s].obs \in Observation
             /\ sess[s].ans \in Answers
  BY <1>t DEF Session
<1>1. ASSUME NEW s \in Sessions, ConsumeReserve(s) PROVE CaptureInv'
  BY <1>1, <1>t, <1>i, IdleType DEF ConsumeReserve, CaptureInv, Captured, Row, Session, Idle
<1>2. ASSUME NEW s \in Sessions, NEW answer \in Answers \ {"none"}, SubmitOrder(s, answer) PROVE CaptureInv'
  BY <1>2, <1>t DEF SubmitOrder, CaptureInv, Captured, Session
<1>3. ASSUME NEW s \in Sessions, ConsumeLoad(s) PROVE CaptureInv'
  BY <1>3, <1>t DEF ConsumeLoad, CaptureInv, Captured, Session
<1>4. ASSUME NEW s \in Sessions, ConsumeRecord(s) PROVE CaptureInv'
  <2> DEFINE new == ConsumeOutcome(sess[s].row, sess[s].ans)
  <2>1. new.state \notin SettledStates \/ new.state = sess[s].row.state
    BY <1>b DEF ConsumeOutcome, Try, Row
  <2>2. txn'.state \in {txn.state, new.state}
    BY <1>4, <1>t, <1>b, ConsumeOutcomeType, MergedType DEF ConsumeRecord
  <2> QED BY <2>1, <2>2, <1>4, <1>t, <1>i DEF ConsumeRecord, CaptureInv, Captured
<1>5. ASSUME NEW s \in Sessions, NEW e \in EventIds, WebhookRead(s, e) PROVE CaptureInv'
  BY <1>5, <1>t, <1>i DEF WebhookRead, CaptureInv, Captured, Session, Idle
<1>6. ASSUME NEW s \in Sessions, WebhookApply(s) PROVE CaptureInv'
  <2> DEFINE e == sess[s].evt
             new == [sess[s].row EXCEPT !.state = WebhookTarget[e.type], !.evt = e,
                       !.pay = IF e.type = "payment.captured" THEN e.pay ELSE @]
  <2>1. e \in EventIds /\ e.type \in EventTypes /\ e.pay \in Pays
    BY <1>6 DEF WebhookApply, TypeOK, EventIds
  <2>2. new \in Row /\ new.state \notin SettledStates
    BY <2>1, <1>b, WebhookTargetType DEF Row
  <2>3. txn'.state \in {txn.state, new.state}
    BY <1>6, <1>t, <1>b, <2>2, MergedType DEF WebhookApply
  <2>4. sess' \in {[sess EXCEPT ![s] = Idle], [sess EXCEPT ![s] = [Idle EXCEPT !.pc = "confirm"]]}
    BY <1>6 DEF WebhookApply
  <2> QED BY <2>2, <2>3, <2>4, <1>6, <1>t, <1>i DEF WebhookApply, CaptureInv, Captured, Idle
<1>7. ASSUME NEW s \in Sessions, ConfirmLoad(s) PROVE CaptureInv'
  BY <1>7, <1>t DEF ConfirmLoad, CaptureInv, Captured, Session
<1>8. ASSUME NEW s \in Sessions, ConfirmRead(s) PROVE CaptureInv'
  <2> DEFINE p == Queried(sess[s].row, sess[s].row.order)
  <2>1. p \in Pays
    BY <1>8, <1>b, QueriedType DEF ConfirmRead
  <2>2. \A q \in Pays : Observed("none", q).pay = q /\ Observed("none", q).status = pays[q]
    BY SettlementAssumption DEF Observed
  <2> QED BY <2>1, <2>2, <1>8, <1>t DEF ConfirmRead, CaptureInv, Captured, Session
<1>9. ASSUME NEW s \in Sessions, ConfirmCommit(s) PROVE CaptureInv'
  <2> DEFINE new == ConfirmOutcome(sess[s].row, sess[s].obs)
  <2>1. \/ new.state = sess[s].row.state
        \/ new.state \notin SettledStates
        \/ new.state = "PAID" /\ sess[s].obs.status = "captured" /\ sess[s].obs.pay \in Matching
    BY <1>b DEF ConfirmOutcome, Try, Row, ValueMatches
  <2>2. txn'.state \in {txn.state, new.state}
    BY <1>9, <1>t, <1>b, ConfirmOutcomeType, MergedType DEF ConfirmCommit
  <2> QED BY <2>1, <2>2, <1>9, <1>t, <1>i DEF ConfirmCommit, CaptureInv, Captured
<1>10. ASSUME NEW s \in Sessions, ReconcileRead(s) PROVE CaptureInv'
  BY <1>10, <1>t, <1>i DEF ReconcileRead, CaptureInv, Captured, Session, Idle
<1>11. ASSUME NEW s \in Sessions, NEW o \in OrderStates, NEW p \in Pays \cup {NoPay}, ReconcileObserve(s, o, p)
       PROVE CaptureInv'
  <2>1. /\ Observed(o, p).pay = p
        /\ Observed(o, p).status = IF p = NoPay THEN "none" ELSE pays[p]
    BY DEF Observed
  <2> QED BY <2>1, <1>11, <1>t DEF ReconcileObserve, CaptureInv, Captured, Session
<1>12. ASSUME NEW s \in Sessions, ReconcileSettle(s) PROVE CaptureInv'
  <2> DEFINE row == sess[s].row
             obs == sess[s].obs
             to  == ReconcileTarget(row, obs)
             new == [row EXCEPT !.state = to, !.order = HasOrder(row, obs),
                                !.pay = IF to = "PAID" THEN obs.pay ELSE @]
  <2>1. to \in TxnStates
    BY <1>12, <1>b, TableType DEF ReconcileSettle, Reconciles, Legal, Row
  <2>2. new \in Row
    BY <2>1, <1>b, HasOrderType DEF Row, Observation
  <2>3. /\ to # "REFUNDED"
        /\ to = "PAID" => obs.status = "captured" /\ obs.pay \in Matching
    BY <1>b, ReconcileTargetType
  <2>4. txn'.state \in {txn.state, to}
    <3>1. new.state = to
      BY <1>b DEF Row
    <3>2. txn' = Merged(txn, row, new)
      BY <1>12 DEF ReconcileSettle
    <3>3. Merged(txn, row, new).state \in {txn.state, new.state}
      BY <1>t, <1>b, <2>2, MergedType
    <3> QED BY <3>1, <3>2, <3>3
  <2> QED BY <2>3, <2>4, <1>12, <1>t, <1>i DEF ReconcileSettle, CaptureInv, Captured
<1>13. ASSUME NEW s \in Sessions, ReconcileGiveUp(s) PROVE CaptureInv'
  <2> DEFINE new == [sess[s].row EXCEPT !.order = HasOrder(sess[s].row, sess[s].obs)]
  <2>1. new \in Row /\ new.state = sess[s].row.state
    BY <1>b, HasOrderType DEF Row
  <2>2. txn'.state \in {txn.state, new.state}
    BY <2>1, <1>13, <1>t, <1>b, MergedType DEF ReconcileGiveUp
  <2>3. sess' \in {[sess EXCEPT ![s] = Idle], [sess EXCEPT ![s] = [Idle EXCEPT !.pc = "recount"]]}
    BY <1>13 DEF ReconcileGiveUp
  <2> QED BY <2>1, <2>2, <2>3, <1>13, <1>t, <1>i DEF ReconcileGiveUp, CaptureInv, Captured, Idle
<1>14. ASSUME NEW s \in Sessions, WorkerReload(s) PROVE CaptureInv'
  BY <1>14, <1>t, <1>i DEF WorkerReload, CaptureInv, Captured, Session, Idle
<1>15. ASSUME NEW s \in Sessions, WorkerCount(s) PROVE CaptureInv'
  <2> DEFINE row == sess[s].row
             n   == OneMore(row.attempts)
             new == [row EXCEPT !.attempts = n, !.order = HasOrder(row, sess[s].obs),
                       !.state = IF n >= DeadLetterAfter THEN Try(@, "PROVIDER_UNKNOWN") ELSE @]
  <2>1. n \in 0 .. DeadLetterAfter
    BY <1>b, OneMoreType DEF Row
  <2>2. new.state \in {row.state, "PROVIDER_UNKNOWN"}
    BY <1>b DEF Row, Try
  <2>3. new \in Row
    BY <2>1, <2>2, <1>b, HasOrderType DEF Row, TxnStates
  <2>4. txn'.state \in {txn.state, new.state}
    BY <2>3, <1>15, <1>t, <1>b, MergedType DEF WorkerCount
  <2> QED BY <2>2, <2>4, <1>15, <1>t, <1>i DEF WorkerCount, CaptureInv, Captured
<1>16. ASSUME NEW s \in Sessions, RefundRead(s) PROVE CaptureInv'
  BY <1>16, <1>t, <1>i DEF RefundRead, CaptureInv, Captured, Session, Idle
<1>17. ASSUME NEW s \in Sessions, NEW answered \in BOOLEAN, RefundCall(s, answered) PROVE CaptureInv'
  BY <1>17, <1>t, <1>i DEF RefundCall, CaptureInv, Captured, Session
<1>18. ASSUME NEW s \in Sessions, RefundRecord(s) PROVE CaptureInv'
  <2> DEFINE new == [sess[s].row EXCEPT !.state = "REFUNDED"]
  <2>1. new \in Row /\ new.state = "REFUNDED"
    BY <1>b DEF Row, TxnStates
  <2>2. txn'.state \in {txn.state, new.state}
    BY <2>1, <1>18, <1>t, <1>b, MergedType DEF RefundRecord
  <2> QED BY <2>1, <2>2, <1>18, <1>t, <1>i DEF RefundRecord, CaptureInv, Captured
<1>19. ASSUME NEW s \in Sessions, Crash(s) PROVE CaptureInv'
  BY <1>19, <1>t, <1>i DEF Crash, CaptureInv, Captured
<1>24. ASSUME NEW p \in Pays, ProviderCaptures(p) PROVE CaptureInv'
  BY <1>24, <1>t DEF ProviderCaptures, CaptureInv, Captured, PayStates
<1>25. ASSUME NEW p \in Pays, NEW how \in {"failed", "declined"}, ProviderFails(p, how) PROVE CaptureInv'
  BY <1>25, <1>t DEF ProviderFails, CaptureInv, Captured, PayStates
<1>20. ASSUME Revoke PROVE CaptureInv'
  BY <1>20 DEF Revoke, CaptureInv, Captured
<1>21. ASSUME NEW p \in Pays, PayerAttempt(p) PROVE CaptureInv'
  BY <1>21, <1>t DEF PayerAttempt, CaptureInv, Captured, PayStates
<1>22. ASSUME NEW p \in Pays, ProviderAuthorizes(p) PROVE CaptureInv'
  BY <1>22, <1>t DEF ProviderAuthorizes, CaptureInv, Captured, PayStates
<1>23. ASSUME NEW p \in Pays, ProviderAnnouncesCapture(p) PROVE CaptureInv'
  BY <1>23 DEF ProviderAnnouncesCapture, CaptureInv, Captured
<1>26. ASSUME NEW how \in Closings, ProviderCloses(how) PROVE CaptureInv'
  BY <1>26 DEF ProviderCloses, CaptureInv, Captured
<1>27. ASSUME UNCHANGED vars PROVE CaptureInv'
  BY <1>27 DEF vars, CaptureInv, Captured
<1> QED
  BY <1>1, <1>2, <1>3, <1>4, <1>5, <1>6, <1>7, <1>8, <1>9, <1>10, <1>11, <1>12, <1>13, <1>14,
     <1>15, <1>16, <1>17, <1>18, <1>19, <1>20, <1>21, <1>22, <1>23, <1>24, <1>25, <1>26, <1>27
     DEF Next, SessionStep, ConsumeStep, WebhookStep, ReconcileStep, RefundStep, ProviderStep

LEMMA CaptureInit == Init => CaptureInv
  BY DEF Init, CaptureInv, Idle, FreshRow, NoObs, SettledStates

\* The row says PAID or REFUNDED only if a payment of the authorized value was
\* captured, and REFUNDED only if the provider accepted a refund.
THEOREM SettledOnlyIfCapturedHolds == Spec => []BackedByProvider
<1>1. TypeOK /\ CaptureInv => BackedByProvider
  BY DEF BackedByProvider, CaptureInv, SettledOnlyIfCaptured, RefundedOnlyIfPaidBack, SettledStates, Captured
<1>2. Spec => []CaptureInv
  BY CaptureInit, CaptureStep, TypeCorrect, PTL DEF Spec
<1> QED
  BY <1>1, <1>2, TypeCorrect, PTL

-----------------------------------------------------------------------------
(* One submission, none after a revocation.                                *)

\* A copy of the row nothing has been learned about: no order, no payment.
Bare(row) ==
  ~row.order /\ row.pay = NoPay /\ row.state \in {"AUTHORIZED", "PROVIDER_UNKNOWN"}

\* The authorization has reached no provider, and no session believes it has.
Untouched ==
  /\ calls = 0 /\ order = "none" /\ last = NoPay
  /\ Bare(txn)
  /\ \A s \in Sessions :
       /\ sess[s].pc \in {"idle", "reading", "observed", "recount", "counting"}
       /\ Bare(sess[s].row)
       /\ sess[s].obs.order = "none" /\ sess[s].obs.pay = NoPay

\* The one use is the permission to call the provider: whoever reserved it is
\* alone, and while nobody has, or revocation burned it, nothing is touched.
SpendInv ==
  /\ usage = 0 \/ revoked => Untouched
  /\ revoked => usage = MaxUsage
  /\ calls <= 1
  /\ \A s \in Sessions : sess[s].pc = "reserved" => calls = 0
  /\ \A s, t \in Sessions : sess[s].pc = "reserved" /\ sess[t].pc = "reserved" => s = t

\* A session that has only bare copies and nothing observed commits a bare row.
LEMMA BareReconcile ==
  ASSUME NEW row \in Row, Bare(row),
         NEW obs \in Observation, obs.order = "none", obs.pay = NoPay
  PROVE  ~Reconciles(row, obs) /\ HasOrder(row, obs) = FALSE /\ GivesUpWithCommit(row, obs)
<1>1. HasOrder(row, obs) = FALSE
  BY DEF HasOrder, Bare, Row
<1>2. ReconcileTarget(row, obs) = "none"
  BY DEF ReconcileTarget
<1>3. "none" \notin TransitionTable[row.state]
  BY TableType DEF Row, TxnStates
<1> QED
  BY <1>1, <1>2, <1>3 DEF Reconciles, Legal, GivesUpWithCommit, Bare

LEMMA SpendStep == TypeOK /\ SpendInv /\ [Next]_vars => SpendInv'
<1> SUFFICES ASSUME TypeOK, SpendInv, [Next]_vars PROVE SpendInv'
  OBVIOUS
<1> USE DEF At, Become, Finish, provider
<1>t. /\ txn \in Row /\ sess \in [Sessions -> Session] /\ calls \in Nat /\ usage \in 0 .. 1
      /\ last \in Pays \cup {NoPay}
  BY DEF TypeOK, MaxUsage
<1>i. /\ Idle \in Session /\ Idle.row = FreshRow /\ Idle.obs = NoObs /\ Idle.pc = "idle"
      /\ Bare(FreshRow) /\ NoObs.order = "none" /\ NoObs.pay = NoPay
  BY IdleType DEF Idle, FreshRow, NoObs, Bare
<1>b. ASSUME NEW s \in Sessions
      PROVE  /\ sess[s] \in Session /\ sess[s].row \in Row /\ sess[s].obs \in Observation
  BY <1>t DEF Session
<1>1. ASSUME NEW s \in Sessions, ConsumeReserve(s) PROVE SpendInv'
  <2>1. Untouched /\ ~revoked' /\ usage' = 1
    BY <1>1, <1>t DEF ConsumeReserve, Unused, MaxUsage, SpendInv, Untouched
  <2> QED BY <2>1, <1>1, <1>t, <1>i DEF ConsumeReserve, SpendInv, Untouched
<1>2. ASSUME NEW s \in Sessions, NEW answer \in Answers \ {"none"}, SubmitOrder(s, answer) PROVE SpendInv'
  BY <1>2, <1>t DEF SubmitOrder, SpendInv, Untouched, Session
<1>3. ASSUME NEW s \in Sessions, ConsumeLoad(s) PROVE SpendInv'
  BY <1>3, <1>t DEF ConsumeLoad, SpendInv, Untouched, Session
<1>4. ASSUME NEW s \in Sessions, ConsumeRecord(s) PROVE SpendInv'
  BY <1>4, <1>t, <1>i DEF ConsumeRecord, SpendInv, Untouched
<1>5. ASSUME NEW s \in Sessions, NEW e \in EventIds, WebhookRead(s, e) PROVE SpendInv'
  BY <1>5, <1>t, <1>i DEF WebhookRead, SpendInv, Untouched, Session, Bare
<1>6. ASSUME NEW s \in Sessions, WebhookApply(s) PROVE SpendInv'
  <2>1. sess' \in {[sess EXCEPT ![s] = Idle], [sess EXCEPT ![s] = [Idle EXCEPT !.pc = "confirm"]]}
    BY <1>6 DEF WebhookApply
  <2> QED BY <2>1, <1>6, <1>t, <1>i DEF WebhookApply, SpendInv, Untouched, Session
<1>7. ASSUME NEW s \in Sessions, ConfirmLoad(s) PROVE SpendInv'
  BY <1>7, <1>t DEF ConfirmLoad, SpendInv, Untouched, Session
<1>8. ASSUME NEW s \in Sessions, ConfirmRead(s) PROVE SpendInv'
  BY <1>8, <1>t DEF ConfirmRead, SpendInv, Untouched, Session
<1>9. ASSUME NEW s \in Sessions, ConfirmCommit(s) PROVE SpendInv'
  BY <1>9, <1>t, <1>i DEF ConfirmCommit, SpendInv, Untouched
<1>10. ASSUME NEW s \in Sessions, ReconcileRead(s) PROVE SpendInv'
  BY <1>10, <1>t, <1>i DEF ReconcileRead, SpendInv, Untouched, Session
<1>11. ASSUME NEW s \in Sessions, NEW o \in OrderStates, NEW p \in Pays \cup {NoPay}, ReconcileObserve(s, o, p)
       PROVE SpendInv'
  <2>1. Observed(o, p).order = o /\ Observed(o, p).pay = p
    BY DEF Observed
  <2>2. ASSUME Untouched PROVE o = "none" /\ p = NoPay
    <3>1. o = "none" /\ Bare(sess[s].row) /\ sess[s].row.order \in BOOLEAN
      BY <2>2, <1>11, <1>b DEF ReconcileObserve, Untouched, Row
    <3>2. Queried(sess[s].row, FALSE) = NoPay
      BY <3>1, <2>2 DEF Queried, Bare
    <3>3. (sess[s].row.order \/ (NeedsReceipt(sess[s].row) /\ o # "none")) = FALSE
      BY <3>1 DEF Bare
    <3> QED BY <3>1, <3>2, <3>3, <1>11 DEF ReconcileObserve
  <2> QED BY <2>1, <2>2, <1>11, <1>t DEF ReconcileObserve, SpendInv, Untouched, Session
<1>12. ASSUME NEW s \in Sessions, ReconcileSettle(s) PROVE SpendInv'
  <2>1. ~Untouched
    BY <1>12, <1>b, BareReconcile DEF ReconcileSettle, Untouched
  <2> QED BY <2>1, <1>12, <1>t, <1>i DEF ReconcileSettle, SpendInv
<1>13. ASSUME NEW s \in Sessions, ReconcileGiveUp(s) PROVE SpendInv'
  <2>1. ASSUME Untouched PROVE Bare(txn')
    <3> DEFINE row == sess[s].row
               new == [row EXCEPT !.order = HasOrder(row, sess[s].obs)]
    <3>1. HasOrder(row, sess[s].obs) = FALSE /\ GivesUpWithCommit(row, sess[s].obs) /\ Bare(row)
      BY <2>1, <1>b, BareReconcile DEF Untouched
    <3>2. new = row
      BY <3>1, <1>b DEF Bare, Row
    <3>3. txn' = Merged(txn, row, new)
      BY <3>1, <1>13 DEF ReconcileGiveUp, Commit
    <3>4. Bare(txn)
      BY <2>1 DEF Untouched
    <3> HIDE DEF new
    <3> QED BY <3>2, <3>3, <3>4, <1>t DEF Merged, Bare, Row
  <2>2. sess' \in {[sess EXCEPT ![s] = Idle], [sess EXCEPT ![s] = [Idle EXCEPT !.pc = "recount"]]}
    BY <1>13 DEF ReconcileGiveUp
  <2> QED BY <2>1, <2>2, <1>13, <1>t, <1>i DEF ReconcileGiveUp, SpendInv, Untouched, Session
<1>14. ASSUME NEW s \in Sessions, WorkerReload(s) PROVE SpendInv'
  BY <1>14, <1>t, <1>i DEF WorkerReload, SpendInv, Untouched, Session
<1>15. ASSUME NEW s \in Sessions, WorkerCount(s) PROVE SpendInv'
  <2> DEFINE row == sess[s].row
             n   == OneMore(row.attempts)
             new == [row EXCEPT !.attempts = n, !.order = HasOrder(row, sess[s].obs),
                       !.state = IF n >= DeadLetterAfter THEN Try(@, "PROVIDER_UNKNOWN") ELSE @]
  <2>1. ASSUME Untouched PROVE Bare(txn')
    <3>1. HasOrder(row, sess[s].obs) = FALSE /\ Bare(row)
      BY <2>1, <1>b, BareReconcile DEF Untouched
    <3>2. new.state \in {row.state, "PROVIDER_UNKNOWN"} /\ new.order = FALSE /\ new.pay = row.pay
      BY <3>1, <1>b DEF Row, Try
    <3>3. txn' = Merged(txn, row, new)
      BY <1>15 DEF WorkerCount, Commit
    <3>4. Bare(txn)
      BY <2>1 DEF Untouched
    <3> HIDE DEF new
    <3> QED BY <3>1, <3>2, <3>3, <3>4, <1>t, <1>b DEF Merged, Bare, Row
  <2> QED BY <2>1, <1>15, <1>t, <1>i DEF WorkerCount, SpendInv, Untouched
<1>16. ASSUME NEW s \in Sessions, RefundRead(s) PROVE SpendInv'
  BY <1>16, <1>t, <1>i DEF RefundRead, SpendInv, Untouched, Session, Bare
<1>17. ASSUME NEW s \in Sessions, NEW answered \in BOOLEAN, RefundCall(s, answered) PROVE SpendInv'
  BY <1>17, <1>t, <1>i DEF RefundCall, SpendInv, Untouched, Session
<1>18. ASSUME NEW s \in Sessions, RefundRecord(s) PROVE SpendInv'
  BY <1>18, <1>t, <1>i DEF RefundRecord, SpendInv, Untouched
<1>19. ASSUME NEW s \in Sessions, Crash(s) PROVE SpendInv'
  BY <1>19, <1>t, <1>i DEF Crash, SpendInv, Untouched
<1>20. ASSUME Revoke PROVE SpendInv'
  BY <1>20, <1>t DEF Revoke, Unused, MaxUsage, SpendInv, Untouched
<1>21. ASSUME NEW p \in Pays, PayerAttempt(p) PROVE SpendInv'
  BY <1>21 DEF PayerAttempt, SpendInv, Untouched
<1>22. ASSUME NEW p \in Pays, ProviderAuthorizes(p) PROVE SpendInv'
  BY <1>22 DEF ProviderAuthorizes, SpendInv, Untouched
<1>23. ASSUME NEW p \in Pays, ProviderAnnouncesCapture(p) PROVE SpendInv'
  BY <1>23 DEF ProviderAnnouncesCapture, SpendInv, Untouched
<1>24. ASSUME NEW p \in Pays, ProviderCaptures(p) PROVE SpendInv'
  BY <1>24 DEF ProviderCaptures, SpendInv, Untouched
<1>25. ASSUME NEW p \in Pays, NEW how \in {"failed", "declined"}, ProviderFails(p, how) PROVE SpendInv'
  BY <1>25 DEF ProviderFails, SpendInv, Untouched
<1>26. ASSUME NEW how \in Closings, ProviderCloses(how) PROVE SpendInv'
  BY <1>26 DEF ProviderCloses, SpendInv, Untouched
<1>27. ASSUME UNCHANGED vars PROVE SpendInv'
  BY <1>27 DEF vars, SpendInv, Untouched
<1> QED
  BY <1>1, <1>2, <1>3, <1>4, <1>5, <1>6, <1>7, <1>8, <1>9, <1>10, <1>11, <1>12, <1>13, <1>14,
     <1>15, <1>16, <1>17, <1>18, <1>19, <1>20, <1>21, <1>22, <1>23, <1>24, <1>25, <1>26, <1>27
     DEF Next, SessionStep, ConsumeStep, WebhookStep, ReconcileStep, RefundStep, ProviderStep

LEMMA SpendInit == Init => SpendInv
<1> SUFFICES ASSUME Init PROVE SpendInv
  OBVIOUS
<1>1. Bare(FreshRow)
  BY DEF Bare, FreshRow
<1>2. \A s \in Sessions : sess[s].pc = "idle" /\ sess[s].row = FreshRow /\ sess[s].obs = NoObs
  BY DEF Init, Idle
<1>3. calls = 0 /\ order = "none" /\ last = NoPay /\ txn = FreshRow
  BY DEF Init
<1>4. Untouched
  BY <1>1, <1>2, <1>3 DEF Untouched, NoObs
<1> QED
  BY <1>2, <1>3, <1>4 DEF SpendInv, Init

\* The provider is asked for an order at most once, and never for a revoked
\* authorization.
THEOREM SubmittedOnce == Spec => []ExecutesOnce
<1>1. SpendInv => ExecutesOnce
  BY DEF ExecutesOnce, SpendInv, SingleSubmission, RevokedNeverExecutes, Untouched, Bare
<1>2. Spec => []SpendInv
  BY SpendInit, SpendStep, TypeCorrect, PTL DEF Spec
<1> QED
  BY <1>1, <1>2, PTL

-----------------------------------------------------------------------------
(* What the transaction row can never hold.                                *)


\* A row, or a copy of it, that respects the authorized value and is not closed;
\* it has an order id only once it has left AUTHORIZED, a payment id only with an
\* order id, and is settled only with a payment id.
Sound(row) ==
  /\ row.pay \in Matching \cup {NoPay}
  /\ row.state \notin {"CANCELLED", "EXPIRED"}
  /\ row.state = "AUTHORIZED" => ~row.order
  /\ row.pay # NoPay => row.order
  /\ row.state \in {"PAID", "REFUNDED"} => row.pay # NoPay

\* What only ever happens to a row: it leaves AUTHORIZED, it gets an order id and
\* it gets a payment id, each for good.
Behind(old, row) ==
  /\ old.state # "AUTHORIZED" => row.state # "AUTHORIZED"
  /\ old.order => row.order
  /\ old.pay # NoPay => row.pay # NoPay

\* What a session that is going to write the payment id or a settled state knows.
Prepared(rec) ==
  /\ rec.pc = "applying" => rec.evt.pay \in Matching /\ rec.row.order
  /\ rec.pc = "confirmed" => rec.obs.pay # NoPay /\ rec.row.order
  /\ rec.pc = "observed" /\ rec.obs.pay # NoPay => HasOrder(rec.row, rec.obs)
  /\ rec.pc \in {"refunding", "refunded"} => rec.row.pay # NoPay

\* No copy is ahead of the row.
RowInv ==
  /\ Sound(txn)
  /\ \A s \in Sessions :
       Sound(sess[s].row) /\ Behind(sess[s].row, txn) /\ Prepared(sess[s])

LEMMA FreshSound ==
  /\ Sound(FreshRow) /\ \A row : Behind(FreshRow, row)
  /\ Idle.row = FreshRow /\ Idle.pc = "idle"
  BY DEF Sound, Behind, FreshRow, Idle

\* Merging a sound copy that takes nothing back keeps the row sound: columns that
\* must agree may come from different writers, and still agree.
LEMMA MergedSound ==
  ASSUME NEW db \in Row, NEW old \in Row, NEW new \in Row,
         Sound(db), Sound(old), Sound(new), Behind(old, db), Behind(old, new)
  PROVE  Sound(Merged(db, old, new)) /\ Behind(db, Merged(db, old, new))
<1> DEFINE row == Merged(db, old, new)
<1>1. Behind(db, row)
  BY DEF Merged, Behind, Row
<1>2. row.pay \in Matching \cup {NoPay} /\ row.state \notin {"CANCELLED", "EXPIRED"}
  BY DEF Merged, Sound, Row
<1>3. row.state = "AUTHORIZED" => ~row.order
  BY DEF Merged, Sound, Behind, Row
<1>4. row.pay # NoPay => row.order
  BY DEF Merged, Sound, Behind, Row
<1>5. row.state \in {"PAID", "REFUNDED"} => row.pay # NoPay
  BY DEF Merged, Sound, Behind, Row
<1> QED
  BY <1>1, <1>2, <1>3, <1>4, <1>5 DEF Sound

\* A session that commits such a copy and lets go of it.
LEMMA CommitKeeps ==
  ASSUME TypeOK, RowInv, NEW s \in Sessions, NEW new \in Row, NEW rec,
         Sound(new), Behind(sess[s].row, new),
         txn' = Merged(txn, sess[s].row, new),
         sess' = [sess EXCEPT ![s] = rec], rec.row = FreshRow,
         rec.pc \in {"idle", "confirm", "recount"}
  PROVE  RowInv'
<1>1. /\ txn \in Row /\ sess \in [Sessions -> Session] /\ sess[s].row \in Row
  BY DEF TypeOK, Session
<1>2. Sound(txn') /\ Behind(txn, txn')
  BY <1>1, MergedSound DEF RowInv
<1>3. ASSUME NEW t \in Sessions
      PROVE  Sound(sess'[t].row) /\ Behind(sess'[t].row, txn') /\ Prepared(sess'[t])
  <2>1. CASE t = s
    BY <2>1, <1>1, FreshSound DEF Prepared
  <2>2. CASE t # s
    <3>1. sess'[t] = sess[t] /\ Behind(sess[t].row, txn)
      BY <2>2, <1>1 DEF RowInv
    <3> QED
      BY <3>1, <1>2 DEF RowInv, Behind
  <2> QED
    BY <2>1, <2>2
<1> QED
  BY <1>2, <1>3 DEF RowInv

\* A session that commits nothing and holds the row, its copy or none.
LEMMA CopyKeeps ==
  ASSUME TypeOK, RowInv, NEW s \in Sessions, NEW rec,
         txn' = txn, sess' = [sess EXCEPT ![s] = rec],
         rec.row \in {sess[s].row, txn, FreshRow}, Prepared(rec)
  PROVE  RowInv'
<1>1. sess \in [Sessions -> Session]
  BY DEF TypeOK
<1>2. Behind(txn, txn)
  BY DEF Behind
<1>3. Sound(rec.row) /\ Behind(rec.row, txn)
  BY <1>2, FreshSound DEF RowInv
<1> QED
  BY <1>1, <1>3 DEF RowInv

LEMMA RowStep == TypeOK /\ RowInv /\ [Next]_vars => RowInv'
<1> SUFFICES ASSUME TypeOK, RowInv, [Next]_vars PROVE RowInv'
  OBVIOUS
<1> USE FreshSound DEF At, Become, Finish, Commit, provider
<1>t. /\ txn \in Row /\ sess \in [Sessions -> Session]
  BY DEF TypeOK
<1>b. ASSUME NEW s \in Sessions
      PROVE  /\ sess[s] \in Session /\ sess[s].row \in Row /\ sess[s].obs \in Observation
             /\ sess[s].ans \in Answers /\ Sound(sess[s].row)
  BY <1>t DEF Session, RowInv
<1>i. Idle \in Session
  BY IdleType
<1>1. ASSUME NEW s \in Sessions, ConsumeReserve(s) PROVE RowInv'
  <2>1. txn'.state = txn.state /\ txn'.order = txn.order /\ txn'.pay = txn.pay
    BY <1>1, <1>t DEF ConsumeReserve, Row
  <2>2. sess' = [sess EXCEPT ![s] = [Idle EXCEPT !.pc = "reserved"]]
    BY <1>1 DEF ConsumeReserve
  <2>3. Sound(txn') /\ Behind(txn, txn')
    BY <2>1 DEF RowInv, Sound, Behind
  <2>4. ASSUME NEW t \in Sessions
        PROVE  Sound(sess'[t].row) /\ Behind(sess'[t].row, txn') /\ Prepared(sess'[t])
    <3>1. CASE t = s
      BY <3>1, <2>2, <1>t, <1>i DEF Session, Prepared
    <3>2. CASE t # s
      BY <3>2, <2>2, <2>1, <1>t DEF RowInv, Behind
    <3> QED BY <3>1, <3>2
  <2> QED BY <2>3, <2>4 DEF RowInv
<1>2. ASSUME NEW s \in Sessions, NEW answer \in Answers \ {"none"}, SubmitOrder(s, answer) PROVE RowInv'
  BY <1>2, <1>b, CopyKeeps DEF SubmitOrder, Session, Prepared
<1>3. ASSUME NEW s \in Sessions, ConsumeLoad(s) PROVE RowInv'
  BY <1>3, <1>b, CopyKeeps DEF ConsumeLoad, Session, Prepared
<1>4. ASSUME NEW s \in Sessions, ConsumeRecord(s) PROVE RowInv'
  <2> DEFINE row == sess[s].row
             new == ConsumeOutcome(row, sess[s].ans)
  <2>1. "PROVIDER_SUBMITTED" \in TransitionTable["AUTHORIZED"]
    BY DEF TransitionTable, TxnStates
  <2>2. Sound(new) /\ Behind(row, new)
    BY <2>1, <1>b DEF ConsumeOutcome, Try, Legal, Sound, Behind, Row
  <2>3. new \in Row
    BY <1>b, ConsumeOutcomeType
  <2>4. txn' = Merged(txn, row, new) /\ sess' = [sess EXCEPT ![s] = Idle]
    BY <1>4 DEF ConsumeRecord
  <2> HIDE DEF new
  <2> QED BY <2>2, <2>3, <2>4, CommitKeeps
<1>5. ASSUME NEW s \in Sessions, NEW e \in EventIds, WebhookRead(s, e) PROVE RowInv'
  BY <1>5, <1>i, CopyKeeps DEF WebhookRead, ValueMatches, Session, Prepared
<1>6. ASSUME NEW s \in Sessions, WebhookApply(s) PROVE RowInv'
  <2> DEFINE e == sess[s].evt
             new == [sess[s].row EXCEPT !.state = WebhookTarget[e.type], !.evt = e,
                       !.pay = IF e.type = "payment.captured" THEN e.pay ELSE @]
  <2>1. e \in EventIds /\ e.type \in EventTypes /\ e.pay \in Pays /\ e.pay \in Matching /\ sess[s].row.order
    BY <1>6 DEF WebhookApply, TypeOK, EventIds, RowInv, Prepared
  <2>2. new \in Row /\ new.state \in {"PROVIDER_AUTHORIZED", "CAPTURED", "FAILED"}
    BY <2>1, <1>b, WebhookTargetType DEF Row
  <2>3. new.pay \in Matching \cup {NoPay}
    BY <2>1, <1>b DEF Row, Sound
  <2>0. new.order /\ (sess[s].row.pay # NoPay => new.pay # NoPay)
    BY <2>1, <1>b, SettlementAssumption DEF Row
  <2>4. Sound(new) /\ Behind(sess[s].row, new)
    BY <2>0, <2>2, <2>3 DEF Sound, Behind
  <2>5. \A rec \in {Idle, [Idle EXCEPT !.pc = "confirm"]} : rec.row = FreshRow /\ rec.pc \in {"idle", "confirm"}
    BY <1>i DEF Session
  <2>6. PICK rec \in {Idle, [Idle EXCEPT !.pc = "confirm"]} : sess' = [sess EXCEPT ![s] = rec]
    BY <1>6 DEF WebhookApply
  <2>7. txn' = Merged(txn, sess[s].row, new)
    BY <1>6 DEF WebhookApply
  <2> HIDE DEF new
  <2> QED BY <2>2, <2>4, <2>5, <2>6, <2>7, CommitKeeps
<1>7. ASSUME NEW s \in Sessions, ConfirmLoad(s) PROVE RowInv'
  BY <1>7, <1>b, CopyKeeps DEF ConfirmLoad, Session, Prepared
<1>8. ASSUME NEW s \in Sessions, ConfirmRead(s) PROVE RowInv'
  <2> DEFINE p   == Queried(sess[s].row, sess[s].row.order)
             rec == [sess[s] EXCEPT !.pc = "confirmed", !.obs = Observed("none", p)]
  <2>1. p # NoPay /\ txn' = txn /\ sess' = [sess EXCEPT ![s] = rec]
    BY <1>8 DEF ConfirmRead
  <2>2. rec.pc = "confirmed" /\ rec.row = sess[s].row /\ rec.obs.pay = p
    BY <1>b DEF Session, Observed
  <2>3. sess[s].row.order
    BY <2>1, <1>b DEF Queried, Sound
  <2> HIDE DEF p, rec
  <2> QED BY <2>1, <2>2, <2>3, CopyKeeps DEF Prepared
<1>9. ASSUME NEW s \in Sessions, ConfirmCommit(s) PROVE RowInv'
  <2> DEFINE new == ConfirmOutcome(sess[s].row, sess[s].obs)
  <2>1. new \in Row
    BY <1>b, ConfirmOutcomeType
  <2>0. sess[s].obs.pay # NoPay /\ sess[s].row.order
    BY <1>9 DEF ConfirmCommit, RowInv, Prepared
  <2>2. Sound(new) /\ Behind(sess[s].row, new)
    BY <2>0, <1>b DEF ConfirmOutcome, Try, ValueMatches, Sound, Behind, Row
  <2>3. txn' = Merged(txn, sess[s].row, new) /\ sess' = [sess EXCEPT ![s] = Idle]
    BY <1>9 DEF ConfirmCommit
  <2> HIDE DEF new
  <2> QED BY <2>1, <2>2, <2>3, CommitKeeps
<1>10. ASSUME NEW s \in Sessions, ReconcileRead(s) PROVE RowInv'
  BY <1>10, <1>i, CopyKeeps DEF ReconcileRead, Session, Prepared
<1>11. ASSUME NEW s \in Sessions, NEW o \in OrderStates, NEW p \in Pays \cup {NoPay}, ReconcileObserve(s, o, p)
       PROVE RowInv'
  <2> DEFINE row == sess[s].row
             rec == [sess[s] EXCEPT !.pc = "observed", !.obs = Observed(o, p)]
  <2>1. txn' = txn /\ sess' = [sess EXCEPT ![s] = rec]
    BY <1>11 DEF ReconcileObserve
  <2>2. rec.pc = "observed" /\ rec.row = row /\ rec.obs.pay = p /\ rec.obs.order = o
    BY <1>b DEF Session, Observed
  <2>3. p # NoPay => HasOrder(row, rec.obs)
    BY <1>11, <2>2, <1>b DEF ReconcileObserve, Queried, HasOrder, Sound
  <2> HIDE DEF rec
  <2> QED BY <2>1, <2>2, <2>3, CopyKeeps DEF Prepared
<1>12. ASSUME NEW s \in Sessions, ReconcileSettle(s) PROVE RowInv'
  <2> DEFINE row == sess[s].row
             obs == sess[s].obs
             to  == ReconcileTarget(row, obs)
             new == [row EXCEPT !.state = to, !.order = HasOrder(row, obs),
                                !.pay = IF to = "PAID" THEN obs.pay ELSE @]
  <2>1. /\ to \in {"none", "CANCELLED", "EXPIRED", "DECLINED", "PAID", "FAILED", "PROVIDER_AUTHORIZED"}
        /\ to = "PAID" => obs.pay \in Matching
        /\ to \in {"CANCELLED", "EXPIRED"} => HasOrder(row, obs)
        /\ to # "none" => obs.pay # NoPay
    BY <1>b, ReconcileTargetType DEF ReconcileTarget
  <2>2. to = row.state \/ to \in TransitionTable[row.state]
    BY <1>12 DEF ReconcileSettle, Reconciles, Legal
  <2>3. to \in TxnStates
    BY <2>2, <1>b, TableType DEF Row
  <2>4. to \notin {"CANCELLED", "EXPIRED"}
    <3>1. \A from \in TxnStates \ {"AUTHORIZED"} :
             "CANCELLED" \notin TransitionTable[from] /\ "EXPIRED" \notin TransitionTable[from]
      BY DEF TransitionTable, TxnStates
    <3>2. row.state = "AUTHORIZED" => HasOrder(row, obs) = FALSE
      BY <1>b DEF HasOrder, NeedsReceipt, Sound, Row
    <3> QED BY <3>1, <3>2, <2>1, <2>2, <1>b DEF Sound, Row
  <2>5. to # "AUTHORIZED"
    BY <2>1
  <2>6. new \in Row
    BY <2>3, <1>b, HasOrderType DEF Row, Observation
  <2>7. new.state = to /\ new.pay \in Matching \cup {NoPay}
    BY <2>1, <1>b DEF Row, Sound
  <2>a. HasOrder(row, obs)
    BY <1>12, <2>1, <2>3 DEF ReconcileSettle, RowInv, Prepared, TxnStates
  <2>b. new.order /\ (row.pay # NoPay => new.pay # NoPay) /\ (to = "PAID" => new.pay # NoPay)
    BY <2>a, <2>1, <2>3, <1>b, SettlementAssumption DEF Row, TxnStates
  <2>8. Sound(new) /\ Behind(row, new)
    BY <2>1, <2>4, <2>5, <2>7, <2>b DEF Sound, Behind
  <2>9. txn' = Merged(txn, row, new) /\ sess' = [sess EXCEPT ![s] = Idle]
    BY <1>12 DEF ReconcileSettle
  <2> HIDE DEF new, to
  <2> QED BY <2>5, <2>6, <2>7, <2>8, <2>9, CommitKeeps
<1>13. ASSUME NEW s \in Sessions, ReconcileGiveUp(s) PROVE RowInv'
  <2> DEFINE row == sess[s].row
             new == [row EXCEPT !.order = HasOrder(row, sess[s].obs)]
  <2>1. \A rec \in {Idle, [Idle EXCEPT !.pc = "recount"]} : rec.row = FreshRow /\ rec.pc \in {"idle", "recount"}
    BY <1>i DEF Session
  <2>2. PICK rec \in {Idle, [Idle EXCEPT !.pc = "recount"]} : sess' = [sess EXCEPT ![s] = rec]
    BY <1>13 DEF ReconcileGiveUp
  <2>3. new \in Row /\ new.state = row.state /\ new.pay = row.pay /\ new.order = HasOrder(row, sess[s].obs)
    BY <1>b, HasOrderType DEF Row
  <2>4. Sound(new) /\ Behind(row, new)
    BY <2>3, <1>b DEF Sound, Behind, HasOrder, NeedsReceipt
  <2>5. txn' = Merged(txn, row, new) \/ txn' = txn
    BY <1>13 DEF ReconcileGiveUp
  <2>6. Prepared(rec)
    BY <2>1, <2>2 DEF Prepared
  <2> HIDE DEF new
  <2> QED BY <2>1, <2>2, <2>3, <2>4, <2>5, <2>6, CommitKeeps, CopyKeeps
<1>14. ASSUME NEW s \in Sessions, WorkerReload(s) PROVE RowInv'
  BY <1>14, <1>i, CopyKeeps DEF WorkerReload, Session, Prepared
<1>15. ASSUME NEW s \in Sessions, WorkerCount(s) PROVE RowInv'
  <2> DEFINE row == sess[s].row
             n   == OneMore(row.attempts)
             new == [row EXCEPT !.attempts = n, !.order = HasOrder(row, sess[s].obs),
                       !.state = IF n >= DeadLetterAfter THEN Try(@, "PROVIDER_UNKNOWN") ELSE @]
  <2>1. n \in 0 .. DeadLetterAfter
    BY <1>b, OneMoreType DEF Row
  <2>2. /\ new.state \in {row.state, "PROVIDER_UNKNOWN"} /\ new.pay = row.pay
        /\ new.order = HasOrder(row, sess[s].obs)
    BY <1>b DEF Row, Try
  <2>a. new.state \in TxnStates
    BY ONLY <2>2, <1>b DEF Row, TxnStates
  <2>b. row \in Row /\ HasOrder(row, sess[s].obs) \in BOOLEAN
    BY <1>b, HasOrderType
  <2>3. new \in Row
    BY ONLY <2>1, <2>a, <2>b DEF Row
  <2>4. Sound(new) /\ Behind(row, new)
    BY <2>2, <1>b DEF Sound, Behind, HasOrder, NeedsReceipt
  <2>5. txn' = Merged(txn, row, new) /\ sess' = [sess EXCEPT ![s] = Idle]
    BY <1>15 DEF WorkerCount
  <2> HIDE DEF new
  <2> QED BY <2>2, <2>3, <2>4, <2>5, CommitKeeps
<1>16. ASSUME NEW s \in Sessions, RefundRead(s) PROVE RowInv'
  BY <1>16, <1>i, CopyKeeps DEF RefundRead, Session, Prepared
<1>17. ASSUME NEW s \in Sessions, NEW answered \in BOOLEAN, RefundCall(s, answered) PROVE RowInv'
  <2>1. sess[s].row.pay # NoPay
    BY <1>17 DEF RefundCall, RowInv, Prepared
  <2> QED BY <2>1, <1>17, <1>b, <1>i, CopyKeeps DEF RefundCall, Session, Prepared
<1>18. ASSUME NEW s \in Sessions, RefundRecord(s) PROVE RowInv'
  <2> DEFINE new == [sess[s].row EXCEPT !.state = "REFUNDED"]
  <2>0. sess[s].row.pay # NoPay
    BY <1>18 DEF RefundRecord, RowInv, Prepared
  <2>1. new \in Row /\ Sound(new) /\ Behind(sess[s].row, new)
    BY <2>0, <1>b DEF Row, TxnStates, Sound, Behind
  <2>2. txn' = Merged(txn, sess[s].row, new) /\ sess' = [sess EXCEPT ![s] = Idle]
    BY <1>18 DEF RefundRecord
  <2> HIDE DEF new
  <2> QED BY <2>1, <2>2, CommitKeeps
<1>19. ASSUME NEW s \in Sessions, Crash(s) PROVE RowInv'
  BY <1>19, CopyKeeps DEF Crash, Prepared
<1>20. ASSUME UNCHANGED <<txn, sess>> PROVE RowInv'
  BY <1>20 DEF RowInv, Prepared
<1> QED
  BY <1>1, <1>2, <1>3, <1>4, <1>5, <1>6, <1>7, <1>8, <1>9, <1>10, <1>11, <1>12, <1>13, <1>14,
     <1>15, <1>16, <1>17, <1>18, <1>19, <1>20
     DEF Next, SessionStep, ConsumeStep, WebhookStep, ReconcileStep, RefundStep, ProviderStep, vars,
         Revoke, PayerAttempt, ProviderAuthorizes, ProviderAnnouncesCapture, ProviderCaptures,
         ProviderFails, ProviderCloses

LEMMA RowInit == Init => RowInv
  BY FreshSound DEF Init, RowInv, Prepared

LEMMA RowAlways == Spec => []RowInv
  BY RowInit, RowStep, TypeCorrect, PTL DEF Spec

\* The payment id in the row is always one of the authorized value, and a settled
\* row names both its payment and its order, whoever wrote the columns last.
THEOREM RowStaysSound == Spec => []RowSound
<1>1. RowInv => RowSound
  BY DEF RowSound, RowInv, Sound, RecordedPaymentMatches, SettledNamesPayment
<1> QED
  BY <1>1, RowAlways, PTL

\* The branches of reconcile_one for a cancelled or expired order never take
\* effect: two of the states that the documentation lists are unreachable.
THEOREM ClosedNeverRecorded == Spec => []NeverClosed
<1>1. RowInv => NeverClosed
  BY DEF NeverClosed, RowInv, Sound
<1> QED
  BY <1>1, RowAlways, PTL
-----------------------------------------------------------------------------
(* The order rail implements the life of a payment.                        *)

\* Payments need the order, the order needs the call, a refund needs a capture.
AskedInv ==
  /\ calls = 0 => order = "none" /\ \A p \in Pays : pays[p] = "none"
  /\ order = "none" => \A p \in Pays : pays[p] = "none"
  /\ refunds > 0 => Captured

\* Of a session's steps, only three touch the use, the call or the provider's books.
LEMMA QuietSteps ==
  ASSUME NEW s \in Sessions, SessionStep(s)
  PROVE  \/ UNCHANGED <<usage, revoked, calls, order, pays, refunds>>
         \/ ConsumeReserve(s)
         \/ \E answer \in Answers \ {"none"} : SubmitOrder(s, answer)
         \/ \E answered \in BOOLEAN : RefundCall(s, answered)
<1> USE DEF provider
<1>1. CASE ConsumeStep(s)
  BY <1>1 DEF ConsumeStep, ConsumeLoad, ConsumeRecord
<1>2. CASE WebhookStep(s)
  <2>1. CASE \E e \in EventIds : WebhookRead(s, e)
    BY <2>1 DEF WebhookRead
  <2>2. CASE WebhookApply(s)
    BY <2>2 DEF WebhookApply
  <2>3. CASE ConfirmLoad(s) \/ ConfirmRead(s) \/ ConfirmCommit(s)
    BY <2>3 DEF ConfirmLoad, ConfirmRead, ConfirmCommit
  <2> QED BY <1>2, <2>1, <2>2, <2>3 DEF WebhookStep
<1>3. CASE ReconcileStep(s)
  <2>1. CASE ReconcileRead(s) \/ \E o \in OrderStates, p \in Pays \cup {NoPay} : ReconcileObserve(s, o, p)
    BY <2>1 DEF ReconcileRead, ReconcileObserve
  <2>2. CASE ReconcileSettle(s)
    BY <2>2 DEF ReconcileSettle
  <2>3. CASE ReconcileGiveUp(s)
    BY <2>3 DEF ReconcileGiveUp
  <2>4. CASE WorkerReload(s) \/ WorkerCount(s)
    BY <2>4 DEF WorkerReload, WorkerCount
  <2> QED BY <1>3, <2>1, <2>2, <2>3, <2>4 DEF ReconcileStep
<1>4. CASE RefundStep(s)
  BY <1>4 DEF RefundStep, RefundRead, RefundRecord
<1>5. CASE Crash(s)
  BY <1>5 DEF Crash
<1> QED BY <1>1, <1>2, <1>3, <1>4, <1>5 DEF SessionStep

LEMMA AskedStep == ASSUME TypeOK, CaptureInv, AskedInv, [Next]_vars PROVE AskedInv'
<1> USE DEF provider
<1>t. pays \in [Pays -> PayStates] /\ calls \in Nat /\ refunds \in Nat /\ Matching \subseteq Pays
  BY SettlementAssumption DEF TypeOK
<1>1. CASE UNCHANGED <<calls, order, pays, refunds>>
  BY <1>1 DEF AskedInv, Captured
<1>2. ASSUME NEW s \in Sessions, NEW answer, SubmitOrder(s, answer) PROVE AskedInv'
  BY <1>2, <1>t DEF SubmitOrder, AskedInv, Captured
<1>3. ASSUME NEW s \in Sessions, NEW answered, RefundCall(s, answered) PROVE AskedInv'
  <2>1. Captured
    BY <1>3 DEF RefundCall, At, CaptureInv, SettledStates
  <2> QED BY <2>1, <1>3 DEF RefundCall, AskedInv, Captured
<1>4. ASSUME NEW p \in Pays,
             \/ PayerAttempt(p) \/ ProviderAuthorizes(p) \/ ProviderCaptures(p)
             \/ \E how \in {"failed", "declined"} : ProviderFails(p, how)
      PROVE  AskedInv'
  <2>1. /\ pays[p] # "captured" /\ order # "none" /\ calls # 0
        /\ UNCHANGED <<calls, order, refunds>>
        /\ \A q \in Pays : q # p => pays'[q] = pays[q]
    BY <1>4, <1>t DEF PayerAttempt, ProviderAuthorizes, ProviderCaptures, ProviderFails, AskedInv
  <2>2. Captured => Captured'
    BY <2>1, <1>t DEF Captured
  <2> QED BY <2>1, <2>2 DEF AskedInv
<1>5. ASSUME NEW how \in Closings, ProviderCloses(how) PROVE AskedInv'
  <2>1. how # "none"
    BY SettlementAssumption
  <2> QED BY <2>1, <1>5 DEF ProviderCloses, AskedInv, Captured
<1>6. \/ UNCHANGED <<calls, order, pays, refunds>>
      \/ \E s \in Sessions : \/ \E answer \in Answers \ {"none"} : SubmitOrder(s, answer)
                             \/ \E answered \in BOOLEAN : RefundCall(s, answered)
      \/ \E p \in Pays : \/ PayerAttempt(p) \/ ProviderAuthorizes(p) \/ ProviderCaptures(p)
                         \/ \E how \in {"failed", "declined"} : ProviderFails(p, how)
      \/ \E how \in Closings : ProviderCloses(how)
  <2>1. CASE \E s \in Sessions : SessionStep(s)
    <3>1. \A s \in Sessions : ConsumeReserve(s) => UNCHANGED <<calls, order, pays, refunds>>
      BY DEF ConsumeReserve
    <3> QED BY <2>1, <3>1, QuietSteps
  <2>2. CASE Revoke \/ UNCHANGED vars
    BY <2>2 DEF Revoke, vars
  <2>3. CASE ProviderStep
    <3>1. CASE \E p \in Pays : ProviderAnnouncesCapture(p)
      BY <3>1 DEF ProviderAnnouncesCapture
    <3> QED BY <2>3, <3>1 DEF ProviderStep
  <2> QED BY <2>1, <2>2, <2>3 DEF Next
<1> QED BY <1>1, <1>2, <1>3, <1>4, <1>5, <1>6

\* A step that leaves the use, the call and the money alone can change the report
\* at most, and what it then says is backed.
LEMMA OnlyReports ==
  ASSUME CaptureInv', AskedInv', UNCHANGED <<Grant, calls, Money>>
  PROVE  L!Report
<1>1. Told' = "paid" => Captured'
  BY DEF Told, CaptureInv, SettledStates
<1>2. Told' = "refunded" => Captured' /\ refunds' > 0
  BY DEF Told, CaptureInv, SettledStates
<1>3. Captured' => Money' \in {"taken", "returned"}
  BY DEF Captured, Money
<1>4. Captured' /\ refunds' > 0 => Money' = "returned"
  BY DEF Captured, Money
<1>5. Told' \in L!Reports
  BY DEF Told, L!Reports
<1> QED BY <1>1, <1>2, <1>3, <1>4, <1>5 DEF L!Report

LEMMA LifecycleStep ==
  ASSUME TypeOK, SpendInv, CaptureInv, AskedInv, CaptureInv', AskedInv', [Next]_vars
  PROVE  [L!Next]_(L!lifecycleVars)
<1> USE DEF provider
<1>t. /\ pays \in [Pays -> PayStates] /\ calls \in Nat /\ refunds \in Nat
      /\ Matching \subseteq Pays /\ usage \in 0 .. 1 /\ txn \in Row
  BY SettlementAssumption DEF TypeOK, MaxUsage
<1>1. ASSUME NEW s \in Sessions, ConsumeReserve(s) PROVE L!Spend
  <2>1. usage = 0 /\ usage' = 1 /\ ~revoked /\ ~revoked'
    BY <1>1, <1>t DEF ConsumeReserve, Unused, MaxUsage, SpendInv
  <2>2. calls' = calls /\ pays' = pays /\ refunds' = refunds /\ txn'.state = txn.state
    BY <1>1, <1>t DEF ConsumeReserve, Row
  <2>3. Grant = "open" /\ Grant' = "spent" /\ Money' = Money /\ Told' = Told
    BY <2>1, <2>2 DEF Grant, Money, Told
  <2> QED BY <2>2, <2>3 DEF L!Spend
<1>2. ASSUME Revoke PROVE L!Revoke
  <2>1. Grant = "open" /\ Grant' = "revoked"
    BY <1>2, <1>t DEF Revoke, Unused, MaxUsage, SpendInv, Grant
  <2>2. calls' = calls /\ Money' = Money /\ Told' = Told
    BY <1>2 DEF Revoke, Money, Told
  <2> QED BY <2>1, <2>2 DEF L!Revoke
<1>3. ASSUME NEW s \in Sessions, NEW answer, SubmitOrder(s, answer) PROVE L!Request
  <2>1. calls = 0 /\ usage # 0 /\ ~revoked
    BY <1>3 DEF SubmitOrder, At, SpendInv, Untouched
  <2>2. calls' = 1 /\ Grant = "spent" /\ Grant' = Grant /\ Money' = Money /\ Told' = Told
    BY <1>3, <2>1 DEF SubmitOrder, Grant, Money, Told
  <2> QED BY <2>1, <2>2 DEF L!Request
<1>4. ASSUME NEW s \in Sessions, NEW answered, RefundCall(s, answered)
      PROVE  L!GiveBack \/ UNCHANGED L!lifecycleVars
  <2>1. Captured /\ pays' = pays /\ refunds' > 0
    BY <1>4, <1>t DEF RefundCall, At, CaptureInv, SettledStates
  <2>2. Money \in {"taken", "returned"} /\ Money' = "returned"
    BY <2>1 DEF Captured, Money
  <2>3. calls' = calls /\ Grant' = Grant /\ Told' = Told
    BY <1>4 DEF RefundCall, Grant, Told
  <2> QED BY <2>2, <2>3 DEF L!GiveBack, L!lifecycleVars
<1>5. ASSUME NEW p \in Pays,
             \/ PayerAttempt(p) \/ ProviderAuthorizes(p) \/ ProviderCaptures(p)
             \/ \E how \in {"failed", "declined"} : ProviderFails(p, how)
      PROVE  L!Take \/ UNCHANGED L!lifecycleVars
  <2>1. /\ calls' = calls /\ refunds' = refunds /\ Grant' = Grant /\ Told' = Told
        /\ calls = 1
    BY <1>5, <1>t DEF PayerAttempt, ProviderAuthorizes, ProviderCaptures, ProviderFails, AskedInv,
                      SpendInv, Grant, Told
  <2>2. Captured => Captured'
    BY <1>5, <1>t DEF PayerAttempt, ProviderAuthorizes, ProviderCaptures, ProviderFails, Captured
  <2>3. CASE Captured \/ ~Captured'
    BY <2>1, <2>2, <2>3 DEF Captured, Money, L!lifecycleVars
  <2>4. CASE ~Captured /\ Captured'
    <3>1. Money = "kept" /\ Money' = "taken"
      BY <2>1, <2>4, <1>t DEF Captured, Money, AskedInv
    <3> QED BY <2>1, <3>1 DEF L!Take
  <2> QED BY <2>3, <2>4
<1>6. CASE UNCHANGED <<usage, revoked, calls, pays, refunds>>
  <2>1. UNCHANGED <<Grant, calls, Money>>
    BY <1>6 DEF Grant, Money
  <2> QED BY <2>1, OnlyReports DEF L!Next
<1>7. \/ UNCHANGED <<usage, revoked, calls, pays, refunds>>
      \/ Revoke
      \/ \E s \in Sessions : \/ ConsumeReserve(s)
                             \/ \E answer \in Answers \ {"none"} : SubmitOrder(s, answer)
                             \/ \E answered \in BOOLEAN : RefundCall(s, answered)
      \/ \E p \in Pays : \/ PayerAttempt(p) \/ ProviderAuthorizes(p) \/ ProviderCaptures(p)
                         \/ \E how \in {"failed", "declined"} : ProviderFails(p, how)
  <2>1. CASE \E s \in Sessions : SessionStep(s)
    BY <2>1, QuietSteps
  <2>2. CASE UNCHANGED vars
    BY <2>2 DEF vars
  <2>3. CASE ProviderStep
    <3>1. CASE \E p \in Pays : ProviderAnnouncesCapture(p)
      BY <3>1 DEF ProviderAnnouncesCapture
    <3>2. CASE \E how \in Closings : ProviderCloses(how)
      BY <3>2 DEF ProviderCloses
    <3> QED BY <2>3, <3>1, <3>2 DEF ProviderStep
  <2> QED BY <2>1, <2>2, <2>3 DEF Next
<1> QED BY <1>1, <1>2, <1>3, <1>4, <1>5, <1>6, <1>7 DEF L!Next

\* Refinement: whatever sessions overlap, die or write back, the order rail spends
\* or revokes a use once, asks once, and reports only what the provider did
\* (payments.py:780-1150, reconcile.py, reconcile_worker.py).
THEOREM OrderRailImplementsLifecycle == Spec => ImplementsLifecycle
<1> DEFINE I == TypeOK /\ SpendInv /\ CaptureInv /\ AskedInv
<1>1. Init => I /\ L!Init
  <2> SUFFICES ASSUME Init PROVE I /\ L!Init
    OBVIOUS
  <2>1. AskedInv
    BY DEF Init, AskedInv
  <2>2. ~Captured
    BY SettlementAssumption DEF Init, Captured
  <2>3. L!Init
    BY <2>2 DEF Init, L!Init, Grant, Money, Told, Captured, FreshRow
  <2> QED BY <2>1, <2>3, SpendInit, CaptureInit, TypeInit
<1>2. I /\ [Next]_vars => I' /\ [L!Next]_(L!lifecycleVars)
  <2> SUFFICES ASSUME I, [Next]_vars PROVE I' /\ [L!Next]_(L!lifecycleVars)
    OBVIOUS
  <2>1. I'
    BY TypeStep, SpendStep, CaptureStep, AskedStep
  <2> QED BY <2>1, LifecycleStep
<1> QED BY <1>1, <1>2, PTL DEF Spec, ImplementsLifecycle, L!Spec

-----------------------------------------------------------------------------
(* When sessions do not overlap, every change of the row's state is one the *)
(* transition table allows.                                                 *)

\* The steps at which a session holds a copy of the row.
HoldingPcs == {"recording", "applying", "confirming", "confirmed", "reading",
               "observed", "counting", "refunding", "refunded"}

\* A session that holds a copy holds the row as it is, so what it checked is
\* still true when it commits.
SerialInv ==
  /\ Serial
  /\ \A s \in Sessions :
       /\ sess[s].pc \in HoldingPcs => sess[s].row = txn
       /\ sess[s].pc = "applying" => Legal(txn.state, WebhookTarget[sess[s].evt.type])
       /\ sess[s].pc \in {"refunding", "refunded"} => txn.state = "PAID"

Lawful == txn'.state # txn.state => Legal(txn.state, txn'.state)

\* The session that moves is the only one open.
LEMMA OnlyOneOpen ==
  ASSUME TypeOK, SerialInv, Serial', NEW s \in Sessions, NEW rec,
         sess' = [sess EXCEPT ![s] = rec],
         sess[s].pc # "idle" \/ rec.pc # "idle",
         rec.pc \in HoldingPcs => rec.row = txn',
         rec.pc = "applying" => Legal(txn'.state, WebhookTarget[rec.evt.type]),
         rec.pc \in {"refunding", "refunded"} => txn'.state = "PAID"
  PROVE  SerialInv'
<1>1. sess \in [Sessions -> Session]
  BY DEF TypeOK
<1>2. \A t \in Sessions \ {s} : sess'[t].pc = "idle"
  BY <1>1 DEF SerialInv, Serial, At
<1>3. sess'[s] = rec
  BY <1>1
<1> QED
  BY <1>2, <1>3 DEF SerialInv, HoldingPcs

\* A commit of a copy that is the row itself writes the new state.
LEMMA CommitWrites ==
  ASSUME TypeOK, SerialInv, NEW s \in Sessions, sess[s].pc \in HoldingPcs,
         NEW new, txn' = Merged(txn, sess[s].row, new)
  PROVE  txn'.state = new.state /\ sess[s].row = txn /\ txn \in Row
<1>1. sess[s].row = txn /\ txn \in Row
  BY DEF SerialInv, TypeOK
<1> QED
  BY <1>1 DEF Merged, Row

LEMMA SerialStep ==
  TypeOK /\ SerialInv /\ [Next /\ Serial']_vars => SerialInv' /\ Lawful
<1> SUFFICES ASSUME TypeOK, SerialInv, [Next /\ Serial']_vars PROVE SerialInv' /\ Lawful
  OBVIOUS
<1> USE DEF At, Become, Finish, Commit, provider
<1>t. /\ txn \in Row /\ sess \in [Sessions -> Session]
  BY DEF TypeOK
<1>b. ASSUME NEW s \in Sessions
      PROVE  /\ sess[s] \in Session /\ sess[s].row \in Row /\ sess[s].obs \in Observation
             /\ sess[s].ans \in Answers
  BY <1>t DEF Session
<1>i. Idle \in Session /\ Idle.pc = "idle"
  BY IdleType DEF Idle
<1>0. ASSUME UNCHANGED <<txn, sess>> PROVE SerialInv' /\ Lawful
  BY <1>0 DEF SerialInv, Serial, Lawful
<1>s. ASSUME ~UNCHANGED <<txn, sess>> PROVE Serial'
  BY <1>s DEF vars
<1>1. ASSUME NEW s \in Sessions, ConsumeReserve(s), Serial' PROVE SerialInv' /\ Lawful
  <2>1. txn'.state = txn.state
    BY <1>1, <1>t DEF ConsumeReserve, Row
  <2>2. [Idle EXCEPT !.pc = "reserved"].pc = "reserved"
    BY <1>i DEF Session
  <2> QED BY <2>1, <2>2, <1>1, OnlyOneOpen DEF ConsumeReserve, HoldingPcs, Lawful
<1>2. ASSUME NEW s \in Sessions, NEW answer \in Answers \ {"none"}, SubmitOrder(s, answer), Serial'
      PROVE SerialInv' /\ Lawful
  <2>1. [sess[s] EXCEPT !.pc = "answered", !.ans = answer].pc = "answered"
    BY <1>b DEF Session
  <2> QED BY <2>1, <1>2, OnlyOneOpen DEF SubmitOrder, HoldingPcs, Lawful
<1>3. ASSUME NEW s \in Sessions, ConsumeLoad(s), Serial' PROVE SerialInv' /\ Lawful
  <2> DEFINE rec == [sess[s] EXCEPT !.pc = "recording", !.row = txn]
  <2>1. rec.pc = "recording" /\ rec.row = txn
    BY <1>b DEF Session
  <2> QED BY <2>1, <1>3, OnlyOneOpen DEF ConsumeLoad, HoldingPcs, Lawful
<1>4. ASSUME NEW s \in Sessions, ConsumeRecord(s), Serial' PROVE SerialInv' /\ Lawful
  <2> DEFINE new == ConsumeOutcome(sess[s].row, sess[s].ans)
  <2>1. new.state = sess[s].row.state \/ Legal(sess[s].row.state, new.state)
    BY <1>b DEF ConsumeOutcome, Try, Row
  <2>2. txn'.state = new.state /\ sess[s].row = txn
    BY <1>4, CommitWrites DEF ConsumeRecord, HoldingPcs
  <2> QED BY <2>1, <2>2, <1>4, <1>i, OnlyOneOpen DEF ConsumeRecord, HoldingPcs, Lawful
<1>5. ASSUME NEW s \in Sessions, NEW e \in EventIds, WebhookRead(s, e), Serial' PROVE SerialInv' /\ Lawful
  <2> DEFINE rec == [Idle EXCEPT !.pc = "applying", !.row = txn, !.evt = e]
  <2>1. rec.pc = "applying" /\ rec.row = txn /\ rec.evt = e
    BY <1>i DEF Session
  <2> QED BY <2>1, <1>5, OnlyOneOpen DEF WebhookRead, Lawful
<1>6. ASSUME NEW s \in Sessions, WebhookApply(s), Serial' PROVE SerialInv' /\ Lawful
  <2> DEFINE e == sess[s].evt
             new == [sess[s].row EXCEPT !.state = WebhookTarget[e.type], !.evt = e,
                       !.pay = IF e.type = "payment.captured" THEN e.pay ELSE @]
  <2>1. new.state = WebhookTarget[e.type]
    BY <1>b DEF Row
  <2>2. txn' = Merged(txn, sess[s].row, new)
    BY <1>6 DEF WebhookApply
  <2>3. txn'.state = new.state /\ sess[s].row = txn
    BY <2>2, <1>6, CommitWrites DEF WebhookApply, HoldingPcs
  <2>4. Legal(txn.state, new.state)
    BY <2>1, <1>6 DEF WebhookApply, SerialInv
  <2>5. \A rec \in {Idle, [Idle EXCEPT !.pc = "confirm"]} : rec.pc \in {"idle", "confirm"}
    BY <1>i DEF Session
  <2>6. PICK rec \in {Idle, [Idle EXCEPT !.pc = "confirm"]} : sess' = [sess EXCEPT ![s] = rec]
    BY <1>6 DEF WebhookApply
  <2>7. sess[s].pc = "applying"
    BY <1>6 DEF WebhookApply
  <2>8. SerialInv'
    BY <2>5, <2>6, <2>7, <1>6, OnlyOneOpen DEF HoldingPcs
  <2> QED BY <2>3, <2>4, <2>8 DEF Lawful
<1>7. ASSUME NEW s \in Sessions, ConfirmLoad(s), Serial' PROVE SerialInv' /\ Lawful
  <2> DEFINE rec == [sess[s] EXCEPT !.pc = "confirming", !.row = txn]
  <2>1. rec.pc = "confirming" /\ rec.row = txn
    BY <1>b DEF Session
  <2> QED BY <2>1, <1>7, OnlyOneOpen DEF ConfirmLoad, HoldingPcs, Lawful
<1>8. ASSUME NEW s \in Sessions, ConfirmRead(s), Serial' PROVE SerialInv' /\ Lawful
  <2> DEFINE rec == [sess[s] EXCEPT !.pc = "confirmed",
                       !.obs = Observed("none", Queried(sess[s].row, sess[s].row.order))]
  <2>1. rec.pc = "confirmed" /\ rec.row = txn
    BY <1>8, <1>b DEF Session, ConfirmRead, SerialInv, HoldingPcs
  <2> QED BY <2>1, <1>8, OnlyOneOpen DEF ConfirmRead, HoldingPcs, Lawful
<1>9. ASSUME NEW s \in Sessions, ConfirmCommit(s), Serial' PROVE SerialInv' /\ Lawful
  <2> DEFINE new == ConfirmOutcome(sess[s].row, sess[s].obs)
  <2>1. new.state = sess[s].row.state \/ Legal(sess[s].row.state, new.state)
    BY <1>b DEF ConfirmOutcome, Try, Row
  <2>2. txn'.state = new.state /\ sess[s].row = txn
    BY <1>9, CommitWrites DEF ConfirmCommit, HoldingPcs
  <2> QED BY <2>1, <2>2, <1>9, <1>i, OnlyOneOpen DEF ConfirmCommit, HoldingPcs, Lawful
<1>10. ASSUME NEW s \in Sessions, ReconcileRead(s), Serial' PROVE SerialInv' /\ Lawful
  <2> DEFINE rec == [Idle EXCEPT !.pc = "reading", !.row = txn]
  <2>1. rec.pc = "reading" /\ rec.row = txn
    BY <1>i DEF Session
  <2> QED BY <2>1, <1>10, OnlyOneOpen DEF ReconcileRead, Lawful
<1>11. ASSUME NEW s \in Sessions, NEW o \in OrderStates, NEW p \in Pays \cup {NoPay},
              ReconcileObserve(s, o, p), Serial'
       PROVE SerialInv' /\ Lawful
  <2> DEFINE rec == [sess[s] EXCEPT !.pc = "observed", !.obs = Observed(o, p)]
  <2>1. rec.pc = "observed" /\ rec.row = txn
    BY <1>11, <1>b DEF Session, ReconcileObserve, SerialInv, HoldingPcs
  <2> QED BY <2>1, <1>11, OnlyOneOpen DEF ReconcileObserve, HoldingPcs, Lawful
<1>12. ASSUME NEW s \in Sessions, ReconcileSettle(s), Serial' PROVE SerialInv' /\ Lawful
  <2> DEFINE row == sess[s].row
             obs == sess[s].obs
             to  == ReconcileTarget(row, obs)
             new == [row EXCEPT !.state = to, !.order = HasOrder(row, obs),
                                !.pay = IF to = "PAID" THEN obs.pay ELSE @]
  <2>1. new.state = to /\ (to = row.state \/ Legal(row.state, to))
    BY <1>12, <1>b DEF ReconcileSettle, Reconciles, Row
  <2>2. txn' = Merged(txn, row, new)
    BY <1>12 DEF ReconcileSettle
  <2>3. txn'.state = new.state /\ row = txn
    BY <2>2, <1>12, CommitWrites DEF ReconcileSettle, HoldingPcs
  <2>4. SerialInv'
    BY <1>12, <1>i, OnlyOneOpen DEF ReconcileSettle, HoldingPcs
  <2> QED BY <2>1, <2>3, <2>4 DEF Lawful
<1>13. ASSUME NEW s \in Sessions, ReconcileGiveUp(s), Serial' PROVE SerialInv' /\ Lawful
  <2> DEFINE row == sess[s].row
             new == [row EXCEPT !.order = HasOrder(row, sess[s].obs)]
  <2>1. new.state = row.state
    BY <1>b DEF Row
  <2>2. txn' = Merged(txn, row, new) \/ txn' = txn
    BY <1>13 DEF ReconcileGiveUp
  <2>3. txn'.state = txn.state
    BY <2>1, <2>2, <1>13, CommitWrites DEF ReconcileGiveUp, HoldingPcs
  <2>4. \A rec \in {Idle, [Idle EXCEPT !.pc = "recount"]} : rec.pc \in {"idle", "recount"}
    BY <1>i DEF Session
  <2>5. PICK rec \in {Idle, [Idle EXCEPT !.pc = "recount"]} : sess' = [sess EXCEPT ![s] = rec]
    BY <1>13 DEF ReconcileGiveUp
  <2>6. sess[s].pc = "observed"
    BY <1>13 DEF ReconcileGiveUp
  <2>7. SerialInv'
    BY <2>4, <2>5, <2>6, <1>13, OnlyOneOpen DEF HoldingPcs
  <2> QED BY <2>3, <2>7 DEF Lawful
<1>14. ASSUME NEW s \in Sessions, WorkerReload(s), Serial' PROVE SerialInv' /\ Lawful
  <2> DEFINE rec == [Idle EXCEPT !.pc = "counting", !.row = txn]
  <2>1. rec.pc = "counting" /\ rec.row = txn
    BY <1>i DEF Session
  <2> QED BY <2>1, <1>14, OnlyOneOpen DEF WorkerReload, HoldingPcs, Lawful
<1>15. ASSUME NEW s \in Sessions, WorkerCount(s), Serial' PROVE SerialInv' /\ Lawful
  <2> DEFINE row == sess[s].row
             n   == OneMore(row.attempts)
             new == [row EXCEPT !.attempts = n, !.order = HasOrder(row, sess[s].obs),
                       !.state = IF n >= DeadLetterAfter THEN Try(@, "PROVIDER_UNKNOWN") ELSE @]
  <2>1. new.state = row.state \/ Legal(row.state, new.state)
    BY <1>b DEF Row, Try
  <2>2. txn' = Merged(txn, row, new) /\ sess[s].pc \in {"counting", "observed"}
    BY <1>15 DEF WorkerCount
  <2>3. txn'.state = new.state /\ row = txn
    BY <2>2, CommitWrites DEF HoldingPcs
  <2>4. SerialInv'
    BY <2>2, <1>15, <1>i, OnlyOneOpen DEF WorkerCount, HoldingPcs
  <2> QED BY <2>1, <2>3, <2>4 DEF Lawful
<1>16. ASSUME NEW s \in Sessions, RefundRead(s), Serial' PROVE SerialInv' /\ Lawful
  <2> DEFINE rec == [Idle EXCEPT !.pc = "refunding", !.row = txn]
  <2>1. rec.pc = "refunding" /\ rec.row = txn
    BY <1>i DEF Session
  <2> QED BY <2>1, <1>16, OnlyOneOpen DEF RefundRead, Lawful
<1>17. ASSUME NEW s \in Sessions, NEW answered \in BOOLEAN, RefundCall(s, answered), Serial'
       PROVE SerialInv' /\ Lawful
  <2> DEFINE rec == IF answered THEN [sess[s] EXCEPT !.pc = "refunded"] ELSE Idle
  <2>1. rec.pc = "idle" \/ (rec.pc = "refunded" /\ rec.row = txn /\ txn.state = "PAID")
    BY <1>17, <1>b, <1>i DEF Session, RefundCall, SerialInv, HoldingPcs
  <2>2. sess' = [sess EXCEPT ![s] = rec] /\ sess[s].pc = "refunding" /\ txn' = txn
    BY <1>17 DEF RefundCall
  <2> HIDE DEF rec
  <2> QED BY <2>1, <2>2, <1>17, OnlyOneOpen DEF HoldingPcs, Lawful
<1>18. ASSUME NEW s \in Sessions, RefundRecord(s), Serial' PROVE SerialInv' /\ Lawful
  <2> DEFINE new == [sess[s].row EXCEPT !.state = "REFUNDED"]
  <2>1. new.state = "REFUNDED" /\ txn.state = "PAID" /\ sess[s].pc = "refunded"
    BY <1>18, <1>b DEF Row, RefundRecord, SerialInv
  <2>2. Legal("PAID", "REFUNDED")
    BY DEF Legal, TransitionTable, TxnStates
  <2>3. txn' = Merged(txn, sess[s].row, new)
    BY <1>18 DEF RefundRecord
  <2>4. txn'.state = new.state
    BY <2>1, <2>3, CommitWrites DEF HoldingPcs
  <2>5. SerialInv'
    BY <2>1, <1>18, <1>i, OnlyOneOpen DEF RefundRecord, HoldingPcs
  <2> QED BY <2>1, <2>2, <2>4, <2>5 DEF Lawful
<1>19. ASSUME NEW s \in Sessions, Crash(s), Serial' PROVE SerialInv' /\ Lawful
  BY <1>19, <1>i, OnlyOneOpen DEF Crash, HoldingPcs, Lawful
<1>20. ASSUME Next PROVE UNCHANGED <<txn, sess>> \/ \E s \in Sessions : SessionStep(s)
  BY <1>20 DEF Next, Revoke, ProviderStep, PayerAttempt, ProviderAuthorizes, ProviderAnnouncesCapture,
               ProviderCaptures, ProviderFails, ProviderCloses
<1>21. CASE UNCHANGED <<txn, sess>>
  BY <1>21, <1>0
<1>22. CASE ~UNCHANGED <<txn, sess>>
  <2>1. Serial' /\ Next
    BY <1>22, <1>s DEF vars
  <2> QED
    BY <2>1, <1>20, <1>22, <1>1, <1>2, <1>3, <1>4, <1>5, <1>6, <1>7, <1>8, <1>9, <1>10, <1>11, <1>12,
       <1>13, <1>14, <1>15, <1>16, <1>17, <1>18, <1>19
       DEF SessionStep, ConsumeStep, WebhookStep, ReconcileStep, RefundStep
<1> QED
  BY <1>21, <1>22

LEMMA SerialInit == Init => SerialInv
  BY DEF Init, SerialInv, Serial, At, HoldingPcs, Idle

\* Whoever moves the row, and whatever crashes or is redelivered in between, no
\* state change is illegal while sessions do not overlap.  PaidIsFinal fails
\* without that condition.
THEOREM SerialTransitionsLegal == SerialSpec => LegalTransitions
<1>1. SerialSpec => Spec
  <2>1. [Next /\ Serial']_vars => [Next]_vars
    OBVIOUS
  <2> QED BY <2>1, PTL DEF SerialSpec, Spec
<1>2. Lawful => [txn'.state # txn.state => Legal(txn.state, txn'.state)]_vars
  BY DEF Lawful
<1> QED
  BY <1>1, <1>2, SerialInit, SerialStep, TypeCorrect, PTL DEF SerialSpec, LegalTransitions

=============================================================================
