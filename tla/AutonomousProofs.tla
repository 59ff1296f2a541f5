------------------------- MODULE AutonomousProofs -------------------------
(***************************************************************************)
(* The safety properties of AutonomousSettlement hold in every instance:   *)
(* for any number of sessions and workers, any set of deployments and of   *)
(* provider references, and whatever grounds may be withdrawn or restored. *)
(***************************************************************************)
EXTENDS AutonomousSettlement, TLAPS

USE AutonomousAssumption DEF MaxUsage

-----------------------------------------------------------------------------
(* What a deployment that was allowed to start looks like.                 *)

\* The deployment is picked once and never changes.
Started == dep \in DeploymentType /\ Starts(dep)

\* Who starts in production is autonomous and talks to the production base, and
\* nobody who starts has an empty base.
LEMMA StartedWell ==
  ASSUME NEW d \in DeploymentType, Starts(d)
  PROVE  /\ Production(d) => Autonomous(d) /\ ApiBase(d) = "production"
         /\ ApiBase(d) \in {"production", "simulator"}
  BY DEF DeploymentType, Starts, StartupRefusals, ApiBase, Production

\* The two rails exclude each other; the order rail is never simulated in memory
\* and never taken in the autonomous posture.
LEMMA Rails ==
  ASSUME NEW d \in DeploymentType, TakesOrderRail(d)
  PROVE  ~UsesMandate(d) /\ ~Autonomous(d) /\ Adapter(d) # "reference"
  BY DEF TakesOrderRail, UsesMandate, Capable

LEMMA EnvironmentType ==
  ASSUME NEW d \in DeploymentType
  PROVE  Environment(d) \in Environments /\ DebitEnvironment(d) \in Environments
  BY DEF Environment, DebitEnvironment, Environments, DeploymentType

-----------------------------------------------------------------------------
(* Type correctness.                                                       *)

\* What a commit writes is, column by column, in the row or in the new copy.
LEMMA MergedType ==
  ASSUME NEW db \in Row, NEW old \in Row, NEW new \in Row
  PROVE  Merged(db, old, new) \in Row
  BY DEF Merged, Row

LEMMA TryType ==
  ASSUME NEW from \in TxnStates, NEW to \in TxnStates
  PROVE  Try(from, to) \in TxnStates
  BY DEF Try

LEMMA IdleType == Idle \in Session /\ FreshRow \in Row /\ NoDebit \in Debit
  BY DEF Idle, Session, Pcs, Row, FreshRow, NoDebit, Debit, Answers, TxnStates, Environments

LEMMA OneMoreType == \A n \in 0 .. DeadLetterAfter : OneMore(n) \in 0 .. DeadLetterAfter
  BY DEF OneMore

LEMMA SettledStateType ==
  /\ DOMAIN SettledState = CaptureAnswers \cup ReadbackAnswers
  /\ \A ans \in CaptureAnswers \cup ReadbackAnswers :
       /\ SettledState[ans] \in TxnStates \ {"PROVIDER_SUBMITTED"}
       /\ SettledState[ans] = "PAID" <=> ans = "corroborated"
  BY DEF SettledState, TxnStates, CaptureAnswers, ReadbackAnswers

LEMMA OutcomeType ==
  ASSUME NEW row \in Row, NEW ans, dep \in DeploymentType
  PROVE  Outcome(row, ans) \in Row
  BY EnvironmentType DEF Outcome, Row, Try, TxnStates

LEMMA ReconcileTargetType ==
  ASSUME NEW seen \in Debit
  PROVE  /\ ReconcileTarget(seen) \in {"none", "DECLINED", "PAID", "FAILED", "PROVIDER_AUTHORIZED"}
         /\ ReconcileTarget(seen) # "none" => seen.status # "none"
         /\ ReconcileTarget(seen) = "PAID" => seen.status = "captured" /\ seen.right
  BY DEF ReconcileTarget, KnownStatus, Debit

LEMMA TableType == \A from \in TxnStates : "none" \notin TransitionTable[from]
  BY DEF TransitionTable, TxnStates

\* A debit that an adapter's call leaves behind is a debit, and its answers are
\* the ones the request knows what to do with.
LEMMA AuthorizeType ==
  ASSUME debit \in Debit, NEW r,
         NEW result \in IF Simulated THEN ReferenceAuthorize ELSE RazorpayAuthorize(r)
  PROVE  /\ result.debit \in Debit /\ result.ans \in {"accepted", "refused", "timeout"}
         /\ result.ans = "accepted" => result.debit.status # "none"
         /\ debit.status # "none" => result.debit = debit
         /\ debit.status = "none" => result.debit.status \in {"none", "authorized"}
<1>1. \A right \in BOOLEAN :
        /\ Requested(right) \in Debit /\ Requested(right).status # "none"
        /\ debit.status # "none" => Requested(right) = debit
        /\ debit.status = "none" => Requested(right).status = "authorized"
  BY DEF Requested, Debit
<1>2. CASE Simulated
  <2>1. result = Took("accepted", Requested(TRUE))
    BY <1>2 DEF ReferenceAuthorize
  <2>2. result.ans = "accepted" /\ result.debit = Requested(TRUE)
    BY <2>1 DEF Took
  <2> QED BY <1>1, <2>2
<1>3. CASE ~Simulated
  <2>1. \/ \E ans \in {"refused", "timeout"} : result = Took(ans, debit)
        \/ \E ans \in {"accepted", "refused", "timeout"}, right \in BOOLEAN :
             result = Took(ans, Requested(right))
    BY <1>3 DEF RazorpayAuthorize
  <2>2. CASE \E ans \in {"refused", "timeout"} : result = Took(ans, debit)
    BY <2>2 DEF Took
  <2>3. ASSUME NEW ans \in {"accepted", "refused", "timeout"}, NEW right \in BOOLEAN,
               result = Took(ans, Requested(right))
        PROVE  result.ans = ans /\ result.debit = Requested(right)
    BY <2>3 DEF Took
  <2> QED BY <1>1, <2>1, <2>2, <2>3
<1> QED BY <1>2, <1>3

LEMMA CaptureType ==
  ASSUME debit \in Debit,
         NEW result \in IF Simulated THEN ReferenceCapture ELSE RazorpayCapture
  PROVE  /\ result.debit \in Debit /\ result.ans \in CaptureAnswers
         /\ result.debit.right = debit.right
         /\ debit.status # "none" => result.debit.status # "none"
         /\ debit.status = "captured" => result.debit = debit
<1>1. /\ Moved \in Debit /\ Moved.right = debit.right /\ Moved.status = "captured"
      /\ debit.status = "captured" => Moved = debit
  BY DEF Moved, Debit
<1>2. CASE Simulated
  BY <1>1, <1>2 DEF ReferenceCapture, Took, CaptureAnswers
<1>3. CASE ~Simulated
  <2>1. \/ \E ans \in {"raised", "captured", "unclear", "pending"} : result = Took(ans, debit)
        \/ \E ans \in {"raised", "captured", "unclear"} : result = Took(ans, Moved)
        \/ /\ debit.status = "authorized"
           /\ \E how \in {"failed", "declined"} :
                result = Took(how, [debit EXCEPT !.status = how])
    BY <1>3 DEF RazorpayCapture
  <2> QED BY <1>1, <2>1 DEF Took, Debit, CaptureAnswers
<1> QED BY <1>2, <1>3

Locked == {"capturing", "corroborating", "settling"}

\* The types, and what a request about to settle was answered.
TypeInv ==
  /\ TypeOK
  /\ Started
  /\ \A s \in Sessions : At(s, "settling") => sess[s].ans \in CaptureAnswers \cup ReadbackAnswers

LEMMA TypeInit == Init => TypeInv
<1> SUFFICES ASSUME Init PROVE TypeInv
  OBVIOUS
<1>1. dep \in Deployments /\ Started /\ grounds \subseteq Grounds
  BY DEF Init, Started
<1>2. /\ txn \in Row /\ sess \in [Sessions -> Session] /\ debit \in Debit
      /\ \A s \in Sessions : sess[s].pc = "idle"
  BY IdleType DEF Init, Idle
<1>3. /\ usage \in 0 .. MaxUsage /\ asked \in [debits : Nat, orders : Nat]
      /\ bindings \in [Refs -> {"none", "active", "expired"}] /\ instr \in [Refs -> BOOLEAN]
  BY DEF Init
<1>4. revoked = FALSE /\ order = FALSE /\ lock = NoSession
  BY DEF Init
<1> QED BY <1>1, <1>2, <1>3, <1>4 DEF TypeInv, TypeOK, At

\* The sessions and the lock agree after a step of one session that takes, keeps
\* or gives back the lock together with its place.
SessionsTyped ==
  /\ sess \in [Sessions -> Session]
  /\ lock \in Sessions \cup {NoSession}
  /\ \A s \in Sessions :
       /\ lock = s <=> sess[s].pc \in Locked
       /\ sess[s].pc = "settling" => sess[s].ans \in CaptureAnswers \cup ReadbackAnswers

LEMMA OneSession ==
  ASSUME SessionsTyped, NEW s \in Sessions, NEW rec \in Session, Become(s, rec),
         lock' = s <=> rec.pc \in Locked,
         lock' \in Sessions \cup {NoSession},
         \A t \in Sessions : t # s => (lock' = t <=> lock = t),
         rec.pc = "settling" => rec.ans \in CaptureAnswers \cup ReadbackAnswers
  PROVE  SessionsTyped'
  BY DEF SessionsTyped, Become

\* The common case: the session neither has the lock nor takes it.
LEMMA FreeSession ==
  ASSUME SessionsTyped, NEW s \in Sessions, NEW rec \in Session, Become(s, rec),
         sess[s].pc \notin Locked, rec.pc \notin Locked,
         lock' = lock \/ (lock \in {NoSession, s} /\ lock' = NoSession)
  PROVE  SessionsTyped'
<1>1. lock # s
  BY DEF SessionsTyped
<1>2. lock' = lock
  BY <1>1
<1>3. rec.pc # "settling"
  BY DEF Locked
<1> QED BY <1>1, <1>2, <1>3, OneSession DEF SessionsTyped

LEMMA TypeStep == TypeInv /\ [Next]_vars => TypeInv'
<1> SUFFICES ASSUME TypeInv, [Next]_vars PROVE TypeInv'
  OBVIOUS
<1> DEFINE RestTyped ==
      /\ dep \in Deployments /\ Started /\ grounds \subseteq Grounds
      /\ usage \in 0 .. MaxUsage /\ revoked \in BOOLEAN
      /\ asked \in [debits : Nat, orders : Nat] /\ txn \in Row
      /\ bindings \in [Refs -> {"none", "active", "expired"}]
      /\ instr \in [Refs -> BOOLEAN] /\ debit \in Debit /\ order \in BOOLEAN
<1>e. SessionsTyped /\ RestTyped
  BY DEF TypeInv, TypeOK, SessionsTyped, Locked, At
<1>f. SessionsTyped' /\ RestTyped' => TypeInv'
  BY DEF TypeInv, TypeOK, SessionsTyped, Locked, At
<1> USE IdleType DEF Started, At, Finish, provider
<1>a. \A s \in Sessions : sess[s] \in Session
  BY <1>e DEF SessionsTyped
<1>b. ASSUME NEW s \in Sessions
      PROVE  /\ sess[s].row \in Row /\ sess[s].seen \in Debit /\ sess[s].found \in BOOLEAN
             /\ sess[s].ans \in Answers /\ sess[s].row.state \in TxnStates
  BY <1>a DEF Session, Row
<1>i. Idle.pc = "idle" /\ "idle" \notin Locked
  BY DEF Idle, Locked
<1>1. ASSUME NEW s \in Sessions, Revalidate(s) PROVE TypeInv'
  <2> DEFINE rec == [Idle EXCEPT !.pc = "revalidated"]
  <2>1. rec \in Session /\ rec.pc = "revalidated"
    BY DEF Idle, Session, Pcs
  <2>2. SessionsTyped'
    BY <2>1, <1>1, <1>e, FreeSession DEF Revalidate, Locked
  <2> QED BY <2>2, <1>1, <1>e, <1>f DEF Revalidate
<1>2. ASSUME NEW s \in Sessions, Reserve(s) PROVE TypeInv'
  <2> DEFINE rec == [sess[s] EXCEPT !.pc = "reserved"]
  <2>1. rec \in Session /\ rec.pc = "reserved"
    BY <1>a DEF Session, Pcs
  <2>2. SessionsTyped'
    BY <2>1, <1>2, <1>e, FreeSession DEF Reserve, Locked
  <2>3. txn' \in Row /\ usage' \in 0 .. MaxUsage
    BY <1>2, <1>e, OneMoreType DEF Reserve, Unused, Row
  <2> QED BY <2>2, <2>3, <1>2, <1>e, <1>f DEF Reserve
<1>3. ASSUME NEW s \in Sessions, RefuseRail(s) \/ NoBinding(s) PROVE TypeInv'
  <2> DEFINE rec == [sess[s] EXCEPT !.pc = "answered", !.ans = "refused"]
  <2>1. rec \in Session /\ rec.pc = "answered"
    BY <1>a DEF Session, Pcs, Answers
  <2>2. SessionsTyped'
    BY <2>1, <1>3, <1>e, FreeSession DEF RefuseRail, NoBinding, Locked
  <2> QED BY <2>2, <1>3, <1>e, <1>f DEF RefuseRail, NoBinding
<1>4. ASSUME NEW s \in Sessions, NEW ans \in {"ordered", "timeout", "refused"}, SubmitOrder(s, ans)
      PROVE TypeInv'
  <2> DEFINE rec == [sess[s] EXCEPT !.pc = "answered", !.ans = ans]
  <2>1. rec \in Session /\ rec.pc = "answered"
    BY <1>a DEF Session, Pcs, Answers
  <2>2. SessionsTyped'
    BY <2>1, <1>4, <1>e, FreeSession DEF SubmitOrder, Locked
  <2>3. order' \in {order, TRUE} /\ asked' = [asked EXCEPT !.orders = @ + 1]
    BY <1>4 DEF SubmitOrder
  <2>4. order' \in BOOLEAN
    BY <2>3, <1>e, Zenon
  <2>5. asked' \in [debits : Nat, orders : Nat]
    BY <2>3, <1>e
  <2> QED BY <2>2, <2>4, <2>5, <1>4, <1>e, <1>f DEF SubmitOrder
<1>5. ASSUME NEW s \in Sessions, Load(s) PROVE TypeInv'
  <2> DEFINE rec == [sess[s] EXCEPT !.pc = "recording", !.row = txn]
  <2>1. rec \in Session /\ rec.pc = "recording"
    BY <1>a, <1>e DEF Session, Pcs
  <2>2. SessionsTyped'
    BY <2>1, <1>5, <1>e, FreeSession DEF Load, Locked
  <2> QED BY <2>2, <1>5, <1>e, <1>f DEF Load
<1>6. ASSUME NEW s \in Sessions, Record(s) PROVE TypeInv'
  <2>1. txn' \in Row
    BY <1>6, <1>b, <1>e, OutcomeType, MergedType DEF Record, Commit
  <2>2. SessionsTyped'
    BY <1>6, <1>i, <1>e, FreeSession DEF Record, Commit, Locked
  <2> QED BY <2>1, <2>2, <1>6, <1>e, <1>f DEF Record
<1>7. ASSUME NEW s \in Sessions, NEW r \in Refs, ChooseBinding(s, r) PROVE TypeInv'
  <2> DEFINE rec == [sess[s] EXCEPT !.pc = "validating", !.ref = r]
  <2>1. rec \in Session /\ rec.pc = "validating"
    BY <1>a DEF Session, Pcs
  <2>2. SessionsTyped'
    BY <2>1, <1>7, <1>e, FreeSession DEF ChooseBinding, Locked
  <2> QED BY <2>2, <1>7, <1>e, <1>f DEF ChooseBinding
<1>9. ASSUME NEW s \in Sessions, NEW ans \in {"valid", "refused", "timeout"}, Validate(s, ans)
      PROVE TypeInv'
  <2> DEFINE rec == IF ans = "valid" THEN [sess[s] EXCEPT !.pc = "authorizing"]
                    ELSE [sess[s] EXCEPT !.pc = "answered", !.ans = ans]
  <2>1. rec \in Session /\ rec.pc \in {"authorizing", "answered"}
    BY <1>a DEF Session, Pcs, Answers
  <2>2. Become(s, rec)
    BY <1>9 DEF Validate
  <2> HIDE DEF rec
  <2>3. SessionsTyped'
    BY <2>1, <2>2, <1>9, <1>e, FreeSession DEF Validate, Locked
  <2> QED BY <2>3, <1>9, <1>e, <1>f DEF Validate
<1>10. ASSUME NEW s \in Sessions, Authorize(s) PROVE TypeInv'
  <2>1. PICK result \in IF Simulated THEN ReferenceAuthorize ELSE RazorpayAuthorize(sess[s].ref) :
          /\ debit' = result.debit
          /\ Become(s, [sess[s] EXCEPT !.pc = "answered", !.ans = result.ans])
    BY <1>10 DEF Authorize
  <2>2. debit' \in Debit /\ result.ans \in Answers
    BY <2>1, <1>e, AuthorizeType DEF Answers
  <2> DEFINE rec == [sess[s] EXCEPT !.pc = "answered", !.ans = result.ans]
  <2>3. rec \in Session /\ rec.pc = "answered"
    BY <2>2, <1>a DEF Session, Pcs
  <2> HIDE DEF rec
  <2>4. SessionsTyped'
    BY <2>1, <2>3, <1>10, <1>e, FreeSession DEF Authorize, Locked, rec
  <2>5. asked' \in [debits : Nat, orders : Nat]
    BY <1>10, <1>e DEF Authorize
  <2> QED BY <2>2, <2>4, <2>5, <1>10, <1>e, <1>f DEF Authorize
<1>11. ASSUME NEW s \in Sessions, Submit(s) PROVE TypeInv'
  <2> DEFINE rec == [sess[s] EXCEPT !.pc = "capturing", !.ans = "none"]
  <2>1. rec \in Session /\ rec.pc = "capturing"
    BY <1>a DEF Session, Pcs, Answers
  <2>2. SessionsTyped'
    BY <2>1, <1>11, <1>e, OneSession DEF Submit, Locked
  <2> QED BY <2>2, <1>11, <1>e, <1>f DEF Submit
<1>12. ASSUME NEW s \in Sessions, Capture(s) PROVE TypeInv'
  <2>1. PICK result \in IF Simulated THEN ReferenceCapture ELSE RazorpayCapture :
          /\ debit' = result.debit
          /\ Become(s, [sess[s] EXCEPT !.ans = result.ans,
                       !.pc = IF result.ans = "captured" THEN "corroborating" ELSE "settling"])
    BY <1>12 DEF Capture
  <2>2. debit' \in Debit /\ result.ans \in CaptureAnswers
    BY <2>1, <1>e, CaptureType
  <2>3. CaptureAnswers \subseteq Answers
    BY DEF Answers
  <2> DEFINE rec == [sess[s] EXCEPT !.ans = result.ans,
                       !.pc = IF result.ans = "captured" THEN "corroborating" ELSE "settling"]
  <2>4. rec \in Session /\ rec.pc \in {"corroborating", "settling"} /\ rec.ans = result.ans
    BY <2>2, <2>3, <1>a DEF Session, Pcs
  <2>5. Become(s, rec) /\ lock' = lock /\ lock = s
    BY <2>1, <1>12, <1>e DEF Capture, SessionsTyped, Locked
  <2> HIDE DEF rec
  <2>6. SessionsTyped'
    BY <2>2, <2>4, <2>5, <1>e, OneSession DEF Locked
  <2> QED BY <2>2, <2>6, <1>12, <1>e, <1>f DEF Capture
<1>13. ASSUME NEW s \in Sessions, NEW ans \in ReadbackAnswers, Readback(s, ans) PROVE TypeInv'
  <2> DEFINE rec == [sess[s] EXCEPT !.pc = "settling", !.ans = ans]
  <2>1. rec \in Session /\ rec.pc = "settling" /\ rec.ans = ans
    BY <1>a DEF Session, Pcs, Answers
  <2>2. SessionsTyped'
    BY <2>1, <1>13, <1>e, OneSession DEF Readback, SessionsTyped, Locked
  <2> QED BY <2>2, <1>13, <1>e, <1>f DEF Readback
<1>14. ASSUME NEW s \in Sessions, Settle(s) PROVE TypeInv'
  <2>1. SettledState[sess[s].ans] \in TxnStates
    BY <1>14, <1>e, SettledStateType DEF Settle, SessionsTyped
  <2>2. txn' \in Row
    BY <2>1, <1>14, <1>e, EnvironmentType DEF Settle, Row
  <2>3. SessionsTyped'
    BY <1>14, <1>i, <1>e, OneSession DEF Settle, Locked
  <2> QED BY <2>2, <2>3, <1>14, <1>e, <1>f DEF Settle
<1>15. ASSUME NEW s \in Sessions, ReconcileRead(s) PROVE TypeInv'
  <2> DEFINE rec == [Idle EXCEPT !.pc = "loaded", !.row = txn]
  <2>1. rec \in Session /\ rec.pc = "loaded"
    BY <1>e DEF Idle, Session, Pcs
  <2>2. SessionsTyped'
    BY <2>1, <1>15, <1>e, FreeSession DEF ReconcileRead, Locked
  <2> QED BY <2>2, <1>15, <1>e, <1>f DEF ReconcileRead
<1>16. ASSUME NEW s \in Sessions, NEW answered \in BOOLEAN, ReconcileObserve(s, answered) PROVE TypeInv'
  <2> DEFINE found == sess[s].row.order \/ (NeedsReceipt(sess[s].row) /\ order)
             seen  == IF sess[s].row.pay /\ Visible /\ answered THEN debit ELSE NoDebit
             rec   == [sess[s] EXCEPT !.pc = "observed", !.found = found, !.seen = seen]
  <2>1. found \in BOOLEAN /\ seen \in Debit
    BY <1>b, <1>e DEF Row
  <2>2. Become(s, rec)
    BY <1>16 DEF ReconcileObserve
  <2> HIDE DEF found, seen
  <2>3. rec \in Session /\ rec.pc = "observed"
    BY <2>1, <1>a DEF Session, Pcs
  <2> HIDE DEF rec
  <2>4. SessionsTyped'
    BY <2>2, <2>3, <1>16, <1>e, FreeSession DEF ReconcileObserve, Locked
  <2> QED BY <2>4, <1>16, <1>e, <1>f DEF ReconcileObserve
<1>17. ASSUME NEW s \in Sessions, ReconcileSettle(s) PROVE TypeInv'
  <2> DEFINE to  == ReconcileTarget(sess[s].seen)
             new == [sess[s].row EXCEPT !.state = to, !.order = sess[s].found]
  <2>1. to \in TxnStates
    BY <1>17, <1>b, TableType, ReconcileTargetType DEF ReconcileSettle, Reconciles, Legal, TxnStates
  <2>2. new \in Row
    BY <2>1, <1>b DEF Row
  <2>3. txn' \in Row
    BY <2>2, <1>17, <1>b, <1>e, MergedType DEF ReconcileSettle, Commit
  <2>4. SessionsTyped'
    BY <1>17, <1>i, <1>e, FreeSession DEF ReconcileSettle, Commit, Locked
  <2> QED BY <2>3, <2>4, <1>17, <1>e, <1>f DEF ReconcileSettle
<1>18. ASSUME NEW s \in Sessions, ReconcileGiveUp(s) PROVE TypeInv'
  <2> DEFINE new == [sess[s].row EXCEPT !.order = sess[s].found]
             rec == IF Handler(s) THEN Idle ELSE [Idle EXCEPT !.pc = "recount"]
  <2>1. new \in Row
    BY <1>b DEF Row
  <2>2. \/ UNCHANGED <<txn, lock>>
        \/ txn' = Merged(txn, sess[s].row, new) /\ lock \in {NoSession, s} /\ lock' = NoSession
    BY <1>18 DEF ReconcileGiveUp, Commit
  <2>3. rec \in Session /\ rec.pc \in {"idle", "recount"}
    BY DEF Idle, Session, Pcs
  <2>4. Become(s, rec)
    BY <1>18 DEF ReconcileGiveUp
  <2> HIDE DEF rec
  <2>5. SessionsTyped'
    BY <2>2, <2>3, <2>4, <1>18, <1>e, FreeSession DEF ReconcileGiveUp, Locked
  <2>6. txn' \in Row
    BY <2>1, <2>2, <1>b, <1>e, MergedType
  <2> QED BY <2>6, <2>5, <1>18, <1>e, <1>f DEF ReconcileGiveUp
<1>19. ASSUME NEW s \in Sessions, WorkerReload(s) PROVE TypeInv'
  <2> DEFINE rec == [Idle EXCEPT !.pc = "counting", !.row = txn]
  <2>1. rec \in Session /\ rec.pc = "counting"
    BY <1>e DEF Idle, Session, Pcs
  <2>2. SessionsTyped'
    BY <2>1, <1>19, <1>e, FreeSession DEF WorkerReload, Locked
  <2> QED BY <2>2, <1>19, <1>e, <1>f DEF WorkerReload
<1>20. ASSUME NEW s \in Sessions, WorkerCount(s) PROVE TypeInv'
  <2> DEFINE row == sess[s].row
             n   == OneMore(row.attempts)
             new == [row EXCEPT !.attempts = n,
                       !.order = IF At(s, "observed") THEN sess[s].found ELSE @,
                       !.state = IF n >= DeadLetterAfter THEN Try(@, "PROVIDER_UNKNOWN") ELSE @]
  <2>1. n \in 0 .. DeadLetterAfter
    BY <1>b, OneMoreType DEF Row
  <2>2. Try(row.state, "PROVIDER_UNKNOWN") \in TxnStates
    BY <1>b, TryType DEF TxnStates
  <2>3. new \in Row
    BY <2>1, <2>2, <1>b DEF Row
  <2>4. txn' \in Row
    BY <2>3, <1>20, <1>b, <1>e, MergedType DEF WorkerCount, Commit
  <2>5. SessionsTyped'
    BY <1>20, <1>i, <1>e, FreeSession DEF WorkerCount, Commit, Locked
  <2> QED BY <2>4, <2>5, <1>20, <1>e, <1>f DEF WorkerCount
<1>21. ASSUME NEW s \in Sessions, Crash(s) PROVE TypeInv'
  <2>1. SessionsTyped'
    <3>1. lock' = (IF lock = s THEN NoSession ELSE lock) /\ Become(s, Idle)
      BY <1>21 DEF Crash
    <3> QED BY <3>1, <1>i, <1>e, OneSession DEF SessionsTyped, Locked
  <2> QED BY <2>1, <1>21, <1>e, <1>f DEF Crash
<1>22. ASSUME RevokeAuthorization PROVE TypeInv'
  BY <1>22, <1>e, <1>f DEF RevokeAuthorization, Unused, SessionsTyped
<1>23. ASSUME NEW g \in Withdrawable, Withdraw(g) \/ Restore(g) PROVE TypeInv'
  BY <1>23, <1>e, <1>f DEF Withdraw, Restore, SessionsTyped
<1>24. ASSUME NEW r \in Refs, Bind(r) \/ BindingExpires(r) \/ ProviderRevokes(r) PROVE TypeInv'
  BY <1>24, <1>e, <1>f DEF Bind, BindingExpires, ProviderRevokes, SessionsTyped
<1>25. ASSUME NEW how \in {"captured", "failed", "declined"}, ProviderResolves(how) PROVE TypeInv'
  BY <1>25, <1>e, <1>f DEF ProviderResolves, Debit, SessionsTyped
<1>26. ASSUME UNCHANGED vars PROVE TypeInv'
  BY <1>26, <1>e, <1>f DEF vars, SessionsTyped
<1> QED
  BY <1>1, <1>2, <1>3, <1>4, <1>5, <1>6, <1>7, <1>9, <1>10, <1>11, <1>12, <1>13, <1>14,
     <1>15, <1>16, <1>17, <1>18, <1>19, <1>20, <1>21, <1>22, <1>23, <1>24, <1>25, <1>26
     DEF Next, ConsumeStep, DebitStep, LockedStep, ReconcileStep, AdminStep, ProviderStep

\* Type correctness of every reachable state, and that the row of a debit is locked
\* exactly while its request is between the flush and the commit (payments.py:593-714).
THEOREM AutonomousTypeCorrect == Spec => []TypeOK
<1>1. TypeInv => TypeOK
  BY DEF TypeInv
<1> QED BY <1>1, TypeInit, TypeStep, PTL DEF Spec
-----------------------------------------------------------------------------
(* One use, one request.                                                   *)

\* Where a request stands between its reservation and its call.
Holding == {"reserved", "validating", "authorizing"}

Unasked == asked.debits = 0 /\ asked.orders = 0

\* The one request that holds the reservation has asked for nothing yet, and
\* nobody asks without it.
UseInv ==
  /\ usage = 0 => ~revoked
  /\ usage = 0 \/ revoked => Unasked /\ \A s \in Sessions : sess[s].pc \notin Holding
  /\ \A s \in Sessions :
       sess[s].pc \in Holding => Unasked /\ \A t \in Sessions : sess[t].pc \in Holding => t = s
  /\ asked.debits + asked.orders \in 0 .. 1

\* A session that goes anywhere else leaves all of this as it is.
LEMMA LeavesUse ==
  ASSUME TypeInv, UseInv, NEW s \in Sessions, NEW rec, Become(s, rec), rec.pc \notin Holding,
         UNCHANGED <<usage, revoked, asked>>
  PROVE  UseInv'
  BY DEF TypeInv, TypeOK, UseInv, Unasked, Become

\* Nor does one that moves on with its reservation.
LEMMA MovesOn ==
  ASSUME TypeInv, UseInv, NEW s \in Sessions, NEW rec, Become(s, rec), sess[s].pc \in Holding,
         UNCHANGED <<usage, revoked, asked>>
  PROVE  UseInv'
  BY DEF TypeInv, TypeOK, UseInv, Unasked, Become

\* The call is made by the session that holds the reservation, which gives it up.
LEMMA AsksOnce ==
  ASSUME TypeInv, UseInv, NEW s \in Sessions, NEW rec, Become(s, rec), sess[s].pc \in Holding,
         rec.pc \notin Holding, UNCHANGED <<usage, revoked>>,
         \/ asked' = [asked EXCEPT !.debits = @ + 1]
         \/ asked' = [asked EXCEPT !.orders = @ + 1]
  PROVE  UseInv'
<1>1. asked.debits = 0 /\ asked.orders = 0 /\ asked \in [debits : Nat, orders : Nat]
  BY DEF UseInv, Unasked, TypeInv, TypeOK
<1>2. asked'.debits + asked'.orders \in 0 .. 1
  BY <1>1
<1>3. usage # 0 /\ ~revoked
  BY DEF UseInv
<1>4. \A t \in Sessions : sess'[t].pc \notin Holding
  BY DEF UseInv, TypeInv, TypeOK, Become
<1> QED BY <1>2, <1>3, <1>4 DEF UseInv

LEMMA UseInit == Init => UseInv
<1> SUFFICES ASSUME Init PROVE UseInv
  OBVIOUS
<1>1. \A s \in Sessions : sess[s].pc = "idle"
  BY DEF Init, Idle
<1>2. usage = 0 /\ ~revoked /\ asked.debits = 0 /\ asked.orders = 0
  BY DEF Init
<1> QED BY <1>1, <1>2 DEF UseInv, Unasked, Holding

LEMMA UseStep == TypeInv /\ UseInv /\ [Next]_vars => UseInv'
<1> SUFFICES ASSUME TypeInv, UseInv, [Next]_vars PROVE UseInv'
  OBVIOUS
<1> USE DEF At, Finish, provider, Holding
<1>a. \A s \in Sessions : sess[s] \in Session
  BY DEF TypeInv, TypeOK
<1>i. Idle.pc = "idle"
  BY DEF Idle
<1>1. ASSUME NEW s \in Sessions, Revalidate(s) PROVE UseInv'
  BY <1>1, LeavesUse DEF Revalidate, Idle
<1>2. ASSUME NEW s \in Sessions, Reserve(s) PROVE UseInv'
  <2>1. usage = 0 /\ usage' = 1 /\ ~revoked /\ ~revoked' /\ asked' = asked /\ Unasked
        /\ \A t \in Sessions : sess[t].pc \notin Holding
    BY <1>2 DEF Reserve, Unused, TypeInv, TypeOK, UseInv
  <2>2. \A t \in Sessions : t # s => sess'[t] = sess[t]
    BY <1>2 DEF Reserve, Become, TypeInv, TypeOK
  <2>3. asked'.debits + asked'.orders \in 0 .. 1
    BY <2>1 DEF UseInv
  <2> QED BY <2>1, <2>2, <2>3 DEF UseInv, Unasked
<1>3. ASSUME NEW s \in Sessions, RefuseRail(s) \/ NoBinding(s) PROVE UseInv'
  BY <1>3, MovesOn DEF RefuseRail, NoBinding
<1>4. ASSUME NEW s \in Sessions, NEW ans \in {"ordered", "timeout", "refused"}, SubmitOrder(s, ans)
      PROVE UseInv'
  <2> DEFINE rec == [sess[s] EXCEPT !.pc = "answered", !.ans = ans]
  <2>1. rec.pc = "answered"
    BY <1>a DEF Session
  <2> QED BY <2>1, <1>4, AsksOnce DEF SubmitOrder
<1>5. ASSUME NEW s \in Sessions, Load(s) PROVE UseInv'
  <2>1. [sess[s] EXCEPT !.pc = "recording", !.row = txn].pc = "recording"
    BY <1>a DEF Session
  <2> QED BY <2>1, <1>5, LeavesUse DEF Load
<1>6. ASSUME NEW s \in Sessions, Record(s) PROVE UseInv'
  BY <1>6, <1>i, LeavesUse DEF Record
<1>7. ASSUME NEW s \in Sessions, NEW r \in Refs, ChooseBinding(s, r) PROVE UseInv'
  BY <1>7, MovesOn DEF ChooseBinding
<1>8. ASSUME NEW s \in Sessions, NEW ans \in {"valid", "refused", "timeout"}, Validate(s, ans)
      PROVE UseInv'
  BY <1>8, MovesOn DEF Validate
<1>9. ASSUME NEW s \in Sessions, Authorize(s) PROVE UseInv'
  <2>1. PICK ans : Become(s, [sess[s] EXCEPT !.pc = "answered", !.ans = ans])
    BY <1>9 DEF Authorize
  <2>2. [sess[s] EXCEPT !.pc = "answered", !.ans = ans].pc = "answered"
    BY <1>a DEF Session
  <2>3. asked' = [asked EXCEPT !.debits = @ + 1] /\ UNCHANGED <<usage, revoked>>
        /\ sess[s].pc = "authorizing"
    BY <1>9 DEF Authorize
  <2> QED BY <2>1, <2>2, <2>3, AsksOnce
<1>10. ASSUME NEW s \in Sessions, Submit(s) PROVE UseInv'
  <2>1. [sess[s] EXCEPT !.pc = "capturing", !.ans = "none"].pc = "capturing"
    BY <1>a DEF Session
  <2> QED BY <2>1, <1>10, LeavesUse DEF Submit
<1>11. ASSUME NEW s \in Sessions, Capture(s) PROVE UseInv'
  <2>1. PICK ans : Become(s, [sess[s] EXCEPT !.ans = ans,
                                !.pc = IF ans = "captured" THEN "corroborating" ELSE "settling"])
    BY <1>11 DEF Capture
  <2>2. [sess[s] EXCEPT !.ans = ans, !.pc = IF ans = "captured" THEN "corroborating" ELSE "settling"].pc
          \in {"corroborating", "settling"}
    BY <1>a DEF Session
  <2>3. UNCHANGED <<usage, revoked, asked>>
    BY <1>11 DEF Capture
  <2> QED BY <2>1, <2>2, <2>3, LeavesUse
<1>12. ASSUME NEW s \in Sessions, NEW ans \in ReadbackAnswers, Readback(s, ans) PROVE UseInv'
  <2>1. [sess[s] EXCEPT !.pc = "settling", !.ans = ans].pc = "settling"
    BY <1>a DEF Session
  <2> QED BY <2>1, <1>12, LeavesUse DEF Readback
<1>13. ASSUME NEW s \in Sessions, Settle(s) \/ ReconcileSettle(s) \/ WorkerCount(s) \/ Crash(s)
       PROVE UseInv'
  BY <1>13, <1>i, LeavesUse DEF Settle, ReconcileSettle, WorkerCount, Crash
<1>14. ASSUME NEW s \in Sessions, ReconcileRead(s) \/ WorkerReload(s) PROVE UseInv'
  BY <1>14, LeavesUse DEF ReconcileRead, WorkerReload, Idle
<1>15. ASSUME NEW s \in Sessions, NEW answered \in BOOLEAN, ReconcileObserve(s, answered) PROVE UseInv'
  <2>1. PICK found, seen : Become(s, [sess[s] EXCEPT !.pc = "observed", !.found = found, !.seen = seen])
    BY <1>15 DEF ReconcileObserve
  <2>2. [sess[s] EXCEPT !.pc = "observed", !.found = found, !.seen = seen].pc = "observed"
    BY <1>a DEF Session
  <2>3. UNCHANGED <<usage, revoked, asked>>
    BY <1>15 DEF ReconcileObserve
  <2> QED BY <2>1, <2>2, <2>3, LeavesUse
<1>16. ASSUME NEW s \in Sessions, ReconcileGiveUp(s) PROVE UseInv'
  <2>1. PICK rec \in {Idle, [Idle EXCEPT !.pc = "recount"]} : Become(s, rec)
    BY <1>16 DEF ReconcileGiveUp
  <2>2. rec.pc \notin Holding
    BY <2>1 DEF Idle
  <2> QED BY <2>1, <2>2, <1>16, LeavesUse DEF ReconcileGiveUp
<1>17. ASSUME RevokeAuthorization PROVE UseInv'
  BY <1>17 DEF RevokeAuthorization, Unused, TypeInv, TypeOK, UseInv, Unasked
<1>18. ASSUME UNCHANGED <<usage, revoked, asked, sess>> PROVE UseInv'
  BY <1>18 DEF UseInv, Unasked
<1>19. AdminStep \/ ProviderStep \/ UNCHANGED vars
         => RevokeAuthorization \/ UNCHANGED <<usage, revoked, asked, sess>>
  BY DEF AdminStep, ProviderStep, Withdraw, Restore, Bind, BindingExpires, ProviderRevokes,
         ProviderResolves, vars
<1> QED
  BY <1>1, <1>2, <1>3, <1>4, <1>5, <1>6, <1>7, <1>8, <1>9, <1>10, <1>11, <1>12, <1>13, <1>14,
     <1>15, <1>16, <1>17, <1>18, <1>19 DEF Next, ConsumeStep, DebitStep, LockedStep, ReconcileStep
-----------------------------------------------------------------------------
(* Reports follow the provider's books.                                    *)

Taken(d) == d.status = "captured" /\ d.right

\* A debit stays, and so does its capture.
Grows(old, new) ==
  /\ old.status # "none" => new.status # "none"
  /\ Taken(old) => Taken(new)

RowInBook(d, row) ==
  /\ row.pay => d.status # "none"
  /\ row.state = "PAID" => Taken(d)

SessionInBook(d, x) ==
  /\ x.pc \in Locked \/ x.ans = "accepted" \/ x.seen.status # "none" => d.status # "none"
  /\ x.pc = "settling" /\ x.ans = "corroborated" => Taken(d)
  /\ x.seen.status = "captured" /\ x.seen.right => Taken(d)

BookInv ==
  /\ debit.status # "none" => asked.debits = 1 /\ asked.orders = 0
  /\ RowInBook(debit, txn)
  /\ \A s \in Sessions : SessionInBook(debit, sess[s])

LEMMA BookKeeps ==
  ASSUME TypeInv, BookInv, NEW s \in Sessions, NEW rec, Become(s, rec),
         Grows(debit, debit'), SessionInBook(debit', rec), RowInBook(debit', txn'),
         debit'.status # "none" => asked'.debits = 1 /\ asked'.orders = 0
  PROVE  BookInv'
<1>1. \A t \in Sessions : sess'[t] = IF t = s THEN rec ELSE sess[t]
  BY DEF TypeInv, TypeOK, Become
<1>2. \A t \in Sessions : SessionInBook(debit, sess[t]) => SessionInBook(debit', sess[t])
  BY DEF SessionInBook, Grows
<1>3. \A t \in Sessions : SessionInBook(debit', sess'[t])
  BY <1>1, <1>2 DEF BookInv
<1> QED BY <1>3 DEF BookInv

\* Where neither the provider nor the row moves.
LEMMA BookUnmoved ==
  ASSUME TypeInv, BookInv, NEW s \in Sessions, NEW rec, Become(s, rec),
         UNCHANGED <<debit, asked>>, SessionInBook(debit, rec),
         txn'.pay = txn.pay, txn'.state = "PAID" => txn.state = "PAID" \/ Taken(debit)
  PROVE  BookInv'
<1>1. RowInBook(debit', txn')
  BY DEF BookInv, RowInBook
<1> QED BY <1>1, BookKeeps DEF BookInv, Grows

LEMMA IdleInBook == \A d : SessionInBook(d, Idle)
  BY DEF SessionInBook, Idle, NoDebit, Locked

LEMMA BookInit == Init => BookInv
<1> SUFFICES ASSUME Init PROVE BookInv
  OBVIOUS
<1>1. debit.status = "none" /\ txn.pay = FALSE /\ txn.state = "AUTHORIZED"
  BY DEF Init, NoDebit, FreshRow
<1>2. \A s \in Sessions : sess[s] = Idle
  BY DEF Init
<1> QED BY <1>1, <1>2, IdleInBook DEF BookInv, RowInBook

\* What consume and the worker write without asking the provider is never PAID.
LEMMA OutcomeState ==
  ASSUME NEW row \in Row, NEW ans
  PROVE  /\ Outcome(row, ans).state # row.state =>
              Outcome(row, ans).state \in {"PROVIDER_SUBMITTED", "FAILED", "PROVIDER_UNKNOWN"}
         /\ Outcome(row, ans).state = "PROVIDER_SUBMITTED" /\ row.state # "PROVIDER_SUBMITTED" =>
              ans = "ordered"
         /\ Outcome(row, ans).pay = row.pay
         /\ Outcome(row, ans).order = IF ans = "ordered" THEN TRUE ELSE row.order
         /\ Outcome(row, ans).env = IF ans = "ordered" THEN Environment(dep) ELSE row.env
  BY DEF Outcome, Row, Try

LEMMA BookStep == TypeInv /\ UseInv /\ BookInv /\ [Next]_vars => BookInv'
<1> SUFFICES ASSUME TypeInv, UseInv, BookInv, [Next]_vars PROVE BookInv'
  OBVIOUS
<1> USE DEF At, Finish, provider
<1>a. \A s \in Sessions : sess[s] \in Session
  BY DEF TypeInv, TypeOK
<1>t. txn \in Row /\ debit \in Debit /\ asked \in [debits : Nat, orders : Nat] /\ dep \in DeploymentType
  BY DEF TypeInv, TypeOK, Started
<1>b. ASSUME NEW s \in Sessions
      PROVE  /\ sess[s].row \in Row /\ sess[s].seen \in Debit /\ sess[s].ans \in Answers
             /\ SessionInBook(debit, sess[s])
  BY <1>a DEF Session, BookInv
<1>c. ASSUME NEW s \in Sessions, NEW pc, pc \notin Locked
      PROVE  SessionInBook(debit, [sess[s] EXCEPT !.pc = pc])
  <2> DEFINE rec == [sess[s] EXCEPT !.pc = pc]
  <2>1. rec.pc = pc /\ rec.ans = sess[s].ans /\ rec.seen = sess[s].seen
    BY <1>a DEF Session
  <2> HIDE DEF rec
  <2>2. SessionInBook(debit, rec)
    BY <2>1, <1>b, <1>c DEF SessionInBook, Locked
  <2> QED BY <2>2 DEF rec
<1>d. ASSUME NEW s \in Sessions, NEW pc, pc \notin Locked, NEW ans, ans # "accepted"
      PROVE  SessionInBook(debit, [sess[s] EXCEPT !.pc = pc, !.ans = ans])
  <2> DEFINE rec == [sess[s] EXCEPT !.pc = pc, !.ans = ans]
  <2>1. rec.pc = pc /\ rec.ans = ans /\ rec.seen = sess[s].seen
    BY <1>a DEF Session
  <2> HIDE DEF rec
  <2>2. SessionInBook(debit, rec)
    BY <2>1, <1>b, <1>d DEF SessionInBook, Locked
  <2> QED BY <2>2 DEF rec
<1>m. ASSUME NEW s \in Sessions, NEW new \in Row, new.pay = sess[s].row.pay, Commit(s, new)
      PROVE  /\ txn'.pay = txn.pay
             /\ txn'.state # txn.state => txn'.state = new.state /\ new.state # sess[s].row.state
  BY <1>m, <1>b, <1>t DEF Commit, Merged, Row
<1>1. ASSUME NEW s \in Sessions, Revalidate(s) PROVE BookInv'
  <2>1. SessionInBook(debit, [Idle EXCEPT !.pc = "revalidated"])
    BY DEF SessionInBook, Idle, NoDebit, Locked
  <2> QED BY <2>1, <1>1, BookUnmoved DEF Revalidate
<1>2. ASSUME NEW s \in Sessions, Reserve(s) PROVE BookInv'
  <2>1. txn'.pay = txn.pay /\ txn'.state = txn.state
    BY <1>2, <1>t DEF Reserve, Row
  <2>2. SessionInBook(debit, [sess[s] EXCEPT !.pc = "reserved"])
    BY <1>c DEF Locked
  <2> QED BY <2>1, <2>2, <1>2, BookUnmoved DEF Reserve
<1>3. ASSUME NEW s \in Sessions, RefuseRail(s) \/ NoBinding(s) PROVE BookInv'
  <2>1. SessionInBook(debit, [sess[s] EXCEPT !.pc = "answered", !.ans = "refused"])
    BY <1>d DEF Locked
  <2> QED BY <2>1, <1>3, BookUnmoved DEF RefuseRail, NoBinding
<1>4. ASSUME NEW s \in Sessions, NEW ans \in {"ordered", "timeout", "refused"}, SubmitOrder(s, ans)
      PROVE BookInv'
  <2>1. debit.status = "none"
    BY <1>4 DEF SubmitOrder, UseInv, Unasked, Holding, BookInv
  <2>2. SessionInBook(debit, [sess[s] EXCEPT !.pc = "answered", !.ans = ans])
    BY <1>d DEF Locked
  <2> QED BY <2>1, <2>2, <1>4, BookKeeps DEF SubmitOrder, BookInv, Grows
<1>5. ASSUME NEW s \in Sessions, Load(s) PROVE BookInv'
  <2>1. SessionInBook(debit, [sess[s] EXCEPT !.pc = "recording", !.row = txn])
    BY <1>a, <1>b DEF Session, SessionInBook, Locked
  <2> QED BY <2>1, <1>5, BookUnmoved DEF Load
<1>6. ASSUME NEW s \in Sessions, Record(s) PROVE BookInv'
  <2> DEFINE new == Outcome(sess[s].row, sess[s].ans)
  <2>1. new \in Row /\ new.pay = sess[s].row.pay
        /\ (new.state # sess[s].row.state => new.state # "PAID")
    BY <1>b, <1>t, OutcomeType, OutcomeState
  <2>2. Commit(s, new)
    BY <1>6 DEF Record
  <2> HIDE DEF new
  <2>3. txn'.pay = txn.pay /\ (txn'.state = "PAID" => txn.state = "PAID")
    BY <2>1, <2>2, <1>m
  <2> QED BY <2>3, <1>6, IdleInBook, BookUnmoved DEF Record
<1>7. ASSUME NEW s \in Sessions, NEW r \in Refs, ChooseBinding(s, r) PROVE BookInv'
  <2>1. SessionInBook(debit, [sess[s] EXCEPT !.pc = "validating", !.ref = r])
    BY <1>a, <1>b DEF Session, SessionInBook, Locked
  <2> QED BY <2>1, <1>7, BookUnmoved DEF ChooseBinding
<1>8. ASSUME NEW s \in Sessions, NEW ans \in {"valid", "refused", "timeout"}, Validate(s, ans)
      PROVE BookInv'
  <2>1. PICK rec \in {[sess[s] EXCEPT !.pc = "authorizing"],
                      [sess[s] EXCEPT !.pc = "answered", !.ans = ans]} : Become(s, rec)
    BY <1>8 DEF Validate
  <2>2. /\ SessionInBook(debit, [sess[s] EXCEPT !.pc = "authorizing"])
        /\ SessionInBook(debit, [sess[s] EXCEPT !.pc = "answered", !.ans = ans])
    BY <1>c, <1>d DEF Locked
  <2> QED BY <2>1, <2>2, <1>8, BookUnmoved DEF Validate
<1>9. ASSUME NEW s \in Sessions, Authorize(s) PROVE BookInv'
  <2>1. PICK result \in IF Simulated THEN ReferenceAuthorize ELSE RazorpayAuthorize(sess[s].ref) :
          /\ debit' = result.debit
          /\ Become(s, [sess[s] EXCEPT !.pc = "answered", !.ans = result.ans])
    BY <1>9 DEF Authorize
  <2>2. asked.debits = 0 /\ asked.orders = 0 /\ debit.status = "none"
    BY <1>9 DEF Authorize, UseInv, Unasked, Holding, BookInv
  <2>3. result.ans = "accepted" => debit'.status # "none"
    BY <2>1, <1>t, AuthorizeType
  <2>4. asked'.debits = 1 /\ asked'.orders = 0 /\ txn' = txn
    BY <2>2, <1>9, <1>t DEF Authorize
  <2>5. RowInBook(debit', txn') /\ Grows(debit, debit')
    BY <2>2, <2>4 DEF BookInv, RowInBook, Grows, Taken
  <2>6. SessionInBook(debit', [sess[s] EXCEPT !.pc = "answered", !.ans = result.ans])
    BY <2>2, <2>3, <1>a, <1>b DEF Session, SessionInBook, Locked, Taken
  <2> QED BY <2>1, <2>4, <2>5, <2>6, BookKeeps
<1>10. ASSUME NEW s \in Sessions, Submit(s) PROVE BookInv'
  <2>1. SessionInBook(debit, [sess[s] EXCEPT !.pc = "capturing", !.ans = "none"])
    BY <1>10, <1>a, <1>b DEF Submit, Session, SessionInBook, Locked
  <2> QED BY <2>1, <1>10, BookUnmoved DEF Submit
<1>11. ASSUME NEW s \in Sessions, Capture(s) PROVE BookInv'
  <2>1. PICK result \in IF Simulated THEN ReferenceCapture ELSE RazorpayCapture :
          /\ debit' = result.debit
          /\ Become(s, [sess[s] EXCEPT !.ans = result.ans,
                       !.pc = IF result.ans = "captured" THEN "corroborating" ELSE "settling"])
    BY <1>11 DEF Capture
  <2>2. Grows(debit, debit') /\ result.ans \in CaptureAnswers
    BY <2>1, <1>t, CaptureType DEF Grows, Taken
  <2>3. debit.status # "none"
    BY <1>11, <1>b DEF Capture, SessionInBook, Locked
  <2>4. RowInBook(debit', txn') /\ asked'.debits = 1 /\ asked'.orders = 0
    BY <2>2, <2>3, <1>11 DEF Capture, BookInv, RowInBook, Grows
  <2>5. SessionInBook(debit', [sess[s] EXCEPT !.ans = result.ans,
                       !.pc = IF result.ans = "captured" THEN "corroborating" ELSE "settling"])
    BY <2>2, <2>3, <1>a, <1>b DEF Session, SessionInBook, Locked, Grows, CaptureAnswers
  <2> QED BY <2>1, <2>2, <2>4, <2>5, BookKeeps
<1>12. ASSUME NEW s \in Sessions, NEW ans \in ReadbackAnswers, Readback(s, ans) PROVE BookInv'
  <2>1. ans = "corroborated" => Taken(debit)
    BY <1>12 DEF Readback, Corroborated, Taken
  <2>2. SessionInBook(debit, [sess[s] EXCEPT !.pc = "settling", !.ans = ans])
    BY <2>1, <1>12, <1>a, <1>b DEF Readback, Session, SessionInBook, Locked, ReadbackAnswers
  <2> QED BY <2>2, <1>12, BookUnmoved DEF Readback
<1>13. ASSUME NEW s \in Sessions, Settle(s) PROVE BookInv'
  <2>1. debit.status # "none" /\ (sess[s].ans = "corroborated" => Taken(debit))
    BY <1>13, <1>b DEF Settle, SessionInBook, Locked
  <2>2. SettledState[sess[s].ans] = "PAID" => sess[s].ans = "corroborated"
    BY <1>13, SettledStateType DEF Settle, TypeInv
  <2>3. txn'.state = SettledState[sess[s].ans]
    BY <1>13, <1>t DEF Settle, Row
  <2>4. RowInBook(debit', txn')
    BY <2>1, <2>2, <2>3, <1>13 DEF Settle, RowInBook
  <2> QED BY <2>4, <1>13, IdleInBook, BookKeeps DEF Settle, BookInv, Grows
<1>14. ASSUME NEW s \in Sessions, ReconcileRead(s) PROVE BookInv'
  <2>1. SessionInBook(debit, [Idle EXCEPT !.pc = "loaded", !.row = txn])
    BY DEF SessionInBook, Idle, NoDebit, Locked
  <2> QED BY <2>1, <1>14, BookUnmoved DEF ReconcileRead
<1>15. ASSUME NEW s \in Sessions, NEW answered \in BOOLEAN, ReconcileObserve(s, answered) PROVE BookInv'
  <2> DEFINE found == sess[s].row.order \/ (NeedsReceipt(sess[s].row) /\ order)
             seen  == IF sess[s].row.pay /\ Visible /\ answered THEN debit ELSE NoDebit
  <2>1. Become(s, [sess[s] EXCEPT !.pc = "observed", !.found = found, !.seen = seen])
    BY <1>15 DEF ReconcileObserve
  <2>2. seen \in {debit, NoDebit}
    OBVIOUS
  <2> HIDE DEF found, seen
  <2>3. SessionInBook(debit, [sess[s] EXCEPT !.pc = "observed", !.found = found, !.seen = seen])
    BY <2>2, <1>a, <1>b DEF Session, SessionInBook, Locked, NoDebit, Taken
  <2> QED BY <2>1, <2>3, <1>15, BookUnmoved DEF ReconcileObserve
<1>16. ASSUME NEW s \in Sessions, ReconcileSettle(s) PROVE BookInv'
  <2> DEFINE to  == ReconcileTarget(sess[s].seen)
             new == [sess[s].row EXCEPT !.state = to, !.order = sess[s].found]
  <2>1. to \in TxnStates
    BY <1>16, <1>b, TableType, ReconcileTargetType
       DEF ReconcileSettle, Reconciles, Legal, Row, TxnStates
  <2>2. new \in Row /\ new.pay = sess[s].row.pay /\ new.state = to
    BY <2>1, <1>a, <1>b DEF Session, Row
  <2>3. to = "PAID" => Taken(debit)
    BY <1>b, ReconcileTargetType DEF SessionInBook
  <2>4. Commit(s, new)
    BY <1>16 DEF ReconcileSettle
  <2> HIDE DEF new
  <2>5. txn'.pay = txn.pay /\ (txn'.state = "PAID" => txn.state = "PAID" \/ Taken(debit))
    BY <2>2, <2>3, <2>4, <1>m
  <2> QED BY <2>5, <1>16, IdleInBook, BookUnmoved DEF ReconcileSettle
<1>17. ASSUME NEW s \in Sessions, ReconcileGiveUp(s) PROVE BookInv'
  <2> DEFINE new == [sess[s].row EXCEPT !.order = sess[s].found]
  <2>1. new \in Row /\ new.pay = sess[s].row.pay /\ new.state = sess[s].row.state
    BY <1>a, <1>b DEF Session, Row
  <2>2. Commit(s, new) \/ UNCHANGED txn
    BY <1>17 DEF ReconcileGiveUp
  <2> HIDE DEF new
  <2>3. txn'.pay = txn.pay /\ txn'.state = txn.state
    BY <2>1, <2>2, <1>m
  <2>4. PICK rec \in {Idle, [Idle EXCEPT !.pc = "recount"]} : Become(s, rec)
    BY <1>17 DEF ReconcileGiveUp
  <2>5. SessionInBook(debit, rec)
    BY <2>4 DEF SessionInBook, Idle, NoDebit, Locked
  <2> QED BY <2>3, <2>4, <2>5, <1>17, BookUnmoved DEF ReconcileGiveUp
<1>18. ASSUME NEW s \in Sessions, WorkerReload(s) PROVE BookInv'
  <2>1. SessionInBook(debit, [Idle EXCEPT !.pc = "counting", !.row = txn])
    BY DEF SessionInBook, Idle, NoDebit, Locked
  <2> QED BY <2>1, <1>18, BookUnmoved DEF WorkerReload
<1>19. ASSUME NEW s \in Sessions, WorkerCount(s) PROVE BookInv'
  <2> DEFINE row == sess[s].row
             n   == OneMore(row.attempts)
             new == [row EXCEPT !.attempts = n,
                       !.order = IF At(s, "observed") THEN sess[s].found ELSE @,
                       !.state = IF n >= DeadLetterAfter THEN Try(@, "PROVIDER_UNKNOWN") ELSE @]
  <2>1. n \in 0 .. DeadLetterAfter
    BY <1>b, OneMoreType DEF Row
  <2>2. Try(row.state, "PROVIDER_UNKNOWN") \in {row.state, "PROVIDER_UNKNOWN"} \cap TxnStates
    BY <1>b DEF Row, Try, TxnStates
  <2>3. new \in Row /\ new.pay = row.pay /\ new.state \in {row.state, "PROVIDER_UNKNOWN"}
    BY <2>1, <2>2, <1>a, <1>b DEF Session, Row
  <2>4. Commit(s, new)
    BY <1>19 DEF WorkerCount
  <2> HIDE DEF new
  <2>5. txn'.pay = txn.pay /\ (txn'.state = "PAID" => txn.state = "PAID")
    BY <2>3, <2>4, <1>m
  <2> QED BY <2>5, <1>19, IdleInBook, BookUnmoved DEF WorkerCount
<1>20. ASSUME NEW s \in Sessions, Crash(s) PROVE BookInv'
  BY <1>20, IdleInBook, BookUnmoved DEF Crash
<1>21. ASSUME NEW how \in {"captured", "failed", "declined"}, ProviderResolves(how) PROVE BookInv'
  <2>1. Grows(debit, debit')
    BY <1>21, <1>t DEF ProviderResolves, Grows, Taken, Debit
  <2>2. \A t \in Sessions : SessionInBook(debit', sess[t])
    BY <2>1, <1>b DEF SessionInBook, Grows
  <2>3. debit.status # "none" /\ UNCHANGED <<asked, sess, txn>>
    BY <1>21 DEF ProviderResolves
  <2> QED BY <2>1, <2>2, <2>3 DEF BookInv, RowInBook, Grows
<1>22. ASSUME UNCHANGED <<asked, sess, txn, debit>> PROVE BookInv'
  BY <1>22 DEF BookInv
<1>23. AdminStep \/ (\E r \in Refs : ProviderRevokes(r)) \/ UNCHANGED vars
         => UNCHANGED <<asked, sess, txn, debit>>
  BY DEF AdminStep, RevokeAuthorization, Withdraw, Restore, Bind, BindingExpires, ProviderRevokes, vars
<1> QED
  BY <1>1, <1>2, <1>3, <1>4, <1>5, <1>6, <1>7, <1>8, <1>9, <1>10, <1>11, <1>12, <1>13, <1>14,
     <1>15, <1>16, <1>17, <1>18, <1>19, <1>20, <1>21, <1>22, <1>23
     DEF Next, ConsumeStep, DebitStep, LockedStep, ReconcileStep, ProviderStep
-----------------------------------------------------------------------------
(* The two rails implement the life of a payment.                          *)

\* Of a session's steps, only five touch the use, the calls or the debit.
LEMMA QuietSteps ==
  ASSUME NEW s \in Sessions, ConsumeStep(s) \/ DebitStep(s) \/ LockedStep(s)
                             \/ ReconcileStep(s) \/ Crash(s)
  PROVE  \/ UNCHANGED <<usage, revoked, asked, debit>>
         \/ Reserve(s) \/ Authorize(s) \/ Capture(s)
         \/ \E ans \in {"ordered", "timeout", "refused"} : SubmitOrder(s, ans)
<1> USE DEF provider
<1>1. CASE ConsumeStep(s)
  BY <1>1 DEF ConsumeStep, Revalidate, RefuseRail, Load, Record
<1>2. CASE DebitStep(s)
  BY <1>2 DEF DebitStep, ChooseBinding, NoBinding, Validate, Submit
<1>3. CASE LockedStep(s)
  BY <1>3 DEF LockedStep, Readback, Settle
<1>4. CASE ReconcileStep(s)
  BY <1>4 DEF ReconcileStep, ReconcileRead, ReconcileObserve, ReconcileSettle, ReconcileGiveUp,
              WorkerReload, WorkerCount
<1>5. CASE Crash(s)
  BY <1>5 DEF Crash
<1> QED BY <1>1, <1>2, <1>3, <1>4, <1>5

\* When nothing else moves, what the row then says is backed.
LEMMA OnlyReports ==
  ASSUME BookInv', UNCHANGED <<Grant, asked, Money>>
  PROVE  L!Report
<1>1. Told' \in L!Reports /\ Told' # "refunded"
  BY DEF Told, L!Reports
<1>2. Told' = "paid" => Money' = "taken"
  BY DEF Told, BookInv, RowInBook, Taken, Money
<1>3. UNCHANGED <<Grant, asked.debits + asked.orders, Money>>
  OBVIOUS
<1> QED BY <1>1, <1>2, <1>3 DEF L!Report

\* The provider's side of a debit: money is taken only once asked for.
LEMMA OnlyTakes ==
  ASSUME TypeInv, UseInv, BookInv, debit.status # "none", Grows(debit, debit'),
         UNCHANGED <<Grant, asked, Told>>
  PROVE  L!Take \/ UNCHANGED L!lifecycleVars
<1>1. asked.debits + asked.orders = 1 /\ UNCHANGED (asked.debits + asked.orders)
  BY DEF BookInv, UseInv
<1>2. CASE Taken(debit) \/ ~Taken(debit')
  BY <1>1, <1>2 DEF Grows, Taken, Money, L!lifecycleVars
<1>3. CASE ~Taken(debit) /\ Taken(debit')
  BY <1>1, <1>3 DEF Taken, Money, L!Take
<1> QED BY <1>2, <1>3

LEMMA LifecycleStep ==
  ASSUME TypeInv, UseInv, BookInv, BookInv', [Next]_vars
  PROVE  [L!Next]_(L!lifecycleVars)
<1> USE DEF provider
<1>t. /\ txn \in Row /\ debit \in Debit /\ asked \in [debits : Nat, orders : Nat]
      /\ usage \in 0 .. 1
  BY DEF TypeInv, TypeOK
<1>1. ASSUME NEW s \in Sessions, Reserve(s) PROVE L!Spend
  <2>1. usage = 0 /\ usage' = 1 /\ ~revoked /\ ~revoked' /\ UNCHANGED <<asked, debit>>
    BY <1>1, <1>t DEF Reserve, Unused, UseInv
  <2>2. txn'.state = txn.state
    BY <1>1, <1>t DEF Reserve, Row
  <2> QED BY <2>1, <2>2 DEF L!Spend, Grant, Money, Told
<1>2. ASSUME RevokeAuthorization PROVE L!Revoke
  <2>1. usage = 0 /\ ~revoked /\ revoked' /\ UNCHANGED <<asked, debit, txn>>
    BY <1>2, <1>t DEF RevokeAuthorization, Unused, UseInv
  <2> QED BY <2>1 DEF L!Revoke, Grant, Money, Told
<1>3. ASSUME NEW s \in Sessions, NEW ans, SubmitOrder(s, ans) PROVE L!Request
  <2>1. asked.debits = 0 /\ asked.orders = 0 /\ usage # 0 /\ ~revoked
    BY <1>3 DEF SubmitOrder, At, UseInv, Unasked, Holding
  <2>2. asked'.debits + asked'.orders = 1
    BY <2>1, <1>3, <1>t DEF SubmitOrder
  <2>3. UNCHANGED <<usage, revoked, txn, debit>>
    BY <1>3 DEF SubmitOrder
  <2> QED BY <2>1, <2>2, <2>3 DEF L!Request, Grant, Money, Told
<1>4. ASSUME NEW s \in Sessions, Authorize(s) PROVE L!Request
  <2>1. asked.debits = 0 /\ asked.orders = 0 /\ usage # 0 /\ ~revoked /\ debit.status = "none"
    BY <1>4 DEF Authorize, At, UseInv, Unasked, Holding, BookInv
  <2>2. asked'.debits + asked'.orders = 1
    BY <2>1, <1>4, <1>t DEF Authorize
  <2>3. UNCHANGED <<usage, revoked, txn>>
    BY <1>4 DEF Authorize
  <2>4. debit'.status \in {"none", "authorized"}
    <3>1. PICK result \in IF Simulated THEN ReferenceAuthorize ELSE RazorpayAuthorize(sess[s].ref) :
            debit' = result.debit
      BY <1>4 DEF Authorize
    <3> QED BY <2>1, <3>1, <1>t, AuthorizeType
  <2> QED BY <2>1, <2>2, <2>3, <2>4 DEF L!Request, Grant, Money, Told
<1>5. ASSUME NEW s \in Sessions, Capture(s) PROVE L!Take \/ UNCHANGED L!lifecycleVars
  <2>1. PICK result \in IF Simulated THEN ReferenceCapture ELSE RazorpayCapture : debit' = result.debit
    BY <1>5 DEF Capture
  <2>2. Grows(debit, debit')
    BY <2>1, <1>t, CaptureType DEF Grows, Taken
  <2>3. debit.status # "none"
    BY <1>5 DEF Capture, At, BookInv, SessionInBook, Locked
  <2>4. UNCHANGED <<Grant, asked, Told>>
    BY <1>5 DEF Capture, Grant, Told
  <2> QED BY <2>2, <2>3, <2>4, OnlyTakes
<1>6. ASSUME NEW how \in {"captured", "failed", "declined"}, ProviderResolves(how)
      PROVE  L!Take \/ UNCHANGED L!lifecycleVars
  <2>1. Grows(debit, debit') /\ debit.status # "none"
    BY <1>6, <1>t DEF ProviderResolves, Grows, Taken, Debit
  <2>2. UNCHANGED <<Grant, asked, Told>>
    BY <1>6 DEF ProviderResolves, Grant, Told
  <2> QED BY <2>1, <2>2, OnlyTakes
<1>7. CASE UNCHANGED <<usage, revoked, asked, debit>>
  <2>1. UNCHANGED <<Grant, asked, Money>>
    BY <1>7 DEF Grant, Money
  <2> QED BY <2>1, OnlyReports DEF L!Next
<1>8. AdminStep \/ (\E r \in Refs : ProviderRevokes(r)) \/ UNCHANGED vars
        => RevokeAuthorization \/ UNCHANGED <<usage, revoked, asked, debit>>
  BY DEF AdminStep, Withdraw, Restore, Bind, BindingExpires, ProviderRevokes, vars
<1> QED
  BY <1>1, <1>2, <1>3, <1>4, <1>5, <1>6, <1>7, <1>8, QuietSteps DEF Next, ProviderStep, L!Next

\* Refinement: whatever requests race, die with the row locked, or find the other
\* rail, one authorization spends or loses its use, asks one provider once, and is
\* reported paid only when that value was captured (payments.py:554-930).
THEOREM AutonomousRailImplementsLifecycle == Spec => ImplementsLifecycle
<1> DEFINE I == TypeInv /\ UseInv /\ BookInv
<1>1. Init => I /\ L!Init
  <2>1. Init => L!Init
    BY DEF Init, L!Init, Grant, Money, Told, NoDebit, FreshRow
  <2> QED BY <2>1, TypeInit, UseInit, BookInit
<1>2. I /\ [Next]_vars => I' /\ [L!Next]_(L!lifecycleVars)
  <2> SUFFICES ASSUME I, [Next]_vars PROVE I' /\ [L!Next]_(L!lifecycleVars)
    OBVIOUS
  <2>1. I'
    BY TypeStep, UseStep, BookStep
  <2> QED BY <2>1, LifecycleStep
<1> QED BY <1>1, <1>2, PTL DEF Spec, ImplementsLifecycle, L!Spec

-----------------------------------------------------------------------------
(* Revocation.                                                             *)

QuietPcs == {"idle", "loaded", "observed", "recount", "counting"}

\* A session that is not executing stays so while a ground is missing.
LEMMA StaysQuiet ==
  ASSUME TypeInv, Quiet, ~Intact, NEW s \in Sessions,
         ConsumeStep(s) \/ DebitStep(s) \/ LockedStep(s) \/ ReconcileStep(s) \/ Crash(s)
  PROVE  UNCHANGED <<asked, grounds>> /\ \E rec : Become(s, rec) /\ rec.pc \in QuietPcs
<1> USE DEF At, Finish, provider
<1>1. sess[s] \in Session /\ sess[s].pc \in QuietPcs
  BY DEF Quiet, QuietPcs, TypeInv, TypeOK
<1>2. ~ConsumeStep(s) /\ ~DebitStep(s) /\ ~LockedStep(s)
  BY <1>1 DEF QuietPcs, ConsumeStep, DebitStep, LockedStep, Revalidate, Reserve, RefuseRail, SubmitOrder,
     Load, Record, ChooseBinding, NoBinding, Validate, Authorize, Submit, Capture, Readback, Settle
<1>3. Idle.pc \in QuietPcs
  BY DEF Idle, QuietPcs
<1>4. CASE Crash(s) \/ ReconcileSettle(s) \/ WorkerCount(s)
  BY <1>3, <1>4 DEF Crash, ReconcileSettle, WorkerCount
<1>5. CASE ReconcileRead(s)
  <2>1. [Idle EXCEPT !.pc = "loaded", !.row = txn].pc \in QuietPcs
    BY DEF Idle, QuietPcs
  <2> QED BY <2>1, <1>5 DEF ReconcileRead
<1>6. CASE WorkerReload(s)
  <2>1. [Idle EXCEPT !.pc = "counting", !.row = txn].pc \in QuietPcs
    BY DEF Idle, QuietPcs
  <2> QED BY <2>1, <1>6 DEF WorkerReload
<1>7. CASE ReconcileGiveUp(s)
  <2>1. [Idle EXCEPT !.pc = "recount"].pc \in QuietPcs
    BY DEF Idle, QuietPcs
  <2> QED BY <2>1, <1>3, <1>7 DEF ReconcileGiveUp
<1>8. ASSUME NEW answered, ReconcileObserve(s, answered)
      PROVE  UNCHANGED <<asked, grounds>> /\ \E rec : Become(s, rec) /\ rec.pc \in QuietPcs
  <2>1. PICK found, seen : Become(s, [sess[s] EXCEPT !.pc = "observed", !.found = found, !.seen = seen])
    BY <1>8 DEF ReconcileObserve
  <2>2. [sess[s] EXCEPT !.pc = "observed", !.found = found, !.seen = seen].pc \in QuietPcs
    BY <1>1 DEF Session, QuietPcs
  <2> QED BY <2>1, <2>2, <1>8 DEF ReconcileObserve
<1> QED BY <1>2, <1>4, <1>5, <1>6, <1>7, <1>8 DEF ReconcileStep

\* A ground that does not come back closes the door before the reservation, where
\* every execution must pass (payments.py:465-530).
THEOREM RevocationAlwaysSticks == Spec => RevocationSticks
<1>1. ASSUME TypeInv, [Next]_vars, LostForGood /\ Quiet PROVE asked' = asked /\ (LostForGood /\ Quiet)'
  <2>1. PICK g \in Withdrawable \ Restorable : g \notin grounds
    BY <1>1 DEF LostForGood
  <2>2. ~Intact
    BY <2>1 DEF Intact
  <2>3. CASE \E s \in Sessions : ConsumeStep(s) \/ DebitStep(s) \/ LockedStep(s)
                                 \/ ReconcileStep(s) \/ Crash(s)
    <3>1. PICK s \in Sessions : UNCHANGED <<asked, grounds>> /\ \E rec : Become(s, rec) /\ rec.pc \in QuietPcs
      BY <1>1, <2>2, <2>3, StaysQuiet
    <3>2. \A t \in Sessions : sess'[t].pc \in QuietPcs
      BY <1>1, <3>1 DEF Quiet, QuietPcs, Become, TypeInv, TypeOK
    <3> QED BY <1>1, <2>1, <3>1, <3>2 DEF LostForGood, Quiet, QuietPcs
  <2>4. CASE AdminStep \/ ProviderStep \/ UNCHANGED vars
    <3>1. UNCHANGED <<asked, sess>> /\ g \notin grounds'
      BY <2>1, <2>4 DEF AdminStep, ProviderStep, RevokeAuthorization, Withdraw, Restore, Bind,
         BindingExpires, ProviderRevokes, ProviderResolves, vars, provider
    <3> QED BY <1>1, <2>1, <3>1 DEF LostForGood, Quiet
  <2> QED BY <1>1, <2>3, <2>4 DEF Next
<1>2. TypeInv /\ [Next]_vars => (LostForGood /\ Quiet => asked' = asked /\ (LostForGood /\ Quiet)')
  BY <1>1
<1> QED BY <1>2, TypeInit, TypeStep, PTL DEF Spec, RevocationSticks
-----------------------------------------------------------------------------
(* Which rail the row and the sessions are on.                             *)

Named == {"PROVIDER_SUBMITTED", "PROVIDER_AUTHORIZED", "CAPTURED", "PAID", "DECLINED"}

\* A row of deployment d: each column that names a payment belongs to its rail.
RowOnRail(d, row) ==
  /\ row.order => TakesOrderRail(d)
  /\ row.pay => UsesMandate(d)
  /\ row.state \in Named => row.pay \/ row.order
  /\ row.state = "PROVIDER_SUBMITTED" => TakesOrderRail(d)
  /\ SettlementSource(row.env) = "provider" => Adapter(d) # "reference" /\ ApiBase(d) = "production"

\* What a session holds in its copy is in the committed row, and what it has
\* learned it learned on its rail.
SessionOnRail(d, row, x) ==
  /\ x.pc \in {"validating", "authorizing"} \cup Locked \/ x.ans = "accepted" => UsesMandate(d)
  /\ x.ans = "ordered" \/ x.found => TakesOrderRail(d)
  /\ x.pc = "observed" /\ x.row.order => x.found
  /\ x.seen.status # "none" => x.row.pay
  /\ x.row.order => row.order
  /\ x.row.pay => row.pay

RailInv ==
  /\ asked.orders > 0 \/ order => TakesOrderRail(dep)
  /\ RowOnRail(dep, txn)
  /\ \A s \in Sessions : SessionOnRail(dep, txn, sess[s])

LEMMA IdleOnRail == \A d, row : SessionOnRail(d, row, Idle)
  BY DEF SessionOnRail, Idle, FreshRow, NoDebit, Locked

LEMMA RailInit == Init => RailInv
<1> SUFFICES ASSUME Init PROVE RailInv
  OBVIOUS
<1>1. asked.orders = 0 /\ order = FALSE /\ txn = FreshRow /\ \A s \in Sessions : sess[s] = Idle
  BY DEF Init
<1>2. RowOnRail(dep, FreshRow)
  BY DEF RowOnRail, FreshRow, Named, SettlementSource
<1> QED BY <1>1, <1>2, IdleOnRail DEF RailInv

LEMMA RailKeeps ==
  ASSUME TypeInv, RailInv, NEW s \in Sessions, NEW rec, Become(s, rec), dep' = dep,
         SessionOnRail(dep, txn', rec), RowOnRail(dep, txn'),
         txn.order => txn'.order, txn.pay => txn'.pay,
         asked'.orders > 0 \/ order' => TakesOrderRail(dep)
  PROVE  RailInv'
<1>1. \A t \in Sessions : sess'[t] = IF t = s THEN rec ELSE sess[t]
  BY DEF TypeInv, TypeOK, Become
<1>2. \A t \in Sessions : SessionOnRail(dep, txn, sess[t]) => SessionOnRail(dep, txn', sess[t])
  BY DEF SessionOnRail
<1>3. \A t \in Sessions : SessionOnRail(dep', txn', sess'[t])
  BY <1>1, <1>2 DEF RailInv
<1>4. RowOnRail(dep', txn')
  OBVIOUS
<1> QED BY <1>3, <1>4 DEF RailInv

\* Where neither the row nor the provider moves.
LEMMA RailUnmoved ==
  ASSUME TypeInv, RailInv, NEW s \in Sessions, NEW rec, Become(s, rec),
         UNCHANGED <<dep, txn, asked, order>>, SessionOnRail(dep, txn, rec)
  PROVE  RailInv'
<1>1. RowOnRail(dep, txn') /\ SessionOnRail(dep, txn', rec) /\ asked'.orders = asked.orders
  BY DEF RailInv
<1> QED BY <1>1, RailKeeps DEF RailInv

\* A unit of work that writes no payment id keeps the committed row on its rail.
LEMMA CommitKeeps ==
  ASSUME TypeInv, RailInv, NEW s \in Sessions, NEW new \in Row, Commit(s, new),
         new.pay = sess[s].row.pay, sess[s].row.order => new.order,
         new.order => TakesOrderRail(dep),
         new.state # sess[s].row.state =>
           /\ new.state \in Named => new.order \/ new.pay
           /\ new.state = "PROVIDER_SUBMITTED" => TakesOrderRail(dep),
         new.env # sess[s].row.env => TakesOrderRail(dep) /\ new.env = Environment(dep)
  PROVE  RowOnRail(dep, txn') /\ (txn.order => txn'.order) /\ txn'.pay = txn.pay
<1> DEFINE old == sess[s].row
<1>1. old \in Row /\ txn \in Row /\ dep \in DeploymentType /\ Starts(dep)
  BY DEF TypeInv, TypeOK, Started, Session
<1>2. SessionOnRail(dep, txn, sess[s]) /\ RowOnRail(dep, txn)
  BY DEF RailInv
<1>3. txn' = Merged(txn, old, new)
  BY DEF Commit
<1> HIDE DEF old
<1>4. /\ txn'.pay = txn.pay
      /\ txn'.order = IF new.order = old.order THEN txn.order ELSE new.order
      /\ txn'.state = IF new.state = old.state THEN txn.state ELSE new.state
      /\ txn'.env = IF new.env = old.env THEN txn.env ELSE new.env
  BY <1>3 DEF Merged, old
<1>5. (old.order => txn.order) /\ (old.pay => txn.pay)
  BY <1>2 DEF SessionOnRail, old
<1>6. txn.order => txn'.order
  BY <1>1, <1>4 DEF Row, old
<1>7. txn'.order => TakesOrderRail(dep)
  BY <1>2, <1>4 DEF RowOnRail
<1>8. txn'.state \in Named => txn'.pay \/ txn'.order
  BY <1>1, <1>2, <1>4, <1>5, <1>6 DEF RowOnRail, Row, old
<1>9. txn'.state = "PROVIDER_SUBMITTED" => TakesOrderRail(dep)
  BY <1>2, <1>4 DEF RowOnRail, old
<1>10. SettlementSource(txn'.env) = "provider" => Adapter(dep) # "reference" /\ ApiBase(dep) = "production"
  <2>1. CASE txn'.env = txn.env
    BY <1>2, <2>1 DEF RowOnRail
  <2>2. CASE txn'.env # txn.env
    <3>1. TakesOrderRail(dep) /\ txn'.env = Environment(dep)
      BY <1>4, <2>2 DEF old
    <3>2. Adapter(dep) # "reference"
      BY <1>1, <3>1, Rails
    <3>3. SettlementSource(Environment(dep)) = "provider" => ApiBase(dep) # "simulator"
      BY DEF SettlementSource, Environment
    <3> QED BY <1>1, <3>1, <3>2, <3>3, StartedWell
  <2> QED BY <2>1, <2>2
<1> QED BY <1>2, <1>4, <1>6, <1>7, <1>8, <1>9, <1>10 DEF RowOnRail

LEMMA RailStep == TypeInv /\ RailInv /\ [Next]_vars => RailInv'
<1> SUFFICES ASSUME TypeInv, RailInv, [Next]_vars PROVE RailInv'
  OBVIOUS
<1> USE DEF At, Finish, provider
<1>a. \A s \in Sessions : sess[s] \in Session
  BY DEF TypeInv, TypeOK
<1>t. /\ txn \in Row /\ debit \in Debit /\ asked \in [debits : Nat, orders : Nat]
      /\ order \in BOOLEAN /\ dep \in DeploymentType
  BY DEF TypeInv, TypeOK, Started
<1>b. ASSUME NEW s \in Sessions
      PROVE  /\ sess[s].row \in Row /\ sess[s].seen \in Debit /\ sess[s].ans \in Answers
             /\ sess[s].found \in BOOLEAN /\ SessionOnRail(dep, txn, sess[s])
  BY <1>a DEF Session, RailInv
<1>c. ASSUME NEW s \in Sessions, NEW pc, pc # "observed",
             pc \in {"validating", "authorizing"} \cup Locked => UsesMandate(dep)
      PROVE  SessionOnRail(dep, txn, [sess[s] EXCEPT !.pc = pc])
  <2> DEFINE rec == [sess[s] EXCEPT !.pc = pc]
  <2>1. /\ rec.pc = pc /\ rec.ans = sess[s].ans /\ rec.seen = sess[s].seen
        /\ rec.row = sess[s].row /\ rec.found = sess[s].found
    BY <1>a DEF Session
  <2> HIDE DEF rec
  <2>2. SessionOnRail(dep, txn, rec)
    BY <2>1, <1>b, <1>c DEF SessionOnRail
  <2> QED BY <2>2 DEF rec
<1>d. ASSUME NEW s \in Sessions, NEW pc, pc # "observed", NEW ans,
             pc \in {"validating", "authorizing"} \cup Locked \/ ans = "accepted" => UsesMandate(dep),
             ans = "ordered" => TakesOrderRail(dep)
      PROVE  SessionOnRail(dep, txn, [sess[s] EXCEPT !.pc = pc, !.ans = ans])
  <2> DEFINE rec == [sess[s] EXCEPT !.pc = pc, !.ans = ans]
  <2>1. /\ rec.pc = pc /\ rec.ans = ans /\ rec.seen = sess[s].seen
        /\ rec.row = sess[s].row /\ rec.found = sess[s].found
    BY <1>a DEF Session
  <2> HIDE DEF rec
  <2>2. SessionOnRail(dep, txn, rec)
    BY <2>1, <1>b, <1>d DEF SessionOnRail
  <2> QED BY <2>2 DEF rec
<1>i. ASSUME NEW pc \in {"loaded", "counting"}
      PROVE  SessionOnRail(dep, txn, [Idle EXCEPT !.pc = pc, !.row = txn])
  BY DEF SessionOnRail, Idle, FreshRow, NoDebit, Locked
<1>j. SessionOnRail(dep, txn, [Idle EXCEPT !.pc = "revalidated"])
  BY DEF SessionOnRail, Idle, FreshRow, NoDebit, Locked
<1>1. ASSUME NEW s \in Sessions, Revalidate(s) PROVE RailInv'
  BY <1>1, <1>j, RailUnmoved DEF Revalidate
<1>2. ASSUME NEW s \in Sessions, Reserve(s) PROVE RailInv'
  <2>1. /\ txn'.pay = txn.pay /\ txn'.order = txn.order /\ txn'.env = txn.env
        /\ txn'.state = txn.state
    BY <1>2, <1>t DEF Reserve, Row
  <2>2. RowOnRail(dep, txn')
    BY <2>1 DEF RailInv, RowOnRail
  <2>3. SessionOnRail(dep, txn, [sess[s] EXCEPT !.pc = "reserved"])
    BY <1>c DEF Locked
  <2>4. SessionOnRail(dep, txn', [sess[s] EXCEPT !.pc = "reserved"])
    BY <2>1, <2>3 DEF SessionOnRail
  <2>5. UNCHANGED <<dep, asked, order>> /\ Become(s, [sess[s] EXCEPT !.pc = "reserved"])
    BY <1>2 DEF Reserve
  <2>6. asked'.orders > 0 \/ order' => TakesOrderRail(dep)
    BY <2>5 DEF RailInv
  <2> QED BY <2>1, <2>2, <2>4, <2>5, <2>6, RailKeeps
<1>3. ASSUME NEW s \in Sessions, RefuseRail(s) \/ NoBinding(s) PROVE RailInv'
  <2>1. SessionOnRail(dep, txn, [sess[s] EXCEPT !.pc = "answered", !.ans = "refused"])
    BY <1>d DEF Locked
  <2> QED BY <2>1, <1>3, RailUnmoved DEF RefuseRail, NoBinding
<1>4. ASSUME NEW s \in Sessions, NEW ans \in {"ordered", "timeout", "refused"}, SubmitOrder(s, ans)
      PROVE RailInv'
  <2>1. TakesOrderRail(dep) /\ UNCHANGED <<dep, txn>>
    BY <1>4 DEF SubmitOrder
  <2>2. SessionOnRail(dep, txn, [sess[s] EXCEPT !.pc = "answered", !.ans = ans])
    BY <1>d, <2>1 DEF Locked
  <2>3. SessionOnRail(dep, txn', [sess[s] EXCEPT !.pc = "answered", !.ans = ans])
        /\ RowOnRail(dep, txn')
    BY <2>1, <2>2 DEF RailInv
  <2> QED BY <2>1, <2>3, <1>4, RailKeeps DEF SubmitOrder
<1>5. ASSUME NEW s \in Sessions, Load(s) PROVE RailInv'
  <2> DEFINE rec == [sess[s] EXCEPT !.pc = "recording", !.row = txn]
  <2>1. /\ rec.pc = "recording" /\ rec.ans = sess[s].ans /\ rec.seen = sess[s].seen
        /\ rec.row = txn /\ rec.found = sess[s].found
    BY <1>a DEF Session
  <2>2. Become(s, rec) /\ UNCHANGED <<dep, txn, asked, order>>
    BY <1>5 DEF Load
  <2> HIDE DEF rec
  <2>3. SessionOnRail(dep, txn, rec)
    BY <2>1, <1>b DEF SessionOnRail, Locked
  <2> QED BY <2>2, <2>3, RailUnmoved
<1>6. ASSUME NEW s \in Sessions, Record(s) PROVE RailInv'
  <2> DEFINE old == sess[s].row
             new == Outcome(old, sess[s].ans)
  <2>1. old \in Row /\ new \in Row
    BY <1>b, <1>t, OutcomeType
  <2>2. new.pay = old.pay
    BY ONLY <2>1, OutcomeState
  <2>3. new.order = IF sess[s].ans = "ordered" THEN TRUE ELSE old.order
    BY ONLY <2>1, OutcomeState
  <2>4. new.env = IF sess[s].ans = "ordered" THEN Environment(dep) ELSE old.env
    BY ONLY <2>1, OutcomeState
  <2>5. new.state # old.state /\ new.state \in Named => sess[s].ans = "ordered"
    BY ONLY <2>1, OutcomeState DEF Named
  <2>6. sess[s].ans = "ordered" => TakesOrderRail(dep)
    BY <1>b DEF SessionOnRail
  <2>7. old.order => TakesOrderRail(dep)
    BY <1>b DEF SessionOnRail, RailInv, RowOnRail
  <2>8. Commit(s, new) /\ Become(s, Idle) /\ UNCHANGED <<dep, asked, order>>
    BY <1>6 DEF Record
  <2> HIDE DEF new
  <2>9. RowOnRail(dep, txn') /\ (txn.order => txn'.order) /\ txn'.pay = txn.pay
    BY <2>1, <2>4, <2>6, <2>7, <2>8, <2>5, <2>2, <2>3, CommitKeeps DEF Named
  <2>10. asked'.orders > 0 \/ order' => TakesOrderRail(dep)
    BY <2>8 DEF RailInv
  <2> QED BY <2>8, <2>9, <2>10, IdleOnRail, RailKeeps
<1>7. ASSUME NEW s \in Sessions, NEW r \in Refs, ChooseBinding(s, r) PROVE RailInv'
  <2> DEFINE rec == [sess[s] EXCEPT !.pc = "validating", !.ref = r]
  <2>1. /\ rec.pc = "validating" /\ rec.ans = sess[s].ans /\ rec.seen = sess[s].seen
        /\ rec.row = sess[s].row /\ rec.found = sess[s].found
    BY <1>a DEF Session
  <2>2. Become(s, rec) /\ UNCHANGED <<dep, txn, asked, order>> /\ UsesMandate(dep)
    BY <1>7 DEF ChooseBinding
  <2> HIDE DEF rec
  <2>3. SessionOnRail(dep, txn, rec)
    BY <2>1, <2>2, <1>b DEF SessionOnRail, Locked
  <2> QED BY <2>2, <2>3, RailUnmoved
<1>8. ASSUME NEW s \in Sessions, NEW ans \in {"valid", "refused", "timeout"}, Validate(s, ans)
      PROVE RailInv'
  <2>1. PICK rec \in {[sess[s] EXCEPT !.pc = "authorizing"],
                      [sess[s] EXCEPT !.pc = "answered", !.ans = ans]} : Become(s, rec)
    BY <1>8 DEF Validate
  <2>2. UsesMandate(dep)
    BY <1>8, <1>b DEF Validate, SessionOnRail
  <2>3. /\ SessionOnRail(dep, txn, [sess[s] EXCEPT !.pc = "authorizing"])
        /\ SessionOnRail(dep, txn, [sess[s] EXCEPT !.pc = "answered", !.ans = ans])
    BY <1>c, <1>d, <2>2 DEF Locked
  <2> QED BY <2>1, <2>3, <1>8, RailUnmoved DEF Validate
<1>9. ASSUME NEW s \in Sessions, Authorize(s) PROVE RailInv'
  <2>1. PICK result \in IF Simulated THEN ReferenceAuthorize ELSE RazorpayAuthorize(sess[s].ref) :
          Become(s, [sess[s] EXCEPT !.pc = "answered", !.ans = result.ans])
    BY <1>9 DEF Authorize
  <2>2. result.ans \in {"accepted", "refused", "timeout"}
    BY <2>1, <1>t, AuthorizeType
  <2>3. UsesMandate(dep)
    BY <1>9, <1>b DEF Authorize, SessionOnRail
  <2>4. SessionOnRail(dep, txn, [sess[s] EXCEPT !.pc = "answered", !.ans = result.ans])
    BY <1>d, <2>2, <2>3 DEF Locked
  <2>5. UNCHANGED <<dep, txn, order>> /\ asked'.orders = asked.orders
    BY <1>9, <1>t DEF Authorize
  <2>6. /\ SessionOnRail(dep, txn', [sess[s] EXCEPT !.pc = "answered", !.ans = result.ans])
        /\ RowOnRail(dep, txn') /\ (asked'.orders > 0 \/ order' => TakesOrderRail(dep))
    BY <2>4, <2>5 DEF RailInv
  <2> QED BY <2>1, <2>5, <2>6, RailKeeps
<1>10. ASSUME NEW s \in Sessions, Submit(s) PROVE RailInv'
  <2>1. UsesMandate(dep)
    BY <1>10, <1>b DEF Submit, SessionOnRail
  <2>2. SessionOnRail(dep, txn, [sess[s] EXCEPT !.pc = "capturing", !.ans = "none"])
    BY <1>d, <2>1
  <2> QED BY <2>2, <1>10, RailUnmoved DEF Submit
<1>11. ASSUME NEW s \in Sessions, Capture(s) PROVE RailInv'
  <2>1. PICK result \in IF Simulated THEN ReferenceCapture ELSE RazorpayCapture :
          Become(s, [sess[s] EXCEPT !.ans = result.ans,
                       !.pc = IF result.ans = "captured" THEN "corroborating" ELSE "settling"])
    BY <1>11 DEF Capture
  <2>2. result.ans \in CaptureAnswers
    BY <2>1, <1>t, CaptureType
  <2> DEFINE pc == IF result.ans = "captured" THEN "corroborating" ELSE "settling"
  <2>3. UsesMandate(dep)
    BY <1>11, <1>b DEF Capture, SessionOnRail, Locked
  <2>4. pc # "observed"
    OBVIOUS
  <2>5. SessionOnRail(dep, txn, [sess[s] EXCEPT !.pc = pc, !.ans = result.ans])
    <3> HIDE DEF pc
    <3> QED BY <1>d, <2>2, <2>3, <2>4 DEF CaptureAnswers
  <2>6. [sess[s] EXCEPT !.pc = pc, !.ans = result.ans] = [sess[s] EXCEPT !.ans = result.ans, !.pc = pc]
    BY <1>a DEF Session
  <2> QED BY <2>1, <2>5, <2>6, <1>11, RailUnmoved DEF Capture
<1>12. ASSUME NEW s \in Sessions, NEW ans \in ReadbackAnswers, Readback(s, ans) PROVE RailInv'
  <2>1. UsesMandate(dep)
    BY <1>12, <1>b DEF Readback, SessionOnRail, Locked
  <2>2. SessionOnRail(dep, txn, [sess[s] EXCEPT !.pc = "settling", !.ans = ans])
    BY <1>d, <2>1 DEF ReadbackAnswers
  <2> QED BY <2>2, <1>12, RailUnmoved DEF Readback
<1>13. ASSUME NEW s \in Sessions, Settle(s) PROVE RailInv'
  <2>1. UsesMandate(dep) /\ ~TakesOrderRail(dep)
    BY <1>13, <1>b, <1>t, Rails DEF Settle, SessionOnRail, Locked
  <2>2. SettledState[sess[s].ans] # "PROVIDER_SUBMITTED"
    BY <1>13, SettledStateType DEF Settle, TypeInv
  <2>3. /\ txn'.pay = TRUE /\ txn'.order = txn.order
        /\ txn'.state = SettledState[sess[s].ans]
        /\ txn'.env \in {txn.env, "simulated"}
    BY <1>13, <1>t DEF Settle, Row, DebitEnvironment
  <2>4. RowOnRail(dep, txn')
    BY <2>1, <2>2, <2>3 DEF RowOnRail, RailInv, SettlementSource
  <2>5. Become(s, Idle) /\ UNCHANGED <<dep, asked, order>>
    BY <1>13 DEF Settle
  <2>6. asked'.orders > 0 \/ order' => TakesOrderRail(dep)
    BY <2>5 DEF RailInv
  <2> QED BY <2>3, <2>4, <2>5, <2>6, IdleOnRail, RailKeeps
<1>14. ASSUME NEW s \in Sessions, ReconcileRead(s) PROVE RailInv'
  <2>1. SessionOnRail(dep, txn, [Idle EXCEPT !.pc = "loaded", !.row = txn])
    BY <1>i
  <2> QED BY <2>1, <1>14, RailUnmoved DEF ReconcileRead
<1>15. ASSUME NEW s \in Sessions, NEW answered \in BOOLEAN, ReconcileObserve(s, answered) PROVE RailInv'
  <2> DEFINE found == sess[s].row.order \/ (NeedsReceipt(sess[s].row) /\ order)
             seen  == IF sess[s].row.pay /\ Visible /\ answered THEN debit ELSE NoDebit
             rec   == [sess[s] EXCEPT !.pc = "observed", !.found = found, !.seen = seen]
  <2>1. Become(s, rec) /\ UNCHANGED <<dep, txn, asked, order>>
    BY <1>15 DEF ReconcileObserve
  <2>2. seen.status # "none" => sess[s].row.pay
    BY DEF NoDebit
  <2>3. (found => TakesOrderRail(dep)) /\ (sess[s].row.order => found)
    BY <1>b DEF SessionOnRail, RailInv, RowOnRail
  <2> HIDE DEF found, seen
  <2>4. /\ rec.pc = "observed" /\ rec.ans = sess[s].ans /\ rec.seen = seen
        /\ rec.row = sess[s].row /\ rec.found = found
    BY <1>a DEF Session
  <2> HIDE DEF rec
  <2>5. SessionOnRail(dep, txn, rec)
    BY <2>2, <2>3, <2>4, <1>b DEF SessionOnRail, Locked
  <2> QED BY <2>1, <2>5, RailUnmoved
<1>16. ASSUME NEW s \in Sessions, ReconcileSettle(s) PROVE RailInv'
  <2> DEFINE old == sess[s].row
             to  == ReconcileTarget(sess[s].seen)
             new == [old EXCEPT !.state = to, !.order = sess[s].found]
  <2>1. to \in TxnStates \ {"PROVIDER_SUBMITTED"} /\ to # "none"
    BY <1>16, <1>b, TableType, ReconcileTargetType
       DEF ReconcileSettle, Reconciles, Legal, Row, TxnStates
  <2>2. new \in Row /\ new.pay = old.pay /\ new.state = to /\ new.order = sess[s].found
        /\ new.env = old.env
    BY <2>1, <1>a, <1>b DEF Session, Row
  <2>3. old.pay
    BY <2>1, <1>b, ReconcileTargetType DEF SessionOnRail
  <2>4. /\ Commit(s, new) /\ Become(s, Idle) /\ UNCHANGED <<dep, asked, order>>
        /\ (old.order => sess[s].found) /\ (sess[s].found => TakesOrderRail(dep))
    BY <1>16, <1>b DEF ReconcileSettle, SessionOnRail
  <2> HIDE DEF new, to
  <2>5. RowOnRail(dep, txn') /\ (txn.order => txn'.order) /\ txn'.pay = txn.pay
    BY <2>1, <2>2, <2>3, <2>4, CommitKeeps
  <2>6. asked'.orders > 0 \/ order' => TakesOrderRail(dep)
    BY <2>4 DEF RailInv
  <2> QED BY <2>4, <2>5, <2>6, IdleOnRail, RailKeeps
<1>17. ASSUME NEW s \in Sessions, ReconcileGiveUp(s) PROVE RailInv'
  <2> DEFINE old == sess[s].row
             new == [old EXCEPT !.order = sess[s].found]
  <2>1. new \in Row /\ new.pay = old.pay /\ new.state = old.state /\ new.order = sess[s].found
        /\ new.env = old.env
    BY <1>a, <1>b DEF Session, Row
  <2>2. /\ Commit(s, new) \/ UNCHANGED txn
        /\ UNCHANGED <<dep, asked, order>>
        /\ (old.order => sess[s].found) /\ (sess[s].found => TakesOrderRail(dep))
    BY <1>17, <1>b DEF ReconcileGiveUp, SessionOnRail
  <2> HIDE DEF new
  <2>3. RowOnRail(dep, txn') /\ (txn.order => txn'.order) /\ txn'.pay = txn.pay
    <3>1. CASE Commit(s, new)
      BY <2>1, <2>2, <3>1, CommitKeeps
    <3>2. CASE UNCHANGED txn
      BY <3>2 DEF RailInv
    <3> QED BY <2>2, <3>1, <3>2
  <2>4. PICK rec \in {Idle, [Idle EXCEPT !.pc = "recount"]} : Become(s, rec)
    BY <1>17 DEF ReconcileGiveUp
  <2>5. SessionOnRail(dep, txn', rec)
    BY <2>4 DEF SessionOnRail, Idle, FreshRow, NoDebit, Locked
  <2>6. asked'.orders > 0 \/ order' => TakesOrderRail(dep)
    BY <2>2 DEF RailInv
  <2> QED BY <2>2, <2>3, <2>4, <2>5, <2>6, RailKeeps
<1>18. ASSUME NEW s \in Sessions, WorkerReload(s) PROVE RailInv'
  <2>1. SessionOnRail(dep, txn, [Idle EXCEPT !.pc = "counting", !.row = txn])
    BY <1>i
  <2> QED BY <2>1, <1>18, RailUnmoved DEF WorkerReload
<1>19. ASSUME NEW s \in Sessions, WorkerCount(s) PROVE RailInv'
  <2> DEFINE old == sess[s].row
             n   == OneMore(old.attempts)
             new == [old EXCEPT !.attempts = n,
                       !.order = IF At(s, "observed") THEN sess[s].found ELSE @,
                       !.state = IF n >= DeadLetterAfter THEN Try(@, "PROVIDER_UNKNOWN") ELSE @]
  <2>1. n \in 0 .. DeadLetterAfter
    BY <1>b, OneMoreType DEF Row
  <2>2. Try(old.state, "PROVIDER_UNKNOWN") \in {old.state, "PROVIDER_UNKNOWN"} \cap TxnStates
    BY <1>b DEF Row, Try, TxnStates
  <2>3. /\ new \in Row /\ new.pay = old.pay /\ new.state \in {old.state, "PROVIDER_UNKNOWN"}
        /\ new.env = old.env
        /\ new.order = (IF At(s, "observed") THEN sess[s].found ELSE old.order)
    BY <2>1, <2>2, <1>a, <1>b DEF Session, Row
  <2>4. Commit(s, new) /\ Become(s, Idle) /\ UNCHANGED <<dep, asked, order>>
    BY <1>19 DEF WorkerCount
  <2>5. (At(s, "observed") /\ old.order => sess[s].found) /\ (sess[s].found => TakesOrderRail(dep))
        /\ (old.order => TakesOrderRail(dep))
    BY <1>b DEF SessionOnRail, RailInv, RowOnRail
  <2> HIDE DEF new
  <2>6. (old.order => new.order) /\ (new.order => TakesOrderRail(dep))
    BY <2>3, <2>5
  <2>7. RowOnRail(dep, txn') /\ (txn.order => txn'.order) /\ txn'.pay = txn.pay
    BY <2>3, <2>4, <2>6, CommitKeeps DEF Named
  <2>8. asked'.orders > 0 \/ order' => TakesOrderRail(dep)
    BY <2>4 DEF RailInv
  <2> QED BY <2>4, <2>7, <2>8, IdleOnRail, RailKeeps
<1>20. ASSUME NEW s \in Sessions, Crash(s) PROVE RailInv'
  BY <1>20, IdleOnRail, RailUnmoved DEF Crash
<1>21. ASSUME UNCHANGED <<dep, asked, sess, txn, order>> PROVE RailInv'
  BY <1>21 DEF RailInv
<1>22. AdminStep \/ ProviderStep \/ UNCHANGED vars => UNCHANGED <<dep, asked, sess, txn, order>>
  BY DEF AdminStep, ProviderStep, RevokeAuthorization, Withdraw, Restore, Bind, BindingExpires,
         ProviderRevokes, ProviderResolves, vars
<1> QED
  BY <1>1, <1>2, <1>3, <1>4, <1>5, <1>6, <1>7, <1>8, <1>9, <1>10, <1>11, <1>12, <1>13, <1>14,
     <1>15, <1>16, <1>17, <1>18, <1>19, <1>20, <1>21, <1>22
     DEF Next, ConsumeStep, DebitStep, LockedStep, ReconcileStep

\* Whatever races or dies, a committed row that shows the provider's answer names
\* its payment, and a debit never leaves PROVIDER_SUBMITTED (payments.py:663-777).
THEOREM RowAlwaysNamesItsDebit == Spec => []RowNamesItsDebit
<1> DEFINE I == TypeInv /\ UseInv /\ BookInv /\ RailInv
<1>1. Init => I
  BY TypeInit, UseInit, BookInit, RailInit
<1>2. I /\ [Next]_vars => I'
  BY TypeStep, UseStep, BookStep, RailStep
<1>3. I => RowNamesItsDebit
  <2> SUFFICES ASSUME I PROVE RowNamesItsDebit
    OBVIOUS
  <2>1. dep \in DeploymentType /\ RowOnRail(dep, txn) /\ RowInBook(debit, txn)
    BY DEF TypeInv, Started, RailInv, BookInv
  <2> QED BY <2>1, Rails DEF RowNamesItsDebit, RowOnRail, RowInBook, Named
<1> QED BY <1>1, <1>2, <1>3, PTL DEF Spec

\* Every deployment that starts keeps its posture and tells its provenance: the
\* startup refusals (main.py), the choice of rail and the stamped environment
\* leave no way to a checkout order or a simulator under the name of a provider.
THEOREM DeploymentAlwaysHonoured == Spec => []DeploymentHonoured
<1> DEFINE I == TypeInv /\ RailInv
<1>1. Init => I
  BY TypeInit, RailInit
<1>2. I /\ [Next]_vars => I'
  BY TypeStep, RailStep
<1>3. I => DeploymentHonoured
  <2> SUFFICES ASSUME I PROVE DeploymentHonoured
    OBVIOUS
  <2>1. dep \in DeploymentType /\ Starts(dep) /\ asked.orders \in Nat
    BY DEF TypeInv, TypeOK, Started
  <2>2. Autonomous(dep) => asked.orders = 0
    BY <2>1, Rails DEF RailInv
  <2>3. Production(dep) => Autonomous(dep) /\ ApiBase(dep) = "production"
    BY <2>1, StartedWell
  <2>4. HonestSource
    BY DEF RailInv, RowOnRail, HonestSource, Simulated
  <2> QED BY <2>2, <2>3, <2>4 DEF DeploymentHonoured, FailsClosed
<1> QED BY <1>1, <1>2, <1>3, PTL DEF Spec
=============================================================================
