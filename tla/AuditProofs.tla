---------------------------- MODULE AuditProofs ----------------------------
(***************************************************************************)
(* On Postgres the audit chains implement AuditLog, for any number of      *)
(* requests, chains and events; the requests of Evidence, with the rows    *)
(* their transactions change, are requests of AuditChain; what a bundle    *)
(* shows verifies, and what it shows as authorized stands as allowed,      *)
(* apart from what submissions of one key mint.                            *)
(***************************************************************************)
EXTENDS Evidence, TLAPS

\* What a transaction has locked is its own, and it writes nothing else.
LocksHold ==
  /\ \A r, q \in Requests : r # q => locks[r] \cap locks[q] = {}
  /\ \A r \in Requests : \A e \in pending[r] : e.chain \in locks[r]
  /\ \A r \in Requests : \A t \in tail[r] : t.chain \in locks[r]

\* Ids only grow, so every id is an event's own.
IdsUnique ==
  /\ \A e \in events : e.id <= next
  /\ \A r \in Requests : \A e \in pending[r] : e.id <= next
  /\ \A e, f \in events : e.id = f.id => e = f
  /\ \A r \in Requests : \A e \in pending[r], f \in events : e.id # f.id
  /\ \A r, q \in Requests : \A e \in pending[r], f \in pending[q] : e.id = f.id => e = f
  /\ \A r, q \in Requests : r # q => pending[r] \cap pending[q] = {}

\* What a transaction sees is a chain already, its own events come last, and
\* the tail it has read is still the tail.
ViewsLinked ==
  /\ L!Linked(events)
  /\ \A r \in Requests : L!Linked(events \cup pending[r])
  /\ \A r \in Requests : \A e \in pending[r], f \in events :
       f.chain = e.chain => f.id < e.id
  /\ \A r \in Requests : \A t \in tail[r] : IsTail(r, t.chain, t.id)

ChainInv == TypeOK /\ LocksHold /\ IdsUnique /\ ViewsLinked

USE DEF L!Event

LEMMA AuditInit == Init => ChainInv
  BY DEF Init, ChainInv, TypeOK, LocksHold, IdsUnique, ViewsLinked, L!Linked

LEMMA AuditTypes == ASSUME TypeOK, [Next]_vars PROVE TypeOK'
<1>1. CASE UNCHANGED vars
  BY <1>1 DEF TypeOK, vars
<1>2. ASSUME NEW r \in Requests, NEW x \in Chains, AcquireLock(r, x) PROVE TypeOK'
  BY <1>2 DEF TypeOK, AcquireLock
<1>3. ASSUME NEW r \in Requests, NEW x \in Chains, ReadTail(r, x) PROVE TypeOK'
  <2>1. PICK i \in 0 .. next : tail' = [tail EXCEPT ![r] = {[chain |-> x, id |-> i]}]
    BY <1>3 DEF ReadTail
  <2>2. tail' \in [Requests -> SUBSET [chain : Chains, id : Nat]]
    BY <2>1 DEF TypeOK
  <2> QED BY <1>3, <2>2 DEF TypeOK, ReadTail
<1>4. ASSUME NEW r \in Requests, Flush(r) PROVE TypeOK'
  <2>1. PICK t \in tail[r] :
          pending' = [pending EXCEPT ![r] =
                        @ \cup {[id |-> next + 1, chain |-> t.chain, prev |-> t.id]}]
    BY <1>4 DEF Flush
  <2>2. t.chain \in Chains /\ t.id \in Nat
    BY DEF TypeOK
  <2>3. [id |-> next + 1, chain |-> t.chain, prev |-> t.id] \in L!Event
    BY <2>2 DEF TypeOK
  <2>4. pending' \in [Requests -> SUBSET L!Event]
    BY <2>1, <2>3 DEF TypeOK
  <2>5. tail' \in [Requests -> SUBSET [chain : Chains, id : Nat]] /\ next' \in Nat
    BY <1>4 DEF Flush, TypeOK
  <2> QED BY <1>4, <2>4, <2>5 DEF TypeOK, Flush
<1>5. ASSUME NEW r \in Requests, Commit(r) PROVE TypeOK'
  BY <1>5 DEF TypeOK, Commit, Closed
<1>6. ASSUME NEW r \in Requests, Rollback(r) PROVE TypeOK'
  BY <1>6 DEF TypeOK, Rollback, Closed
<1> QED BY <1>1, <1>2, <1>3, <1>4, <1>5, <1>6 DEF Next

LEMMA AuditLocks == ASSUME Locked, TypeOK, LocksHold, [Next]_vars PROVE LocksHold'
<1> USE DEF LocksHold
<1>1. CASE UNCHANGED vars
  BY <1>1 DEF vars
<1>2. ASSUME NEW r \in Requests, NEW x \in Chains, AcquireLock(r, x) PROVE LocksHold'
  BY <1>2 DEF TypeOK, AcquireLock, MayLock
<1>3. ASSUME NEW r \in Requests, NEW x \in Chains, ReadTail(r, x) PROVE LocksHold'
  BY <1>3 DEF TypeOK, ReadTail
<1>4. ASSUME NEW r \in Requests, Flush(r) PROVE LocksHold'
  BY <1>4 DEF TypeOK, Flush
<1>5. ASSUME NEW r \in Requests, Commit(r) PROVE LocksHold'
  BY <1>5 DEF TypeOK, Commit, Closed
<1>6. ASSUME NEW r \in Requests, Rollback(r) PROVE LocksHold'
  BY <1>6 DEF TypeOK, Rollback, Closed
<1> QED BY <1>1, <1>2, <1>3, <1>4, <1>5, <1>6 DEF Next

LEMMA AuditIds == ASSUME TypeOK, IdsUnique, [Next]_vars PROVE IdsUnique'
<1> USE DEF IdsUnique
<1>1. CASE UNCHANGED vars
  BY <1>1 DEF vars
<1>2. ASSUME NEW r \in Requests, NEW x \in Chains, AcquireLock(r, x) \/ ReadTail(r, x)
      PROVE  IdsUnique'
  BY <1>2 DEF AcquireLock, ReadTail
<1>3. ASSUME NEW r \in Requests, Flush(r) PROVE IdsUnique'
  <2>1. PICK t \in tail[r] :
          pending' = [pending EXCEPT ![r] =
                        @ \cup {[id |-> next + 1, chain |-> t.chain, prev |-> t.id]}]
    BY <1>3 DEF Flush
  <2>2. next' = next + 1 /\ events' = events
    BY <1>3 DEF Flush
  <2>3. \A e \in events : e.id \in Nat
    BY DEF TypeOK
  <2>4. \A q \in Requests : \A e \in pending[q] : e.id \in Nat
    BY DEF TypeOK
  <2> DEFINE new == [id |-> next + 1, chain |-> t.chain, prev |-> t.id]
  <2>5. new.id = next + 1 /\ next \in Nat
    BY DEF TypeOK
  <2>6. \A q \in Requests : pending'[q] = IF q = r THEN pending[r] \cup {new} ELSE pending[q]
    BY <2>1 DEF TypeOK
  <2> HIDE DEF new
  <2> QED BY <2>2, <2>3, <2>4, <2>5, <2>6
<1>4. ASSUME NEW r \in Requests, Commit(r) PROVE IdsUnique'
  <2>1. \A q \in Requests : pending'[q] = IF q = r THEN {} ELSE pending[q]
    BY <1>4 DEF Commit, Closed, TypeOK
  <2>2. events' = events \cup pending[r] /\ next' = next
    BY <1>4 DEF Commit, Closed
  <2> QED BY <2>1, <2>2
<1>5. ASSUME NEW r \in Requests, Rollback(r) PROVE IdsUnique'
  <2>1. \A q \in Requests : pending'[q] = IF q = r THEN {} ELSE pending[q]
    BY <1>5 DEF Rollback, Closed, TypeOK
  <2>2. events' = events /\ next' = next
    BY <1>5 DEF Rollback, Closed
  <2> QED BY <2>1, <2>2
<1> QED BY <1>1, <1>2, <1>3, <1>4, <1>5 DEF Next

LEMMA AuditViews == ASSUME Locked, ChainInv, [Next]_vars PROVE ViewsLinked'
<1> USE DEF ChainInv
<1>1. CASE UNCHANGED vars
  BY <1>1 DEF vars, ViewsLinked, IsTail, Visible
<1>2. ASSUME NEW r \in Requests, NEW x \in Chains, AcquireLock(r, x) PROVE ViewsLinked'
  BY <1>2 DEF AcquireLock, ViewsLinked, IsTail, Visible
<1>3. ASSUME NEW r \in Requests, NEW x \in Chains, ReadTail(r, x) PROVE ViewsLinked'
  <2>1. PICK i \in 0 .. next : /\ IsTail(r, x, i)
                               /\ tail' = [tail EXCEPT ![r] = {[chain |-> x, id |-> i]}]
    BY <1>3 DEF ReadTail
  <2>2. events' = events /\ pending' = pending
    BY <1>3 DEF ReadTail
  <2>3. \A q \in Requests : \A t \in tail'[q] : t \in tail[q] \/ (q = r /\ t.chain = x /\ t.id = i)
    BY <2>1 DEF TypeOK
  <2>4. \A q \in Requests : \A t \in tail'[q] : IsTail(q, t.chain, t.id)
    BY <2>1, <2>3 DEF ViewsLinked
  <2>5. \A q \in Requests : \A t \in tail'[q] : IsTail(q, t.chain, t.id)'
    BY <2>2, <2>4 DEF IsTail, Visible
  <2> QED BY <2>2, <2>5 DEF ViewsLinked
<1>4. ASSUME NEW r \in Requests, Flush(r) PROVE ViewsLinked'
  <2>1. PICK t \in tail[r] :
          pending' = [pending EXCEPT ![r] =
                        @ \cup {[id |-> next + 1, chain |-> t.chain, prev |-> t.id]}]
    BY <1>4 DEF Flush
  <2> DEFINE new == [id |-> next + 1, chain |-> t.chain, prev |-> t.id]
  <2>2. /\ \A q \in Requests : pending'[q] = IF q = r THEN pending[r] \cup {new} ELSE pending[q]
        /\ \A q \in Requests : tail'[q] = IF q = r THEN {} ELSE tail[q]
        /\ events' = events
    BY <1>4, <2>1 DEF Flush, TypeOK
  <2>3. new.id = next + 1 /\ new.chain = t.chain /\ new.prev = t.id /\ next \in Nat
        /\ t.id \in Nat
    BY DEF TypeOK
  <2> HIDE DEF new
  <2>4. IsTail(r, t.chain, t.id) /\ L!Linked(events \cup pending[r])
    BY DEF ViewsLinked
  <2>5. \A e \in events \cup pending[r] : e.id \in Nat /\ e.prev \in Nat /\ e.id <= next
    BY DEF TypeOK, IdsUnique
  <2>6. t.id <= next
    BY <2>3, <2>4, <2>5 DEF IsTail, Visible
  <2>7. L!Linked(events \cup pending[r] \cup {new})
    BY <2>3, <2>4, <2>5, <2>6 DEF IsTail, Visible, L!Linked
  <2>8. \A q \in Requests : L!Linked(events \cup pending[q])'
    BY <2>2, <2>7 DEF ViewsLinked
  <2>9. \A q \in Requests : \A e \in pending'[q], f \in events' :
          f.chain = e.chain => f.id < e.id
    BY <2>2, <2>3, <2>5 DEF ViewsLinked
  <2>10. \A q \in Requests : \A u \in tail'[q] : IsTail(q, u.chain, u.id)'
    BY <2>2 DEF ViewsLinked, IsTail, Visible
  <2> QED BY <2>2, <2>8, <2>9, <2>10 DEF ViewsLinked
<1>5. ASSUME NEW r \in Requests, Commit(r) PROVE ViewsLinked'
  <2>1. /\ \A q \in Requests : pending'[q] = IF q = r THEN {} ELSE pending[q]
        /\ \A q \in Requests : tail'[q] = IF q = r THEN {} ELSE tail[q]
        /\ events' = events \cup pending[r]
    BY <1>5 DEF Commit, Closed, TypeOK
  <2>2. L!Linked(events') /\ L!Linked(events \cup pending[r]) /\ L!Linked(events)
    BY <2>1 DEF ViewsLinked
  <2>3. \A q \in Requests \ {r} : \A e \in pending[q], f \in pending[r] : e.chain # f.chain
    BY DEF LocksHold
  <2>4. ASSUME NEW q \in Requests PROVE L!Linked(events' \cup pending'[q])
    <3>1. CASE q = r
      <4>1. events' \cup pending'[q] = events'
        BY <2>1, <3>1
      <4> QED BY <2>2, <4>1
    <3>2. CASE q # r
      <4>1. L!Linked(events \cup pending[q])
        BY DEF ViewsLinked
      <4>2. events' \cup pending'[q] = events \cup pending[r] \cup pending[q]
        BY <2>1, <3>2
      <4> QED BY <2>2, <2>3, <3>2, <4>1, <4>2 DEF L!Linked
    <3> QED BY <3>1, <3>2
  <2>5. \A q \in Requests : \A e \in pending'[q], f \in events' :
          f.chain = e.chain => f.id < e.id
    BY <2>1, <2>3 DEF ViewsLinked
  <2>6. ASSUME NEW q \in Requests, NEW t \in tail'[q] PROVE IsTail(q, t.chain, t.id)'
    <3>1. q # r /\ t \in tail[q]
      BY <2>1, <2>6
    <3>2. \A f \in pending[r] : f.chain # t.chain
      BY <3>1 DEF LocksHold
    <3>3. Visible(q, t.chain)' = Visible(q, t.chain)
      BY <2>1, <3>1, <3>2 DEF Visible
    <3> QED BY <3>1, <3>3 DEF IsTail, ViewsLinked
  <2>7. \A q \in Requests : L!Linked(events \cup pending[q])'
    BY <2>4
  <2> QED BY <2>2, <2>5, <2>6, <2>7 DEF ViewsLinked
<1>6. ASSUME NEW r \in Requests, Rollback(r) PROVE ViewsLinked'
  <2>1. /\ \A q \in Requests : pending'[q] = IF q = r THEN {} ELSE pending[q]
        /\ \A q \in Requests : tail'[q] = IF q = r THEN {} ELSE tail[q]
        /\ events' = events
    BY <1>6 DEF Rollback, Closed, TypeOK
  <2>2. \A q \in Requests : L!Linked(events \cup pending[q])'
    BY <2>1 DEF ViewsLinked
  <2>3. \A q \in Requests : \A t \in tail'[q] : IsTail(q, t.chain, t.id)'
    BY <2>1 DEF ViewsLinked, IsTail, Visible
  <2> QED BY <2>1, <2>2, <2>3 DEF ViewsLinked
<1> QED BY <1>1, <1>2, <1>3, <1>4, <1>5, <1>6 DEF Next

LEMMA AuditStep == ASSUME Locked, ChainInv, [Next]_vars PROVE ChainInv'
  BY AuditTypes, AuditLocks, AuditIds, AuditViews DEF ChainInv

\* A step that shows readers something new is an Append of AuditLog.
LEMMA StepAppends == ASSUME Locked, ChainInv, [Next]_vars PROVE [L!Append]_events
<1>1. ChainInv'
  BY AuditStep
<1>2. L!Linked(events') /\ L!Ordered(events')
  BY <1>1 DEF ChainInv, ViewsLinked, IdsUnique, L!Ordered
<1>3. events' # events => \E r \in Requests : Commit(r)
  BY DEF Next, vars, AcquireLock, ReadTail, Flush, Rollback
<1>4. SUFFICES ASSUME NEW r \in Requests, Commit(r) PROVE L!Append
  BY <1>3 DEF L!Append
<1>5. events' = events \cup pending[r]
  BY <1>4 DEF Commit
<1>6. \A old \in events, new \in pending[r] : old.chain = new.chain => old.id < new.id
  BY DEF ChainInv, ViewsLinked
<1> QED BY <1>2, <1>5, <1>6 DEF L!Append

\* On Postgres every chain verifies at every moment, whatever requests overlap,
\* fail or are rolled back (app/audit.py).
THEOREM ChainAlwaysVerifies == ASSUME Locked PROVE Spec => []ChainVerifies
<1>1. Init => ChainInv
  BY AuditInit
<1>2. ChainInv /\ [Next]_vars => ChainInv'
  BY AuditStep
<1>3. ChainInv => ChainVerifies
  BY DEF ChainInv, ViewsLinked, IdsUnique, ChainVerifies, L!Ordered
<1> QED BY <1>1, <1>2, <1>3, PTL DEF Spec

\* On Postgres the committed events implement the append-only log.
THEOREM ImplementsAuditLog == ASSUME Locked PROVE Spec => AppendOnlyLog
<1>1. Init => ChainInv /\ L!Init
  BY AuditInit DEF Init, L!Init
<1>2. ChainInv /\ [Next]_vars => ChainInv' /\ [L!Append]_events
  BY AuditStep, StepAppends
<1> QED BY <1>1, <1>2, PTL DEF Spec, AppendOnlyLog, L!Spec

-----------------------------------------------------------------------------
(* The composition with the rows and the readers.                          *)

Ops == {"decide", "mint", "approve", "sweep", "move"}

\* An intent that may have an authorization: allowed, or minted for by a submission
\* of the same key.
Accounted(i) == Recorded(i) /\ (row[i].decision = "allow" \/ i \in raced)

\* What an open transaction is about, and the row it is going to write.
WorkTyped ==
  /\ row \in [Intents -> Rows \cup {Absent}]
  /\ DOMAIN shown = Intents
  /\ DOMAIN work = Requests
  /\ \A r \in Requests : work[r] # Idle =>
       /\ work[r].op \in Ops
       /\ work[r].intent \in Intents /\ work[r].row \in Rows
  /\ \A i \in Intents : Minted(i) => Accounted(i)

\* Between the guard that opened a transaction and its commit, no other commit
\* changes what the guard saw, except that a review may be swept twice.
WorkInv ==
  /\ WorkTyped
  /\ \A r \in Requests : work[r] # Idle =>
       LET seen == row[work[r].intent].decision
           written == work[r].row.decision
       IN /\ work[r].op = "decide" => row[work[r].intent] = Absent
          /\ work[r].op = "mint" => Recorded(work[r].intent)
          /\ work[r].op = "move" => Accounted(work[r].intent)
          /\ work[r].op = "approve" => seen = "stepup" /\ written = "allow"
          /\ work[r].op = "sweep" => seen \in {"timed", "deny"} /\ written = "deny"
  /\ \A r, q \in Requests : \A op \in {"decide", "approve"} :
       work[r].op = op /\ work[q].op = op /\ work[r].intent = work[q].intent => r = q

LEMMA IdleWork == Idle.op = "none" /\ Idle.left = <<>>
  BY DEF Idle

LEMMA AbsentRow == Absent.decision = "absent" /\ Absent \notin Rows
                   /\ \A new \in Rows : new.decision \in Decisions /\ new.chain \in Chains
  BY DEF Absent, Rows, Decisions

LEMMA WorkInit == EvidenceInit => WorkInv
  BY IdleWork DEF EvidenceInit, WorkInv, WorkTyped, Minted, Unminted

\* A transaction that opens adds one entry that its guard makes true.
LEMMA BeginKeeps ==
  ASSUME WorkInv, NEW r \in Requests, NEW i \in Intents, NEW op \in Ops, NEW new \in Rows,
         NEW kinds, Begin(r, op, i, new, kinds),
         op = "decide" => row[i] = Absent,
         op = "mint" => Recorded(i), op = "move" => Accounted(i),
         op = "approve" => row[i].decision = "stepup" /\ new.decision = "allow",
         op = "sweep" => row[i].decision = "timed" /\ new.decision = "deny",
         op \in {"decide", "approve"} =>
           \A q \in Requests : ~(work[q].op = op /\ work[q].intent = i)
  PROVE  WorkInv'
<1> DEFINE entry == [op |-> op, intent |-> i, row |-> new, left |-> kinds]
<1>1. /\ work' = [work EXCEPT ![r] = entry]
      /\ row' = row /\ shown' = shown /\ raced' = raced
  BY DEF Begin
<1>2. \A q \in Requests : work'[q] = IF q = r THEN entry ELSE work[q]
  BY <1>1 DEF WorkInv, WorkTyped
<1>3. entry.op = op /\ entry.intent = i /\ entry.row = new
  OBVIOUS
<1> HIDE DEF entry
<1>4. WorkTyped'
  BY <1>1, <1>2, <1>3 DEF WorkInv, WorkTyped, Minted, Accounted, Recorded
<1> QED BY <1>1, <1>2, <1>3, <1>4 DEF WorkInv, Accounted, Recorded

\* A transaction that closes leaves the others as they are.
LEMMA CloseKeeps ==
  ASSUME WorkInv, NEW r \in Requests, work' = [work EXCEPT ![r] = Idle],
         row' = row, shown' = shown, raced' = raced
  PROVE  WorkInv'
<1>1. \A q \in Requests : work'[q] = IF q = r THEN Idle ELSE work[q]
  BY DEF WorkInv, WorkTyped
<1>2. WorkTyped'
  BY <1>1 DEF WorkInv, WorkTyped, Minted, Accounted, Recorded
<1> QED BY <1>1, <1>2, IdleWork DEF WorkInv, Accounted, Recorded

\* What a commit leaves in the row of its intent.
Written(r) ==
  IF work[r].op \in {"decide", "approve", "sweep"} THEN work[r].row ELSE row[work[r].intent]

\* A commit writes the row of its intent, which no other open transaction
\* contradicts, and remembers the mint for an intent that was not allowed.
LEMMA SaveKeeps == ASSUME WorkInv, NEW r \in Requests, Save(r) PROVE WorkInv'
<1>0. PICK i \in Intents : i = work[r].intent
  BY IdleWork DEF Save, WorkInv, WorkTyped
<1>1. /\ work[r] # Idle
      /\ work' = [work EXCEPT ![r] = Idle]
      /\ shown' = shown \/ shown' = [shown EXCEPT ![i] = LastOf(r).id]
      /\ shown' # shown => work[r].op \in {"mint", "approve", "move"}
      /\ raced \subseteq raced'
      /\ work[r].op = "mint" => row[i].decision = "allow" \/ i \in raced'
  BY <1>0, IdleWork DEF Save
<1>2. work[r].row \in Rows /\ work[r].op \in Ops /\ Written(r) \in Rows
  <2>1. work[r].row \in Rows /\ work[r].op \in Ops
    BY <1>1 DEF WorkInv, WorkTyped
  <2>2. work[r].op \in {"mint", "move"} => row[i] \in Rows
    BY <1>0, <1>1 DEF WorkInv, WorkTyped, Recorded, Accounted
  <2> QED BY <1>0, <2>1, <2>2 DEF Ops, Written
<1>3. \A q \in Requests : work'[q] = IF q = r THEN Idle ELSE work[q]
  BY <1>1 DEF WorkInv, WorkTyped
<1>4. \A j \in Intents : row'[j] = IF j = i THEN Written(r) ELSE row[j]
  BY <1>0 DEF Save, Written, WorkInv, WorkTyped
<1>5. \A j \in Intents : j # i => shown'[j] = shown[j]
  BY <1>1 DEF WorkInv, WorkTyped
<1>6. Minted(i)' => Written(r).decision = "allow" \/ i \in raced'
  <2>1. CASE work[r].op = "approve"
    BY <1>0, <1>1, <2>1 DEF WorkInv, Written
  <2>2. CASE work[r].op = "mint"
    BY <1>0, <1>1, <2>2 DEF Written
  <2>3. CASE work[r].op = "move"
    BY <1>0, <1>1, <2>3 DEF WorkInv, Written, Accounted
  <2>4. CASE work[r].op \in {"decide", "sweep"}
    <3>1. shown' = shown /\ row[i].decision # "allow"
      BY <1>0, <1>1, <2>4, AbsentRow DEF WorkInv
    <3> QED BY <1>1, <3>1 DEF Minted, WorkInv, WorkTyped, Accounted
  <2> QED BY <1>2, <2>1, <2>2, <2>3, <2>4 DEF Ops
<1>7. row' \in [Intents -> Rows \cup {Absent}] /\ DOMAIN shown' = Intents /\ DOMAIN work' = Requests
  BY <1>0, <1>1, <1>2 DEF Save, WorkInv, WorkTyped
<1>8. \A j \in Intents : Accounted(j) => Accounted(j)'
  <2>1. row[i].decision = "allow" => Written(r).decision = "allow"
    BY <1>0, <1>1, <1>2, AbsentRow DEF WorkInv, Written, Ops
  <2> QED BY <1>1, <1>2, <1>4, <2>1, AbsentRow DEF Accounted, Recorded
<1>m. \A j \in Intents : Minted(j)' => Accounted(j)'
  <2>1. Minted(i)' => Accounted(i)'
    BY <1>2, <1>4, <1>6, AbsentRow DEF Accounted, Recorded
  <2>2. \A j \in Intents : j # i /\ Minted(j)' => Accounted(j)'
    BY <1>5, <1>8 DEF WorkInv, WorkTyped, Minted
  <2> QED BY <2>1, <2>2
<1>9. WorkTyped'
  BY <1>3, <1>7, <1>m DEF WorkInv, WorkTyped
<1>10. ASSUME NEW q \in Requests, work'[q] # Idle
       PROVE  LET seen == row'[work'[q].intent].decision
                  written == work'[q].row.decision
              IN /\ work'[q].op = "decide" => row'[work'[q].intent] = Absent
                 /\ work'[q].op = "mint" => Recorded(work[q].intent)'
                 /\ work'[q].op = "move" => Accounted(work[q].intent)'
                 /\ work'[q].op = "approve" => seen = "stepup" /\ written = "allow"
                 /\ work'[q].op = "sweep" => seen \in {"timed", "deny"} /\ written = "deny"
  <2>1. q # r /\ work'[q] = work[q] /\ work[q] # Idle
    BY <1>3, <1>10
  <2>2. work[q].intent \in Intents /\ work[q].op \in Ops
    BY <2>1 DEF WorkInv, WorkTyped
  <2>3. CASE work[q].intent # i
    <3>1. row'[work'[q].intent] = row[work[q].intent]
      BY <1>4, <2>1, <2>2, <2>3
    <3> QED BY <1>8, <2>1, <2>2, <3>1 DEF WorkInv, Recorded
  <2>4. CASE work[q].intent = i /\ work[r].op \in {"mint", "move"}
    <3>1. row'[work'[q].intent] = row[work[q].intent]
      BY <1>0, <1>4, <2>1, <2>4 DEF Written
    <3> QED BY <1>8, <2>1, <2>2, <3>1 DEF WorkInv, Recorded
  <2>5. CASE work[q].intent = i /\ work[r].op \in {"decide", "approve", "sweep"}
    <3>1. row'[work'[q].intent] = work[r].row
      BY <1>4, <2>1, <2>5 DEF Written
    <3>2. ~(work[q].op = work[r].op /\ work[q].op \in {"decide", "approve"})
      BY <1>0, <2>1, <2>5 DEF WorkInv
    <3>3. row'[work'[q].intent] # Absent
      BY <1>2, <2>1, <2>2, <2>5, <3>1, AbsentRow
    <3> QED BY <1>0, <1>1, <1>2, <1>8, <2>1, <2>2, <2>5, <3>1, <3>2, <3>3, AbsentRow
            DEF WorkInv, Recorded, Ops
  <2> QED BY <1>2, <2>3, <2>4, <2>5 DEF Ops
<1>11. \A p, q \in Requests : \A op \in {"decide", "approve"} :
         work'[p].op = op /\ work'[q].op = op /\ work'[p].intent = work'[q].intent => p = q
  BY <1>3, IdleWork DEF WorkInv
<1> QED BY <1>3, <1>9, <1>10, <1>11 DEF WorkInv

LEMMA AllowedRow ==
  ASSUME WorkInv, NEW i \in Intents, Recorded(i)
  PROVE  /\ row[i] \in Rows /\ Allowed(i) \in Rows
         /\ Allowed(i).decision = "allow" /\ Allowed(i).chain = row[i].chain
<1>1. row[i] \in Rows
  BY DEF Recorded, WorkInv, WorkTyped
<1> QED BY <1>1 DEF Allowed, Rows, Decisions

LEMMA WorkStep == ASSUME WorkInv, [EvidenceNext]_evidenceVars PROVE WorkInv'
<1> USE DEF Accounted, Recorded
<1>1. CASE UNCHANGED evidenceVars
  BY <1>1 DEF evidenceVars, WorkInv, WorkTyped, Minted
<1>2. ASSUME NEW r \in Requests, NEW i \in Intents, Decide(r, i) PROVE WorkInv'
  <2>1. PICK new \in Rows : Begin(r, "decide", i, new, <<"proposed", "decided">>)
    BY <1>2 DEF Decide
  <2> QED BY <1>2, <2>1, BeginKeeps DEF Decide, Inserting, Ops
<1>3. ASSUME NEW r \in Requests, NEW i \in Intents, Mint(r, i) PROVE WorkInv'
  <2>1. Recorded(i) /\ Begin(r, "mint", i, Allowed(i), <<"minted">>)
    BY <1>3 DEF Mint
  <2> QED BY <2>1, AllowedRow, BeginKeeps DEF Ops
<1>4. ASSUME NEW r \in Requests, NEW i \in Intents, Approve(r, i) PROVE WorkInv'
  <2>1. /\ Begin(r, "approve", i, Allowed(i), <<"mfa", "minted">>) /\ row[i].decision = "stepup"
        /\ \A q \in Requests : ~(work[q].op = "approve" /\ work[q].intent = i)
    BY <1>4 DEF Approve, Mintable, Inserting
  <2>2. Recorded(i)
    BY <2>1, AbsentRow
  <2> QED BY <2>1, <2>2, AllowedRow, BeginKeeps DEF Ops
<1>5. ASSUME NEW r \in Requests, NEW i \in Intents, Sweep(r, i) PROVE WorkInv'
  <2>1. row[i] \in Rows /\ row[i].decision = "timed"
    BY <1>5, AbsentRow DEF Sweep, Sweepable, WorkInv, WorkTyped
  <2> DEFINE new == [row[i] EXCEPT !.decision = "deny"]
  <2>2. new \in Rows /\ new.decision = "deny"
    BY <2>1 DEF Rows, Decisions
  <2>3. Begin(r, "sweep", i, new, <<"expired">>)
    BY <1>5 DEF Sweep
  <2> HIDE DEF new
  <2> QED BY <2>1, <2>2, <2>3, BeginKeeps DEF Ops
<1>6. ASSUME NEW r \in Requests, NEW i \in Intents, Move(r, i) PROVE WorkInv'
  <2>1. Accounted(i) /\ Begin(r, "move", i, Allowed(i), <<"moved">>)
    BY <1>6 DEF Move, WorkInv, WorkTyped
  <2> QED BY <2>1, AllowedRow, BeginKeeps DEF Ops
<1>7. ASSUME NEW r \in Requests, Lock(r) \/ ReadOwnTail(r) PROVE WorkInv'
  BY <1>7 DEF Lock, ReadOwnTail, WorkInv, WorkTyped, Minted
<1>8. ASSUME NEW r \in Requests, Insert(r) PROVE WorkInv'
  <2>1. \A q \in Requests :
          /\ work'[q].op = work[q].op /\ work'[q].intent = work[q].intent
          /\ work'[q].row = work[q].row
          /\ work'[q] # Idle => work[q] # Idle
    BY <1>8, IdleWork DEF Insert, WorkInv, WorkTyped
  <2>2. row' = row /\ shown' = shown /\ raced' = raced /\ DOMAIN work' = Requests
    BY <1>8 DEF Insert, WorkInv, WorkTyped
  <2>3. WorkTyped'
    BY <2>1, <2>2 DEF WorkInv, WorkTyped, Minted
  <2> QED BY <2>1, <2>2, <2>3 DEF WorkInv
<1>9. ASSUME NEW r \in Requests, Save(r) PROVE WorkInv'
  BY <1>9, SaveKeeps
<1>10. ASSUME NEW r \in Requests, GiveUp(r) PROVE WorkInv'
  BY <1>10, CloseKeeps DEF GiveUp
<1>11. ASSUME NEW i \in Intents, MoveUnnamed(i) PROVE WorkInv'
  BY <1>11 DEF MoveUnnamed, WorkInv, WorkTyped, Minted
<1>12. ASSUME NEW found, Reads(found) PROVE WorkInv'
  BY <1>12 DEF Reads, WorkInv, WorkTyped, Minted
<1>13. ASSUME NEW x \in Chains, ReadIntent(x) \/ \E a \in Agents : ReadTrail(a, x) PROVE WorkInv'
  BY <1>12, <1>13 DEF ReadIntent, ReadTrail
<1>14. ASSUME ReadEvents \/ ReadTransaction \/ \E a \in Agents : VerifyChain(a) PROVE WorkInv'
  BY <1>12, <1>14 DEF ReadEvents, ReadTransaction, VerifyChain
<1> QED BY <1>1, <1>2, <1>3, <1>4, <1>5, <1>6, <1>7, <1>8, <1>9, <1>10, <1>11, <1>13, <1>14
        DEF EvidenceNext

\* A step of the composition is a step of AuditChain or leaves the chains alone:
\* the chain a transaction appends to is that of the row it is going to write.
LEMMA EvidenceStepsAppend ==
  ASSUME WorkInv, [EvidenceNext]_evidenceVars PROVE [Next]_vars
<1>1. ASSUME NEW r \in Requests, work[r].left # <<>> PROVE work[r].row.chain \in Chains
  BY <1>1, IdleWork, AbsentRow DEF WorkInv, WorkTyped
<1>2. ASSUME NEW r \in Requests, Lock(r) \/ ReadOwnTail(r) PROVE Next
  BY <1>1, <1>2 DEF Lock, ReadOwnTail, Next
<1>3. ASSUME NEW r \in Requests, Insert(r) \/ Save(r) PROVE Next
  BY <1>3 DEF Insert, Save, Next
<1>4. ASSUME NEW r \in Requests, GiveUp(r) PROVE [Next]_vars
  BY <1>4 DEF GiveUp, Next
<1>5. ASSUME NEW r \in Requests, NEW i \in Intents,
             Decide(r, i) \/ Mint(r, i) \/ Approve(r, i) \/ Sweep(r, i) \/ Move(r, i)
      PROVE  UNCHANGED vars
  BY <1>5 DEF Decide, Mint, Approve, Sweep, Move, Begin
<1>6. ASSUME NEW i \in Intents, MoveUnnamed(i) PROVE UNCHANGED vars
  BY <1>6 DEF MoveUnnamed
<1>7. ASSUME NEW x \in Chains, ReadIntent(x) \/ \E a \in Agents : ReadTrail(a, x)
      PROVE  UNCHANGED vars
  BY <1>7 DEF ReadIntent, ReadTrail, Reads
<1>8. ASSUME ReadEvents \/ ReadTransaction \/ \E a \in Agents : VerifyChain(a)
      PROVE  UNCHANGED vars
  BY <1>8 DEF ReadEvents, ReadTransaction, VerifyChain, Reads
<1> QED BY <1>2, <1>3, <1>4, <1>5, <1>6, <1>7, <1>8 DEF EvidenceNext, evidenceVars

\* The composition implements the chains, so what is proved of them holds of it: on
\* Postgres the chain of every bundle verifies, and its events were never reordered
\* (app/audit.py; proof_bundle.py:371).
THEOREM EvidenceKeepsChains ==
  ASSUME Locked PROVE EvidenceSpec => []ChainVerifies /\ AppendOnlyLog
<1>1. EvidenceInit => WorkInv /\ Init
  BY WorkInit DEF EvidenceInit
<1>2. WorkInv /\ [EvidenceNext]_evidenceVars => WorkInv' /\ [Next]_vars
  BY WorkStep, EvidenceStepsAppend
<1>3. EvidenceSpec => Spec
  BY <1>1, <1>2, PTL DEF EvidenceSpec, Spec
<1> QED BY <1>3, ChainAlwaysVerifies, ImplementsAuditLog, PTL

\* The events of a transaction have a last one: that of its last insert.
HasLast ==
  \A r \in Requests : pending[r] # {} =>
    \E e \in pending[r] : \A f \in pending[r] : f.id <= e.id

LastInv == TypeOK /\ IdsUnique /\ HasLast

LEMMA LastStep == ASSUME LastInv, [Next]_vars PROVE LastInv'
<1>1. TypeOK' /\ IdsUnique'
  BY AuditTypes, AuditIds DEF LastInv
<1>2. CASE UNCHANGED vars
  BY <1>1, <1>2 DEF LastInv, HasLast, vars
<1>3. ASSUME NEW r \in Requests, NEW x \in Chains, AcquireLock(r, x) \/ ReadTail(r, x)
      PROVE  HasLast'
  BY <1>3 DEF LastInv, HasLast, AcquireLock, ReadTail
<1>4. ASSUME NEW r \in Requests, Flush(r) PROVE HasLast'
  <2>1. PICK t \in tail[r] :
          pending' = [pending EXCEPT ![r] =
                        @ \cup {[id |-> next + 1, chain |-> t.chain, prev |-> t.id]}]
    BY <1>4 DEF Flush
  <2> DEFINE new == [id |-> next + 1, chain |-> t.chain, prev |-> t.id]
  <2>2. \A q \in Requests : pending'[q] = IF q = r THEN pending[r] \cup {new} ELSE pending[q]
    BY <2>1 DEF LastInv, TypeOK
  <2>3. new.id = next + 1 /\ next \in Nat
        /\ \A f \in pending[r] : f.id \in Nat /\ f.id <= next
    BY DEF LastInv, TypeOK, IdsUnique
  <2> HIDE DEF new
  <2>4. \A f \in pending'[r] : f.id <= new.id
    BY <2>2, <2>3
  <2> QED BY <2>2, <2>4 DEF LastInv, HasLast
<1>5. ASSUME NEW r \in Requests, Commit(r) \/ Rollback(r) PROVE HasLast'
  <2>1. \A q \in Requests : pending'[q] = IF q = r THEN {} ELSE pending[q]
    BY <1>5 DEF Commit, Rollback, Closed, LastInv, TypeOK
  <2> QED BY <2>1 DEF LastInv, HasLast
<1> QED BY <1>1, <1>2, <1>3, <1>4, <1>5 DEF Next, LastInv

\* Past the look at the transaction, a bundle is one of a minted authorization.
BundlePast ==
  reader.asks = "bundle" =>
    /\ reader.intent \in Intents
    /\ reader.left \in {<<"events", "transaction", "chain">>, <<"transaction", "chain">>,
                        <<"chain">>, <<>>}
    /\ reader.left \in {<<"chain">>, <<>>} => Minted(reader.intent)

ReaderInv ==
  /\ DOMAIN reader = {"asks", "chain", "left", "intent", "decision", "listed", "policy",
                      "shown", "verified"}
  /\ BundlePast

\* An authorization is never taken back.
LEMMA MintedStays ==
  ASSUME LastInv, WorkInv, [EvidenceNext]_evidenceVars, NEW i \in Intents, Minted(i)
  PROVE  Minted(i)'
<1>1. CASE shown' = shown
  BY <1>1 DEF Minted
<1>2. ASSUME NEW j \in Intents, shown' = [shown EXCEPT ![j] = Unnamed] PROVE Minted(i)'
  BY <1>2 DEF Minted, Unminted, Unnamed, WorkInv, WorkTyped
<1>3. ASSUME NEW r \in Requests, Save(r) PROVE Minted(i)'
  <2>1. PICK e \in pending[r] : \A f \in pending[r] : f.id <= e.id
    BY <1>3 DEF Save, Commit, LastInv, HasLast
  <2>2. LastOf(r) \in pending[r]
    BY <2>1 DEF LastOf
  <2>3. LastOf(r).id # Unminted
    BY <2>2 DEF LastInv, TypeOK, Unminted
  <2>4. shown' = shown \/ shown' = [shown EXCEPT ![work[r].intent] = LastOf(r).id]
    BY <1>3 DEF Save
  <2> QED BY <2>3, <2>4 DEF Minted, WorkInv, WorkTyped
<1>4. shown' = shown \/ (\E j \in Intents : MoveUnnamed(j)) \/ (\E r \in Requests : Save(r))
  BY DEF EvidenceNext, evidenceVars, Decide, Mint, Approve, Sweep, Move, Begin, Lock, ReadOwnTail,
         Insert, GiveUp, ReadIntent, ReadTrail, ReadEvents, ReadTransaction, VerifyChain, Reads
<1> QED BY <1>1, <1>2, <1>3, <1>4 DEF MoveUnnamed

\* What is left of the queries of a bundle after each of them.
LEMMA LeftAfter ==
  ASSUME NEW left \in {<<"events", "transaction", "chain">>, <<"transaction", "chain">>,
                       <<"chain">>, <<>>},
         left # <<>>
  PROVE  /\ Head(left) = "events" => Tail(left) = <<"transaction", "chain">>
         /\ Head(left) = "transaction" => Tail(left) = <<"chain">>
         /\ Head(left) = "chain" => left = <<"chain">> /\ Tail(left) = <<>>
<1>1. CASE left = <<"events", "transaction", "chain">>
  <2>1. Head(left) = "events" /\ Tail(left) = <<"transaction", "chain">>
    BY <1>1
  <2> QED BY <2>1
<1>2. CASE left = <<"transaction", "chain">>
  <2>1. Head(left) = "transaction" /\ Tail(left) = <<"chain">>
    BY <1>2
  <2> QED BY <2>1
<1>3. CASE left = <<"chain">>
  <2>1. Head(left) = "chain" /\ Tail(left) = <<>>
    BY <1>3
  <2> QED BY <1>3, <2>1
<1> QED BY <1>1, <1>2, <1>3

LEMMA ReaderStep ==
  ASSUME LastInv, WorkInv, ReaderInv, [EvidenceNext]_evidenceVars
  PROVE  ReaderInv'
<1>1. CASE reader' = reader
  BY <1>1, MintedStays DEF ReaderInv, BundlePast, Minted
<1>2. ASSUME NEW x \in Chains, ReadIntent(x) PROVE ReaderInv'
  <2>1. PICK i \in Intents :
          reader' = [reader EXCEPT !.asks = "bundle", !.chain = x, !.left = Tail(BundleReads),
                                   !.intent = i, !.decision = row[i].decision]
    BY <1>2 DEF ReadIntent, Reads
  <2>2. Tail(BundleReads) = <<"events", "transaction", "chain">>
    BY DEF BundleReads
  <2> QED BY <2>1, <2>2 DEF ReaderInv, BundlePast
<1>3. ASSUME ReadEvents PROVE ReaderInv'
  <2>1. reader' = [reader EXCEPT !.left = Tail(@), !.listed = Trail(reader.chain),
                                 !.policy = FirstDecided(Trail(reader.chain))]
    BY <1>3 DEF ReadEvents, Reads
  <2>2. reader.left # <<>> /\ Head(reader.left) = "events"
    BY <1>3 DEF ReadEvents, Due
  <2>3. reader.asks = "bundle" => Tail(reader.left) = <<"transaction", "chain">>
    BY <2>2, LeftAfter DEF ReaderInv, BundlePast
  <2>4. /\ DOMAIN reader' = DOMAIN reader
        /\ reader'.asks = reader.asks /\ reader'.intent = reader.intent
        /\ reader'.left = Tail(reader.left)
    BY <2>1 DEF ReaderInv
  <2> QED BY <2>3, <2>4 DEF ReaderInv, BundlePast
<1>4. ASSUME ReadTransaction PROVE ReaderInv'
  <2>1. CASE Minted(reader.intent)
    <3>1. reader' = [reader EXCEPT !.left = Tail(@), !.shown = shown[reader.intent]]
          /\ reader.left # <<>> /\ Head(reader.left) = "transaction" /\ shown' = shown
      BY <1>4, <2>1 DEF ReadTransaction, Due, Reads
    <3>2. reader.asks = "bundle" => Tail(reader.left) = <<"chain">>
      BY <3>1, LeftAfter DEF ReaderInv, BundlePast
    <3>3. /\ DOMAIN reader' = DOMAIN reader
          /\ reader'.asks = reader.asks /\ reader'.intent = reader.intent
          /\ reader'.left = Tail(reader.left)
      BY <3>1 DEF ReaderInv
    <3> QED BY <2>1, <3>1, <3>2, <3>3 DEF ReaderInv, BundlePast, Minted
  <2>2. CASE ~Minted(reader.intent)
    BY <1>4, <2>2 DEF ReadTransaction, Reads, Refused, Nothing, ReaderInv, BundlePast
  <2> QED BY <2>1, <2>2
<1>5. ASSUME NEW a \in Agents, NEW x \in Chains, ReadTrail(a, x) PROVE ReaderInv'
  BY <1>5 DEF ReadTrail, Reads, ReaderInv, BundlePast
<1>6. ASSUME NEW a \in Agents, VerifyChain(a) PROVE ReaderInv'
  <2>1. CASE reader' = Refused
    BY <2>1 DEF Refused, Nothing, ReaderInv, BundlePast
  <2>2. CASE reader' = [reader EXCEPT !.left = Tail(@),
                                      !.verified = L!Linked(Trail(reader.chain))]
    <3>1. reader.left # <<>> /\ Head(reader.left) = "chain" /\ shown' = shown
      BY <1>6 DEF VerifyChain, Due, Reads
    <3>2. reader.asks = "bundle" => reader.left = <<"chain">> /\ Tail(reader.left) = <<>>
      BY <3>1, LeftAfter DEF ReaderInv, BundlePast
    <3>3. /\ DOMAIN reader' = DOMAIN reader
          /\ reader'.asks = reader.asks /\ reader'.intent = reader.intent
          /\ reader'.left = Tail(reader.left)
      BY <2>2 DEF ReaderInv
    <3> QED BY <3>1, <3>2, <3>3 DEF ReaderInv, BundlePast, Minted
  <2> QED BY <1>6, <2>1, <2>2 DEF VerifyChain, Reads
<1>7. \/ reader' = reader
      \/ \E x \in Chains : ReadIntent(x) \/ \E a \in Agents : ReadTrail(a, x)
      \/ ReadEvents \/ ReadTransaction \/ \E a \in Agents : VerifyChain(a)
  BY DEF EvidenceNext, evidenceVars, Decide, Mint, Approve, Sweep, Move, Begin, Lock, ReadOwnTail,
         Insert, Save, GiveUp, MoveUnnamed
<1> QED BY <1>1, <1>2, <1>3, <1>4, <1>5, <1>6, <1>7

\* For every number of agents, intents and requests: a bundle that is served
\* shows an authorization, and the decision of its intent is, and stays, allow,
\* unless a submission that lost the race for the idempotency key has minted for it
\* (submit_payment_intent).  The sweeper and the approval of a step-up never take
\* the same review.
THEOREM AuthorizationStaysAllowed == EvidenceSpec => []AuthorizationStands
<1> DEFINE I == LastInv /\ WorkInv /\ ReaderInv
<1>1. EvidenceInit => I
  <2> SUFFICES ASSUME EvidenceInit PROVE I
    OBVIOUS
  <2>1. LastInv
    BY AuditInit DEF EvidenceInit, LastInv, HasLast, Init, ChainInv
  <2>2. ReaderInv
    BY DEF EvidenceInit, ReaderInv, BundlePast, Nothing
  <2> QED BY <2>1, <2>2, WorkInit
<1>2. I /\ [EvidenceNext]_evidenceVars => I'
  BY WorkStep, EvidenceStepsAppend, LastStep, ReaderStep
<1>3. I => AuthorizationStands
  BY DEF ReaderInv, BundlePast, WorkInv, WorkTyped, Accounted, AuthorizationStands, BundleServed,
         Served
<1> QED BY <1>1, <1>2, <1>3, PTL DEF EvidenceSpec

-----------------------------------------------------------------------------
(* What readers are shown.                                                 *)

LEMMA TrailsLinked ==
  ASSUME L!Linked(events), NEW x PROVE L!Linked(Trail(x))
  BY DEF L!Linked, Trail

\* What is listed is the beginning of its chain.
Prefix(listed) ==
  /\ listed \subseteq events
  /\ \A e \in listed : {f \in events : f.chain = e.chain /\ f.id <= e.id} \subseteq listed

\* A request that still has to verify what it lists is not served.
ShownInv ==
  /\ reader.asks \in {"nothing", "bundle", "trail"}
  /\ reader.asks = "trail" => reader.left \in {<<"chain">>, <<>>}
  /\ Served => reader.verified
  /\ Prefix(reader.listed)

LEMMA PrefixStays ==
  ASSUME TypeOK, TypeOK', [L!Append]_events, NEW listed, Prefix(listed)
  PROVE  /\ listed \subseteq events'
         /\ \A e \in listed : {f \in events' : f.chain = e.chain /\ f.id <= e.id} \subseteq listed
<1>1. CASE events' = events
  BY <1>1 DEF Prefix
<1>2. CASE L!Append
  <2>1. events \subseteq events'
        /\ \A old \in events, new \in events' \ events : old.chain = new.chain => old.id < new.id
    BY <1>2 DEF L!Append
  <2>2. \A e \in events' : e.id \in Nat
    BY DEF TypeOK
  <2>3. ASSUME NEW e \in listed, NEW f \in events', f.chain = e.chain, f.id <= e.id
        PROVE  f \in listed
    <3>1. e \in events /\ e \in events'
      BY <2>1 DEF Prefix
    <3>2. f \in events
      BY <2>1, <2>2, <2>3, <3>1
    <3> QED BY <2>3, <3>2 DEF Prefix
  <2> QED BY <2>1, <2>3 DEF Prefix
<1> QED BY <1>1, <1>2

LEMMA TrailPrefix == ASSUME NEW x PROVE Prefix(Trail(x))
  BY DEF Prefix, Trail

LEMMA ShownStep ==
  ASSUME ChainInv, ChainInv', [L!Append]_events, ReaderInv, ShownInv,
         [EvidenceNext]_evidenceVars
  PROVE  ShownInv'
<1> USE DEF ReaderInv
<1>0. TypeOK /\ TypeOK' /\ L!Linked(events)
  BY DEF ChainInv, ViewsLinked
<1>p. ASSUME NEW listed, Prefix(listed), reader'.listed = listed PROVE Prefix(reader.listed)'
  BY <1>0, <1>p, PrefixStays DEF Prefix
<1>r. \/ reader' = reader
      \/ \E x \in Chains : ReadIntent(x) \/ \E a \in Agents : ReadTrail(a, x)
      \/ ReadEvents \/ ReadTransaction \/ \E a \in Agents : VerifyChain(a)
  BY DEF EvidenceNext, evidenceVars, Decide, Mint, Approve, Sweep, Move, Begin, Lock, ReadOwnTail,
         Insert, Save, GiveUp, MoveUnnamed
<1>n. CASE reader' = Refused
  <2>1. reader'.listed = {} /\ reader'.asks = "nothing"
    BY <1>n DEF Refused, Nothing
  <2> QED BY <2>1 DEF ShownInv, Served, Prefix
<1>1. CASE reader' = reader
  BY <1>1, <1>p DEF ShownInv, Served
<1>2. ASSUME NEW x \in Chains, ReadIntent(x) PROVE ShownInv'
  <2>1. PICK i \in Intents :
          reader' = [reader EXCEPT !.asks = "bundle", !.chain = x, !.left = Tail(BundleReads),
                                   !.intent = i, !.decision = row[i].decision]
    BY <1>2 DEF ReadIntent, Reads
  <2>2. Tail(BundleReads) # <<>>
    BY DEF BundleReads
  <2>3. /\ reader'.asks = "bundle" /\ reader'.left = Tail(BundleReads)
        /\ reader'.listed = reader.listed
    BY <2>1
  <2> QED BY <1>p, <2>2, <2>3 DEF ShownInv, Served
<1>3. ASSUME ReadEvents PROVE ShownInv'
  <2>1. reader' = [reader EXCEPT !.left = Tail(@), !.listed = Trail(reader.chain),
                                 !.policy = FirstDecided(Trail(reader.chain))]
    BY <1>3 DEF ReadEvents, Reads
  <2>2. reader.left # <<>> /\ Head(reader.left) = "events"
    BY <1>3 DEF ReadEvents, Due
  <2>3. reader.asks = "bundle" => Tail(reader.left) = <<"transaction", "chain">>
    BY <2>2, LeftAfter DEF BundlePast
  <2>4. reader.asks # "trail"
    BY <2>2 DEF ShownInv
  <2>5. /\ reader'.asks = reader.asks /\ reader'.left = Tail(reader.left)
        /\ reader'.listed = Trail(reader.chain)
    BY <2>1
  <2> QED BY <1>p, <2>3, <2>4, <2>5, TrailPrefix DEF ShownInv, Served
<1>4. ASSUME ReadTransaction, Minted(reader.intent) PROVE ShownInv'
  <2>1. reader' = [reader EXCEPT !.left = Tail(@), !.shown = shown[reader.intent]]
        /\ reader.left # <<>> /\ Head(reader.left) = "transaction"
    BY <1>4 DEF ReadTransaction, Due, Reads
  <2>2. reader.asks = "bundle" => Tail(reader.left) = <<"chain">>
    BY <2>1, LeftAfter DEF BundlePast
  <2>3. reader.asks # "trail"
    BY <2>1 DEF ShownInv
  <2>4. /\ reader'.asks = reader.asks /\ reader'.left = Tail(reader.left)
        /\ reader'.listed = reader.listed
    BY <2>1
  <2> QED BY <1>p, <2>2, <2>3, <2>4 DEF ShownInv, Served
<1>5. ASSUME NEW a \in Agents, NEW x \in Chains, ReadTrail(a, x) PROVE ShownInv'
  <2>1. reader' = [reader EXCEPT !.asks = "trail", !.chain = x, !.left = <<"chain">>,
                                 !.listed = Trail(x)]
    BY <1>5 DEF ReadTrail, Reads
  <2>2. reader'.asks = "trail" /\ reader'.left = <<"chain">> /\ reader'.listed = Trail(x)
    BY <2>1
  <2> QED BY <1>p, <2>2, TrailPrefix DEF ShownInv, Served
<1>6. ASSUME NEW a \in Agents, VerifyChain(a), reader' # Refused PROVE ShownInv'
  <2>1. reader' = [reader EXCEPT !.left = Tail(@), !.verified = L!Linked(Trail(reader.chain))]
    BY <1>6 DEF VerifyChain, Reads
  <2>2. reader.left # <<>> /\ Head(reader.left) = "chain"
    BY <1>6 DEF VerifyChain, Due
  <2>3. L!Linked(Trail(reader.chain))
    BY <1>0, TrailsLinked
  <2>4. reader'.asks = reader.asks /\ reader'.listed = reader.listed
        /\ reader'.left = Tail(reader.left)
    BY <2>1
  <2>5. reader'.verified
    BY <2>1, <2>3
  <2>6. reader.asks = "trail" => Tail(reader.left) = <<>>
    BY <2>2, LeftAfter DEF ShownInv
  <2> QED BY <1>p, <2>4, <2>5, <2>6 DEF ShownInv, Served
<1> QED BY <1>r, <1>n, <1>1, <1>2, <1>3, <1>4, <1>5, <1>6 DEF ReadTransaction, Reads

\* On Postgres, whatever readers and writers overlap: what is shown as evidence
\* verifies, and no later commit puts an event in front of one that was shown
\* (proof_bundle.py, v1.query_audit, audit.verify_chain).
THEOREM WhatIsShownStays == ASSUME Locked PROVE EvidenceSpec => []ShownIsVerified
<1> DEFINE I == ChainInv /\ LastInv /\ WorkInv /\ ReaderInv /\ ShownInv
<1>1. EvidenceInit => I
  <2> SUFFICES ASSUME EvidenceInit PROVE I
    OBVIOUS
  <2>1. ChainInv /\ LastInv
    BY AuditInit DEF EvidenceInit, LastInv, HasLast, Init, ChainInv
  <2>2. ReaderInv /\ ShownInv
    BY DEF EvidenceInit, ReaderInv, BundlePast, Nothing, ShownInv, Served, Prefix
  <2> QED BY <2>1, <2>2, WorkInit
<1>2. I /\ [EvidenceNext]_evidenceVars => I'
  <2> SUFFICES ASSUME I, [EvidenceNext]_evidenceVars PROVE I'
    OBVIOUS
  <2>1. [Next]_vars
    BY EvidenceStepsAppend
  <2>2. ChainInv' /\ [L!Append]_events
    BY <2>1, AuditStep, StepAppends
  <2> QED BY <2>1, <2>2, WorkStep, LastStep, ReaderStep, ShownStep
<1>3. I => ShownIsVerified
  BY DEF ShownInv, Prefix, ShownIsVerified
<1> QED BY <1>1, <1>2, <1>3, PTL DEF EvidenceSpec
=============================================================================
