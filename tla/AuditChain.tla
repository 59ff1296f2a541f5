---------------------------- MODULE AuditChain ----------------------------
(***************************************************************************)
(* record_audit under concurrent requests.  A request appends any number   *)
(* of events, to any chains, inside its own database transaction, which it *)
(* commits or rolls back as a whole.                                       *)
(*                                                                         *)
(* Locked is the dialect: on Postgres the append takes an advisory lock on *)
(* its chain that lasts as long as the transaction, and transactions write *)
(* side by side; on SQLite acquire_chain_lock does nothing, one            *)
(* transaction writes at a time, and the driver begins the transaction at  *)
(* the first write, so the tail may be read before it.                     *)
(***************************************************************************)
EXTENDS Integers, FiniteSets

CONSTANTS
  Requests,
  Chains,     \* transaction ids, each with its own chain
  Locked,
  MaxId       \* bound on the number of inserts

ASSUME AuditAssumption == Locked \in BOOLEAN /\ MaxId \in Nat

VARIABLES
  events,     \* committed audit_events
  next,       \* the last id given out
  locks,      \* advisory locks each transaction holds
  tail,       \* the tails each request has read and not yet used
  pending     \* events each open transaction has flushed

vars == <<events, next, locks, tail, pending>>

L == INSTANCE AuditLog WITH log <- events

TypeOK ==
  /\ events \subseteq L!Event
  /\ next \in Nat
  /\ locks \in [Requests -> SUBSET Chains]
  /\ tail \in [Requests -> SUBSET [chain : Chains, id : Nat]]
  /\ pending \in [Requests -> SUBSET L!Event]

Init ==
  /\ events = {} /\ next = 0
  /\ locks = [r \in Requests |-> {}]
  /\ tail = [r \in Requests |-> {}]
  /\ pending = [r \in Requests |-> {}]

\* Mutant: only committed events are seen, as a second connection would.
CommittedOnly(r, x) == {e \in events : e.chain = x}

\* A transaction sees what is committed and what it wrote.
Visible(r, x) == {e \in events \cup pending[r] : e.chain = x}

IsTail(r, x, i) ==
  IF Visible(r, x) = {} THEN i = 0
  ELSE \E e \in Visible(r, x) : e.id = i /\ \A f \in Visible(r, x) : f.id <= i

\* Mutant: the lock excludes nobody.
LockIgnored(r, x) == TRUE

MayLock(r, x) == \A q \in Requests \ {r} : x \notin locks[q]

\* pg_advisory_xact_lock waits, and a transaction may take its own lock again.
AcquireLock(r, x) ==
  /\ Locked
  /\ MayLock(r, x)
  /\ locks' = [locks EXCEPT ![r] = @ \cup {x}]
  /\ UNCHANGED <<events, next, tail, pending>>

\* The lock is asked for before the tail is read.
ReadTail(r, x) ==
  /\ tail[r] = {}
  /\ Locked => x \in locks[r]
  /\ \E i \in 0 .. next :
       /\ IsTail(r, x, i)
       /\ tail' = [tail EXCEPT ![r] = {[chain |-> x, id |-> i]}]
  /\ UNCHANGED <<events, next, locks, pending>>

\* Two Postgres transactions insert side by side; SQLite has a single writer.
MayWrite(r) == Locked \/ \A q \in Requests \ {r} : pending[q] = {}

Flush(r) ==
  /\ MayWrite(r)
  /\ next < MaxId
  /\ \E t \in tail[r] :
       pending' = [pending EXCEPT ![r] =
                     @ \cup {[id |-> next + 1, chain |-> t.chain, prev |-> t.id]}]
  /\ next' = next + 1
  /\ tail' = [tail EXCEPT ![r] = {}]
  /\ UNCHANGED <<events, locks>>

Closed(r) ==
  /\ locks' = [locks EXCEPT ![r] = {}]
  /\ tail' = [tail EXCEPT ![r] = {}]
  /\ pending' = [pending EXCEPT ![r] = {}]
  /\ UNCHANGED next

Commit(r) ==
  /\ tail[r] = {} /\ pending[r] # {}
  /\ events' = events \cup pending[r]
  /\ Closed(r)

\* An error, a crash, or the victim of a deadlock between two chains.
Rollback(r) ==
  /\ pending[r] # {} \/ tail[r] # {} \/ locks[r] # {}
  /\ Closed(r)
  /\ UNCHANGED events

Next ==
  \E r \in Requests :
    \/ \E x \in Chains : AcquireLock(r, x) \/ ReadTail(r, x)
    \/ Flush(r) \/ Commit(r) \/ Rollback(r)

Spec == Init /\ [][Next]_vars

-----------------------------------------------------------------------------

\* Whenever a reader asks, verify_chain answers True for every chain
\* (v1.query_audit, proof_bundle): appends of overlapping requests never fork
\* a chain, and a rolled-back request leaves no hole that breaks it.
ChainVerifies == L!Linked(events) /\ L!Ordered(events)

\* Readers of the committed events see logs that only grow at their ends:
\* no event appears later in front of one that was already read.
AppendOnlyLog == L!Spec
=============================================================================
