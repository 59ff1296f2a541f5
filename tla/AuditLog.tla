----------------------------- MODULE AuditLog -----------------------------
(***************************************************************************)
(* What the audit trail promises its readers: per transaction id, a chain  *)
(* of events that only ever grows at its end, each event naming the one    *)
(* before it.                                                              *)
(***************************************************************************)
EXTENDS Naturals

CONSTANT Chains

VARIABLE log    \* the events a reader can see

\* Ids start at 1, and `prev` = 0 is GENESIS_HASH.  No two events have one
\* hash, so the id stands for it.
Event == [id : Nat \ {0}, chain : Chains, prev : Nat]

\* What verify_chain recomputes: read in the order of ids, every event of a
\* chain carries the hash of the event just before it.
Linked(events) ==
  \A e \in events :
    /\ e.prev < e.id
    /\ e.prev # 0 => \E f \in events : f.chain = e.chain /\ f.id = e.prev
    /\ \A f \in events : f.chain = e.chain => f.id <= e.prev \/ f.id >= e.id

\* No id is used twice: the order of a chain is total.
Ordered(events) ==
  \A e, f \in events : e.id = f.id => e = f

Init == log = {}

\* One transaction may append to several chains.
Append ==
  /\ log \subseteq log'
  /\ \A old \in log, new \in log' \ log : old.chain = new.chain => old.id < new.id
  /\ Linked(log') /\ Ordered(log')

Spec == Init /\ [][Append]_log
=============================================================================
