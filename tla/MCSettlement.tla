--------------------------- MODULE MCSettlement ---------------------------
(***************************************************************************)
(* What the documentation promises of a settlement and the interleavings   *)
(* of Settlement do not keep.  Each is refuted by a configuration.         *)
(***************************************************************************)
EXTENDS Settlement

\* docs/SECURITY.md, invariant 9: a PAID row never regresses; only a refund or
\* a reversal leaves PAID.
PaidIsFinal ==
  [][txn.state = "PAID" => txn'.state \in {"PAID", "REFUNDED", "REVERSED"}]_vars

\* The behaviours of FairSpec in which sessions do not overlap: enough to refute
\* CaptureIsSettled when an order may see two payment attempts.
FairSerialSpec == SerialSpec /\ Fairness

\* README.md:149 and tests/test_state_reachability.py:26 list EXPIRED and
\* CANCELLED as states a payment reaches: an order that the provider closes is
\* eventually recorded in some state that the reconciler stops scanning, or was
\* never answered for.
ClosedOrderEnds ==
  order \in {"cancelled", "expired"} ~> txn.state \in TerminalStates \cup {"FAILED"}
=============================================================================
