------------------------- MODULE PaariTransitions -------------------------
(***************************************************************************)
(* The state machine of a provider transaction (app/transitions.py).  It   *)
(* has no variables: the modules that own a transaction row extend it.     *)
(***************************************************************************)

\* Every spelling the table knows, the retired PAYMENT_PENDING included.
TxnStates ==
  {"AUTHORIZED", "PROVIDER_SUBMITTED", "PROVIDER_AUTHORIZED", "CAPTURED",
   "PAYMENT_PENDING", "PROVIDER_UNKNOWN", "FAILED", "PAID", "REFUNDED",
   "REVERSED", "EXPIRED", "CANCELLED", "DECLINED"}

TransitionTable == [from \in TxnStates |->
  CASE from = "AUTHORIZED" ->
         {"PROVIDER_SUBMITTED", "FAILED", "PROVIDER_UNKNOWN", "EXPIRED", "CANCELLED"}
    [] from = "PROVIDER_SUBMITTED" ->
         {"PROVIDER_AUTHORIZED", "CAPTURED", "PAID", "FAILED", "DECLINED", "PROVIDER_UNKNOWN"}
    [] from \in {"PROVIDER_AUTHORIZED", "PAYMENT_PENDING"} ->
         {"CAPTURED", "PAID", "FAILED", "DECLINED", "PROVIDER_UNKNOWN"}
    [] from = "CAPTURED" -> {"PAID", "PROVIDER_UNKNOWN"}
    [] from = "PROVIDER_UNKNOWN" ->
         {"PROVIDER_AUTHORIZED", "CAPTURED", "PAID", "FAILED", "DECLINED", "PROVIDER_SUBMITTED"}
    [] from = "FAILED" -> {"CAPTURED", "PAID"}
    [] from = "PAID" -> {"REFUNDED", "REVERSED"}
    [] OTHER -> {}]

\* Mutant: CAPTURED counted as an end although nothing has confirmed it.
TerminalWithCaptured ==
  {"PAID", "REFUNDED", "REVERSED", "EXPIRED", "CANCELLED", "DECLINED", "CAPTURED"}

\* The rows the reconciler reports as they are and stops scanning.  FAILED is
\* not one of them.
TerminalStates == {"PAID", "REFUNDED", "REVERSED", "EXPIRED", "CANCELLED", "DECLINED"}

\* transition_txn raises IllegalTransitionError exactly when this is false.
Legal(from, to) == to \in TransitionTable[from]
=============================================================================
