---------------------------- MODULE MCAgentRun ----------------------------
(***************************************************************************)
(* An instance of AgentRun: the calls a model may emit, and the promise of *)
(* the broker that it does not keep.                                       *)
(***************************************************************************)
EXTENDS AgentRun

Of(name, keys) ==
  [name |-> name, keys |-> keys, bad |-> {}, amount |-> 0, currency |-> "own", txn |-> NoTxn]
Proposal(amount) ==
  [Of("propose_payment", RequiredArguments["propose_payment"]) EXCEPT !.amount = amount]
On(name, t) == [Of(name, Specs[name]) EXCEPT !.txn = t]

\* Well-formed calls within the grant and outside it, ids returned and invented,
\* and one call for each way a call can be malformed.
MCCalls ==
  {Of("get_payment_authority", {}), Proposal(1), Proposal(Cap + 1),
   [Proposal(1) EXCEPT !.currency = "other"],
   On("confirm_payment", 1), On("confirm_payment", 2), On("read_proof", 1),
   Of("transfer", {}), [Proposal(1) EXCEPT !.keys = @ \cup {"limit"}],
   Of("confirm_payment", {}), [On("confirm_payment", 1) EXCEPT !.bad = {"authorization_id"}]}

\* broker.py 178: "this run may execute at most max_consumes payment(s)".
ExecutesAtMost == Cardinality(moved) <= MaxConsumes
=============================================================================
