------------------------- MODULE PaymentLifecycle -------------------------
(***************************************************************************)
(* What one bounded authorization promises its parent and its merchant,    *)
(* whichever rail executes it: it is spent or revoked, not both; what is   *)
(* spent asks a provider for money once; the provider takes the authorized *)
(* value only when asked; and Paari reports a payment as paid only after   *)
(* the money was taken, as refunded only after it was given back.          *)
(*                                                                         *)
(* Settlement.tla and AutonomousSettlement.tla implement it.               *)
(***************************************************************************)
EXTENDS Naturals

VARIABLES
  grant,     \* the one use of the authorization
  requests,  \* requests for money sent to a provider
  money,     \* the authorized value, as the provider's books have it
  report     \* what the row tells whoever asks

Grants  == {"open", "spent", "revoked"}
Reports == {"unsettled", "paid", "refunded"}

lifecycleVars == <<grant, requests, money, report>>

Init == grant = "open" /\ requests = 0 /\ money = "kept" /\ report = "unsettled"

Spend  == grant = "open" /\ grant' = "spent" /\ UNCHANGED <<requests, money, report>>
Revoke == grant = "open" /\ grant' = "revoked" /\ UNCHANGED <<requests, money, report>>

Request ==
  /\ grant = "spent" /\ requests = 0
  /\ requests' = 1
  /\ UNCHANGED <<grant, money, report>>

Take ==
  /\ requests = 1 /\ money = "kept"
  /\ money' = "taken"
  /\ UNCHANGED <<grant, requests, report>>

GiveBack ==
  /\ money = "taken"
  /\ money' = "returned"
  /\ UNCHANGED <<grant, requests, report>>

\* A report may also be withdrawn: the rows are written from old copies.
Report ==
  /\ report' \in Reports
  /\ report' = "paid" => money \in {"taken", "returned"}
  /\ report' = "refunded" => money = "returned"
  /\ UNCHANGED <<grant, requests, money>>

Next == Spend \/ Revoke \/ Request \/ Take \/ GiveBack \/ Report

Spec == Init /\ [][Next]_lifecycleVars
=============================================================================
