--------------------------- MODULE MCGovernance ---------------------------
(***************************************************************************)
(* Instances of Governance: the limits of the mandates.                    *)
(***************************************************************************)
EXTENDS Governance, TLC

\* Mandate 1 never asks for review; mandate 2 does, and has two budgets.
MCLimits ==
  [m \in Mandates |->
     IF m = 1 THEN [each |-> 5, reviewAbove |-> 5, budgets |-> {[window |-> 1, limit |-> 5]}]
     ELSE [each |-> 5, reviewAbove |-> 2,
           budgets |-> {[window |-> 1, limit |-> 8], [window |-> 0, limit |-> 6]}]]

Symmetry == Permutations(Sessions) \cup Permutations(Keys) \cup Permutations(Challenges)
=============================================================================
