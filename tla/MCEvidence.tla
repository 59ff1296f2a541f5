---------------------------- MODULE MCEvidence ----------------------------
(***************************************************************************)
(* Instances of Evidence.                                                  *)
(***************************************************************************)
EXTENDS Evidence, TLC

CONSTANTS a1, a2, i1, i2

\* Two agents with an intent each: they may choose the same transaction id.
MCOwner == i1 :> a1 @@ i2 :> a2

\* The agents are exchanged together with their intents.
Exchanged == a1 :> a2 @@ a2 :> a1 @@ i1 :> i2 @@ i2 :> i1

Symmetry == Permutations(Requests) \cup Permutations(Chains) \cup {Exchanged}

\* A bundle that is served is of an intent that stands as allowed: the same as
\* AuthorizationStands, without the exception for submissions that share an
\* idempotency key.  Not so (MCEvidenceRetry): a denial, or a review that lapsed,
\* is shown as authorized.
OnlyAllowedShown == BundleServed => row[reader.intent].decision = "allow"
=============================================================================
