---------------------------- MODULE MCIdentity ----------------------------
(***************************************************************************)
(* Instances of Identity: which key each delegation binds and who signs.   *)
(***************************************************************************)
EXTENDS Identity, TLC

CONSTANTS d1, d2, d3, d4, k1, k2, k3, p1, p2

\* d1 and d3 bind one key, so a rotation can return to it; d3 is signed by a
\* later key of the parent and ends sooner.
MCBound == [d \in Delegations |-> IF d = d2 THEN k2 ELSE k1]
MCSigner == [d \in Delegations |-> IF d = d3 THEN p2 ELSE p1]
MCOneSigner == [d \in Delegations |-> p1]
\* Two rotations can retire two keys, or return to the first one with d4.
MCThreeKeys == [d \in Delegations |-> CASE d = d2 -> k2 [] d = d3 -> k3 [] OTHER -> k1]
MCUntil == [d \in Delegations |-> IF d = d3 THEN 1 ELSE 2]

Symmetry == Permutations(Requests) \cup Permutations(Agents) \cup Permutations(Creds)
            \cup Permutations(Tokens) \cup Permutations(Nonces) \cup Permutations(Proofs)

\* "Paari credentials are revoked/superseded on rotation" (docs/PHASE7_8.md): an
\* agent of v1, whose credential is committed together with it, has no live one
\* of before its last rotation.
RotationSupersedes ==
  \A c \in Creds :
    Live(c) /\ agents[creds[c].agent].v1 => creds[c].deleg = agents[creds[c].agent].deleg

\* "previous key stays verifiable until key_sunset_at (24h grace for in-flight
\* clients)" (models.py:207): the sunset that a rotation announced is kept,
\* whatever the agent rotates to within it.
GraceIsKept ==
  \A a \in Agents, k \in Keys : clock < told[a].until[k] => KeyAccepted(a, k)
=============================================================================
