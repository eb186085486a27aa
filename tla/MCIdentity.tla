----------------------------- MODULE MCIdentity -----------------------------
(* Identity on two people, two organizations and a few overlapping requests. *)
EXTENDS Identity, TLC

CONSTANTS ann, bob, home, other, r1, r2, r3, r4

MCPeople == {ann, bob}
MCOrgs == {home, other}
MCRequests == {r1, r2, r3}
MCFour == {r1, r2, r3, r4}
Symmetry == Permutations(Requests)
=============================================================================
