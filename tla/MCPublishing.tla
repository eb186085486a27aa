----------------------------- MODULE MCPublishing -----------------------------
(* Publishing with three clients, two contents of the dataset file. *)
EXTENDS Publishing, TLC

CONSTANTS c1, c2, c3, t1, t2, k1, k2

MCClients == {c1, c2, c3}
MCPast == {c3}
MCContents == {t1, t2}
MCConfigs == {k1, k2}
Alike == Permutations({c1, c2}) \cup Permutations(MCContents) \cup Permutations(MCConfigs)
=============================================================================
