-------------------------- MODULE MCDatasetVersions --------------------------
(***************************************************************************)
(* The constants of the DatasetVersions runs: two single-example lists     *)
(* with one id in common with a longer one, and one trace to promote.      *)
(***************************************************************************)
EXTENDS DatasetVersions, TLC

CONSTANTS x, y, trace

Lists == {<<x>>, <<y, x>>}
Traces == {trace}
SecondLabel == {2}
Symmetry == Permutations(Requests)
=============================================================================
