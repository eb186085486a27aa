-------------------------- MODULE MCExperimentRuns --------------------------
(***************************************************************************)
(* The constants of the ExperimentRuns runs: two examples uploaded in both *)
(* orders, of which only y has scores for recall, and a client that offers *)
(* recall and a corpus metric.                                             *)
(***************************************************************************)
EXTENDS ExperimentRuns

CONSTANTS x, y

Orders == {<<x, y>>, <<y, x>>}
Scores == [e \in {x, y} |-> IF e = x THEN {"accuracy"} ELSE {"accuracy", "recall"}]
Offers == {{"recall", "ndcg"}}
=============================================================================
