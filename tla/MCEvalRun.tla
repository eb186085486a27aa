----------------------------- MODULE MCEvalRun -----------------------------
(* EvalRun on three examples, two workers and one judge slot. *)
EXTENDS EvalRun

CONSTANTS e1, e2, e3, w1, w2

MCDataset == <<e1, e2, e3>>
MCWorkers == {w1, w2}
MCCosts == {2, 3}
MCShare == <<1, 2>>
=============================================================================
