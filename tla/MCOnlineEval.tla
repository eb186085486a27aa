---------------------------- MODULE MCOnlineEval ----------------------------
(***************************************************************************)
(* The constants of the online_review run: two traces, the newer of which  *)
(* two trajectory rules fail and a judge rule, which samples neither,      *)
(* escalates.                                                              *)
(***************************************************************************)
EXTENDS OnlineEval

CONSTANTS older, newer, policy, safety, judge

MCOrder == [t \in Targets |-> IF t = older THEN 1 ELSE 2]
Older == {older}
Newer == {newer}
AnyBool == BOOLEAN
NoTrace == {}
=============================================================================
