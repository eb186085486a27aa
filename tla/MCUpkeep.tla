------------------------------- MODULE MCUpkeep -------------------------------
(***************************************************************************)
(* Two projects with different windows, two-day months, a calendar long    *)
(* enough for a month to leave every window, and clocks that are right or  *)
(* a month fast.                                                           *)
(***************************************************************************)
EXTENDS Upkeep, TLC

CONSTANTS p1, p2, k1

MCProjects == <<p1, p2>>
MCTraceDays == (p1 :> 2 @@ p2 :> 1)
MCPayloadDays == [p \in {p1, p2} |-> 1]
MCSkews == {0, 2}
MCPayloads == [p \in {p1, p2} |-> {k1}]
=============================================================================
