----------------------------- MODULE MCGateway -----------------------------
(* One person, two projects, two keys, two calls; a window allows one        *)
(* request of each class and one refused credential.                         *)
EXTENDS Gateway, TLC

MCLimit == [class \in {"ingest", "read", "write", "auth"} |-> 1]
MCOther == CHOOSE p \in Projects : p # First
MCSession(good) == [user |-> CHOOSE u \in Users : TRUE, good |-> good]
MCStarts ==
  {[role |-> "admin", project |-> First, scope |-> "read", cookie |-> MCSession(FALSE)],
   [role |-> "admin", project |-> MCOther, scope |-> "ingest", cookie |-> MCSession(TRUE)],
   [role |-> "viewer", project |-> MCOther, scope |-> "read", cookie |-> None]}
MCCalls == Permutations(Calls)
=============================================================================
