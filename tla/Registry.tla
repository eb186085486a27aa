------------------------------- MODULE Registry -------------------------------
(***************************************************************************)
(* What the API keeps by name and by number (routes/evaluation.py):        *)
(* datasets, evaluators and policies have a slug, evaluators, policies and *)
(* gate sets have numbered versions.  A request reads before it inserts,   *)
(* at READ COMMITTED, and meets a unique index when another was faster:    *)
(* nothing handles that, so it answers 500.                                *)
(*                                                                         *)
(* One evaluator, one policy and the gate sets of one name are followed; a *)
(* configuration stands for its hash.                                      *)
(***************************************************************************)
EXTENDS Integers, Sequences, FiniteSets, FiniteSetsExt, SequencesExt

CONSTANTS
  Clients,   \* programs, each of which does one thing
  Configs,   \* what a version may hold
  Nobody

ASSUME ClientAssumption == Nobody \notin Clients /\ IsFiniteSet(Clients)

Versioned == {"evaluator", "policy", "gates"}

VARIABLES
  named,     \* the kinds whose slug has a committed row
  registry,  \* registry[kind]: the committed versions, as [number, config]
  client     \* client[c]: where it is and what it knows

Fresh == [pc |-> "idle", op |-> "none", kind |-> "none", config |-> Nobody, number |-> 0,
          content |-> Nobody, share |-> 0, quality |-> 0, aborted |-> FALSE, base |-> Nobody, seen |-> FALSE,
          verdict |-> "none", sent |-> 0, compared |-> Nobody, server |-> "none",
          published |-> FALSE, required |-> FALSE, exit |-> -1]

At(c, pc) == client[c].pc = pc
Become(c, rec) == client' = [client EXCEPT ![c] = rec]
Goto(c, pc) == Become(c, [client[c] EXCEPT !.pc = pc])
\* A refused request: a registration is over, a job has a PublishError.
Refuse(c) == Goto(c, IF client[c].op = "job" THEN "exit" ELSE "failed")

NoVersions == [k \in Versioned |-> {}]

(***************************************************************************)
(* Creating something that has a slug.                                     *)
(***************************************************************************)
\* The existing row is returned; a dataset's is refused with 409, and listed.
CheckName(c, kind, next) ==
  /\ Goto(c, IF kind \in named THEN next ELSE "insertName")
  /\ UNCHANGED <<named, registry>>

\* uq_*_project_slug_active
InsertName(c, kind, next) ==
  /\ At(c, "insertName")
  /\ IF kind \in named
       THEN Refuse(c) /\ UNCHANGED named
       ELSE Goto(c, next) /\ named' = named \cup {kind}
  /\ UNCHANGED registry

(***************************************************************************)
(* Creating a version: the same configuration again is the same version,   *)
(* except for gate sets, which every run of a suite creates anew.          *)
(***************************************************************************)
Rows(kind, config) == {r \in registry[kind] : r.config = config}
Highest(kind) == Max({r.number : r \in registry[kind]} \cup {0})

FindConfig(c) ==
  LET kind == client[c].kind
      found == Rows(kind, client[c].config) IN
  /\ At(c, "version")
  /\ \/ \E r \in found :
          Become(c, [client[c] EXCEPT !.pc = "registered", !.number = r.number])
     \/ found = {} /\ Goto(c, "highest")
  /\ UNCHANGED <<named, registry>>

ReadHighest(c) ==
  /\ At(c, "highest")
  /\ Become(c, [client[c] EXCEPT !.pc = "insertVersion", !.number = Highest(client[c].kind) + 1])
  /\ UNCHANGED <<named, registry>>

\* Mutant: the schema of policies, which has no index on the configuration.
BugTaken(kind, row) == \E r \in registry[kind] : r.number = row.number
\* The number is unique for every kind, the configuration for evaluators:
\* uq_evaluator_versions_config.
Taken(kind, row) ==
  \E r \in registry[kind] :
    r.number = row.number \/ (kind = "evaluator" /\ r.config = row.config)

InsertVersion(c) ==
  LET kind == client[c].kind
      row == [number |-> client[c].number, config |-> client[c].config] IN
  /\ At(c, "insertVersion")
  /\ IF Taken(kind, row)
       THEN Refuse(c) /\ UNCHANGED registry
       ELSE /\ IF client[c].op = "job"
                 THEN Become(c, [client[c] EXCEPT !.pc = "experiment", !.number = 0])
                 ELSE Goto(c, "registered")
            /\ registry' = [registry EXCEPT ![kind] = @ \cup {row}]
  /\ UNCHANGED named

\* A person or a script registers an evaluator or a policy.
BeginRegister(c) ==
  /\ At(c, "idle")
  /\ \E kind \in {"evaluator", "policy"}, config \in Configs :
       Become(c, [Fresh EXCEPT !.pc = "name", !.op = "register", !.kind = kind,
                               !.config = config])
  /\ UNCHANGED <<named, registry>>

RegisterStep(c) ==
  \/ BeginRegister(c)
  \/ At(c, "name") /\ CheckName(c, client[c].kind, "version")
  \/ client[c].op = "register" /\ InsertName(c, client[c].kind, "version")
  \/ FindConfig(c) \/ ReadHighest(c) \/ InsertVersion(c)
=============================================================================
