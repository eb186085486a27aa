----------------------------- MODULE Workspaces -----------------------------
(***************************************************************************)
(* Organizations, invitations and roles (api/routes/accounts.py, and the   *)
(* sign-up of api/routes/auth.py).  A handler checks the caller's role in  *)
(* one statement, the row it is about in the next, and writes at the       *)
(* commit; memberships are unique by organization and person, accounts by  *)
(* email address.                                                          *)
(***************************************************************************)
EXTENDS Accounts

Role(o, p) == members[o][p].role
Exists(o) == \E p \in People : Role(o, p) # "none"
Member(p, o) == Role(o, p) # "none"
MayManage(o, p) == Role(o, p) \in Managers
Row(role, r) == [role |-> role, by |-> r]

\* Mutant: whoever holds the link may spend it.
BugAcceptable(i, p) ==
  ~invitations[i].accepted /\ ~invitations[i].lapsed
Acceptable(i, p) ==
  /\ ~invitations[i].accepted
  /\ ~invitations[i].lapsed
  /\ invitations[i].email = p

Accept(i, r) ==
  invitations' = [invitations EXCEPT ![i].accepted = TRUE, ![i].by = @ \cup {r}]

(***************************************************************************)
(* signup: with an invitation the account joins, without one it gets an    *)
(* organization of its own; either way it is given a session.              *)
(***************************************************************************)
BeginSignup(r) ==
  \E p \in People, i \in {0} \cup DOMAIN invitations :
    /\ Begin(r, [Fresh EXCEPT
         !.pc = IF p \notin accounts /\ (i # 0 => Acceptable(i, p)) THEN "signup" ELSE "failed",
         !.op = "signup", !.who = p, !.item = i])
    /\ UNCHANGED <<accounts, members, tokens, links, invitations, cookie>>

\* users.email is unique: the second of two sign-ups fails.
CommitSignup(r) ==
  /\ At(r, "signup")
  /\ LET p == req[r].who
         i == req[r].item
     IN \/ p \in accounts /\ Fail(r)
        \/ /\ p \notin accounts
           /\ Len(tokens) < MaxTokens
           /\ accounts' = accounts \cup {p}
           /\ tokens' = Issue(tokens, p, 0, 0, r)
           /\ \/ /\ i = 0
                 /\ \E o \in Orgs :
                      ~Exists(o) /\ members' = [members EXCEPT ![o][p] = Row("owner", r)]
                 /\ UNCHANGED invitations
              \/ /\ i # 0
                 /\ members' = [members EXCEPT ![invitations[i].org][p]
                                  = Row(invitations[i].role, r)]
                 /\ Accept(i, r)
           /\ Done(r)
           /\ UNCHANGED <<links, cookie>>

CreateOrg(r) ==
  \E p \in accounts, o \in Orgs :
    /\ ~Exists(o)
    /\ Begin(r, [Fresh EXCEPT !.pc = "done", !.op = "org", !.who = p, !.org = o])
    /\ members' = [members EXCEPT ![o][p] = Row("owner", r)]
    /\ UNCHANGED <<accounts, tokens, links, invitations, cookie>>

(***************************************************************************)
(* invite_member, change_role and remove_member begin with _require.       *)
(***************************************************************************)
Managing == {"invite", "role", "remove"}

BeginManage(r) ==
  \E op \in Managing, p \in accounts, o \in Orgs, target \in People, role \in Assignable :
    /\ Exists(o)
    /\ op # "role" => role = "viewer"
    /\ Begin(r, [Fresh EXCEPT !.pc = IF MayManage(o, p) THEN op ELSE "failed", !.op = op,
                              !.who = p, !.org = o, !.target = target, !.role = role])
    /\ UNCHANGED <<accounts, members, tokens, links, invitations, cookie>>

Invite(r) ==
  /\ At(r, "invite")
  /\ \/ Member(req[r].target, req[r].org) /\ Fail(r)
     \/ /\ ~Member(req[r].target, req[r].org)
        /\ Len(invitations) < MaxInvites
        /\ invitations' = Append(invitations,
             Invitation(req[r].org, req[r].target, req[r].role))
        /\ Done(r)
        /\ UNCHANGED <<accounts, members, tokens, links, cookie>>

\* Mutant: an owner is a member like any other.
BugMayWrite(r) == Member(req[r].target, req[r].org)
\* What the handler reads of its target: an owner keeps the role, and is
\* removed only while the organization has another.
MayWrite(r) ==
  /\ Member(req[r].target, req[r].org)
  /\ Role(req[r].org, req[r].target) = "owner" =>
       /\ req[r].op = "remove"
       /\ \E p \in People \ {req[r].target} : Role(req[r].org, p) = "owner"

ReadTarget(r) ==
  /\ \/ At(r, "role")
     \/ At(r, "remove")
  /\ IF MayWrite(r)
       THEN /\ req' = [req EXCEPT ![r].pc = "write",
                                  ![r].seen = {members[req[r].org][req[r].target].by}]
            /\ UNCHANGED <<accounts, members, tokens, links, invitations, cookie>>
       ELSE Fail(r)

\* The row is written by its id: an update that finds it gone is an error, a
\* delete is not.
CommitWrite(r) ==
  LET o == req[r].org
      p == req[r].target
      there == members[o][p].role # "none" /\ members[o][p].by \in req[r].seen
  IN /\ At(r, "write")
     /\ \/ req[r].op = "role" /\ ~there /\ Fail(r)
        \/ /\ req[r].op = "remove" \/ there
           /\ members' = IF ~there THEN members
                         ELSE IF req[r].op = "remove" THEN [members EXCEPT ![o][p] = NoRow]
                         ELSE [members EXCEPT ![o][p].role = req[r].role]
           /\ Done(r)
           /\ UNCHANGED <<accounts, tokens, links, invitations, cookie>>

(***************************************************************************)
(* accept_invite: an existing member keeps the role; seen is empty when it *)
(* read no membership.                                                     *)
(***************************************************************************)
BeginAccept(r) ==
  \E p \in accounts, i \in DOMAIN invitations :
    /\ Begin(r, [Fresh EXCEPT !.pc = IF Acceptable(i, p) THEN "membership" ELSE "failed",
                              !.op = "accept", !.who = p, !.item = i,
                              !.org = invitations[i].org])
    /\ UNCHANGED <<accounts, members, tokens, links, invitations, cookie>>

ReadMembership(r) ==
  /\ At(r, "membership")
  /\ req' = [req EXCEPT ![r].pc = "join",
       ![r].seen = IF Member(req[r].who, req[r].org)
                     THEN {members[req[r].org][req[r].who].by} ELSE {}]
  /\ UNCHANGED <<accounts, members, tokens, links, invitations, cookie>>

CommitAccept(r) ==
  LET o == req[r].org
      p == req[r].who
  IN /\ At(r, "join")
     /\ \/ req[r].seen = {} /\ Member(p, o) /\ Fail(r)
        \/ /\ req[r].seen # {} \/ ~Member(p, o)
           /\ members' = IF req[r].seen # {} THEN members
                         ELSE [members EXCEPT ![o][p] = Row(invitations[req[r].item].role, r)]
           /\ Accept(req[r].item, r)
           /\ Done(r)
           /\ UNCHANGED <<accounts, tokens, links, cookie>>

WorkspaceStep(r) ==
  \/ BeginSignup(r) \/ CommitSignup(r) \/ CreateOrg(r)
  \/ BeginManage(r) \/ Invite(r) \/ ReadTarget(r) \/ CommitWrite(r)
  \/ BeginAccept(r) \/ ReadMembership(r) \/ CommitAccept(r)
=============================================================================
