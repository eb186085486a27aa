------------------------------ MODULE Accounts ------------------------------
(***************************************************************************)
(* The tables behind sign-in and membership (db/models/identity.py), the   *)
(* requests that work on them, and the browser session of the dashboard.   *)
(* Sessions and Workspaces add the handlers; Identity composes them.       *)
(*                                                                         *)
(* A request is one transaction at READ COMMITTED (get_session): it reads  *)
(* committed rows, its own writes are seen by nobody until it commits, and *)
(* an exception rolls all of them back.  A handler is therefore two or     *)
(* three steps: what it reads and decides, and the commit.                 *)
(*                                                                         *)
(* before, by and issuer are history: they are compared with nothing the   *)
(* code does and serve to say which requests overlapped.                   *)
(***************************************************************************)
EXTENDS Integers, Sequences, FiniteSets

CONSTANTS
  People,       \* people with an email address, with or without an account
  Founder,      \* the one who signed up first
  Invited,      \* somebody the founder has invited
  Orgs,
  Home,         \* the organization that sign-up created
  Requests,     \* requests to the API, each made once
  Nobody,
  MaxTokens,    \* bound on the refresh tokens issued
  MaxLinks,     \* bound on the password reset links
  MaxInvites,   \* bound on the invitations
  MaxLapses     \* bound on the credentials that expire

ASSUME PeopleAssumption == {Founder, Invited} \subseteq People /\ Home \in Orgs /\ Nobody \notin Requests

VARIABLES
  accounts,     \* the people who have one
  members,      \* members[o][p]: [role, by], role "none" when there is no row
  tokens,       \* refresh_tokens, in the order of their commits
  links,        \* password_resets
  invitations,
  cookie,       \* the index of the refresh token a browser holds, 0 when none
  req           \* req[r]: the local state of a request

vars == <<accounts, members, tokens, links, invitations, cookie, req>>

Assignable == {"admin", "viewer"}
Roles == Assignable \cup {"owner"}
\* MEMBERS_MANAGE in the role table; developer and reviewer are as viewer here.
Managers == {"owner", "admin"}

NoRow == [role |-> "none", by |-> Nobody]
Fresh == [pc |-> "new", op |-> "none", who |-> Founder, target |-> Founder, org |-> Home,
          role |-> "none", item |-> 0, seen |-> {}, tab |-> FALSE, before |-> {}]
Over == {"done", "failed", "gone"}

Token(p, family, parent, r) ==
  [user |-> p, family |-> family, parent |-> parent, issuer |-> r,
   used |-> FALSE, revoked |-> FALSE, lapsed |-> FALSE]
Link(p) == [user |-> p, spent |-> FALSE, lapsed |-> FALSE, by |-> {}]

Live(i) == ~tokens[i].used /\ ~tokens[i].revoked /\ ~tokens[i].lapsed
Family(f) == {i \in DOMAIN tokens : tokens[i].family = f /\ ~tokens[i].revoked}

\* _issue_session: a login starts a family, a rotation hands its family on.
\* The rows are written when the request commits.
Issue(rows, p, family, parent, r) ==
  Append(rows, Token(p, IF family = 0 THEN Len(rows) + 1 ELSE family, parent, r))

Invitation(o, p, role) ==
  [org |-> o, email |-> p, role |-> role, accepted |-> FALSE, lapsed |-> FALSE, by |-> {}]

\* The state the first sign-up leaves: its owner, its session in the browser, a
\* reset link the founder has asked for and a person invited to administer.
Init ==
  /\ accounts = {Founder}
  /\ members = [o \in Orgs |-> [p \in People |->
       IF o = Home /\ p = Founder THEN [role |-> "owner", by |-> Nobody] ELSE NoRow]]
  /\ tokens = Issue(<<>>, Founder, 0, 0, Nobody)
  /\ links = <<Link(Founder)>>
  /\ invitations = <<Invitation(Home, Invited, "admin")>>
  /\ cookie = 1
  /\ req = [r \in Requests |-> Fresh]

Ended == {r \in Requests : req[r].pc \in Over}
At(r, pc) == req[r].pc = pc

\* What is kept of a request that is over: of one that ends sessions, whose.
Closed(q, pc) ==
  IF q.op \in {"reset", "logout", "replay"}
    THEN [q EXCEPT !.pc = pc, !.seen = {}, !.tab = FALSE]
    ELSE [Fresh EXCEPT !.pc = pc, !.before = q.before]

\* A request that has passed its first checks, or has been turned away by them.
Begin(r, new) ==
  /\ At(r, "new")
  /\ req' = [req EXCEPT ![r] =
       IF new.pc \in Over THEN Closed([new EXCEPT !.before = Ended], new.pc)
                          ELSE [new EXCEPT !.before = Ended]]

Close(r, pc) == req' = [req EXCEPT ![r] = Closed(req[r], pc)]
Done(r) == Close(r, "done")

\* An error is an exception: the session rolls back.
Fail(r) ==
  /\ Close(r, "failed")
  /\ UNCHANGED <<accounts, members, tokens, links, invitations, cookie>>

\* Neither ended before the other began.
Overlapped(p, q) == p \notin req[q].before /\ q \notin req[p].before
=============================================================================
