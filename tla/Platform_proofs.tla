--------------------------- MODULE Platform_proofs ---------------------------
(***************************************************************************)
(* The platform around the traces, in two parts that share nothing.        *)
(*                                                                         *)
(* Identity, for any people, organizations, requests and bounds: what may  *)
(* be used once is used once but for requests that overlapped, what a      *)
(* reset or a sign-out ended stays ended, who is a member was invited, and *)
(* an organization keeps its owner.                                        *)
(*                                                                         *)
(* Upkeep, the background worker, for any calendar, number of projects,    *)
(* windows, runs and attempts: a run leaves one dead letter at most,       *)
(* retention drops nothing inside a window, and the partitions stay ahead  *)
(* of the calendar.                                                        *)
(***************************************************************************)
EXTENDS Identity, Upkeep, FiniteSetTheorems, SequenceTheorems, WellFoundedInduction, TLAPS

-----------------------------------------------------------------------------
(* The inductive invariant.  Rows are of their tables' types.               *)
Holders == Requests \cup {Nobody}
RowRange == [role : Roles \cup {"none"}, by : Holders]
TokenRange == [user : People, family : Nat \ {0}, parent : Nat, issuer : Holders,
               used : BOOLEAN, revoked : BOOLEAN, lapsed : BOOLEAN]
LinkRange == [user : People, spent : BOOLEAN, lapsed : BOOLEAN, by : SUBSET Requests]
InvitationRange == [org : Orgs, email : People, role : Assignable, accepted : BOOLEAN,
                    lapsed : BOOLEAN, by : SUBSET Requests]

RangesOK ==
  /\ Founder \in accounts /\ accounts \subseteq People
  /\ members \in [Orgs -> [People -> RowRange]]
  /\ tokens \in Seq(TokenRange) /\ links \in Seq(LinkRange)
  /\ invitations \in Seq(InvitationRange)
  /\ cookie \in 0 .. Len(tokens)

\* A rotated token hands its family on, and a used one has been rotated.
TokensOK ==
  \A i \in DOMAIN tokens :
    /\ tokens[i].user \in accounts /\ tokens[i].family \in 1 .. i
    /\ tokens[i].issuer \in Requests => ~At(tokens[i].issuer, "new")
    /\ tokens[i].parent # 0 =>
         /\ tokens[i].parent \in DOMAIN tokens /\ tokens[tokens[i].parent].used
         /\ tokens[tokens[i].parent].family = tokens[i].family
         /\ tokens[i].issuer \in Requests
    /\ tokens[i].used => \E m \in DOMAIN tokens : tokens[m].parent = i

\* Two tokens from one are of requests that overlapped, and a family with two unused
\* tokens, live or not, has such a pair.
Siblings(m, n) == m # n /\ tokens[m].parent # 0 /\ tokens[m].parent = tokens[n].parent
SiblingsOK ==
  \A m, n \in DOMAIN tokens :
    Siblings(m, n) => Overlapped(tokens[m].issuer, tokens[n].issuer)
ForksOK ==
  \A i, j \in DOMAIN tokens :
    (i # j /\ tokens[i].family = tokens[j].family /\ ~tokens[i].used /\ ~tokens[j].used) =>
      \E m, n \in DOMAIN tokens : Siblings(m, n) /\ tokens[m].family = tokens[i].family

\* Who spent a link or an invitation is over, and those who did overlapped.
SpentBy(by) == by \subseteq Ended /\ \A p, q \in by : p # q => Overlapped(p, q)
LinksOK ==
  \A l \in DOMAIN links :
    /\ links[l].user \in accounts /\ SpentBy(links[l].by)
    /\ ~links[l].spent => links[l].by = {}
InvitationsOK ==
  \A i \in DOMAIN invitations :
    /\ SpentBy(invitations[i].by) /\ Exists(invitations[i].org)
    /\ ~invitations[i].accepted => invitations[i].by = {}
    /\ invitations[i].accepted => invitations[i].email \in accounts

\* An organization has exactly one owner; the others in it accepted an invitation.
MembersOK ==
  /\ \A o \in Orgs, p \in People :
       /\ members[o][p].by \in Ended \cup {Nobody}
       /\ Member(p, o) => p \in accounts
       /\ Role(o, p) \in Assignable =>
            \E i \in DOMAIN invitations :
              invitations[i].org = o /\ invitations[i].email = p /\ invitations[i].accepted
  /\ \A o \in Orgs : \A p, q \in People : Role(o, p) = "owner" /\ Role(o, q) = "owner" => p = q
  /\ \A o \in Orgs : Exists(o) => \E p \in People : Role(o, p) = "owner"

(* What a request may count on where it stands, whatever the others have done *)
(* since it read.                                                             *)
Earlier(r) == req[r].before \cup {Nobody}

AnyRequestOK(r) ==
  /\ DOMAIN req[r] = DOMAIN Fresh
  /\ req[r].who \in People /\ req[r].target \in People /\ req[r].org \in Orgs
  /\ req[r].before \subseteq Ended /\ r \notin req[r].before
RotateOK(r) ==
  /\ At(r, "issue") => req[r].op = "login" /\ req[r].who \in accounts
  /\ At(r, "rotate") =>
       /\ req[r].op = "refresh" /\ req[r].item \in DOMAIN tokens
       /\ req[r].who = tokens[req[r].item].user
       /\ \A m \in DOMAIN tokens :
            tokens[m].parent = req[r].item => tokens[m].issuer \notin req[r].before
  /\ At(r, "answered") => req[r].op \in {"login", "refresh"} /\ req[r].item \in DOMAIN tokens
LogoutOK(r) ==
  /\ At(r, "family") \/ At(r, "revoke") => req[r].op = "logout" /\ req[r].item \in DOMAIN tokens
  /\ At(r, "revoke") =>
       \A i \in DOMAIN tokens :
         (tokens[i].family = tokens[req[r].item].family /\ tokens[i].issuer \in Earlier(r)) =>
           tokens[i].revoked \/ i \in req[r].seen
ResetOK(r) ==
  /\ At(r, "mail") => req[r].op = "forgot" /\ req[r].who \in accounts
  /\ At(r, "statements") \/ At(r, "change") =>
       /\ req[r].op = "reset" /\ req[r].item \in DOMAIN links
       /\ req[r].who = links[req[r].item].user
       /\ links[req[r].item].by \cap req[r].before = {}
  /\ At(r, "change") =>
       \A i \in DOMAIN tokens :
         (tokens[i].user = req[r].who /\ tokens[i].issuer \in Earlier(r)) =>
           tokens[i].revoked \/ <<"token", i>> \in req[r].seen
SpendOK(r) ==
  /\ At(r, "signup") => req[r].op = "signup" /\ req[r].item \in {0} \cup DOMAIN invitations
  /\ At(r, "membership") \/ At(r, "join") =>
       /\ req[r].op = "accept" /\ req[r].item \in DOMAIN invitations
       /\ req[r].who \in accounts /\ req[r].org = invitations[req[r].item].org
  /\ (At(r, "signup") /\ req[r].item # 0) \/ At(r, "membership") \/ At(r, "join") =>
       /\ invitations[req[r].item].email = req[r].who
       /\ invitations[req[r].item].by \cap req[r].before = {}
ManageOK(r) ==
  /\ req[r].pc \in Managing \cup {"write"} =>
       /\ req[r].op \in Managing /\ req[r].role \in Assignable /\ Exists(req[r].org)
       /\ req[r].pc \in Managing => req[r].op = req[r].pc
  /\ At(r, "write") =>
       /\ req[r].op # "invite" /\ req[r].seen \subseteq Ended \cup {Nobody}
       /\ members[req[r].org][req[r].target].by \in req[r].seen =>
            Role(req[r].org, req[r].target) # "owner"
DoneOK(r) ==
  At(r, "done") =>
    /\ req[r].op \in {"none", "reset", "logout"}
    /\ req[r].op = "logout" => req[r].item \in DOMAIN tokens
    /\ \A i \in EndedBy(r) : tokens[i].revoked

RequestOK(r) ==
  /\ AnyRequestOK(r) /\ RotateOK(r) /\ LogoutOK(r) /\ ResetOK(r)
  /\ SpendOK(r) /\ ManageOK(r) /\ DoneOK(r)
  /\ At(r, "replay") => req[r].op = "refresh"

RequestsOK == DOMAIN req = Requests /\ \A r \in Requests : RequestOK(r)

TablesOK == TokensOK /\ SiblingsOK /\ ForksOK /\ LinksOK /\ InvitationsOK /\ MembersOK
IInv == RangesOK /\ TablesOK /\ RequestsOK

-----------------------------------------------------------------------------
(* The frame: what every step leaves of the tables and of the requests that *)
(* do not take it.  r is the request that steps, Nobody when none does.     *)
TokensGrow(r) ==
  /\ \A i \in DOMAIN tokens :
       /\ i \in DOMAIN tokens' /\ tokens'[i].user = tokens[i].user
       /\ tokens'[i].family = tokens[i].family /\ tokens'[i].parent = tokens[i].parent
       /\ tokens'[i].issuer = tokens[i].issuer
       /\ tokens[i].revoked => tokens'[i].revoked
  /\ \A i \in DOMAIN tokens' \ DOMAIN tokens : r \in Requests /\ tokens'[i].issuer = r
LinksGrow(r) ==
  \A l \in DOMAIN links :
    l \in DOMAIN links' /\ links'[l].user = links[l].user /\ links'[l].by \subseteq links[l].by \cup {r}
InvitationsGrow(r) ==
  \A i \in DOMAIN invitations :
    /\ i \in DOMAIN invitations' /\ invitations'[i].org = invitations[i].org
    /\ invitations'[i].email = invitations[i].email /\ invitations'[i].by \subseteq invitations[i].by \cup {r}
    /\ invitations[i].accepted => invitations'[i].accepted
MembersChange(r) ==
  /\ \A o \in Orgs : Exists(o) => Exists(o)'
  /\ \A o \in Orgs, p \in People :
       Role(o, p)' = "owner" =>
         \/ Role(o, p) = "owner" /\ members'[o][p].by = members[o][p].by
         \/ r \in Requests /\ members'[o][p].by = r
Turn(r) ==
  /\ DOMAIN req' = Requests
  /\ \A s \in Requests : s # r => req'[s] = req[s]
  /\ r \in Requests => /\ req[r].pc \notin Over /\ ~At(r, "new")'
                       /\ ~At(r, "new") => req'[r].before = req[r].before
Kept(r) ==
  /\ Turn(r) /\ accounts \subseteq accounts'
  /\ TokensGrow(r) /\ LinksGrow(r) /\ InvitationsGrow(r) /\ MembersChange(r)

\* A table that is left alone has grown.
LEMMA Unchanged ==
  ASSUME NEW r
  PROVE  /\ UNCHANGED tokens => TokensGrow(r)
         /\ UNCHANGED links => LinksGrow(r)
         /\ UNCHANGED invitations => InvitationsGrow(r)
         /\ UNCHANGED members => MembersChange(r)
BY DEF TokensGrow, LinksGrow, InvitationsGrow, MembersChange, Exists, Role

\* A request that is over stays so, and knows what it knew.
LEMMA EndedStay ==
  ASSUME RequestsOK, NEW r \in Holders, Turn(r)
  PROVE  /\ Ended \subseteq Ended' /\ r \notin Ended
         /\ \A s \in Requests : ~At(s, "new") => ~At(s, "new")' /\ req'[s].before = req[s].before
BY PeopleAssumption DEF RequestsOK, Turn, Ended, At, Holders

\* Requests that overlapped have.
LEMMA OverlapStays ==
  ASSUME RequestsOK, NEW r \in Holders, Turn(r), NEW p \in Requests, NEW q \in Requests,
         ~At(p, "new"), ~At(q, "new"), Overlapped(p, q)
  PROVE  Overlapped(p, q)'
BY EndedStay DEF Overlapped

\* One that ends with a row it wrote had not when the others began.
LEMMA OverlapsNow ==
  ASSUME RequestsOK, NEW r \in Requests, Turn(r), ~At(r, "new"), NEW q \in Requests,
         ~At(q, "new"), q \notin req[r].before
  PROVE  Overlapped(r, q)' /\ Overlapped(q, r)'
<1>1. r \notin req[q].before
  BY EndedStay DEF RequestsOK, RequestOK, AnyRequestOK, Holders
<1> QED BY <1>1, EndedStay DEF Overlapped, Holders

\* What the others may count on is what they could.
LEMMA OthersKeep ==
  ASSUME RangesOK, TablesOK, RequestsOK, RangesOK', NEW r \in Holders, Kept(r),
         NEW s \in Requests, s # r
  PROVE  RequestOK(s)'
<1>1. /\ RequestOK(s) /\ req'[s] = req[s] /\ Ended \subseteq Ended' /\ r \notin Ended
      /\ req[s].before \subseteq Ended
  BY EndedStay DEF RequestsOK, RequestOK, AnyRequestOK, Kept, Turn
<1>2. r \notin req[s].before /\ r \notin Earlier(s) \ {Nobody} /\ (r \in Requests => r # Nobody)
  BY <1>1, PeopleAssumption DEF Earlier
<1>3. /\ accounts \subseteq accounts' /\ TokensGrow(r) /\ LinksGrow(r) /\ InvitationsGrow(r)
      /\ MembersChange(r)
  BY DEF Kept
<1>4. AnyRequestOK(s)'
  BY <1>1 DEF RequestOK, AnyRequestOK
<1>5. RotateOK(s)'
  <2>1. CASE At(s, "rotate")
    <3>1. /\ req[s].item \in DOMAIN tokens /\ req[s].who = tokens[req[s].item].user
          /\ \A m \in DOMAIN tokens :
               tokens[m].parent = req[s].item => tokens[m].issuer \notin req[s].before
      BY <1>1, <2>1 DEF RequestOK, RotateOK
    <3>2. ASSUME NEW m \in DOMAIN tokens', tokens'[m].parent = req[s].item
          PROVE  tokens'[m].issuer \notin req[s].before
      BY <3>1, <3>2, <1>2, <1>3 DEF TokensGrow
    <3> QED BY <1>1, <1>3, <2>1, <3>1, <3>2 DEF RequestOK, RotateOK, At, TokensGrow
  <2> QED BY <1>1, <1>3, <2>1 DEF RequestOK, RotateOK, At, TokensGrow
<1>6. LogoutOK(s)'
  <2>1. At(s, "family") \/ At(s, "revoke") =>
          /\ req[s].item \in DOMAIN tokens /\ req[s].item \in DOMAIN tokens'
          /\ tokens'[req[s].item].family = tokens[req[s].item].family
    BY <1>1, <1>3 DEF RequestOK, LogoutOK, TokensGrow
  <2>2. ASSUME At(s, "revoke"), NEW i \in DOMAIN tokens',
               tokens'[i].family = tokens'[req[s].item].family, tokens'[i].issuer \in Earlier(s)
        PROVE  tokens'[i].revoked \/ i \in req[s].seen
    <3>1. i \in DOMAIN tokens
      BY <1>2, <1>3, <2>2 DEF TokensGrow
    <3> QED BY <1>1, <1>3, <2>1, <2>2, <3>1 DEF RequestOK, LogoutOK, TokensGrow
  <2> QED BY <1>1, <2>1, <2>2 DEF RequestOK, LogoutOK, At, Earlier
<1>7. ResetOK(s)'
  <2>1. At(s, "statements") \/ At(s, "change") =>
          /\ req[s].item \in DOMAIN links'
          /\ req[s].who = links'[req[s].item].user
          /\ links'[req[s].item].by \cap req[s].before = {}
    <3>1. At(s, "statements") \/ At(s, "change") =>
          /\ req[s].item \in DOMAIN links
          /\ req[s].who = links[req[s].item].user
          /\ links[req[s].item].by \cap req[s].before = {}
      BY <1>1 DEF RequestOK, ResetOK
    <3> QED BY <1>2, <1>3, <3>1 DEF LinksGrow
  <2>2. ASSUME At(s, "change"), NEW i \in DOMAIN tokens',
               tokens'[i].user = req[s].who, tokens'[i].issuer \in Earlier(s)
        PROVE  tokens'[i].revoked \/ <<"token", i>> \in req[s].seen
    <3>1. i \in DOMAIN tokens
      BY <1>2, <1>3, <2>2 DEF TokensGrow
    <3> QED BY <1>1, <1>3, <2>2, <3>1 DEF RequestOK, ResetOK, TokensGrow
  <2> QED BY <1>1, <1>3, <2>1, <2>2 DEF RequestOK, ResetOK, At, Earlier
<1>8. SpendOK(s)'
  <2>1. At(s, "membership") \/ At(s, "join") =>
          /\ req[s].op = "accept" /\ req[s].item \in DOMAIN invitations
          /\ req[s].who \in accounts /\ req[s].org = invitations[req[s].item].org
    BY <1>1 DEF RequestOK, SpendOK
  <2>2. At(s, "signup") => req[s].op = "signup" /\ req[s].item \in {0} \cup DOMAIN invitations
    BY <1>1 DEF RequestOK, SpendOK
  <2>3. (At(s, "signup") /\ req[s].item # 0) \/ At(s, "membership") \/ At(s, "join") =>
          /\ req[s].item \in DOMAIN invitations
          /\ invitations[req[s].item].email = req[s].who
          /\ invitations[req[s].item].by \cap req[s].before = {}
    BY <1>1, <2>1, <2>2 DEF RequestOK, SpendOK
  <2>4. (At(s, "signup") /\ req[s].item # 0) \/ At(s, "membership") \/ At(s, "join") =>
          /\ invitations'[req[s].item].email = req[s].who
          /\ invitations'[req[s].item].by \cap req[s].before = {}
    BY <1>2, <1>3, <2>3 DEF InvitationsGrow
  <2>5. At(s, "membership") \/ At(s, "join") =>
          /\ req[s].item \in DOMAIN invitations' /\ req[s].who \in accounts'
          /\ req[s].org = invitations'[req[s].item].org
    BY <1>3, <2>1 DEF InvitationsGrow
  <2>6. At(s, "signup") => req[s].item \in {0} \cup DOMAIN invitations'
    BY <1>3, <2>2 DEF InvitationsGrow
  <2> QED BY <1>1, <2>1, <2>2, <2>4, <2>5, <2>6 DEF SpendOK, At
<1>9. ManageOK(s)'
  <2>1. req[s].org \in Orgs /\ req[s].target \in People
    BY <1>1 DEF RequestOK, AnyRequestOK
  <2>2. ASSUME At(s, "write"), members'[req[s].org][req[s].target].by \in req[s].seen,
               Role(req[s].org, req[s].target)' = "owner"
        PROVE  FALSE
    <3>1. /\ req[s].seen \subseteq Ended \cup {Nobody}
          /\ members[req[s].org][req[s].target].by \in req[s].seen =>
               Role(req[s].org, req[s].target) # "owner"
      BY <1>1, <2>2 DEF RequestOK, ManageOK
    <3>2. \/ /\ Role(req[s].org, req[s].target) = "owner"
             /\ members'[req[s].org][req[s].target].by = members[req[s].org][req[s].target].by
          \/ r \in Requests /\ members'[req[s].org][req[s].target].by = r
      BY <1>1, <1>3, <2>1, <2>2 DEF MembersChange, Role
    <3> QED BY <1>1, <1>2, <2>2, <3>1, <3>2
  <2> QED BY <1>1, <1>3, <2>1, <2>2 DEF RequestOK, ManageOK, At, MembersChange, Role
<1>10. DoneOK(s)'
  <2>1. At(s, "done") =>
          /\ req[s].op = "logout" => /\ req[s].item \in DOMAIN tokens /\ req[s].item \in DOMAIN tokens'
                                     /\ tokens'[req[s].item].family = tokens[req[s].item].family
    BY <1>1, <1>3 DEF RequestOK, DoneOK, TokensGrow
  <2>2. ASSUME At(s, "done"), NEW i \in EndedBy(s)' PROVE tokens'[i].revoked
    <3>1. i \in DOMAIN tokens' /\ tokens'[i].issuer \in Earlier(s)
      BY <1>1, <2>2 DEF EndedBy, Earlier
    <3>2. i \in DOMAIN tokens
      BY <1>2, <1>3, <3>1 DEF TokensGrow
    <3>3. i \in EndedBy(s)
      BY <1>1, <1>3, <2>1, <2>2, <3>1, <3>2 DEF EndedBy, Earlier, TokensGrow
    <3> QED BY <1>1, <1>3, <2>2, <3>2, <3>3 DEF RequestOK, DoneOK, TokensGrow
  <2> QED BY <1>1, <2>1, <2>2 DEF RequestOK, DoneOK, At
<1> QED BY <1>1, <1>4, <1>5, <1>6, <1>7, <1>8, <1>9, <1>10 DEF RequestOK, At

-----------------------------------------------------------------------------
(* The tables after a step that leaves them, or only marks their rows.      *)
\* A mark on tokens: revoked, expired.
Marked ==
  /\ DOMAIN tokens' = DOMAIN tokens
  /\ \A i \in DOMAIN tokens :
       /\ tokens'[i].user = tokens[i].user /\ tokens'[i].family = tokens[i].family
       /\ tokens'[i].parent = tokens[i].parent /\ tokens'[i].issuer = tokens[i].issuer
       /\ tokens'[i].used = tokens[i].used
       /\ tokens[i].revoked => tokens'[i].revoked

\* The siblings there were have overlapped, and have.
LEMMA OldSiblings ==
  ASSUME RequestsOK, TokensOK, SiblingsOK, NEW r \in Holders, Turn(r), TokensGrow(r),
         NEW m \in DOMAIN tokens, NEW n \in DOMAIN tokens, Siblings(m, n)
  PROVE  Overlapped(tokens[m].issuer, tokens[n].issuer)'
<1>1. /\ tokens[m].issuer \in Requests /\ tokens[n].issuer \in Requests
      /\ ~At(tokens[m].issuer, "new") /\ ~At(tokens[n].issuer, "new")
  BY DEF TokensOK, Siblings
<1>2. Overlapped(tokens[m].issuer, tokens[n].issuer)
  BY DEF SiblingsOK
<1>3. /\ tokens'[m].issuer = tokens[m].issuer /\ tokens'[n].issuer = tokens[n].issuer
      /\ req'[tokens[m].issuer].before = req[tokens[m].issuer].before
      /\ req'[tokens[n].issuer].before = req[tokens[n].issuer].before
  BY <1>1, EndedStay DEF TokensGrow
<1> QED BY <1>2, <1>3 DEF Overlapped

\* Marks on tokens disturb no family.
LEMMA MarkedTokens ==
  ASSUME RequestsOK, TokensOK, SiblingsOK, ForksOK, NEW r \in Holders, Turn(r),
         accounts \subseteq accounts', Marked
  PROVE  TokensOK' /\ SiblingsOK' /\ ForksOK' /\ TokensGrow(r)
<1>1. TokensGrow(r)
  BY DEF TokensGrow, Marked
<1>2. TokensOK'
  <2>1. ASSUME NEW i \in DOMAIN tokens
        PROVE  /\ tokens'[i].user \in accounts' /\ tokens'[i].family \in 1 .. i
               /\ (tokens[i].issuer \in Requests => ~At(tokens[i].issuer, "new"))'
    <3>1. PICK s : s = tokens[i].issuer
      OBVIOUS
    <3>2. s \in Requests => ~At(s, "new")'
      BY <3>1, EndedStay DEF TokensOK
    <3>3. s = tokens'[i].issuer
      BY <3>1 DEF Marked
    <3>4. (tokens[i].issuer \in Requests => ~At(tokens[i].issuer, "new"))'
      BY <3>2, <3>3 DEF At
    <3>5. tokens'[i].user \in accounts' /\ tokens'[i].family \in 1 .. i
      BY DEF TokensOK, Marked
    <3> QED BY <3>4, <3>5
  <2>2. ASSUME NEW i \in DOMAIN tokens, tokens'[i].parent # 0
        PROVE  /\ tokens'[i].parent \in DOMAIN tokens /\ tokens'[tokens'[i].parent].used
               /\ tokens'[tokens'[i].parent].family = tokens'[i].family
               /\ tokens'[i].issuer \in Requests
    BY <2>2 DEF TokensOK, Marked
  <2>3. ASSUME NEW i \in DOMAIN tokens, tokens'[i].used
        PROVE  \E m \in DOMAIN tokens : tokens'[m].parent = i
    BY <2>3 DEF TokensOK, Marked
  <2>4. DOMAIN tokens' = DOMAIN tokens
    BY DEF Marked
  <2> QED BY <2>1, <2>2, <2>3, <2>4 DEF TokensOK
<1>3. SiblingsOK'
  <2> SUFFICES ASSUME NEW m \in DOMAIN tokens, NEW n \in DOMAIN tokens, Siblings(m, n)'
               PROVE  Overlapped(tokens[m].issuer, tokens[n].issuer)'
    BY DEF SiblingsOK, Marked, Overlapped
  <2>1. Siblings(m, n)
    BY DEF Siblings, Marked
  <2> QED BY <1>1, <2>1, OldSiblings
<1>4. ForksOK'
  BY DEF ForksOK, Siblings, Marked
<1> QED BY <1>1, <1>2, <1>3, <1>4

\* Who spent a row still has.
LEMMA SpentStays ==
  ASSUME RequestsOK, NEW r \in Holders, Turn(r), NEW by, SpentBy(by)
  PROVE  by \subseteq Ended' /\ \A p, q \in by : p # q => Overlapped(p, q)'
<1>1. by \subseteq Ended /\ by \subseteq Ended' /\ by \subseteq Requests
  BY EndedStay DEF SpentBy, Ended
<1>2. \A p \in by : ~At(p, "new") /\ req'[p].before = req[p].before
  BY <1>1, EndedStay DEF Ended, At, Over
<1> QED BY <1>1, <1>2 DEF SpentBy, Overlapped

\* Links that are only marked.
LEMMA MarkedLinks ==
  ASSUME RequestsOK, LinksOK, NEW r \in Holders, Turn(r), accounts \subseteq accounts',
         DOMAIN links' = DOMAIN links,
         \A l \in DOMAIN links :
           /\ links'[l].user = links[l].user /\ links'[l].by = links[l].by
           /\ links[l].spent => links'[l].spent
  PROVE  LinksOK' /\ LinksGrow(r)
<1>1. \A l \in DOMAIN links : SpentBy(links[l].by)'
  <2> TAKE l \in DOMAIN links
  <2>1. links'[l].by = links[l].by /\ SpentBy(links[l].by)
    BY DEF LinksOK
  <2>2. PICK by : by = links[l].by
    OBVIOUS
  <2> QED BY <2>1, <2>2, SpentStays DEF SpentBy
<1> QED BY <1>1 DEF LinksOK, LinksGrow

\* Invitations that are only marked.
LEMMA MarkedInvitations ==
  ASSUME RangesOK, RequestsOK, InvitationsOK, NEW r \in Holders, Turn(r), accounts \subseteq accounts',
         \A o \in Orgs : Exists(o) => Exists(o)',
         DOMAIN invitations' = DOMAIN invitations,
         \A i \in DOMAIN invitations :
           /\ invitations'[i].org = invitations[i].org /\ invitations'[i].email = invitations[i].email
           /\ invitations'[i].by = invitations[i].by
           /\ invitations'[i].accepted = invitations[i].accepted
  PROVE  InvitationsOK' /\ InvitationsGrow(r)
<1>1. \A i \in DOMAIN invitations : SpentBy(invitations[i].by)' /\ Exists(invitations[i].org)'
  <2> TAKE i \in DOMAIN invitations
  <2>1. invitations'[i].by = invitations[i].by /\ SpentBy(invitations[i].by)
    BY DEF InvitationsOK
  <2>2. PICK by : by = invitations[i].by
    OBVIOUS
  <2>3. SpentBy(invitations[i].by)'
    BY <2>1, <2>2, SpentStays DEF SpentBy
  <2>4. invitations[i].org \in Orgs
    <3>1. invitations[i] \in InvitationRange
      BY DEF RangesOK
    <3> QED BY <3>1 DEF InvitationRange
  <2>5. PICK o \in Orgs : o = invitations[i].org
    BY <2>4
  <2>6. Exists(o)' /\ invitations'[i].org = o
    BY <2>5 DEF InvitationsOK
  <2>7. Exists(invitations[i].org)'
    BY <2>6 DEF Exists, Role
  <2> QED BY <2>3, <2>7
<1>2. InvitationsOK'
  BY <1>1 DEF InvitationsOK
<1> QED BY <1>2 DEF InvitationsGrow

\* Nobody joins and nobody leaves.
LEMMA SameMembers ==
  ASSUME RangesOK, RequestsOK, MembersOK, NEW r \in Holders, Turn(r), accounts \subseteq accounts',
         UNCHANGED members, InvitationsGrow(r)
  PROVE  MembersOK' /\ MembersChange(r)
<1>1. MembersChange(r)
  BY Unchanged
<1>2. \A o \in Orgs, p \in People :
        /\ members'[o][p].by \in Ended' \cup {Nobody}
        /\ Member(p, o)' => p \in accounts'
  BY EndedStay DEF MembersOK, Member, Role
<1>3. ASSUME NEW o \in Orgs, NEW p \in People, Role(o, p)' \in Assignable
      PROVE  \E i \in DOMAIN invitations' :
               invitations'[i].org = o /\ invitations'[i].email = p /\ invitations'[i].accepted
  BY <1>3 DEF MembersOK, Role, InvitationsGrow
<1>4. /\ \A o \in Orgs : \A p, q \in People : Role(o, p)' = "owner" /\ Role(o, q)' = "owner" => p = q
      /\ \A o \in Orgs : Exists(o)' => \E p \in People : Role(o, p)' = "owner"
  BY DEF MembersOK, Role, Exists
<1> QED BY <1>1, <1>2, <1>3, <1>4 DEF MembersOK

\* What every step comes down to: the rows and the request that took it.
LEMMA Steps ==
  ASSUME IInv, RangesOK', TablesOK', NEW r \in Holders, Kept(r), r \in Requests => RequestOK(r)'
  PROVE  IInv'
<1>1. \A s \in Requests : RequestOK(s)'
  BY OthersKeep DEF IInv
<1> QED BY <1>1 DEF IInv, RequestsOK, Kept, Turn

\* A step that only moves its request.
LEMMA QuietStep ==
  ASSUME IInv, NEW r \in Requests, Turn(r), RequestOK(r)', cookie' \in 0 .. Len(tokens),
         UNCHANGED <<accounts, members, tokens, links, invitations>>
  PROVE  IInv'
<1>1. r \in Holders
  BY DEF Holders
<1>2. RangesOK'
  BY DEF IInv, RangesOK
<1>3. TokensOK' /\ SiblingsOK' /\ ForksOK' /\ TokensGrow(r)
  BY <1>1, MarkedTokens DEF IInv, TablesOK, Marked
<1>4. LinksOK' /\ LinksGrow(r)
  BY <1>1, MarkedLinks DEF IInv, TablesOK
<1>5. \A o \in Orgs : Exists(o) => Exists(o)'
  BY DEF Exists, Role
<1>6. InvitationsOK' /\ InvitationsGrow(r)
  BY <1>1, <1>5, MarkedInvitations DEF IInv, TablesOK
<1>7. MembersOK' /\ MembersChange(r)
  BY <1>1, <1>6, SameMembers DEF IInv, TablesOK
<1>8. Kept(r)
  BY <1>3, <1>4, <1>6, <1>7 DEF Kept
<1>9. TablesOK'
  BY <1>3, <1>4, <1>6, <1>7 DEF TablesOK
<1> QED BY <1>1, <1>2, <1>8, <1>9, Steps

-----------------------------------------------------------------------------
(* A request begins, moves on, ends.                                        *)
Fields == {"pc", "op", "who", "target", "org", "role", "item", "seen", "tab", "before"}

\* A request has these fields and no others.
LEMMA FreshFields == DOMAIN Fresh = Fields
BY DEF Fresh, Fields

\* A request that has begun knows which were over.
LEMMA Begun ==
  ASSUME IInv, NEW r \in Requests, NEW new, Begin(r, new), DOMAIN new = DOMAIN Fresh,
         new.pc # "new", new.who \in People, new.target \in People, new.org \in Orgs
  PROVE  /\ Turn(r) /\ AnyRequestOK(r)' /\ req'[r].pc = new.pc /\ req'[r].before = Ended
         /\ new.pc \notin Over =>
              \A f \in {"op", "who", "target", "org", "role", "item", "seen", "tab"} : req'[r][f] = new[f]
         /\ new.pc \in Over /\ new.op \notin {"reset", "logout", "replay"} => req'[r].op = "none"
<1>1. PICK old : old = [new EXCEPT !.before = Ended]
  OBVIOUS
<1>2. /\ DOMAIN old = Fields /\ old.before = Ended
      /\ \A f \in Fields \ {"before"} : old[f] = new[f]
  BY <1>1, FreshFields DEF Fields
<1>3. PICK q : q = IF new.pc \in Over THEN Closed(old, new.pc) ELSE old
  OBVIOUS
<1>4. Founder \in People /\ Home \in Orgs
  BY PeopleAssumption
<1>5. /\ DOMAIN q = Fields /\ q.pc = new.pc /\ q.before = Ended
      /\ q.who \in People /\ q.target \in People /\ q.org \in Orgs
      /\ new.pc \notin Over =>
              \A f \in {"op", "who", "target", "org", "role", "item", "seen", "tab"} : q[f] = new[f]
      /\ new.pc \in Over /\ new.op \notin {"reset", "logout", "replay"} => q.op = "none"
  <2>1. CASE new.pc \notin Over
    BY <1>2, <1>3, <2>1 DEF Fields
  <2>2. CASE new.pc \in Over /\ old.op \in {"reset", "logout", "replay"}
    <3>1. q = [old EXCEPT !.pc = new.pc, !.seen = {}, !.tab = FALSE]
      BY <1>3, <2>2 DEF Closed
    <3> QED BY <1>2, <2>2, <3>1 DEF Fields
  <2>3. CASE new.pc \in Over /\ old.op \notin {"reset", "logout", "replay"}
    <3>1. q = [Fresh EXCEPT !.pc = new.pc, !.before = old.before]
      BY <1>3, <2>3 DEF Closed
    <3>2. /\ DOMAIN q = Fields /\ q.pc = new.pc /\ q.before = Ended
          /\ q.who = Founder /\ q.target = Founder /\ q.org = Home /\ q.op = "none"
      BY <1>2, <3>1 DEF Fresh, Fields
    <3> QED BY <1>4, <2>3, <3>2
  <2> QED BY <1>2, <2>1, <2>2, <2>3 DEF Fields
<1>6. DOMAIN req = Requests /\ At(r, "new")
  BY DEF IInv, RequestsOK, Begin
<1>7. req' = [req EXCEPT ![r] = q]
  BY <1>1, <1>3 DEF Begin
<1>8. req'[r] = q /\ DOMAIN req' = Requests /\ \A s \in Requests : s # r => req'[s] = req[s]
  BY <1>6, <1>7
<1>9. Turn(r)
  BY <1>5, <1>6, <1>8 DEF Turn, At, Over
<1>10. Ended \subseteq Ended' /\ r \notin Ended
  BY <1>9, EndedStay DEF IInv, Holders
<1>11. AnyRequestOK(r)'
  BY <1>5, <1>8, <1>10, FreshFields DEF AnyRequestOK
<1> QED BY <1>5, <1>8, <1>9, <1>11

\* What is kept of a request that is over.
LEMMA Ends ==
  ASSUME IInv, NEW r \in Requests, NEW at \in Over, Close(r, at), req[r].pc \notin Over, ~At(r, "new")
  PROVE  /\ Turn(r) /\ AnyRequestOK(r)' /\ At(r, at)'
         /\ req'[r].before = req[r].before
         /\ IF req[r].op \in {"reset", "logout", "replay"}
              THEN req'[r].op = req[r].op /\ req'[r].who = req[r].who /\ req'[r].item = req[r].item
              ELSE req'[r].op = "none"
<1>1. AnyRequestOK(r) /\ DOMAIN req = Requests
  BY DEF IInv, RequestsOK, RequestOK
<1>2. PICK old : old = req[r]
  OBVIOUS
<1>3. PICK q : q = Closed(old, at)
  OBVIOUS
<1>4. DOMAIN old = Fields
  BY <1>1, <1>2, FreshFields DEF AnyRequestOK
<1>5. /\ DOMAIN q = Fields /\ q.pc = at /\ q.before = old.before
      /\ q.who \in People /\ q.target \in People /\ q.org \in Orgs
      /\ IF old.op \in {"reset", "logout", "replay"}
           THEN q.op = old.op /\ q.who = old.who /\ q.item = old.item
           ELSE q.op = "none"
  <2>1. CASE old.op \in {"reset", "logout", "replay"}
    <3>1. q = [old EXCEPT !.pc = at, !.seen = {}, !.tab = FALSE]
      BY <1>3, <2>1 DEF Closed
    <3>2. /\ DOMAIN q = Fields /\ q.pc = at
          /\ \A f \in {"op", "who", "target", "org", "item", "before"} : q[f] = old[f]
      BY <1>4, <3>1 DEF Fields
    <3> QED BY <1>1, <1>2, <2>1, <3>2 DEF AnyRequestOK
  <2>2. CASE old.op \notin {"reset", "logout", "replay"}
    <3>1. q = [Fresh EXCEPT !.pc = at, !.before = old.before]
      BY <1>3, <2>2 DEF Closed
    <3>2. /\ DOMAIN q = Fields /\ q.pc = at /\ q.before = old.before
          /\ q.who = Founder /\ q.target = Founder /\ q.org = Home /\ q.op = "none"
      BY <3>1 DEF Fresh, Fields
    <3> QED BY <2>2, <3>2, PeopleAssumption
  <2> QED BY <2>1, <2>2
<1>6. req' = [req EXCEPT ![r] = q]
  BY <1>2, <1>3 DEF Close
<1>7. req'[r] = q /\ DOMAIN req' = Requests /\ \A s \in Requests : s # r => req'[s] = req[s]
  BY <1>1, <1>6
<1>8. at # "new"
  BY DEF Over
<1>9. Turn(r)
  BY <1>2, <1>5, <1>7, <1>8 DEF Turn, At
<1>10. Ended \subseteq Ended'
  BY <1>9, EndedStay DEF IInv, Holders
<1>11. AnyRequestOK(r)'
  BY <1>1, <1>2, <1>5, <1>7, <1>10, FreshFields DEF AnyRequestOK
<1> QED BY <1>2, <1>5, <1>7, <1>9, <1>11 DEF At

\* A request that is turned away, or that failed, may count on nothing.
LEMMA TurnedAway ==
  ASSUME NEW r \in Requests, AnyRequestOK(r)', req'[r].pc \in {"failed", "gone", "refused"}
  PROVE  RequestOK(r)'
BY DEF RequestOK, RotateOK, LogoutOK, ResetOK, SpendOK, ManageOK, DoneOK, At, Managing

\* One that is done and ended no session promises nothing.
LEMMA NothingEnded ==
  ASSUME NEW r \in Requests, AnyRequestOK(r)', At(r, "done")', req'[r].op = "none"
  PROVE  RequestOK(r)'
<1>1. EndedBy(r)' = {}
  BY DEF EndedBy
<1> QED BY <1>1 DEF RequestOK, RotateOK, LogoutOK, ResetOK, SpendOK, ManageOK, DoneOK, At, Managing

\* An exception rolls everything back.
LEMMA Failing ==
  ASSUME IInv, NEW r \in Requests, Fail(r), req[r].pc \notin Over, ~At(r, "new")
  PROVE  IInv'
<1>1. Close(r, "failed") /\ "failed" \in Over
  BY DEF Fail, Over
<1>2. Turn(r) /\ AnyRequestOK(r)' /\ At(r, "failed")'
  BY <1>1, Ends
<1>3. RequestOK(r)'
  BY <1>2, TurnedAway DEF At
<1>4. cookie' \in 0 .. Len(tokens) /\ UNCHANGED <<accounts, members, tokens, links, invitations>>
  BY DEF Fail, IInv, RangesOK
<1> QED BY <1>2, <1>3, <1>4, QuietStep

\* A request that moves on.
LEMMA Moves ==
  ASSUME IInv, NEW r \in Requests, NEW q, req' = [req EXCEPT ![r] = q], DOMAIN q = Fields,
         q.pc # "new", req[r].pc \notin Over, ~At(r, "new"),
         \A f \in {"who", "target", "org", "before"} : q[f] = req[r][f]
  PROVE  Turn(r) /\ AnyRequestOK(r)' /\ req'[r] = q
<1>1. AnyRequestOK(r) /\ DOMAIN req = Requests
  BY DEF IInv, RequestsOK, RequestOK
<1>2. req'[r] = q /\ DOMAIN req' = Requests /\ \A s \in Requests : s # r => req'[s] = req[s]
  BY <1>1
<1>3. Turn(r)
  BY <1>2 DEF Turn, At
<1>4. Ended \subseteq Ended'
  BY <1>3, EndedStay DEF IInv, Holders
<1> QED BY <1>1, <1>2, <1>3, <1>4, FreshFields DEF AnyRequestOK

\* What the types of the tables say of their rows.
LEMMA Rows ==
  ASSUME RangesOK
  PROVE  /\ Len(tokens) \in Nat /\ DOMAIN tokens = 1 .. Len(tokens)
         /\ Len(links) \in Nat /\ DOMAIN links = 1 .. Len(links)
         /\ Len(invitations) \in Nat /\ DOMAIN invitations = 1 .. Len(invitations)
         /\ \A i \in DOMAIN tokens : tokens[i] \in TokenRange
         /\ \A l \in DOMAIN links : links[l] \in LinkRange
         /\ \A i \in DOMAIN invitations : invitations[i] \in InvitationRange
         /\ \A o \in Orgs, p \in People : members[o][p] \in RowRange
         /\ cookie \in 0 .. Len(tokens)
BY DEF RangesOK

-----------------------------------------------------------------------------
(* Sessions: the steps that only read, or only move the browser's cookie.   *)
LEMMA LoginBegins ==
  ASSUME IInv, NEW r \in Requests, BeginLogin(r)
  PROVE  IInv'
<1>1. PICK p \in accounts, tab \in BOOLEAN :
        Begin(r, [Fresh EXCEPT !.pc = "issue", !.op = "login", !.who = p, !.tab = tab])
  BY DEF BeginLogin
<1>2. PICK new : new = [Fresh EXCEPT !.pc = "issue", !.op = "login", !.who = p, !.tab = tab]
  OBVIOUS
<1>3. /\ DOMAIN new = Fields /\ new.pc = "issue" /\ new.op = "login" /\ new.who = p
      /\ new.target = Founder /\ new.org = Home
  BY <1>2 DEF Fresh, Fields
<1>4. p \in People /\ UNCHANGED <<accounts, members, tokens, links, invitations, cookie>> /\ cookie \in 0 .. Len(tokens)
  BY DEF BeginLogin, tables, IInv, RangesOK
<1>5. Begin(r, new)
  BY <1>1, <1>2
<1>6. /\ Turn(r) /\ AnyRequestOK(r)' /\ req'[r].pc = "issue"
      /\ req'[r].op = "login" /\ req'[r].who = p
  BY <1>5, <1>3, <1>4, Begun, FreshFields, PeopleAssumption DEF Over
<1>7. RequestOK(r)'
  BY <1>4, <1>6 DEF RequestOK, RotateOK, LogoutOK, ResetOK, SpendOK, ManageOK, DoneOK, At, Managing
<1> QED BY <1>4, <1>6, <1>7, QuietStep

\* refresh reads the token it is shown: spent, lapsed, or to be rotated.
LEMMA RefreshBegins ==
  ASSUME IInv, NEW r \in Requests, BeginRefresh(r)
  PROVE  IInv'
<1>1. PICK tab \in BOOLEAN, i \in DOMAIN tokens \cup {cookie} :
        i \in Presented(tab) /\ Begin(r, [Fresh EXCEPT
          !.pc = CASE Replayed(i) -> "replay"
                  [] ~Replayed(i) /\ tokens[i].lapsed -> IF tab THEN "refused" ELSE "failed"
                  [] OTHER -> "rotate",
          !.op = "refresh", !.who = tokens[i].user, !.item = i, !.tab = tab])
  BY DEF BeginRefresh, Presented
<1>2. PICK at : at = CASE Replayed(i) -> "replay"
                  [] ~Replayed(i) /\ tokens[i].lapsed -> IF tab THEN "refused" ELSE "failed"
                  [] OTHER -> "rotate"
  OBVIOUS
<1>3. at \in {"replay", "refused", "failed", "rotate"} /\ (at = "rotate" => ~Replayed(i))
  BY <1>2
<1>4. PICK new : new = [Fresh EXCEPT !.pc = at, !.op = "refresh", !.who = tokens[i].user, !.item = i, !.tab = tab]
  OBVIOUS
<1>5. /\ DOMAIN new = Fields /\ new.pc = at /\ new.op = "refresh" /\ new.who = tokens[i].user
      /\ new.target = Founder /\ new.org = Home /\ new.item = i
  BY <1>4 DEF Fresh, Fields
<1>6. /\ i \in DOMAIN tokens /\ tokens[i] \in TokenRange /\ cookie \in 0 .. Len(tokens)
      /\ UNCHANGED <<accounts, members, tokens, links, invitations, cookie>>
  BY <1>1, Rows DEF BeginRefresh, tables, IInv, Presented
<1>7. tokens[i].user \in People
  BY <1>6 DEF TokenRange
<1>8. Begin(r, new)
  BY <1>1, <1>2, <1>4
<1>9. /\ Turn(r) /\ AnyRequestOK(r)' /\ req'[r].pc = at /\ req'[r].before = Ended
      /\ at # "failed" => req'[r].op = "refresh" /\ req'[r].who = tokens[i].user /\ req'[r].item = i
  BY <1>3, <1>5, <1>7, <1>8, Begun, FreshFields, PeopleAssumption DEF Over
<1>10. CASE at \in {"failed", "refused"}
  <2>1. RequestOK(r)'
    BY <1>9, <1>10, TurnedAway
  <2> QED BY <1>6, <1>9, <2>1, QuietStep
<1>11. CASE at = "replay"
  <2>1. RequestOK(r)'
    BY <1>9, <1>11 DEF RequestOK, RotateOK, LogoutOK, ResetOK, SpendOK, ManageOK, DoneOK, At, Managing
  <2> QED BY <1>6, <1>9, <2>1, QuietStep
<1>12. CASE at = "rotate"
  <2>1. ~tokens[i].used /\ i # 0
    BY <1>3, <1>6, <1>12, Rows DEF Replayed, IInv
  <2>2. \A m \in DOMAIN tokens : tokens[m].parent # i
    BY <1>6, <2>1 DEF IInv, TablesOK, TokensOK
  <2>3. RequestOK(r)'
    BY <1>6, <1>9, <1>12, <2>2
       DEF RequestOK, RotateOK, LogoutOK, ResetOK, SpendOK, ManageOK, DoneOK, At, Managing
  <2> QED BY <1>6, <1>9, <2>3, QuietStep
<1> QED BY <1>3, <1>10, <1>11, <1>12

\* logout reads the token; the family is read by the next statement.
LEMMA LogoutBegins ==
  ASSUME IInv, NEW r \in Requests, BeginLogout(r)
  PROVE  IInv'
<1>1. PICK tab \in BOOLEAN, i \in DOMAIN tokens \cup {cookie} :
        i \in Presented(tab) /\ Begin(r, [Fresh EXCEPT !.pc = "family", !.op = "logout", !.item = i, !.tab = tab,
                               !.who = tokens[i].user])
  BY DEF BeginLogout, Presented
<1>2. PICK new : new = [Fresh EXCEPT !.pc = "family", !.op = "logout", !.item = i, !.tab = tab,
                                     !.who = tokens[i].user]
  OBVIOUS
<1>3. /\ DOMAIN new = Fields /\ new.pc = "family" /\ new.op = "logout" /\ new.who = tokens[i].user
      /\ new.target = Founder /\ new.org = Home /\ new.item = i
  BY <1>2 DEF Fresh, Fields
<1>4. /\ i \in DOMAIN tokens /\ tokens[i] \in TokenRange /\ cookie \in 0 .. Len(tokens)
      /\ UNCHANGED <<accounts, members, tokens, links, invitations, cookie>>
  BY <1>1, Rows DEF BeginLogout, tables, IInv, Presented
<1>5. tokens[i].user \in People
  BY <1>4 DEF TokenRange
<1>6. Begin(r, new)
  BY <1>1, <1>2
<1>7. /\ Turn(r) /\ AnyRequestOK(r)' /\ req'[r].pc = "family"
      /\ req'[r].op = "logout" /\ req'[r].item = i
  BY <1>6, <1>3, <1>5, Begun, FreshFields, PeopleAssumption DEF Over
<1>8. RequestOK(r)'
  BY <1>4, <1>7 DEF RequestOK, RotateOK, LogoutOK, ResetOK, SpendOK, ManageOK, DoneOK, At, Managing
<1> QED BY <1>4, <1>7, <1>8, QuietStep

\* forgot finds the account a link will be made for.
LEMMA ForgotBegins ==
  ASSUME IInv, NEW r \in Requests, BeginForgot(r)
  PROVE  IInv'
<1>1. PICK p \in accounts : Begin(r, [Fresh EXCEPT !.pc = "mail", !.op = "forgot", !.who = p])
  BY DEF BeginForgot
<1>2. PICK new : new = [Fresh EXCEPT !.pc = "mail", !.op = "forgot", !.who = p]
  OBVIOUS
<1>3. /\ DOMAIN new = Fields /\ new.pc = "mail" /\ new.op = "forgot" /\ new.who = p
      /\ new.target = Founder /\ new.org = Home
  BY <1>2 DEF Fresh, Fields
<1>4. p \in People /\ UNCHANGED <<accounts, members, tokens, links, invitations, cookie>> /\ cookie \in 0 .. Len(tokens)
  BY DEF BeginForgot, tables, IInv, RangesOK
<1>5. Begin(r, new)
  BY <1>1, <1>2
<1>6. /\ Turn(r) /\ AnyRequestOK(r)' /\ req'[r].pc = "mail"
      /\ req'[r].op = "forgot" /\ req'[r].who = p
  BY <1>5, <1>3, <1>4, Begun, FreshFields, PeopleAssumption DEF Over
<1>7. RequestOK(r)'
  BY <1>4, <1>6 DEF RequestOK, RotateOK, LogoutOK, ResetOK, SpendOK, ManageOK, DoneOK, At, Managing
<1> QED BY <1>4, <1>6, <1>7, QuietStep

\* A link that may be redeemed has been redeemed by nobody.
LEMMA ResetBegins ==
  ASSUME IInv, NEW r \in Requests, BeginReset(r)
  PROVE  IInv'
<1>1. PICK l \in DOMAIN links :
        Begin(r, [Fresh EXCEPT !.pc = IF Redeemable(l) THEN "statements" ELSE "failed",
                               !.op = "reset", !.item = l, !.who = links[l].user])
  BY DEF BeginReset
<1>2. PICK at : at = IF Redeemable(l) THEN "statements" ELSE "failed"
  OBVIOUS
<1>3. PICK new : new = [Fresh EXCEPT !.pc = at, !.op = "reset", !.item = l, !.who = links[l].user]
  OBVIOUS
<1>4. /\ DOMAIN new = Fields /\ new.pc = at /\ new.op = "reset" /\ new.who = links[l].user
      /\ new.target = Founder /\ new.org = Home /\ new.item = l
  BY <1>3 DEF Fresh, Fields
<1>5. /\ links[l] \in LinkRange /\ cookie \in 0 .. Len(tokens)
      /\ UNCHANGED <<accounts, members, tokens, links, invitations, cookie>>
  BY Rows DEF BeginReset, tables, IInv
<1>6. links[l].user \in People
  BY <1>5 DEF LinkRange
<1>7. Begin(r, new)
  BY <1>1, <1>2, <1>3
<1>8. /\ Turn(r) /\ AnyRequestOK(r)' /\ req'[r].pc = at
      /\ at = "statements" => req'[r].op = "reset" /\ req'[r].who = links[l].user /\ req'[r].item = l
  BY <1>7, <1>2, <1>4, <1>6, Begun, FreshFields, PeopleAssumption DEF Over
<1>9. CASE at = "failed"
  BY <1>5, <1>8, <1>9, TurnedAway, QuietStep
<1>10. CASE at = "statements"
  <2>1. links[l].by = {}
    BY <1>2, <1>10 DEF Redeemable, IInv, TablesOK, LinksOK
  <2>2. RequestOK(r)'
    BY <1>5, <1>8, <1>10, <2>1
       DEF RequestOK, RotateOK, LogoutOK, ResetOK, SpendOK, ManageOK, DoneOK, At, Managing
  <2> QED BY <1>5, <1>8, <2>2, QuietStep
<1> QED BY <1>2, <1>9, <1>10

\* The dashboard's own: a sign-out that reaches nothing, a refresh that is limited.
LEMMA DashboardBegins ==
  ASSUME IInv, NEW r \in Requests, SignOutUnreached(r) \/ LimitRefresh(r)
  PROVE  IInv'
<1>1. PICK at \in {"gone", "refused"}, op \in {"logout", "limited"} :
        Begin(r, [Fresh EXCEPT !.pc = at, !.op = op, !.item = cookie, !.tab = TRUE])
  BY DEF SignOutUnreached, LimitRefresh
<1>2. PICK new : new = [Fresh EXCEPT !.pc = at, !.op = op, !.item = cookie, !.tab = TRUE]
  OBVIOUS
<1>3. DOMAIN new = Fields /\ new.pc = at /\ new.who = Founder /\ new.target = Founder /\ new.org = Home
  BY <1>2 DEF Fresh, Fields
<1>4. UNCHANGED <<accounts, members, tokens, links, invitations>> /\ cookie' \in 0 .. Len(tokens)
  BY Rows DEF SignOutUnreached, LimitRefresh, tables, IInv
<1>5. Begin(r, new)
  BY <1>1, <1>2
<1>6. Turn(r) /\ AnyRequestOK(r)' /\ req'[r].pc = at
  BY <1>5, <1>3, Begun, FreshFields, PeopleAssumption
<1>7. RequestOK(r)'
  BY <1>6, TurnedAway
<1> QED BY <1>4, <1>6, <1>7, QuietStep

\* What a sign-out has seen is the family, but for what came since.
LEMMA FamilyRead ==
  ASSUME IInv, NEW r \in Requests, ReadFamily(r)
  PROVE  IInv'
<1>1. /\ At(r, "family") /\ UNCHANGED <<accounts, members, tokens, links, invitations, cookie>>
      /\ req' = [req EXCEPT ![r].seen = Family(tokens[req[r].item].family), ![r].pc = "revoke"]
  BY DEF ReadFamily, tables
<1>2. RequestOK(r) /\ DOMAIN req = Requests /\ cookie \in 0 .. Len(tokens)
  BY DEF IInv, RequestsOK, RangesOK
<1>3. PICK old : old = req[r]
  OBVIOUS
<1>4. DOMAIN old = Fields /\ old.op = "logout" /\ old.item \in DOMAIN tokens
  BY <1>1, <1>2, <1>3, FreshFields DEF RequestOK, AnyRequestOK, LogoutOK
<1>5. PICK q : q = [old EXCEPT !.seen = Family(tokens[old.item].family), !.pc = "revoke"]
  OBVIOUS
<1>6. /\ DOMAIN q = Fields /\ q.pc = "revoke" /\ q.seen = Family(tokens[old.item].family)
      /\ \A f \in Fields \ {"pc", "seen"} : q[f] = old[f]
  BY <1>4, <1>5 DEF Fields
<1>7. req' = [req EXCEPT ![r] = q]
  BY <1>1, <1>2, <1>3, <1>5
<1>8. Turn(r) /\ AnyRequestOK(r)' /\ req'[r] = q
  <2>1. \A f \in {"who", "target", "org", "before"} : q[f] = req[r][f]
    BY <1>3, <1>6 DEF Fields
  <2>2. req[r].pc = "family"
    BY <1>1 DEF At
  <2>3. req[r].pc \notin Over /\ ~At(r, "new")
    BY <2>2 DEF At, Over
  <2>4. DOMAIN q = Fields /\ q.pc # "new"
    BY <1>6
  <2> QED BY <1>7, <2>1, <2>3, <2>4, Moves
<1>9. ASSUME NEW i \in DOMAIN tokens, tokens[i].family = tokens[q.item].family
      PROVE  tokens[i].revoked \/ i \in q.seen
  BY <1>6, <1>9 DEF Family, Fields
<1>10. RequestOK(r)'
  BY <1>1, <1>4, <1>6, <1>8, <1>9
     DEF RequestOK, RotateOK, LogoutOK, ResetOK, SpendOK, ManageOK, DoneOK, At, Managing, Fields
<1> QED BY <1>1, <1>2, <1>8, <1>10, QuietStep

\* What a reset's statements have seen is every session of that person, but for what came since.
LEMMA StatementsRun ==
  ASSUME IInv, NEW r \in Requests, ResetStatements(r)
  PROVE  IInv'
<1>1. /\ At(r, "statements") /\ UNCHANGED <<accounts, members, tokens, links, invitations, cookie>>
      /\ req' = [req EXCEPT ![r].pc = "change",
           ![r].seen = {<<"token", i>> : i \in OwnTokens(req[r].who)} \cup
                       {<<"link", l>> : l \in {l \in DOMAIN links : links[l].user = req[r].who
                                                               /\ ~links[l].spent}}]
  BY DEF ResetStatements, tables
<1>2. RequestOK(r) /\ DOMAIN req = Requests /\ cookie \in 0 .. Len(tokens)
  BY DEF IInv, RequestsOK, RangesOK
<1>3. PICK old : old = req[r]
  OBVIOUS
<1>4. /\ DOMAIN old = Fields /\ old.op = "reset" /\ old.item \in DOMAIN links
      /\ old.who = links[old.item].user /\ links[old.item].by \cap old.before = {}
  BY <1>1, <1>2, <1>3, FreshFields DEF RequestOK, AnyRequestOK, ResetOK
<1>5. PICK seen : /\ seen = {<<"token", i>> : i \in OwnTokens(old.who)} \cup
                            {<<"link", l>> : l \in {l \in DOMAIN links : links[l].user = old.who
                                                               /\ ~links[l].spent}}
  OBVIOUS
<1>6. PICK q : q = [old EXCEPT !.pc = "change", !.seen = seen]
  OBVIOUS
<1>7. /\ DOMAIN q = Fields /\ q.pc = "change" /\ q.seen = seen
      /\ \A f \in Fields \ {"pc", "seen"} : q[f] = old[f]
  BY <1>4, <1>6 DEF Fields
<1>8. req' = [req EXCEPT ![r] = q]
  BY <1>1, <1>2, <1>3, <1>5, <1>6
<1>9. Turn(r) /\ AnyRequestOK(r)' /\ req'[r] = q
  <2>1. \A f \in {"who", "target", "org", "before"} : q[f] = req[r][f]
    BY <1>3, <1>7 DEF Fields
  <2>2. req[r].pc = "statements"
    BY <1>1 DEF At
  <2>3. req[r].pc \notin Over /\ ~At(r, "new")
    BY <2>2 DEF At, Over
  <2>4. DOMAIN q = Fields /\ q.pc # "new"
    BY <1>7
  <2> QED BY <1>8, <2>1, <2>3, <2>4, Moves
<1>10. ASSUME NEW i \in DOMAIN tokens, tokens[i].user = q.who
       PROVE  tokens[i].revoked \/ <<"token", i>> \in q.seen
  <2>1. CASE ~tokens[i].revoked
    <3>1. i \in OwnTokens(old.who)
      BY <1>7, <1>10, <2>1 DEF OwnTokens, Fields
    <3> QED BY <1>5, <1>7, <3>1
  <2> QED BY <2>1
<1>11. q.op = "reset" /\ q.item = old.item /\ q.who = old.who /\ q.before = old.before
  BY <1>4, <1>7 DEF Fields
<1>12. ResetOK(r)'
  BY <1>1, <1>4, <1>7, <1>9, <1>10, <1>11 DEF ResetOK, At
<1>13. RequestOK(r)'
  BY <1>7, <1>9, <1>12 DEF RequestOK, RotateOK, LogoutOK, SpendOK, ManageOK, DoneOK, At, Managing
<1> QED BY <1>1, <1>2, <1>9, <1>13, QuietStep

\* A replay is refused, and nothing is written.
LEMMA ReplayRefused ==
  ASSUME IInv, NEW r \in Requests, RefuseReplay(r)
  PROVE  IInv'
<1>1. /\ At(r, "replay") /\ UNCHANGED <<accounts, members, tokens, links, invitations, cookie>>
      /\ req' = [req EXCEPT ![r].op = "replay", ![r].tab = FALSE,
                            ![r].pc = IF req[r].tab THEN "refused" ELSE "failed"]
  BY DEF RefuseReplay, tables
<1>2. RequestOK(r) /\ DOMAIN req = Requests /\ cookie \in 0 .. Len(tokens)
  BY DEF IInv, RequestsOK, RangesOK
<1>3. PICK old : old = req[r]
  OBVIOUS
<1>4. DOMAIN old = Fields
  BY <1>2, <1>3, FreshFields DEF RequestOK, AnyRequestOK
<1>5. PICK at \in {"refused", "failed"} : at = IF old.tab THEN "refused" ELSE "failed"
  OBVIOUS
<1>6. PICK q : q = [old EXCEPT !.op = "replay", !.tab = FALSE, !.pc = at]
  OBVIOUS
<1>7. DOMAIN q = Fields /\ q.pc = at /\ \A f \in {"who", "target", "org", "before"} : q[f] = old[f]
  BY <1>4, <1>6 DEF Fields
<1>8. req' = [req EXCEPT ![r] = q]
  BY <1>1, <1>2, <1>3, <1>5, <1>6
<1>9. Turn(r) /\ AnyRequestOK(r)' /\ req'[r] = q
  BY <1>1, <1>3, <1>7, <1>8, Moves DEF At, Over
<1>10. RequestOK(r)'
  BY <1>7, <1>9, TurnedAway
<1> QED BY <1>1, <1>2, <1>9, <1>10, QuietStep

\* The browser stores the session it was given, or is gone.
LEMMA CookieStored ==
  ASSUME IInv, NEW r \in Requests, StoreCookie(r) \/ ClearCookie(r)
  PROVE  IInv'
<1>1. RequestOK(r) /\ cookie \in 0 .. Len(tokens) /\ Len(tokens) \in Nat /\ DOMAIN tokens = 1 .. Len(tokens)
  BY Rows DEF IInv, RequestsOK
<1>2. /\ req[r].pc \in {"answered", "refused"} /\ cookie' \in {req[r].item, 0, cookie}
      /\ cookie' = req[r].item => At(r, "answered") \/ cookie' = 0 \/ cookie' = cookie
      /\ UNCHANGED <<accounts, members, tokens, links, invitations>>
      /\ \/ At(r, "answered") /\ Close(r, "done")
         \/ Close(r, "gone") \/ Close(r, "failed")
  BY DEF StoreCookie, ClearCookie, Done, tables, At
<1>3. cookie' \in 0 .. Len(tokens)
  BY <1>1, <1>2 DEF RequestOK, RotateOK
<1>4. req[r].pc \notin Over /\ ~At(r, "new")
  BY <1>2 DEF At, Over
<1>5. CASE At(r, "answered") /\ Close(r, "done")
  <2>1. req[r].op \in {"login", "refresh"}
    BY <1>1, <1>5 DEF RequestOK, RotateOK
  <2>2. Turn(r) /\ AnyRequestOK(r)' /\ At(r, "done")' /\ req'[r].op = "none"
    BY <1>4, <1>5, <2>1, Ends DEF Over
  <2>3. RequestOK(r)'
    BY <2>2, NothingEnded
  <2> QED BY <1>2, <1>3, <2>2, <2>3, QuietStep
<1>6. CASE Close(r, "gone") \/ Close(r, "failed")
  <2>1. Turn(r) /\ AnyRequestOK(r)' /\ (At(r, "gone")' \/ At(r, "failed")')
    BY <1>4, <1>6, Ends DEF Over
  <2>2. RequestOK(r)'
    BY <2>1, TurnedAway DEF At
  <2> QED BY <1>2, <1>3, <2>1, <2>2, QuietStep
<1> QED BY <1>2, <1>5, <1>6

-----------------------------------------------------------------------------
(* Organizations: the steps that only read.                                 *)
LEMMA SignupBegins ==
  ASSUME IInv, NEW r \in Requests, BeginSignup(r)
  PROVE  IInv'
<1>1. PICK p \in People, i \in {0} \cup DOMAIN invitations :
        Begin(r, [Fresh EXCEPT
          !.pc = IF p \notin accounts /\ (i # 0 => Acceptable(i, p)) THEN "signup" ELSE "failed",
          !.op = "signup", !.who = p, !.item = i])
  BY DEF BeginSignup
<1>2. PICK at \in {"signup", "failed"} :
        at = IF p \notin accounts /\ (i # 0 => Acceptable(i, p)) THEN "signup" ELSE "failed"
  OBVIOUS
<1>3. PICK new : new = [Fresh EXCEPT !.pc = at, !.op = "signup", !.who = p, !.item = i]
  OBVIOUS
<1>4. /\ DOMAIN new = Fields /\ new.pc = at /\ new.op = "signup" /\ new.who = p
      /\ new.target = Founder /\ new.org = Home /\ new.item = i
  BY <1>3 DEF Fresh, Fields
<1>5. UNCHANGED <<accounts, members, tokens, links, invitations, cookie>> /\ cookie \in 0 .. Len(tokens)
  BY DEF BeginSignup, IInv, RangesOK
<1>6. Begin(r, new)
  BY <1>1, <1>2, <1>3
<1>7. /\ Turn(r) /\ AnyRequestOK(r)' /\ req'[r].pc = at
      /\ at = "signup" => req'[r].op = "signup" /\ req'[r].who = p /\ req'[r].item = i
  BY <1>2, <1>4, <1>6, Begun, FreshFields, PeopleAssumption DEF Over
<1>8. CASE at = "failed"
  BY <1>5, <1>7, <1>8, TurnedAway, QuietStep
<1>9. CASE at = "signup"
  <2>1. i # 0 => i \in DOMAIN invitations /\ invitations[i].email = p /\ invitations[i].by = {}
    BY <1>2, <1>9 DEF Acceptable, IInv, TablesOK, InvitationsOK
  <2>2. RequestOK(r)'
    BY <1>5, <1>7, <1>9, <2>1
       DEF RequestOK, RotateOK, LogoutOK, ResetOK, SpendOK, ManageOK, DoneOK, At, Managing
  <2> QED BY <1>5, <1>7, <2>2, QuietStep
<1> QED BY <1>8, <1>9

\* invite, change_role and remove_member check the caller's role first.
LEMMA ManageBegins ==
  ASSUME IInv, NEW r \in Requests, BeginManage(r)
  PROVE  IInv'
<1>1. PICK op \in Managing, p \in accounts, o \in Orgs, target \in People, role \in Assignable :
        /\ Exists(o)
        /\ Begin(r, [Fresh EXCEPT !.pc = IF MayManage(o, p) THEN op ELSE "failed", !.op = op,
                                  !.who = p, !.org = o, !.target = target, !.role = role])
  BY DEF BeginManage
<1>2. PICK at \in Managing \cup {"failed"} : at = IF MayManage(o, p) THEN op ELSE "failed"
  OBVIOUS
<1>3. PICK new : new = [Fresh EXCEPT !.pc = at, !.op = op, !.who = p, !.org = o,
                                     !.target = target, !.role = role]
  OBVIOUS
<1>4. /\ DOMAIN new = Fields /\ new.pc = at /\ new.op = op /\ new.who = p
      /\ new.target = target /\ new.org = o /\ new.role = role
  BY <1>3 DEF Fresh, Fields
<1>5. /\ UNCHANGED <<accounts, members, tokens, links, invitations, cookie>>
      /\ cookie \in 0 .. Len(tokens) /\ p \in People
  BY DEF BeginManage, IInv, RangesOK
<1>6. Begin(r, new)
  BY <1>1, <1>2, <1>3
<1>7. /\ Turn(r) /\ AnyRequestOK(r)' /\ req'[r].pc = at
      /\ at # "failed" => req'[r].op = op /\ req'[r].org = o /\ req'[r].role = role
  BY <1>2, <1>4, <1>5, <1>6, Begun, FreshFields DEF Over, Managing
<1>8. CASE at = "failed"
  BY <1>5, <1>7, <1>8, TurnedAway, QuietStep
<1>9. CASE at # "failed"
  <2>1. at = op /\ Exists(o)'
    BY <1>1, <1>2, <1>5, <1>9 DEF Exists, Role
  <2>2. ManageOK(r)'
    BY <1>7, <1>9, <2>1 DEF ManageOK, At, Managing, Exists, Role
  <2>3. RequestOK(r)'
    BY <1>2, <1>7, <1>9, <2>2 DEF RequestOK, RotateOK, LogoutOK, ResetOK, SpendOK, DoneOK, At, Managing
  <2> QED BY <1>5, <1>7, <2>3, QuietStep
<1> QED BY <1>8, <1>9

\* accept_invite reads the invitation of the caller's address.
LEMMA AcceptBegins ==
  ASSUME IInv, NEW r \in Requests, BeginAccept(r)
  PROVE  IInv'
<1>1. PICK p \in accounts, i \in DOMAIN invitations :
        Begin(r, [Fresh EXCEPT !.pc = IF Acceptable(i, p) THEN "membership" ELSE "failed",
                               !.op = "accept", !.who = p, !.item = i,
                               !.org = invitations[i].org])
  BY DEF BeginAccept
<1>2. PICK at \in {"membership", "failed"} : at = IF Acceptable(i, p) THEN "membership" ELSE "failed"
  OBVIOUS
<1>3. PICK new : new = [Fresh EXCEPT !.pc = at, !.op = "accept", !.who = p, !.item = i,
                                     !.org = invitations[i].org]
  OBVIOUS
<1>4. /\ DOMAIN new = Fields /\ new.pc = at /\ new.op = "accept" /\ new.who = p
      /\ new.target = Founder /\ new.org = invitations[i].org /\ new.item = i
  BY <1>3 DEF Fresh, Fields
<1>5. /\ UNCHANGED <<accounts, members, tokens, links, invitations, cookie>>
      /\ cookie \in 0 .. Len(tokens) /\ p \in People /\ invitations[i] \in InvitationRange
  BY Rows DEF BeginAccept, IInv, RangesOK
<1>6. Begin(r, new) /\ invitations[i].org \in Orgs
  BY <1>1, <1>2, <1>3, <1>5 DEF InvitationRange
<1>7. /\ Turn(r) /\ AnyRequestOK(r)' /\ req'[r].pc = at
      /\ at = "membership" => /\ req'[r].op = "accept" /\ req'[r].who = p /\ req'[r].item = i
                              /\ req'[r].org = invitations[i].org
  BY <1>2, <1>4, <1>5, <1>6, Begun, FreshFields, PeopleAssumption DEF Over
<1>8. CASE at = "failed"
  BY <1>5, <1>7, <1>8, TurnedAway, QuietStep
<1>9. CASE at = "membership"
  <2>1. invitations[i].email = p /\ invitations[i].by = {}
    BY <1>2, <1>9 DEF Acceptable, IInv, TablesOK, InvitationsOK
  <2>2. RequestOK(r)'
    BY <1>5, <1>7, <1>9, <2>1
       DEF RequestOK, RotateOK, LogoutOK, ResetOK, SpendOK, ManageOK, DoneOK, At, Managing
  <2> QED BY <1>5, <1>7, <2>2, QuietStep
<1> QED BY <1>8, <1>9

\* accept_invite then reads the membership it may already have.
LEMMA MembershipRead ==
  ASSUME IInv, NEW r \in Requests, ReadMembership(r)
  PROVE  IInv'
<1>1. PICK seen : req' = [req EXCEPT ![r].pc = "join", ![r].seen = seen]
  BY DEF ReadMembership
<1>2. /\ RequestOK(r) /\ DOMAIN req = Requests /\ cookie \in 0 .. Len(tokens) /\ At(r, "membership")
      /\ UNCHANGED <<accounts, members, tokens, links, invitations, cookie>>
  BY DEF IInv, RequestsOK, RangesOK, ReadMembership
<1>3. PICK old : old = req[r]
  OBVIOUS
<1>4. DOMAIN old = Fields
  BY <1>2, <1>3, FreshFields DEF RequestOK, AnyRequestOK
<1>5. PICK q : q = [old EXCEPT !.pc = "join", !.seen = seen]
  OBVIOUS
<1>6. /\ DOMAIN q = Fields /\ q.pc = "join"
      /\ \A f \in {"who", "target", "org", "before", "op", "item"} : q[f] = old[f]
  BY <1>4, <1>5 DEF Fields
<1>7. req' = [req EXCEPT ![r] = q]
  BY <1>1, <1>2, <1>3, <1>5
<1>8. Turn(r) /\ AnyRequestOK(r)' /\ req'[r] = q
  BY <1>2, <1>3, <1>6, <1>7, Moves DEF At, Over
<1>9. SpendOK(r)'
  BY <1>2, <1>3, <1>6, <1>8 DEF RequestOK, SpendOK, At
<1>10. RequestOK(r)'
  BY <1>6, <1>8, <1>9 DEF RequestOK, RotateOK, LogoutOK, ResetOK, ManageOK, DoneOK, At, Managing
<1> QED BY <1>2, <1>8, <1>10, QuietStep

\* The owner's row is not written: there is no other owner.
LEMMA TargetRead ==
  ASSUME IInv, NEW r \in Requests, ReadTarget(r)
  PROVE  IInv'
<1>1. RequestOK(r) /\ DOMAIN req = Requests /\ cookie \in 0 .. Len(tokens)
  BY DEF IInv, RequestsOK, RangesOK
<1>2. req[r].pc \in {"role", "remove"} /\ req[r].pc \notin Over /\ ~At(r, "new")
  BY DEF ReadTarget, At, Over
<1>3. CASE Fail(r)
  BY <1>2, <1>3, Failing
<1>4. CASE ~Fail(r)
  <2>1. /\ MayWrite(r) /\ UNCHANGED <<accounts, members, tokens, links, invitations, cookie>>
        /\ req' = [req EXCEPT ![r].pc = "write",
                              ![r].seen = {members[req[r].org][req[r].target].by}]
    BY <1>4 DEF ReadTarget
  <2>2. PICK old : old = req[r]
    OBVIOUS
  <2>3. DOMAIN old = Fields
    BY <1>1, <2>2, FreshFields DEF RequestOK, AnyRequestOK
  <2>4. PICK q : q = [old EXCEPT !.pc = "write", !.seen = {members[old.org][old.target].by}]
    OBVIOUS
  <2>5. /\ DOMAIN q = Fields /\ q.pc = "write" /\ q.seen = {members[old.org][old.target].by}
        /\ \A f \in {"who", "target", "org", "before", "op", "role"} : q[f] = old[f]
    BY <2>3, <2>4 DEF Fields
  <2>6. req' = [req EXCEPT ![r] = q]
    BY <1>1, <2>1, <2>2, <2>4
  <2>7. Turn(r) /\ AnyRequestOK(r)' /\ req'[r] = q
    <3>1. \A f \in {"who", "target", "org", "before"} : q[f] = req[r][f]
      BY <2>2, <2>5
    <3> QED BY <1>2, <2>5, <2>6, <3>1, Moves
  <2>8. /\ old.op \in {"role", "remove"} /\ old.role \in Assignable /\ Exists(old.org)
        /\ old.org \in Orgs /\ old.target \in People
    BY <1>1, <1>2, <2>2 DEF RequestOK, AnyRequestOK, ManageOK, Managing
  <2>9. Role(old.org, old.target) # "owner"
    BY <2>1, <2>2, <2>8 DEF MayWrite, IInv, TablesOK, MembersOK
  <2>10. members[old.org][old.target].by \in Ended \cup {Nobody}
    BY <2>8 DEF IInv, TablesOK, MembersOK
  <2>11. Ended \subseteq Ended'
    BY <2>7, EndedStay DEF IInv, Holders
  <2>12. ManageOK(r)'
    BY <2>1, <2>5, <2>7, <2>8, <2>9, <2>10, <2>11 DEF ManageOK, At, Managing, Exists, Role
  <2>13. RequestOK(r)'
    BY <2>5, <2>7, <2>12 DEF RequestOK, RotateOK, LogoutOK, ResetOK, SpendOK, DoneOK, At
  <2> QED BY <1>1, <2>1, <2>7, <2>13, QuietStep
<1> QED BY <1>3, <1>4

-----------------------------------------------------------------------------
(* What is written to the tables of sessions.                               *)
\* _issue_session's row is a row of the table.
LEMMA IssuedRow ==
  ASSUME NEW p \in People, NEW family \in Nat \ {0}, NEW parent \in Nat, NEW r \in Requests,
         NEW t, t = Token(p, family, parent, r)
  PROVE  /\ t \in TokenRange /\ t.user = p /\ t.family = family /\ t.parent = parent
         /\ t.issuer = r /\ ~t.used
BY DEF Token, TokenRange, Holders

\* A family of its own: no other token is of it.
LEMMA NewSession ==
  ASSUME RangesOK, TablesOK, RequestsOK, NEW r \in Requests, Turn(r), ~At(r, "new"),
         accounts \subseteq accounts', NEW p \in People, p \in accounts',
         tokens' = Issue(tokens, p, 0, 0, r)
  PROVE  /\ tokens' \in Seq(TokenRange) /\ Len(tokens') = Len(tokens) + 1 /\ Len(tokens) \in Nat
         /\ TokensOK' /\ SiblingsOK' /\ ForksOK' /\ TokensGrow(r)
<1>1. PICK n \in Nat : n = Len(tokens) /\ DOMAIN tokens = 1 .. n
  BY Rows
<1>2. /\ tokens' \in Seq(TokenRange) /\ DOMAIN tokens' = 1 .. n + 1 /\ Len(tokens') = n + 1
      /\ \A i \in 1 .. n : tokens'[i] = tokens[i]
      /\ tokens'[n + 1].user = p /\ tokens'[n + 1].parent = 0 /\ tokens'[n + 1].issuer = r
      /\ ~tokens'[n + 1].used /\ tokens'[n + 1].family = n + 1
  <2>1. tokens \in Seq(TokenRange)
    BY DEF RangesOK
  <2>2. PICK t : t = Token(p, n + 1, 0, r)
    OBVIOUS
  <2>3. /\ t \in TokenRange /\ t.user = p /\ t.parent = 0 /\ t.issuer = r /\ ~t.used
        /\ t.family = n + 1
    BY <2>2, IssuedRow
  <2>4. tokens' = Append(tokens, t)
    BY <1>1, <2>2 DEF Issue
  <2> QED BY <1>1, <2>1, <2>3, <2>4, AppendProperties
<1>3. TokensGrow(r)
  BY <1>1, <1>2 DEF TokensGrow
<1>4. r \in Holders /\ ~At(r, "new")'
  BY DEF Holders, Turn
<1>5. \A i \in 1 .. n : /\ tokens[i].family \in 1 .. i
                        /\ tokens[i].parent # 0 => tokens[i].parent \in 1 .. n
  BY <1>1 DEF TablesOK, TokensOK
<1>6. TokensOK'
  <2>1. ASSUME NEW i \in 1 .. n
        PROVE  /\ tokens'[i].user \in accounts' /\ tokens'[i].family \in 1 .. i
               /\ (tokens[i].issuer \in Requests => ~At(tokens[i].issuer, "new"))'
    <3>1. PICK s : s = tokens[i].issuer
      OBVIOUS
    <3>2. s \in Requests => ~At(s, "new")'
      BY <1>1, <1>4, <2>1, <3>1, EndedStay DEF TablesOK, TokensOK
    <3>3. s = tokens'[i].issuer
      BY <1>2, <3>1
    <3>4. (tokens[i].issuer \in Requests => ~At(tokens[i].issuer, "new"))'
      BY <3>2, <3>3 DEF At
    <3> QED BY <1>1, <1>2, <3>4 DEF TablesOK, TokensOK
  <2>2. ASSUME NEW i \in 1 .. n, tokens'[i].parent # 0
        PROVE  /\ tokens'[i].parent \in DOMAIN tokens' /\ tokens'[tokens'[i].parent].used
               /\ tokens'[tokens'[i].parent].family = tokens'[i].family
               /\ tokens'[i].issuer \in Requests
    BY <1>1, <1>2, <2>2 DEF TablesOK, TokensOK
  <2>3. ASSUME NEW i \in 1 .. n, tokens'[i].used
        PROVE  \E m \in DOMAIN tokens' : tokens'[m].parent = i
    <3>1. tokens[i].used
      BY <1>2, <2>3
    <3>2. PICK m \in DOMAIN tokens : tokens[m].parent = i
      BY <1>1, <3>1 DEF TablesOK, TokensOK
    <3>3. m \in 1 .. n /\ n + 1 \in Nat
      BY <1>1, <3>2
    <3>4. m \in 1 .. n + 1 /\ tokens'[m] = tokens[m]
      BY <1>2, <3>3
    <3>5. tokens'[m].parent = i
      BY <3>2, <3>4
    <3> QED BY <1>2, <3>4, <3>5
  <2>4. (tokens[n + 1].issuer \in Requests => ~At(tokens[n + 1].issuer, "new"))'
    BY <1>2, <1>4 DEF At
  <2>5. \A i \in 1 .. n + 1 : i \in 1 .. n \/ i = n + 1
    OBVIOUS
  <2>6. tokens'[n + 1].user \in accounts' /\ tokens'[n + 1].family \in 1 .. n + 1
    BY <1>2
  <2> QED BY <1>2, <2>1, <2>2, <2>3, <2>4, <2>5, <2>6 DEF TokensOK
<1>7. SiblingsOK'
  <2> SUFFICES ASSUME NEW a \in 1 .. n + 1, NEW b \in 1 .. n + 1, Siblings(a, b)'
               PROVE  Overlapped(tokens[a].issuer, tokens[b].issuer)'
    BY <1>2 DEF SiblingsOK
  <2>1. a \in 1 .. n /\ b \in 1 .. n /\ Siblings(a, b)
    BY <1>2 DEF Siblings
  <2> QED BY <1>1, <1>3, <1>4, <2>1, OldSiblings DEF TablesOK
<1>8. ForksOK'
  <2> SUFFICES ASSUME NEW i \in 1 .. n + 1, NEW j \in 1 .. n + 1, i # j,
                      tokens'[i].family = tokens'[j].family, ~tokens'[i].used, ~tokens'[j].used
               PROVE  \E a, b \in 1 .. n + 1 : Siblings(a, b)' /\ tokens'[a].family = tokens'[i].family
    BY <1>2 DEF ForksOK
  <2>1. i \in 1 .. n /\ j \in 1 .. n
    BY <1>2, <1>5
  <2>2. PICK a \in 1 .. n, b \in 1 .. n : Siblings(a, b) /\ tokens[a].family = tokens[i].family
    BY <1>1, <1>2, <2>1 DEF TablesOK, ForksOK
  <2>3. Siblings(a, b)' /\ tokens'[a].family = tokens'[i].family
    BY <1>2, <2>1, <2>2 DEF Siblings
  <2>4. a \in 1 .. n + 1 /\ b \in 1 .. n + 1
    OBVIOUS
  <2> QED BY <2>3, <2>4
<1> QED BY <1>1, <1>2, <1>3, <1>6, <1>7, <1>8

\* A refresh that commits: two unused tokens of one family are now two that came from one.
LEMMA Rotated ==
  ASSUME IInv, NEW r \in Requests, Turn(r), At(r, "rotate"), UNCHANGED accounts, Rotate(r)
  PROVE  /\ tokens' \in Seq(TokenRange) /\ Len(tokens') = Len(tokens) + 1 /\ Len(tokens) \in Nat
         /\ DOMAIN tokens' = 1 .. Len(tokens) + 1
         /\ TokensOK' /\ SiblingsOK' /\ ForksOK' /\ TokensGrow(r)
<1>1. PICK n \in Nat : n = Len(tokens) /\ DOMAIN tokens = 1 .. n /\ tokens \in Seq(TokenRange)
  BY Rows DEF IInv, RangesOK
<1>2. /\ RangesOK /\ TablesOK /\ RequestsOK /\ r \in Holders /\ ~At(r, "new") /\ ~At(r, "new")'
      /\ RequestOK(r)
  BY DEF IInv, RequestsOK, Turn, Holders, At
<1>3. PICK i \in 1 .. n : i = req[r].item
  BY <1>1, <1>2 DEF RequestOK, RotateOK
<1>4. /\ tokens[i] \in TokenRange /\ req[r].who = tokens[i].user
      /\ \A m \in 1 .. n : tokens[m].parent = i => tokens[m].issuer \notin req[r].before
  BY <1>1, <1>2, <1>3 DEF RequestOK, RotateOK
<1>5. PICK p \in People, f \in Nat \ {0} : p = tokens[i].user /\ f = tokens[i].family
  BY <1>4 DEF TokenRange
<1>6. PICK t : t = Token(p, f, i, r)
  OBVIOUS
<1>7. /\ t \in TokenRange /\ t.user = p /\ t.family = f /\ t.parent = i /\ t.issuer = r /\ ~t.used
  BY <1>5, <1>6, IssuedRow
<1>8. PICK row : row = [tokens[i] EXCEPT !.used = TRUE]
  OBVIOUS
<1>9. /\ row \in TokenRange /\ row.used
      /\ \A x \in {"user", "family", "parent", "issuer", "revoked", "lapsed"} : row[x] = tokens[i][x]
  BY <1>4, <1>8 DEF TokenRange
<1>10. PICK table : table = [tokens EXCEPT ![i] = row]
  OBVIOUS
<1>11. /\ table \in Seq(TokenRange) /\ Len(table) = n /\ table[i] = row
       /\ \A m \in 1 .. n : m # i => table[m] = tokens[m]
  BY <1>1, <1>9, <1>10
<1>12. tokens' = Append(table, t)
  <2>1. table = [tokens EXCEPT ![req[r].item].used = TRUE]
    BY <1>1, <1>3, <1>8, <1>10
  <2>2. tokens' = Issue(table, p, f, i, r)
    BY <1>3, <1>4, <1>5, <2>1 DEF Rotate
  <2> QED BY <1>5, <1>6, <2>2 DEF Issue
<1>13. /\ tokens' \in Seq(TokenRange) /\ DOMAIN tokens' = 1 .. n + 1 /\ Len(tokens') = n + 1
       /\ \A m \in 1 .. n : tokens'[m] = table[m]
       /\ tokens'[n + 1] = t
  BY <1>7, <1>11, <1>12, AppendProperties
<1>14. /\ \A m \in 1 .. n :
            /\ tokens'[m].user = tokens[m].user /\ tokens'[m].family = tokens[m].family
            /\ tokens'[m].parent = tokens[m].parent /\ tokens'[m].issuer = tokens[m].issuer
            /\ tokens'[m].used <=> tokens[m].used \/ m = i
            /\ tokens[m].revoked => tokens'[m].revoked
       /\ tokens'[n + 1].user = p /\ tokens'[n + 1].family = f /\ tokens'[n + 1].parent = i
       /\ tokens'[n + 1].issuer = r /\ ~tokens'[n + 1].used
  <2>1. \A m \in 1 .. n : m # i => tokens'[m] = tokens[m]
    BY <1>11, <1>13
  <2>2. tokens'[i] = row
    BY <1>11, <1>13
  <2>3. /\ row.user = tokens[i].user /\ row.family = tokens[i].family /\ row.parent = tokens[i].parent
        /\ row.issuer = tokens[i].issuer /\ (tokens[i].revoked => row.revoked) /\ row.used
    BY <1>9
  <2>4. ASSUME NEW m \in 1 .. n
        PROVE  /\ tokens'[m].user = tokens[m].user /\ tokens'[m].family = tokens[m].family
               /\ tokens'[m].parent = tokens[m].parent /\ tokens'[m].issuer = tokens[m].issuer
               /\ tokens'[m].used <=> tokens[m].used \/ m = i
               /\ tokens[m].revoked => tokens'[m].revoked
    <3>1. CASE m = i
      BY <2>2, <2>3, <3>1
    <3>2. CASE m # i
      BY <2>1, <2>4, <3>2
    <3> QED BY <3>1, <3>2
  <2> QED BY <1>7, <1>13, <2>4
<1>15. TokensGrow(r)
  BY <1>1, <1>13, <1>14 DEF TokensGrow
<1>16. \A m \in 1 .. n :
         /\ tokens[m].user \in accounts /\ tokens[m].family \in 1 .. m
         /\ tokens[m].issuer \in Requests => ~At(tokens[m].issuer, "new")
         /\ tokens[m].parent # 0 =>
              /\ tokens[m].parent \in 1 .. n /\ tokens[tokens[m].parent].used
              /\ tokens[tokens[m].parent].family = tokens[m].family
              /\ tokens[m].issuer \in Requests
         /\ tokens[m].used => \E k \in 1 .. n : tokens[k].parent = m
  BY <1>1, <1>2 DEF TablesOK, TokensOK
<1>17. TokensOK'
  <2>1. ASSUME NEW m \in 1 .. n
        PROVE  /\ tokens'[m].user \in accounts' /\ tokens'[m].family \in 1 .. m
               /\ (tokens[m].issuer \in Requests => ~At(tokens[m].issuer, "new"))'
    <3>1. PICK s : s = tokens[m].issuer
      OBVIOUS
    <3>2. s \in Requests => ~At(s, "new")'
      BY <1>2, <1>16, <2>1, <3>1, EndedStay
    <3>3. s = tokens'[m].issuer
      BY <1>14, <3>1
    <3>4. (tokens[m].issuer \in Requests => ~At(tokens[m].issuer, "new"))'
      BY <3>2, <3>3 DEF At
    <3> QED BY <1>14, <1>16, <3>4
  <2>2. ASSUME NEW m \in 1 .. n, tokens'[m].parent # 0
        PROVE  /\ tokens'[m].parent \in 1 .. n + 1 /\ tokens'[tokens'[m].parent].used
               /\ tokens'[tokens'[m].parent].family = tokens'[m].family
               /\ tokens'[m].issuer \in Requests
    BY <1>14, <1>16, <2>2
  <2>3. ASSUME NEW m \in 1 .. n, tokens'[m].used
        PROVE  \E k \in 1 .. n + 1 : tokens'[k].parent = m
    <3>1. CASE m = i
      BY <1>14, <3>1
    <3>2. CASE m # i
      <4>1. PICK k \in 1 .. n : tokens[k].parent = m
        BY <1>14, <1>16, <2>3, <3>2
      <4>2. k \in 1 .. n + 1 /\ tokens'[k].parent = m
        BY <1>14, <4>1
      <4> QED BY <4>2
    <3> QED BY <3>1, <3>2
  <2>4. (tokens[n + 1].issuer \in Requests => ~At(tokens[n + 1].issuer, "new"))'
    BY <1>2, <1>14 DEF At
  <2>5. \A m \in 1 .. n + 1 : m \in 1 .. n \/ m = n + 1
    OBVIOUS
  <2>6. /\ tokens'[n + 1].user \in accounts' /\ tokens'[n + 1].family \in 1 .. n + 1
        /\ tokens'[n + 1].parent \in 1 .. n + 1 /\ tokens'[tokens'[n + 1].parent].used
        /\ tokens'[tokens'[n + 1].parent].family = tokens'[n + 1].family
        /\ tokens'[n + 1].issuer \in Requests
    BY <1>5, <1>14, <1>16
  <2> QED BY <1>13, <1>14, <2>1, <2>2, <2>3, <2>4, <2>5, <2>6 DEF TokensOK
<1>18. SiblingsOK'
  <2> SUFFICES ASSUME NEW a \in 1 .. n + 1, NEW b \in 1 .. n + 1, Siblings(a, b)'
               PROVE  Overlapped(tokens[a].issuer, tokens[b].issuer)'
    BY <1>13 DEF SiblingsOK
  <2>1. ASSUME NEW m \in 1 .. n, tokens[m].parent = i
        PROVE  Overlapped(r, tokens[m].issuer)' /\ Overlapped(tokens[m].issuer, r)'
    <3>1. PICK q : q = tokens[m].issuer
      OBVIOUS
    <3>2. q \in Requests /\ ~At(q, "new") /\ q \notin req[r].before
      BY <1>4, <1>16, <2>1, <3>1
    <3>3. Overlapped(r, q)' /\ Overlapped(q, r)'
      BY <1>2, <3>2, OverlapsNow
    <3>4. q = tokens'[m].issuer
      BY <1>14, <3>1
    <3> QED BY <3>3, <3>4 DEF Overlapped
  <2>2. CASE a \in 1 .. n /\ b \in 1 .. n
    <3>1. Siblings(a, b)
      BY <1>14, <2>2 DEF Siblings
    <3> QED BY <1>1, <1>2, <1>15, <2>2, <3>1, OldSiblings DEF TablesOK
  <2>3. CASE a = n + 1 /\ b \in 1 .. n
    <3>1. tokens[b].parent = i /\ tokens'[a].issuer = r
      BY <1>14, <2>3 DEF Siblings
    <3> QED BY <2>1, <2>3, <3>1 DEF Overlapped
  <2>4. CASE a \in 1 .. n /\ b = n + 1
    <3>1. tokens[a].parent = i /\ tokens'[b].issuer = r
      BY <1>14, <2>4 DEF Siblings
    <3> QED BY <2>1, <2>4, <3>1 DEF Overlapped
  <2>5. ~ (a = n + 1 /\ b = n + 1)
    BY DEF Siblings
  <2> QED BY <2>2, <2>3, <2>4, <2>5
<1>19. ForksOK'
  <2>1. ASSUME NEW m \in 1 .. n, NEW k \in 1 .. n, Siblings(m, k)
        PROVE  Siblings(m, k)' /\ m \in 1 .. n + 1 /\ k \in 1 .. n + 1 /\ tokens'[m].family = tokens[m].family
    BY <1>14, <2>1 DEF Siblings
  <2>2. ASSUME NEW j \in 1 .. n, tokens[j].family = f, ~tokens'[j].used
        PROVE  \E a, b \in 1 .. n + 1 : Siblings(a, b)' /\ tokens'[a].family = f
    <3>1. CASE tokens[i].used
      <4>1. PICK k \in 1 .. n : tokens[k].parent = i
        BY <1>16, <3>1
      <4>2. Siblings(k, n + 1)' /\ tokens'[k].family = f
        BY <1>5, <1>14, <1>16, <4>1 DEF Siblings
      <4> QED BY <4>1, <4>2
    <3>2. CASE ~tokens[i].used
      <4>1. j # i /\ ~tokens[j].used
        BY <1>14, <2>2
      <4>2. PICK a \in 1 .. n, b \in 1 .. n : Siblings(a, b) /\ tokens[a].family = f
        BY <1>1, <1>2, <1>5, <2>2, <3>2, <4>1 DEF TablesOK, ForksOK
      <4> QED BY <2>1, <4>2
    <3> QED BY <3>1, <3>2
  <2> SUFFICES ASSUME NEW x \in 1 .. n + 1, NEW j \in 1 .. n + 1, x # j,
                      tokens'[x].family = tokens'[j].family, ~tokens'[x].used, ~tokens'[j].used
               PROVE  \E a, b \in 1 .. n + 1 : Siblings(a, b)' /\ tokens'[a].family = tokens'[x].family
    BY <1>13 DEF ForksOK
  <2>3. CASE x = n + 1
    <3>1. j \in 1 .. n
      BY <2>3
    <3> QED BY <1>14, <2>2, <2>3, <3>1
  <2>4. CASE j = n + 1
    <3>1. x \in 1 .. n
      BY <2>4
    <3> QED BY <1>14, <2>2, <2>4, <3>1
  <2>5. CASE x \in 1 .. n /\ j \in 1 .. n
    <3>1. PICK a \in 1 .. n, b \in 1 .. n : Siblings(a, b) /\ tokens[a].family = tokens[x].family
      BY <1>1, <1>2, <1>14, <2>5 DEF TablesOK, ForksOK
    <3> QED BY <1>14, <2>1, <2>5, <3>1
  <2> QED BY <2>3, <2>4, <2>5
<1> QED BY <1>1, <1>13, <1>15, <1>17, <1>18, <1>19

\* The session is answered for, or is given to a tab to store.
LEMMA Answered ==
  ASSUME IInv, NEW r \in Requests, Answer(r), req[r].pc \in {"issue", "rotate"},
         DOMAIN tokens' = 1 .. Len(tokens) + 1, Len(tokens) \in Nat
  PROVE  Turn(r) /\ RequestOK(r)'
<1>1. RequestOK(r) /\ DOMAIN req = Requests
  BY DEF IInv, RequestsOK
<1>2. req[r].op \in {"login", "refresh"} /\ req[r].pc \notin Over /\ ~At(r, "new")
  BY <1>1 DEF RequestOK, RotateOK, At, Over
<1>3. CASE req[r].tab
  <2>1. PICK n \in Nat : n = Len(tokens)
    OBVIOUS
  <2>2. PICK old : old = req[r]
    OBVIOUS
  <2>3. DOMAIN old = Fields
    BY <1>1, <2>2, FreshFields DEF RequestOK, AnyRequestOK
  <2>4. PICK q : q = [old EXCEPT !.pc = "answered", !.item = n + 1]
    OBVIOUS
  <2>5. /\ DOMAIN q = Fields /\ q.pc = "answered" /\ q.item = n + 1
        /\ \A f \in {"who", "target", "org", "before", "op"} : q[f] = old[f]
    BY <2>3, <2>4 DEF Fields
  <2>6. req' = [req EXCEPT ![r] = q]
    BY <1>1, <1>3, <2>1, <2>2, <2>4 DEF Answer
  <2>7. Turn(r) /\ AnyRequestOK(r)' /\ req'[r] = q
    <3>1. \A f \in {"who", "target", "org", "before"} : q[f] = req[r][f]
      BY <2>2, <2>5
    <3> QED BY <1>2, <2>5, <2>6, <3>1, Moves
  <2>8. q.op = req[r].op /\ q.item \in DOMAIN tokens'
    BY <2>1, <2>2, <2>5
  <2>9. RequestOK(r)'
    BY <1>2, <2>5, <2>7, <2>8
       DEF RequestOK, RotateOK, LogoutOK, ResetOK, SpendOK, ManageOK, DoneOK, At, Managing
  <2> QED BY <2>7, <2>9
<1>4. CASE ~req[r].tab
  <2>1. Close(r, "done") /\ "done" \in Over
    BY <1>4 DEF Answer, Done, Over
  <2>2. Turn(r) /\ AnyRequestOK(r)' /\ At(r, "done")' /\ req'[r].op = "none"
    BY <1>2, <2>1, Ends
  <2> QED BY <2>2, NothingEnded
<1> QED BY <1>3, <1>4

\* A step of sessions leaves the organizations alone.
LEMMA SessionsOnly ==
  ASSUME IInv, NEW r \in Requests, Turn(r), RequestOK(r)', UNCHANGED <<accounts, members, invitations>>,
         tokens' \in Seq(TokenRange), links' \in Seq(LinkRange), cookie' \in 0 .. Len(tokens'),
         TokensOK', SiblingsOK', ForksOK', TokensGrow(r), LinksOK', LinksGrow(r)
  PROVE  IInv'
<1>1. r \in Holders /\ \A o \in Orgs : Exists(o) => Exists(o)'
  BY DEF Holders, Exists, Role
<1>2. RangesOK'
  BY DEF IInv, RangesOK
<1>3. InvitationsOK' /\ InvitationsGrow(r)
  BY <1>1, MarkedInvitations DEF IInv, TablesOK
<1>4. MembersOK' /\ MembersChange(r)
  BY <1>1, <1>3, SameMembers DEF IInv, TablesOK
<1>5. Kept(r) /\ TablesOK'
  BY <1>3, <1>4 DEF Kept, TablesOK
<1> QED BY <1>1, <1>2, <1>5, Steps

\* A sign-in commits the first token of its family.
LEMMA LoginCommits ==
  ASSUME IInv, NEW r \in Requests, CommitLogin(r)
  PROVE  IInv'
<1>1. /\ At(r, "issue") /\ tokens' = Issue(tokens, req[r].who, 0, 0, r) /\ Answer(r)
      /\ UNCHANGED <<accounts, members, invitations, links, cookie>>
  BY DEF CommitLogin, tables
<1>2. /\ RangesOK /\ TablesOK /\ RequestsOK /\ RequestOK(r) /\ r \in Holders /\ ~At(r, "new")
      /\ Len(tokens) \in Nat /\ DOMAIN tokens = 1 .. Len(tokens) /\ cookie \in 0 .. Len(tokens)
  BY <1>1, Rows DEF IInv, RequestsOK, Holders, At
<1>3. PICK p \in People : p = req[r].who /\ p \in accounts'
  BY <1>1, <1>2 DEF RequestOK, RotateOK, RangesOK
<1>4. DOMAIN tokens' = 1 .. Len(tokens) + 1
  <2>1. PICK row : tokens' = Append(tokens, row)
    BY <1>1 DEF Issue
  <2>2. tokens \in Seq(TokenRange)
    BY <1>2 DEF RangesOK
  <2> QED BY <1>2, <2>1, <2>2
<1>5. Turn(r) /\ RequestOK(r)'
  BY <1>1, <1>2, <1>4, Answered DEF At
<1>6. /\ tokens' \in Seq(TokenRange) /\ Len(tokens') = Len(tokens) + 1
      /\ TokensOK' /\ SiblingsOK' /\ ForksOK' /\ TokensGrow(r)
  BY <1>1, <1>2, <1>3, <1>5, NewSession
<1>7. LinksOK' /\ LinksGrow(r) /\ links' \in Seq(LinkRange)
  BY <1>1, <1>2, <1>5, MarkedLinks DEF TablesOK, RangesOK
<1>8. cookie' \in 0 .. Len(tokens')
  BY <1>1, <1>2, <1>6
<1> QED BY <1>1, <1>5, <1>6, <1>7, <1>8, SessionsOnly

\* A refresh commits the mark on the old token and the new one together.
LEMMA RefreshCommits ==
  ASSUME IInv, NEW r \in Requests, CommitRefresh(r)
  PROVE  IInv'
<1>1. /\ At(r, "rotate") /\ Rotate(r) /\ Answer(r)
      /\ UNCHANGED <<accounts, members, invitations, links, cookie>>
  BY DEF CommitRefresh, tables
<1>2. /\ RangesOK /\ TablesOK /\ RequestsOK /\ r \in Holders
      /\ Len(tokens) \in Nat /\ DOMAIN tokens = 1 .. Len(tokens) /\ cookie \in 0 .. Len(tokens)
  BY Rows DEF IInv, Holders
<1>3. DOMAIN tokens' = 1 .. Len(tokens) + 1
  <2>1. PICK table, row : table = [tokens EXCEPT ![req[r].item].used = TRUE] /\ tokens' = Append(table, row)
    BY <1>1 DEF Rotate, Issue
  <2>2. Len(table) = Len(tokens)
    BY <1>2, <2>1 DEF RangesOK
  <2> QED BY <1>2, <2>1, <2>2
<1>4. Turn(r) /\ RequestOK(r)'
  BY <1>1, <1>2, <1>3, Answered DEF At
<1>5. /\ tokens' \in Seq(TokenRange) /\ Len(tokens') = Len(tokens) + 1
      /\ TokensOK' /\ SiblingsOK' /\ ForksOK' /\ TokensGrow(r)
  BY <1>1, <1>4, Rotated
<1>6. LinksOK' /\ LinksGrow(r) /\ links' \in Seq(LinkRange)
  BY <1>1, <1>2, <1>4, MarkedLinks DEF TablesOK, RangesOK
<1>7. cookie' \in 0 .. Len(tokens')
  BY <1>1, <1>2, <1>5
<1> QED BY <1>1, <1>4, <1>5, <1>6, <1>7, SessionsOnly

\* Revoking marks rows and nothing else.
LEMMA RevokedRows ==
  ASSUME RangesOK, NEW S, tokens' = Revoked(S)
  PROVE  /\ tokens' \in Seq(TokenRange) /\ Len(tokens') = Len(tokens) /\ Marked
         /\ \A i \in DOMAIN tokens : tokens'[i].revoked <=> tokens[i].revoked \/ i \in S
<1>1. PICK n \in Nat : n = Len(tokens) /\ DOMAIN tokens = 1 .. n /\ tokens \in Seq(TokenRange)
  BY Rows DEF RangesOK
<1>2. /\ DOMAIN tokens' = 1 .. n
      /\ \A i \in 1 .. n : tokens'[i] = [tokens[i] EXCEPT !.revoked = @ \/ i \in S]
  BY <1>1 DEF Revoked
<1>3. ASSUME NEW i \in 1 .. n
      PROVE  /\ tokens'[i] \in TokenRange
             /\ \A f \in {"user", "family", "parent", "issuer", "used"} : tokens'[i][f] = tokens[i][f]
             /\ tokens'[i].revoked <=> tokens[i].revoked \/ i \in S
  <2>1. PICK row \in TokenRange : row = tokens[i]
    BY <1>1
  <2>2. PICK b \in BOOLEAN : b <=> row.revoked \/ i \in S
    OBVIOUS
  <2>3. b = (row.revoked \/ i \in S)
    BY <2>1, <2>2 DEF TokenRange
  <2>4. tokens'[i] = [row EXCEPT !.revoked = b]
    BY <1>2, <2>1, <2>3
  <2>5. [row EXCEPT !.revoked = b] \in TokenRange
    BY <2>1 DEF TokenRange
  <2>6. /\ [row EXCEPT !.revoked = b].revoked = b
        /\ \A f \in {"user", "family", "parent", "issuer", "used"} : [row EXCEPT !.revoked = b][f] = row[f]
    BY <2>1 DEF TokenRange
  <2> QED BY <2>1, <2>2, <2>4, <2>5, <2>6
<1>4. tokens' \in Seq(TokenRange) /\ Len(tokens') = n
  <2>1. tokens' = [i \in 1 .. n |-> tokens'[i]]
    BY <1>1 DEF Revoked
  <2>2. \A i \in 1 .. n : tokens'[i] \in TokenRange
    BY <1>3
  <2> QED BY <2>1, <2>2
<1>5. ASSUME NEW i \in DOMAIN tokens
      PROVE  /\ tokens'[i].user = tokens[i].user /\ tokens'[i].family = tokens[i].family
             /\ tokens'[i].parent = tokens[i].parent /\ tokens'[i].issuer = tokens[i].issuer
             /\ tokens'[i].used = tokens[i].used
             /\ tokens[i].revoked => tokens'[i].revoked
  BY <1>1, <1>3, <1>5
<1>6. Marked
  BY <1>1, <1>2, <1>5 DEF Marked
<1> QED BY <1>1, <1>3, <1>4, <1>6

\* The sign-out ends what it has seen, which is what there was when it began.
LEMMA LogoutCommits ==
  ASSUME IInv, NEW r \in Requests, CommitLogout(r)
  PROVE  IInv'
<1>1. /\ At(r, "revoke") /\ tokens' = Revoked(req[r].seen) /\ cookie' \in {0, cookie} /\ Close(r, "done")
      /\ UNCHANGED <<accounts, members, invitations, links>>
  BY DEF CommitLogout, tables, Done
<1>2. /\ RangesOK /\ TablesOK /\ RequestsOK /\ RequestOK(r) /\ r \in Holders
      /\ Len(tokens) \in Nat /\ cookie \in 0 .. Len(tokens)
  BY Rows DEF IInv, RequestsOK, Holders
<1>3. /\ req[r].op = "logout" /\ req[r].item \in DOMAIN tokens
      /\ \A i \in DOMAIN tokens :
           (tokens[i].family = tokens[req[r].item].family /\ tokens[i].issuer \in Earlier(r)) =>
             tokens[i].revoked \/ i \in req[r].seen
  BY <1>1, <1>2 DEF RequestOK, LogoutOK
<1>4. /\ tokens' \in Seq(TokenRange) /\ Len(tokens') = Len(tokens) /\ Marked
      /\ \A i \in DOMAIN tokens : tokens'[i].revoked <=> tokens[i].revoked \/ i \in req[r].seen
  <2>1. PICK S : S = req[r].seen
    OBVIOUS
  <2> QED BY <1>1, <1>2, <2>1, RevokedRows
<1>5. req[r].pc \notin Over /\ ~At(r, "new") /\ "done" \in Over
  BY <1>1 DEF At, Over
<1>6. /\ Turn(r) /\ AnyRequestOK(r)' /\ At(r, "done")' /\ req'[r].before = req[r].before
      /\ req'[r].op = "logout" /\ req'[r].item = req[r].item
  BY <1>1, <1>3, <1>5, Ends
<1>7. RequestOK(r)'
  <2>1. ASSUME NEW i \in EndedBy(r)' PROVE tokens'[i].revoked
    <3>1. /\ i \in DOMAIN tokens /\ tokens'[i].issuer \in Earlier(r)
          /\ tokens'[i].family = tokens'[req[r].item].family
      BY <1>4, <1>6 DEF EndedBy, Marked, Earlier
    <3>2. tokens[i].issuer \in Earlier(r) /\ tokens[i].family = tokens[req[r].item].family
      BY <1>3, <1>4, <3>1 DEF Marked
    <3> QED BY <1>3, <1>4, <3>1, <3>2
  <2>2. DoneOK(r)'
    BY <1>3, <1>4, <1>6, <2>1 DEF DoneOK, Marked
  <2> QED BY <1>6, <2>2 DEF RequestOK, RotateOK, LogoutOK, ResetOK, SpendOK, ManageOK, At, Managing
<1>8. TokensOK' /\ SiblingsOK' /\ ForksOK' /\ TokensGrow(r)
  BY <1>1, <1>2, <1>4, <1>6, MarkedTokens DEF TablesOK
<1>9. LinksOK' /\ LinksGrow(r) /\ links' \in Seq(LinkRange)
  BY <1>1, <1>2, <1>6, MarkedLinks DEF TablesOK, RangesOK
<1>10. cookie' \in 0 .. Len(tokens')
  BY <1>1, <1>2, <1>4
<1> QED BY <1>1, <1>4, <1>6, <1>7, <1>8, <1>9, <1>10, SessionsOnly

\* A reset link is stored, spent by nobody.
LEMMA ForgotCommits ==
  ASSUME IInv, NEW r \in Requests, CommitForgot(r)
  PROVE  IInv'
<1>1. /\ At(r, "mail") /\ links' = Append(links, Link(req[r].who)) /\ Close(r, "done")
      /\ UNCHANGED <<accounts, members, invitations, tokens, cookie>>
  BY DEF CommitForgot, tables, Done
<1>2. /\ RangesOK /\ TablesOK /\ RequestsOK /\ RequestOK(r) /\ r \in Holders
      /\ cookie \in 0 .. Len(tokens) /\ tokens \in Seq(TokenRange)
  BY Rows DEF IInv, RequestsOK, Holders, RangesOK
<1>3. PICK n \in Nat : n = Len(links) /\ DOMAIN links = 1 .. n /\ links \in Seq(LinkRange)
  BY <1>2, Rows DEF RangesOK
<1>4. PICK p \in accounts : p = req[r].who /\ p \in People /\ req[r].op = "forgot"
  BY <1>1, <1>2 DEF RequestOK, ResetOK, RangesOK
<1>5. PICK row : row = Link(p)
  OBVIOUS
<1>6. row \in LinkRange /\ row.user = p /\ row.by = {}
  BY <1>4, <1>5 DEF Link, LinkRange
<1>7. /\ links' \in Seq(LinkRange) /\ DOMAIN links' = 1 .. n + 1 /\ links'[n + 1] = row
      /\ \A l \in 1 .. n : links'[l] = links[l]
  BY <1>1, <1>3, <1>4, <1>5, <1>6, AppendProperties
<1>8. req[r].pc \notin Over /\ ~At(r, "new") /\ "done" \in Over
  BY <1>1 DEF At, Over
<1>9. Turn(r) /\ AnyRequestOK(r)' /\ At(r, "done")' /\ req'[r].op = "none"
  BY <1>1, <1>4, <1>8, Ends
<1>10. RequestOK(r)'
  BY <1>9, NothingEnded
<1>11. TokensOK' /\ SiblingsOK' /\ ForksOK' /\ TokensGrow(r)
  BY <1>1, <1>2, <1>9, MarkedTokens DEF TablesOK, Marked
<1>12. LinksGrow(r)
  BY <1>3, <1>7 DEF LinksGrow
<1>13. LinksOK'
  <2>1. ASSUME NEW l \in 1 .. n
        PROVE  /\ links'[l].user \in accounts' /\ SpentBy(links[l].by)'
               /\ ~links'[l].spent => links'[l].by = {}
    <3>1. links[l].user \in accounts /\ SpentBy(links[l].by) /\ (~links[l].spent => links[l].by = {})
      BY <1>2, <1>3 DEF TablesOK, LinksOK
    <3>2. PICK by : by = links[l].by
      OBVIOUS
    <3>3. by \subseteq Ended' /\ \A a, b \in by : a # b => Overlapped(a, b)'
      BY <1>2, <1>9, <3>1, <3>2, SpentStays
    <3>4. by = links'[l].by
      BY <1>7, <3>2
    <3>5. SpentBy(links[l].by)'
      BY <3>3, <3>4 DEF SpentBy
    <3> QED BY <1>1, <1>7, <3>1, <3>5
  <2>2. SpentBy(links[n + 1].by)' /\ links'[n + 1].user \in accounts' /\ links'[n + 1].by = {}
    BY <1>1, <1>4, <1>6, <1>7 DEF SpentBy
  <2>3. \A l \in 1 .. n + 1 : l \in 1 .. n \/ l = n + 1
    OBVIOUS
  <2> QED BY <1>7, <2>1, <2>2, <2>3 DEF LinksOK
<1> QED BY <1>1, <1>2, <1>7, <1>9, <1>10, <1>11, <1>12, <1>13, SessionsOnly

\* A reset ends the sessions there were and spends its link.
LEMMA ResetCommits ==
  ASSUME IInv, NEW r \in Requests, CommitReset(r)
  PROVE  IInv'
<1>1. PICK seen, at, S :
        /\ seen = req[r].seen /\ at = req[r].item /\ S = {i \in DOMAIN tokens : <<"token", i>> \in seen}
        /\ At(r, "change") /\ tokens' = Revoked(S) /\ Close(r, "done")
        /\ links' = [l \in DOMAIN links |->
             [links[l] EXCEPT !.spent = @ \/ l = at \/ <<"link", l>> \in seen,
                              !.by = IF l = at THEN @ \cup {r} ELSE @]]
        /\ UNCHANGED <<accounts, members, invitations, cookie>>
  BY DEF CommitReset, tables, Done
<1>2. /\ RangesOK /\ TablesOK /\ RequestsOK /\ RequestOK(r) /\ r \in Holders
      /\ cookie \in 0 .. Len(tokens)
  BY Rows DEF IInv, RequestsOK, Holders
<1>3. PICK n \in Nat : n = Len(links) /\ DOMAIN links = 1 .. n /\ links \in Seq(LinkRange)
  BY <1>2, Rows DEF RangesOK
<1>4. /\ req[r].op = "reset" /\ at \in 1 .. n /\ req[r].who = links[at].user
      /\ links[at].by \cap req[r].before = {}
      /\ \A i \in DOMAIN tokens :
           (tokens[i].user = req[r].who /\ tokens[i].issuer \in Earlier(r)) =>
             tokens[i].revoked \/ i \in S
  BY <1>1, <1>2, <1>3 DEF RequestOK, ResetOK
<1>5. /\ tokens' \in Seq(TokenRange) /\ Len(tokens') = Len(tokens) /\ Marked
      /\ \A i \in DOMAIN tokens : tokens'[i].revoked <=> tokens[i].revoked \/ i \in S
  BY <1>1, <1>2, RevokedRows
<1>6. req[r].pc \notin Over /\ ~At(r, "new") /\ "done" \in Over
  BY <1>1 DEF At, Over
<1>7. /\ Turn(r) /\ AnyRequestOK(r)' /\ At(r, "done")' /\ req'[r].before = req[r].before
      /\ req'[r].op = "reset" /\ req'[r].who = req[r].who
  BY <1>1, <1>4, <1>6, Ends
<1>8. RequestOK(r)'
  <2>1. ASSUME NEW i \in EndedBy(r)' PROVE tokens'[i].revoked
    <3>1. i \in DOMAIN tokens /\ tokens'[i].issuer \in Earlier(r) /\ tokens'[i].user = req[r].who
      BY <1>5, <1>7 DEF EndedBy, Marked, Earlier
    <3>2. tokens[i].issuer \in Earlier(r) /\ tokens[i].user = req[r].who
      BY <1>5, <3>1 DEF Marked
    <3> QED BY <1>4, <1>5, <3>1, <3>2
  <2>2. DoneOK(r)'
    BY <1>7, <2>1 DEF DoneOK
  <2> QED BY <1>7, <2>2 DEF RequestOK, RotateOK, LogoutOK, ResetOK, SpendOK, ManageOK, At, Managing
<1>9. TokensOK' /\ SiblingsOK' /\ ForksOK' /\ TokensGrow(r)
  BY <1>1, <1>2, <1>5, <1>7, MarkedTokens DEF TablesOK
<1>10. ASSUME NEW l \in 1 .. n
       PROVE  /\ links'[l] \in LinkRange /\ links'[l].user = links[l].user
              /\ links'[l].spent <=> (links[l].spent \/ l = at \/ <<"link", l>> \in seen)
              /\ links'[l].by = IF l = at THEN links[l].by \cup {r} ELSE links[l].by
  <2>1. PICK row \in LinkRange : row = links[l]
    BY <1>3
  <2>2. PICK b \in BOOLEAN : b <=> (row.spent \/ l = at \/ <<"link", l>> \in seen)
    OBVIOUS
  <2>3. b = (row.spent \/ l = at \/ <<"link", l>> \in seen)
    BY <2>1, <2>2 DEF LinkRange
  <2>4. PICK by \in SUBSET Requests : by = IF l = at THEN row.by \cup {r} ELSE row.by
    BY <2>1 DEF LinkRange
  <2>5. links'[l] = [row EXCEPT !.spent = b, !.by = by]
    BY <1>1, <1>3, <2>1, <2>3, <2>4
  <2>6. [row EXCEPT !.spent = b, !.by = by] \in LinkRange
    BY <2>1 DEF LinkRange
  <2>7. /\ [row EXCEPT !.spent = b, !.by = by].spent = b
        /\ [row EXCEPT !.spent = b, !.by = by].by = by
        /\ [row EXCEPT !.spent = b, !.by = by].user = row.user
    BY <2>1 DEF LinkRange
  <2> QED BY <2>1, <2>2, <2>4, <2>5, <2>6, <2>7
<1>11. DOMAIN links' = 1 .. n /\ links' \in Seq(LinkRange)
  <2>1. DOMAIN links' = 1 .. n /\ links' = [l \in 1 .. n |-> links'[l]]
    BY <1>1, <1>3
  <2>2. \A l \in 1 .. n : links'[l] \in LinkRange
    BY <1>10
  <2> QED BY <2>1, <2>2
<1>12. LinksGrow(r)
  BY <1>3, <1>10, <1>11 DEF LinksGrow
<1>13. LinksOK'
  <2> SUFFICES ASSUME NEW l \in 1 .. n
               PROVE  /\ links'[l].user \in accounts' /\ SpentBy(links[l].by)'
                      /\ ~links'[l].spent => links'[l].by = {}
    BY <1>11 DEF LinksOK
  <2>1. links[l].user \in accounts /\ SpentBy(links[l].by) /\ (~links[l].spent => links[l].by = {})
    BY <1>2, <1>3 DEF TablesOK, LinksOK
  <2>2. PICK by : by = links[l].by
    OBVIOUS
  <2>3. by \subseteq Ended' /\ \A a, b \in by : a # b => Overlapped(a, b)'
    BY <1>2, <1>7, <2>1, <2>2, SpentStays
  <2>4. SpentBy(links[l].by)'
    <3>1. CASE l # at
      <4>1. by = links'[l].by
        BY <1>10, <2>2, <3>1
      <4> QED BY <2>3, <4>1 DEF SpentBy
    <3>2. CASE l = at
      <4>1. links'[l].by = by \cup {r} /\ r \in Ended'
        BY <1>7, <1>10, <2>2, <3>2 DEF Ended, At, Over
      <4>2. ASSUME NEW q \in by PROVE Overlapped(r, q)' /\ Overlapped(q, r)'
        <5>1. q \in Requests /\ ~At(q, "new") /\ q \notin req[r].before
          BY <1>4, <2>1, <2>2, <3>2 DEF SpentBy, Ended, At, Over
        <5> QED BY <1>2, <1>6, <1>7, <5>1, OverlapsNow
      <4>3. \A a, b \in by \cup {r} : a # b => Overlapped(a, b)'
        BY <2>3, <4>2
      <4> QED BY <2>3, <4>1, <4>3 DEF SpentBy
    <3> QED BY <3>1, <3>2
  <2>5. ASSUME ~links'[l].spent PROVE links'[l].by = {}
    <3>1. l # at /\ ~links[l].spent
      BY <1>10, <2>5
    <3> QED BY <1>10, <2>1, <3>1
  <2>6. links'[l].user \in accounts'
    <3>1. links'[l].user = links[l].user
      BY <1>10
    <3>2. accounts' = accounts
      BY <1>1
    <3> QED BY <2>1, <3>1, <3>2
  <2> QED BY <2>4, <2>5, <2>6
<1>14. cookie' \in 0 .. Len(tokens')
  BY <1>1, <1>2, <1>5
<1> QED BY <1>1, <1>5, <1>7, <1>8, <1>9, <1>11, <1>12, <1>13, <1>14, SessionsOnly

\* A credential that expires is marked, and its holder is told nothing.
LEMMA Expiry ==
  ASSUME IInv, Lapse
  PROVE  IInv'
<1>1. /\ UNCHANGED <<accounts, members, cookie, req>>
      /\ \/ /\ \E i \in DOMAIN tokens : tokens' = [tokens EXCEPT ![i].lapsed = TRUE]
            /\ UNCHANGED <<links, invitations>>
         \/ /\ \E l \in DOMAIN links : links' = [links EXCEPT ![l].lapsed = TRUE]
            /\ UNCHANGED <<tokens, invitations>>
         \/ /\ \E i \in DOMAIN invitations :
                 invitations' = [invitations EXCEPT ![i].lapsed = TRUE]
            /\ UNCHANGED <<tokens, links>>
  BY DEF Lapse
<1>2. /\ RangesOK /\ TablesOK /\ RequestsOK /\ Nobody \in Holders /\ Nobody \notin Requests
      /\ \A o \in Orgs : Exists(o) => Exists(o)'
  BY <1>1, PeopleAssumption DEF IInv, Holders, Exists, Role
<1>3. Turn(Nobody)
  BY <1>1, <1>2 DEF Turn, RequestsOK
<1>4. /\ tokens' \in Seq(TokenRange) /\ Len(tokens') = Len(tokens) /\ Marked
  <2>1. PICK n \in Nat : n = Len(tokens) /\ DOMAIN tokens = 1 .. n /\ tokens \in Seq(TokenRange)
    BY <1>2, Rows DEF RangesOK
  <2>2. CASE \E i \in DOMAIN tokens : tokens' = [tokens EXCEPT ![i].lapsed = TRUE]
    <3>1. PICK i \in 1 .. n : tokens' = [tokens EXCEPT ![i].lapsed = TRUE]
      BY <2>1, <2>2
    <3>2. PICK old \in TokenRange : old = tokens[i]
      BY <2>1
    <3>3. PICK row : row = [old EXCEPT !.lapsed = TRUE]
      OBVIOUS
    <3>4. /\ row \in TokenRange
          /\ \A f \in {"user", "family", "parent", "issuer", "used", "revoked"} : row[f] = old[f]
      BY <3>2, <3>3 DEF TokenRange
    <3>5. tokens' = [tokens EXCEPT ![i] = row]
      BY <3>1, <3>2, <3>3
    <3>6. /\ tokens' \in Seq(TokenRange) /\ Len(tokens') = n /\ DOMAIN tokens' = 1 .. n
          /\ tokens'[i] = row /\ \A m \in 1 .. n : m # i => tokens'[m] = tokens[m]
      BY <2>1, <3>4, <3>5
    <3>7. ASSUME NEW m \in 1 .. n
          PROVE  /\ tokens'[m].user = tokens[m].user /\ tokens'[m].family = tokens[m].family
                 /\ tokens'[m].parent = tokens[m].parent /\ tokens'[m].issuer = tokens[m].issuer
                 /\ tokens'[m].used = tokens[m].used
                 /\ tokens[m].revoked => tokens'[m].revoked
      <4>1. CASE m = i
        BY <3>2, <3>4, <3>6, <4>1
      <4>2. CASE m # i
        BY <3>6, <4>2
      <4> QED BY <4>1, <4>2
    <3> QED BY <2>1, <3>6, <3>7 DEF Marked
  <2>3. CASE UNCHANGED tokens
    BY <2>1, <2>3 DEF Marked
  <2> QED BY <1>1, <2>2, <2>3
<1>5. TokensOK' /\ SiblingsOK' /\ ForksOK' /\ TokensGrow(Nobody)
  BY <1>1, <1>2, <1>3, <1>4, MarkedTokens DEF TablesOK
<1>6. /\ links' \in Seq(LinkRange) /\ LinksOK' /\ LinksGrow(Nobody)
  <2>1. PICK n \in Nat : n = Len(links) /\ DOMAIN links = 1 .. n /\ links \in Seq(LinkRange)
    BY <1>2, Rows DEF RangesOK
  <2>2. /\ links' \in Seq(LinkRange) /\ DOMAIN links' = 1 .. n
        /\ \A l \in 1 .. n :
             /\ links'[l].user = links[l].user /\ links'[l].by = links[l].by
             /\ links[l].spent => links'[l].spent
    <3>1. CASE \E l \in DOMAIN links : links' = [links EXCEPT ![l].lapsed = TRUE]
      <4>1. PICK l \in 1 .. n : links' = [links EXCEPT ![l].lapsed = TRUE]
        BY <2>1, <3>1
      <4>2. PICK old \in LinkRange : old = links[l]
        BY <2>1
      <4>3. PICK row : row = [old EXCEPT !.lapsed = TRUE]
        OBVIOUS
      <4>4. row \in LinkRange /\ \A f \in {"user", "by", "spent"} : row[f] = old[f]
        BY <4>2, <4>3 DEF LinkRange
      <4>5. links' = [links EXCEPT ![l] = row]
        BY <4>1, <4>2, <4>3
      <4>6. /\ links' \in Seq(LinkRange) /\ DOMAIN links' = 1 .. n
            /\ links'[l] = row /\ \A m \in 1 .. n : m # l => links'[m] = links[m]
        BY <2>1, <4>4, <4>5
      <4>7. ASSUME NEW m \in 1 .. n
            PROVE  /\ links'[m].user = links[m].user /\ links'[m].by = links[m].by
                   /\ links[m].spent => links'[m].spent
        <5>1. CASE m = l
          BY <4>2, <4>4, <4>6, <5>1
        <5>2. CASE m # l
          BY <4>6, <5>2
        <5> QED BY <5>1, <5>2
      <4> QED BY <4>6, <4>7
    <3>2. CASE UNCHANGED links
      BY <2>1, <3>2
    <3> QED BY <1>1, <3>1, <3>2
  <2> QED BY <1>1, <1>2, <1>3, <2>1, <2>2, MarkedLinks DEF TablesOK
<1>7. /\ invitations' \in Seq(InvitationRange) /\ InvitationsOK' /\ InvitationsGrow(Nobody)
  <2>1. PICK n \in Nat : n = Len(invitations) /\ DOMAIN invitations = 1 .. n /\ invitations \in Seq(InvitationRange)
    BY <1>2, Rows DEF RangesOK
  <2>2. /\ invitations' \in Seq(InvitationRange) /\ DOMAIN invitations' = 1 .. n
        /\ \A i \in 1 .. n :
             /\ invitations'[i].org = invitations[i].org /\ invitations'[i].email = invitations[i].email
             /\ invitations'[i].by = invitations[i].by
             /\ invitations'[i].accepted = invitations[i].accepted
    <3>1. CASE \E i \in DOMAIN invitations : invitations' = [invitations EXCEPT ![i].lapsed = TRUE]
      <4>1. PICK i \in 1 .. n : invitations' = [invitations EXCEPT ![i].lapsed = TRUE]
        BY <2>1, <3>1
      <4>2. PICK old \in InvitationRange : old = invitations[i]
        BY <2>1
      <4>3. PICK row : row = [old EXCEPT !.lapsed = TRUE]
        OBVIOUS
      <4>4. row \in InvitationRange /\ \A f \in {"org", "email", "by", "accepted"} : row[f] = old[f]
        BY <4>2, <4>3 DEF InvitationRange
      <4>5. invitations' = [invitations EXCEPT ![i] = row]
        BY <4>1, <4>2, <4>3
      <4>6. /\ invitations' \in Seq(InvitationRange) /\ DOMAIN invitations' = 1 .. n
            /\ invitations'[i] = row /\ \A m \in 1 .. n : m # i => invitations'[m] = invitations[m]
        BY <2>1, <4>4, <4>5
      <4>7. ASSUME NEW m \in 1 .. n
            PROVE  /\ invitations'[m].org = invitations[m].org /\ invitations'[m].email = invitations[m].email
                   /\ invitations'[m].by = invitations[m].by
                   /\ invitations'[m].accepted = invitations[m].accepted
        <5>1. CASE m = i
          BY <4>2, <4>4, <4>6, <5>1
        <5>2. CASE m # i
          BY <4>6, <5>2
        <5> QED BY <5>1, <5>2
      <4> QED BY <4>6, <4>7
    <3>2. CASE UNCHANGED invitations
      BY <2>1, <3>2
    <3> QED BY <1>1, <3>1, <3>2
  <2>3. \A o \in Orgs : Exists(o) => Exists(o)'
    BY <1>2
  <2>4. DOMAIN invitations' = DOMAIN invitations
    BY <2>1, <2>2
  <2>5. \A i \in DOMAIN invitations :
             /\ invitations'[i].org = invitations[i].org /\ invitations'[i].email = invitations[i].email
             /\ invitations'[i].by = invitations[i].by
             /\ invitations'[i].accepted = invitations[i].accepted
    BY <2>1, <2>2
  <2>6. accounts \subseteq accounts' /\ InvitationsOK
    BY <1>1, <1>2 DEF TablesOK
  <2> QED BY <1>2, <1>3, <2>2, <2>3, <2>4, <2>5, <2>6, MarkedInvitations
<1>8. MembersOK' /\ MembersChange(Nobody)
  BY <1>1, <1>2, <1>3, <1>7, SameMembers DEF TablesOK
<1>9. RangesOK'
  BY <1>1, <1>2, <1>4, <1>6, <1>7 DEF RangesOK
<1>10. Kept(Nobody) /\ TablesOK'
  BY <1>1, <1>3, <1>5, <1>6, <1>7, <1>8 DEF Kept, TablesOK
<1> QED BY <1>2, <1>9, <1>10, Steps

-----------------------------------------------------------------------------
(* What is written to the tables of organizations.                          *)
\* An invitation is spent: whoever else spent it had read it before this request ended.
LEMMA InvitationSpent ==
  ASSUME RangesOK, TablesOK, RequestsOK, NEW r \in Requests, Turn(r), ~At(r, "new"), At(r, "done")',
         accounts \subseteq accounts', \A o \in Orgs : Exists(o) => Exists(o)',
         NEW i \in DOMAIN invitations, invitations[i].email \in accounts',
         invitations[i].by \cap req[r].before = {}, Accept(i, r)
  PROVE  /\ invitations' \in Seq(InvitationRange) /\ InvitationsOK' /\ InvitationsGrow(r)
         /\ invitations'[i].accepted
<1>1. PICK n \in Nat : n = Len(invitations) /\ DOMAIN invitations = 1 .. n /\ invitations \in Seq(InvitationRange)
  BY Rows DEF RangesOK
<1>2. PICK old \in InvitationRange : old = invitations[i]
  BY <1>1
<1>3. PICK row : row = [old EXCEPT !.accepted = TRUE, !.by = old.by \cup {r}]
  OBVIOUS
<1>4. /\ row \in InvitationRange /\ row.accepted /\ row.by = old.by \cup {r}
      /\ row.org = old.org /\ row.email = old.email
  BY <1>2, <1>3 DEF InvitationRange
<1>5. invitations' = [invitations EXCEPT ![i] = row]
  BY <1>1, <1>2, <1>3 DEF Accept
<1>6. /\ invitations' \in Seq(InvitationRange) /\ DOMAIN invitations' = 1 .. n
      /\ invitations'[i] = row /\ \A m \in 1 .. n : m # i => invitations'[m] = invitations[m]
  BY <1>1, <1>4, <1>5
<1>7. InvitationsGrow(r)
  <2> SUFFICES ASSUME NEW m \in 1 .. n
               PROVE  /\ invitations'[m].org = invitations[m].org
                      /\ invitations'[m].email = invitations[m].email
                      /\ invitations'[m].by \subseteq invitations[m].by \cup {r}
                      /\ invitations[m].accepted => invitations'[m].accepted
    BY <1>1, <1>6 DEF InvitationsGrow
  <2>1. CASE m = i
    BY <1>2, <1>4, <1>6, <2>1
  <2>2. CASE m # i
    BY <1>6, <2>2
  <2> QED BY <2>1, <2>2
<1>8. r \in Holders /\ r \in Ended'
  BY DEF Holders, Ended, At, Over
<1>9. InvitationsOK'
  <2> SUFFICES ASSUME NEW m \in 1 .. n
               PROVE  /\ SpentBy(invitations[m].by)' /\ Exists(invitations[m].org)'
                      /\ ~invitations'[m].accepted => invitations'[m].by = {}
                      /\ invitations'[m].accepted => invitations'[m].email \in accounts'
    BY <1>6 DEF InvitationsOK
  <2>1. /\ SpentBy(invitations[m].by) /\ Exists(invitations[m].org)
        /\ ~invitations[m].accepted => invitations[m].by = {}
        /\ invitations[m].accepted => invitations[m].email \in accounts
    BY <1>1 DEF TablesOK, InvitationsOK
  <2>2. Exists(invitations[m].org)'
    <3>1. invitations[m] \in InvitationRange
      BY <1>1
    <3>2. PICK o \in Orgs : o = invitations[m].org
      BY <3>1 DEF InvitationRange
    <3>3. Exists(o)' /\ invitations'[m].org = o
      BY <1>1, <1>7, <2>1, <3>2 DEF InvitationsGrow
    <3> QED BY <3>3 DEF Exists, Role
  <2>3. PICK by : by = invitations[m].by
    OBVIOUS
  <2>4. by \subseteq Ended' /\ \A a, b \in by : a # b => Overlapped(a, b)'
    BY <1>8, <2>1, <2>3, SpentStays
  <2>5. CASE m # i
    <3>1. invitations'[m] = invitations[m]
      BY <1>6, <2>5
    <3>2. SpentBy(invitations[m].by)'
      BY <2>3, <2>4, <3>1 DEF SpentBy
    <3> QED BY <2>1, <2>2, <3>1, <3>2
  <2>6. CASE m = i
    <3>1. invitations'[m].by = by \cup {r} /\ invitations'[m].accepted /\ invitations'[m].email \in accounts'
      BY <1>2, <1>4, <1>6, <2>3, <2>6
    <3>2. ASSUME NEW q \in by PROVE Overlapped(r, q)' /\ Overlapped(q, r)'
      <4>1. q \in Requests /\ ~At(q, "new") /\ q \notin req[r].before
        BY <2>1, <2>3, <2>6 DEF SpentBy, Ended, At, Over
      <4> QED BY <1>8, <4>1, OverlapsNow
    <3>3. \A a, b \in by \cup {r} : a # b => Overlapped(a, b)'
      BY <2>4, <3>2
    <3>4. SpentBy(invitations[m].by)'
      BY <1>8, <2>4, <3>1, <3>3 DEF SpentBy
    <3> QED BY <2>2, <3>1, <3>4
  <2> QED BY <2>5, <2>6
<1> QED BY <1>4, <1>6, <1>7, <1>9

\* A row of members is written; the other rows are as they were.
Written(o, p, row) == members' = [members EXCEPT ![o][p] = row]
\* The row has the values it was given and no other row has changed.
LEMMA RowWritten ==
  ASSUME RangesOK, NEW o \in Orgs, NEW p \in People, NEW row \in RowRange, Written(o, p, row)
  PROVE  /\ members' \in [Orgs -> [People -> RowRange]] /\ members'[o][p] = row
         /\ \A a \in Orgs, x \in People : a # o \/ x # p => members'[a][x] = members[a][x]
<1>1. members \in [Orgs -> [People -> RowRange]]
  BY DEF RangesOK
<1>2. PICK table : table = members[o]
  OBVIOUS
<1>3. table \in [People -> RowRange]
  BY <1>1, <1>2
<1>4. PICK new : new = [table EXCEPT ![p] = row]
  OBVIOUS
<1>5. new \in [People -> RowRange] /\ new[p] = row /\ \A x \in People : x # p => new[x] = table[x]
  BY <1>3, <1>4
<1>6. members' = [members EXCEPT ![o] = new]
  BY <1>1, <1>2, <1>4 DEF Written
<1> QED BY <1>1, <1>2, <1>5, <1>6

\* An organization that somebody joins is one still, and so are the others.
LEMMA StillThere ==
  ASSUME RangesOK, NEW r \in Requests, NEW o \in Orgs, NEW p \in People, NEW role \in Roles,
         members' = [members EXCEPT ![o][p] = Row(role, r)]
  PROVE  \A a \in Orgs : Exists(a) => Exists(a)'
<1>1. PICK row : row = Row(role, r)
  OBVIOUS
<1>2. row \in RowRange /\ row.role = role
  BY <1>1 DEF Row, RowRange, Holders
<1>3. Written(o, p, row)
  BY <1>1 DEF Written
<1>4. /\ members'[o][p] = row
      /\ \A a \in Orgs, x \in People : a # o \/ x # p => members'[a][x] = members[a][x]
  BY <1>2, <1>3, RowWritten
<1>5. role # "none"
  BY DEF Roles, Assignable
<1> QED BY <1>2, <1>4, <1>5 DEF Exists, Role

\* Somebody who was no member joins: the owner of a new organization, or by an invitation.
LEMMA Joined ==
  ASSUME RangesOK, TablesOK, RequestsOK, NEW r \in Requests, Turn(r), At(r, "done")',
         accounts \subseteq accounts', InvitationsGrow(r),
         NEW o \in Orgs, NEW p \in People, p \in accounts', Role(o, p) = "none",
         NEW role \in Roles, members' = [members EXCEPT ![o][p] = Row(role, r)],
         IF role = "owner" THEN ~Exists(o)
           ELSE Exists(o) /\ \E i \in DOMAIN invitations' :
                  invitations'[i].org = o /\ invitations'[i].email = p /\ invitations'[i].accepted
  PROVE  members' \in [Orgs -> [People -> RowRange]] /\ MembersOK' /\ MembersChange(r)
<1>1. PICK row : row = Row(role, r)
  OBVIOUS
<1>2. row \in RowRange /\ row.role = role /\ row.by = r
  BY <1>1 DEF Row, RowRange, Holders
<1>3. /\ members' \in [Orgs -> [People -> RowRange]] /\ members'[o][p] = row
      /\ \A a \in Orgs, x \in People : a # o \/ x # p => members'[a][x] = members[a][x]
  <2>1. Written(o, p, row)
    BY <1>1 DEF Written
  <2> QED BY <1>2, <2>1, RowWritten
<1>4. /\ Role(o, p)' = role
      /\ \A a \in Orgs, x \in People : a # o \/ x # p => Role(a, x)' = Role(a, x)
  BY <1>2, <1>3 DEF Role
<1>5. r \in Ended' /\ r \in Holders
  BY DEF Holders, Ended, At, Over
<1>6. Ended \subseteq Ended'
  BY <1>5, EndedStay
<1>7. role # "none"
  BY DEF Roles, Assignable
<1>8. MembersChange(r)
  <2>1. \A a \in Orgs : Exists(a) => Exists(a)'
    BY <1>4 DEF Exists
  <2>2. ASSUME NEW a \in Orgs, NEW x \in People, Role(a, x)' = "owner"
        PROVE  \/ Role(a, x) = "owner" /\ members'[a][x].by = members[a][x].by
               \/ members'[a][x].by = r
    BY <1>2, <1>3, <1>4, <2>2
  <2> QED BY <2>1, <2>2 DEF MembersChange
<1>9. ASSUME NEW a \in Orgs, NEW x \in People
      PROVE  /\ members'[a][x].by \in Ended' \cup {Nobody}
             /\ Member(x, a)' => x \in accounts'
             /\ Role(a, x)' \in Assignable =>
                  \E i \in DOMAIN invitations' :
                    invitations'[i].org = a /\ invitations'[i].email = x /\ invitations'[i].accepted
  <2>1. CASE a = o /\ x = p
    <3>1. "owner" \notin Assignable
      BY DEF Assignable
    <3> QED BY <1>2, <1>3, <1>4, <1>5, <2>1, <3>1 DEF Member
  <2>2. CASE a # o \/ x # p
    <3>1. /\ members[a][x].by \in Ended \cup {Nobody} /\ (Member(x, a) => x \in accounts)
          /\ Role(a, x) \in Assignable =>
               \E i \in DOMAIN invitations :
                 invitations[i].org = a /\ invitations[i].email = x /\ invitations[i].accepted
      BY DEF TablesOK, MembersOK
    <3>2. Role(a, x)' = Role(a, x) /\ members'[a][x] = members[a][x]
      BY <1>3, <1>4, <2>2
    <3>3. Role(a, x) \in Assignable =>
               \E i \in DOMAIN invitations' :
                 invitations'[i].org = a /\ invitations'[i].email = x /\ invitations'[i].accepted
      BY <3>1 DEF InvitationsGrow
    <3> QED BY <1>6, <3>1, <3>2, <3>3 DEF Member
  <2> QED BY <2>1, <2>2
<1>10. ASSUME NEW a \in Orgs, NEW x \in People, NEW y \in People,
              Role(a, x)' = "owner", Role(a, y)' = "owner"
       PROVE  x = y
  <2>1. CASE Role(a, x) = "owner" /\ Role(a, y) = "owner"
    BY <2>1 DEF TablesOK, MembersOK
  <2>2. CASE ~ (Role(a, x) = "owner" /\ Role(a, y) = "owner")
    <3>1. a = o /\ role = "owner" /\ ~Exists(o)
      BY <1>4, <1>10, <2>2
    <3>2. \A z \in People : Role(o, z) # "owner"
      BY <3>1 DEF Exists
    <3> QED BY <1>4, <1>10, <3>1, <3>2
  <2> QED BY <2>1, <2>2
<1>11. ASSUME NEW a \in Orgs, Exists(a)'
       PROVE  \E x \in People : Role(a, x)' = "owner"
  <2>1. CASE Exists(a)
    <3>1. PICK x \in People : Role(a, x) = "owner"
      BY <2>1 DEF TablesOK, MembersOK
    <3>2. a # o \/ x # p
      BY <3>1
    <3> QED BY <1>4, <3>1, <3>2
  <2>2. CASE ~Exists(a)
    <3>1. a = o
      BY <1>4, <1>11, <2>2 DEF Exists
    <3> QED BY <1>4, <2>2, <3>1
  <2> QED BY <2>1, <2>2
<1>12. MembersOK'
  BY <1>9, <1>10, <1>11 DEF MembersOK
<1> QED BY <1>3, <1>8, <1>12

\* A step of organizations: it leaves the sessions alone.
LEMMA OrganizationsOnly ==
  ASSUME IInv, NEW r \in Requests, Turn(r), RequestOK(r)', UNCHANGED <<accounts, tokens, links, cookie>>,
         members' \in [Orgs -> [People -> RowRange]], MembersOK', MembersChange(r),
         invitations' \in Seq(InvitationRange), InvitationsOK', InvitationsGrow(r)
  PROVE  IInv'
<1>1. r \in Holders /\ RangesOK /\ TablesOK /\ RequestsOK
  BY DEF Holders, IInv
<1>2. RangesOK'
  BY <1>1 DEF RangesOK
<1>3. TokensOK' /\ SiblingsOK' /\ ForksOK' /\ TokensGrow(r)
  BY <1>1, MarkedTokens DEF TablesOK, Marked
<1>4. LinksOK' /\ LinksGrow(r)
  BY <1>1, MarkedLinks DEF TablesOK
<1>5. Kept(r) /\ TablesOK'
  BY <1>3, <1>4 DEF Kept, TablesOK
<1> QED BY <1>1, <1>2, <1>5, Steps

\* Who opens an organization that did not exist owns it.
LEMMA OrgCreated ==
  ASSUME IInv, NEW r \in Requests, CreateOrg(r)
  PROVE  IInv'
<1>1. PICK p \in accounts, o \in Orgs :
        /\ ~Exists(o)
        /\ Begin(r, [Fresh EXCEPT !.pc = "done", !.op = "org", !.who = p, !.org = o])
        /\ members' = [members EXCEPT ![o][p] = Row("owner", r)]
        /\ UNCHANGED <<accounts, tokens, links, invitations, cookie>>
  BY DEF CreateOrg
<1>2. PICK new : new = [Fresh EXCEPT !.pc = "done", !.op = "org", !.who = p, !.org = o]
  OBVIOUS
<1>3. /\ DOMAIN new = Fields /\ new.pc = "done" /\ new.op = "org" /\ new.who = p
      /\ new.target = Founder /\ new.org = o
  BY <1>2 DEF Fresh, Fields
<1>4. Begin(r, new)
  BY <1>1, <1>2
<1>5. RangesOK /\ TablesOK /\ RequestsOK /\ p \in People /\ r \in Holders /\ Role(o, p) = "none"
  BY <1>1 DEF IInv, RangesOK, Holders, Exists
<1>6. Turn(r) /\ AnyRequestOK(r)' /\ At(r, "done")' /\ req'[r].op = "none"
  BY <1>3, <1>4, <1>5, Begun, FreshFields, PeopleAssumption DEF Over, At
<1>7. RequestOK(r)'
  BY <1>6, NothingEnded
<1>8. InvitationsGrow(r)
  BY <1>1, Unchanged
<1>9. members' \in [Orgs -> [People -> RowRange]] /\ MembersOK' /\ MembersChange(r)
  <2>1. "owner" \in Roles
    BY DEF Roles
  <2> QED BY <1>1, <1>5, <1>6, <1>8, <2>1, Joined
<1>10. InvitationsOK' /\ invitations' \in Seq(InvitationRange)
  <2>1. \A a \in Orgs : Exists(a) => Exists(a)'
    BY <1>9 DEF MembersChange
  <2> QED BY <1>1, <1>5, <1>6, <2>1, MarkedInvitations DEF TablesOK, RangesOK
<1> QED BY <1>1, <1>6, <1>7, <1>8, <1>9, <1>10, OrganizationsOnly

\* An invitation is stored, accepted by nobody.
LEMMA InviteCommits ==
  ASSUME IInv, NEW r \in Requests, Invite(r)
  PROVE  IInv'
<1>1. At(r, "invite") /\ req[r].pc \notin Over /\ ~At(r, "new")
  BY DEF Invite, At, Over
<1>2. CASE Fail(r)
  BY <1>1, <1>2, Failing
<1>3. CASE ~Fail(r)
  <2>1. /\ invitations' = Append(invitations, Invitation(req[r].org, req[r].target, req[r].role))
        /\ Close(r, "done") /\ "done" \in Over /\ UNCHANGED <<accounts, members, tokens, links, cookie>>
    BY <1>3 DEF Invite, Done, Over
  <2>2. RangesOK /\ TablesOK /\ RequestsOK /\ RequestOK(r) /\ r \in Holders
    BY DEF IInv, RequestsOK, Holders
  <2>3. req[r].op = "invite"
    BY <1>1, <2>2 DEF RequestOK, ManageOK, At, Managing
  <2>4. PICK o \in Orgs, p \in People, role \in Assignable :
          o = req[r].org /\ p = req[r].target /\ role = req[r].role /\ Exists(o)
    BY <1>1, <2>2 DEF RequestOK, AnyRequestOK, ManageOK, At, Managing
  <2>5. PICK row : row = Invitation(o, p, role)
    OBVIOUS
  <2>6. row \in InvitationRange /\ row.org = o /\ row.by = {} /\ ~row.accepted
    BY <2>5 DEF Invitation, InvitationRange
  <2>7. PICK n \in Nat : n = Len(invitations) /\ DOMAIN invitations = 1 .. n /\ invitations \in Seq(InvitationRange)
    BY <2>2, Rows DEF RangesOK
  <2>8. /\ invitations' \in Seq(InvitationRange) /\ DOMAIN invitations' = 1 .. n + 1
        /\ invitations'[n + 1] = row /\ \A i \in 1 .. n : invitations'[i] = invitations[i]
    BY <2>1, <2>4, <2>5, <2>6, <2>7, AppendProperties
  <2>9. Turn(r) /\ AnyRequestOK(r)' /\ At(r, "done")' /\ req'[r].op = "none"
    BY <1>1, <2>1, <2>3, Ends
  <2>10. RequestOK(r)'
    BY <2>9, NothingEnded
  <2>11. InvitationsGrow(r)
    BY <2>7, <2>8 DEF InvitationsGrow
  <2>12. \A a \in Orgs : Exists(a) => Exists(a)'
    BY <2>1 DEF Exists, Role
  <2>13. ASSUME NEW i \in 1 .. n
         PROVE  /\ SpentBy(invitations[i].by)' /\ Exists(invitations[i].org)'
                /\ ~invitations'[i].accepted => invitations'[i].by = {}
                /\ invitations'[i].accepted => invitations'[i].email \in accounts'
    <3>1. /\ SpentBy(invitations[i].by) /\ Exists(invitations[i].org)
          /\ ~invitations[i].accepted => invitations[i].by = {}
          /\ invitations[i].accepted => invitations[i].email \in accounts
      BY <2>2, <2>7 DEF TablesOK, InvitationsOK
    <3>2. PICK by : by = invitations[i].by
      OBVIOUS
    <3>3. by \subseteq Ended' /\ \A a, b \in by : a # b => Overlapped(a, b)'
      BY <2>2, <2>9, <3>1, <3>2, SpentStays
    <3>4. invitations'[i] = invitations[i]
      BY <2>8
    <3>5. SpentBy(invitations[i].by)'
      BY <3>2, <3>3, <3>4 DEF SpentBy
    <3>6. Exists(invitations[i].org)'
      <4>1. invitations[i] \in InvitationRange
        BY <2>7
      <4>2. PICK a \in Orgs : a = invitations[i].org
        BY <4>1 DEF InvitationRange
      <4>3. Exists(a)' /\ invitations'[i].org = a
        BY <2>12, <3>1, <3>4, <4>2
      <4> QED BY <4>3 DEF Exists, Role
    <3>7. accounts' = accounts
      BY <2>1
    <3> QED BY <3>1, <3>4, <3>5, <3>6, <3>7
  <2>14. /\ SpentBy(invitations[n + 1].by)' /\ Exists(invitations[n + 1].org)'
         /\ ~invitations'[n + 1].accepted /\ invitations'[n + 1].by = {}
    <3>1. Exists(o)' /\ invitations'[n + 1].org = o
      BY <2>4, <2>6, <2>8, <2>12
    <3>2. Exists(invitations[n + 1].org)'
      BY <3>1 DEF Exists, Role
    <3> QED BY <2>6, <2>8, <3>2 DEF SpentBy
  <2>15. InvitationsOK'
    <3>1. \A i \in 1 .. n + 1 : i \in 1 .. n \/ i = n + 1
      OBVIOUS
    <3> QED BY <2>8, <2>13, <2>14, <3>1 DEF InvitationsOK
  <2>16. MembersOK' /\ MembersChange(r)
    BY <2>1, <2>2, <2>9, <2>11, SameMembers DEF TablesOK
  <2>17. members' \in [Orgs -> [People -> RowRange]]
    BY <2>1, <2>2 DEF RangesOK
  <2> QED BY <2>1, <2>8, <2>9, <2>10, <2>11, <2>15, <2>16, <2>17, OrganizationsOnly
<1> QED BY <1>2, <1>3

\* An invitation is spent by somebody who was no member, or who was one already.
LEMMA AcceptCommits ==
  ASSUME IInv, NEW r \in Requests, CommitAccept(r)
  PROVE  IInv'
<1>1. At(r, "join") /\ req[r].pc \notin Over /\ ~At(r, "new")
  BY DEF CommitAccept, At, Over
<1>2. CASE Fail(r)
  BY <1>1, <1>2, Failing
<1>3. CASE ~Fail(r)
  <2>1. PICK o, p, i : o = req[r].org /\ p = req[r].who /\ i = req[r].item
    OBVIOUS
  <2>2. /\ req[r].seen # {} \/ ~Member(p, o)
        /\ members' = IF req[r].seen # {} THEN members
                      ELSE [members EXCEPT ![o][p] = Row(invitations[i].role, r)]
        /\ Accept(i, r) /\ Close(r, "done") /\ UNCHANGED <<accounts, tokens, links, cookie>>
    BY <1>3, <2>1 DEF CommitAccept, Done
  <2>3. RangesOK /\ TablesOK /\ RequestsOK /\ RequestOK(r) /\ r \in Holders
    BY DEF IInv, RequestsOK, Holders
  <2>4. /\ req[r].op = "accept" /\ i \in DOMAIN invitations /\ p \in accounts /\ p \in People
        /\ o \in Orgs /\ o = invitations[i].org /\ invitations[i].email = p
        /\ invitations[i].by \cap req[r].before = {}
    BY <1>1, <2>1, <2>3 DEF RequestOK, AnyRequestOK, SpendOK, RangesOK
  <2>5. Turn(r) /\ AnyRequestOK(r)' /\ At(r, "done")' /\ req'[r].op = "none"
    BY <1>1, <2>2, <2>4, Ends DEF Over
  <2>6. RequestOK(r)'
    BY <2>5, NothingEnded
  <2>7. Exists(o) /\ invitations[i].role \in Assignable
    <3>1. invitations[i] \in InvitationRange
      BY <2>3, <2>4, Rows
    <3> QED BY <2>3, <2>4, <3>1 DEF TablesOK, InvitationsOK, InvitationRange
  <2>8. CASE req[r].seen # {}
    <3>1. UNCHANGED members /\ \A a \in Orgs : Exists(a) => Exists(a)'
      BY <2>2, <2>8 DEF Exists, Role
    <3>2. invitations' \in Seq(InvitationRange) /\ InvitationsOK' /\ InvitationsGrow(r)
      BY <1>1, <2>2, <2>3, <2>4, <2>5, <3>1, InvitationSpent
    <3>3. MembersOK' /\ MembersChange(r) /\ members' \in [Orgs -> [People -> RowRange]]
      BY <2>2, <2>3, <2>5, <3>1, <3>2, SameMembers DEF TablesOK, RangesOK
    <3> QED BY <2>2, <2>5, <2>6, <3>2, <3>3, OrganizationsOnly
  <2>9. CASE req[r].seen = {}
    <3>1. PICK role \in Assignable : role = invitations[i].role
      BY <2>7
    <3>2. members' = [members EXCEPT ![o][p] = Row(role, r)] /\ Role(o, p) = "none"
      BY <2>2, <2>9, <3>1 DEF Member
    <3>3. role \in Roles /\ role # "owner" /\ \A a \in Orgs : Exists(a) => Exists(a)'
      <4>1. role \in Roles /\ role # "owner"
        BY DEF Roles, Assignable
      <4> QED BY <2>3, <2>4, <3>2, <4>1, StillThere
    <3>4. /\ invitations' \in Seq(InvitationRange) /\ InvitationsOK' /\ InvitationsGrow(r)
          /\ invitations'[i].accepted
      BY <1>1, <2>2, <2>3, <2>4, <2>5, <3>3, InvitationSpent
    <3>5. \E j \in DOMAIN invitations' :
            invitations'[j].org = o /\ invitations'[j].email = p /\ invitations'[j].accepted
      BY <2>4, <3>4 DEF InvitationsGrow
    <3>6. accounts \subseteq accounts' /\ p \in accounts'
      BY <2>2, <2>4
    <3>7. members' \in [Orgs -> [People -> RowRange]] /\ MembersOK' /\ MembersChange(r)
      BY <2>3, <2>4, <2>5, <2>7, <3>2, <3>3, <3>4, <3>5, <3>6, Joined
    <3> QED BY <2>2, <2>5, <2>6, <3>4, <3>7, OrganizationsOnly
  <2> QED BY <2>8, <2>9
<1> QED BY <1>2, <1>3

\* An account is opened: its session and its first membership with it.
LEMMA SignupCommits ==
  ASSUME IInv, NEW r \in Requests, CommitSignup(r)
  PROVE  IInv'
<1>1. At(r, "signup") /\ req[r].pc \notin Over /\ ~At(r, "new")
  BY DEF CommitSignup, At, Over
<1>2. CASE Fail(r)
  BY <1>1, <1>2, Failing
<1>3. CASE ~Fail(r)
  <2>1. PICK p, i : p = req[r].who /\ i = req[r].item
    OBVIOUS
  <2>2. /\ p \notin accounts /\ accounts' = accounts \cup {p}
        /\ tokens' = Issue(tokens, p, 0, 0, r)
        /\ \/ /\ i = 0 /\ UNCHANGED invitations
              /\ \E o \in Orgs :
                   ~Exists(o) /\ members' = [members EXCEPT ![o][p] = Row("owner", r)]
           \/ /\ i # 0 /\ Accept(i, r)
              /\ members' = [members EXCEPT ![invitations[i].org][p] = Row(invitations[i].role, r)]
        /\ Close(r, "done") /\ "done" \in Over /\ UNCHANGED <<links, cookie>>
    BY <1>3, <2>1 DEF CommitSignup, Done, Over
  <2>3. RangesOK /\ TablesOK /\ RequestsOK /\ RequestOK(r) /\ r \in Holders
    BY DEF IInv, RequestsOK, Holders
  <2>4. req[r].op = "signup" /\ p \in People /\ i \in {0} \cup DOMAIN invitations
    BY <1>1, <2>1, <2>3 DEF RequestOK, AnyRequestOK, SpendOK
  <2>5. Turn(r) /\ AnyRequestOK(r)' /\ At(r, "done")' /\ req'[r].op = "none"
    BY <1>1, <2>2, <2>4, Ends
  <2>6. RequestOK(r)'
    BY <2>5, NothingEnded
  <2>7. accounts \subseteq accounts' /\ p \in accounts' /\ accounts' \subseteq People /\ Founder \in accounts'
    BY <2>2, <2>3, <2>4 DEF RangesOK
  <2>8. /\ tokens' \in Seq(TokenRange) /\ Len(tokens') = Len(tokens) + 1 /\ Len(tokens) \in Nat
        /\ TokensOK' /\ SiblingsOK' /\ ForksOK' /\ TokensGrow(r)
    BY <1>1, <2>2, <2>3, <2>4, <2>5, <2>7, NewSession
  <2>9. LinksOK' /\ LinksGrow(r) /\ links' \in Seq(LinkRange)
    BY <2>2, <2>3, <2>5, <2>7, MarkedLinks DEF TablesOK, RangesOK
  <2>10. \A o \in Orgs : Role(o, p) = "none"
    BY <2>2, <2>3, <2>4 DEF TablesOK, MembersOK, Member
  <2>11. /\ invitations' \in Seq(InvitationRange) /\ InvitationsOK' /\ InvitationsGrow(r)
         /\ members' \in [Orgs -> [People -> RowRange]] /\ MembersOK' /\ MembersChange(r)
    <3>1. CASE i = 0
      <4>1. PICK o \in Orgs : ~Exists(o) /\ members' = [members EXCEPT ![o][p] = Row("owner", r)]
        BY <2>2, <3>1
      <4>2. "owner" \in Roles /\ UNCHANGED invitations
        BY <2>2, <3>1 DEF Roles
      <4>3. \A a \in Orgs : Exists(a) => Exists(a)'
        BY <2>3, <2>4, <4>1, <4>2, StillThere
      <4>4. InvitationsOK' /\ InvitationsGrow(r) /\ invitations' \in Seq(InvitationRange)
        BY <2>3, <2>5, <2>7, <4>2, <4>3, MarkedInvitations DEF TablesOK, RangesOK
      <4>5. members' \in [Orgs -> [People -> RowRange]] /\ MembersOK' /\ MembersChange(r)
        BY <2>3, <2>4, <2>5, <2>7, <2>10, <4>1, <4>2, <4>4, Joined
      <4> QED BY <4>4, <4>5
    <3>2. CASE i # 0
      <4>1. /\ i \in DOMAIN invitations /\ invitations[i] \in InvitationRange
            /\ invitations[i].email = p /\ invitations[i].by \cap req[r].before = {}
        BY <1>1, <2>1, <2>3, <2>4, <3>2, Rows DEF RequestOK, SpendOK
      <4>2. PICK o \in Orgs, role \in Assignable : o = invitations[i].org /\ role = invitations[i].role
        BY <4>1 DEF InvitationRange
      <4>3. members' = [members EXCEPT ![o][p] = Row(role, r)] /\ Accept(i, r)
        BY <2>2, <3>2, <4>2
      <4>4. role \in Roles /\ role # "owner" /\ Exists(o)
        BY <2>3, <4>1, <4>2 DEF Roles, Assignable, TablesOK, InvitationsOK
      <4>5. \A a \in Orgs : Exists(a) => Exists(a)'
        BY <2>3, <2>4, <4>3, <4>4, StillThere
      <4>6. /\ invitations' \in Seq(InvitationRange) /\ InvitationsOK' /\ InvitationsGrow(r)
            /\ invitations'[i].accepted
        BY <1>1, <2>3, <2>5, <2>7, <4>1, <4>3, <4>5, InvitationSpent
      <4>7. \E j \in DOMAIN invitations' :
              invitations'[j].org = o /\ invitations'[j].email = p /\ invitations'[j].accepted
        BY <4>1, <4>2, <4>6 DEF InvitationsGrow
      <4>8. members' \in [Orgs -> [People -> RowRange]] /\ MembersOK' /\ MembersChange(r)
        BY <2>3, <2>4, <2>5, <2>7, <2>10, <4>3, <4>4, <4>6, <4>7, Joined
      <4> QED BY <4>6, <4>8
    <3> QED BY <3>1, <3>2
  <2>12. RangesOK'
    <3>1. cookie' \in 0 .. Len(tokens')
      BY <2>2, <2>3, <2>8 DEF RangesOK
    <3> QED BY <2>7, <2>8, <2>9, <2>11, <3>1 DEF RangesOK
  <2>13. Kept(r) /\ TablesOK'
    BY <2>5, <2>7, <2>8, <2>9, <2>11 DEF Kept, TablesOK
  <2> QED BY <2>3, <2>6, <2>12, <2>13, Steps
<1> QED BY <1>2, <1>3

\* The row of a member who is not the owner becomes another such row, or none.
WrittenOver(r, o, p, row) ==
  /\ row \in RowRange /\ row.role \in Assignable \cup {"none"} /\ row.by \in {members[o][p].by, Nobody}
  /\ Role(o, p) \in Assignable /\ Written(o, p, row)
\* Such a change leaves every organization with the one owner it had.
LEMMA RoleChanged ==
  ASSUME RangesOK, RequestsOK, MembersOK, NEW r \in Requests, Turn(r), accounts \subseteq accounts',
         InvitationsGrow(r), NEW o \in Orgs, NEW p \in People, NEW row, WrittenOver(r, o, p, row)
  PROVE  members' \in [Orgs -> [People -> RowRange]] /\ MembersOK' /\ MembersChange(r)
<1>1. /\ row \in RowRange /\ row.role \in Assignable \cup {"none"}
      /\ row.by \in {members[o][p].by, Nobody} /\ Role(o, p) \in Assignable /\ Written(o, p, row)
  BY DEF WrittenOver
<1>2. /\ members' \in [Orgs -> [People -> RowRange]] /\ members'[o][p] = row
      /\ \A a \in Orgs, x \in People : a # o \/ x # p => members'[a][x] = members[a][x]
  BY <1>1, RowWritten
<1>3. Ended \subseteq Ended' /\ "owner" \notin Assignable /\ "none" \notin Assignable
  BY EndedStay DEF Holders, Assignable
<1>4. \A a \in Orgs, x \in People : Role(a, x)' = "owner" <=> Role(a, x) = "owner"
  BY <1>1, <1>2, <1>3 DEF Role
<1>5. ASSUME NEW a \in Orgs, Exists(a) \/ Exists(a)'
      PROVE  \E x \in People : Role(a, x) = "owner" /\ Role(a, x)' = "owner"
  <2>1. Exists(a)
    BY <1>1, <1>2, <1>3, <1>5 DEF Exists, Role
  <2> QED BY <1>4, <2>1 DEF MembersOK
<1>6. MembersChange(r)
  <2>1. \A a \in Orgs : Exists(a) => Exists(a)'
    BY <1>5 DEF Exists
  <2>2. ASSUME NEW a \in Orgs, NEW x \in People, Role(a, x)' = "owner"
        PROVE  Role(a, x) = "owner" /\ members'[a][x].by = members[a][x].by
    BY <1>1, <1>2, <1>3, <1>4, <2>2
  <2> QED BY <2>1, <2>2 DEF MembersChange
<1>7. ASSUME NEW a \in Orgs, NEW x \in People
      PROVE  /\ members'[a][x].by \in Ended' \cup {Nobody}
             /\ Member(x, a)' => x \in accounts'
             /\ Role(a, x)' \in Assignable =>
                  \E i \in DOMAIN invitations' :
                    invitations'[i].org = a /\ invitations'[i].email = x /\ invitations'[i].accepted
  <2>1. /\ members[a][x].by \in Ended \cup {Nobody} /\ (Member(x, a) => x \in accounts)
        /\ Role(a, x) \in Assignable =>
             \E i \in DOMAIN invitations :
               invitations[i].org = a /\ invitations[i].email = x /\ invitations[i].accepted
    BY DEF MembersOK
  <2>2. Role(a, x) \in Assignable =>
             \E i \in DOMAIN invitations' :
               invitations'[i].org = a /\ invitations'[i].email = x /\ invitations'[i].accepted
    BY <2>1 DEF InvitationsGrow
  <2>3. CASE a = o /\ x = p
    BY <1>1, <1>2, <1>3, <2>1, <2>2, <2>3 DEF Member
  <2>4. CASE a # o \/ x # p
    <3>1. members'[a][x] = members[a][x] /\ Role(a, x)' = Role(a, x)
      BY <1>2, <2>4 DEF Role
    <3> QED BY <1>3, <2>1, <2>2, <3>1 DEF Member
  <2> QED BY <2>3, <2>4
<1>8. \A a \in Orgs : \A x, y \in People : Role(a, x)' = "owner" /\ Role(a, y)' = "owner" => x = y
  BY <1>4 DEF MembersOK
<1>9. MembersOK'
  BY <1>5, <1>7, <1>8 DEF MembersOK
<1> QED BY <1>2, <1>6, <1>9

\* A member is given another role or removed: never the owner, whoever has become it since.
LEMMA WriteCommits ==
  ASSUME IInv, NEW r \in Requests, CommitWrite(r)
  PROVE  IInv'
<1>1. At(r, "write") /\ req[r].pc \notin Over /\ ~At(r, "new")
  BY DEF CommitWrite, At, Over
<1>2. CASE Fail(r)
  BY <1>1, <1>2, Failing
<1>3. CASE ~Fail(r)
  <2>1. RangesOK /\ TablesOK /\ RequestsOK /\ RequestOK(r) /\ r \in Holders
    BY DEF IInv, RequestsOK, Holders
  <2>2. /\ req[r].op \in Managing /\ req[r].op # "invite"
        /\ members[req[r].org][req[r].target].by \in req[r].seen =>
             Role(req[r].org, req[r].target) # "owner"
    BY <1>1, <2>1 DEF RequestOK, ManageOK, At
  <2>3. PICK o \in Orgs, p \in People, role \in Assignable :
          o = req[r].org /\ p = req[r].target /\ role = req[r].role
    BY <1>1, <2>1 DEF RequestOK, AnyRequestOK, ManageOK, At
  <2>4. PICK there \in BOOLEAN :
          there <=> Role(o, p) # "none" /\ members[o][p].by \in req[r].seen
    OBVIOUS
  <2>5. /\ members' = IF ~there THEN members
                      ELSE IF req[r].op = "remove" THEN [members EXCEPT ![o][p] = NoRow]
                      ELSE [members EXCEPT ![o][p].role = role]
        /\ Close(r, "done") /\ "done" \in Over /\ UNCHANGED <<accounts, tokens, links, invitations, cookie>>
    BY <1>3, <2>3, <2>4 DEF CommitWrite, Done, Role, Over
  <2>6. Turn(r) /\ AnyRequestOK(r)' /\ At(r, "done")' /\ req'[r].op = "none"
    BY <1>1, <2>2, <2>5, Ends DEF Managing
  <2>7. RequestOK(r)'
    BY <2>6, NothingEnded
  <2>8. InvitationsGrow(r) /\ accounts \subseteq accounts'
    BY <2>5, Unchanged
  <2>9. members' \in [Orgs -> [People -> RowRange]] /\ MembersOK' /\ MembersChange(r)
    <3>1. CASE ~there
      BY <2>1, <2>5, <2>6, <2>8, <3>1, SameMembers DEF TablesOK, RangesOK
    <3>2. CASE there
      <4>1. Role(o, p) \in Assignable
        <5>1. members[o][p] \in RowRange
          BY <2>1, Rows
        <5> QED BY <2>2, <2>3, <2>4, <3>2, <5>1 DEF Role, RowRange, Roles
      <4>2. PICK old \in RowRange : old = members[o][p]
        BY <2>1, Rows
      <4>3. PICK row : row = IF req[r].op = "remove" THEN NoRow ELSE [old EXCEPT !.role = role]
        OBVIOUS
      <4>4. /\ row \in RowRange /\ row.role \in Assignable \cup {"none"}
            /\ row.by \in {old.by, Nobody}
        BY <4>2, <4>3 DEF RowRange, NoRow, Holders, Roles
      <4>5. Written(o, p, row)
        <5>1. CASE req[r].op = "remove"
          BY <2>5, <3>2, <4>3, <5>1 DEF Written
        <5>2. CASE req[r].op # "remove"
          <6>1. members \in [Orgs -> [People -> RowRange]]
            BY <2>1 DEF RangesOK
          <6> QED BY <2>5, <3>2, <4>2, <4>3, <5>2, <6>1 DEF Written
        <5> QED BY <5>1, <5>2
      <4>6. WrittenOver(r, o, p, row)
        BY <4>1, <4>2, <4>4, <4>5 DEF WrittenOver
      <4> QED BY <2>1, <2>6, <2>8, <4>6, RoleChanged DEF TablesOK
    <3> QED BY <3>1, <3>2
  <2>10. InvitationsOK' /\ invitations' \in Seq(InvitationRange)
    <3>1. \A a \in Orgs : Exists(a) => Exists(a)'
      BY <2>9 DEF MembersChange
    <3> QED BY <2>1, <2>5, <2>6, <2>8, <3>1, MarkedInvitations DEF TablesOK, RangesOK
  <2> QED BY <2>5, <2>6, <2>7, <2>8, <2>9, <2>10, OrganizationsOnly
<1> QED BY <1>2, <1>3

-----------------------------------------------------------------------------
(* The invariant of the specification, and what follows from it.            *)
\* The tables the first sign-up leaves are in order and no request has begun.
LEMMA InitOK == Init => IInv
<1> SUFFICES ASSUME Init PROVE IInv
  OBVIOUS
<1>1. PICK t : t = Token(Founder, 1, 0, Nobody)
  OBVIOUS
<1>2. PICK l : l = Link(Founder)
  OBVIOUS
<1>3. PICK v : v = Invitation(Home, Invited, "admin")
  OBVIOUS
<1>4. /\ accounts = {Founder} /\ links = <<l>> /\ invitations = <<v>> /\ cookie = 1
      /\ members = [o \in Orgs |-> [p \in People |->
           IF o = Home /\ p = Founder THEN [role |-> "owner", by |-> Nobody] ELSE NoRow]]
      /\ req = [r \in Requests |-> Fresh]
  BY <1>2, <1>3 DEF Init
<1>5. tokens = <<t>>
  <2>1. tokens = Append(<<>>, t)
    BY <1>1 DEF Init, Issue
  <2> QED BY <2>1
<1>6. /\ t \in TokenRange /\ t.user = Founder /\ t.family = 1 /\ t.parent = 0
      /\ t.issuer = Nobody /\ ~t.used
  BY <1>1, PeopleAssumption DEF Token, TokenRange, Holders
<1>7. l \in LinkRange /\ l.user = Founder /\ l.by = {}
  BY <1>2, PeopleAssumption DEF Link, LinkRange
<1>8. v \in InvitationRange /\ v.org = Home /\ v.email = Invited /\ ~v.accepted /\ v.by = {}
  BY <1>3, PeopleAssumption DEF Invitation, InvitationRange, Assignable
<1>9. Founder \in People /\ Home \in Orgs /\ Nobody \notin Requests
  BY PeopleAssumption
<1>10. /\ Ended = {} /\ \A r \in Requests : At(r, "new")
  BY <1>4 DEF Ended, At, Over, Fresh
<1>11. members \in [Orgs -> [People -> RowRange]]
  <2>1. NoRow \in RowRange /\ [role |-> "owner", by |-> Nobody] \in RowRange
    BY DEF NoRow, RowRange, Roles, Holders
  <2> QED BY <1>4, <2>1
<1>12. /\ \A o \in Orgs, p \in People :
            /\ members[o][p].by = Nobody
            /\ Role(o, p) = IF o = Home /\ p = Founder THEN "owner" ELSE "none"
  BY <1>4 DEF Role, NoRow
<1>13. RangesOK
  <2>1. tokens \in Seq(TokenRange) /\ links \in Seq(LinkRange) /\ invitations \in Seq(InvitationRange)
    BY <1>4, <1>5, <1>6, <1>7, <1>8
  <2>2. Len(tokens) = 1
    BY <1>5
  <2> QED BY <1>4, <1>9, <1>11, <2>1, <2>2 DEF RangesOK
<1>14. TokensOK /\ SiblingsOK /\ ForksOK
  <2>1. DOMAIN tokens = {1} /\ tokens[1] = t
    BY <1>5
  <2> QED BY <1>4, <1>6, <1>9, <2>1 DEF TokensOK, SiblingsOK, ForksOK, Siblings
<1>15. LinksOK
  <2>1. DOMAIN links = {1} /\ links[1] = l
    BY <1>4
  <2> QED BY <1>4, <1>7, <2>1 DEF LinksOK, SpentBy
<1>16. InvitationsOK
  <2>1. DOMAIN invitations = {1} /\ invitations[1] = v
    BY <1>4
  <2>2. Exists(Home)
    BY <1>9, <1>12 DEF Exists
  <2> QED BY <1>8, <2>1, <2>2 DEF InvitationsOK, SpentBy
<1>17. MembersOK
  <2>1. "owner" \notin Assignable /\ "none" \notin Assignable
    BY DEF Assignable
  <2> QED BY <1>4, <1>9, <1>12, <2>1 DEF MembersOK, Member, Exists
<1>18. RequestsOK
  <2> SUFFICES ASSUME NEW r \in Requests PROVE RequestOK(r)
    BY <1>4 DEF RequestsOK
  <2>1. req[r] = Fresh
    BY <1>4
  <2>2. AnyRequestOK(r)
    BY <1>9, <2>1 DEF AnyRequestOK, Fresh
  <2>3. req[r].pc = "new"
    BY <2>1 DEF Fresh
  <2> QED BY <2>2, <2>3 DEF RequestOK, RotateOK, LogoutOK, ResetOK, SpendOK, ManageOK, DoneOK, At, Managing
<1> QED BY <1>13, <1>14, <1>15, <1>16, <1>17, <1>18 DEF IInv, TablesOK

\* Every step keeps it.
LEMMA StepOK == IInv /\ [Next]_vars => IInv'
<1> SUFFICES ASSUME IInv, [Next]_vars PROVE IInv'
  OBVIOUS
<1>1. CASE UNCHANGED vars
  <2>1. RangesOK'
    BY <1>1 DEF vars, IInv, RangesOK
  <2>2. TokensOK' /\ SiblingsOK' /\ ForksOK'
    BY <1>1 DEF vars, IInv, TablesOK, TokensOK, SiblingsOK, ForksOK, Siblings, Overlapped, At
  <2>3. LinksOK' /\ InvitationsOK' /\ MembersOK'
    BY <1>1 DEF vars, IInv, TablesOK, LinksOK, InvitationsOK, MembersOK, SpentBy, Overlapped, Ended,
                Exists, Role, Member
  <2>4. RequestsOK'
    <3> SUFFICES ASSUME NEW r \in Requests PROVE RequestOK(r)'
      BY <1>1 DEF vars, IInv, RequestsOK
    <3>1. RequestOK(r)
      BY DEF IInv, RequestsOK
    <3>2. (AnyRequestOK(r) /\ RotateOK(r) /\ LogoutOK(r) /\ ResetOK(r))'
      BY <1>1, <3>1 DEF vars, RequestOK, AnyRequestOK, RotateOK, LogoutOK, ResetOK, Ended, At, Earlier
    <3>3. (SpendOK(r) /\ ManageOK(r) /\ DoneOK(r))'
      BY <1>1, <3>1 DEF vars, RequestOK, SpendOK, ManageOK, DoneOK, EndedBy, Ended, Exists, Role, At
    <3>4. (At(r, "replay") => req[r].op = "refresh")'
      BY <1>1, <3>1 DEF vars, RequestOK, At
    <3> QED BY <3>2, <3>3, <3>4 DEF RequestOK
  <2> QED BY <2>1, <2>2, <2>3, <2>4 DEF IInv, TablesOK
<1>2. CASE Lapse
  BY <1>2, Expiry
<1>3. ASSUME NEW r \in Requests, SessionStep(r)
      PROVE  IInv'
  <2>1. CASE BeginLogin(r)
    BY <2>1, LoginBegins
  <2>2. CASE CommitLogin(r)
    BY <2>2, LoginCommits
  <2>3. CASE BeginRefresh(r)
    BY <2>3, RefreshBegins
  <2>4. CASE CommitRefresh(r)
    BY <2>4, RefreshCommits
  <2>5. CASE RefuseReplay(r)
    BY <2>5, ReplayRefused
  <2>6. CASE BeginLogout(r)
    BY <2>6, LogoutBegins
  <2>7. CASE ReadFamily(r)
    BY <2>7, FamilyRead
  <2>8. CASE CommitLogout(r)
    BY <2>8, LogoutCommits
  <2>9. CASE SignOutUnreached(r) \/ LimitRefresh(r)
    BY <2>9, DashboardBegins
  <2>10. CASE BeginForgot(r)
    BY <2>10, ForgotBegins
  <2>11. CASE CommitForgot(r)
    BY <2>11, ForgotCommits
  <2>12. CASE BeginReset(r)
    BY <2>12, ResetBegins
  <2>13. CASE ResetStatements(r)
    BY <2>13, StatementsRun
  <2>14. CASE CommitReset(r)
    BY <2>14, ResetCommits
  <2>15. CASE StoreCookie(r) \/ ClearCookie(r)
    BY <2>15, CookieStored
  <2> QED BY <1>3, <2>1, <2>2, <2>3, <2>4, <2>5, <2>6, <2>7, <2>8, <2>9, <2>10, <2>11, <2>12, <2>13,
             <2>14, <2>15 DEF SessionStep
<1>4. ASSUME NEW r \in Requests, WorkspaceStep(r)
      PROVE  IInv'
  <2>1. CASE BeginSignup(r)
    BY <2>1, SignupBegins
  <2>2. CASE CommitSignup(r)
    BY <2>2, SignupCommits
  <2>3. CASE CreateOrg(r)
    BY <2>3, OrgCreated
  <2>4. CASE BeginManage(r)
    BY <2>4, ManageBegins
  <2>5. CASE Invite(r)
    BY <2>5, InviteCommits
  <2>6. CASE ReadTarget(r)
    BY <2>6, TargetRead
  <2>7. CASE CommitWrite(r)
    BY <2>7, WriteCommits
  <2>8. CASE BeginAccept(r)
    BY <2>8, AcceptBegins
  <2>9. CASE ReadMembership(r)
    BY <2>9, MembershipRead
  <2>10. CASE CommitAccept(r)
    BY <2>10, AcceptCommits
  <2> QED BY <1>4, <2>1, <2>2, <2>3, <2>4, <2>5, <2>6, <2>7, <2>8, <2>9, <2>10 DEF WorkspaceStep
<1> QED BY <1>1, <1>2, <1>3, <1>4 DEF Next

\* An organization there is remains one: whoever is removed from it is not its owner.
LEMMA Remains ==
  ASSUME IInv, [Next]_vars, NEW o \in Orgs, Exists(o)
  PROVE  Exists(o)'
<1>1. RangesOK /\ TablesOK /\ RequestsOK
  BY DEF IInv
<1>2. CASE UNCHANGED members
  BY <1>2 DEF Exists, Role
<1>3. ASSUME NEW r \in Requests, CommitSignup(r), ~UNCHANGED members
      PROVE  Exists(o)'
  <2>1. PICK p, i : p = req[r].who /\ i = req[r].item
    OBVIOUS
  <2>2. \/ \E a \in Orgs : members' = [members EXCEPT ![a][p] = Row("owner", r)]
        \/ i # 0 /\ members' = [members EXCEPT ![invitations[i].org][p] = Row(invitations[i].role, r)]
    BY <1>3, <2>1 DEF CommitSignup, Fail
  <2>3. p \in People /\ i \in {0} \cup DOMAIN invitations
    BY <1>1, <1>3, <2>1 DEF RequestsOK, RequestOK, AnyRequestOK, SpendOK, CommitSignup
  <2>4. CASE \E a \in Orgs : members' = [members EXCEPT ![a][p] = Row("owner", r)]
    <3>1. PICK a \in Orgs : members' = [members EXCEPT ![a][p] = Row("owner", r)]
      BY <2>4
    <3>2. "owner" \in Roles
      BY DEF Roles
    <3> QED BY <1>1, <2>3, <3>1, <3>2, StillThere
  <2>5. CASE i # 0 /\ members' = [members EXCEPT ![invitations[i].org][p] = Row(invitations[i].role, r)]
    <3>1. invitations[i] \in InvitationRange
      BY <1>1, <2>3, <2>5, Rows
    <3>2. PICK a \in Orgs, role \in Roles : a = invitations[i].org /\ role = invitations[i].role
      BY <3>1 DEF InvitationRange, Roles
    <3>3. members' = [members EXCEPT ![a][p] = Row(role, r)]
      BY <2>5, <3>2
    <3> QED BY <1>1, <2>3, <3>3, StillThere
  <2> QED BY <2>2, <2>4, <2>5
<1>4. ASSUME NEW r \in Requests, CreateOrg(r)
      PROVE  Exists(o)'
  <2>1. PICK p \in accounts, a \in Orgs : members' = [members EXCEPT ![a][p] = Row("owner", r)]
    BY <1>4 DEF CreateOrg
  <2>2. "owner" \in Roles /\ p \in People
    BY <1>1 DEF Roles, RangesOK
  <2> QED BY <1>1, <2>1, <2>2, StillThere
<1>5. ASSUME NEW r \in Requests, CommitAccept(r), ~UNCHANGED members
      PROVE  Exists(o)'
  <2>1. PICK p, a, i : p = req[r].who /\ a = req[r].org /\ i = req[r].item
    OBVIOUS
  <2>2. members' = [members EXCEPT ![a][p] = Row(invitations[i].role, r)]
    BY <1>5, <2>1 DEF CommitAccept, Fail
  <2>3. p \in People /\ a \in Orgs /\ i \in DOMAIN invitations
    BY <1>1, <1>5, <2>1 DEF RequestsOK, RequestOK, AnyRequestOK, SpendOK, CommitAccept
  <2>4. invitations[i] \in InvitationRange
    BY <1>1, <2>3, Rows
  <2>5. PICK role \in Roles : role = invitations[i].role
    BY <2>4 DEF InvitationRange, Roles
  <2> QED BY <1>1, <2>2, <2>3, <2>5, StillThere
<1>6. ASSUME NEW r \in Requests, CommitWrite(r)
      PROVE  Exists(o)'
  <2>1. PICK p \in People, a \in Orgs : p = req[r].target /\ a = req[r].org
    BY <1>1 DEF RequestsOK, RequestOK, AnyRequestOK
  <2>2. PICK q \in People : Role(o, q) = "owner"
    BY <1>1 DEF TablesOK, MembersOK
  <2>3. a = o /\ p = q => UNCHANGED members
    BY <1>1, <1>6, <2>1, <2>2 DEF CommitWrite, RequestsOK, RequestOK, ManageOK, At, Role, Fail
  <2>4. members'[o][q] = members[o][q]
    <3>1. members \in [Orgs -> [People -> RowRange]]
      BY <1>1 DEF RangesOK
    <3>2. \/ UNCHANGED members \/ members' = [members EXCEPT ![a][p] = NoRow]
          \/ members' = [members EXCEPT ![a][p].role = req[r].role]
      BY <1>6, <2>1 DEF CommitWrite, Fail
    <3> QED BY <2>3, <3>1, <3>2
  <2> QED BY <2>2, <2>4 DEF Exists, Role
<1>7. ASSUME Lapse \/ (\E r \in Requests : SessionStep(r) \/ WorkspaceStep(r)),
             \A r \in Requests : ~CommitSignup(r) /\ ~CreateOrg(r) /\ ~CommitAccept(r) /\ ~CommitWrite(r)
      PROVE  UNCHANGED members
  <2>1. CASE Lapse
    BY <2>1 DEF Lapse
  <2>2. ASSUME NEW r \in Requests, SessionStep(r)
        PROVE  UNCHANGED members
    BY <2>2 DEF SessionStep, tables, BeginLogin, CommitLogin, BeginRefresh, CommitRefresh, RefuseReplay,
                BeginLogout, ReadFamily, CommitLogout, SignOutUnreached, BeginForgot, CommitForgot,
                BeginReset, ResetStatements, CommitReset, LimitRefresh, StoreCookie, ClearCookie
  <2>3. ASSUME NEW r \in Requests, WorkspaceStep(r)
        PROVE  UNCHANGED members
    BY <1>7, <2>3 DEF WorkspaceStep, BeginSignup, BeginManage, Invite, ReadTarget, BeginAccept,
                      ReadMembership, Fail
  <2> QED BY <1>7, <2>1, <2>2, <2>3
<1> QED BY <1>2, <1>3, <1>4, <1>5, <1>6, <1>7 DEF Next, vars

\* The tables, and what each request in flight may count on, are in order for ever.
THEOREM Invariance == Spec => []IInv
BY InitOK, StepOK, PTL DEF Spec

\* Every row names rows and people there are (TypeOK).
THEOREM TypesHold == Spec => []TypeOK
<1>1. IInv => TypeOK
  <2> SUFFICES ASSUME IInv PROVE TypeOK
    OBVIOUS
  <2>1. RangesOK /\ TablesOK
    BY DEF IInv
  <2>2. members \in [Orgs -> [People -> [role : Roles \cup {"none"}, by : Requests \cup {Nobody}]]]
    BY <2>1 DEF RangesOK, RowRange, Holders
  <2> QED BY <2>1, <2>2 DEF TypeOK, RangesOK, TablesOK, TokensOK, LinksOK, MembersOK
<1> QED BY <1>1, Invariance, PTL

\* What may be used once is used once but for requests that overlapped (refresh, reset,
\* accept_invite, signup): a refresh token, a reset link, an invitation.
THEOREM UsedOnce == Spec => []OnceButForRaces
<1>1. IInv => OnceButForRaces
  <2> SUFFICES ASSUME IInv PROVE OnceButForRaces
    OBVIOUS
  <2>1. TablesOK
    BY DEF IInv
  <2>2. SpentOnce
    BY <2>1 DEF SpentOnce, TablesOK, InvitationsOK, LinksOK, SpentBy
  <2>3. ForksOnlyInRaces
    <3> SUFFICES ASSUME NEW i \in DOMAIN tokens, NEW j \in DOMAIN tokens, Live(i), Live(j), i # j,
                        tokens[i].family = tokens[j].family
                 PROVE  \E m, n \in DOMAIN tokens :
                          /\ m # n /\ tokens[m].family = tokens[i].family /\ tokens[m].parent # 0
                          /\ tokens[m].parent = tokens[n].parent
                          /\ Overlapped(tokens[m].issuer, tokens[n].issuer)
      BY DEF ForksOnlyInRaces
    <3>1. PICK m \in DOMAIN tokens, n \in DOMAIN tokens :
            Siblings(m, n) /\ tokens[m].family = tokens[i].family
      BY <2>1 DEF TablesOK, ForksOK, Live
    <3>2. Overlapped(tokens[m].issuer, tokens[n].issuer)
      BY <2>1, <3>1 DEF TablesOK, SiblingsOK
    <3> QED BY <3>1, <3>2 DEF Siblings
  <2> QED BY <2>2, <2>3 DEF OnceButForRaces
<1> QED BY <1>1, Invariance, PTL

\* After a password reset no session opened before it can be refreshed, after a sign-out none
\* of its family, whichever handlers ran meanwhile.
THEOREM EndedForGood == Spec => []EndedStaysEnded
<1>1. IInv => EndedStaysEnded
  BY DEF IInv, RequestsOK, RequestOK, DoneOK, EndedStaysEnded, At, Live
<1> QED BY <1>1, Invariance, PTL

\* Who is in an organization is its owner or accepted an invitation to that address.
THEOREM Admission == Spec => []MembersWereInvited
<1>1. IInv => MembersWereInvited
  BY DEF IInv, TablesOK, MembersOK, InvitationsOK, MembersWereInvited
<1> QED BY <1>1, Invariance, PTL

\* An organization keeps an owner through every step of every administrator (change_role,
\* remove_member, accept_invite).
THEOREM Ownership == Spec => OwnerKept
<1>1. IInv /\ IInv' /\ [Next]_vars =>
        [\A o \in Orgs : Exists(o) => \E p \in People : Role(o, p)' = "owner"]_vars
  <2> SUFFICES ASSUME IInv, IInv', [Next]_vars, NEW o \in Orgs, Exists(o)
               PROVE  \E p \in People : Role(o, p)' = "owner"
    OBVIOUS
  <2>1. Exists(o)'
    BY Remains
  <2> QED BY <2>1 DEF IInv, TablesOK, MembersOK
<1> QED BY <1>1, Invariance, PTL DEF Spec, OwnerKept

-----------------------------------------------------------------------------
(* The worker.  The invariant: its bookkeeping and the store it maintains.  *)
Letter == [run : Runs, attempt : Nat, resolved : BOOLEAN]

WorkerRanges ==
  /\ up \in BOOLEAN /\ pending \subseteq Runs /\ current \in Runs \cup {0}
  /\ attempts \in [Runs -> Nat] /\ job \in [Runs -> Jobs \cup {"none"}]
  /\ pc \in {"idle", "working", "failed", "reraise"}
  /\ ended \in [Runs -> {"no", "done", "failed", "dropped"}]
  /\ letters \subseteq Letter

\* The run at hand is one arq has not finished with, and a process that died has none.
AtHand ==
  /\ current = 0 <=> pc = "idle"
  /\ ~up => current = 0
  /\ current # 0 => current \in pending

\* A run is scheduled, then pending, then over.
RunsInOrder ==
  \A r \in Runs : /\ job[r] = "none" => r \notin pending /\ ended[r] = "no" /\ attempts[r] = 0
                  /\ r \in pending => ended[r] = "no"

\* A letter is written in the last attempt, so its run is never worked on again.
LettersAreLast ==
  \A l \in letters : attempts[l.run] >= MaxTries /\ (l.run = current => pc = "reraise")

\* A span that has a partition is in its month's.
AtHome ==
  /\ today \in Nat /\ months \subseteq Nat
  /\ \A s \in rows : /\ s.project \in AllProjects /\ s.day \in Nat
                     /\ s.home \in {Month(s.day), Default}

\* What the last maintenance made and is not over yet is still there.
Covered ==
  /\ covered \in Int /\ covered <= Month(today)
  /\ covered >= 0 =>
       \A m \in covered .. (covered + MonthsAhead) : m >= Month(today) => m \in months

\* The worker's part and the store's: no step of one looks at the other's.
WorkerOK == WorkerRanges /\ AtHand /\ RunsInOrder /\ LettersAreLast /\ OneLetterPerFailure
StoreOK == AtHome /\ Covered
UpkeepInv == WorkerOK /\ StoreOK

-----------------------------------------------------------------------------
(* The calendar and the windows.                                            *)
\* A day lies in its month, months follow days, and a month that has ended is an earlier one.
LEMMA Calendar ==
  ASSUME NEW d \in Int
  PROVE  /\ Month(d) \in Int /\ d < MonthEnd(Month(d)) /\ MonthEnd(Month(d)) \in Int
         /\ d >= 0 => Month(d) >= 0
         /\ Month(d) <= Month(d + 1)
         /\ \A m \in Int : MonthEnd(m) <= d => m < Month(d)
<1> DEFINE L == MonthLength
<1>1. L \in Nat /\ L > 0
  BY RetentionAssumption
<1>2. \A e \in Int : e \div L \in Int /\ (e \div L) * L <= e /\ e < (e \div L + 1) * L
  BY <1>1
<1>3. \A m, n \in Int : m < n => (m + 1) * L <= n * L
  BY <1>1
<1>4. \A m, n \in Int : m <= n => m * L <= n * L
  BY <1>1
<1> HIDE DEF L
<1>5. PICK q \in Int : q = d \div L /\ q * L <= d /\ d < (q + 1) * L
  BY <1>2
<1>6. PICK r \in Int : r = (d + 1) \div L /\ d + 1 < (r + 1) * L
  BY <1>2
<1>7. (q + 1) * L \in Int /\ (r + 1) * L \in Int /\ q * L \in Int
  BY <1>1
<1>8. d >= 0 => q >= 0
  <2>1. q + 1 <= 0 => (q + 1) * L <= 0 * L
    BY <1>4
  <2>2. 0 * L = 0
    BY <1>1
  <2> QED BY <1>5, <1>7, <2>1, <2>2
<1>9. q <= r
  <2>1. r < q => (r + 1) * L <= q * L
    BY <1>3
  <2> QED BY <1>5, <1>6, <1>7, <2>1
<1>10. ASSUME NEW m \in Int, (m + 1) * L <= d PROVE m < q
  <2>1. q <= m => (q + 1) * L <= (m + 1) * L
    BY <1>4
  <2>2. (m + 1) * L \in Int
    BY <1>1
  <2> QED BY <1>5, <1>7, <1>10, <2>1, <2>2
<1> USE DEF L
<1> QED BY <1>5, <1>6, <1>7, <1>8, <1>9, <1>10 DEF Month, MonthEnd

\* The first of the unscheduled runs is one of them.
LEMMA NextRunIsUnscheduled == Unscheduled # {} => NextRun \in Unscheduled
<1> SUFFICES ASSUME Unscheduled # {} PROVE NextRun \in Unscheduled
  OBVIOUS
<1>1. Unscheduled \in SUBSET Int /\ IsFiniteSet(Unscheduled)
  BY UpkeepAssumption, FS_Interval, FS_Subset DEF Unscheduled, Runs
<1>2. \E r \in Unscheduled : \A q \in Unscheduled : r <= q
  <2> DEFINE R == OpToRel(<, Nat)
  <2>1. Unscheduled \in SUBSET Nat
    BY UpkeepAssumption DEF Unscheduled, Runs
  <2>2. PICK r \in Unscheduled : \A q \in Unscheduled : ~ (<<q, r>> \in R)
    BY <2>1, NatLessThanWellFounded, WFMin
  <2>3. ASSUME NEW q \in Unscheduled, q < r PROVE <<q, r>> \in R
    BY <2>1, <2>3 DEF OpToRel
  <2>4. \A q \in Unscheduled : ~ (q < r)
    BY <2>2, <2>3
  <2> QED BY <2>1, <2>4
<1> QED BY <1>2 DEF NextRun

\* The window the shared partitions keep is a day at least and no shorter than any project's.
LEMMA LongestIsLongest ==
  /\ Longest \in Nat \ {0}
  /\ \A p \in AllProjects : TraceDays[p] \in Nat /\ TraceDays[p] <= Longest
<1> DEFINE windows == {TraceDays[q] : q \in AllProjects}
<1>1. IsFiniteSet(windows)
  <2>1. Len(Projects) \in Nat /\ DOMAIN Projects = 1 .. Len(Projects)
    BY RetentionAssumption, LenProperties
  <2>2. IsFiniteSet(1 .. Len(Projects))
    BY <2>1, FS_Interval
  <2> DEFINE f == [i \in 1 .. Len(Projects) |-> TraceDays[Projects[i]]]
  <2>3. f \in Surjection(1 .. Len(Projects), windows)
    BY <2>1, RetentionAssumption DEF AllProjects, ToSet, Surjection
  <2> HIDE DEF f
  <2> QED BY <2>2, <2>3, FS_Surjection
<1>2. windows \subseteq Nat \ {0}
  BY RetentionAssumption
<1> DEFINE all == {1} \cup windows
<1>3. all \in SUBSET Int /\ all # {} /\ IsFiniteSet(all)
  <2>1. IsFiniteSet({1} \cup windows)
    <3> HIDE DEF windows
    <3> QED BY <1>1, FS_Singleton, FS_Union
  <2> QED BY <1>2, <2>1
<1> HIDE DEF all
<1>4. PICK m \in all : \A n \in all : n <= m
  <2> DEFINE Above(x) == {y \in all : x < y}
             Larger == {Above(x) : x \in all}
  <2>1. Larger \in SUBSET FiniteSubsetsOf(all) /\ Larger # {}
    <3>1. ASSUME NEW x \in all PROVE Above(x) \in SUBSET all /\ IsFiniteSet(Above(x))
      <4>1. Above(x) \in SUBSET all
        OBVIOUS
      <4> HIDE DEF Above
      <4> QED BY <1>3, <4>1, FS_Subset
    <3> HIDE DEF Above
    <3> QED BY <1>3, <3>1 DEF FiniteSubsetsOf
  <2>2. PICK x \in all : \A y \in all : <<Above(y), Above(x)>> \notin StrictSubsetOrdering(all)
    <3>1. \E A \in Larger : \A B \in Larger : <<B, A>> \notin StrictSubsetOrdering(all)
      <4> HIDE DEF Larger
      <4> QED BY <2>1, FS_StrictSubsetOrderingWellFounded, WFMin
    <3> QED BY <3>1
  <2>3. ASSUME NEW y \in all, x < y PROVE FALSE
    <3>1. Above(y) \subseteq Above(x) /\ y \in Above(x) /\ y \notin Above(y)
      <4>1. \A z \in all : z \in Int
        BY <1>3
      <4> QED BY <4>1, <2>3
    <3> QED BY <2>2, <3>1 DEF StrictSubsetOrdering
  <2> QED BY <1>3, <2>3
<1>5. Max(all) \in all /\ \A n \in all : n <= Max(all)
  BY <1>3, <1>4 DEF Max
<1> USE DEF all
<1>6. Longest = Max(all)
  BY DEF Longest
<1> HIDE DEF all
<1>7. Longest \in all /\ \A n \in all : n <= Longest
  BY <1>5, <1>6
<1> QED BY <1>2, <1>7 DEF all

-----------------------------------------------------------------------------
(* What the jobs do to the store.                                           *)
\* A sweep drops the partitions that are over for every window and nothing else.
LEMMA SweepDrops ==
  ASSUME AtHome, SweepRetention
  PROVE  /\ months' \subseteq months /\ rows' \subseteq rows /\ today' = today
         /\ \A m \in months \ months' : MonthEnd(m) <= Cutoff
         /\ \A s \in rows \ rows' : s.home \in months /\ MonthEnd(s.home) <= Cutoff
         /\ \A o \in payloads \ payloads' : Stale(o)
BY DEF AtHome, SweepRetention, Droppable

\* A span that goes is older than its project's window, although partitions are shared.
LEMMA SweptIsOld ==
  ASSUME AtHome, SweepRetention
  PROVE  \A s \in rows \ rows' : s.day < today - TraceDays[s.project]
<1> SUFFICES ASSUME NEW s \in rows \ rows' PROVE s.day < today - TraceDays[s.project]
  OBVIOUS
<1>1. s.home \in months /\ MonthEnd(s.home) <= Cutoff
  BY SweepDrops
<1>2. today \in Int /\ s.day \in Int /\ s.project \in AllProjects /\ s.home = Month(s.day)
  BY <1>1 DEF AtHome, Default
<1>3. s.day < MonthEnd(s.home) /\ MonthEnd(s.home) \in Int
  BY <1>2, Calendar
<1>4. Longest \in Nat /\ TraceDays[s.project] \in Nat /\ TraceDays[s.project] <= Longest
  BY <1>2, LongestIsLongest
<1> QED BY <1>1, <1>2, <1>3, <1>4 DEF Cutoff

\* The month a sweep drops is over: every window is at least a day.
LEMMA SweptIsOver ==
  ASSUME AtHome, SweepRetention, NEW m \in months \ months'
  PROVE  m < Month(today)
<1>2. Longest \in Nat /\ today \in Int /\ m \in Int /\ MonthEnd(m) <= today - Longest
  BY LongestIsLongest, SweepDrops DEF AtHome, Cutoff
<1>3. MonthEnd(m) \in Int
  BY <1>2, RetentionAssumption DEF MonthEnd
<1> QED BY <1>2, <1>3, Calendar

-----------------------------------------------------------------------------
(* The worker's part of the invariant.                                      *)
\* Scheduling takes a run nobody has scheduled, so it has neither attempts nor letters.
LEMMA ScheduleKeeps ==
  ASSUME WorkerOK, Unscheduled # {}, NEW j \in Jobs, Schedule(j),
         UNCHANGED <<attempts, pc, current, letters, ended>>, up' \in BOOLEAN,
         current = 0 \/ up'
  PROVE  WorkerOK'
<1>1. NextRun \in Runs /\ job[NextRun] = "none" /\ NextRun \notin pending
  BY NextRunIsUnscheduled DEF Unscheduled, WorkerOK, RunsInOrder
<1>2. job' = [job EXCEPT ![NextRun] = j] /\ pending' = pending \cup {NextRun} /\ j # "none"
  BY DEF Schedule, Jobs
<1>3. WorkerRanges'
  BY <1>1, <1>2 DEF WorkerOK, WorkerRanges
<1>4. AtHand' /\ LettersAreLast' /\ OneLetterPerFailure'
  BY <1>2 DEF WorkerOK, AtHand, LettersAreLast, OneLetterPerFailure
<1>5. RunsInOrder'
  BY <1>1, <1>2 DEF WorkerOK, WorkerRanges, RunsInOrder
<1> QED BY <1>3, <1>4, <1>5 DEF WorkerOK

\* A run arq is done with is not pending, and has a letter only if it did not succeed.
LEMMA LeaveKeeps ==
  ASSUME WorkerOK, up, current # 0, NEW how \in {"done", "failed"}, Leave(how), PutDown,
         how = "done" => pc = "working",
         UNCHANGED <<up, attempts, job, letters>>
  PROVE  WorkerOK'
<1>1. current \in Runs /\ current \in pending /\ job[current] # "none"
  BY DEF WorkerOK, WorkerRanges, AtHand, RunsInOrder
<1>2. WorkerRanges'
  BY <1>1 DEF WorkerOK, WorkerRanges, Leave, PutDown
<1>3. AtHand' /\ RunsInOrder'
  BY <1>1 DEF WorkerOK, WorkerRanges, AtHand, RunsInOrder, Leave, PutDown
<1>4. LettersAreLast'
  BY DEF WorkerOK, WorkerRanges, LettersAreLast, Letter, Runs, PutDown
<1>5. OneLetterPerFailure'
  <2>1. \A l \in letters : l.run \in Runs /\ (l.run = current => pc = "reraise")
    BY DEF WorkerOK, WorkerRanges, LettersAreLast, Letter
  <2> QED BY <1>1, <2>1 DEF WorkerOK, WorkerRanges, OneLetterPerFailure, Leave
<1> QED BY <1>2, <1>3, <1>4, <1>5 DEF WorkerOK

\* The run at hand goes back to the queue as it was.
LEMMA PutDownKeeps ==
  ASSUME WorkerOK, PutDown, UNCHANGED <<pending, attempts, job, letters, ended>>, up' \in BOOLEAN
  PROVE  WorkerOK'
<1>1. WorkerRanges' /\ AtHand' /\ RunsInOrder' /\ OneLetterPerFailure'
  BY DEF WorkerOK, WorkerRanges, AtHand, RunsInOrder, OneLetterPerFailure, PutDown
<1>2. LettersAreLast'
  BY DEF WorkerOK, WorkerRanges, LettersAreLast, Letter, Runs, PutDown
<1> QED BY <1>1, <1>2 DEF WorkerOK

\* What arq does with a run that failed keeps the worker's invariant.
LEMMA GiveBackKeeps ==
  ASSUME WorkerOK, up, pc \in {"working", "reraise"}, GiveBack, UNCHANGED <<up, attempts, job, letters>>
  PROVE  WorkerOK'
<1>1. current # 0 /\ up \in BOOLEAN
  BY DEF WorkerOK, AtHand, WorkerRanges
<1>2. CASE Leave("failed") /\ PutDown
  BY <1>1, <1>2, LeaveKeeps
<1>3. CASE PutDown /\ UNCHANGED <<pending, ended>>
  BY <1>1, <1>3, PutDownKeeps
<1> QED BY <1>2, <1>3 DEF GiveBack

\* Every step keeps the worker's part of the invariant.
LEMMA WorkerKeeps == WorkerOK /\ [WorkerNext]_upkeep => WorkerOK'
<1> SUFFICES ASSUME WorkerOK, [WorkerNext]_upkeep PROVE WorkerOK'
  OBVIOUS
<1>0. WorkerRanges /\ AtHand /\ RunsInOrder /\ LettersAreLast /\ OneLetterPerFailure
  BY DEF WorkerOK
<1>a. ASSUME UNCHANGED <<worker, letters, ended>> PROVE WorkerOK'
  BY <1>0, <1>a DEF worker, WorkerOK, WorkerRanges, AtHand, RunsInOrder, LettersAreLast,
     OneLetterPerFailure
<1>1. ASSUME NEW r \in Runs, Start(r) PROVE WorkerOK'
  <2>1. CASE attempts[r] >= MaxTries
    <3>1. /\ pending' = pending \ {r} /\ ended' = [ended EXCEPT ![r] = "dropped"]
          /\ UNCHANGED <<up, job, letters, attempts, pc, current>>
          /\ up /\ current = 0 /\ r \in pending
      BY <1>1, <2>1 DEF Start
    <3>2. WorkerRanges' /\ AtHand' /\ LettersAreLast'
      BY <1>0, <3>1 DEF WorkerRanges, AtHand, LettersAreLast
    <3>3. RunsInOrder'
      BY <1>0, <3>1 DEF WorkerRanges, RunsInOrder
    <3>4. OneLetterPerFailure'
      BY <1>0, <3>1 DEF WorkerRanges, OneLetterPerFailure, Letter
    <3> QED BY <3>2, <3>3, <3>4 DEF WorkerOK
  <2>2. CASE ~(attempts[r] >= MaxTries)
    <3>1. /\ attempts' = [attempts EXCEPT ![r] = @ + 1]
          /\ current' = r /\ pc' = "working"
          /\ UNCHANGED <<up, job, letters, pending, ended>>
          /\ up /\ r \in pending /\ r # 0
      BY <1>1, <2>2 DEF Start, Count, Runs
    <3>2. \A l \in letters : l.run # r /\ l.run \in Runs /\ attempts[l.run] >= MaxTries
      BY <1>0, <2>2 DEF WorkerRanges, LettersAreLast, Letter
    <3>3. WorkerRanges'
      BY <1>0, <3>1 DEF WorkerRanges
    <3>4. AtHand' /\ OneLetterPerFailure'
      BY <1>0, <3>1 DEF AtHand, OneLetterPerFailure
    <3>5. RunsInOrder' /\ LettersAreLast'
      BY <1>0, <3>1, <3>2 DEF WorkerRanges, RunsInOrder, LettersAreLast
    <3> QED BY <3>3, <3>4, <3>5 DEF WorkerOK
  <2> QED BY <2>1, <2>2
<1>2. CASE Succeed
  BY <1>0, <1>2, LeaveKeeps DEF Succeed, AtHand
<1>3. CASE Raise
  BY <1>0, <1>3 DEF Raise, WorkerOK, WorkerRanges, AtHand, RunsInOrder, LettersAreLast,
     OneLetterPerFailure
<1>4. CASE Record
  <2>1. /\ up /\ pc = "failed" /\ pc' = "reraise" /\ current \in Runs /\ current \in pending
        /\ UNCHANGED <<up, pending, attempts, job, current, ended>>
    BY <1>0, <1>4 DEF Record, WorkerRanges, AtHand
  <2>2. CASE UNCHANGED letters
    BY <1>0, <2>1, <2>2 DEF WorkerOK, WorkerRanges, AtHand, RunsInOrder, LettersAreLast,
       OneLetterPerFailure
  <2>3. ASSUME FinalAttempt,
               letters' = letters \cup {[run |-> current, attempt |-> attempts[current],
                                        resolved |-> FALSE]}
        PROVE  WorkerOK'
    <3> DEFINE new == [run |-> current, attempt |-> attempts[current], resolved |-> FALSE]
    <3>1. new \in Letter /\ new.run = current
      BY <1>0, <2>1 DEF Letter, WorkerRanges
    <3>2. \A l \in letters : l.run # current
      BY <1>0, <2>1 DEF LettersAreLast
    <3>3. ended[current] = "no" /\ attempts[current] >= MaxTries
      BY <1>0, <2>1, <2>3 DEF RunsInOrder, FinalAttempt
    <3>4. letters' = letters \cup {new}
      BY <2>3
    <3> HIDE DEF new
    <3>5. WorkerRanges' /\ AtHand' /\ RunsInOrder'
      BY <1>0, <2>1, <3>1, <3>4 DEF WorkerRanges, AtHand, RunsInOrder
    <3>6. LettersAreLast' /\ OneLetterPerFailure'
      BY <1>0, <2>1, <3>1, <3>2, <3>3, <3>4 DEF LettersAreLast, OneLetterPerFailure
    <3> QED BY <3>5, <3>6 DEF WorkerOK
  <2> QED BY <1>4, <2>2, <2>3 DEF Record
<1>5. CASE Reraise \/ Cancel
  BY <1>0, <1>5, GiveBackKeeps DEF Reraise, Cancel
<1>6. CASE Outside
  BY <1>a, <1>6 DEF Outside
<1>7. CASE Kill
  BY <1>0, <1>7, PutDownKeeps DEF Kill
<1>8. CASE Restart
  <2>1. /\ current = 0 /\ up' = TRUE /\ UNCHANGED <<attempts, pc, current, letters, ended>>
    BY <1>0, <1>8 DEF Restart, AtHand
  <2>2. CASE Unscheduled # {} /\ Schedule("partitions")
    BY <2>1, <2>2, ScheduleKeeps DEF Jobs
  <2>3. CASE UNCHANGED <<pending, job>>
    BY <1>0, <2>1, <2>3 DEF WorkerOK, WorkerRanges, AtHand, RunsInOrder, LettersAreLast,
       OneLetterPerFailure
  <2> QED BY <1>8, <2>2, <2>3 DEF Restart
<1>9. ASSUME NEW j \in Jobs, Cron(j) PROVE WorkerOK'
  BY <1>0, <1>9, ScheduleKeeps DEF Cron, WorkerRanges
<1>10. ASSUME NEW l \in letters, Resolve(l) PROVE WorkerOK'
  <2> DEFINE new == [l EXCEPT !.resolved = TRUE]
  <2>1. l \in Letter
    BY <1>0 DEF WorkerRanges
  <2>2. new \in Letter /\ new.run = l.run
    BY <2>1 DEF Letter
  <2>3. letters' = (letters \ {l}) \cup {new} /\ UNCHANGED <<worker, ended>>
    BY <1>10 DEF Resolve
  <2> HIDE DEF new
  <2>4. WorkerRanges' /\ AtHand' /\ RunsInOrder'
    BY <1>0, <2>2, <2>3 DEF WorkerRanges, AtHand, RunsInOrder, worker
  <2>5. LettersAreLast' /\ OneLetterPerFailure'
    BY <1>0, <2>2, <2>3 DEF LettersAreLast, OneLetterPerFailure, worker
  <2> QED BY <2>4, <2>5 DEF WorkerOK
<1>11. CASE UNCHANGED upkeep
  BY <1>a, <1>11 DEF upkeep
<1> QED BY <1>1, <1>2, <1>3, <1>4, <1>5, <1>6, <1>7, <1>8, <1>9, <1>10, <1>11 DEF WorkerNext, Work

-----------------------------------------------------------------------------
(* The store's part.                                                        *)
\* Maintenance adds the months from this one on.
LEMMA MaintenanceKeeps ==
  ASSUME StoreOK, MaintainPartitions, covered' = Month(today)
  PROVE  StoreOK'
<1>1. Month(today) \in Int /\ Month(today) >= 0 /\ MonthsAhead \in Nat
  BY Calendar, RetentionAssumption DEF StoreOK, AtHome
<1>2. AtHome'
  <2>1. Wanted \subseteq Nat
    BY <1>1 DEF Wanted
  <2> QED BY <2>1 DEF StoreOK, AtHome, MaintainPartitions, Month
<1>3. Covered'
  BY <1>1 DEF StoreOK, Covered, MaintainPartitions, Wanted, Month
<1> QED BY <1>2, <1>3 DEF StoreOK

\* A sweep takes away only months that are over.
LEMMA SweepKeeps ==
  ASSUME StoreOK, SweepRetention, UNCHANGED covered
  PROVE  StoreOK'
<1>1. AtHome /\ Covered
  BY DEF StoreOK
<1>2. months' \subseteq months /\ rows' \subseteq rows /\ today' = today
  BY <1>1, SweepDrops
<1>3. AtHome'
  BY <1>1, <1>2 DEF AtHome, Month
<1>4. \A m \in months : m < Month(today) \/ m \in months'
  BY <1>1, SweptIsOver
<1>5. Month(today) \in Int
  BY <1>1, Calendar DEF AtHome
<1>6. Covered'
  BY <1>1, <1>2, <1>4, <1>5, RetentionAssumption DEF Covered, AtHome, Month
<1> QED BY <1>3, <1>6 DEF StoreOK

\* What the jobs do to the store keeps its part of the invariant.
LEMMA BodyKeeps == StoreOK /\ Body => StoreOK'
BY MaintenanceKeeps, SweepKeeps DEF Body

\* Every step keeps the store's part of the invariant.
LEMMA StoreKeeps == StoreOK /\ [WorkerNext]_upkeep => StoreOK'
<1> SUFFICES ASSUME StoreOK, [WorkerNext]_upkeep PROVE StoreOK'
  OBVIOUS
<1>0. AtHome /\ Covered
  BY DEF StoreOK
<1>1. CASE UNCHANGED <<store, covered>>
  BY <1>0, <1>1 DEF store, StoreOK, AtHome, Covered, Month
<1>2. CASE Body
  BY <1>2, BodyKeeps
<1>3. CASE NextDay /\ UNCHANGED covered
  <2>1. today \in Nat /\ today' = today + 1 /\ UNCHANGED <<months, rows, covered>>
    BY <1>0, <1>3 DEF NextDay, AtHome
  <2>2. Month(today) \in Int /\ Month(today + 1) \in Int /\ Month(today) <= Month(today + 1)
    BY <2>1, Calendar
  <2>3. AtHome'
    BY <1>0, <2>1 DEF AtHome, Month
  <2>4. Covered'
    BY <1>0, <2>1, <2>2, RetentionAssumption DEF Covered, Month
  <2> QED BY <2>3, <2>4 DEF StoreOK
<1>4. ASSUME NEW p \in AllProjects, NEW skew \in Skews, NEW sha \in Payloads[p],
             Ingest(p, skew, sha), UNCHANGED covered
      PROVE  StoreOK'
  <2> DEFINE day == today + skew
             home == IF Month(day) \in months THEN Month(day) ELSE Default
  <2>1. day \in Nat /\ UNCHANGED <<today, months>>
    BY <1>0, <1>4, RetentionAssumption DEF Ingest, AtHome
  <2>2. \E ref : rows' = rows \cup {[project |-> p, day |-> day, home |-> home, ref |-> ref]}
    BY <1>4 DEF Ingest
  <2> HIDE DEF day
  <2>3. AtHome'
    <3>1. PICK ref :
            rows' = rows \cup {[project |-> p, day |-> day, home |-> home, ref |-> ref]}
      BY <2>2
    <3>2. home \in {Month(day), Default}
      OBVIOUS
    <3> HIDE DEF home
    <3>3. \A s \in rows' : s \in rows \/ (s.project = p /\ s.day = day /\ s.home = home)
      BY <3>1
    <3> QED BY <1>0, <2>1, <3>2, <3>3 DEF AtHome, Month
  <2>4. Covered'
    BY <1>0, <1>4, <2>1 DEF Covered, Month
  <2> QED BY <2>3, <2>4 DEF StoreOK
<1>5. CASE Work
  BY <1>1, <1>2, <1>5 DEF Work, Start, Succeed, Raise, Record, Reraise, Cancel
<1>6. CASE Outside
  BY <1>3, <1>4, <1>6 DEF Outside
<1>7. CASE Kill \/ Restart
  BY <1>1, <1>7 DEF Kill, Restart
<1>8. ASSUME NEW j \in Jobs, Cron(j) PROVE StoreOK'
  BY <1>1, <1>8 DEF Cron
<1>9. ASSUME NEW l \in letters, Resolve(l) PROVE StoreOK'
  BY <1>1, <1>9 DEF Resolve
<1>10. CASE UNCHANGED upkeep
  BY <1>1, <1>10 DEF upkeep
<1> QED BY <1>5, <1>6, <1>7, <1>8, <1>9, <1>10 DEF WorkerNext

\* A step that takes rows or payloads away is a retention sweep.
LEMMA OnlySweepsDrop ==
  ASSUME AtHome, [WorkerNext]_upkeep
  PROVE  SweepRetention \/ (rows \subseteq rows' /\ payloads \subseteq payloads')
<1>1. CASE UNCHANGED store
  BY <1>1 DEF store
<1>2. CASE Body
  BY <1>2 DEF Body, MaintainPartitions
<1>3. CASE Work
  BY <1>1, <1>2, <1>3 DEF Work, Start, Succeed, Raise, Record, Reraise, Cancel
<1>4. CASE Outside
  BY <1>4 DEF Outside, NextDay, Ingest
<1>5. CASE Kill \/ Restart \/ (\E j \in Jobs : Cron(j)) \/ \E l \in letters : Resolve(l)
  BY <1>1, <1>5 DEF Kill, Restart, Cron, Resolve
<1>6. CASE UNCHANGED upkeep
  BY <1>1, <1>6 DEF upkeep
<1> QED BY <1>3, <1>4, <1>5, <1>6 DEF WorkerNext

-----------------------------------------------------------------------------
\* A worker that starts on an empty store satisfies the invariant.
LEMMA WorkerStarts == WorkerInit => WorkerOK /\ StoreOK
<1> SUFFICES ASSUME WorkerInit PROVE WorkerOK /\ StoreOK
  OBVIOUS
<1>1. 1 \in Runs
  BY UpkeepAssumption DEF Runs
<1>2. WorkerOK
  BY <1>1 DEF WorkerInit, WorkerOK, WorkerRanges, AtHand, RunsInOrder, LettersAreLast,
     OneLetterPerFailure, Jobs, Runs
<1>3. AtHome
  BY RetentionAssumption DEF WorkerInit, InitStore, AtHome
<1>4. Covered
  BY <1>3, Calendar DEF WorkerInit, Covered, AtHome
<1> QED BY <1>2, <1>3, <1>4 DEF StoreOK

\* The worker's bookkeeping and the store's calendar, together, in every reachable state.
THEOREM UpkeepInvariance == WorkerSpec => []UpkeepInv
<1>1. UpkeepInv /\ [WorkerNext]_upkeep => UpkeepInv'
  BY WorkerKeeps, StoreKeeps DEF UpkeepInv
<1> QED BY <1>1, WorkerStarts, PTL DEF WorkerSpec, UpkeepInv

\* main._dead_letter: a run has at most one dead letter and one with a letter is never
\* reported as done, through every retry, kill and restart.
THEOREM OneLetter == WorkerSpec => []OneLetterPerFailure
<1>1. UpkeepInv => OneLetterPerFailure
  BY DEF UpkeepInv, WorkerOK
<1> QED BY <1>1, UpkeepInvariance, PTL

\* partitions.ensure_partitions: for MonthsAhead months after a maintenance that succeeded a
\* span of today finds its partition, whatever retention dropped and however many runs failed.
THEOREM PartitionsStayAhead == WorkerSpec => []PartitionsAhead
<1>1. UpkeepInv => PartitionsAhead
  <2>1. AtHome => Month(today) \in Int /\ MonthsAhead \in Nat
    BY Calendar, RetentionAssumption DEF AtHome
  <2> QED BY <2>1 DEF UpkeepInv, StoreOK, Covered, PartitionsAhead
<1> QED BY <1>1, UpkeepInvariance, PTL

\* retention.py: a sweep takes no span and no payload inside its own project's window, though
\* projects share partitions and the sweep may be repeated, for any set of windows.
THEOREM KeptIsNotDropped == WorkerSpec => NothingKeptIsDropped
<1>1. UpkeepInv /\ [WorkerNext]_upkeep =>
        /\ \A r \in rows \ rows' : r.day < today - TraceDays[r.project]
        /\ \A o \in payloads \ payloads' : o.created < today - PayloadDays[o.project]
  <2> SUFFICES ASSUME UpkeepInv, [WorkerNext]_upkeep
               PROVE  /\ \A r \in rows \ rows' : r.day < today - TraceDays[r.project]
                      /\ \A o \in payloads \ payloads' : o.created < today - PayloadDays[o.project]
    OBVIOUS
  <2>1. AtHome
    BY DEF UpkeepInv, StoreOK
  <2>2. CASE SweepRetention
    BY <2>1, <2>2, SweptIsOld, SweepDrops DEF Stale
  <2>3. CASE rows \subseteq rows' /\ payloads \subseteq payloads'
    BY <2>3
  <2> QED BY <2>1, <2>2, <2>3, OnlySweepsDrop
<1> QED BY <1>1, UpkeepInvariance, PTL DEF NothingKeptIsDropped, WorkerSpec
=============================================================================
