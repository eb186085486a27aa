------------------------------ MODULE Identity ------------------------------
(***************************************************************************)
(* Sessions and workspaces over the same tables, and what they promise.    *)
(***************************************************************************)
EXTENDS Sessions, Workspaces

Next == Lapse \/ \E r \in Requests : SessionStep(r) \/ WorkspaceStep(r)

Spec == Init /\ [][Next]_vars

\* Every row names rows and people there are.
TypeOK ==
  /\ Founder \in accounts /\ accounts \subseteq People
  /\ members \in [Orgs -> [People -> [role : Roles \cup {"none"}, by : Requests \cup {Nobody}]]]
  /\ \A o \in Orgs, p \in People : Member(p, o) => p \in accounts
  /\ \A i \in DOMAIN tokens : tokens[i].user \in accounts /\ tokens[i].family \in 1 .. i
  /\ \A l \in DOMAIN links : links[l].user \in accounts
  /\ cookie \in 0 .. Len(tokens)

\* A session has one live refresh token, unless two refreshes that overlapped
\* rotated the same token: used_at is read without a lock.
ForksOnlyInRaces ==
  \A i, j \in DOMAIN tokens :
    (Live(i) /\ Live(j) /\ i # j /\ tokens[i].family = tokens[j].family) =>
      \E m, n \in DOMAIN tokens :
        /\ m # n /\ tokens[m].family = tokens[i].family /\ tokens[m].parent # 0
        /\ tokens[m].parent = tokens[n].parent
        /\ Overlapped(tokens[m].issuer, tokens[n].issuer)

\* What a finished sign-out or reset has ended: the sessions and the reset
\* links of requests that were over before it began.
EndedBy(r) ==
  {i \in DOMAIN tokens :
     /\ tokens[i].issuer \in req[r].before \cup {Nobody}
     /\ \/ req[r].op = "reset" /\ tokens[i].user = req[r].who
        \/ req[r].op = "logout" /\ tokens[i].family = tokens[req[r].item].family}

\* After a password reset no session of that person opened before it can be
\* refreshed, and after a sign-out none of its family, whichever handlers ran
\* meanwhile; only a request in flight at the time may leave one behind.
EndedStaysEnded ==
  \A r \in Requests :
    req[r].pc = "done" => \A i \in EndedBy(r) : ~Live(i)

\* An invitation is spent once and so is a reset link, unless two requests that
\* overlapped both read it as unspent.
SpentOnce ==
  /\ \A i \in DOMAIN invitations : \A p, q \in invitations[i].by : p # q => Overlapped(p, q)
  /\ \A l \in DOMAIN links : \A p, q \in links[l].by : p # q => Overlapped(p, q)

\* What may be used once is used once, unless two requests that overlapped used it: a
\* refresh token, a reset link, an invitation.
OnceButForRaces == ForksOnlyInRaces /\ SpentOnce

\* Who is in an organization is its owner or somebody it invited at that
\* address, who accepted; nobody else spends the invitation.
MembersWereInvited ==
  /\ \A o \in Orgs, p \in People :
       Role(o, p) \in Assignable =>
         \E i \in DOMAIN invitations :
           invitations[i].org = o /\ invitations[i].email = p /\ invitations[i].accepted
  /\ \A i \in DOMAIN invitations :
       invitations[i].accepted => invitations[i].email \in accounts

\* An organization never loses its owner, whatever its administrators do at once.
OwnerKept ==
  [][\A o \in Orgs : Exists(o) => \E p \in People : Role(o, p)' = "owner"]_vars

\* A token presented twice ends its family: what refresh answers the caller,
\* and what the RefreshToken model says of it.
ReplayEndsFamily ==
  \A r \in Requests :
    (req[r].op = "replay" /\ req[r].pc = "failed") =>
      \A i \in DOMAIN tokens :
        (tokens[i].family = tokens[req[r].item].family
           /\ tokens[i].issuer \in req[r].before \cup {Nobody}) => ~Live(i)

\* The proxy clears the browser's cookies when the refresh token in them is
\* dead, as its comment says, and not for a limit, an unreachable API or a
\* token that another tab has just rotated.
ClearsOnlyDead ==
  [][\A r \in Requests :
       (At(r, "refused") /\ req'[r].pc # "refused") => (cookie = 0 \/ ~Live(cookie))]_vars
=============================================================================
