------------------------------ MODULE Sessions ------------------------------
(***************************************************************************)
(* Refresh token families and password resets (api/routes/auth.py), and    *)
(* the dashboard's proxy that refreshes a browser's session on a 401.      *)
(***************************************************************************)
EXTENDS Accounts

tables == <<accounts, members, invitations>>

\* A tab has the new token to store; another client is given it.
Answer(r) ==
  IF req[r].tab
    THEN req' = [req EXCEPT ![r].pc = "answered", ![r].item = Len(tokens) + 1]
    ELSE Done(r)

(***************************************************************************)
(* login, and the proxy's sign-in, which stores the session it is given.   *)
(* A request limited by address or with a wrong password changes nothing.  *)
(***************************************************************************)
BeginLogin(r) ==
  \E p \in accounts, tab \in BOOLEAN :
    /\ Begin(r, [Fresh EXCEPT !.pc = "issue", !.op = "login", !.who = p, !.tab = tab])
    /\ UNCHANGED <<tables, tokens, links, cookie>>

CommitLogin(r) ==
  /\ At(r, "issue")
  /\ Len(tokens) < MaxTokens
  /\ tokens' = Issue(tokens, req[r].who, 0, 0, r)
  /\ Answer(r)
  /\ UNCHANGED <<tables, links, cookie>>

(***************************************************************************)
(* refresh: a client presents any token it has been issued; a tab of the   *)
(* browser presents its cookie's, after its call was answered 401.         *)
(***************************************************************************)
Presented(tab) == IF tab THEN {cookie} \ {0} ELSE DOMAIN tokens

Replayed(i) == tokens[i].used \/ tokens[i].revoked

BeginRefresh(r) ==
  \E tab \in BOOLEAN : \E i \in Presented(tab) :
    /\ Begin(r, [Fresh EXCEPT
         !.pc = CASE Replayed(i) -> "replay"
                  [] ~Replayed(i) /\ tokens[i].lapsed -> IF tab THEN "refused" ELSE "failed"
                  [] OTHER -> "rotate",
         !.op = "refresh", !.who = tokens[i].user, !.item = i, !.tab = tab])
    /\ UNCHANGED <<tables, tokens, links, cookie>>

\* Mutant: used_at is not stored.
BugRotate(r) ==
  tokens' = Issue(tokens, req[r].who, tokens[req[r].item].family, req[r].item, r)
Rotate(r) ==
  tokens' = Issue([tokens EXCEPT ![req[r].item].used = TRUE],
                  req[r].who, tokens[req[r].item].family, req[r].item, r)

\* The row was read without a lock: what others did to it since is not seen.
CommitRefresh(r) ==
  /\ At(r, "rotate")
  /\ Len(tokens) < MaxTokens
  /\ Rotate(r)
  /\ Answer(r)
  /\ UNCHANGED <<tables, links, cookie>>

\* The family is revoked and UnauthorizedError raised: the transaction rolls
\* back, and with it the revocation.
RefuseReplay(r) ==
  /\ At(r, "replay")
  /\ req' = [req EXCEPT ![r].op = "replay", ![r].tab = FALSE,
                        ![r].pc = IF req[r].tab THEN "refused" ELSE "failed"]
  /\ UNCHANGED <<tables, tokens, links, cookie>>

(***************************************************************************)
(* logout: the token's row, the unrevoked rows of its family, the commit.  *)
(* The dashboard's sign-out clears the cookies whatever the API answers.   *)
(***************************************************************************)
BeginLogout(r) ==
  \E tab \in BOOLEAN : \E i \in Presented(tab) :
    /\ Begin(r, [Fresh EXCEPT !.pc = "family", !.op = "logout", !.item = i, !.tab = tab,
                              !.who = tokens[i].user])
    /\ UNCHANGED <<tables, tokens, links, cookie>>

ReadFamily(r) ==
  /\ At(r, "family")
  /\ req' = [req EXCEPT ![r].seen = Family(tokens[req[r].item].family), ![r].pc = "revoke"]
  /\ UNCHANGED <<tables, tokens, links, cookie>>

Revoked(S) == [i \in DOMAIN tokens |-> [tokens[i] EXCEPT !.revoked = @ \/ i \in S]]

CommitLogout(r) ==
  /\ At(r, "revoke")
  /\ tokens' = Revoked(req[r].seen)
  /\ cookie' = IF req[r].tab THEN 0 ELSE cookie
  /\ Done(r)
  /\ UNCHANGED <<tables, links>>

\* Best effort: the API was not reached, the cookies go all the same.
SignOutUnreached(r) ==
  /\ cookie # 0
  /\ Begin(r, [Fresh EXCEPT !.pc = "gone", !.op = "logout", !.item = cookie, !.tab = TRUE])
  /\ cookie' = 0
  /\ UNCHANGED <<tables, tokens, links>>

(***************************************************************************)
(* forgot and reset                                                        *)
(***************************************************************************)
BeginForgot(r) ==
  \E p \in accounts :
    /\ Begin(r, [Fresh EXCEPT !.pc = "mail", !.op = "forgot", !.who = p])
    /\ UNCHANGED <<tables, tokens, links, cookie>>

CommitForgot(r) ==
  /\ At(r, "mail")
  /\ Len(links) < MaxLinks
  /\ links' = Append(links, Link(req[r].who))
  /\ Done(r)
  /\ UNCHANGED <<tables, tokens, cookie>>

Redeemable(l) == ~links[l].spent /\ ~links[l].lapsed

BeginReset(r) ==
  \E l \in DOMAIN links :
    /\ Begin(r, [Fresh EXCEPT !.pc = IF Redeemable(l) THEN "statements" ELSE "failed",
                              !.op = "reset", !.item = l, !.who = links[l].user])
    /\ UNCHANGED <<tables, tokens, links, cookie>>

\* Mutant: the sessions of the person who asked are left alone.
BugOwnTokens(p) == {}
OwnTokens(p) == {i \in DOMAIN tokens : tokens[i].user = p /\ ~tokens[i].revoked}

\* The two UPDATEs see the rows committed when they run.
ResetStatements(r) ==
  /\ At(r, "statements")
  /\ req' = [req EXCEPT ![r].pc = "change",
       ![r].seen = {<<"token", i>> : i \in OwnTokens(req[r].who)} \cup
                   {<<"link", l>> : l \in {l \in DOMAIN links : links[l].user = req[r].who
                                                               /\ ~links[l].spent}}]
  /\ UNCHANGED <<tables, tokens, links, cookie>>

CommitReset(r) ==
  /\ At(r, "change")
  /\ tokens' = Revoked({i \in DOMAIN tokens : <<"token", i>> \in req[r].seen})
  /\ links' = [l \in DOMAIN links |->
       [links[l] EXCEPT !.spent = @ \/ l = req[r].item \/ <<"link", l>> \in req[r].seen,
                        !.by = IF l = req[r].item THEN @ \cup {r} ELSE @]]
  /\ Done(r)
  /\ UNCHANGED <<tables, cookie>>

(***************************************************************************)
(* The proxy stores a rotated session and clears the cookies when refresh  *)
(* was refused, limited or unreachable; a browser that has gone gets       *)
(* neither.                                                                *)
(***************************************************************************)
LimitRefresh(r) ==
  /\ cookie # 0
  /\ Begin(r, [Fresh EXCEPT !.pc = "refused", !.op = "limited", !.item = cookie, !.tab = TRUE])
  /\ UNCHANGED <<tables, tokens, links, cookie>>

StoreCookie(r) ==
  /\ At(r, "answered")
  /\ \/ cookie' = req[r].item /\ Done(r)
     \/ /\ cookie' = IF req[r].op = "refresh" THEN 0 ELSE cookie
        /\ Close(r, "gone")      \* the API's answer is lost
     \/ cookie' = cookie /\ Close(r, "gone")
  /\ UNCHANGED <<tables, tokens, links>>

ClearCookie(r) ==
  /\ At(r, "refused")
  /\ cookie' = 0
  /\ Close(r, "failed")
  /\ UNCHANGED <<tables, tokens, links>>

\* A credential reaches its expires_at; one that is spent already, or that no
\* request is left to present, is as well left alone.
Lapses == Cardinality({i \in DOMAIN tokens : tokens[i].lapsed})
          + Cardinality({l \in DOMAIN links : links[l].lapsed})
          + Cardinality({i \in DOMAIN invitations : invitations[i].lapsed})

Lapse ==
  /\ Lapses < MaxLapses
  /\ \E r \in Requests : At(r, "new")
  /\ \/ /\ \E i \in DOMAIN tokens :
             Live(i) /\ tokens' = [tokens EXCEPT ![i].lapsed = TRUE]
        /\ UNCHANGED <<links, invitations>>
     \/ /\ \E l \in DOMAIN links :
             Redeemable(l) /\ links' = [links EXCEPT ![l].lapsed = TRUE]
        /\ UNCHANGED <<tokens, invitations>>
     \/ /\ \E i \in DOMAIN invitations :
             /\ ~invitations[i].accepted /\ ~invitations[i].lapsed
             /\ invitations' = [invitations EXCEPT ![i].lapsed = TRUE]
        /\ UNCHANGED <<tokens, links>>
  /\ UNCHANGED <<accounts, members, cookie, req>>

SessionStep(r) ==
  \/ BeginLogin(r) \/ CommitLogin(r)
  \/ BeginRefresh(r) \/ CommitRefresh(r) \/ RefuseReplay(r)
  \/ BeginLogout(r) \/ ReadFamily(r) \/ CommitLogout(r) \/ SignOutUnreached(r)
  \/ BeginForgot(r) \/ CommitForgot(r)
  \/ BeginReset(r) \/ ResetStatements(r) \/ CommitReset(r)
  \/ LimitRefresh(r) \/ StoreCookie(r) \/ ClearCookie(r)
=============================================================================
