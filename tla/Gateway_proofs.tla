---------------------------- MODULE Gateway_proofs ----------------------------
(***************************************************************************)
(* The way of a request, for any number of calls, people, keys, projects   *)
(* and limits: what a call does is within what its caller could do, and a  *)
(* credential's budget is spent by its own validated requests alone.       *)
(***************************************************************************)
EXTENDS Gateway, FiniteSetTheorems, SequenceTheorems, TLAPS

\* Who is said to call and what for.  The proxy alone answers a call that has no caller.
ClaimOK(a) ==
  \/ /\ a.kind = "none" /\ a.pc \in {"unsent", "answered"}
     /\ a.charges = <<>> /\ a.ran = 0 /\ a.status # 200 /\ ~a.pending
  \/ /\ a.kind \in {"user", "api_key"} /\ a.id \in IF a.kind = "user" THEN Users ELSE Keys
     /\ a.pc # "unsent" /\ (a.browser => a.kind = "user")
     /\ a.pc \in {"returned", "refresh"} => a.browser
     /\ a.route \in Routes /\ (a.target # None) = (a.route \in {"mint", "revoke"})

\* Who was found to call: the one it said, and with no more than was its own.
WhoOK(a) ==
  /\ a.who # Nobody => a.who.kind = a.kind /\ a.who.id = a.id
  /\ a.pc \in {"charge", "bind", "run"} => a.who # Nobody
  /\ a.pc = "charge_address" => a.who = Nobody
  /\ a.pc \in {"charge", "bind"} /\ a.kind = "user" => a.who.project = None
  /\ a.pc \in {"charge", "bind"} /\ a.kind = "api_key" =>
       a.who.project \in Projects /\ \A p \in a.who.may : <<a.who.project, p>> \in a.could
  /\ a.pc = "run" =>
       a.who.project \in Projects /\ <<a.who.project, Needs(a.route)>> \in a.could

\* What it has done: nothing before the handler, and then what it could do.
EffectOK(a) ==
  /\ a.pc \notin {"returned", "answered"} => a.ran = 0 /\ a.status # 200 /\ ~a.pending
  /\ a.pc = "returned" => a.ran = IF a.status = 200 THEN 1 ELSE 0
  /\ a.pc = "answered" => a.ran = (IF a.status = 200 THEN 1 ELSE 0) \/ a.late
  /\ a.pending => a.ran > 0 /\ a.who.project \in Projects /\ a.target \in Keys
  /\ a.ran > 0 => \A p \in a.rows \cup {a.who.project} : <<p, Needs(a.route)>> \in a.could

\* What its caller may do now is among what the caller could do.
HeldOK(a, m, k) ==
  a.pc \notin {"unsent", "answered"} => Authority(m, k, a.kind, a.id) \subseteq a.could

\* At most one charge for the first attempt and one for the retry.
ChargesOK(a, w) ==
  /\ Len(a.charges) <= IF a.again THEN 2 ELSE 1
  /\ a.pc \in {"authenticate", "charge", "charge_address"} =>
       Len(a.charges) <= IF a.again THEN 1 ELSE 0
  /\ a.pc = "refresh" => ~a.again
  /\ \A i \in DOMAIN a.charges : a.charges[i].window <= w

CallOK(a, m, k, w) ==
  a \in CallRange /\ ClaimOK(a) /\ WhoOK(a) /\ EffectOK(a) /\ HeldOK(a, m, k) /\ ChargesOK(a, w)

RangesOK ==
  /\ key \in [Keys -> KeyRange]
  /\ member \in [Users -> Seq(Membership)]
  /\ cookie \in Session \cup {None}
  /\ window \in Nat /\ up \in BOOLEAN /\ events \in 0 .. MaxEvents
  /\ \A b \in DOMAIN used : used[b] \in Nat

CallsOK ==
  /\ DOMAIN call = Calls /\ call = [c \in Calls |-> call[c]]
  /\ \A c \in Calls : CallOK(call[c], member, key, window)

\* A credential's requests that went through in this window are those its counter admits;
\* one was refused only in a window in which the others had used it up.
Classes == {"ingest", "read", "write", "auth"}
Tally(kind, id, class) ==
  IF <<<<kind, id>>, class>> \in DOMAIN used THEN used[<<<<kind, id>>, class>>] ELSE 0
AccountOK(kind, id, class, w) ==
  LET through == Cardinality(Charges(kind, id, class, w, TRUE)) IN
  /\ Limit[class] > 0 => through <= Limit[class]
  /\ Charges(kind, id, class, w, FALSE) # {} => through = Limit[class]
  /\ w = window /\ Limit[class] > 0 =>
       through = IF Tally(kind, id, class) < Limit[class] THEN Tally(kind, id, class)
                 ELSE Limit[class]
BudgetOK ==
  \A kind \in {"user", "api_key"}, id \in Users \cup Keys, class \in Classes, w \in Nat :
    AccountOK(kind, id, class, w)

IInv == RangesOK /\ CallsOK /\ BudgetOK

-----------------------------------------------------------------------------
\* What a caller may do concerns projects there are and permissions there are.
LEMMA AuthorityRange ==
  ASSUME NEW kind \in {"user", "api_key"}, NEW id \in IF kind = "user" THEN Users ELSE Keys,
         NEW m \in [Users -> Seq(Membership)],
         NEW k \in [Keys -> KeyRange]
  PROVE  Authority(m, k, kind, id) \in SUBSET (Projects \X Permissions)
<1>1. CASE kind = "user"
  <2>1. \A i \in DOMAIN m[id] : m[id][i] \in Membership
    BY <1>1
  <2>2. \A i \in DOMAIN m[id] : m[id][i].project \in Projects /\ m[id][i].role \in Roles
    BY <2>1 DEF Membership
  <2>3. \A i \in DOMAIN m[id] : RolePermissions(m[id][i].role) \subseteq Permissions
    BY <2>2 DEF Roles, RolePermissions, Permissions
  <2> QED BY <1>1, <2>2, <2>3 DEF Authority
<1>2. CASE kind = "api_key"
  <2>1. k[id].project \in Projects /\ k[id].scope \in Scopes
    BY <1>2 DEF KeyRange
  <2>2. ScopePermissions(k[id].scope) \subseteq Permissions
    BY <2>1 DEF Scopes, ScopePermissions, Permissions
  <2> QED BY <1>2, <2>1, <2>2 DEF Authority
<1> QED BY <1>1, <1>2

\* A step of one call that leaves keys, memberships and the window alone: the others are as
\* they were.
LEMMA OneCall ==
  ASSUME CallsOK, NEW c \in Calls, NEW a, CallOK(a, member, key, window),
         call' = [call EXCEPT ![c] = a], UNCHANGED <<member, key, window>>
  PROVE  CallsOK'
<1>1. DOMAIN call' = Calls /\ \A d \in Calls : call'[d] = IF d = c THEN a ELSE call[d]
  BY DEF CallsOK
<1>2. \A d \in Calls : CallOK(call'[d], member, key, window)
  BY <1>1 DEF CallsOK
<1> QED BY <1>1, <1>2 DEF CallsOK

\* Nothing has been done for a call the proxy has not passed on.
LEMMA UnsentOK == CallOK(Unsent, member, key, window)
<1>1. Unsent \in CallRange
  <2>1. Nobody \in Who
    BY DEF Nobody, Who
  <2>2. <<>> \in Seq(ChargeMade)
    OBVIOUS
  <2> QED BY <2>1, <2>2 DEF Unsent, CallRange, Pcs
<1>2. ClaimOK(Unsent) /\ EffectOK(Unsent) /\ HeldOK(Unsent, member, key)
  BY DEF Unsent, ClaimOK, EffectOK, HeldOK, Nobody
<1>3. WhoOK(Unsent) /\ ChargesOK(Unsent, window)
  BY DEF Unsent, WhoOK, ChargesOK, Nobody
<1> QED BY <1>1, <1>2, <1>3 DEF CallOK

\* A record of a call stays one when its stage and its status change.
LEMMA Recast ==
  ASSUME NEW b \in CallRange, NEW p \in Pcs, NEW s \in Nat
  PROVE  [b EXCEPT !.pc = p, !.status = s] \in CallRange
BY DEF CallRange

\* A call that has done nothing is answered, by the API or by the proxy.
LEMMA Replied ==
  ASSUME CallsOK, NEW c \in Calls, InFlight(c), call[c].ran = 0, ~call[c].pending,
         NEW s \in Nat, s # 200,
         NEW p \in {"returned", "answered"}, p = "returned" => call[c].browser
  PROVE  CallOK([call[c] EXCEPT !.pc = p, !.status = s], member, key, window)
<1>1. CallOK(call[c], member, key, window) /\ call[c].pc \notin {"unsent", "answered"}
  BY DEF CallsOK, InFlight
<1>2. PICK b \in CallRange : b = call[c]
  BY <1>1 DEF CallOK
<1>3. PICK a : a = [b EXCEPT !.pc = p, !.status = s]
  OBVIOUS
<1>4. a \in CallRange
  BY <1>3, ZenonT(40) DEF CallRange, Pcs
<1>5. /\ a.pc = p /\ a.status = s /\ a.kind = b.kind /\ a.id = b.id /\ a.who = b.who
      /\ a.browser = b.browser /\ a.route = b.route /\ a.target = b.target /\ a.could = b.could /\ a.ran = b.ran
      /\ a.pending = b.pending /\ a.charges = b.charges /\ a.again = b.again
  BY <1>3 DEF CallRange
<1>6. ClaimOK(a) /\ WhoOK(a)
  BY <1>1, <1>2, <1>5 DEF CallOK, ClaimOK, WhoOK
<1>7. EffectOK(a) /\ HeldOK(a, member, key)
  BY <1>1, <1>2, <1>5 DEF CallOK, EffectOK, HeldOK
<1>8. ChargesOK(a, window)
  BY <1>1, <1>2, <1>5 DEF CallOK, ChargesOK
<1> QED BY <1>2, <1>3, <1>4, <1>6, <1>7, <1>8 DEF CallOK

-----------------------------------------------------------------------------
\* A call is made with what its caller may do at that moment.
LEMMA MadeOK ==
  ASSUME RangesOK, CallsOK, NEW c \in Calls, NEW browser \in BOOLEAN,
         NEW kind \in {"user", "api_key"}, browser => kind = "user",
         NEW id \in IF kind = "user" THEN Users ELSE Keys,
         NEW good \in BOOLEAN, NEW route \in Routes, NEW names \in Projects \cup {None},
         NEW target \in Keys \cup {None}, (target # None) = (route \in {"mint", "revoke"}),
         Made(c, browser, kind, id, good, route, names, target),
         UNCHANGED <<member, key, window>>
  PROVE  CallsOK'
<1>1. PICK could \in SUBSET (Projects \X Permissions) : could = Authority(member, key, kind, id)
  BY AuthorityRange DEF RangesOK
<1>2. Unsent \in CallRange
  BY UnsentOK DEF CallOK
<1>3. PICK a1 : a1 = [Unsent EXCEPT !.pc = "authenticate", !.browser = browser, !.kind = kind]
  OBVIOUS
<1>4. PICK a2 : a2 = [a1 EXCEPT !.id = id, !.good = good, !.route = route]
  OBVIOUS
<1>5. PICK a : a = [a2 EXCEPT !.names = names, !.target = target, !.could = could]
  OBVIOUS
<1>6. a1 \in CallRange /\ a2 \in CallRange /\ a \in CallRange
  <2>1. a1 \in CallRange
    BY <1>2, <1>3, ZenonT(40) DEF CallRange, Pcs
  <2>2. id \in Users \cup Keys \cup {None} /\ route \in Routes \cup {None}
    OBVIOUS
  <2>3. a2 \in CallRange
    BY <1>4, <2>1, <2>2, ZenonT(40) DEF CallRange
  <2>4. a \in CallRange
    BY <1>1, <1>5, <2>3, ZenonT(40) DEF CallRange
  <2> QED BY <2>1, <2>3, <2>4
<1>7. /\ a.pc = "authenticate" /\ a.kind = kind /\ a.id = id /\ a.route = route
      /\ a.target = target /\ a.could = could /\ a.browser = browser
      /\ a.who = Nobody /\ a.status = 0 /\ a.ran = 0
      /\ a.pending = FALSE /\ a.charges = <<>> /\ a.again = FALSE
  BY <1>3, <1>4, <1>5 DEF Unsent
<1>8. ClaimOK(a) /\ WhoOK(a)
  BY <1>7 DEF ClaimOK, WhoOK
<1>9. EffectOK(a) /\ HeldOK(a, member, key)
  BY <1>1, <1>7 DEF EffectOK, HeldOK
<1>10. ChargesOK(a, window)
  BY <1>7 DEF ChargesOK
<1>11. call' = [call EXCEPT ![c] = a]
  BY <1>1, <1>3, <1>4, <1>5 DEF Made
<1> QED BY <1>6, <1>8, <1>9, <1>10, <1>11, OneCall DEF CallOK

\* A program's call.
LEMMA Directly ==
  ASSUME RangesOK, CallsOK, NEW c \in Calls, CallDirectly(c)
  PROVE  RangesOK' /\ CallsOK'
<1>1. PICK route \in Routes, names \in Projects \cup {None}, target \in Keys \cup {None},
           good \in BOOLEAN :
        /\ Wellformed(route, names, target)
        /\ \/ \E u \in Users : Made(c, FALSE, "user", u, good, route, names, target)
           \/ \E k \in Keys : Made(c, FALSE, "api_key", k, good, route, names, target)
        /\ UNCHANGED <<account, cookie, limiter>>
  BY DEF CallDirectly
<1>2. RangesOK' /\ UNCHANGED <<member, key, window>>
  BY <1>1 DEF RangesOK, account, limiter
<1>3. (target # None) = (route \in {"mint", "revoke"})
  BY <1>1 DEF Wellformed
<1>4. CASE \E u \in Users : Made(c, FALSE, "user", u, good, route, names, target)
  BY <1>2, <1>3, <1>4, MadeOK
<1>5. CASE \E k \in Keys : Made(c, FALSE, "api_key", k, good, route, names, target)
  BY <1>2, <1>3, <1>5, MadeOK
<1> QED BY <1>1, <1>2, <1>4, <1>5

\* The browser's call: refused by the proxy, or made with the session's token.
LEMMA FromBrowser ==
  ASSUME RangesOK, CallsOK, NEW c \in Calls, CallFromBrowser(c)
  PROVE  RangesOK' /\ CallsOK'
<1>1. PICK route \in Routes, names \in Projects \cup {None}, target \in Keys \cup {None} :
        /\ Wellformed(route, names, target)
        /\ IF ~Proxied(route) THEN Answer(c, 403)
           ELSE IF cookie = None THEN Answer(c, 401)
           ELSE Made(c, TRUE, "user", cookie.user, cookie.good, route,
                     Forwarded(route, names), target)
        /\ UNCHANGED <<account, cookie, limiter>>
  BY DEF CallFromBrowser
<1>2. RangesOK' /\ UNCHANGED <<member, key, window>>
  BY <1>1 DEF RangesOK, account, limiter
<1>3. (target # None) = (route \in {"mint", "revoke"})
  BY <1>1 DEF Wellformed
<1>4. Forwarded(route, names) \in Projects \cup {None}
  BY DEF Forwarded
<1>5. CASE Answer(c, 403) \/ Answer(c, 401)
  <2>1. CallOK(call[c], member, key, window) /\ At(c, "unsent")
    BY DEF CallsOK, CallFromBrowser
  <2>2. PICK s \in Nat : /\ s \in {401, 403}
                         /\ call' = [call EXCEPT ![c].pc = "answered", ![c].status = s]
    BY <1>5 DEF Answer
  <2>3. PICK b \in CallRange : b = call[c]
    BY <2>1 DEF CallOK
  <2>4. PICK a : a = [b EXCEPT !.pc = "answered", !.status = s]
    OBVIOUS
  <2>5. a \in CallRange
    BY <2>4, ZenonT(40) DEF CallRange, Pcs
  <2>6. /\ a.pc = "answered" /\ a.status = s /\ a.kind = b.kind /\ a.id = b.id /\ a.who = b.who
        /\ a.browser = b.browser /\ a.ran = b.ran /\ a.pending = b.pending /\ a.charges = b.charges /\ a.again = b.again
    BY <2>4 DEF CallRange
  <2>7. ClaimOK(a) /\ EffectOK(a) /\ HeldOK(a, member, key)
    BY <2>2, <2>1, <2>3, <2>6 DEF CallOK, ClaimOK, EffectOK, HeldOK, At
  <2>8. WhoOK(a) /\ ChargesOK(a, window)
    BY <2>1, <2>3, <2>6, <2>7 DEF CallOK, WhoOK, ChargesOK, ClaimOK, At
  <2>9. DOMAIN call = Calls
    BY DEF CallsOK
  <2>10. call' = [call EXCEPT ![c] = a]
    BY <2>2, <2>3, <2>4, <2>9
  <2> QED BY <1>2, <2>5, <2>7, <2>8, <2>10, OneCall DEF CallOK
<1>6. CASE cookie # None /\ Made(c, TRUE, "user", cookie.user, cookie.good, route,
                                Forwarded(route, names), target)
  <2>1. cookie.user \in Users /\ cookie.good \in BOOLEAN
    BY <1>6 DEF RangesOK, Session
  <2> QED BY <1>2, <1>3, <1>4, <1>6, <2>1, MadeOK
<1> QED BY <1>1, <1>5, <1>6

-----------------------------------------------------------------------------
\* A credential that is usable is resolved to what its caller may do, at most.
LEMMA Authenticated ==
  ASSUME RangesOK, CallsOK, NEW c \in Calls, Authenticate(c)
  PROVE  RangesOK' /\ CallsOK'
<1>1. UNCHANGED <<account, cookie, limiter>> /\ At(c, "authenticate")
  BY DEF Authenticate
<1>2. RangesOK' /\ UNCHANGED <<member, key, window>>
  BY <1>1 DEF RangesOK, account, limiter
<1>3. CallOK(call[c], member, key, window) /\ call[c].pc = "authenticate" /\ DOMAIN call = Calls
  BY <1>1 DEF CallsOK, At
<1>4. PICK b \in CallRange : b = call[c]
  BY <1>3 DEF CallOK
<1>5. /\ b.kind \in {"user", "api_key"} /\ b.id \in IF b.kind = "user" THEN Users ELSE Keys
      /\ b.route \in Routes /\ (b.target # None) = (b.route \in {"mint", "revoke"})
  BY <1>3, <1>4 DEF CallOK, ClaimOK
<1>6. PICK usable \in BOOLEAN :
        usable = (call[c].good /\ (call[c].kind = "api_key" => key[call[c].id].live))
  OBVIOUS
<1>7. Resolved(c) \in Who /\ Nobody \in Who
  <2>1. Nobody \in Who
    BY DEF Who, Nobody
  <2>2. CASE b.kind = "user"
    BY <1>4, <1>5, <2>2 DEF Resolved, Nobody, Who
  <2>3. CASE b.kind = "api_key"
    <3>1. key[b.id].project \in Projects /\ key[b.id].scope \in Scopes
      BY <1>5, <2>3 DEF RangesOK, KeyRange
    <3>2. ScopePermissions(key[b.id].scope) \subseteq Permissions
      BY <3>1 DEF Scopes, ScopePermissions, Permissions
    <3>3. /\ key[b.id].project \in Projects \cup {None} /\ b.id \in Users \cup Keys \cup {None}
          /\ ScopePermissions(key[b.id].scope) \in SUBSET Permissions
      BY <1>5, <2>3, <3>1, <3>2
    <3>4. Resolved(c) = [kind |-> "api_key", id |-> b.id, project |-> key[b.id].project,
                         may |-> ScopePermissions(key[b.id].scope), tenant |-> None]
      BY <1>4, <2>3 DEF Resolved
    <3> QED BY <2>1, <3>3, <3>4 DEF Who
  <2> QED BY <1>5, <2>1, <2>2, <2>3
<1>8. PICK who \in Who : who = IF usable THEN Resolved(c) ELSE Nobody
  BY <1>7
<1>9. PICK pc \in {"charge", "charge_address"} : pc = IF usable THEN "charge" ELSE "charge_address"
  OBVIOUS
<1>10. PICK a : a = [b EXCEPT !.pc = pc, !.who = who]
  OBVIOUS
<1>11. a \in CallRange
  BY <1>10, ZenonT(40) DEF CallRange, Pcs
<1>12. /\ a.pc = pc /\ a.who = who
       /\ a.status = b.status /\ a.kind = b.kind /\ a.id = b.id /\ a.browser = b.browser
       /\ a.route = b.route /\ a.target = b.target /\ a.could = b.could /\ a.ran = b.ran
       /\ a.pending = b.pending /\ a.charges = b.charges /\ a.again = b.again
  BY <1>10 DEF CallRange
<1>13. ClaimOK(a)
  BY <1>3, <1>4, <1>12, <1>9 DEF CallOK, ClaimOK
<1>14. EffectOK(a) /\ HeldOK(a, member, key)
  BY <1>3, <1>4, <1>12 DEF CallOK, EffectOK, HeldOK
<1>15. ChargesOK(a, window)
  BY <1>3, <1>4, <1>12 DEF CallOK, ChargesOK
<1>16. WhoOK(a)
  <2>1. CASE ~usable
    BY <1>8, <1>9, <1>12, <2>1 DEF WhoOK
  <2>2. CASE usable /\ b.kind = "user"
    <3>1. who = [kind |-> "user", id |-> b.id, project |-> None, may |-> {}, tenant |-> None]
      BY <1>4, <1>8, <2>2 DEF Resolved, Nobody
    <3> QED BY <1>12, <1>9, <2>2, <3>1 DEF WhoOK, Nobody
  <2>3. CASE usable /\ b.kind = "api_key"
    <3>1. key[b.id].live /\ key[b.id].project \in Projects
      BY <1>4, <1>5, <1>6, <2>3 DEF RangesOK, KeyRange
    <3>2. {key[b.id].project} \X ScopePermissions(key[b.id].scope) \subseteq b.could
      BY <1>3, <1>4, <2>3, <3>1 DEF CallOK, HeldOK, Authority
    <3>3. who = [kind |-> "api_key", id |-> b.id, project |-> key[b.id].project,
                 may |-> ScopePermissions(key[b.id].scope), tenant |-> None]
      BY <1>4, <1>8, <2>3 DEF Resolved
    <3> QED BY <1>12, <1>9, <2>3, <3>1, <3>2, <3>3 DEF WhoOK, Nobody
  <2> QED BY <1>5, <2>1, <2>2, <2>3
<1>17. call' = [call EXCEPT ![c] = a]
  BY <1>3, <1>4, <1>6, <1>8, <1>10, <1>9 DEF Authenticate
<1> QED BY <1>2, <1>11, <1>13, <1>14, <1>15, <1>16, <1>17, OneCall DEF CallOK

-----------------------------------------------------------------------------
\* The API refuses: the call is answered, or returned to the proxy.
LEMMA ReplyStep ==
  ASSUME CallsOK, NEW c \in Calls, InFlight(c), call[c].ran = 0, ~call[c].pending,
         NEW s \in Nat, s # 200, Reply(c, s), UNCHANGED <<member, key, window>>
  PROVE  CallsOK'
<1>1. PICK p \in {"returned", "answered"} : p = IF call[c].browser THEN "returned" ELSE "answered"
  OBVIOUS
<1>2. CallOK([call[c] EXCEPT !.pc = p, !.status = s], member, key, window)
  BY <1>1, Replied
<1>3. DOMAIN call = Calls
  BY DEF CallsOK
<1>4. call' = [call EXCEPT ![c] = [call[c] EXCEPT !.pc = p, !.status = s]]
  BY <1>1, <1>3 DEF Reply
<1> QED BY <1>2, <1>4, OneCall

\* The proxy refuses a call that has done nothing.
LEMMA AnswerStep ==
  ASSUME CallsOK, NEW c \in Calls, InFlight(c), call[c].ran = 0, ~call[c].pending,
         NEW s \in Nat, s # 200, Answer(c, s), UNCHANGED <<member, key, window>>
  PROVE  CallsOK'
<1>1. PICK p \in {"returned", "answered"} : p = "answered"
  OBVIOUS
<1>2. CallOK([call[c] EXCEPT !.pc = p, !.status = s], member, key, window)
  BY <1>1, Replied
<1>3. DOMAIN call = Calls
  BY DEF CallsOK
<1>4. call' = [call EXCEPT ![c] = [call[c] EXCEPT !.pc = p, !.status = s]]
  BY <1>1, <1>3 DEF Answer
<1> QED BY <1>2, <1>4, OneCall

\* A person is bound to a project of which they are a member, and with that role.
LEMMA BoundUser ==
  ASSUME RangesOK, CallsOK, NEW c \in Calls, call[c].pc = "bind", call[c].kind = "user",
         BindUser(c) # Nobody
  PROVE  /\ BindUser(c) \in Who /\ BindUser(c).project \in Projects
         /\ BindUser(c).kind = call[c].kind /\ BindUser(c).id = call[c].id
         /\ \A p \in BindUser(c).may : <<BindUser(c).project, p>> \in call[c].could
<1>1. CallOK(call[c], member, key, window)
  BY DEF CallsOK
<1>2. PICK u \in Users : u = call[c].id /\ u = call[c].who.id
  BY <1>1 DEF CallOK, ClaimOK, WhoOK
<1>3. call[c].who \in Who /\ call[c].who.kind = "user"
  BY <1>1 DEF CallOK, CallRange, WhoOK
<1>4. PICK p : p = IF call[c].names # None THEN call[c].names
                   ELSE IF member[u] = <<>> THEN None ELSE member[u][1].project
  OBVIOUS
<1>5. Place(u, p) # {} /\ BindUser(c) = In(c, p)
  BY <1>2, <1>4 DEF BindUser
<1>6. PICK i \in Place(u, p) : i = CHOOSE j \in Place(u, p) : TRUE
  BY <1>5
<1>7. i \in DOMAIN member[u] /\ member[u][i].project = p
  BY <1>6 DEF Place
<1>8. member[u] \in Seq(Membership)
  BY DEF RangesOK
<1>9. member[u][i] \in Membership
  BY <1>7, <1>8
<1>10. p \in Projects /\ member[u][i].role \in Roles
  BY <1>7, <1>9 DEF Membership
<1>11. PICK may \in SUBSET Permissions : may = RolePermissions(member[u][i].role)
  BY <1>10 DEF Roles, RolePermissions, Permissions
<1>12. BindUser(c) = [call[c].who EXCEPT !.project = p, !.may = may]
  BY <1>2, <1>5, <1>6, <1>11 DEF In, Role
<1>13. {p} \X may \subseteq call[c].could
  <2>1. {p} \X may \subseteq Authority(member, key, "user", u)
    BY <1>7, <1>11 DEF Authority
  <2> QED BY <1>1, <1>2, <2>1 DEF CallOK, HeldOK
<1>14. /\ BindUser(c) \in Who /\ BindUser(c).project = p /\ BindUser(c).may = may
       /\ BindUser(c).kind = call[c].who.kind /\ BindUser(c).id = call[c].who.id
  BY <1>3, <1>10, <1>12 DEF Who
<1> QED BY <1>2, <1>3, <1>10, <1>13, <1>14

\* A call goes on to its handler only with the permission the route asks for, in a project.
LEMMA BindStep ==
  ASSUME RangesOK, CallsOK, NEW c \in Calls, Bind(c)
  PROVE  RangesOK' /\ CallsOK'
<1>1. UNCHANGED <<account, cookie, limiter>> /\ call[c].pc = "bind"
  BY DEF Bind, At
<1>2. RangesOK' /\ UNCHANGED <<member, key, window>>
  BY <1>1 DEF RangesOK, account, limiter
<1>3. CallOK(call[c], member, key, window) /\ DOMAIN call = Calls
  BY DEF CallsOK
<1>4. InFlight(c) /\ call[c].ran = 0 /\ ~call[c].pending
  BY <1>1, <1>3 DEF InFlight, CallOK, EffectOK
<1>5. CASE Reply(c, 403) \/ Reply(c, 404)
  BY <1>2, <1>4, <1>5, ReplyStep
<1>6. CASE /\ Bound(c) # Nobody /\ ~Forbidden(c, Bound(c))
           /\ call' = [call EXCEPT ![c].pc = "run", ![c].who = Bound(c)]
  <2>1. PICK b \in CallRange : b = call[c]
    BY <1>3 DEF CallOK
  <2>2. /\ b.kind \in {"user", "api_key"} /\ b.who \in Who
        /\ b.who # Nobody /\ b.who.kind = b.kind /\ b.who.id = b.id
    BY <1>1, <1>3, <2>1 DEF CallOK, ClaimOK, WhoOK, CallRange
  <2>3. Bound(c).project # None /\ Needs(b.route) \in Bound(c).may
    BY <1>6, <2>1 DEF Forbidden
  <2>4. /\ Bound(c) \in Who /\ Bound(c).project \in Projects
        /\ Bound(c).kind = b.kind /\ Bound(c).id = b.id
        /\ \A p \in Bound(c).may : <<Bound(c).project, p>> \in b.could
    <3>1. CASE b.kind = "api_key"
      <4>1. Bound(c) = b.who
        BY <1>6, <2>1, <2>2, <3>1 DEF Bound, BindKey
      <4> QED BY <1>1, <1>3, <2>1, <2>2, <3>1, <4>1 DEF CallOK, WhoOK
    <3>2. CASE b.kind = "user"
      <4>1. b.who.project = None
        BY <1>1, <1>3, <2>1, <3>2 DEF CallOK, WhoOK
      <4>2. Bound(c) = BindUser(c)
        BY <2>1, <2>2, <2>3, <3>2, <4>1 DEF Bound
      <4> QED BY <1>1, <1>6, <2>1, <3>2, <4>2, BoundUser
    <3> QED BY <2>2, <3>1, <3>2
  <2>5. PICK who \in Who : who = Bound(c)
    BY <2>4
  <2>6. PICK a : a = [b EXCEPT !.pc = "run", !.who = who]
    OBVIOUS
  <2>7. a \in CallRange
    BY <2>6, ZenonT(40) DEF CallRange, Pcs
  <2>8. /\ a.pc = "run" /\ a.who = who
        /\ a.status = b.status /\ a.kind = b.kind /\ a.id = b.id /\ a.browser = b.browser
        /\ a.route = b.route /\ a.target = b.target /\ a.could = b.could /\ a.ran = b.ran
        /\ a.pending = b.pending /\ a.charges = b.charges /\ a.again = b.again
    BY <2>6 DEF CallRange
  <2>9. ClaimOK(a) /\ EffectOK(a)
    BY <1>1, <1>3, <2>1, <2>8 DEF CallOK, ClaimOK, EffectOK
  <2>10. HeldOK(a, member, key) /\ ChargesOK(a, window)
    BY <1>1, <1>3, <2>1, <2>8 DEF CallOK, HeldOK, ChargesOK
  <2>11. WhoOK(a)
    BY <1>6, <2>3, <2>4, <2>5, <2>8 DEF WhoOK
  <2>12. call' = [call EXCEPT ![c] = a]
    BY <1>3, <1>6, <2>1, <2>5, <2>6
  <2> QED BY <1>2, <2>7, <2>9, <2>10, <2>11, <2>12, OneCall DEF CallOK
<1> QED BY <1>2, <1>5, <1>6 DEF Bind

-----------------------------------------------------------------------------
\* A handler reaches the rows of the project its call is bound to, and no others.
LEMMA RunStep ==
  ASSUME RangesOK, CallsOK, NEW c \in Calls, Run(c)
  PROVE  RangesOK' /\ CallsOK'
<1>1. UNCHANGED <<account, cookie, limiter>> /\ call[c].pc = "run"
  BY DEF Run, At
<1>2. RangesOK' /\ UNCHANGED <<member, key, window>>
  BY <1>1 DEF RangesOK, account, limiter
<1>3. CallOK(call[c], member, key, window) /\ DOMAIN call = Calls
  BY DEF CallsOK
<1>4. InFlight(c) /\ call[c].ran = 0 /\ ~call[c].pending
  BY <1>1, <1>3 DEF InFlight, CallOK, EffectOK
<1>5. CASE Missing(c)
  BY <1>2, <1>4, <1>5, ReplyStep DEF Run
<1>6. CASE ~Missing(c)
  <2>1. PICK b \in CallRange : b = call[c]
    BY <1>3 DEF CallOK
  <2>2. b.who.project \in Projects /\ <<b.who.project, Needs(b.route)>> \in b.could
    BY <1>1, <1>3, <2>1 DEF CallOK, WhoOK
  <2>3. Reaches(c) \subseteq {b.who.project}
    BY <1>6, <2>1 DEF Reaches, Missing, Visible
  <2>4. PICK rows \in SUBSET Projects : rows = Reaches(c)
    BY <2>2, <2>3
  <2>5. PICK p \in {"returned", "answered"} : p = IF b.browser THEN "returned" ELSE "answered"
    OBVIOUS
  <2>6. PICK pending \in BOOLEAN : pending = (b.target # None)
    OBVIOUS
  <2>7. b.ran = 0 /\ b.target \in Keys \cup {None}
    BY <1>4, <2>1 DEF CallRange
  <2>8. PICK a1 : a1 = [b EXCEPT !.pc = p, !.status = 200]
    OBVIOUS
  <2>9. PICK a : a = [a1 EXCEPT !.rows = rows, !.ran = 1, !.pending = pending]
    OBVIOUS
  <2>10. a \in CallRange
    <3>1. p \in Pcs /\ 200 \in Nat /\ 1 \in Nat
      BY <2>5 DEF Pcs
    <3>2. a1 \in CallRange
      BY <2>8, <3>1, Recast
    <3>3. rows \in SUBSET Projects /\ pending \in BOOLEAN
      BY <2>4, <2>6
    <3> QED BY <2>9, <3>1, <3>2, <3>3, ZenonT(40) DEF CallRange
  <2>11. /\ a.pc = p /\ a.who = b.who /\ a.rows = rows /\ a.ran = 1 /\ a.pending = pending
         /\ a.status = 200 /\ a.kind = b.kind /\ a.id = b.id /\ a.browser = b.browser
         /\ a.route = b.route /\ a.target = b.target /\ a.could = b.could
         /\ a.charges = b.charges /\ a.again = b.again
    BY <2>8, <2>9 DEF CallRange
  <2>12. ClaimOK(a) /\ WhoOK(a)
    BY <1>1, <1>3, <2>1, <2>5, <2>11 DEF CallOK, ClaimOK, WhoOK
  <2>13. EffectOK(a)
    <3>1. a.pending => a.target \in Keys
      BY <2>6, <2>7, <2>11
    <3>2. \A q \in a.rows \cup {a.who.project} : <<q, Needs(a.route)>> \in a.could
      BY <2>2, <2>3, <2>4, <2>11
    <3> QED BY <3>1, <3>2, <2>2, <2>3, <2>4, <2>5, <2>6, <2>7, <2>11 DEF EffectOK
  <2>14. HeldOK(a, member, key) /\ ChargesOK(a, window)
    BY <1>1, <1>3, <2>1, <2>11 DEF CallOK, HeldOK, ChargesOK
  <2>15. call' = [call EXCEPT ![c] = a]
    <3>1. call' = [call EXCEPT ![c] = Handled(b, rows)]
      BY <1>6, <2>1, <2>4 DEF Run
    <3>2. Handled(b, rows) = a
      BY <2>1, <2>5, <2>6, <2>7, <2>8, <2>9 DEF CallRange, Handled
    <3> QED BY <3>1, <3>2
  <2> QED BY <1>2, <2>10, <2>12, <2>13, <2>14, <2>15, OneCall DEF CallOK
<1> QED BY <1>5, <1>6

\* A transaction that is over: the call is what it was.
LEMMA Settled ==
  ASSUME NEW b, NEW m, NEW k, NEW w, CallOK(b, m, k, w)
  PROVE  CallOK([b EXCEPT !.pending = FALSE], m, k, w)
<1>1. b \in CallRange
  BY DEF CallOK
<1>2. PICK a : a = [b EXCEPT !.pending = FALSE]
  OBVIOUS
<1>3. a \in CallRange
  BY <1>1, <1>2 DEF CallRange
<1>4. /\ a.pc = b.pc /\ a.who = b.who /\ a.rows = b.rows /\ a.ran = b.ran /\ a.pending = FALSE
      /\ a.status = b.status /\ a.kind = b.kind /\ a.id = b.id /\ a.browser = b.browser
      /\ a.late = b.late /\ a.route = b.route /\ a.target = b.target /\ a.could = b.could
      /\ a.charges = b.charges /\ a.again = b.again
  BY <1>1, <1>2 DEF CallRange
<1>5. ClaimOK(a) /\ WhoOK(a)
  BY <1>4 DEF CallOK, ClaimOK, WhoOK
<1>6. EffectOK(a)
  BY <1>4 DEF CallOK, EffectOK
<1>7. HeldOK(a, m, k) /\ ChargesOK(a, w)
  BY <1>4 DEF CallOK, HeldOK, ChargesOK
<1> QED BY <1>2, <1>3, <1>5, <1>6, <1>7 DEF CallOK

\* A change of keys or memberships: what callers may do now is among what they could do.
LEMMA Widen ==
  ASSUME CallsOK, NEW m \in [Users -> Seq(Membership)], NEW k \in [Keys -> KeyRange],
         NEW c \in Calls
  PROVE  CallOK(Widened(m, k)[c], m, k, window)
<1>1. CallOK(call[c], member, key, window)
  BY DEF CallsOK
<1>2. PICK b \in CallRange : b = call[c]
  BY <1>1 DEF CallOK
<1>3. CASE ~InFlight(c)
  <2>1. Widened(m, k)[c] = b
    BY <1>2, <1>3 DEF Widened
  <2>2. HeldOK(b, m, k)
    BY <1>2, <1>3 DEF InFlight, HeldOK
  <2> QED BY <1>1, <1>2, <2>1, <2>2 DEF CallOK
<1>4. CASE InFlight(c)
  <2>1. b.kind \in {"user", "api_key"} /\ b.id \in IF b.kind = "user" THEN Users ELSE Keys
    BY <1>1, <1>2, <1>4 DEF CallOK, ClaimOK, InFlight
  <2>2. Authority(m, k, b.kind, b.id) \in SUBSET (Projects \X Permissions)
    BY <2>1, AuthorityRange
  <2>3. PICK could \in SUBSET (Projects \X Permissions) :
          could = b.could \cup Authority(m, k, b.kind, b.id)
    BY <2>2 DEF CallRange
  <2>4. PICK a : a = [b EXCEPT !.could = could]
    OBVIOUS
  <2>5. a \in CallRange
    BY <2>4 DEF CallRange
  <2>6. /\ a.pc = b.pc /\ a.who = b.who /\ a.rows = b.rows /\ a.ran = b.ran
        /\ a.pending = b.pending /\ a.could = could
        /\ a.status = b.status /\ a.kind = b.kind /\ a.id = b.id /\ a.browser = b.browser /\ a.late = b.late
        /\ a.route = b.route /\ a.target = b.target
        /\ a.charges = b.charges /\ a.again = b.again
    BY <2>4 DEF CallRange
  <2>7. ClaimOK(a) /\ WhoOK(a)
    BY <1>1, <1>2, <2>3, <2>6 DEF CallOK, ClaimOK, WhoOK
  <2>8. EffectOK(a)
    BY <1>1, <1>2, <2>3, <2>6 DEF CallOK, EffectOK
  <2>9. HeldOK(a, m, k) /\ ChargesOK(a, window)
    BY <1>1, <1>2, <2>3, <2>6 DEF CallOK, HeldOK, ChargesOK
  <2>10. Widened(m, k)[c] = a
    BY <1>2, <1>4, <2>3, <2>4 DEF Widened
  <2> QED BY <2>5, <2>7, <2>8, <2>9, <2>10 DEF CallOK
<1> QED BY <1>3, <1>4

\* A key is minted or revoked when the transaction commits.
LEMMA CommitStep ==
  ASSUME RangesOK, CallsOK, NEW c \in Calls, Commit(c)
  PROVE  RangesOK' /\ CallsOK'
<1>1. call[c].who.project \in Projects /\ call[c].target \in Keys
  BY DEF CallsOK, CallOK, EffectOK, Commit
<1>2. Stored(c) \in [Keys -> KeyRange]
  <2>1. key \in [Keys -> KeyRange]
    BY DEF RangesOK
  <2> QED BY <1>1, <2>1, ZenonT(40) DEF Stored, KeyRange
<1>3. RangesOK'
  BY <1>2 DEF RangesOK, Commit, limiter
<1>4. \A d \in Calls : CallOK(Widened(member, key')[d], member, key', window)
  BY <1>2, Widen DEF RangesOK, Commit
<1>5. /\ DOMAIN call' = Calls /\ call' = [d \in Calls |-> call'[d]]
      /\ \A d \in Calls : call'[d] =
           IF d = c THEN [Widened(member, key')[c] EXCEPT !.pending = FALSE]
           ELSE Widened(member, key')[d]
  <2>1. DOMAIN Widened(member, key') = Calls
    BY DEF Widened
  <2>2. call' = [Widened(member, key') EXCEPT ![c].pending = FALSE]
    BY DEF Commit
  <2> QED BY <2>1, <2>2
<1>6. \A d \in Calls : CallOK(call'[d], member, key', window)
  BY <1>4, <1>5, Settled
<1>7. UNCHANGED <<member, window>>
  BY DEF Commit, limiter
<1> QED BY <1>3, <1>5, <1>6, <1>7 DEF CallsOK

\* Or it does not commit.
LEMMA CommitFailsStep ==
  ASSUME RangesOK, CallsOK, NEW c \in Calls, CommitFails(c)
  PROVE  RangesOK' /\ CallsOK'
<1>1. RangesOK' /\ UNCHANGED <<member, key, window>>
  BY DEF RangesOK, CommitFails, account, limiter
<1>2. CallOK([call[c] EXCEPT !.pending = FALSE], member, key, window) /\ DOMAIN call = Calls
  BY Settled DEF CallsOK
<1>3. call' = [call EXCEPT ![c] = [call[c] EXCEPT !.pending = FALSE]]
  BY <1>2 DEF CommitFails
<1> QED BY <1>1, <1>2, <1>3, OneCall

-----------------------------------------------------------------------------
\* The proxy's patience ends.
LEMMA GiveUpStep ==
  ASSUME RangesOK, CallsOK, NEW c \in Calls, GiveUp(c)
  PROVE  RangesOK' /\ CallsOK'
<1>1. RangesOK' /\ UNCHANGED <<member, key, window>>
  BY LimitAssumption DEF RangesOK, GiveUp, limiter
<1>2. CallOK(call[c], member, key, window) /\ call[c].pc \notin {"unsent", "answered"}
  BY DEF CallsOK, GiveUp, InFlight
<1>3. PICK b \in CallRange : b = call[c]
  BY <1>2 DEF CallOK
<1>4. PICK a : a = [b EXCEPT !.late = TRUE]
  OBVIOUS
<1>5. a \in CallRange
  BY <1>4 DEF CallRange
<1>6. /\ a.pc = b.pc /\ a.who = b.who /\ a.rows = b.rows /\ a.ran = b.ran
      /\ a.pending = b.pending
      /\ a.status = b.status /\ a.kind = b.kind /\ a.id = b.id /\ a.browser = b.browser
      /\ a.route = b.route /\ a.target = b.target /\ a.could = b.could
      /\ a.charges = b.charges /\ a.again = b.again
  BY <1>4 DEF CallRange
<1>7. ClaimOK(a) /\ WhoOK(a)
  BY <1>2, <1>3, <1>6 DEF CallOK, ClaimOK, WhoOK
<1>8. EffectOK(a)
  BY <1>2, <1>3, <1>6 DEF CallOK, EffectOK
<1>9. HeldOK(a, member, key) /\ ChargesOK(a, window)
  BY <1>2, <1>3, <1>6 DEF CallOK, HeldOK, ChargesOK
<1>10. call' = [call EXCEPT ![c] = a]
  BY <1>3, <1>4 DEF GiveUp
<1> QED BY <1>1, <1>5, <1>7, <1>8, <1>9, <1>10, OneCall DEF CallOK

\* A call comes back to the proxy: answered, or its session is refreshed.
LEMMA ReturnStep ==
  ASSUME RangesOK, CallsOK, NEW c \in Calls, Return(c)
  PROVE  RangesOK' /\ CallsOK'
<1>1. UNCHANGED <<account, cookie, limiter>> /\ call[c].pc = "returned"
  BY DEF Return, At
<1>2. RangesOK' /\ UNCHANGED <<member, key, window>>
  BY <1>1 DEF RangesOK, account, limiter
<1>3. CallOK(call[c], member, key, window) /\ DOMAIN call = Calls
  BY DEF CallsOK
<1>4. PICK b \in CallRange : b = call[c]
  BY <1>3 DEF CallOK
<1>5. PICK p \in Pcs, s \in Nat :
        /\ call' = [call EXCEPT ![c] = [b EXCEPT !.pc = p, !.status = s]]
        /\ \/ p = "answered" /\ s = 504 /\ b.late
           \/ p = "answered" /\ s = b.status
           \/ p = "refresh" /\ s = b.status /\ s = 401 /\ ~b.again
  <2>1. CASE call[c].late
    <3>1. PICK p \in Pcs, s \in Nat : p = "answered" /\ s = 504
      BY DEF Pcs
    <3>2. Answer(c, s)
      BY <2>1, <3>1 DEF Return
    <3>3. call' = [call EXCEPT ![c] = [b EXCEPT !.pc = p, !.status = s]]
      BY <1>3, <1>4, <3>1, <3>2, ZenonT(40) DEF Answer
    <3> QED BY <1>4, <2>1, <3>1, <3>3
  <2>2. CASE ~call[c].late /\ Refreshes(c)
    <3>1. call' = [call EXCEPT ![c] = [b EXCEPT !.pc = "refresh"]]
      BY <1>4, <2>2 DEF Return
    <3>2. [b EXCEPT !.pc = "refresh"] = [b EXCEPT !.pc = "refresh", !.status = b.status]
      BY DEF CallRange
    <3> QED BY <1>4, <2>2, <3>1, <3>2 DEF Pcs, Refreshes, CallRange
  <2>3. CASE ~call[c].late /\ ~Refreshes(c)
    <3>1. call' = [call EXCEPT ![c] = [b EXCEPT !.pc = "answered", !.status = b.status]]
      BY <1>3, <1>4, <2>3 DEF Return, Answer
    <3> QED BY <1>4, <3>1 DEF Pcs, CallRange
  <2> QED BY <2>1, <2>2, <2>3
<1>6. PICK a : a = [b EXCEPT !.pc = p, !.status = s]
  OBVIOUS
<1>7. a \in CallRange
  BY <1>5, <1>6, Recast
<1>8. /\ a.pc = p /\ a.who = b.who /\ a.rows = b.rows /\ a.ran = b.ran
      /\ a.pending = b.pending /\ a.late = b.late
      /\ a.status = s /\ a.kind = b.kind /\ a.id = b.id /\ a.browser = b.browser
      /\ a.route = b.route /\ a.target = b.target /\ a.could = b.could
      /\ a.charges = b.charges /\ a.again = b.again
  BY <1>6 DEF CallRange
<1>9. ClaimOK(a) /\ WhoOK(a)
  BY <1>1, <1>3, <1>4, <1>5, <1>8 DEF CallOK, ClaimOK, WhoOK
<1>10. EffectOK(a)
  BY <1>1, <1>3, <1>4, <1>5, <1>8 DEF CallOK, EffectOK
<1>11. HeldOK(a, member, key) /\ ChargesOK(a, window)
  BY <1>1, <1>3, <1>4, <1>5, <1>8 DEF CallOK, HeldOK, ChargesOK
<1> QED BY <1>2, <1>5, <1>6, <1>7, <1>9, <1>10, <1>11, OneCall DEF CallOK

\* The session is not refreshed: the call is refused.
LEMMA NotRotatedStep ==
  ASSUME RangesOK, CallsOK, NEW c \in Calls, NotRotated(c)
  PROVE  RangesOK' /\ CallsOK'
<1>1. call[c].pc = "refresh" /\ UNCHANGED <<account, limiter>> /\ cookie' = None
  BY DEF NotRotated, At
<1>2. RangesOK' /\ UNCHANGED <<member, key, window>>
  BY <1>1 DEF RangesOK, account, limiter
<1>3. CallOK(call[c], member, key, window) /\ DOMAIN call = Calls
  BY DEF CallsOK
<1>4. InFlight(c) /\ call[c].ran = 0 /\ ~call[c].pending
  BY <1>1, <1>3 DEF InFlight, CallOK, EffectOK
<1>5. PICK s \in Nat : s = IF call[c].late THEN 504 ELSE 401
  OBVIOUS
<1> QED BY <1>1, <1>2, <1>4, <1>5, AnswerStep DEF NotRotated

\* The request never reaches the API: the call is answered and has done nothing.
LEMMA UnreachableStep ==
  ASSUME RangesOK, CallsOK, NEW c \in Calls, Unreachable(c)
  PROVE  RangesOK' /\ CallsOK'
<1>1. call[c].pc = "authenticate" /\ UNCHANGED <<account, cookie, limiter>>
  BY DEF Unreachable, At
<1>2. RangesOK' /\ UNCHANGED <<member, key, window>>
  BY <1>1 DEF RangesOK, account, limiter
<1>3. CallOK(call[c], member, key, window)
  BY DEF CallsOK
<1>4. InFlight(c) /\ call[c].ran = 0 /\ ~call[c].pending
  BY <1>1, <1>3 DEF InFlight, CallOK, EffectOK
<1>5. PICK s \in Nat : s = 502
  OBVIOUS
<1> QED BY <1>2, <1>4, <1>5, AnswerStep DEF Unreachable

\* The session is refreshed, and the call tried again unless nobody waits for it.
LEMMA RotatedStep ==
  ASSUME RangesOK, CallsOK, NEW c \in Calls, Rotated(c)
  PROVE  RangesOK' /\ CallsOK'
<1>1. call[c].pc = "refresh" /\ UNCHANGED <<account, limiter>>
  BY DEF Rotated, At
<1>2. CallOK(call[c], member, key, window) /\ DOMAIN call = Calls
  BY DEF CallsOK
<1>3. PICK b \in CallRange : b = call[c]
  BY <1>2 DEF CallOK
<1>4. b.kind = "user" /\ b.id \in Users
  BY <1>1, <1>2, <1>3 DEF CallOK, ClaimOK
<1>5. RangesOK' /\ UNCHANGED <<member, key, window>>
  <2>1. cookie' \in Session
    BY <1>3, <1>4 DEF Rotated, Session
  <2> QED BY <1>1, <2>1 DEF RangesOK, account, limiter
<1>6. InFlight(c) /\ call[c].ran = 0 /\ ~call[c].pending
  BY <1>1, <1>2 DEF InFlight, CallOK, EffectOK
<1>7. CASE Answer(c, 504)
  BY <1>5, <1>6, <1>7, AnswerStep
<1>8. CASE \E good \in BOOLEAN :
             call' = [call EXCEPT ![c].pc = "authenticate", ![c].good = good, ![c].again = TRUE]
  <2>1. PICK good \in BOOLEAN :
          call' = [call EXCEPT ![c].pc = "authenticate", ![c].good = good, ![c].again = TRUE]
    BY <1>8
  <2>2. PICK a : a = [b EXCEPT !.pc = "authenticate", !.good = good, !.again = TRUE]
    OBVIOUS
  <2>3. a \in CallRange
    <3>1. "authenticate" \in Pcs
      BY DEF Pcs
    <3> QED BY <1>3, <2>2, <3>1, ZenonT(40) DEF CallRange
  <2>4. /\ a.pc = "authenticate" /\ a.who = b.who /\ a.rows = b.rows /\ a.ran = b.ran
        /\ a.pending = b.pending /\ a.late = b.late /\ a.again = TRUE
        /\ a.status = b.status /\ a.kind = b.kind /\ a.id = b.id /\ a.browser = b.browser
        /\ a.route = b.route /\ a.target = b.target /\ a.could = b.could
        /\ a.charges = b.charges
    BY <1>3, <2>2 DEF CallRange
  <2>5. ClaimOK(a) /\ WhoOK(a)
    BY <1>1, <1>2, <1>3, <2>4 DEF CallOK, ClaimOK, WhoOK
  <2>6. EffectOK(a) /\ HeldOK(a, member, key)
    BY <1>1, <1>2, <1>3, <2>4 DEF CallOK, EffectOK, HeldOK
  <2>7. ChargesOK(a, window)
    BY <1>1, <1>2, <1>3, <2>4 DEF CallOK, ChargesOK
  <2>8. call' = [call EXCEPT ![c] = a]
    BY <1>2, <1>3, <2>1, <2>2
  <2> QED BY <1>5, <2>3, <2>5, <2>6, <2>7, <2>8, OneCall DEF CallOK
<1> QED BY <1>5, <1>7, <1>8 DEF Rotated

-----------------------------------------------------------------------------
\* Taking a person's membership of a project away, giving one or changing its role.
LEMMA Memberships ==
  ASSUME RangesOK, ChangeMembership
  PROVE  member' \in [Users -> Seq(Membership)]
<1>1. PICK u \in Users, p \in Projects, role \in Roles \cup {None} :
        /\ role = None => Place(u, p) # {}
        /\ member' = [member EXCEPT ![u] = Amended(u, p, role)]
  BY DEF ChangeMembership
<1>2. member \in [Users -> Seq(Membership)]
  BY DEF RangesOK
<1>3. PICK m \in Seq(Membership) : m = member[u]
  BY <1>2
<1>4. CASE role = None
  <2>1. PICK i \in DOMAIN m : i = CHOOSE j \in Place(u, p) : TRUE
    BY <1>1, <1>3, <1>4 DEF Place
  <2>2. Amended(u, p, role) = SubSeq(m, 1, i - 1) \o SubSeq(m, i + 1, Len(m))
    BY <1>3, <1>4, <2>1 DEF Amended, RemoveAt
  <2>3. i \in 1 .. Len(m) /\ Len(m) \in Nat
    BY <2>1
  <2>4. SubSeq(m, 1, i - 1) \in Seq(Membership)
    <3>1. \A j \in 1 .. i - 1 : m[j] \in Membership
      BY <1>3, <2>3
    <3> QED BY <1>3, <2>3, <3>1, SubSeqProperties
  <2>5. SubSeq(m, i + 1, Len(m)) \in Seq(Membership)
    <3>1. \A j \in i + 1 .. Len(m) : m[j] \in Membership
      BY <1>3, <2>3
    <3> QED BY <1>3, <2>3, <3>1, SubSeqProperties
  <2>6. Amended(u, p, role) \in Seq(Membership)
    BY <2>2, <2>4, <2>5
  <2> QED BY <1>1, <1>2, <1>4, <2>6
<1>5. CASE role # None
  <2>1. [project |-> p, role |-> role] \in Membership
    BY <1>5 DEF Membership
  <2>2. CASE Place(u, p) = {}
    <3>1. Append(m, [project |-> p, role |-> role]) \in Seq(Membership)
      BY <1>3, <2>1
    <3>2. Amended(u, p, role) = Append(m, [project |-> p, role |-> role])
      BY <1>3, <1>5, <2>2 DEF Amended
    <3> QED BY <1>1, <1>2, <3>1, <3>2
  <2>3. CASE Place(u, p) # {}
    <3>1. PICK n : n = [i \in DOMAIN m |->
                          IF m[i].project = p THEN [project |-> p, role |-> role] ELSE m[i]]
      OBVIOUS
    <3>2. \A i \in DOMAIN m : n[i] \in Membership
      BY <1>3, <2>1, <3>1
    <3>3. n \in [1 .. Len(m) -> Membership] /\ Len(m) \in Nat
      BY <3>1, <3>2
    <3>4. n \in Seq(Membership)
      BY <3>3
    <3>5. Amended(u, p, role) = n
      BY <1>3, <1>5, <2>3, <3>1 DEF Amended
    <3> QED BY <1>1, <1>2, <3>4, <3>5
  <2> QED BY <2>2, <2>3
<1> QED BY <1>4, <1>5

\* What changes around the calls.
LEMMA AroundStep ==
  ASSUME RangesOK, CallsOK, Around
  PROVE  RangesOK' /\ CallsOK'
<1>1. CASE ChangeMembership
  <2>1. PICK m \in [Users -> Seq(Membership)] : m = member'
    BY <1>1, Memberships
  <2>2. /\ call' = Widened(m, key)
        /\ events' \in 0 .. MaxEvents
        /\ UNCHANGED <<key, cookie, window, used, up>>
    BY <1>1, <2>1, LimitAssumption DEF ChangeMembership, RangesOK, limiter
  <2>3. RangesOK'
    BY <2>1, <2>2 DEF RangesOK
  <2>4. \A c \in Calls : CallOK(Widened(m, key)[c], m, key, window)
    BY Widen DEF RangesOK
  <2>5. DOMAIN call' = Calls /\ call' = [c \in Calls |-> call'[c]]
    BY <2>2 DEF Widened
  <2> QED BY <2>1, <2>2, <2>3, <2>4, <2>5 DEF CallsOK
<1>2. CASE KeyExpires
  <2>1. PICK k \in Keys : key' = [key EXCEPT ![k].live = FALSE]
    BY <1>2 DEF KeyExpires
  <2>2. UNCHANGED <<member, cookie, window, used, up, call>> /\ events' \in 0 .. MaxEvents
    BY <1>2, LimitAssumption DEF KeyExpires, RangesOK, limiter
  <2>3. key \in [Keys -> KeyRange]
    BY DEF RangesOK
  <2>4. key' \in [Keys -> KeyRange]
    BY <2>1, <2>3 DEF KeyRange
  <2>5. RangesOK'
    BY <2>2, <2>4 DEF RangesOK
  <2>6. ASSUME NEW c \in Calls
        PROVE  CallOK(call[c], member, key', window)
    <3>1. CallOK(call[c], member, key, window)
      BY DEF CallsOK
    <3>2. CASE call[c].kind = "api_key"
      <4>1. call[c].pc \notin {"unsent", "answered"} => call[c].id \in Keys
        BY <3>1, <3>2 DEF CallOK, ClaimOK
      <4>2. \A i \in Keys : key'[i].live => key[i].live /\ key'[i] = key[i]
        BY <2>1, <2>3 DEF KeyRange
      <4>3. call[c].pc \notin {"unsent", "answered"} =>
              Authority(member, key', "api_key", call[c].id)
                \subseteq Authority(member, key, "api_key", call[c].id)
        BY <4>1, <4>2 DEF Authority
      <4> QED BY <3>1, <3>2, <4>3 DEF CallOK, HeldOK
    <3>3. CASE call[c].kind # "api_key"
      <4>1. call[c].pc \notin {"unsent", "answered"} => call[c].kind = "user"
        BY <3>1, <3>3 DEF CallOK, ClaimOK
      <4>2. Authority(member, key', "user", call[c].id) = Authority(member, key, "user", call[c].id)
        BY DEF Authority
      <4> QED BY <3>1, <4>1, <4>2 DEF CallOK, HeldOK
    <3> QED BY <3>2, <3>3
  <2> QED BY <2>2, <2>5, <2>6 DEF CallsOK
<1>3. CASE BackendFlips
  BY <1>3, LimitAssumption DEF BackendFlips, RangesOK, CallsOK
<1>4. CASE NextWindow
  <2>1. UNCHANGED <<key, member, cookie, up, call>> /\ window' = window + 1
    BY <1>4 DEF NextWindow
  <2>2. RangesOK'
    BY <1>4, LimitAssumption DEF NextWindow, RangesOK
  <2>3. ASSUME NEW c \in Calls
        PROVE  CallOK(call[c], member, key, window + 1)
    <3>1. CallOK(call[c], member, key, window) /\ window \in Nat
      BY DEF CallsOK, RangesOK
    <3>2. PICK s \in Seq(ChargeMade) : s = call[c].charges
      BY <3>1 DEF CallOK, CallRange
    <3>3. \A i \in DOMAIN s : s[i] \in ChargeMade
      OBVIOUS
    <3>4. \A i \in DOMAIN s : s[i].window \in Nat
      BY <3>3 DEF ChargeMade
    <3>5. \A i \in DOMAIN s : s[i].window <= window + 1
      BY <3>1, <3>2, <3>4 DEF CallOK, ChargesOK
    <3> QED BY <3>1, <3>2, <3>5 DEF CallOK, ChargesOK
  <2> QED BY <2>1, <2>2, <2>3 DEF CallsOK
<1> QED BY <1>1, <1>2, <1>3, <1>4 DEF Around

-----------------------------------------------------------------------------
\* What a charge makes of the record of its call.
LEMMA ChargedIs ==
  ASSUME RangesOK, CallsOK, NEW c \in Calls, call[c].pc \in {"charge", "charge_address"}
  PROVE  /\ Charged(c) \in CallRange /\ Entry(c) \in ChargeMade
         /\ Charged(c).charges = Append(call[c].charges, Entry(c))
         /\ Charged(c).pc = IF call[c].who # Nobody /\ Allowed(c) THEN "bind"
                            ELSE IF call[c].browser THEN "returned" ELSE "answered"
         /\ Charged(c).status \in {0, 401, 429}
         /\ Charged(c).who = [call[c].who EXCEPT !.tenant = call[c].who.project]
         /\ Charged(c).rows = call[c].rows /\ Charged(c).ran = call[c].ran
         /\ Charged(c).pending = call[c].pending /\ Charged(c).late = call[c].late
         /\ Charged(c).kind = call[c].kind /\ Charged(c).id = call[c].id
         /\ Charged(c).browser = call[c].browser /\ Charged(c).route = call[c].route
         /\ Charged(c).target = call[c].target /\ Charged(c).could = call[c].could
         /\ Charged(c).again = call[c].again
<1>1. CallOK(call[c], member, key, window)
  BY DEF CallsOK
<1>2. PICK b \in CallRange : b = call[c]
  BY <1>1 DEF CallOK
<1>3. Entry(c) \in ChargeMade
  BY DEF RangesOK, Entry, ChargeMade, Counted, Allowed
<1>4. PICK who \in Who : who = [b.who EXCEPT !.tenant = b.who.project]
  BY <1>2 DEF CallRange, Who
<1>5. PICK charges \in Seq(ChargeMade) : charges = Append(b.charges, Entry(c))
  <2>1. b.charges \in Seq(ChargeMade)
    BY <1>2 DEF CallRange
  <2> QED BY <1>3, <2>1, AppendProperties
<1>6. PICK p \in Pcs : p = IF b.who # Nobody /\ Allowed(c) THEN "bind"
                           ELSE IF b.browser THEN "returned" ELSE "answered"
  BY DEF Pcs
<1>7. PICK s \in Nat : s = IF ~Allowed(c) THEN 429 ELSE IF b.who = Nobody THEN 401 ELSE 0
  OBVIOUS
<1>8. PICK a1 : a1 = [b EXCEPT !.pc = p, !.status = s]
  OBVIOUS
<1>9. PICK a : a = [a1 EXCEPT !.charges = charges, !.who = who]
  OBVIOUS
<1>10. a1 \in CallRange
  <2>1. p \in Pcs /\ s \in Nat
    BY <1>6, <1>7
  <2> QED BY <1>8, <2>1, Recast
<1>11. a \in CallRange
  <2>1. who \in Who /\ charges \in Seq(ChargeMade)
    BY <1>4, <1>5
  <2> QED BY <1>9, <1>10, <2>1 DEF CallRange
<1>12. Charged(c) = a
  BY <1>2, <1>4, <1>5, <1>6, <1>7, <1>8, <1>9 DEF Charged, CallRange
<1>13. /\ a.pc = p /\ a.status = s /\ a.charges = charges /\ a.who = who
       /\ a.rows = b.rows /\ a.ran = b.ran /\ a.pending = b.pending
       /\ a.late = b.late /\ a.kind = b.kind /\ a.id = b.id
       /\ a.browser = b.browser /\ a.route = b.route /\ a.target = b.target
       /\ a.could = b.could /\ a.again = b.again
  BY <1>2, <1>8, <1>9 DEF CallRange
<1> QED BY <1>2, <1>3, <1>4, <1>5, <1>6, <1>7, <1>11, <1>12, <1>13

\* A charge: the call goes on, with the tenant its credential has, or is refused.
LEMMA ChargeStep ==
  ASSUME RangesOK, CallsOK, NEW c \in Calls, Charge(c)
  PROVE  RangesOK' /\ CallsOK'
<1>1. /\ call[c].pc \in {"charge", "charge_address"} /\ UNCHANGED <<account, cookie, window, up>>
      /\ Increment(c) /\ call' = [call EXCEPT ![c] = Charged(c)]
  BY DEF Charge
<1>2. CallOK(call[c], member, key, window)
  BY DEF CallsOK
<1>3. PICK b \in CallRange : b = call[c]
  BY <1>2 DEF CallOK
<1>4. RangesOK' /\ UNCHANGED <<member, key, window>>
  <2>1. Used(c) \in Nat
    BY DEF Used, RangesOK
  <2>2. \A x \in DOMAIN used' : used'[x] \in Nat
    BY <1>1, <2>1 DEF Increment, RangesOK
  <2> QED BY <1>1, <2>2 DEF RangesOK, account
<1>5. PICK a \in CallRange : a = Charged(c)
  BY <1>1, ChargedIs
<1>6. PICK e \in ChargeMade : e = Entry(c)
  BY <1>1, ChargedIs
<1>7. /\ a.charges = Append(b.charges, e)
      /\ a.pc = IF b.who # Nobody /\ Allowed(c) THEN "bind"
                ELSE IF b.browser THEN "returned" ELSE "answered"
      /\ a.status \in {0, 401, 429}
      /\ a.who = [b.who EXCEPT !.tenant = b.who.project]
  BY <1>1, <1>3, <1>5, <1>6, ChargedIs
<1>8. /\ a.rows = b.rows /\ a.ran = b.ran /\ a.pending = b.pending /\ a.late = b.late
      /\ a.kind = b.kind /\ a.id = b.id /\ a.browser = b.browser
      /\ a.route = b.route /\ a.target = b.target /\ a.could = b.could /\ a.again = b.again
  <2>1. call[c].pc \in {"charge", "charge_address"}
    BY <1>1
  <2>2. /\ Charged(c).rows = call[c].rows
        /\ Charged(c).ran = call[c].ran
        /\ Charged(c).kind = call[c].kind
    BY <2>1, ChargedIs, ZenonT(40)
  <2>3. /\ Charged(c).id = call[c].id
        /\ Charged(c).route = call[c].route
        /\ Charged(c).target = call[c].target
    BY <2>1, ChargedIs, ZenonT(40)
  <2>4. /\ Charged(c).could = call[c].could
        /\ Charged(c).pending = call[c].pending
        /\ Charged(c).late = call[c].late
    BY <2>1, ChargedIs, ZenonT(40)
  <2>5. /\ Charged(c).browser = call[c].browser
        /\ Charged(c).again = call[c].again
    BY <2>1, ChargedIs, ZenonT(40)
  <2> QED BY <1>3, <1>5, <2>2, <2>3, <2>4, <2>5
<1>9. b.who \in Who /\ b.kind \in {"user", "api_key"}
  BY <1>1, <1>2, <1>3 DEF CallRange, CallOK, ClaimOK
<1>10. /\ a.who.kind = b.who.kind /\ a.who.id = b.who.id /\ a.who.project = b.who.project
       /\ a.who.may = b.who.may
  BY <1>7, <1>9 DEF Who
<1>11. b.who = Nobody => a.who = Nobody
  <2>1. a.who \in Who
    BY <1>5 DEF CallRange
  <2>2. a.who.tenant = b.who.project
    BY <1>7, <1>9 DEF Who
  <2> QED BY <1>10, <2>1, <2>2 DEF Nobody, Who
<1>12. ClaimOK(a) /\ HeldOK(a, member, key)
  BY <1>1, <1>2, <1>3, <1>7, <1>8 DEF CallOK, ClaimOK, HeldOK
<1>13. EffectOK(a)
  <2>1. b.ran = 0 /\ ~b.pending
    BY <1>1, <1>2, <1>3 DEF CallOK, EffectOK
  <2> QED BY <1>7, <1>8, <2>1 DEF EffectOK
<1>14. WhoOK(a)
  <2>1. CASE b.who = Nobody
    <3>1. a.pc \in {"returned", "answered"}
      BY <1>7, <2>1
    <3> QED BY <1>11, <2>1, <3>1 DEF WhoOK
  <2>2. CASE b.who # Nobody
    <3>1. b.pc = "charge" /\ b.who.kind = b.kind /\ b.who.id = b.id
      BY <1>1, <1>2, <1>3, <2>2 DEF CallOK, WhoOK
    <3>2. a.who # Nobody
      BY <1>9, <1>10, <3>1 DEF Nobody
    <3>3. a.pc \in {"bind", "returned", "answered"}
      BY <1>7
    <3> QED BY <1>2, <1>3, <1>8, <1>10, <3>1, <3>2, <3>3 DEF CallOK, WhoOK
  <2> QED BY <2>1, <2>2
<1>15. ChargesOK(a, window)
  <2>1. PICK s \in Seq(ChargeMade) : s = b.charges
    BY <1>3 DEF CallRange
  <2>2. /\ a.pc \in {"bind", "returned", "answered"}
        /\ Len(s) <= IF a.again THEN 1 ELSE 0
        /\ \A i \in DOMAIN s : s[i].window <= window
    BY <1>1, <1>2, <1>3, <1>7, <1>8, <2>1 DEF CallOK, ChargesOK
  <2>3. /\ Len(Append(s, e)) = Len(s) + 1 /\ Len(s) \in Nat
        /\ \A i \in DOMAIN Append(s, e) : Append(s, e)[i] = IF i = Len(s) + 1 THEN e ELSE s[i]
        /\ DOMAIN Append(s, e) = 1 .. Len(s) + 1 /\ DOMAIN s = 1 .. Len(s)
    BY AppendProperties
  <2>4. e.window <= window
    BY <1>6 DEF Entry, RangesOK
  <2>5. \A i \in DOMAIN Append(s, e) : Append(s, e)[i].window <= window
    BY <2>2, <2>3, <2>4
  <2> QED BY <1>7, <2>1, <2>2, <2>3, <2>5 DEF ChargesOK
<1> QED BY <1>1, <1>4, <1>5, <1>12, <1>13, <1>14, <1>15, OneCall DEF CallOK

-----------------------------------------------------------------------------
\* The requests charged to a credential are finitely many.
LEMMA ChargesFinite ==
  ASSUME NEW kind, NEW id, NEW class, NEW w, NEW allowed
  PROVE  /\ IsFiniteSet(Charges(kind, id, class, w, allowed))
         /\ Cardinality(Charges(kind, id, class, w, allowed)) \in Nat
<1>1. IsFiniteSet({1, 2})
  <2>1. IsFiniteSet({1})
    BY FS_Singleton
  <2>2. {1, 2} = {1} \cup {2}
    OBVIOUS
  <2> QED BY <2>1, <2>2, FS_AddElement
<1>2. IsFiniteSet(Calls \X {1, 2})
  BY <1>1, CallAssumption, FS_Product
<1>3. Charges(kind, id, class, w, allowed) \subseteq Calls \X {1, 2}
  BY DEF Charges
<1> QED BY <1>2, <1>3, FS_Subset, FS_CardinalityType

\* A step that charges nothing: what each credential was charged stays.
Kept ==
  \A d \in Calls :
    /\ call'[d].charges = call[d].charges
    /\ call[d].charges # <<>> =>
         call'[d].kind = call[d].kind /\ call'[d].id = call[d].id /\ call'[d].route = call[d].route

\* Then the sets of charges are what they were.
LEMMA ChargesKept ==
  ASSUME CallsOK, Kept, NEW kind, NEW id, NEW class, NEW w
  PROVE  /\ Charges(kind, id, class, w, TRUE)' = Charges(kind, id, class, w, TRUE)
         /\ Charges(kind, id, class, w, FALSE)' = Charges(kind, id, class, w, FALSE)
<1>1. \A d \in Calls, i \in {1, 2} : i \in DOMAIN call[d].charges => call[d].charges # <<>>
  OBVIOUS
<1> QED BY <1>1 DEF Kept, Charges

\* As long as the window lasts, so do the budgets.
LEMMA BudgetKept ==
  ASSUME CallsOK, BudgetOK, Kept, UNCHANGED <<window, used>>
  PROVE  BudgetOK'
<1> SUFFICES ASSUME NEW kind \in {"user", "api_key"}, NEW id \in Users \cup Keys,
                    NEW class \in Classes, NEW w \in Nat
             PROVE  AccountOK(kind, id, class, w)'
  BY DEF BudgetOK
<1>1. AccountOK(kind, id, class, w)
  BY DEF BudgetOK
<1>2. Tally(kind, id, class)' = Tally(kind, id, class)
  BY DEF Tally
<1>3. /\ Charges(kind, id, class, w, TRUE)' = Charges(kind, id, class, w, TRUE)
      /\ Charges(kind, id, class, w, FALSE)' = Charges(kind, id, class, w, FALSE)
  BY ChargesKept
<1> QED BY <1>1, <1>2, <1>3 DEF AccountOK

\* Every step of a call but its charges, and what happens around the calls, charges nothing.
LEMMA OthersKeep ==
  ASSUME CallsOK, Next, \A c \in Calls : ~Charge(c)
  PROVE  Kept
<1>1. DOMAIN call = Calls /\ \A d \in Calls : {"charges", "kind", "id", "route"} \subseteq DOMAIN call[d]
  BY DEF CallsOK, CallOK, CallRange
<1>2. \A c \in Calls : At(c, "unsent") => call[c].charges = <<>>
  BY DEF CallsOK, CallOK, ClaimOK, At
<1>3. ASSUME NEW c \in Calls, CallDirectly(c) \/ CallFromBrowser(c)
      PROVE  Kept
  <2>1. At(c, "unsent")
    BY <1>3 DEF CallDirectly, CallFromBrowser
  <2>2. /\ \A d \in Calls \ {c} : call'[d] = call[d]
        /\ call'[c].charges = <<>>
    <3>1. CASE \E s \in {401, 403} : Answer(c, s)
      BY <1>1, <1>2, <2>1, <3>1 DEF Answer
    <3>2. CASE \E browser, kind, id, good, route, names, target :
                 Made(c, browser, kind, id, good, route, names, target)
      BY <1>1, <3>2 DEF Made, Unsent
    <3> QED BY <1>3, <3>1, <3>2, ZenonT(40) DEF CallDirectly, CallFromBrowser
  <2> QED BY <1>2, <2>1, <2>2 DEF Kept
<1>4. ASSUME NEW c \in Calls, NEW p, NEW who,
             call' = [call EXCEPT ![c].pc = p, ![c].who = who]
      PROVE  Kept
  BY <1>1, <1>4 DEF Kept
<1>5. ASSUME NEW c \in Calls, NEW s, Reply(c, s)
      PROVE  Kept
  BY <1>1, <1>5 DEF Reply, Kept
<1>6. ASSUME NEW c \in Calls, Authenticate(c)
      PROVE  Kept
  BY <1>4, <1>6 DEF Authenticate
<1>7. ASSUME NEW c \in Calls, Bind(c)
      PROVE  Kept
  BY <1>4, <1>5, <1>7 DEF Bind
<1>8. ASSUME NEW c \in Calls, Run(c)
      PROVE  Kept
  <2>1. PICK b : b = Handled(call[c], Reaches(c))
    OBVIOUS
  <2>2. /\ b.charges = call[c].charges /\ b.kind = call[c].kind /\ b.id = call[c].id
        /\ b.route = call[c].route
    BY <1>1, <2>1 DEF Handled
  <2>3. CASE call' = [call EXCEPT ![c] = b]
    BY <1>1, <2>2, <2>3 DEF Kept
  <2> QED BY <1>8, <1>5, <2>1, <2>3 DEF Run
<1>9. ASSUME NEW c \in Calls, NEW s, Answer(c, s)
      PROVE  Kept
  BY <1>1, <1>9 DEF Answer, Kept
<1>10. ASSUME NEW c \in Calls, Unreachable(c) \/ Return(c) \/ NotRotated(c)
      PROVE  Kept
  <2>1. CASE call' = [call EXCEPT ![c].pc = "refresh"]
    BY <1>1, <2>1 DEF Kept
  <2> QED BY <1>10, <1>9, <2>1 DEF Unreachable, Return, NotRotated
<1>11. ASSUME NEW c \in Calls, Rotated(c)
      PROVE  Kept
  <2>1. ASSUME NEW good \in BOOLEAN,
               call' = [call EXCEPT ![c].pc = "authenticate", ![c].good = good, ![c].again = TRUE]
        PROVE  Kept
    BY <1>1, <2>1 DEF Kept
  <2> QED BY <1>9, <1>11, <2>1 DEF Rotated
<1>12. ASSUME NEW c \in Calls, CommitFails(c) \/ GiveUp(c)
      PROVE  Kept
  BY <1>1, <1>12 DEF CommitFails, GiveUp, Kept
<1>13. ASSUME NEW m, NEW k
      PROVE  /\ DOMAIN Widened(m, k) = Calls
             /\ \A d \in Calls : /\ Widened(m, k)[d].charges = call[d].charges
                                 /\ Widened(m, k)[d].kind = call[d].kind
                                 /\ Widened(m, k)[d].id = call[d].id
                                 /\ Widened(m, k)[d].route = call[d].route
  BY DEF Widened, CallsOK, CallOK, CallRange
<1>14. ASSUME NEW c \in Calls, Commit(c)
      PROVE  Kept
  BY <1>13, <1>14 DEF Commit, Kept
<1>15. CASE Around
  BY <1>13, <1>15 DEF Around, ChangeMembership, KeyExpires, BackendFlips, NextWindow, Kept
<1> QED BY <1>3, <1>8, <1>10, <1>12, <1>14, <1>15, <1>6, <1>7, <1>11 DEF Next, Serve

\* A charge is counted for the credential that was validated, and for no other.
LEMMA ChargeBudget ==
  ASSUME RangesOK, CallsOK, BudgetOK, NEW c \in Calls, Charge(c)
  PROVE  BudgetOK'
<1>1. /\ call[c].pc \in {"charge", "charge_address"} /\ window' = window
      /\ Increment(c) /\ call' = [call EXCEPT ![c] = Charged(c)]
  BY DEF Charge
<1>2. CallOK(call[c], member, key, window) /\ DOMAIN call = Calls
  BY DEF CallsOK
<1>3. PICK b \in CallRange : b = call[c]
  BY <1>2 DEF CallOK
<1>4. PICK e \in ChargeMade : e = Entry(c)
  BY <1>1, ChargedIs
<1>5. PICK s \in Seq(ChargeMade) : s = b.charges
  BY <1>3 DEF CallRange
<1>6. PICK n : n = Len(s) + 1
  OBVIOUS
<1>7. n \in {1, 2} /\ Len(s) \in Nat
  BY <1>1, <1>2, <1>3, <1>5, <1>6 DEF CallOK, ChargesOK
<1>8. /\ \A d \in Calls \ {c} : call'[d] = call[d]
      /\ call'[c].kind = b.kind /\ call'[c].id = b.id /\ call'[c].route = b.route
      /\ call'[c].charges = Append(s, e)
  <2>1. /\ Charged(c).kind = call[c].kind /\ Charged(c).id = call[c].id
        /\ Charged(c).route = call[c].route
    BY <1>1, ChargedIs, ZenonT(40)
  <2>2. Charged(c).charges = Append(call[c].charges, Entry(c))
    BY <1>1, ChargedIs
  <2> QED BY <1>1, <1>2, <1>3, <1>4, <1>5, <2>1, <2>2
<1>9. /\ DOMAIN Append(s, e) = 1 .. n /\ DOMAIN s = 1 .. n - 1
      /\ \A i \in 1 .. n : Append(s, e)[i] = IF i = n THEN e ELSE s[i]
  BY <1>6, <1>7, AppendProperties
<1>10. SUFFICES ASSUME NEW kind \in {"user", "api_key"}, NEW id \in Users \cup Keys,
                       NEW class \in Classes, NEW w \in Nat
                PROVE  AccountOK(kind, id, class, w)'
  BY DEF BudgetOK
<1>11. AccountOK(kind, id, class, w)
  BY DEF BudgetOK
<1> DEFINE Mine(allowed) ==
      /\ e.valid /\ e.counted /\ e.window = w /\ e.allowed = allowed
      /\ b.kind = kind /\ b.id = id /\ Classify(b.route) = class
<1>12. /\ Charges(kind, id, class, w, TRUE)' =
            Charges(kind, id, class, w, TRUE) \cup (IF Mine(TRUE) THEN {<<c, n>>} ELSE {})
       /\ Charges(kind, id, class, w, FALSE)' =
            Charges(kind, id, class, w, FALSE) \cup (IF Mine(FALSE) THEN {<<c, n>>} ELSE {})
  <2>1. \A d \in Calls, i \in {1, 2} : <<d, i>> # <<c, n>> =>
          /\ call'[d].kind = call[d].kind /\ call'[d].id = call[d].id
          /\ call'[d].route = call[d].route
          /\ (i \in DOMAIN call'[d].charges) = (i \in DOMAIN call[d].charges)
          /\ i \in DOMAIN call[d].charges => call'[d].charges[i] = call[d].charges[i]
    BY <1>3, <1>5, <1>7, <1>8, <1>9
  <2>2. n \in DOMAIN call'[c].charges /\ call'[c].charges[n] = e /\ n \notin DOMAIN call[c].charges
    BY <1>3, <1>5, <1>7, <1>8, <1>9
  <2>3. \A d \in Calls, i \in {1, 2} :
          /\ <<d, i>> \in Charges(kind, id, class, w, TRUE)' <=>
                <<d, i>> \in Charges(kind, id, class, w, TRUE) \/ (Mine(TRUE) /\ <<d, i>> = <<c, n>>)
          /\ <<d, i>> \in Charges(kind, id, class, w, FALSE)' <=>
                <<d, i>> \in Charges(kind, id, class, w, FALSE) \/ (Mine(FALSE) /\ <<d, i>> = <<c, n>>)
    BY <1>8, <2>1, <2>2, SMTT(20) DEF Charges
  <2>4. /\ Charges(kind, id, class, w, TRUE)' \subseteq Calls \X {1, 2}
        /\ Charges(kind, id, class, w, FALSE)' \subseteq Calls \X {1, 2}
        /\ Charges(kind, id, class, w, TRUE) \subseteq Calls \X {1, 2}
        /\ Charges(kind, id, class, w, FALSE) \subseteq Calls \X {1, 2}
    BY DEF Charges
  <2> HIDE DEF Mine
  <2>5. ASSUME NEW x \in Calls \X {1, 2}
        PROVE  /\ x \in Charges(kind, id, class, w, TRUE)' <=>
                     x \in Charges(kind, id, class, w, TRUE) \/ (Mine(TRUE) /\ x = <<c, n>>)
               /\ x \in Charges(kind, id, class, w, FALSE)' <=>
                     x \in Charges(kind, id, class, w, FALSE) \/ (Mine(FALSE) /\ x = <<c, n>>)
    <3>1. PICK d \in Calls, i \in {1, 2} : x = <<d, i>>
      OBVIOUS
    <3> QED BY <2>3, <3>1
  <2>6. <<c, n>> \in Calls \X {1, 2}
    BY <1>7
  <2>7. Charges(kind, id, class, w, TRUE)' =
          Charges(kind, id, class, w, TRUE) \cup (IF Mine(TRUE) THEN {<<c, n>>} ELSE {})
    BY <2>4, <2>5, <2>6
  <2>8. Charges(kind, id, class, w, FALSE)' =
          Charges(kind, id, class, w, FALSE) \cup (IF Mine(FALSE) THEN {<<c, n>>} ELSE {})
    BY <2>4, <2>5, <2>6
  <2> QED BY <2>7, <2>8
<1>13. <<c, n>> \notin Charges(kind, id, class, w, TRUE)
  BY <1>3, <1>5, <1>7, <1>9 DEF Charges
<1>14. PICK T \in Nat : T = Cardinality(Charges(kind, id, class, w, TRUE))
  BY ChargesFinite
<1>15. /\ Mine(TRUE) => Cardinality(Charges(kind, id, class, w, TRUE)') = T + 1
       /\ ~Mine(TRUE) => Cardinality(Charges(kind, id, class, w, TRUE)') = T
  <2>1. IsFiniteSet(Charges(kind, id, class, w, TRUE))
    BY ChargesFinite
  <2> HIDE DEF Mine
  <2> QED BY <1>12, <1>13, <1>14, <2>1, FS_AddElement
<1>16. PICK L \in Nat : L = Limit[class]
  BY LimitAssumption DEF Classes
<1>17. Limit[class] \in Nat
  BY LimitAssumption DEF Classes
<1>18. /\ L > 0 => T <= L
       /\ Charges(kind, id, class, w, FALSE) # {} => T = L
       /\ w = window /\ L > 0 =>
            T = IF Tally(kind, id, class) < L THEN Tally(kind, id, class) ELSE L
  BY <1>11, <1>14, <1>16 DEF AccountOK
<1>19. Tally(kind, id, class) \in Nat
  BY DEF Tally, RangesOK
<1>20. e.valid = (b.who # Nobody) /\ e.window = window /\ e.counted = Counted(c) /\ e.allowed = Allowed(c)
  BY <1>3, <1>4 DEF Entry
<1>21. b.who # Nobody => b.who.kind = b.kind /\ b.who.id = b.id
  BY <1>2, <1>3 DEF CallOK, WhoOK
<1>22. CASE /\ b.who # Nobody /\ Counted(c)
            /\ b.kind = kind /\ b.id = id /\ Classify(b.route) = class
  <2>1. Budget(c) = <<<<kind, id>>, class>>
    BY <1>3, <1>21, <1>22 DEF Budget
  <2>2. Used(c) = Tally(kind, id, class) /\ L > 0
    BY <1>16, <1>22, <2>1 DEF Used, Tally, Counted
  <2>3. Tally(kind, id, class)' = Tally(kind, id, class) + 1
    BY <1>1, <1>22, <2>1, <2>2 DEF Increment, Tally
  <2>4. Allowed(c) <=> Tally(kind, id, class) + 1 <= L
    BY <1>16, <1>22, <2>1, <2>2 DEF Allowed
  <2>5. /\ Mine(TRUE) <=> (w = window /\ Allowed(c))
        /\ Mine(FALSE) <=> (w = window /\ ~Allowed(c))
    BY <1>20, <1>22 DEF Allowed
  <2>6. PICK t \in Nat : t = Tally(kind, id, class)
    BY <1>19
  <2>7. CASE w # window
    <3>1. ~Mine(TRUE) /\ ~Mine(FALSE)
      BY <2>5, <2>7
    <3> HIDE DEF Mine
    <3> QED BY <1>1, <1>12, <1>15, <1>16, <1>18, <2>7, <3>1 DEF AccountOK
  <2>8. CASE w = window /\ Allowed(c)
    <3>1. Mine(TRUE) /\ ~Mine(FALSE)
      BY <2>5, <2>8
    <3>2. T = t /\ t + 1 <= L
      BY <1>18, <2>2, <2>4, <2>6, <2>8
    <3>3. T # L
      BY <3>2
    <3>4. Charges(kind, id, class, w, FALSE) = {}
      BY <1>18, <3>3
    <3> HIDE DEF Mine
    <3>5. /\ Cardinality(Charges(kind, id, class, w, TRUE)') = T + 1
          /\ Charges(kind, id, class, w, FALSE)' = {}
      BY <1>12, <1>15, <3>1, <3>4
    <3>6. T + 1 \in Nat
      OBVIOUS
    <3>7. PICK T1 \in Nat : T1 = T + 1
      BY <3>6
    <3>8. /\ Tally(kind, id, class)' = T1 /\ T1 <= L
      BY <2>3, <2>6, <3>2, <3>7
    <3>9. /\ Cardinality(Charges(kind, id, class, w, TRUE)') = T1
      BY <3>5, <3>7
    <3>10. Cardinality(Charges(kind, id, class, w, TRUE)') <= Limit[class]
      BY <1>16, <3>8, <3>9
    <3>11. Cardinality(Charges(kind, id, class, w, TRUE)') =
             IF Tally(kind, id, class)' < Limit[class] THEN Tally(kind, id, class)'
             ELSE Limit[class]
      <4>1. T1 = IF T1 < L THEN T1 ELSE L
        BY <3>8
      <4> QED BY <1>16, <3>8, <3>9, <4>1
    <3>12. Charges(kind, id, class, w, FALSE)' = {}
      BY <3>5
    <3> QED BY <3>10, <3>11, <3>12 DEF AccountOK
  <2>9. CASE w = window /\ ~Allowed(c)
    <3>1. ~Mine(TRUE)
      BY <2>5, <2>9
    <3>2. T = L /\ t + 1 > L
      BY <1>18, <2>2, <2>4, <2>6, <2>9
    <3> HIDE DEF Mine
    <3>3. Cardinality(Charges(kind, id, class, w, TRUE)') = T
      BY <1>15, <3>1
    <3>4. ~(Tally(kind, id, class)' < L)
      BY <2>3, <2>6, <3>2
    <3>5. Cardinality(Charges(kind, id, class, w, TRUE)') = L
      BY <3>2, <3>3
    <3>6. L <= L
      OBVIOUS
    <3>7. Cardinality(Charges(kind, id, class, w, TRUE)') <= L
      BY <3>5, <3>6
    <3>8. Cardinality(Charges(kind, id, class, w, TRUE)') <= Limit[class]
      BY <1>16, <3>7
    <3> QED BY <1>16, <1>17, <3>4, <3>5, <3>8 DEF AccountOK
  <2> QED BY <2>7, <2>8, <2>9
<1>23. CASE ~(/\ b.who # Nobody /\ Counted(c)
              /\ b.kind = kind /\ b.id = id /\ Classify(b.route) = class)
  <2>1. ~Mine(TRUE) /\ ~Mine(FALSE)
    BY <1>20, <1>23
  <2>2. Tally(kind, id, class)' = Tally(kind, id, class)
    <3>1. CASE ~Counted(c)
      BY <1>1, <3>1 DEF Increment, Tally
    <3>2. CASE Counted(c)
      <4>1. Budget(c) # <<<<kind, id>>, class>>
        BY <1>3, <1>21, <1>23, <3>2 DEF Budget, Address
      <4> QED BY <1>1, <3>2, <4>1 DEF Increment, Tally
    <3> QED BY <3>1, <3>2
  <2> HIDE DEF Mine
  <2>3. /\ Cardinality(Charges(kind, id, class, w, TRUE)') = T
        /\ Charges(kind, id, class, w, FALSE)' = Charges(kind, id, class, w, FALSE)
    BY <1>12, <1>15, <2>1
  <2> QED BY <1>1, <1>16, <1>18, <2>2, <2>3 DEF AccountOK
<1> QED BY <1>22, <1>23

\* A new window starts with counters at nothing and with nothing charged in it.
LEMMA WindowBudget ==
  ASSUME RangesOK, CallsOK, BudgetOK, Next, NextWindow
  PROVE  BudgetOK'
<1>1. Kept /\ window' = window + 1 /\ window \in Nat /\ used' = [b \in {} |-> 0]
  BY DEF NextWindow, Kept, RangesOK
<1> SUFFICES ASSUME NEW kind \in {"user", "api_key"}, NEW id \in Users \cup Keys,
                    NEW class \in Classes, NEW w \in Nat
             PROVE  AccountOK(kind, id, class, w)'
  BY DEF BudgetOK
<1>2. /\ Charges(kind, id, class, w, TRUE)' = Charges(kind, id, class, w, TRUE)
      /\ Charges(kind, id, class, w, FALSE)' = Charges(kind, id, class, w, FALSE)
  BY <1>1, ChargesKept
<1>3. AccountOK(kind, id, class, w)
  BY DEF BudgetOK
<1>4. CASE w # window'
  BY <1>2, <1>3, <1>4 DEF AccountOK
<1>5. CASE w = window'
  <2>1. Tally(kind, id, class)' = 0
    BY <1>1 DEF Tally
  <2>2. Charges(kind, id, class, w, TRUE) = {} /\ Charges(kind, id, class, w, FALSE) = {}
    <3>1. \A d \in Calls : \A i \in DOMAIN call[d].charges : call[d].charges[i].window \in Nat
      <4>1. ASSUME NEW d \in Calls, NEW i \in DOMAIN call[d].charges
            PROVE  call[d].charges[i].window \in Nat
        <5>1. call[d].charges \in Seq(ChargeMade)
          BY DEF CallsOK, CallOK, CallRange
        <5>2. call[d].charges[i] \in ChargeMade
          BY <5>1
        <5> QED BY <5>2 DEF ChargeMade
      <4> QED BY <4>1
    <3>2. \A d \in Calls : \A i \in DOMAIN call[d].charges : call[d].charges[i].window <= window
      BY DEF CallsOK, CallOK, ChargesOK
    <3>3. \A d \in Calls : \A i \in DOMAIN call[d].charges : call[d].charges[i].window # w
      BY <1>1, <1>5, <3>1, <3>2
    <3> QED BY <3>3 DEF Charges
  <2>3. Cardinality(Charges(kind, id, class, w, TRUE)') = 0
    BY <1>2, <2>2, FS_EmptySet
  <2>4. PICK L \in Nat : L = Limit[class]
    BY LimitAssumption DEF Classes
  <2>5. 0 <= L /\ (L > 0 => 0 = IF 0 < L THEN 0 ELSE L)
    OBVIOUS
  <2> QED BY <1>2, <2>1, <2>2, <2>3, <2>4, <2>5 DEF AccountOK
<1> QED BY <1>4, <1>5

-----------------------------------------------------------------------------
\* Every step preserves the invariant.
LEMMA Inductive ==
  ASSUME IInv, [Next]_vars
  PROVE  IInv'
<1>1. CASE UNCHANGED vars
  <2>1. RangesOK'
    BY <1>1 DEF vars, IInv, RangesOK
  <2>2. CallsOK'
    BY <1>1 DEF vars, IInv, CallsOK
  <2>3. Kept /\ UNCHANGED <<window, used>>
    BY <1>1 DEF vars, Kept
  <2> QED BY <2>1, <2>2, <2>3, BudgetKept DEF IInv
<1>2. CASE Next
  <2>1. RangesOK' /\ CallsOK'
    BY <1>2, Directly, FromBrowser, Authenticated, ChargeStep, BindStep, RunStep, ReturnStep,
       RotatedStep, NotRotatedStep, UnreachableStep, CommitStep, CommitFailsStep, GiveUpStep, AroundStep
       DEF IInv, Next, Serve
  <2>2. CASE \E c \in Calls : Charge(c)
    BY <2>1, <2>2, ChargeBudget DEF IInv
  <2>3. CASE \A c \in Calls : ~Charge(c)
    <3>1. Kept
      BY <1>2, <2>3, OthersKeep DEF IInv
    <3>2. CASE NextWindow
      BY <1>2, <2>1, <3>2, WindowBudget DEF IInv
    <3>3. CASE ~NextWindow
      <4>1. UNCHANGED <<window, used>>
        <5>1. \A c \in Calls : Serve(c) => UNCHANGED <<window, used>>
          BY <2>3 DEF Serve, Authenticate, Bind, Run, Unreachable, Return, Rotated, NotRotated, limiter
        <5>2. \A c \in Calls : CallDirectly(c) \/ CallFromBrowser(c) => UNCHANGED <<window, used>>
          BY ZenonT(40) DEF CallDirectly, CallFromBrowser, limiter
        <5>3. \A c \in Calls :
                Commit(c) \/ CommitFails(c) \/ GiveUp(c) => UNCHANGED <<window, used>>
          BY DEF Commit, CommitFails, GiveUp, limiter
        <5>4. Around => UNCHANGED <<window, used>>
          BY <3>3 DEF Around, ChangeMembership, KeyExpires, BackendFlips, limiter
        <5> QED BY <1>2, <5>1, <5>2, <5>4, <5>3 DEF Next
      <4> QED BY <2>1, <3>1, <4>1, BudgetKept DEF IInv
    <3> QED BY <3>2, <3>3
  <2> QED BY <2>1, <2>2, <2>3 DEF IInv
<1> QED BY <1>1, <1>2

\* At the start nobody has called, and each person has the one membership.
LEMMA Initially == Init => IInv
<1> SUFFICES ASSUME Init PROVE IInv
  OBVIOUS
<1>1. CallsOK
  BY UnsentOK DEF Init, CallsOK
<1>2. RangesOK
  <2>1. PICK s \in Starts :
          /\ member = [u \in Users |-> <<[project |-> First, role |-> s.role]>>]
          /\ key = [k \in Keys |-> [project |-> s.project, scope |-> s.scope,
                                    live |-> k = FirstKey, minted |-> k = FirstKey]]
          /\ cookie = s.cookie
    BY DEF Init
  <2>2. /\ First \in Projects /\ s.role \in Roles /\ s.project \in Projects
        /\ s.scope \in Scopes /\ s.cookie \in Session \cup {None}
    BY StartAssumption
  <2>3. key \in [Keys -> KeyRange]
    BY <2>1, <2>2 DEF KeyRange
  <2>4. PICK m \in Membership : m = [project |-> First, role |-> s.role]
    BY <2>2 DEF Membership
  <2>5. member = [u \in Users |-> <<m>>] /\ <<m>> \in Seq(Membership)
    BY <2>1, <2>4
  <2>6. member \in [Users -> Seq(Membership)]
    BY <2>5
  <2> QED BY <2>1, <2>2, <2>3, <2>6, LimitAssumption DEF Init, RangesOK
<1>3. BudgetOK
  <2> SUFFICES ASSUME NEW kind \in {"user", "api_key"}, NEW id \in Users \cup Keys,
                      NEW class \in Classes, NEW w \in Nat
               PROVE  AccountOK(kind, id, class, w)
    BY DEF BudgetOK
  <2>1. \A d \in Calls : call[d].charges = <<>>
    BY DEF Init, Unsent
  <2>2. Charges(kind, id, class, w, TRUE) = {} /\ Charges(kind, id, class, w, FALSE) = {}
    BY <2>1 DEF Charges
  <2>3. Tally(kind, id, class) = 0
    BY DEF Init, Tally
  <2>4. PICK L \in Nat : L = Limit[class]
    BY LimitAssumption DEF Classes
  <2>5. 0 <= L /\ (L > 0 => 0 = IF 0 < L THEN 0 ELSE L)
    OBVIOUS
  <2> QED BY <2>2, <2>3, <2>4, <2>5, FS_EmptySet DEF AccountOK
<1> QED BY <1>1, <1>2, <1>3 DEF IInv

\* The invariant holds in every reachable state.
THEOREM InductiveInvariant == Spec => []IInv
BY Initially, Inductive, PTL DEF Spec

\* Every variable stays in its range.
THEOREM TypeCorrect == Spec => []TypeOK
<1>1. IInv => TypeOK
  <2> SUFFICES ASSUME IInv PROVE TypeOK
    OBVIOUS
  <2>1. \A d \in Calls : call[d] \in CallRange
    BY DEF IInv, CallsOK, CallOK
  <2>2. call \in [Calls -> CallRange]
    BY <2>1 DEF IInv, CallsOK
  <2> QED BY <2>2 DEF IInv, RangesOK, TypeOK
<1> QED BY <1>1, InductiveInvariant, PTL

\* A call does nothing to a project in which its caller never held the permission while it
\* was in flight, and a refused call does nothing (resolve_project, bind_project,
\* revoke_api_key).
THEOREM ActedWithinAuthority == Spec => []ActsWithinAuthority
<1>1. IInv => ActsWithinAuthority
  <2> SUFFICES ASSUME IInv, NEW c \in Calls
               PROVE  /\ call[c].ran > 0 =>
                           \A p \in call[c].rows \cup {call[c].who.project} :
                             <<p, Needs(call[c].route)>> \in call[c].could
                      /\ call[c].ran = (IF call[c].status = 200 THEN 1 ELSE 0) \/ call[c].late
    BY DEF ActsWithinAuthority
  <2>1. EffectOK(call[c]) /\ call[c] \in CallRange
    BY DEF IInv, CallsOK, CallOK
  <2> QED BY <2>1 DEF EffectOK
<1> QED BY <1>1, InductiveInvariant, PTL

\* A credential's budget is spent by its own validated requests, and never exceeded
\* (get_principal, RateLimiter.check).
THEOREM BudgetsArePerCredential == Spec => []BudgetIsPerCredential
<1>1. IInv => BudgetIsPerCredential
  <2> SUFFICES ASSUME IInv, NEW c \in Calls, NEW w \in 0 .. MaxEvents, ~At(c, "unsent")
               PROVE  LET class == Classify(call[c].route)
                          through(allowed) ==
                            Cardinality(Charges(call[c].kind, call[c].id, class, w, allowed))
                      IN  /\ Limit[class] > 0 => through(TRUE) <= Limit[class]
                          /\ through(FALSE) > 0 => through(TRUE) = Limit[class]
    BY DEF BudgetIsPerCredential
  <2>1. CallOK(call[c], member, key, window)
    BY DEF IInv, CallsOK
  <2>2. PICK kind : kind = call[c].kind
    OBVIOUS
  <2>3. PICK id : id = call[c].id
    OBVIOUS
  <2>4. PICK class \in Classes : class = Classify(call[c].route)
    BY DEF Classify, Classes
  <2>5. w \in Nat
    BY LimitAssumption
  <2>6. PICK L \in Nat : L = Limit[class]
    BY LimitAssumption DEF Classes
  <2>7. CASE kind = "none"
    <3>1. \A d \in Calls : call[d].kind = kind => call[d].charges = <<>>
      BY <2>7 DEF IInv, CallsOK, CallOK, ClaimOK
    <3>2. \A allowed \in BOOLEAN : Charges(kind, id, class, w, allowed) = {}
      BY <3>1 DEF Charges
    <3>3. /\ Cardinality(Charges(kind, id, class, w, TRUE)) = 0
          /\ Cardinality(Charges(kind, id, class, w, FALSE)) = 0
      BY <3>2, FS_EmptySet
    <3>4. 0 <= L /\ ~(0 > 0)
      OBVIOUS
    <3> QED BY <2>2, <2>3, <2>4, <2>6, <3>3, <3>4
  <2>8. CASE kind # "none"
    <3>1. kind \in {"user", "api_key"} /\ id \in Users \cup Keys
      BY <2>1, <2>2, <2>3, <2>8 DEF CallOK, ClaimOK
    <3>2. AccountOK(kind, id, class, w)
      BY <2>5, <3>1 DEF IInv, BudgetOK
    <3>3. Cardinality(Charges(kind, id, class, w, FALSE)) > 0 => Charges(kind, id, class, w, FALSE) # {}
      <4>1. Cardinality({}) = 0 /\ ~(0 > 0)
        BY FS_EmptySet
      <4> QED BY <4>1
    <3> QED BY <2>2, <2>3, <2>4, <3>2, <3>3 DEF AccountOK
  <2> QED BY <2>7, <2>8
<1> QED BY <1>1, InductiveInvariant, PTL
===============================================================================
