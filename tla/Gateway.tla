------------------------------ MODULE Gateway ------------------------------
(***************************************************************************)
(* The way of a request: the dashboard's proxy (apps/web), then the API's  *)
(* dependencies, which resolve the credential, charge its budget, set the  *)
(* tenant of the transaction, bind a project and ask for a permission,     *)
(* then the handler.  What a handler does is only to read the rows of the  *)
(* bound project, or to mint or revoke a key.  A call is made once; two    *)
(* calls interleave at every statement.  Each project is its own           *)
(* organisation's, and memberships are in the order they were created.     *)
(***************************************************************************)
EXTENDS Naturals, FiniteSets, Sequences, SequencesExt

CONSTANTS Calls, Users, Keys, Projects, None,
          First, FirstKey,   \* where the person is a member; the key there is
          Starts,       \* [role, project, scope, cookie] to start from
          Limit,        \* Limit[class], the requests a window allows; 0: no limit
          Enforced,     \* the database role is subject to row level security
          MaxEvents     \* bound: changes of the surroundings and calls given up

Roles == {"viewer", "admin"}
Scopes == {"ingest", "read"}
Session == [user : Users, good : BOOLEAN]
Membership == [project : Projects, role : Roles]
KeyRange == [project : Projects, scope : Scopes, live : BOOLEAN, minted : BOOLEAN]

ASSUME CallAssumption == IsFiniteSet(Calls) /\ None \notin Users \cup Keys \cup Projects
ASSUME StartAssumption ==
  /\ First \in Projects
  /\ \A s \in Starts : /\ s.role \in Roles /\ s.project \in Projects /\ s.scope \in Scopes
                       /\ s.cookie \in Session \cup {None}
ASSUME LimitAssumption == Limit \in [{"ingest", "read", "write", "auth"} -> Nat] /\ MaxEvents \in Nat

VARIABLES key,          \* [Keys -> [project, scope, live, minted]]
          member,       \* [Users -> sequence of [project, role]]
          cookie,       \* the browser's access token: [user, good], or None
          window, used, up,   \* the limiter's clock, counters and backend
          events,
          call

vars == <<key, member, cookie, window, used, up, events, call>>
account == <<key, member, events>>
limiter == <<window, used, up>>

-----------------------------------------------------------------------------
(* The permission matrix, for the permissions the routes below ask for.     *)
RolePermissions(role) ==
  CASE role = "viewer" -> {"project.read"}
    [] role = "admin"  -> {"project.read", "trace.ingest", "keys.manage"}

ScopePermissions(scope) ==
  CASE scope = "ingest" -> {"trace.ingest"}
    [] scope = "read"   -> {"project.read"}

(* A route: what it asks for and how it finds the project.  "bound" takes    *)
(* the key's or an optional ?project_id, "key" the key's only, "path" a      *)
(* signed-in user's by the id in its path.                                   *)
Routes == {"traces", "ingest", "mint", "revoke"}
Needs(route) ==
  CASE route = "traces" -> "project.read"
    [] route = "ingest" -> "trace.ingest"
    [] OTHER            -> "keys.manage"
Scoping(route) ==
  CASE route = "traces" -> "bound"
    [] route = "ingest" -> "key"
    [] OTHER            -> "path"
Classify(route) ==
  CASE route = "ingest" -> "ingest" [] route = "traces" -> "read" [] OTHER -> "write"

(* checkProxyRequest: ingestion is not for browsers.                         *)
Proxied(route) == route # "ingest"
(* filterQuery: project_id is not among the parameters passed on.            *)
Forwarded(route, names) == IF Scoping(route) = "bound" THEN None ELSE names

-----------------------------------------------------------------------------
Nobody == [kind |-> "none", id |-> None, project |-> None, may |-> {}, tenant |-> None]

(* The projects and permissions a caller has at this moment.                 *)
Authority(m, k, kind, id) ==
  IF kind = "user"
    THEN UNION {{m[id][i].project} \X RolePermissions(m[id][i].role) : i \in DOMAIN m[id]}
    ELSE IF k[id].live THEN {k[id].project} \X ScopePermissions(k[id].scope) ELSE {}

Unsent == [pc |-> "unsent", browser |-> FALSE, kind |-> "none", id |-> None, good |-> FALSE,
           route |-> None, names |-> None, target |-> None, again |-> FALSE, late |-> FALSE,
           status |-> 0, who |-> Nobody, charges |-> <<>>, rows |-> {},
           pending |-> FALSE, ran |-> 0, could |-> {}]

At(c, pc) == call[c].pc = pc
Answer(c, status) == call' = [call EXCEPT ![c].pc = "answered", ![c].status = status]

InFlight(c) == call[c].pc \notin {"unsent", "answered"}

(* A person in one organisation, a key for one of its projects or another's.  *)
Init ==
  /\ \E s \in Starts :
       /\ member = [u \in Users |-> <<[project |-> First, role |-> s.role]>>]
       /\ key = [k \in Keys |-> [project |-> s.project, scope |-> s.scope,
                                 live |-> k = FirstKey, minted |-> k = FirstKey]]
       /\ cookie = s.cookie
  /\ window = 0 /\ used = [x \in {} |-> 0] /\ up = TRUE /\ events = 0
  /\ call = [c \in Calls |-> Unsent]

-----------------------------------------------------------------------------
(* A program calls the API with a key, whose secret may be wrong, or with a  *)
(* session's token, which may have expired.                                  *)
Wellformed(route, names, target) ==
  /\ names = None => Scoping(route) # "path"
  /\ Scoping(route) = "key" => names = None
  /\ (target # None) = (route \in {"mint", "revoke"})
  /\ route = "revoke" => key[target].minted
  /\ route = "mint" => ~key[target].minted /\ \A c \in Calls : call[c].target # target

Made(c, browser, kind, id, good, route, names, target) ==
  call' = [call EXCEPT ![c] =
    [Unsent EXCEPT !.pc = "authenticate", !.browser = browser, !.kind = kind, !.id = id,
                   !.good = good, !.route = route, !.names = names, !.target = target,
                   !.could = Authority(member, key, kind, id)]]

CallDirectly(c) ==
  \E route \in Routes, names \in Projects \cup {None}, target \in Keys \cup {None}, good \in BOOLEAN :
    /\ At(c, "unsent") /\ Wellformed(route, names, target)
    /\ ~good => route = "traces" /\ names = None    \* the rest is not looked at
    /\ \/ \E u \in Users : Made(c, FALSE, "user", u, good, route, names, target)
       \/ \E k \in Keys : key[k].minted /\ Made(c, FALSE, "api_key", k, good, route, names, target)
    /\ UNCHANGED <<account, cookie, limiter>>

(* The browser's call, through the proxy: the policy, then the session.      *)
CallFromBrowser(c) ==
  \E route \in Routes, names \in Projects \cup {None}, target \in Keys \cup {None} :
    /\ At(c, "unsent") /\ Wellformed(route, names, target)
    /\ IF ~Proxied(route) THEN Answer(c, 403)
       ELSE IF cookie = None THEN Answer(c, 401)
       ELSE Made(c, TRUE, "user", cookie.user, cookie.good, route, Forwarded(route, names), target)
    /\ UNCHANGED <<account, cookie, limiter>>

-----------------------------------------------------------------------------
(* get_principal.  The API has answered a request: a program has its answer, *)
(* the proxy goes on with it.                                                *)
Reply(c, status) ==
  call' = [call EXCEPT ![c].pc = IF call[c].browser THEN "returned" ELSE "answered",
                       ![c].status = status]

Resolved(c) ==
  IF call[c].kind = "user"
    THEN [Nobody EXCEPT !.kind = "user", !.id = call[c].id]
    ELSE LET k == key[call[c].id]
         IN  [kind |-> "api_key", id |-> call[c].id, project |-> k.project,
              may |-> ScopePermissions(k.scope), tenant |-> None]

Authenticate(c) ==
  /\ At(c, "authenticate")
  /\ LET usable == call[c].good /\ (call[c].kind = "api_key" => key[call[c].id].live)
     IN  call' = [call EXCEPT ![c].pc = IF usable THEN "charge" ELSE "charge_address",
                              ![c].who = IF usable THEN Resolved(c) ELSE Nobody]
  /\ UNCHANGED <<account, cookie, limiter>>

(* RateLimiter.check: the window's counter of a bucket and a class, unless   *)
(* the class has no limit or the backend is out of reach.                    *)
Address(c) == <<"ip", IF call[c].browser THEN "dashboard" ELSE "program">>

\* Mutant: the budget is that of the credential presented, validated or not.
BugBudget(c) == <<<<call[c].kind, call[c].id>>, Classify(call[c].route)>>
Budget(c) ==
  IF call[c].who = Nobody THEN <<Address(c), "auth">>
  ELSE <<<<call[c].who.kind, call[c].who.id>>, Classify(call[c].route)>>

Counted(c) == Limit[Budget(c)[2]] > 0 /\ up
Used(c) == IF Budget(c) \in DOMAIN used THEN used[Budget(c)] ELSE 0
Allowed(c) == Counted(c) => Used(c) + 1 <= Limit[Budget(c)[2]]
Increment(c) ==
  used' = IF Counted(c)
            THEN [b \in DOMAIN used \cup {Budget(c)} |-> IF b = Budget(c) THEN Used(c) + 1 ELSE used[b]]
            ELSE used

Entry(c) == [valid |-> call[c].who # Nobody, window |-> window,
             counted |-> Counted(c), allowed |-> Allowed(c)]

Charged(c) ==
  [call[c] EXCEPT
     !.pc = IF call[c].who # Nobody /\ Allowed(c) THEN "bind"
            ELSE IF call[c].browser THEN "returned" ELSE "answered",
     !.status = IF ~Allowed(c) THEN 429 ELSE IF call[c].who = Nobody THEN 401 ELSE 0,
     !.charges = Append(@, Entry(c)),
     !.who.tenant = call[c].who.project]

Charge(c) ==
  /\ call[c].pc \in {"charge", "charge_address"}
  /\ Increment(c)
  /\ call' = [call EXCEPT ![c] = Charged(c)]
  /\ UNCHANGED <<account, cookie, window, up>>

-----------------------------------------------------------------------------
(* bind_project, resolve_project, _require: the project and the permissions. *)
Place(u, p) == {i \in DOMAIN member[u] : member[u][i].project = p}
Role(u, p) == member[u][CHOOSE i \in Place(u, p) : TRUE].role

In(c, p) == [call[c].who EXCEPT !.project = p, !.may = RolePermissions(Role(call[c].who.id, p))]

(* bind_project for a key.  Mutant: the project named is the one bound.      *)
BugBindKey(c) ==
  IF call[c].names = None THEN call[c].who ELSE [call[c].who EXCEPT !.project = call[c].names]
BindKey(c) ==
  IF call[c].names \in {None, call[c].who.project} THEN call[c].who ELSE Nobody

(* The project named, or the earliest; membership decides either way.        *)
BindUser(c) ==
  LET u == call[c].who.id
      p == IF call[c].names # None THEN call[c].names
           ELSE IF member[u] = <<>> THEN None ELSE member[u][1].project
  IN  IF Place(u, p) = {} THEN Nobody ELSE In(c, p)

Bound(c) ==
  IF Scoping(call[c].route) = "key" THEN call[c].who
  ELSE IF call[c].who.kind = "user" THEN BindUser(c) ELSE BindKey(c)

Forbidden(c, who) ==
  \/ Scoping(call[c].route) = "path" /\ call[c].who.kind = "api_key"
  \/ who.project = None
  \/ Needs(call[c].route) \notin who.may

Bind(c) ==
  /\ At(c, "bind")
  /\ LET who == Bound(c)
     IN  IF Scoping(call[c].route) = "path" /\ call[c].who.kind = "api_key" THEN Reply(c, 403)
         ELSE IF who = Nobody THEN Reply(c, 404)
         ELSE IF Forbidden(c, who) THEN Reply(c, 403)
         ELSE call' = [call EXCEPT ![c].pc = "run", ![c].who = who]
  /\ UNCHANGED <<account, cookie, limiter>>

-----------------------------------------------------------------------------
(* The handler.  A row is found by the query's predicate on the project and  *)
(* the database's on the tenant.                                             *)
Visible(who) == {p \in {who.project} : Enforced => p = who.tenant}

Reaches(c) ==
  CASE call[c].route = "mint"   -> {call[c].who.project}
    [] call[c].route = "revoke" -> {key[call[c].target].project}
    [] OTHER                    -> Visible(call[c].who)

Missing(c) == call[c].route = "revoke" /\ key[call[c].target].project # call[c].who.project

Handled(a, reached) ==
  [a EXCEPT !.pc = IF a.browser THEN "returned" ELSE "answered", !.status = 200,
            !.rows = reached, !.ran = @ + 1, !.pending = a.target # None]

(* The session's commit is the exit of a dependency, which the framework     *)
(* runs when the answer has been sent: another request may come before it,   *)
(* and it may fail.                                                          *)
Run(c) ==
  /\ At(c, "run")
  /\ IF Missing(c) THEN Reply(c, 404)
     ELSE call' = [call EXCEPT ![c] = Handled(call[c], Reaches(c))]
  /\ UNCHANGED <<account, cookie, limiter>>

Stored(c) ==
  LET k == call[c].target
  IN  IF call[c].route = "revoke" THEN [key EXCEPT ![k].live = FALSE]
      ELSE [key EXCEPT ![k].project = call[c].who.project, ![k].live = TRUE, ![k].minted = TRUE]

(* What calls in flight could have done at some moment since they were made. *)
Widened(m, k) ==
  [c \in Calls |-> IF InFlight(c)
     THEN [call[c] EXCEPT !.could = @ \cup Authority(m, k, call[c].kind, call[c].id)] ELSE call[c]]

Commit(c) ==
  /\ call[c].pending
  /\ key' = Stored(c)
  /\ call' = [Widened(member, key') EXCEPT ![c].pending = FALSE]
  /\ UNCHANGED <<member, events, cookie, limiter>>

CommitFails(c) ==
  /\ call[c].pending
  /\ call' = [call EXCEPT ![c].pending = FALSE]
  /\ UNCHANGED <<account, cookie, limiter>>

-----------------------------------------------------------------------------
(* Back in the proxy: one refresh and one retry.  When the 30 seconds are    *)
(* over, or the connection is lost, the API may still be at work, but nothing *)
(* more is sent; 504 stands for either (a lost connection answers 502).      *)
GiveUp(c) ==
  /\ InFlight(c) /\ call[c].browser /\ ~call[c].late
  /\ events < MaxEvents /\ events' = events + 1
  /\ call' = [call EXCEPT ![c].late = TRUE]
  /\ UNCHANGED <<key, member, cookie, limiter>>

(* The request, or its retry, never reaches the API.                         *)
Unreachable(c) ==
  /\ At(c, "authenticate") /\ call[c].browser
  /\ Answer(c, 502)
  /\ UNCHANGED <<account, cookie, limiter>>

Refreshes(c) == call[c].status = 401 /\ ~call[c].again

Return(c) ==
  /\ At(c, "returned")
  /\ IF call[c].late THEN Answer(c, 504)
     ELSE IF Refreshes(c) THEN call' = [call EXCEPT ![c].pc = "refresh"]
     ELSE Answer(c, call[c].status)
  /\ UNCHANGED <<account, cookie, limiter>>

(* refreshSession (Sessions models the API's side).  The account may have    *)
(* been deactivated by the time the new token is shown.                      *)
Rotated(c) ==
  /\ At(c, "refresh")
  /\ cookie' = [user |-> call[c].id, good |-> TRUE]
  /\ IF call[c].late THEN Answer(c, 504)
     ELSE \E good \in BOOLEAN :
            call' = [call EXCEPT ![c].pc = "authenticate", ![c].good = good, ![c].again = TRUE]
  /\ UNCHANGED <<account, limiter>>

(* Refused or unreachable: null either way, and the session is cleared.      *)
NotRotated(c) ==
  /\ At(c, "refresh")
  /\ cookie' = None
  /\ Answer(c, IF call[c].late THEN 504 ELSE 401)
  /\ UNCHANGED <<account, limiter>>

-----------------------------------------------------------------------------
(* Around the calls: memberships change, credentials expire, a window ends,  *)
(* the limiter's backend goes and comes back.                                *)
\* A person has at most one membership of a project; None takes it away.
Amended(u, p, role) ==
  LET m == member[u]
  IN  IF role = None THEN RemoveAt(m, CHOOSE i \in Place(u, p) : TRUE)
      ELSE IF Place(u, p) = {} THEN Append(m, [project |-> p, role |-> role])
      ELSE [i \in DOMAIN m |-> IF m[i].project = p THEN [project |-> p, role |-> role] ELSE m[i]]

ChangeMembership ==
  \E u \in Users, p \in Projects, role \in Roles \cup {None} :
    /\ role = None => Place(u, p) # {}
    /\ events < MaxEvents /\ events' = events + 1
    /\ member' = [member EXCEPT ![u] = Amended(u, p, role)]
    /\ member' # member
    /\ call' = Widened(member', key)
    /\ UNCHANGED <<key, cookie, limiter>>

KeyExpires ==
  \E k \in Keys :
    /\ key[k].live
    /\ events < MaxEvents /\ events' = events + 1
    /\ key' = [key EXCEPT ![k].live = FALSE]
    /\ UNCHANGED <<member, cookie, limiter, call>>

BackendFlips ==
  /\ events < MaxEvents /\ events' = events + 1
  /\ up' = ~up
  /\ UNCHANGED <<key, member, cookie, window, used, call>>

NextWindow ==
  /\ events < MaxEvents /\ events' = events + 1
  /\ window' = window + 1
  /\ used' = [b \in {} |-> 0]
  /\ UNCHANGED <<key, member, cookie, up, call>>

Serve(c) ==
  \/ Authenticate(c) \/ Charge(c) \/ Bind(c) \/ Run(c)
  \/ Unreachable(c) \/ Return(c) \/ Rotated(c) \/ NotRotated(c)

Around == ChangeMembership \/ KeyExpires \/ BackendFlips \/ NextWindow

Next ==
  \/ \E c \in Calls :
       CallDirectly(c) \/ CallFromBrowser(c) \/ Serve(c) \/ Commit(c) \/ CommitFails(c) \/ GiveUp(c)
  \/ Around

Spec == Init /\ [][Next]_vars

-----------------------------------------------------------------------------
(* Every variable stays in its range.                                        *)
Permissions == {"project.read", "trace.ingest", "keys.manage"}
Pcs == {"unsent", "authenticate", "charge", "charge_address", "bind", "run", "returned", "refresh",
        "answered"}
Who == [kind : {"none", "user", "api_key"}, id : Users \cup Keys \cup {None},
        project : Projects \cup {None}, may : SUBSET Permissions, tenant : Projects \cup {None}]
ChargeMade == [valid : BOOLEAN, window : Nat, counted : BOOLEAN, allowed : BOOLEAN]
CallRange ==
  [pc : Pcs, browser : BOOLEAN, kind : {"none", "user", "api_key"}, id : Users \cup Keys \cup {None},
   good : BOOLEAN, route : Routes \cup {None}, names : Projects \cup {None},
   target : Keys \cup {None}, again : BOOLEAN, late : BOOLEAN, status : Nat, who : Who,
   charges : Seq(ChargeMade), rows : SUBSET Projects, pending : BOOLEAN, ran : Nat,
   could : SUBSET (Projects \X Permissions)]

TypeOK ==
  /\ key \in [Keys -> KeyRange]
  /\ member \in [Users -> Seq(Membership)]
  /\ cookie \in Session \cup {None}
  /\ window \in Nat /\ up \in BOOLEAN /\ events \in 0 .. MaxEvents
  /\ \A b \in DOMAIN used : used[b] \in Nat
  /\ call \in [Calls -> CallRange]

(* What a call does, it does to projects in which its caller held the        *)
(* permission at some moment since the call was made, whatever project the   *)
(* request named and however roles and keys changed meanwhile; and a call    *)
(* that was refused has done nothing (dependencies.py: resolve_project,      *)
(* bind_project; accounts.py: _project_for_user, revoke_api_key).            *)
ActsWithinAuthority ==
  \A c \in Calls :
    /\ call[c].ran > 0 =>
         \A p \in call[c].rows \cup {call[c].who.project} : <<p, Needs(call[c].route)>> \in call[c].could
    /\ call[c].ran = (IF call[c].status = 200 THEN 1 ELSE 0) \/ call[c].late

(* "Failed credentials are counted against the caller's address, not against *)
(* the credential they claimed": a credential is refused for its budget only *)
(* when its own validated requests have used it, and never gets more of them *)
(* through in a window (dependencies.py: get_principal; ratelimit.py: check).*)
Charges(kind, id, class, w, allowed) ==
  {e \in Calls \X {1, 2} :
     LET a == call[e[1]]
         x == a.charges[e[2]]
     IN  /\ a.kind = kind /\ a.id = id /\ Classify(a.route) = class
         /\ e[2] \in DOMAIN a.charges
         /\ x.valid /\ x.counted /\ x.window = w /\ x.allowed = allowed}

BudgetIsPerCredential ==
  \A c \in Calls, w \in 0 .. MaxEvents :
    LET class == Classify(call[c].route)
        through(allowed) == Cardinality(Charges(call[c].kind, call[c].id, class, w, allowed))
    IN  At(c, "unsent") \/
        /\ Limit[class] > 0 => through(TRUE) <= Limit[class]
        /\ through(FALSE) > 0 => through(TRUE) = Limit[class]

(* bind_project gives "a signed-in user a project to act in"; a reader who   *)
(* is let in sees the project's rows.  Violated where row level security     *)
(* applies: the tenant was set before the project was bound.                 *)
BoundReadersSeeTheirRows ==
  \A c \in Calls :
    call[c].status = 200 /\ call[c].route = "traces" => call[c].rows = {call[c].who.project}

(* A key that was handed out is good.  Violated: it may be used before the   *)
(* transaction that made it has committed.                                   *)
MintedKeyExists ==
  \A c \in Calls : call[c].status = 200 /\ call[c].route = "mint" => key[call[c].target].minted
=============================================================================
