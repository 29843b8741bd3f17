----------------------------- MODULE AuthTokens -----------------------------
(***************************************************************************)
(* The sessions of one dashboard account: AuthService (login, refresh,     *)
(* logout) over the refresh tokens Redis knows, and apiFetch of the        *)
(* dashboard, which renews a session when a request is answered 401.       *)
(*                                                                         *)
(* An access token and a refresh token are made, stored and cleared as a   *)
(* pair, so a pair is one number.  localStorage is shared by the calls of  *)
(* a browser; the hub's handler stops at every await.                      *)
(***************************************************************************)
EXTENDS Integers, FiniteSets, Sequences

CONSTANTS
    Browsers,
    AllCalls,   \* calls of apiFetch, <<browser, call>>: as many as it may have
                \* under way at a time
    None,
    Faults,
    MaxPairs    \* bound: token pairs made

\* "lost":       answers get lost, the hub dies.
\* "expire":     refresh tokens reach the end of their seven days.
\* "deactivate": an administrator deactivates and reactivates the account.
ASSUME AuthAssumption ==
    /\ \A f \in AllCalls : f[1] \in Browsers
    /\ Faults \subseteq {"lost", "expire", "deactivate"}
    /\ MaxPairs \in Nat /\ None \notin Nat

VARIABLES
    active,     \* dashboard_users.is_active
    pairs,      \* history: of each pair made the login it goes back to, which is
                \* the first pair it was given
    registry,   \* refresh tokens in Redis
    stored,     \* localStorage of a browser: the pair, or None
    pc, tok,    \* where a call is; the pair it works with
    due,        \* history: the login of a browser, if nothing but requests and
                \* renewals happened to it since; or None
    crossed     \* history: logins of which two renewals were under way at a time

hubVars == <<active, pairs, registry>>
vars == <<hubVars, stored, pc, tok, due, crossed>>

InHub == {"get", "del", "find", "login", "set"}
Renewing == {"get", "del", "find", "set"}
Pair == 1..Len(pairs)
Root(n) == pairs[n]

Init ==
    /\ active = TRUE
    /\ pairs = <<>>
    /\ registry = {}
    /\ stored = [b \in Browsers |-> None]
    /\ pc = [f \in AllCalls |-> "idle"]
    /\ tok = [f \in AllCalls |-> None]
    /\ due = [b \in Browsers |-> None]
    /\ crossed = {}

TypeOK ==
    /\ active \in BOOLEAN
    /\ pairs \in Seq(Nat) /\ Len(pairs) <= MaxPairs /\ \A n \in Pair : Root(n) \in 1..n
    /\ registry \subseteq Pair
    /\ stored \in [Browsers -> Pair \cup {None}]
    /\ pc \in [AllCalls -> InHub \cup {"idle", "stale", "granted", "refused"}]
    /\ tok \in [AllCalls -> Pair \cup {None}]
    /\ due \in [Browsers -> Pair \cup {None}] /\ crossed \subseteq Pair
    /\ \A f \in AllCalls : pc[f] \in Renewing \cup {"stale", "granted"} => tok[f] # None

Forgive(bs) == due' = [b \in Browsers |-> IF b \in bs THEN None ELSE due[b]]
\* A call goes on to a stage, with a pair or with none.
Goto(f, label, n) ==
    /\ pc' = [pc EXCEPT ![f] = label]
    /\ tok' = [tok EXCEPT ![f] = n]
At(f, labels) == pc[f] \in labels
Idle(b) == \A f \in AllCalls : f[1] = b => pc[f] = "idle"

-----------------------------------------------------------------------------
\* The dashboard.

\* AuthService.login up to the making of tokens: findByEmail, is_active, bcrypt.
Login(f) ==
    /\ At(f, {"idle"}) /\ stored[f[1]] = None /\ active
    /\ Goto(f, "login", None)
    /\ UNCHANGED <<hubVars, stored, due, crossed>>

\* A request of apiFetch with the stored access token is answered 401 by
\* authenticateJWT.  (One that is let through changes nothing here.)
Begin(f) ==
    /\ At(f, {"idle"}) /\ stored[f[1]] # None
    /\ Goto(f, "stale", stored[f[1]])
    /\ UNCHANGED <<hubVars, stored, due, crossed>>

\* Another call renews the login of pair n, and has not saved its answer.
Renews(n) == \E f \in AllCalls : At(f, Renewing \cup {"granted"}) /\ Root(tok[f]) = Root(n)

\* refreshAccessToken sends pair n; the history of renewals under way together.
SendPair(f, n) ==
    /\ Goto(f, IF n = None THEN "idle" ELSE "get", n)
    /\ crossed' = IF n # None /\ Renews(n) THEN crossed \cup {Root(n)} ELSE crossed
    /\ UNCHANGED <<hubVars, stored, due>>

\* Variants (bugs a run must notice): nothing in localStorage is sent too; the
\* pair the request was sent with is used, not what is stored by now.
SendRefreshUnchecked(f) ==
    /\ At(f, {"stale"})
    /\ Goto(f, "get", stored[f[1]])
    /\ UNCHANGED <<hubVars, stored, due, crossed>>
SendRefreshBegun(f) == At(f, {"stale"}) /\ SendPair(f, tok[f])

\* refreshAccessToken: what is in localStorage by now.
SendRefresh(f) == At(f, {"stale"}) /\ SendPair(f, stored[f[1]])

\* saveAuthData.  The request is repeated and its answer is final, 401 or not.  A
\* login counts when no renewal of an earlier one can still store or clear
\* something.
Save(f) ==
    /\ At(f, {"granted"})
    /\ Goto(f, "idle", None)
    /\ stored' = [stored EXCEPT ![f[1]] = tok[f]]
    /\ LET alone == \A g \in AllCalls : g[1] = f[1] /\ g # f => ~At(g, Renewing \cup {"granted", "refused"})
       IN  due' = IF Root(tok[f]) # tok[f] THEN due
                  ELSE [due EXCEPT ![f[1]] = IF active /\ alone /\ tok[f] \in registry THEN tok[f] ELSE None]
    /\ UNCHANGED <<hubVars, crossed>>

\* clearAuthData and the login page.
Clear(f) ==
    /\ At(f, {"refused"})
    /\ Goto(f, "idle", None)
    /\ stored' = [stored EXCEPT ![f[1]] = None]
    /\ UNCHANGED <<hubVars, due, crossed>>

\* The user logs out: POST /auth/logout goes without a body, is answered 400,
\* and the dashboard clears what it has stored.
Logout(b) ==
    /\ stored[b] # None
    /\ stored' = [stored EXCEPT ![b] = None]
    /\ Forgive({b})
    /\ UNCHANGED <<hubVars, pc, tok, crossed>>

\* A client that sends its refresh token with POST /auth/logout.
Revoke(b) ==
    /\ stored[b] # None
    /\ registry' = registry \ {stored[b]}
    /\ stored' = [stored EXCEPT ![b] = None]
    /\ Forgive({b})
    /\ UNCHANGED <<active, pairs, pc, tok, crossed>>

-----------------------------------------------------------------------------
\* AuthService.refresh, from await to await.

Get(f) ==
    /\ At(f, {"get"})
    /\ \/ tok[f] \in registry /\ Goto(f, "del", tok[f])
       \/ tok[f] \notin registry /\ Goto(f, "refused", None)
    /\ UNCHANGED <<hubVars, stored, due, crossed>>

\* Variant (a bug a run must notice): the old token stays.
SpentKept(n) == {}

Spent(n) == {n}

Del(f) ==
    /\ At(f, {"del"})
    /\ registry' = registry \ Spent(tok[f])
    /\ Goto(f, "find", tok[f])
    /\ UNCHANGED <<active, pairs, stored, due, crossed>>

FindUser(f) ==
    /\ At(f, {"find"})
    /\ \/ active /\ Goto(f, "set", tok[f])
       \/ ~active /\ Goto(f, "refused", None)
    /\ UNCHANGED <<hubVars, stored, due, crossed>>

\* generateTokenPair: the new refresh token is registered, then answered.
Set(f) ==
    /\ At(f, {"login", "set"}) /\ Len(pairs) < MaxPairs
    /\ LET n == Len(pairs) + 1
       IN  /\ pairs' = Append(pairs, IF tok[f] = None THEN n ELSE Root(tok[f]))
           /\ registry' = registry \cup {n}
           /\ Goto(f, "granted", n)
    /\ UNCHANGED <<active, stored, due, crossed>>

-----------------------------------------------------------------------------
\* Time, administrators, failures.

\* The Redis key and the JWT end together.
RefreshExpires ==
    /\ "expire" \in Faults
    /\ \E n \in registry : registry' = registry \ {n}
    /\ Forgive(Browsers)
    /\ UNCHANGED <<active, pairs, stored, pc, tok, crossed>>

\* PUT /api/users/:userId.
SetActive ==
    /\ "deactivate" \in Faults
    /\ active' = ~active
    /\ Forgive(Browsers)
    /\ UNCHANGED <<pairs, registry, stored, pc, tok, crossed>>

\* fetch throws: the request or the answer is lost.  A login stores nothing
\* then, a renewal clears what is stored.
LoseLogin(f) ==
    /\ "lost" \in Faults /\ At(f, {"granted"}) /\ Root(tok[f]) = tok[f]
    /\ Goto(f, "idle", None)
    /\ UNCHANGED <<hubVars, stored, due, crossed>>
LoseRenewal(f) ==
    /\ "lost" \in Faults
    /\ \/ At(f, {"stale"}) /\ stored[f[1]] # None
       \/ At(f, {"granted"}) /\ Root(tok[f]) # tok[f]
    /\ Goto(f, "idle", None)
    /\ stored' = [stored EXCEPT ![f[1]] = None]
    /\ Forgive({f[1]})
    /\ UNCHANGED <<hubVars, crossed>>

\* The hub dies with its handlers wherever they are.
HubRestart ==
    /\ "lost" \in Faults /\ \E f \in AllCalls : At(f, InHub)
    /\ pc' = [f \in AllCalls |-> IF At(f, Renewing) THEN "refused" ELSE IF At(f, {"login"}) THEN "idle" ELSE pc[f]]
    /\ tok' = [f \in AllCalls |-> IF At(f, InHub) THEN None ELSE tok[f]]
    /\ Forgive({f[1] : f \in {g \in AllCalls : At(g, Renewing)}})
    /\ UNCHANGED <<hubVars, stored, crossed>>

-----------------------------------------------------------------------------
Call(f) ==
    \/ SendRefresh(f) \/ Save(f) \/ Clear(f)
    \/ Get(f) \/ Del(f) \/ FindUser(f) \/ Set(f)

Next ==
    \/ \E f \in AllCalls : Login(f) \/ Begin(f) \/ Call(f) \/ LoseLogin(f) \/ LoseRenewal(f)
    \/ \E b \in Browsers : Logout(b) \/ Revoke(b)
    \/ RefreshExpires \/ SetActive \/ HubRestart

Spec == Init /\ [][Next]_vars

-----------------------------------------------------------------------------
\* A login has at most one refresh token that still works, whatever answers
\* are lost, wherever the hub stops and however many calls of its browser go
\* on, unless two renewals of it were under way at a time: then each of them
\* may be granted a pair, and one is stored by nobody.
OneLivePerLogin ==
    \A m, n \in registry : Root(m) = Root(n) => m = n \/ Root(m) \in crossed

\* Of a browser that logged in, and since then did not log out, lose an answer,
\* outlive the token or get deactivated, however many calls of it went on: what
\* it has stored can be renewed.  It has nothing stored, and its user has to
\* log in again, only if two renewals of the login were under way at a time.
SessionSurvives ==
    \A b \in Browsers : due[b] # None /\ Idle(b) =>
        stored[b] \in registry \/ (stored[b] = None /\ due[b] \in crossed)
=============================================================================
