------------------------------ MODULE Accounts ------------------------------
(***************************************************************************)
(* Accounts, what belongs to them, and who may touch it: the middlewares   *)
(* authenticateJWT, requireRole and requireServerOwnership, the routes of  *)
(* users, servers and installers, and the tables dashboard_users, servers  *)
(* and install_tokens with their foreign keys.                             *)
(*                                                                         *)
(* A request runs from await to await, so that accounts and servers come   *)
(* and go between the check of a permission and the query it was for.      *)
(* Lists are taken whole (no page, no search); the two queries of a list   *)
(* are one.  A host runs the script of an install token and registers as a *)
(* server; Registration has what can go wrong there.                       *)
(***************************************************************************)
EXTENDS Naturals, FiniteSets

CONSTANTS
    Users,          \* ids of dashboard_users: one is used once
    Emails,
    Servers,        \* ids of servers, likewise
    Tokens,         \* install tokens, likewise
    Requests,       \* requests that are under way at a time
    None,
    Seeded, SeededEmail,    \* the administrator the seed makes
    Asked           \* what requests ask for

Roles == {"admin", "user"}

\* The body of PUT /api/users/:userId; None: left out.
Patches == [role : Roles \cup {None}, active : BOOLEAN \cup {None}]

Ops ==
    [do : {"listUsers", "listServers", "script"}]
      \cup [do : {"createUser"}, email : Emails, role : Roles]
      \cup [do : {"updateUser"}, user : Users, patch : Patches]
      \cup [do : {"deleteUser"}, user : Users]
      \cup [do : {"getServer", "deleteServer"}, server : Servers]

AdminOps == {"listUsers", "createUser", "updateUser", "deleteUser"}
ServerOps == {"getServer", "deleteServer"}

ASSUME AccountsAssumption ==
    /\ Seeded \in Users /\ SeededEmail \in Emails
    /\ None \notin Roles /\ None \notin BOOLEAN
    /\ None \notin Users /\ None \notin Tokens /\ None \notin Ops
    /\ Asked \subseteq Ops

VARIABLES
    users, servers, tokens, \* the tables: account, owner, owner and use by id
    made,                   \* ids ever given to a row
    req,                    \* the requests
    held,                   \* history: the roles the user of a request had, the
                            \* account being active, since the request began
    host, job               \* what the host that runs the script of a token does;
                            \* the owner handleAgentAuth has read for it

tables == <<users, servers, tokens, made>>
hosts == <<host, job>>
vars == <<tables, req, held, hosts>>

Account == [email : Emails, role : Roles, active : BOOLEAN]

Ends == {"ok", "refused", "error"}
Request ==
    [by : Users,
     op : Ops \cup {None},           \* None once it is answered
     at : {"auth", "own", "check", "query", "audit"} \cup Ends,
     role : Roles \cup {None},       \* req.user.role
     shown : SUBSET Users,           \* owners of the rows in the answer
     token : Tokens \cup {None}]     \* the install token made

TypeOK ==
    /\ DOMAIN users \subseteq Users /\ users \in [DOMAIN users -> Account]
    /\ DOMAIN servers \subseteq Servers /\ servers \in [DOMAIN servers -> Users]
    /\ DOMAIN tokens \subseteq Tokens
    /\ tokens \in [DOMAIN tokens -> [owner : Users, used : BOOLEAN]]
    /\ made \in [users : SUBSET Users, servers : SUBSET Servers, tokens : SUBSET Tokens]
    /\ DOMAIN users \subseteq made.users
    /\ DOMAIN servers \subseteq made.servers
    /\ DOMAIN tokens \subseteq made.tokens
    /\ req \in [Requests -> Request]
    /\ \A r \in Requests : req[r].op = None <=> req[r].at \in Ends
    /\ held \in [Requests -> SUBSET Roles]
    /\ host \in [Tokens -> {"none", "installed", "insert", "mark"}]
    /\ job \in [Tokens -> made.users \cup {None}]
    /\ \A t \in Tokens : host[t] = "insert" => job[t] # None

\* A request that has not been used counts as answered.
Init ==
    /\ users = [u \in {Seeded} |-> [email |-> SeededEmail, role |-> "admin", active |-> TRUE]]
    /\ servers = [s \in {} |-> Seeded]
    /\ tokens = [t \in {} |-> [owner |-> Seeded, used |-> FALSE]]
    /\ made = [users |-> {Seeded}, servers |-> {}, tokens |-> {}]
    /\ req = [r \in Requests |-> [by |-> Seeded, op |-> None, at |-> "ok", role |-> None,
                                  shown |-> {}, token |-> None]]
    /\ held = [r \in Requests |-> {}]
    /\ host = [t \in Tokens |-> "none"]
    /\ job = [t \in Tokens |-> None]

-----------------------------------------------------------------------------
\* Tables.

\* The row x of a table set to a value, and a table without the rows xs.
Put(table, x, row) == [y \in DOMAIN table \cup {x} |-> IF y = x THEN row ELSE table[y]]
Without(table, xs) == [y \in DOMAIN table \ xs |-> table[y]]

RolesIn(accounts, u) ==
    IF u \in DOMAIN accounts /\ accounts[u].active = TRUE THEN {accounts[u].role} ELSE {}

\* The accounts become these: requests under way may have a role more.
SetUsers(accounts) ==
    /\ users' = accounts
    /\ held' = [r \in Requests |-> IF req[r].at \in Ends THEN held[r]
                                   ELSE held[r] \cup RolesIn(accounts, req[r].by)]

Keep == UNCHANGED <<users, held>>

\* ON DELETE CASCADE.
ServersGone(u) == {s \in DOMAIN servers : servers[s] = u}
TokensGone(u) == {t \in DOMAIN tokens : tokens[t].owner = u}

-----------------------------------------------------------------------------
\* Requests.

At(r, stage) == req[r].at = stage
Does(r, ops) == req[r].op.do \in ops
Goto(r, stage) == req' = [req EXCEPT ![r].at = stage]
Answer(r, end, owners) ==
    req' = [req EXCEPT ![r] = [@ EXCEPT !.op = None, !.at = end, !.role = None, !.shown = owners]]
End(r, end) == Answer(r, end, {})

\* Bound: an id is left for whatever is under way.
IdsLeft(do, ids, used) ==
    Cardinality(used) + Cardinality({r \in Requests : req[r].op # None /\ Does(r, {do})})
        < Cardinality(ids)

\* Somebody who has, or had, an account sends a request.
Begin(r, u, o) ==
    /\ req[r].at \in Ends /\ u \in made.users
    /\ o.do = "createUser" => IdsLeft("createUser", Users, made.users)
    /\ o.do = "script" => IdsLeft("script", Tokens, made.tokens)
    /\ req' = [req EXCEPT ![r] = [by |-> u, op |-> o, at |-> "auth", role |-> None,
                                  shown |-> {}, token |-> None]]
    /\ held' = [held EXCEPT ![r] = RolesIn(users, u)]
    /\ UNCHANGED <<tables, hosts>>

\* Variant (a bug a run must notice): deactivated accounts get in.
AdmittedAny(u) == u \in DOMAIN users

\* authenticateJWT ...
Admitted(u) == u \in DOMAIN users /\ users[u].active = TRUE

\* ... and requireRole.
Allowed(o, role) == o.do \in AdminOps => role = "admin"

FirstStage(o) ==
    CASE o.do = "createUser" -> "check"
      [] o.do \in ServerOps -> "own"
      [] OTHER -> "query"

Authenticate(r) ==
    LET u == req[r].by  o == req[r].op IN
    /\ At(r, "auth")
    /\ IF Admitted(u) /\ Allowed(o, users[u].role)
         THEN req' = [req EXCEPT ![r].role = users[u].role, ![r].at = FirstStage(o)]
         ELSE End(r, "refused")
    /\ UNCHANGED <<tables, held, hosts>>

MayUse(r, s) ==
    s \in DOMAIN servers /\ (req[r].role = "admin" \/ servers[s] = req[r].by)

\* requireServerOwnership; GET /:serverId answers with the row it has read.
CheckOwner(r) ==
    LET s == req[r].op.server IN
    /\ At(r, "own")
    /\ IF ~MayUse(r, s) THEN End(r, "refused")
       ELSE IF Does(r, {"getServer"}) THEN Answer(r, "ok", {servers[s]})
       ELSE Goto(r, "query")
    /\ UNCHANGED <<tables, held, hosts>>

\* Everything for administrators, the user's own for others.
Visible(r) == {s \in DOMAIN servers : req[r].role = "admin" \/ servers[s] = req[r].by}

List(r) ==
    /\ At(r, "query")
    /\ \/ Does(r, {"listUsers"}) /\ Answer(r, "ok", DOMAIN users)
       \/ Does(r, {"listServers"}) /\ Answer(r, "ok", {servers[s] : s \in Visible(r)})
    /\ UNCHANGED <<tables, held, hosts>>

\* The row may be gone by now: it is answered 200 all the same.
DeleteServer(r) ==
    /\ At(r, "query") /\ Does(r, {"deleteServer"})
    /\ servers' = Without(servers, {req[r].op.server})
    /\ End(r, "ok")
    /\ Keep /\ UNCHANGED <<tokens, made, hosts>>

-----------------------------------------------------------------------------
\* Accounts.

Taken(email) == \E u \in DOMAIN users : users[u].email = email

\* findByEmail; the password is hashed before the row is inserted.
CheckEmail(r) ==
    /\ At(r, "check")
    /\ IF Taken(req[r].op.email) THEN End(r, "refused") ELSE Goto(r, "query")
    /\ UNCHANGED <<tables, held, hosts>>

\* UNIQUE of the column email.
Conflict(email) == Taken(email)

CreateUser(r) ==
    LET o == req[r].op IN
    /\ At(r, "query") /\ Does(r, {"createUser"})
    /\ \/ /\ Conflict(o.email)
          /\ End(r, "error")
          /\ Keep /\ UNCHANGED made
       \/ \E u \in Users \ made.users :
            /\ ~Conflict(o.email)
            /\ SetUsers(Put(users, u, [email |-> o.email, role |-> o.role, active |-> TRUE]))
            /\ made' = [made EXCEPT !.users = @ \cup {u}]
            /\ End(r, "ok")
    /\ UNCHANGED <<servers, tokens, hosts>>

\* Variant (a bug a run must notice): what the body leaves out becomes NULL.
OrNull(new, old) == new

\* COALESCE: what the body leaves out stays.
Or(new, old) == IF new = None THEN old ELSE new

UpdateUser(r) ==
    LET u == req[r].op.user  p == req[r].op.patch IN
    /\ At(r, "query") /\ Does(r, {"updateUser"})
    /\ \/ u \notin DOMAIN users /\ End(r, "refused") /\ Keep
       \/ /\ u \in DOMAIN users
          /\ SetUsers(Put(users, u, [email |-> users[u].email, role |-> Or(p.role, users[u].role),
                                     active |-> Or(p.active, users[u].active)]))
          /\ End(r, "ok")
    /\ UNCHANGED <<servers, tokens, made, hosts>>

DeleteUser(r) ==
    LET u == req[r].op.user IN
    /\ At(r, "query") /\ Does(r, {"deleteUser"})
    /\ \/ u \notin DOMAIN users /\ End(r, "refused") /\ Keep /\ UNCHANGED <<servers, tokens>>
       \/ /\ u \in DOMAIN users
          /\ SetUsers(Without(users, {u}))
          /\ servers' = Without(servers, ServersGone(u))
          /\ tokens' = Without(tokens, TokensGone(u))
          /\ End(r, "ok")
    /\ UNCHANGED <<made, hosts>>

-----------------------------------------------------------------------------
\* Install tokens and the hosts that use them.

\* POST /script: the token, if the account is still there for its key.  No
\* transaction holds it together with what follows ...
InsertToken(r) ==
    /\ At(r, "query") /\ Does(r, {"script"})
    /\ \/ /\ req[r].by \notin DOMAIN users
          /\ End(r, "error") /\ UNCHANGED <<tokens, made>>
       \/ \E t \in Tokens \ made.tokens :
            /\ req[r].by \in DOMAIN users
            /\ tokens' = Put(tokens, t, [owner |-> req[r].by, used |-> FALSE])
            /\ made' = [made EXCEPT !.tokens = @ \cup {t}]
            /\ req' = [req EXCEPT ![r].at = "audit", ![r].token = t]
    /\ Keep /\ UNCHANGED <<servers, hosts>>

\* ... the template, which may be missing or unreadable, and the row of
\* audit_logs, which names the user too and may fail like any query.
Audit(r) ==
    /\ At(r, "audit")
    /\ \/ req[r].by \in DOMAIN users /\ End(r, "ok")
       \/ End(r, "error")
    /\ UNCHANGED <<tables, held, hosts>>

Usable(t) == t \in DOMAIN tokens /\ ~tokens[t].used

\* GET /run/:token, and the script starts an agent with the token.
Download(t) ==
    /\ host[t] = "none" /\ Usable(t)
    /\ host' = [host EXCEPT ![t] = "installed"]
    /\ UNCHANGED <<tables, req, held, job>>

\* handleAgentAuth: the token is read ...
ReadToken(t) ==
    /\ host[t] = "installed" /\ Usable(t)
    /\ host' = [host EXCEPT ![t] = "insert"]
    /\ job' = [job EXCEPT ![t] = tokens[t].owner]
    /\ UNCHANGED <<tables, req, held>>

\* Variant (a bug a run must notice): servers without REFERENCES.
KeysHoldAlways(t) == TRUE

\* The keys of the new row, owner_id and install_token_id.
KeysHold(t) == job[t] \in DOMAIN users /\ t \in DOMAIN tokens

\* ... the server inserted, or not when its keys are gone ...
InsertServer(t) ==
    /\ host[t] = "insert"
    /\ \/ /\ ~KeysHold(t)
          /\ host' = [host EXCEPT ![t] = "installed"] /\ UNCHANGED <<servers, made>>
       \/ \E s \in Servers \ made.servers :
            /\ KeysHold(t)
            /\ servers' = Put(servers, s, job[t])
            /\ made' = [made EXCEPT !.servers = @ \cup {s}]
            /\ host' = [host EXCEPT ![t] = "mark"]
    /\ UNCHANGED <<users, tokens, req, held, job>>

\* ... and the token marked.
MarkUsed(t) ==
    /\ host[t] = "mark"
    /\ tokens' = IF t \in DOMAIN tokens THEN [tokens EXCEPT ![t].used = TRUE] ELSE tokens
    /\ host' = [host EXCEPT ![t] = "none"]
    /\ UNCHANGED <<users, servers, made, req, held, job>>

-----------------------------------------------------------------------------
Handle(r) ==
    \/ Authenticate(r) \/ CheckOwner(r) \/ List(r) \/ DeleteServer(r)
    \/ CheckEmail(r) \/ CreateUser(r) \/ UpdateUser(r) \/ DeleteUser(r)
    \/ InsertToken(r) \/ Audit(r)

Next ==
    \/ \E r \in Requests : Handle(r) \/ \E u \in Users, o \in Asked : Begin(r, u, o)
    \/ \E t \in Tokens : Download(t) \/ ReadToken(t) \/ InsertServer(t) \/ MarkUsed(t)

Spec == Init /\ [][Next]_vars

-----------------------------------------------------------------------------
NoOrphans ==
    /\ \A s \in DOMAIN servers : servers[s] \in DOMAIN users
    /\ \A t \in DOMAIN tokens : tokens[t].owner \in DOMAIN users

EmailsUnique ==
    \A u, v \in DOMAIN users : users[u].email = users[v].email => u = v

\* None: no token was made.
TokensStay ==
    \A r \in Requests :
        LET t == req[r].token IN
        t # None /\ req[r].by \in DOMAIN users => t \in DOMAIN tokens /\ tokens[t].owner = req[r].by

\* Nothing belongs to an account that is gone, in whatever order accounts are
\* deleted, tokens made and hosts registered; an address has one account,
\* although the check for it and the insertion are two queries with a hash
\* computed in between; the token of an installer script is there as long as
\* the account that asked for it, in every script that was answered, and also
\* when something failed later and an error was answered.
Integrity == NoOrphans /\ EmailsUnique /\ TokensStay

\* The request a step belongs to.
Acts(r) == req'[r].at # req[r].at /\ req[r].at \notin Ends

UsersByAdmin == users' # users => \E r \in Requests : Acts(r) /\ "admin" \in held[r]

ServersByRight ==
    \A s \in DOMAIN servers \ DOMAIN servers' : \E r \in Requests :
        Acts(r) /\ ("admin" \in held[r] \/ ("user" \in held[r] /\ servers[s] = req[r].by))

TokensByRight ==
    \A t \in DOMAIN tokens' \ DOMAIN tokens : \E r \in Requests :
        Acts(r) /\ held[r] # {} /\ tokens'[t].owner = req[r].by

ShownByRight ==
    \A r \in Requests : Acts(r) /\ ~(req'[r].shown \subseteq {req[r].by}) => "admin" \in held[r]

\* Accounts change, servers go, tokens are made, and servers of others are
\* shown only for somebody whose account was active, and had the role that
\* takes, at some moment since the request began: a demotion or deactivation
\* stops all that is asked later.
Authority == [][UsersByAdmin /\ ServersByRight /\ TokensByRight /\ ShownByRight]_vars
=============================================================================
