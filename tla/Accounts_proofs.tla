--------------------------- MODULE Accounts_proofs ---------------------------
(***************************************************************************)
(* Proofs about accounts and what belongs to them (server/src/routes/      *)
(* users.routes.js, servers.routes.js, installers.routes.js and the        *)
(* middlewares): for any number of accounts, requests, servers and tokens  *)
(* nothing is left that belongs to nobody, and nothing is changed for, or  *)
(* shown to, somebody who lacked the right ever since the request began.   *)
(***************************************************************************)
EXTENDS Accounts, TLAPS

USE AccountsAssumption

-----------------------------------------------------------------------------
\* The inductive invariant.

InUse == {"own", "check", "query", "audit"}

\* Beyond authenticateJWT and requireRole: the role a request carries was the
\* role of an active account, and an administrator's where it takes one.
RoleHeld ==
    \A r \in Requests : req[r].at \in InUse =>
        /\ req[r].role \in held[r]
        /\ req[r].op.do \in AdminOps => req[r].role = "admin"

\* The history knows the role somebody has now.
HeldNow ==
    \A r \in Requests : req[r].at \notin Ends => RolesIn(users, req[r].by) \subseteq held[r]

\* What a request is at fits what it asks, and nothing is shown before it is
\* answered.
StageFits ==
    \A r \in Requests :
        /\ At(r, "own") => Does(r, ServerOps)
        /\ At(r, "check") => Does(r, {"createUser"})
        /\ req[r].at \notin Ends => req[r].shown = {}

\* Beyond requireServerOwnership: an id is given to one row only, so the server
\* a request was let through for is gone, or has the owner it had.
OwnChecked ==
    \A r \in Requests : At(r, "query") /\ Does(r, {"deleteServer"}) =>
        /\ req[r].op.server \in made.servers
        /\ req[r].role = "admin"
             \/ (req[r].op.server \in DOMAIN servers => servers[req[r].op.server] = req[r].by)

\* Requests are sent by somebody who has, or had, an account.  The token one has
\* made is its user's, as long as it is there; one that has not made any has none.
TokenOwn ==
    \A r \in Requests :
        /\ req[r].by \in made.users
        /\ req[r].token # None => req[r].token \in made.tokens
        /\ req[r].token \in DOMAIN tokens => tokens[req[r].token].owner = req[r].by
        /\ req[r].at \in {"auth", "own", "check", "query"} => req[r].token = None

IInv == TypeOK /\ Integrity /\ RoleHeld /\ HeldNow /\ StageFits /\ OwnChecked /\ TokenOwn

-----------------------------------------------------------------------------
\* Tables and requests.

\* What Without makes of a table.
LEMMA WithoutTable ==
  ASSUME NEW t, NEW Row, t \in [DOMAIN t -> Row], NEW xs
  PROVE  /\ DOMAIN Without(t, xs) = DOMAIN t \ xs
         /\ Without(t, xs) \in [DOMAIN Without(t, xs) -> Row]
         /\ \A y \in DOMAIN t \ xs : Without(t, xs)[y] = t[y]
BY DEF Without

\* The roles somebody has are roles.
LEMMA RolesInType ==
  ASSUME NEW t, t \in [DOMAIN t -> Account], NEW u
  PROVE  RolesIn(t, u) \subseteq Roles
BY DEF RolesIn, Account

\* Each kind of request has the parameters its handler uses.
LEMMA OpFields ==
  ASSUME NEW o \in Ops
  PROVE  /\ o.do = "createUser" => o.email \in Emails /\ o.role \in Roles
         /\ o.do = "updateUser" => /\ o.user \in Users
                                   /\ o.patch.role \in Roles \cup {None}
                                   /\ o.patch.active \in BOOLEAN \cup {None}
         /\ o.do = "deleteUser" => o.user \in Users
         /\ o.do \in ServerOps => o.server \in Servers
BY DEF Ops, Patches, ServerOps

\* A request that is not answered asks for something.
LEMMA OpOf ==
  ASSUME TypeOK, NEW r \in Requests, req[r].at \notin Ends
  PROVE  req[r].op \in Ops
BY DEF TypeOK, Request

\* The answer of a request leaves its user and its token, and the others.
LEMMA Answered ==
  ASSUME TypeOK, NEW r \in Requests, NEW end \in Ends, NEW owners \in SUBSET Users,
         Answer(r, end, owners)
  PROVE  /\ req' \in [Requests -> Request]
         /\ req'[r].op = None /\ req'[r].at = end /\ req'[r].role = None
         /\ req'[r].shown = owners /\ req'[r].by = req[r].by /\ req'[r].token = req[r].token
         /\ \A q \in Requests : q # r => req'[q] = req[q]
         /\ \A q \in Requests : req'[q].op = None <=> req'[q].at \in Ends
<1>1. req[r] \in Request /\ req' = [req EXCEPT ![r] = [req[r] EXCEPT !.op = None, !.at = end,
                                                              !.role = None, !.shown = owners]]
  BY DEF TypeOK, Answer
<1> DEFINE new == [req[r] EXCEPT !.op = None, !.at = end, !.role = None, !.shown = owners]
<1>2. /\ new \in Request /\ new.op = None /\ new.at = end /\ new.role = None
      /\ new.shown = owners /\ new.by = req[r].by /\ new.token = req[r].token
  BY <1>1 DEF Request
<1> HIDE DEF new
<1>3. req'[r] = new /\ req' \in [Requests -> Request] /\ \A q \in Requests : q # r => req'[q] = req[q]
  BY <1>1, <1>2 DEF TypeOK, new
<1> QED BY <1>2, <1>3 DEF TypeOK

\* A request that goes on is the same but for its stage.
LEMMA Gone ==
  ASSUME TypeOK, NEW r \in Requests, req[r].at \notin Ends,
         NEW stage \in {"own", "check", "query", "audit"}, Goto(r, stage)
  PROVE  /\ req' \in [Requests -> Request]
         /\ req'[r].at = stage
         /\ req'[r].op = req[r].op /\ req'[r].role = req[r].role /\ req'[r].shown = req[r].shown
         /\ req'[r].by = req[r].by /\ req'[r].token = req[r].token
         /\ \A q \in Requests : q # r => req'[q] = req[q]
         /\ \A q \in Requests : req'[q].op = None <=> req'[q].at \in Ends
<1>1. req[r] \in Request /\ req' = [req EXCEPT ![r] = [req[r] EXCEPT !.at = stage]]
  BY DEF TypeOK, Goto
<1> DEFINE new == [req[r] EXCEPT !.at = stage]
<1>2. /\ new \in Request /\ new.op = req[r].op /\ new.at = stage /\ new.role = req[r].role
      /\ new.shown = req[r].shown /\ new.by = req[r].by /\ new.token = req[r].token
  BY <1>1 DEF Request
<1> HIDE DEF new
<1>3. req'[r] = new /\ req' \in [Requests -> Request] /\ \A q \in Requests : q # r => req'[q] = req[q]
  BY <1>1, <1>2 DEF TypeOK, new
<1> QED BY <1>2, <1>3 DEF TypeOK, Ends

\* authenticateJWT and requireRole let a request through to its first stage.
LEMMA LetThrough ==
  ASSUME TypeOK, NEW r \in Requests, At(r, "auth"), Authenticate(r),
         Admitted(req[r].by), Allowed(req[r].op, users[req[r].by].role)
  PROVE  /\ req' \in [Requests -> Request]
         /\ req'[r].role = users[req[r].by].role /\ req'[r].at = FirstStage(req[r].op)
         /\ req'[r].op = req[r].op /\ req'[r].shown = req[r].shown
         /\ req'[r].by = req[r].by /\ req'[r].token = req[r].token
         /\ \A q \in Requests : q # r => req'[q] = req[q]
         /\ \A q \in Requests : req'[q].op = None <=> req'[q].at \in Ends
         /\ FirstStage(req[r].op) \in {"own", "check", "query"}
         /\ FirstStage(req[r].op) = "check" <=> req[r].op.do = "createUser"
         /\ FirstStage(req[r].op) = "own" <=> req[r].op.do \in ServerOps
<1> DEFINE role == users[req[r].by].role
           stage == FirstStage(req[r].op)
           new == [req[r] EXCEPT !.role = role, !.at = stage]
<1>1. req[r] \in Request /\ req[r].op # None /\ req[r].at = "auth"
  BY DEF TypeOK, At, Ends
<1>2. role \in Roles
  BY DEF TypeOK, Admitted, Account
<1>3. /\ stage \in {"own", "check", "query"}
      /\ stage = "check" <=> req[r].op.do = "createUser"
      /\ stage = "own" <=> req[r].op.do \in ServerOps
  BY DEF FirstStage, ServerOps
<1>4. req' = [req EXCEPT ![r] = new]
  BY DEF Authenticate
<1> HIDE DEF role, stage
<1>5. /\ new \in Request /\ new.role = role /\ new.at = stage /\ new.op = req[r].op
      /\ new.shown = req[r].shown /\ new.by = req[r].by /\ new.token = req[r].token
  BY <1>1, <1>2, <1>3 DEF Request
<1> HIDE DEF new
<1>6. req'[r] = new /\ req' \in [Requests -> Request] /\ \A q \in Requests : q # r => req'[q] = req[q]
  BY <1>4, <1>5 DEF TypeOK
<1> USE DEF role, stage
<1> QED BY <1>1, <1>3, <1>5, <1>6 DEF TypeOK, Ends

-----------------------------------------------------------------------------
\* At first there is the seeded administrator, and nothing is asked.
LEMMA InitInv == Init => IInv
<1> SUFFICES ASSUME Init PROVE IInv
  OBVIOUS
<1>1. TypeOK
  <2>1. users \in [DOMAIN users -> Account] /\ DOMAIN users = {Seeded}
    BY DEF Init, Account, Roles
  <2>2. /\ servers \in [DOMAIN servers -> Users] /\ DOMAIN servers = {}
        /\ tokens \in [DOMAIN tokens -> [owner : Users, used : BOOLEAN]] /\ DOMAIN tokens = {}
    BY DEF Init
  <2>3. /\ made \in [users : SUBSET Users, servers : SUBSET Servers, tokens : SUBSET Tokens]
        /\ made.users = {Seeded}
    BY DEF Init
  <2>4. req \in [Requests -> Request] /\ \A r \in Requests : req[r].op = None /\ req[r].at \in Ends
    BY DEF Init, Request, Ends
  <2>5. held \in [Requests -> SUBSET Roles]
    BY DEF Init
  <2>6. /\ host \in [Tokens -> {"none", "installed", "insert", "mark"}]
        /\ job \in [Tokens -> made.users \cup {None}]
        /\ \A t \in Tokens : host[t] = "none"
    BY DEF Init
  <2> QED BY <2>1, <2>2, <2>3, <2>4, <2>5, <2>6 DEF TypeOK
<1>2. Integrity
  BY DEF Init, Integrity, NoOrphans, EmailsUnique, TokensStay, TokenOwn
<1>3. RoleHeld /\ HeldNow /\ StageFits /\ OwnChecked /\ TokenOwn
  BY DEF Init, RoleHeld, HeldNow, Ends, StageFits, OwnChecked, TokenOwn, InUse, At
<1> QED BY <1>1, <1>2, <1>3 DEF IInv

-----------------------------------------------------------------------------
\* Steps of requests that leave the tables alone.

\* A new request has no right and no token yet.
LEMMA BeginInv ==
  ASSUME IInv, NEW r \in Requests, NEW u \in Users, NEW o \in Asked, Begin(r, u, o)
  PROVE  IInv'
<1> DEFINE new == [by |-> u, op |-> o, at |-> "auth", role |-> None, shown |-> {}, token |-> None]
<1>1. /\ req' = [req EXCEPT ![r] = new] /\ held' = [held EXCEPT ![r] = RolesIn(users, u)]
      /\ UNCHANGED <<users, servers, tokens, made, host, job>>
  BY DEF Begin, tables, hosts
<1>2. new \in Request /\ o \in Ops /\ o # None
  BY DEF Request
<1>3. new.by = u /\ new.op = o /\ new.at = "auth" /\ new.token = None /\ new.shown = {}
  OBVIOUS
<1> HIDE DEF new
<1>4. req' \in [Requests -> Request] /\ req'[r] = new /\ \A q \in Requests : q # r => req'[q] = req[q]
  BY <1>1, <1>2 DEF IInv, TypeOK
<1>5. held' \in [Requests -> SUBSET Roles] /\ \A q \in Requests : q # r => held'[q] = held[q]
  BY <1>1, RolesInType DEF IInv, TypeOK
<1>6. TypeOK'
  BY <1>1, <1>2, <1>3, <1>4, <1>5 DEF IInv, TypeOK, Ends
<1>7. Integrity'
  BY <1>1, <1>3, <1>4 DEF IInv, Integrity, NoOrphans, EmailsUnique, TokensStay, TokenOwn
<1>8. RoleHeld' /\ HeldNow' /\ StageFits' /\ OwnChecked'
  BY <1>1, <1>3, <1>4, <1>5 DEF IInv, TypeOK, RoleHeld, HeldNow, RolesIn, StageFits, OwnChecked, InUse, At, Does
<1>9. TokenOwn'
  <2>1. None \notin DOMAIN tokens /\ u \in made.users
    BY DEF Begin, IInv, TypeOK
  <2> QED BY <1>1, <1>3, <1>4, <2>1 DEF IInv, TokenOwn
<1> QED BY <1>6, <1>7, <1>8, <1>9 DEF IInv

\* A request that is answered, the tables and rights staying as they are.
LEMMA AnswerInv ==
  ASSUME IInv, NEW r \in Requests, NEW end \in Ends, NEW owners \in SUBSET Users,
         Answer(r, end, owners), UNCHANGED <<tables, held, hosts>>
  PROVE  IInv'
<1>1. UNCHANGED <<users, servers, tokens, made, held, host, job>>
  BY DEF tables, hosts
<1>2. /\ req' \in [Requests -> Request]
      /\ req'[r].op = None /\ req'[r].at = end
      /\ req'[r].by = req[r].by /\ req'[r].token = req[r].token
      /\ \A q \in Requests : q # r => req'[q] = req[q]
      /\ \A q \in Requests : req'[q].op = None <=> req'[q].at \in Ends
  BY Answered DEF IInv
<1>3. TypeOK'
  BY <1>1, <1>2 DEF IInv, TypeOK
<1>4. Integrity'
  BY <1>1, <1>2 DEF IInv, Integrity, NoOrphans, EmailsUnique, TokensStay, TokenOwn
<1>5. RoleHeld' /\ HeldNow' /\ StageFits' /\ OwnChecked'
  BY <1>1, <1>2 DEF IInv, RoleHeld, HeldNow, RolesIn, StageFits, OwnChecked, InUse, At, Does, Ends
<1>6. TokenOwn'
  BY <1>1, <1>2 DEF IInv, TokenOwn, Ends
<1> QED BY <1>3, <1>4, <1>5, <1>6 DEF IInv

LEMMA AuthenticateInv ==
  ASSUME IInv, NEW r \in Requests, Authenticate(r)
  PROVE  IInv'
<1>1. UNCHANGED <<users, servers, tokens, made, held, host, job>> /\ At(r, "auth")
  BY DEF Authenticate, tables, hosts
<1>2. CASE ~(Admitted(req[r].by) /\ Allowed(req[r].op, users[req[r].by].role))
  BY <1>2, AnswerInv DEF Authenticate, End, Ends
<1>3. CASE Admitted(req[r].by) /\ Allowed(req[r].op, users[req[r].by].role)
  <2>1. /\ req' \in [Requests -> Request]
        /\ req'[r].role = users[req[r].by].role /\ req'[r].at = FirstStage(req[r].op)
        /\ req'[r].op = req[r].op /\ req'[r].by = req[r].by /\ req'[r].token = req[r].token
        /\ req'[r].shown = req[r].shown
        /\ \A q \in Requests : q # r => req'[q] = req[q]
        /\ \A q \in Requests : req'[q].op = None <=> req'[q].at \in Ends
        /\ req'[r].at \in {"own", "check", "query"}
        /\ req'[r].at = "check" <=> req[r].op.do = "createUser"
        /\ req'[r].at = "own" <=> req[r].op.do \in ServerOps
    BY <1>1, <1>3, LetThrough DEF IInv
  <2>2. req[r].at = "auth" /\ req[r].token = None /\ req[r].shown = {}
    BY <1>1 DEF IInv, TokenOwn, StageFits, At, Ends
  <2>3. TypeOK'
    BY <1>1, <2>1 DEF IInv, TypeOK
  <2>4. Integrity'
    BY <1>1, <2>1 DEF IInv, Integrity, NoOrphans, EmailsUnique, TokensStay, TokenOwn
  <2>5. RoleHeld' /\ HeldNow'
    <3>1. users[req[r].by].role \in held[r]
      BY <1>3, <2>2 DEF IInv, HeldNow, RolesIn, Admitted, Ends
    <3> QED BY <1>1, <1>3, <2>1, <2>2, <3>1 DEF IInv, RoleHeld, HeldNow, RolesIn, InUse, Allowed, Ends
  <2>6. StageFits' /\ OwnChecked'
    BY <1>1, <2>1, <2>2 DEF IInv, StageFits, OwnChecked, At, Does, ServerOps
  <2>7. TokenOwn'
    BY <1>1, <2>1, <2>2 DEF IInv, TokenOwn
  <2> QED BY <2>3, <2>4, <2>5, <2>6, <2>7 DEF IInv
<1> QED BY <1>2, <1>3

\* A request that goes on to its query, the tables staying as they are.
LEMMA QueryInv ==
  ASSUME IInv, NEW r \in Requests, Goto(r, "query"), UNCHANGED <<tables, held, hosts>>,
         req[r].at \in {"own", "check"},
         Does(r, {"deleteServer"}) => MayUse(r, req[r].op.server)
  PROVE  IInv'
<1>1. UNCHANGED <<users, servers, tokens, made, held, host, job>>
  BY DEF tables, hosts
<1>2. /\ req' \in [Requests -> Request]
      /\ req'[r].at = "query"
      /\ req'[r].op = req[r].op /\ req'[r].role = req[r].role /\ req'[r].shown = req[r].shown
      /\ req'[r].by = req[r].by /\ req'[r].token = req[r].token
      /\ \A q \in Requests : q # r => req'[q] = req[q]
      /\ \A q \in Requests : req'[q].op = None <=> req'[q].at \in Ends
  BY Gone DEF IInv, Ends
<1>3. TypeOK'
  BY <1>1, <1>2 DEF IInv, TypeOK
<1>4. Integrity'
  BY <1>1, <1>2 DEF IInv, Integrity, NoOrphans, EmailsUnique, TokensStay, TokenOwn
<1>5. RoleHeld' /\ HeldNow' /\ StageFits'
  BY <1>1, <1>2 DEF IInv, RoleHeld, HeldNow, RolesIn, StageFits, InUse, At, Does, Ends
<1>6. OwnChecked'
  BY <1>1, <1>2 DEF IInv, TypeOK, OwnChecked, MayUse, At, Does
<1>7. TokenOwn'
  BY <1>1, <1>2 DEF IInv, TokenOwn
<1> QED BY <1>3, <1>4, <1>5, <1>6, <1>7 DEF IInv

LEMMA CheckOwnerInv ==
  ASSUME IInv, NEW r \in Requests, CheckOwner(r)
  PROVE  IInv'
<1> DEFINE s == req[r].op.server
<1>1. req[r].at = "own" /\ UNCHANGED <<tables, held, hosts>>
  BY DEF CheckOwner, At
<1>2. CASE ~MayUse(r, s)
  BY <1>1, <1>2, AnswerInv DEF CheckOwner, End, Ends
<1>3. CASE MayUse(r, s) /\ Does(r, {"getServer"})
  <2>1. servers[s] \in Users
    BY <1>3 DEF MayUse, IInv, TypeOK
  <2>2. Answer(r, "ok", {servers[s]})
    BY <1>3 DEF CheckOwner
  <2> HIDE DEF s
  <2> QED BY <1>1, <2>1, <2>2, AnswerInv DEF Ends
<1>4. CASE MayUse(r, s) /\ ~Does(r, {"getServer"})
  BY <1>1, <1>4, QueryInv DEF CheckOwner
<1> QED BY <1>2, <1>3, <1>4

LEMMA ListInv ==
  ASSUME IInv, NEW r \in Requests, List(r)
  PROVE  IInv'
<1>1. UNCHANGED <<tables, held, hosts>>
  BY DEF List
<1>2. CASE Answer(r, "ok", DOMAIN users)
  BY <1>1, <1>2, AnswerInv DEF Ends, IInv, TypeOK
<1>3. CASE Answer(r, "ok", {servers[s] : s \in Visible(r)})
  <2>1. {servers[s] : s \in Visible(r)} \in SUBSET Users
    BY DEF Visible, IInv, TypeOK
  <2> QED BY <1>1, <1>3, <2>1, AnswerInv DEF Ends
<1> QED BY <1>2, <1>3 DEF List

LEMMA CheckEmailInv ==
  ASSUME IInv, NEW r \in Requests, CheckEmail(r)
  PROVE  IInv'
<1>1. req[r].at = "check" /\ UNCHANGED <<tables, held, hosts>> /\ Does(r, {"createUser"})
  BY DEF CheckEmail, At, IInv, StageFits
<1>2. CASE Taken(req[r].op.email)
  BY <1>1, <1>2, AnswerInv DEF CheckEmail, End, Ends
<1>3. CASE ~Taken(req[r].op.email)
  BY <1>1, <1>3, QueryInv DEF CheckEmail, Does
<1> QED BY <1>2, <1>3

\* Whatever the answer is, the token stays.
LEMMA AuditInv ==
  ASSUME IInv, NEW r \in Requests, Audit(r)
  PROVE  IInv'
BY AnswerInv DEF Audit, End, Ends

-----------------------------------------------------------------------------
\* Steps of requests that change a table.

\* What an answer of a request that changes a table leaves as it was.
LEMMA EndedRest ==
  ASSUME IInv, NEW r \in Requests, NEW end \in Ends, End(r, end)
  PROVE  /\ req' \in [Requests -> Request]
         /\ req'[r].at = end /\ req'[r].by = req[r].by /\ req'[r].token = req[r].token
         /\ \A q \in Requests : q # r => req'[q] = req[q]
         /\ \A q \in Requests : req'[q].op = None <=> req'[q].at \in Ends
         /\ StageFits'
<1>1. Answer(r, end, {})
  BY DEF End
<1>2. /\ req' \in [Requests -> Request]
      /\ req'[r].at = end /\ req'[r].by = req[r].by /\ req'[r].token = req[r].token
      /\ \A q \in Requests : q # r => req'[q] = req[q]
      /\ \A q \in Requests : req'[q].op = None <=> req'[q].at \in Ends
  BY <1>1, Answered DEF IInv
<1> QED BY <1>2 DEF IInv, StageFits, At, Does, Ends

\* Whatever the accounts become, no right of a request is forgotten.
LEMMA RightsKept ==
  ASSUME IInv, NEW r \in Requests, NEW end \in Ends, End(r, end),
         NEW t, t \in [DOMAIN t -> Account], SetUsers(t)
  PROVE  held' \in [Requests -> SUBSET Roles] /\ RoleHeld' /\ HeldNow'
<1>1. /\ req'[r].at = end
      /\ \A q \in Requests : q # r => req'[q] = req[q]
  BY EndedRest
<1>2. /\ users' = t
      /\ \A q \in Requests : held'[q] = IF req[q].at \in Ends THEN held[q]
                                        ELSE held[q] \cup RolesIn(t, req[q].by)
  BY DEF SetUsers
<1>3. held' \in [Requests -> SUBSET Roles]
  BY RolesInType DEF SetUsers, IInv, TypeOK
<1>4. RoleHeld'
  BY <1>1, <1>2 DEF IInv, RoleHeld, InUse, Ends
<1>5. HeldNow'
  <2>1. \A q \in Requests : RolesIn(users, req[q].by)' = RolesIn(t, req[q].by)'
    BY <1>2 DEF RolesIn
  <2>2. \A q \in Requests : q # r => RolesIn(t, req[q].by)' = RolesIn(t, req[q].by)
    BY <1>1 DEF RolesIn
  <2> QED BY <1>1, <1>2, <2>1, <2>2 DEF HeldNow, Ends
<1> QED BY <1>3, <1>4, <1>5

\* The cascade of servers; an id that is gone is not given again.
LEMMA DeleteServerInv ==
  ASSUME IInv, NEW r \in Requests, DeleteServer(r)
  PROVE  IInv'
<1> DEFINE s == req[r].op.server
<1>1. /\ servers' = Without(servers, {s}) /\ End(r, "ok")
      /\ UNCHANGED <<users, tokens, made, held, host, job>> /\ "ok" \in Ends
  BY DEF DeleteServer, Keep, hosts, Ends
<1>2. /\ req' \in [Requests -> Request]
      /\ req'[r].at = "ok" /\ req'[r].by = req[r].by /\ req'[r].token = req[r].token
      /\ \A q \in Requests : q # r => req'[q] = req[q]
      /\ \A q \in Requests : req'[q].op = None <=> req'[q].at \in Ends
      /\ StageFits'
  BY <1>1, EndedRest
<1>3. /\ DOMAIN servers' = DOMAIN servers \ {s}
      /\ servers' \in [DOMAIN servers' -> Users]
      /\ \A x \in DOMAIN servers' : servers'[x] = servers[x]
  <2>1. servers \in [DOMAIN servers -> Users]
    BY DEF IInv, TypeOK
  <2>2. /\ DOMAIN Without(servers, {s}) = DOMAIN servers \ {s}
        /\ Without(servers, {s}) \in [DOMAIN Without(servers, {s}) -> Users]
        /\ \A y \in DOMAIN servers \ {s} : Without(servers, {s})[y] = servers[y]
    BY <2>1, WithoutTable
  <2> QED BY <1>1, <2>2
<1> HIDE DEF s
<1>4. TypeOK'
  BY <1>1, <1>2, <1>3 DEF IInv, TypeOK
<1>5. Integrity'
  <2>1. NoOrphans' /\ EmailsUnique'
    BY <1>1, <1>3 DEF IInv, Integrity, NoOrphans, EmailsUnique
  <2>2. TokensStay'
    BY <1>1, <1>2 DEF IInv, Integrity, TokensStay
  <2> QED BY <2>1, <2>2 DEF Integrity
<1>6. RoleHeld' /\ HeldNow'
  BY <1>1, <1>2 DEF IInv, RoleHeld, HeldNow, RolesIn, InUse, Ends
<1>7. OwnChecked'
  <2> SUFFICES ASSUME NEW q \in Requests, (At(q, "query") /\ Does(q, {"deleteServer"}))'
               PROVE  /\ req'[q].op.server \in made'.servers
                      /\ req'[q].role = "admin" \/ (req'[q].op.server \in DOMAIN servers'
                                                     => servers'[req'[q].op.server] = req'[q].by)
    BY DEF OwnChecked
  <2>1. q # r /\ req'[q] = req[q] /\ At(q, "query") /\ Does(q, {"deleteServer"})
    BY <1>2 DEF At, Does
  <2> QED BY <1>1, <1>3, <2>1 DEF IInv, OwnChecked
<1>8. TokenOwn'
  BY <1>1, <1>2 DEF IInv, TokenOwn
<1> QED BY <1>2, <1>4, <1>5, <1>6, <1>7, <1>8 DEF IInv

\* A new account: whatever was asked since the check, the column is UNIQUE.
LEMMA CreateUserInv ==
  ASSUME IInv, NEW r \in Requests, CreateUser(r)
  PROVE  IInv'
<1> DEFINE o == req[r].op
<1>1. req[r].at = "query" /\ o \in Ops /\ o.do = "createUser" /\ UNCHANGED <<servers, tokens, host, job>>
  BY OpOf DEF CreateUser, At, Does, hosts, IInv, Ends
<1>2. CASE Conflict(o.email) /\ End(r, "error") /\ Keep /\ UNCHANGED made
  <2> QED BY <1>1, <1>2, AnswerInv DEF End, Ends, Keep, tables, hosts
<1>3. ASSUME NEW u \in Users \ made.users, ~Conflict(o.email),
             SetUsers(Put(users, u, [email |-> o.email, role |-> o.role, active |-> TRUE])),
             made' = [made EXCEPT !.users = @ \cup {u}], End(r, "ok")
      PROVE  IInv'
  <2> DEFINE row == [email |-> o.email, role |-> o.role, active |-> TRUE]
             new == Put(users, u, row)
  <2>1. row \in Account /\ row.email = o.email
    BY <1>1, OpFields DEF Account
  <2> HIDE DEF row
  <2>2. /\ DOMAIN new = DOMAIN users \cup {u} /\ new \in [DOMAIN new -> Account] /\ new[u] = row
        /\ \A y \in DOMAIN users : y # u => new[y] = users[y]
    <3>1. users \in [DOMAIN users -> Account]
      BY DEF IInv, TypeOK
    <3> QED BY <2>1, <3>1 DEF Put
  <2>3. SetUsers(new) /\ users' = new
    BY <1>3 DEF SetUsers, row
  <2> HIDE DEF new
  <2>4. /\ req' \in [Requests -> Request]
        /\ req'[r].at = "ok" /\ req'[r].by = req[r].by /\ req'[r].token = req[r].token
        /\ \A q \in Requests : q # r => req'[q] = req[q]
        /\ \A q \in Requests : req'[q].op = None <=> req'[q].at \in Ends
        /\ StageFits'
    BY <1>3, EndedRest DEF Ends
  <2>5. held' \in [Requests -> SUBSET Roles] /\ RoleHeld' /\ HeldNow'
    BY <1>3, <2>2, <2>3, RightsKept DEF Ends
  <2>6. /\ made' \in [users : SUBSET Users, servers : SUBSET Servers, tokens : SUBSET Tokens]
        /\ made'.users = made.users \cup {u} /\ made'.servers = made.servers
        /\ made'.tokens = made.tokens
    BY <1>3 DEF IInv, TypeOK
  <2>7. TypeOK'
    BY <1>1, <2>2, <2>3, <2>4, <2>5, <2>6 DEF IInv, TypeOK
  <2>8. Integrity'
    <3>1. NoOrphans'
      BY <1>1, <2>2, <2>3 DEF IInv, Integrity, NoOrphans
    <3>2. EmailsUnique'
      <4>1. \A v \in DOMAIN users : v # u /\ users[v].email # o.email
        BY <1>3 DEF Conflict, Taken, IInv, TypeOK
      <4> QED BY <2>1, <2>2, <2>3, <4>1 DEF IInv, Integrity, EmailsUnique
    <3>3. TokensStay'
      BY <1>1, <1>3, <2>2, <2>3, <2>4 DEF IInv, Integrity, TokensStay, TokenOwn
    <3> QED BY <3>1, <3>2, <3>3 DEF Integrity
  <2>9. OwnChecked' /\ TokenOwn'
    BY <1>1, <2>4, <2>6 DEF IInv, OwnChecked, TokenOwn, At, Does
  <2> QED BY <2>4, <2>5, <2>7, <2>8, <2>9 DEF IInv
<1> QED BY <1>2, <1>3 DEF CreateUser

\* COALESCE gives a value of the column, whatever the body leaves out.
LEMMA OrType ==
  ASSUME NEW S, NEW new \in S \cup {None}, NEW old \in S
  PROVE  Or(new, old) \in S
BY DEF Or

\* A patch changes neither ids nor addresses.
LEMMA UpdateUserInv ==
  ASSUME IInv, NEW r \in Requests, UpdateUser(r)
  PROVE  IInv'
<1> DEFINE u == req[r].op.user
           p == req[r].op.patch
           row == [email |-> users[u].email, role |-> Or(p.role, users[u].role),
                   active |-> Or(p.active, users[u].active)]
           new == Put(users, u, row)
<1>1. /\ req[r].at = "query" /\ req[r].op \in Ops /\ req[r].op.do = "updateUser"
      /\ UNCHANGED <<servers, tokens, made, host, job>>
  BY OpOf DEF UpdateUser, At, Does, hosts, IInv, Ends
<1>2. CASE End(r, "refused") /\ Keep
  BY <1>1, <1>2, AnswerInv DEF End, Ends, Keep, tables, hosts
<1>3. CASE u \in DOMAIN users /\ SetUsers(new) /\ End(r, "ok")
  <2>1. row \in Account /\ row.email = users[u].email
    <3>1. users[u] \in Account /\ p.role \in Roles \cup {None} /\ p.active \in BOOLEAN \cup {None}
      BY <1>1, <1>3, OpFields DEF IInv, TypeOK
    <3>2. users[u].role \in Roles /\ users[u].active \in BOOLEAN /\ users[u].email \in Emails
      BY <3>1 DEF Account
    <3>3. Or(p.role, users[u].role) \in Roles
      BY <3>1, <3>2, OrType
    <3>4. Or(p.active, users[u].active) \in BOOLEAN
      BY <3>1, <3>2, OrType
    <3> QED BY <3>2, <3>3, <3>4 DEF Account
  <2> HIDE DEF row
  <2>2. /\ DOMAIN new = DOMAIN users /\ new \in [DOMAIN new -> Account] /\ new[u] = row
        /\ \A y \in DOMAIN users : y # u => new[y] = users[y]
    <3>1. users \in [DOMAIN users -> Account]
      BY DEF IInv, TypeOK
    <3> HIDE DEF u
    <3> QED BY <1>3, <2>1, <3>1 DEF Put
  <2>3. SetUsers(new) /\ users' = new /\ End(r, "ok")
    BY <1>3 DEF SetUsers
  <2> HIDE DEF new
  <2>4. /\ req' \in [Requests -> Request]
        /\ req'[r].at = "ok" /\ req'[r].by = req[r].by /\ req'[r].token = req[r].token
        /\ \A q \in Requests : q # r => req'[q] = req[q]
        /\ \A q \in Requests : req'[q].op = None <=> req'[q].at \in Ends
        /\ StageFits'
    BY <2>3, EndedRest DEF Ends
  <2>5. held' \in [Requests -> SUBSET Roles] /\ RoleHeld' /\ HeldNow'
    BY <2>2, <2>3, RightsKept DEF Ends
  <2>6. TypeOK'
    BY <1>1, <2>2, <2>3, <2>4, <2>5 DEF IInv, TypeOK
  <2>7. Integrity'
    <3>1. \A v \in DOMAIN users : users'[v].email = users[v].email
      BY <2>1, <2>2, <2>3
    <3> QED BY <1>1, <2>2, <2>3, <2>4, <3>1 DEF IInv, Integrity, NoOrphans, EmailsUnique, TokensStay, TokenOwn
  <2>8. OwnChecked' /\ TokenOwn'
    BY <1>1, <2>4 DEF IInv, OwnChecked, TokenOwn, At, Does
  <2> QED BY <2>4, <2>5, <2>6, <2>7, <2>8 DEF IInv
<1> QED BY <1>2, <1>3 DEF UpdateUser

\* The servers and tokens of an account go with it.
LEMMA DeleteUserInv ==
  ASSUME IInv, NEW r \in Requests, DeleteUser(r)
  PROVE  IInv'
<1> DEFINE u == req[r].op.user
           new == Without(users, {u})
<1>1. /\ req[r].at = "query" /\ req[r].op \in Ops /\ req[r].op.do = "deleteUser"
      /\ UNCHANGED <<made, host, job>>
  BY OpOf DEF DeleteUser, At, Does, hosts, IInv, Ends
<1>2. CASE End(r, "refused") /\ Keep /\ UNCHANGED <<servers, tokens>>
  BY <1>1, <1>2, AnswerInv DEF End, Ends, Keep, tables, hosts
<1>3. CASE /\ SetUsers(new) /\ End(r, "ok")
           /\ servers' = Without(servers, ServersGone(u))
           /\ tokens' = Without(tokens, TokensGone(u))
  <2>1. /\ DOMAIN new = DOMAIN users \ {u} /\ new \in [DOMAIN new -> Account]
        /\ \A y \in DOMAIN new : new[y] = users[y]
    <3>1. users \in [DOMAIN users -> Account]
      BY DEF IInv, TypeOK
    <3>2. /\ DOMAIN new = DOMAIN users \ {u} /\ new \in [DOMAIN new -> Account]
          /\ \A y \in DOMAIN users \ {u} : new[y] = users[y]
      BY <3>1, WithoutTable
    <3> HIDE DEF new
    <3> QED BY <3>2
  <2>2. SetUsers(new) /\ users' = new /\ End(r, "ok")
    BY <1>3 DEF SetUsers
  <2>3. /\ DOMAIN servers' = {s \in DOMAIN servers : servers[s] # u}
        /\ servers' \in [DOMAIN servers' -> Users]
        /\ \A s \in DOMAIN servers' : servers'[s] = servers[s]
    <3>1. servers \in [DOMAIN servers -> Users]
      BY DEF IInv, TypeOK
    <3>2. /\ DOMAIN servers' = DOMAIN servers \ ServersGone(u)
          /\ servers' \in [DOMAIN servers' -> Users]
          /\ \A s \in DOMAIN servers \ ServersGone(u) : servers'[s] = servers[s]
      BY <1>3, <3>1, WithoutTable
    <3> QED BY <3>2 DEF ServersGone
  <2>4. /\ DOMAIN tokens' = {t \in DOMAIN tokens : tokens[t].owner # u}
        /\ tokens' \in [DOMAIN tokens' -> [owner : Users, used : BOOLEAN]]
        /\ \A t \in DOMAIN tokens' : tokens'[t] = tokens[t]
    <3>1. tokens \in [DOMAIN tokens -> [owner : Users, used : BOOLEAN]]
      BY DEF IInv, TypeOK
    <3>2. /\ DOMAIN tokens' = DOMAIN tokens \ TokensGone(u)
          /\ tokens' \in [DOMAIN tokens' -> [owner : Users, used : BOOLEAN]]
          /\ \A t \in DOMAIN tokens \ TokensGone(u) : tokens'[t] = tokens[t]
      BY <1>3, <3>1, WithoutTable
    <3> QED BY <3>2 DEF TokensGone
  <2> HIDE DEF new, u
  <2>5. /\ req' \in [Requests -> Request]
        /\ req'[r].at = "ok" /\ req'[r].by = req[r].by /\ req'[r].token = req[r].token
        /\ \A q \in Requests : q # r => req'[q] = req[q]
        /\ \A q \in Requests : req'[q].op = None <=> req'[q].at \in Ends
        /\ StageFits'
    BY <2>2, EndedRest DEF Ends
  <2>6. held' \in [Requests -> SUBSET Roles] /\ RoleHeld' /\ HeldNow'
    BY <2>1, <2>2, RightsKept DEF Ends
  <2>7. TypeOK'
    BY <1>1, <2>1, <2>2, <2>3, <2>4, <2>5, <2>6 DEF IInv, TypeOK
  <2>8. Integrity'
    BY <2>1, <2>2, <2>3, <2>4, <2>5 DEF IInv, Integrity, NoOrphans, EmailsUnique, TokensStay, TokenOwn
  <2>9. OwnChecked' /\ TokenOwn'
    BY <1>1, <2>3, <2>4, <2>5 DEF IInv, OwnChecked, TokenOwn, At, Does
  <2> QED BY <2>5, <2>6, <2>7, <2>8, <2>9 DEF IInv
<1> QED BY <1>2, <1>3 DEF DeleteUser

\* The token belongs to the account that asked for it, which is still there.
LEMMA InsertTokenInv ==
  ASSUME IInv, NEW r \in Requests, InsertToken(r)
  PROVE  IInv'
<1>1. /\ req[r].at = "query" /\ req[r].op.do = "script" /\ req[r].op \in Ops /\ req[r].token = None
      /\ UNCHANGED <<users, held, servers, host, job>>
  BY OpOf DEF InsertToken, At, Does, Keep, hosts, IInv, TokenOwn, Ends
<1>2. CASE End(r, "error") /\ UNCHANGED <<tokens, made>>
  <2> QED BY <1>1, <1>2, AnswerInv DEF End, Ends, tables, hosts
<1>3. ASSUME NEW t \in Tokens \ made.tokens, req[r].by \in DOMAIN users,
             tokens' = Put(tokens, t, [owner |-> req[r].by, used |-> FALSE]),
             made' = [made EXCEPT !.tokens = @ \cup {t}],
             req' = [req EXCEPT ![r].at = "audit", ![r].token = t]
      PROVE  IInv'
  <2> DEFINE row == [owner |-> req[r].by, used |-> FALSE]
  <2>1. row \in [owner : Users, used : BOOLEAN] /\ row.owner = req[r].by
    BY DEF IInv, TypeOK, Request
  <2> HIDE DEF row
  <2>2. /\ DOMAIN tokens' = DOMAIN tokens \cup {t}
        /\ tokens' \in [DOMAIN tokens' -> [owner : Users, used : BOOLEAN]]
        /\ tokens'[t] = row /\ \A y \in DOMAIN tokens : y # t => tokens'[y] = tokens[y]
    <3>1. tokens \in [DOMAIN tokens -> [owner : Users, used : BOOLEAN]] /\ tokens' = Put(tokens, t, row)
      BY <1>3 DEF IInv, TypeOK, row
    <3> QED BY <2>1, <3>1 DEF Put
  <2>3. /\ made' \in [users : SUBSET Users, servers : SUBSET Servers, tokens : SUBSET Tokens]
        /\ made'.users = made.users /\ made'.servers = made.servers
        /\ made'.tokens = made.tokens \cup {t}
    BY <1>3 DEF IInv, TypeOK
  <2> DEFINE new == [req[r] EXCEPT !.at = "audit", !.token = t]
  <2>4. /\ new \in Request /\ new.at = "audit" /\ new.token = t /\ new.op = req[r].op
        /\ new.by = req[r].by /\ new.role = req[r].role /\ new.shown = req[r].shown
    <3>1. req[r] \in Request
      BY DEF IInv, TypeOK
    <3> QED BY <3>1 DEF Request
  <2> HIDE DEF new
  <2>5. req' \in [Requests -> Request] /\ req'[r] = new /\ \A q \in Requests : q # r => req'[q] = req[q]
    BY <1>3, <2>4 DEF IInv, TypeOK, new
  <2>6. TypeOK'
    BY <1>1, <2>2, <2>3, <2>4, <2>5 DEF IInv, TypeOK, Ends
  <2>7. Integrity'
    <3>1. NoOrphans'
      BY <1>1, <1>3, <2>1, <2>2 DEF IInv, Integrity, NoOrphans
    <3>2. EmailsUnique'
      BY <1>1 DEF IInv, Integrity, EmailsUnique
    <3>3. TokensStay'
      <4>1. \A q \in Requests : req[q].token # t
        BY <1>3 DEF IInv, TokenOwn
      <4> QED BY <1>1, <2>1, <2>2, <2>4, <2>5, <4>1 DEF IInv, Integrity, TokensStay
    <3> QED BY <3>1, <3>2, <3>3 DEF Integrity
  <2>8. RoleHeld' /\ HeldNow' /\ StageFits' /\ OwnChecked'
    BY <1>1, <2>3, <2>4, <2>5 DEF IInv, RoleHeld, HeldNow, RolesIn, StageFits, OwnChecked, InUse, At, Does, Ends
  <2>9. TokenOwn'
    <3>1. \A q \in Requests : req[q].token # t
      BY <1>3 DEF IInv, TokenOwn
    <3> QED BY <2>1, <2>2, <2>3, <2>4, <2>5, <3>1 DEF IInv, TokenOwn
  <2> QED BY <2>6, <2>7, <2>8, <2>9 DEF IInv
<1> QED BY <1>2, <1>3 DEF InsertToken

-----------------------------------------------------------------------------
\* Steps of the hosts.

LEMMA DownloadInv ==
  ASSUME IInv, NEW t \in Tokens, Download(t)
  PROVE  IInv'
<1>1. UNCHANGED <<users, servers, tokens, made, req, held, job>> /\ host' = [host EXCEPT ![t] = "installed"]
  BY DEF Download, tables
<1>2. TypeOK'
  BY <1>1 DEF IInv, TypeOK
<1>3. Integrity'
  BY <1>1 DEF IInv, Integrity, NoOrphans, EmailsUnique, TokensStay, TokenOwn
<1>4. RoleHeld' /\ HeldNow' /\ StageFits' /\ OwnChecked' /\ TokenOwn'
  BY <1>1 DEF IInv, RoleHeld, HeldNow, RolesIn, StageFits, OwnChecked, TokenOwn, InUse, At, Does
<1> QED BY <1>2, <1>3, <1>4 DEF IInv

LEMMA ReadTokenInv ==
  ASSUME IInv, NEW t \in Tokens, ReadToken(t)
  PROVE  IInv'
<1>1. /\ UNCHANGED <<users, servers, tokens, made, req, held>>
      /\ host' = [host EXCEPT ![t] = "insert"] /\ job' = [job EXCEPT ![t] = tokens[t].owner]
  BY DEF ReadToken, tables
<1>2. tokens[t].owner \in made.users /\ tokens[t].owner # None
  BY DEF ReadToken, Usable, IInv, TypeOK, Integrity, NoOrphans
<1>3. TypeOK'
  BY <1>1, <1>2 DEF IInv, TypeOK
<1>4. Integrity'
  BY <1>1 DEF IInv, Integrity, NoOrphans, EmailsUnique, TokensStay, TokenOwn
<1>5. RoleHeld' /\ HeldNow' /\ StageFits' /\ OwnChecked' /\ TokenOwn'
  BY <1>1 DEF IInv, RoleHeld, HeldNow, RolesIn, StageFits, OwnChecked, TokenOwn, InUse, At, Does
<1> QED BY <1>3, <1>4, <1>5 DEF IInv

\* A server is inserted for an account that is there; its id is new, so no
\* request was let through for it.
LEMMA InsertServerInv ==
  ASSUME IInv, NEW t \in Tokens, InsertServer(t)
  PROVE  IInv'
<1>1. UNCHANGED <<users, tokens, req, held, job>>
  BY DEF InsertServer
<1>2. CASE host' = [host EXCEPT ![t] = "installed"] /\ UNCHANGED <<servers, made>>
  <2>1. TypeOK'
    BY <1>1, <1>2 DEF IInv, TypeOK
  <2>2. Integrity'
    BY <1>1, <1>2 DEF IInv, Integrity, NoOrphans, EmailsUnique, TokensStay, TokenOwn
  <2>3. RoleHeld' /\ HeldNow' /\ StageFits' /\ OwnChecked' /\ TokenOwn'
    BY <1>1, <1>2 DEF IInv, RoleHeld, HeldNow, RolesIn, StageFits, OwnChecked, TokenOwn, InUse, At, Does
  <2> QED BY <2>1, <2>2, <2>3 DEF IInv
<1>3. ASSUME NEW s \in Servers \ made.servers, KeysHold(t), servers' = Put(servers, s, job[t]),
             made' = [made EXCEPT !.servers = @ \cup {s}], host' = [host EXCEPT ![t] = "mark"]
      PROVE  IInv'
  <2>1. job[t] \in DOMAIN users /\ job[t] \in Users
    BY <1>3 DEF KeysHold, IInv, TypeOK
  <2>2. /\ DOMAIN servers' = DOMAIN servers \cup {s}
        /\ servers' \in [DOMAIN servers' -> Users] /\ servers'[s] = job[t]
        /\ \A y \in DOMAIN servers : y # s => servers'[y] = servers[y]
    <3>1. servers \in [DOMAIN servers -> Users]
      BY DEF IInv, TypeOK
    <3> QED BY <1>3, <2>1, <3>1 DEF Put
  <2>3. /\ made' \in [users : SUBSET Users, servers : SUBSET Servers, tokens : SUBSET Tokens]
        /\ made'.users = made.users /\ made'.servers = made.servers \cup {s}
        /\ made'.tokens = made.tokens
    BY <1>3 DEF IInv, TypeOK
  <2>4. TypeOK'
    BY <1>1, <1>3, <2>2, <2>3 DEF IInv, TypeOK
  <2>5. Integrity'
    BY <1>1, <2>1, <2>2 DEF IInv, Integrity, NoOrphans, EmailsUnique, TokensStay, TokenOwn
  <2>6. RoleHeld' /\ HeldNow' /\ StageFits' /\ TokenOwn'
    BY <1>1, <2>3 DEF IInv, RoleHeld, HeldNow, RolesIn, StageFits, TokenOwn, InUse, At, Does
  <2>7. OwnChecked'
    BY <1>1, <1>3, <2>2, <2>3 DEF IInv, OwnChecked, At, Does
  <2> QED BY <2>4, <2>5, <2>6, <2>7 DEF IInv
<1> QED BY <1>2, <1>3 DEF InsertServer

LEMMA MarkUsedInv ==
  ASSUME IInv, NEW t \in Tokens, MarkUsed(t)
  PROVE  IInv'
<1>1. UNCHANGED <<users, servers, made, req, held, job>> /\ host' = [host EXCEPT ![t] = "none"]
  BY DEF MarkUsed
<1>2. /\ DOMAIN tokens' = DOMAIN tokens
      /\ tokens' \in [DOMAIN tokens' -> [owner : Users, used : BOOLEAN]]
      /\ \A x \in DOMAIN tokens : tokens'[x].owner = tokens[x].owner
  <2>1. tokens \in [DOMAIN tokens -> [owner : Users, used : BOOLEAN]]
    BY DEF IInv, TypeOK
  <2>2. CASE t \notin DOMAIN tokens
    BY <2>1, <2>2 DEF MarkUsed
  <2>3. CASE t \in DOMAIN tokens
    <3> DEFINE row == [tokens[t] EXCEPT !.used = TRUE]
    <3>1. row \in [owner : Users, used : BOOLEAN] /\ row.owner = tokens[t].owner
      BY <2>1, <2>3
    <3>2. tokens' = [tokens EXCEPT ![t] = row]
      BY <2>3 DEF MarkUsed
    <3> HIDE DEF row
    <3> QED BY <2>1, <2>3, <3>1, <3>2
  <2> QED BY <2>2, <2>3
<1>3. TypeOK'
  BY <1>1, <1>2 DEF IInv, TypeOK
<1>4. Integrity'
  BY <1>1, <1>2 DEF IInv, Integrity, NoOrphans, EmailsUnique, TokensStay, TokenOwn
<1>5. RoleHeld' /\ HeldNow' /\ StageFits' /\ OwnChecked' /\ TokenOwn'
  BY <1>1, <1>2 DEF IInv, RoleHeld, HeldNow, RolesIn, StageFits, OwnChecked, TokenOwn, InUse, At, Does
<1> QED BY <1>3, <1>4, <1>5 DEF IInv

-----------------------------------------------------------------------------
\* Every step of requests and hosts keeps the inductive invariant.
LEMMA NextInv ==
  ASSUME IInv, [Next]_vars
  PROVE  IInv'
<1>1. CASE UNCHANGED vars
  <2>1. UNCHANGED <<users, servers, tokens, made, req, held, host, job>>
    BY <1>1 DEF vars, tables, hosts
  <2>2. TypeOK'
    BY <2>1 DEF IInv, TypeOK
  <2>3. Integrity'
    BY <2>1 DEF IInv, Integrity, NoOrphans, EmailsUnique, TokensStay, TokenOwn
  <2>4. RoleHeld' /\ HeldNow' /\ StageFits' /\ OwnChecked' /\ TokenOwn'
    BY <2>1 DEF IInv, RoleHeld, HeldNow, RolesIn, StageFits, OwnChecked, TokenOwn, InUse, At, Does
  <2> QED BY <2>2, <2>3, <2>4 DEF IInv
<1>2. ASSUME NEW r \in Requests, Handle(r)
      PROVE  IInv'
  BY <1>2, AuthenticateInv, CheckOwnerInv, ListInv, DeleteServerInv, CheckEmailInv, CreateUserInv,
     UpdateUserInv, DeleteUserInv, InsertTokenInv, AuditInv DEF Handle
<1>3. ASSUME NEW r \in Requests, NEW u \in Users, NEW o \in Asked, Begin(r, u, o)
      PROVE  IInv'
  BY <1>3, BeginInv
<1>4. ASSUME NEW t \in Tokens, Download(t) \/ ReadToken(t) \/ InsertServer(t) \/ MarkUsed(t)
      PROVE  IInv'
  BY <1>4, DownloadInv, ReadTokenInv, InsertServerInv, MarkUsedInv
<1> QED BY <1>1, <1>2, <1>3, <1>4 DEF Next

-----------------------------------------------------------------------------
\* Who a step is for.

\* A request past authenticateJWT has a role its user held; it is one of two.
LEMMA Entitled ==
  ASSUME IInv, NEW r \in Requests, req[r].at \in InUse
  PROVE  /\ req[r].role \in held[r] /\ req[r].role \in Roles /\ req[r].at \notin Ends
         /\ req[r].op.do \in AdminOps => req[r].role = "admin"
BY DEF IInv, TypeOK, RoleHeld, InUse, Ends

\* A step that changes no table, answers one request at most, and shows it only
\* its user's rows unless an administrator's right was there.
LEMMA QuietStep ==
  ASSUME IInv, UNCHANGED <<users, servers, tokens>>,
         \A r \in Requests : /\ req[r].at \notin Ends
                             /\ req'[r].at # req[r].at
                             /\ ~(req'[r].shown \subseteq {req[r].by})
                             => "admin" \in held[r]
  PROVE  UsersByAdmin /\ ServersByRight /\ TokensByRight /\ ShownByRight
BY DEF UsersByAdmin, ServersByRight, TokensByRight, ShownByRight, Acts

\* What an answer shows; a request that ends without any shows nothing.
LEMMA Shown ==
  ASSUME IInv, NEW r \in Requests, NEW end \in Ends, NEW owners \in SUBSET Users, Answer(r, end, owners)
  PROVE  /\ req'[r].shown = owners /\ req'[r].at = end
         /\ \A q \in Requests : q # r => req'[q] = req[q]
BY Answered DEF IInv

LEMMA ReadersShow ==
  ASSUME IInv, NEW r \in Requests, CheckOwner(r) \/ List(r)
  PROVE  UsersByAdmin /\ ServersByRight /\ TokensByRight /\ ShownByRight
<1>1. UNCHANGED <<users, servers, tokens>> /\ req[r].at \in InUse
  BY DEF CheckOwner, List, tables, At, InUse
<1>2. /\ req[r].op.do \in AdminOps => req[r].role = "admin"
      /\ req[r].role \in held[r] /\ req[r].at \notin Ends /\ req[r].shown = {}
  BY <1>1, Entitled DEF IInv, StageFits
<1>3. /\ \A q \in Requests : q # r => req'[q] = req[q]
      /\ req'[r].shown \subseteq {req[r].by} \/ req[r].role = "admin"
  <2>1. CASE CheckOwner(r)
    <3> DEFINE s == req[r].op.server
    <3>1. CASE ~MayUse(r, s)
      BY <2>1, <3>1, Shown DEF CheckOwner, End, Ends
    <3>2. CASE MayUse(r, s) /\ Does(r, {"getServer"})
      <4>1. {servers[s]} \in SUBSET Users /\ Answer(r, "ok", {servers[s]})
        BY <2>1, <3>2 DEF CheckOwner, MayUse, IInv, TypeOK
      <4>2. servers[s] = req[r].by \/ req[r].role = "admin"
        BY <3>2 DEF MayUse
      <4> HIDE DEF s
      <4> QED BY <4>1, <4>2, Shown DEF Ends
    <3>3. CASE Goto(r, "query")
      BY <1>2, <3>3, Gone DEF IInv
    <3> QED BY <2>1, <3>1, <3>2, <3>3 DEF CheckOwner
  <2>2. CASE Does(r, {"listUsers"}) /\ Answer(r, "ok", DOMAIN users)
    <3>1. DOMAIN users \in SUBSET Users
      BY DEF IInv, TypeOK
    <3>2. req[r].role = "admin"
      BY <1>2, <2>2 DEF Does, AdminOps
    <3>3. Answer(r, "ok", DOMAIN users) /\ "ok" \in Ends
      BY <2>2 DEF Ends
    <3> QED BY <3>1, <3>2, <3>3, Shown
  <2>3. CASE Answer(r, "ok", {servers[s] : s \in Visible(r)})
    <3> DEFINE owners == {servers[s] : s \in Visible(r)}
    <3>1. owners \in SUBSET Users
      BY DEF Visible, IInv, TypeOK
    <3>2. owners \subseteq {req[r].by} \/ req[r].role = "admin"
      BY DEF Visible
    <3>3. Answer(r, "ok", owners)
      BY <2>3
    <3> HIDE DEF owners
    <3> QED BY <3>1, <3>2, <3>3, Shown DEF Ends
  <2> QED BY <2>1, <2>2, <2>3 DEF List
<1>4. ASSUME NEW q \in Requests, req'[q].at # req[q].at, ~(req'[q].shown \subseteq {req[q].by})
      PROVE  "admin" \in held[q]
  <2>1. q = r
    BY <1>3, <1>4
  <2> QED BY <1>2, <1>3, <1>4, <2>1
<1> QED BY <1>1, <1>4, QuietStep

\* Requests that only end, or go on, show nothing.
LEMMA OthersShowNothing ==
  ASSUME IInv, NEW r \in Requests,
         \/ Authenticate(r) \/ CheckEmail(r) \/ Audit(r)
         \/ \E u \in Users, o \in Asked : Begin(r, u, o)
  PROVE  UsersByAdmin /\ ServersByRight /\ TokensByRight /\ ShownByRight
<1>1. UNCHANGED <<users, servers, tokens>>
  BY DEF Authenticate, CheckEmail, Audit, Begin, tables
<1>2. (req[r].at \in Ends \/ req'[r].shown = {}) /\ \A q \in Requests : q # r => req'[q] = req[q]
  <2>1. ASSUME NEW end \in Ends, End(r, end)
        PROVE  req'[r].shown = {} /\ \A q \in Requests : q # r => req'[q] = req[q]
    BY <2>1, Shown DEF End
  <2>2. CASE Authenticate(r)
    <3>1. req[r].at = "auth" /\ req[r].shown = {}
      BY <2>2 DEF Authenticate, At, IInv, StageFits, Ends
    <3>2. CASE Admitted(req[r].by) /\ Allowed(req[r].op, users[req[r].by].role)
      BY <2>2, <3>1, <3>2, LetThrough DEF IInv, At
    <3> QED BY <2>1, <2>2, <3>2 DEF Authenticate, Ends
  <2>3. CASE CheckEmail(r)
    <3>1. req[r].at = "check" /\ req[r].shown = {}
      BY <2>3 DEF CheckEmail, At, IInv, StageFits, Ends
    <3>2. CASE Goto(r, "query")
      BY <3>1, <3>2, Gone DEF IInv, Ends
    <3> QED BY <2>1, <2>3, <3>2 DEF CheckEmail, Ends
  <2>4. CASE Audit(r)
    BY <2>1, <2>4 DEF Audit, Ends
  <2>5. CASE \E u \in Users, o \in Asked : Begin(r, u, o)
    BY <2>5 DEF Begin, IInv, TypeOK
  <2> QED BY <2>2, <2>3, <2>4, <2>5
<1> QED BY <1>1, <1>2, QuietStep

\* The queries that change a table are an administrator's, the owner's of the
\* server, or make a token for the user itself.
LEMMA WritersEntitled ==
  ASSUME IInv, NEW r \in Requests,
         DeleteServer(r) \/ CreateUser(r) \/ UpdateUser(r) \/ DeleteUser(r) \/ InsertToken(r)
  PROVE  UsersByAdmin /\ ServersByRight /\ TokensByRight /\ ShownByRight
<1>1. req[r].at = "query" /\ req[r].shown = {}
  BY DEF DeleteServer, CreateUser, UpdateUser, DeleteUser, InsertToken, At, IInv, StageFits, Ends
<1>2. /\ req[r].role \in held[r] /\ req[r].role \in Roles /\ req[r].at \notin Ends
      /\ req[r].op.do \in AdminOps => req[r].role = "admin"
  BY <1>1, Entitled DEF InUse
<1>3. /\ \A q \in Requests : q # r => req'[q] = req[q]
      /\ req'[r].at # req[r].at /\ req'[r].shown = {}
  <2>1. ASSUME NEW end \in Ends, End(r, end)
        PROVE  /\ \A q \in Requests : q # r => req'[q] = req[q]
               /\ req'[r].at # req[r].at /\ req'[r].shown = {}
    BY <1>1, <2>1, Shown DEF End, Ends
  <2>2. CASE InsertToken(r) /\ \E t \in Tokens : req' = [req EXCEPT ![r].at = "audit", ![r].token = t]
    BY <1>1, <2>2 DEF IInv, TypeOK, Request
  <2> QED BY <2>1, <2>2 DEF DeleteServer, CreateUser, UpdateUser, DeleteUser, InsertToken, Ends
<1>4. Acts(r) /\ ShownByRight
  BY <1>2, <1>3 DEF Acts, ShownByRight
<1>5. CASE DeleteServer(r)
  <2>1. /\ UNCHANGED <<users, tokens>> /\ DOMAIN servers' = DOMAIN servers \ {req[r].op.server}
    BY <1>5 DEF DeleteServer, Keep, Without
  <2>2. req[r].op.server \in DOMAIN servers => req[r].role = "admin" \/ servers[req[r].op.server] = req[r].by
    BY <1>5 DEF DeleteServer, IInv, OwnChecked
  <2>3. ServersByRight
    BY <1>2, <1>4, <2>1, <2>2 DEF ServersByRight, Roles
  <2> QED BY <1>4, <2>1, <2>3 DEF UsersByAdmin, TokensByRight
<1>6. CASE CreateUser(r) \/ UpdateUser(r) \/ DeleteUser(r)
  <2>1. "admin" \in held[r]
    BY <1>2, <1>6 DEF CreateUser, UpdateUser, DeleteUser, Does, AdminOps
  <2>2. DOMAIN tokens' \subseteq DOMAIN tokens
    BY <1>6 DEF CreateUser, UpdateUser, DeleteUser, Without
  <2> QED BY <1>4, <2>1, <2>2 DEF UsersByAdmin, ServersByRight, TokensByRight
<1>7. CASE InsertToken(r)
  <2>1. UNCHANGED <<users, servers>>
    BY <1>7 DEF InsertToken, Keep
  <2>2. \A x \in DOMAIN tokens' \ DOMAIN tokens : tokens'[x].owner = req[r].by
    <3>1. CASE UNCHANGED tokens
      BY <3>1
    <3>2. ASSUME NEW t \in Tokens \ made.tokens,
                 tokens' = Put(tokens, t, [owner |-> req[r].by, used |-> FALSE])
          PROVE  \A x \in DOMAIN tokens' \ DOMAIN tokens : tokens'[x].owner = req[r].by
      BY <3>2 DEF Put
    <3> QED BY <1>7, <3>1, <3>2 DEF InsertToken
  <2> QED BY <1>2, <1>4, <2>1, <2>2 DEF UsersByAdmin, ServersByRight, TokensByRight
<1> QED BY <1>5, <1>6, <1>7

\* Hosts answer no request: what they insert and mark needs no right.
LEMMA HostsActForNobody ==
  ASSUME IInv, NEW t \in Tokens, Download(t) \/ ReadToken(t) \/ InsertServer(t) \/ MarkUsed(t)
  PROVE  UsersByAdmin /\ ServersByRight /\ TokensByRight /\ ShownByRight
<1>1. UNCHANGED <<users, req>>
  BY DEF Download, ReadToken, InsertServer, MarkUsed, tables
<1>2. DOMAIN tokens' = DOMAIN tokens
  BY DEF Download, ReadToken, InsertServer, MarkUsed, tables
<1>3. DOMAIN servers \subseteq DOMAIN servers'
  BY DEF Download, ReadToken, InsertServer, MarkUsed, tables, Put
<1> QED BY <1>1, <1>2, <1>3 DEF UsersByAdmin, ServersByRight, TokensByRight, ShownByRight, Acts

-----------------------------------------------------------------------------
\* The inductive invariant holds in every state.
LEMMA InvariantHolds == Spec => []IInv
BY InitInv, NextInv, PTL DEF Spec

\* Types: among others, no id is in a table that was never given, and a host
\* that inserts a server knows its owner.
THEOREM TypeCorrect == Spec => []TypeOK
<1>1. IInv => TypeOK
  BY DEF IInv
<1> QED BY InvariantHolds, <1>1, PTL

\* For any number of accounts, servers, tokens and requests at a time, nothing
\* in the tables belongs to an account that is gone, an address has one
\* account, and the token of a script is there as long as the account is.
THEOREM IntegrityCorrect == Spec => []Integrity
<1>1. IInv => Integrity
  BY DEF IInv
<1> QED BY InvariantHolds, <1>1, PTL

\* Accounts change, servers go, tokens are made and rows of others are shown
\* only for somebody who had the right since the request began, however long
\* the awaits between the check and the query are and whatever happens in them.
THEOREM AuthorityCorrect == Spec => Authority
<1>1. ASSUME IInv, [Next]_vars
      PROVE  [UsersByAdmin /\ ServersByRight /\ TokensByRight /\ ShownByRight]_vars
  <2>1. CASE Next
    <3>1. ASSUME NEW r \in Requests, Handle(r)
          PROVE  UsersByAdmin /\ ServersByRight /\ TokensByRight /\ ShownByRight
      BY <1>1, <3>1, ReadersShow, OthersShowNothing, WritersEntitled DEF Handle
    <3>2. ASSUME NEW r \in Requests, NEW u \in Users, NEW o \in Asked, Begin(r, u, o)
          PROVE  UsersByAdmin /\ ServersByRight /\ TokensByRight /\ ShownByRight
      BY <1>1, <3>2, OthersShowNothing
    <3>3. ASSUME NEW t \in Tokens, Download(t) \/ ReadToken(t) \/ InsertServer(t) \/ MarkUsed(t)
          PROVE  UsersByAdmin /\ ServersByRight /\ TokensByRight /\ ShownByRight
      BY <1>1, <3>3, HostsActForNobody
    <3> QED BY <2>1, <3>1, <3>2, <3>3 DEF Next
  <2> QED BY <1>1, <2>1
<1> QED BY InvariantHolds, <1>1, PTL DEF Spec, Authority
=============================================================================
