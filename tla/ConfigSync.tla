----------------------------- MODULE ConfigSync -----------------------------
(***************************************************************************)
(* How the SOCKS5 users of one server get from the dashboard's requests to *)
(* the agent: server/src/routes/socks5-users.routes.js (requests), the     *)
(* publish, delivery and SYNC_CONFIG of server/src/websocket/manager.js,   *)
(* and what agent/src/websocket.rs does with the commands.                 *)
(*                                                                         *)
(* A request runs from await to await, concurrently with others: it reads  *)
(* the row, writes the row, and publishes a command made of the request    *)
(* and of the row as it was read.  Commands go through Redis to the agent's*)
(* socket, or nowhere when there is none; SYNC_CONFIG is sent directly.    *)
(* The agent's table keeps what no command removes.                        *)
(*                                                                         *)
(* A row is its port and one value for its other fields.  The user name is *)
(* the id; an id is a UUID, created once.  Ports can always be bound here: *)
(* Socks5Engine has the failures and the steps inside a command.           *)
(***************************************************************************)
EXTENDS Integers, FiniteSets, Sequences, FiniteSetsExt

CONSTANTS
    Users, Ports,
    Vals,       \* password, max_connections and is_active of a row
    Requests,   \* handlers of HTTP requests
    Queries,    \* syncAgentConfig, its calls under way at a time
    None,       \* a field the request does not have; no value
    Asked,      \* a query that has not been executed
    NoRow, Gone,
    Scenarios,  \* what may go wrong in a behaviour: sets of faults, see below
    MaxQueue    \* bound: commands in Redis, and messages on the agent's socket

\* "concurrent": a request may start while another is being handled.
\* "disconnect": the agent or the hub may go away, and come back.
\* "syncrace":   rows may change between the query of SYNC_CONFIG and its
\*               sending, also to another connection than it was for.
Rows == [port : Ports, val : Vals]
Table == [Users -> Rows \cup {NoRow, Gone}]

ASSUME SyncAssumption ==
    /\ Scenarios \subseteq SUBSET {"concurrent", "disconnect", "syncrace"}
    /\ MaxQueue \in Nat
    /\ None \notin Ports \cup Vals /\ None \notin Table
    /\ NoRow \notin Rows /\ Gone \notin Rows \cup {NoRow}
    /\ Asked # None /\ Asked \notin Table

VARIABLES
    db,         \* socks5_users
    pc,         \* where a request handler is
    req,        \* its parameters: user, port and val, None for a field not given
    existing,   \* the row as findById returned it
    bus,        \* commands published and not delivered
    wire,       \* messages on the socket of the agent
    link,       \* "up": a socket of the agent is registered, and open
    queries,    \* the calls of syncAgentConfig: None, Asked, or the rows read
    creds,      \* the agent: port -> user -> value, or None
    fresh,      \* history: no request, command or rows read earlier since the
                \* agent was started
    faults      \* what may go wrong in this behaviour, chosen once

hubVars == <<db, pc, req, existing>>
linkVars == <<bus, wire, link, queries>>
vars == <<hubVars, linkVars, creds, fresh, faults>>

Labels == {"idle", "postCheck", "postInsert", "putFind", "putCheck", "putWrite",
           "delFind", "delWrite", "emitAdd", "emitUpdate", "emitRemove"}
Upserts  == [type : {"upsert"}, user : Users, port : Ports, old : Ports \cup {None}, val : Vals]
Removals == [type : {"remove"}, user : Users, port : Ports]
Syncs    == [type : {"sync"}, rows : Table]
Params   == [user : Users, port : Ports \cup {None}, val : Vals \cup {None}]

Present(t, u) == t[u] \notin {NoRow, Gone}

TypeOK ==
    /\ db \in Table
    /\ pc \in [Requests -> Labels]
    /\ req \in [Requests -> Params \cup {None}]
    /\ \A r \in Requests : pc[r] # "idle" => req[r] \in Params
    /\ existing \in [Requests -> Rows \cup {NoRow}]
    /\ bus \in Seq(Upserts \cup Removals)
    /\ wire \in Seq(Upserts \cup Removals \cup Syncs)
    /\ link \in {"down", "up"}
    /\ queries \in [Queries -> Table \cup {None, Asked}]
    /\ creds \in [Ports -> [Users -> Vals \cup {None}]]
    /\ fresh \in BOOLEAN
    /\ faults \in Scenarios
    /\ \A u, v \in Users : (u # v /\ Present(db, u) /\ Present(db, v)) => db[u].port # db[v].port

Nothing == [p \in Ports |-> [u \in Users |-> None]]

Init ==
    /\ db = [u \in Users |-> NoRow]
    /\ pc = [r \in Requests |-> "idle"]
    /\ req = [r \in Requests |-> None]
    /\ existing = [r \in Requests |-> NoRow]
    /\ bus = <<>>
    /\ wire = <<>>
    /\ link = "down"
    /\ queries = [q \in Queries |-> None]
    /\ creds = Nothing
    /\ fresh = TRUE
    /\ faults \in Scenarios

-----------------------------------------------------------------------------
\* Requests.

Busy == {r \in Requests : pc[r] # "idle"}
MayStart(r) == r \notin Busy /\ ("concurrent" \in faults \/ Busy = {})

Start(r, label, u, p, v) ==
    /\ MayStart(r)
    /\ pc' = [pc EXCEPT ![r] = label]
    /\ req' = [req EXCEPT ![r] = [user |-> u, port |-> p, val |-> v]]
    /\ fresh' = FALSE
    /\ UNCHANGED <<db, existing, linkVars, creds, faults>>

\* An id is new in a POST, and one that some answer has named in the others.
Begin(r) ==
    \E u \in Users :
        \/ /\ db[u] = NoRow /\ u \notin {req[q].user : q \in Busy}
           /\ \E p \in Ports, v \in Vals : Start(r, "postCheck", u, p, v)
        \/ /\ db[u] # NoRow
           /\ \E p \in Ports \cup {None}, v \in Vals \cup {None} :
                (p # None \/ v # None) /\ Start(r, "putFind", u, p, v)
        \/ db[u] # NoRow /\ Start(r, "delFind", u, None, None)

\* The handler is between two awaits; or it has answered, and forgets.
Goto(r, label) == pc' = [pc EXCEPT ![r] = label] /\ UNCHANGED req
Answer(r) ==
    /\ pc' = [pc EXCEPT ![r] = "idle"]
    /\ req' = [req EXCEPT ![r] = None]
    /\ existing' = [existing EXCEPT ![r] = NoRow]
Continue(r, label) == Goto(r, label) /\ UNCHANGED existing

User(r) == req[r].user
Taken(p, u) == \E v \in Users \ {u} : Present(db, v) /\ db[v].port = p
Given(field, default) == IF field = None THEN default ELSE field

\* What the steps before the publish leave alone.
Quietly == UNCHANGED <<linkVars, creds, fresh, faults>>

\* POST: the port, the user name, bcrypt.
PostCheck(r) ==
    /\ pc[r] = "postCheck"
    /\ IF Taken(req[r].port, User(r)) THEN Answer(r) ELSE Continue(r, "postInsert")
    /\ UNCHANGED db /\ Quietly

\* UNIQUE (server_id, port).
Fits(p, u) == ~Taken(p, u)

\* INSERT; a violated constraint ends the request with an error.
PostInsert(r) ==
    /\ pc[r] = "postInsert"
    /\ IF Fits(req[r].port, User(r))
       THEN /\ db' = [db EXCEPT ![User(r)] = [port |-> req[r].port, val |-> req[r].val]]
            /\ Continue(r, "emitAdd")
       ELSE Answer(r) /\ UNCHANGED db
    /\ Quietly

\* findById of PUT and DELETE.
Find(r) ==
    /\ pc[r] \in {"putFind", "delFind"}
    /\ IF Present(db, User(r))
       THEN /\ existing' = [existing EXCEPT ![r] = db[User(r)]]
            /\ Goto(r, IF pc[r] = "delFind" THEN "delWrite" ELSE "putCheck")
       ELSE Answer(r)
    /\ UNCHANGED db /\ Quietly

Moves(r) == req[r].port \notin {None, existing[r].port}

PutCheck(r) ==
    /\ pc[r] = "putCheck"
    /\ IF Moves(r) /\ Taken(req[r].port, User(r)) THEN Answer(r) ELSE Continue(r, "putWrite")
    /\ UNCHANGED db /\ Quietly

\* UPDATE with COALESCE: a field not given stays as it is in the row now.  A
\* row that is gone is not updated, and the handler goes on.
PutWrite(r) ==
    /\ pc[r] = "putWrite"
    /\ LET row == db[User(r)]
           new == [port |-> Given(req[r].port, row.port), val |-> Given(req[r].val, row.val)]
       IN  CASE ~Present(db, User(r))     -> Continue(r, "emitUpdate") /\ UNCHANGED db
             [] Present(db, User(r)) /\ ~Fits(new.port, User(r)) -> Answer(r) /\ UNCHANGED db
             [] OTHER -> Continue(r, "emitUpdate") /\ db' = [db EXCEPT ![User(r)] = new]
    /\ Quietly

DelWrite(r) ==
    /\ pc[r] = "delWrite"
    /\ db' = [db EXCEPT ![User(r)] = Gone]
    /\ Continue(r, "emitRemove")
    /\ Quietly

\* Variants (bugs a run must notice): UPDATE with the request's fields only;
\* without old_port; with the old values only.
UpdatePartial(r) ==
    [type |-> "upsert", user |-> User(r), port |-> req[r].port,
     old |-> IF Moves(r) THEN existing[r].port ELSE None, val |-> req[r].val]
UpdateWithoutOld(r) ==
    [type |-> "upsert", user |-> User(r), port |-> Given(req[r].port, existing[r].port),
     old |-> None, val |-> Given(req[r].val, existing[r].val)]
UpdateStale(r) ==
    [type |-> "upsert", user |-> User(r), port |-> Given(req[r].port, existing[r].port),
     old |-> IF Moves(r) THEN existing[r].port ELSE None, val |-> existing[r].val]

\* The payload of UPDATE_SOCKS5_USER: the request's fields, else existing's.
UpdateCommand(r) ==
    [type |-> "upsert", user |-> User(r), port |-> Given(req[r].port, existing[r].port),
     old |-> IF Moves(r) THEN existing[r].port ELSE None,
     val |-> Given(req[r].val, existing[r].val)]

Command(r) ==
    CASE pc[r] = "emitAdd"    -> [type |-> "upsert", user |-> User(r), port |-> req[r].port,
                                  old |-> None, val |-> req[r].val]
      [] pc[r] = "emitUpdate" -> UpdateCommand(r)
      [] pc[r] = "emitRemove" -> [type |-> "remove", user |-> User(r), port |-> existing[r].port]

\* Publish the command, answer the request.
Emit(r) ==
    /\ pc[r] \in {"emitAdd", "emitUpdate", "emitRemove"}
    /\ Len(bus) < MaxQueue
    /\ bus' = Append(bus, Command(r))
    /\ Answer(r)
    /\ UNCHANGED <<db, wire, link, queries, creds, fresh, faults>>

-----------------------------------------------------------------------------
\* The hub and the agent's connection.

\* localSendToAgent: to the socket that is registered now, or to nobody.
Send(message) ==
    /\ Len(wire) < MaxQueue
    /\ wire' = IF link = "up" THEN Append(wire, message) ELSE wire

\* A command comes back from Redis.
Deliver ==
    /\ bus # <<>>
    /\ bus' = Tail(bus)
    /\ Send(Head(bus))
    /\ UNCHANGED <<hubVars, link, queries, creds, fresh, faults>>

\* The agent authenticates with its token and is registered; its configuration
\* is asked for.
Connect(q) ==
    /\ link = "down" /\ queries[q] = None
    /\ link' = "up"
    /\ queries' = [queries EXCEPT ![q] = Asked]
    /\ UNCHANGED <<hubVars, bus, wire, creds, fresh, faults>>

\* syncAgentConfig: SELECT, and after the await SYNC_CONFIG, whatever has become
\* of the connection it was called for.
SyncRead(q) ==
    /\ queries[q] = Asked
    /\ queries' = [queries EXCEPT ![q] = db]
    /\ UNCHANGED <<hubVars, bus, wire, link, creds, fresh, faults>>

SyncSend(q) ==
    /\ queries[q] \in Table
    /\ Send([type |-> "sync", rows |-> queries[q]])
    /\ queries' = [queries EXCEPT ![q] = None]
    /\ UNCHANGED <<hubVars, bus, link, creds, fresh, faults>>

SyncAtOnce(q) ==
    /\ queries[q] = Asked
    /\ Send([type |-> "sync", rows |-> db])
    /\ queries' = [queries EXCEPT ![q] = None]
    /\ UNCHANGED <<hubVars, bus, link, creds, fresh, faults>>

\* Variant (a bug a run must notice): no SYNC_CONFIG.
SyncSkipped(q) ==
    /\ queries[q] = Asked
    /\ queries' = [queries EXCEPT ![q] = None]
    /\ UNCHANGED <<hubVars, bus, wire, link, creds, fresh, faults>>

Sync(q) ==
    \/ "syncrace" \in faults /\ (SyncRead(q) \/ SyncSend(q))
    \/ "syncrace" \notin faults /\ SyncAtOnce(q)

\* The connection is lost with everything on it; handlers of the hub go on.
Disconnect ==
    /\ "disconnect" \in faults /\ link = "up"
    /\ link' = "down" /\ wire' = <<>>
    /\ UNCHANGED <<hubVars, bus, queries, creds, fresh, faults>>

\* The agent's process is started again: its table was in memory.
AgentRestart ==
    /\ "disconnect" \in faults
    /\ link' = "down" /\ wire' = <<>>
    /\ creds' = Nothing
    /\ fresh' = (Busy = {} /\ bus = <<>> /\ \A q \in Queries : queries[q] \in {None, Asked})
    /\ UNCHANGED <<hubVars, bus, queries, faults>>

\* The hub dies: handlers stop between two steps, commands in Redis are lost.
HubRestart ==
    /\ "disconnect" \in faults
    /\ pc' = [r \in Requests |-> "idle"]
    /\ req' = [r \in Requests |-> None]
    /\ existing' = [r \in Requests |-> NoRow]
    /\ queries' = [q \in Queries |-> None]
    /\ bus' = <<>>
    /\ link' = "down" /\ wire' = <<>>
    /\ UNCHANGED <<db, creds, fresh, faults>>

-----------------------------------------------------------------------------
\* The agent: handle_server_command.

Cleared(c, p) == [c EXCEPT ![p] = [u \in Users |-> None]]

\* An upsert frees the old port, for whoever is on it, and adds the credential.
Upserted(c, x) ==
    [(IF x.old \notin {None, x.port} THEN Cleared(c, x.old) ELSE c)
        EXCEPT ![x.port][x.user] = x.val]

\* SYNC_CONFIG adds every row it has, and removes nothing.
Merged(c, rows) ==
    [p \in Ports |-> [u \in Users |->
        IF Present(rows, u) /\ rows[u].port = p THEN rows[u].val ELSE c[p][u]]]

Apply ==
    /\ wire # <<>>
    /\ LET x == Head(wire) IN
         creds' = CASE x.type = "upsert" -> Upserted(creds, x)
                    [] x.type = "remove" -> Cleared(creds, x.port)
                    [] x.type = "sync"   -> Merged(creds, x.rows)
    /\ wire' = Tail(wire)
    /\ UNCHANGED <<hubVars, bus, link, queries, fresh, faults>>

-----------------------------------------------------------------------------
Handler(r) ==
    \/ PostCheck(r) \/ PostInsert(r)
    \/ Find(r) \/ PutCheck(r) \/ PutWrite(r) \/ DelWrite(r)
    \/ Emit(r)

Next ==
    \/ \E r \in Requests : Begin(r) \/ Handler(r)
    \/ \E q \in Queries : Connect(q) \/ Sync(q)
    \/ Deliver \/ Apply
    \/ Disconnect \/ AgentRestart \/ HubRestart

Spec == Init /\ [][Next]_vars

\* Redis, the hub and the agent go on; the agent loop reconnects.
Fairness ==
    /\ WF_vars(Deliver) /\ WF_vars(Apply)
    /\ WF_vars(\E q \in Queries : Connect(q)) /\ WF_vars(\E q \in Queries : Sync(q))

FairSpec == Spec /\ Fairness

-----------------------------------------------------------------------------
Quiet ==
    /\ Busy = {} /\ bus = <<>> /\ wire = <<>>
    /\ link = "up" /\ \A q \in Queries : queries[q] = None

Served(u) == creds[db[u].port][u] = db[u].val

\* If requests come one at a time, and none changes a row between the query of
\* SYNC_CONFIG and its sending, then whatever connections and processes are
\* lost, an agent that is connected and has nothing left to do serves every row
\* as it is in the database.
NothingMissing ==
    faults \subseteq {"disconnect"} /\ Quiet => \A u \in Users : Present(db, u) => Served(u)

\* If moreover nothing is lost, it serves nothing else.
NothingLeftOver ==
    faults = {} /\ Quiet => \A u \in Users, p \in Ports :
        creds[p][u] # None => Present(db, u) /\ db[u].port = p

\* Whatever requests overlapped, whatever was lost and however stale a
\* SYNC_CONFIG was before: an agent started again while no request, no command
\* and no rows already read for it are under way serves, once connected, the
\* rows of the database and nothing else, whichever connections are lost and
\* calls of syncAgentConfig overtake each other until then.
RestartRepairs ==
    Quiet /\ fresh =>
        \A u \in Users, p \in Ports :
            creds[p][u] = (IF Present(db, u) /\ db[u].port = p THEN db[u].val ELSE None)

\* Once requests and losses have ended, every row is served, for good, if
\* requests came one at a time and none changed a row between the query of
\* SYNC_CONFIG and its sending.
EventuallyServed ==
    (/\ faults \subseteq {"disconnect"}
     /\ <>[](Busy = {})
     /\ <>[][~(Disconnect \/ AgentRestart \/ HubRestart)]_vars)
        => <>[](\A u \in Users : Present(db, u) => Served(u))
=============================================================================
