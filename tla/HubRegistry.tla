----------------------------- MODULE HubRegistry -----------------------------
(***************************************************************************)
(* server/src/websocket/manager.js: which agent connections the hub knows, *)
(* and what the servers table says of them.                                *)
(*                                                                         *)
(* Every hub instance keeps a map serverId -> socket for the agents that   *)
(* authenticated with it; the database keeps one status per server.  Both  *)
(* are written by handlers that run to the next await and no further: the  *)
(* authentication of a reconnecting agent, its heartbeats, and the cleanup *)
(* of a connection, whose UPDATE nobody waits for.  Queries go through a   *)
(* connection pool, so that one may take effect after a later one.         *)
(*                                                                         *)
(* Agents authenticate with the token of a registered server here.         *)
(***************************************************************************)
EXTENDS Integers, FiniteSets, Sequences, SequencesExt

CONSTANTS
    Servers,    \* registered servers, one agent each
    Sockets,    \* identities of connections; reused once nothing refers to one
    Instances,  \* hub processes behind the load balancer
    None,
    Scenarios,  \* what may go wrong in a behaviour: sets of faults, see below
    MaxLate     \* bound: issued UPDATEs that have not taken effect

\* "overlap": an agent may reconnect before the hub has noticed that its old
\*            connection is gone, and done with it.
\* "early":   a connection may end while its authentication is handled.
\* "crash":   a hub instance may die; the agents reconnect to another one.
\* "reorder": the pool may carry out two UPDATEs in the other order.
ASSUME HubAssumption ==
    /\ Scenarios \subseteq SUBSET {"overlap", "early", "crash", "reorder"}
    /\ None \notin Sockets /\ MaxLate \in Nat

VARIABLES
    ws,      \* socket, hub side: "closed", "open", or "ended": not OPEN any
             \* more, its close event not handled yet
    at,      \* socket -> the instance that accepted it
    owner,   \* socket -> the server whose agent opened it
    bound,   \* socket -> ws.serverId is set and ws.isAgent is true
    auth,    \* socket -> where handleAgentAuth is
    isAlive, \* socket -> a pong has come since the last ping
    agents,  \* instance -> server -> socket, or None
    status,  \* the servers table: "online", "offline" or "deleted"
    late,    \* UPDATEs issued by heartbeats and cleanups, in order
    link,    \* agent side: server -> the socket its agent uses, or None
    faults   \* what may go wrong in this behaviour, chosen once

sockVars == <<ws, at, owner, bound, auth, isAlive>>
vars == <<sockVars, agents, status, late, link, faults>>

Handling == {"hello", "found", "updated", "sync"}
Update == [server : Servers, status : {"online", "offline"}]

TypeOK ==
    /\ ws \in [Sockets -> {"closed", "open", "ended"}]
    /\ at \in [Sockets -> Instances]
    /\ owner \in [Sockets -> Servers]
    /\ bound \in [Sockets -> BOOLEAN]
    /\ auth \in [Sockets -> {"none", "done"} \cup Handling]
    /\ isAlive \in [Sockets -> BOOLEAN]
    /\ agents \in [Instances -> [Servers -> Sockets \cup {None}]]
    /\ status \in [Servers -> {"online", "offline", "deleted"}]
    /\ late \in Seq(Update) /\ Len(late) <= MaxLate
    /\ link \in [Servers -> Sockets \cup {None}]
    /\ faults \in Scenarios
    /\ \A i \in Instances, s \in Servers : \A k \in Sockets :
         agents[i][s] = k => owner[k] = s /\ at[k] = i /\ bound[k]

Init ==
    /\ ws = [k \in Sockets |-> "closed"]
    /\ at \in [Sockets -> Instances]
    /\ owner \in [Sockets -> Servers]
    /\ bound = [k \in Sockets |-> FALSE]
    /\ auth = [k \in Sockets |-> "none"]
    /\ isAlive = [k \in Sockets |-> TRUE]
    /\ agents = [i \in Instances |-> [s \in Servers |-> None]]
    /\ status = [s \in Servers |-> "offline"]
    /\ late = <<>>
    /\ link = [s \in Servers |-> None]
    /\ faults \in Scenarios

-----------------------------------------------------------------------------
\* The database: an UPDATE of a deleted row changes nothing.
SetStatus(s, v) ==
    status' = IF status[s] = "deleted" THEN status ELSE [status EXCEPT ![s] = v]

Issue(s, v) ==
    /\ Len(late) < MaxLate
    /\ late' = Append(late, [server |-> s, status |-> v])

\* One of the issued UPDATEs takes effect.
Execute ==
    \E n \in DOMAIN late :
        /\ n = 1 \/ "reorder" \in faults
        /\ SetStatus(late[n].server, late[n].status)
        /\ late' = RemoveAt(late, n)
        /\ UNCHANGED <<sockVars, agents, link, faults>>

\* DELETE /api/servers/:id; neither the registry nor the agent is told.
DeleteServer(s) ==
    /\ status' = [status EXCEPT ![s] = "deleted"]
    /\ UNCHANGED <<sockVars, agents, late, link, faults>>

-----------------------------------------------------------------------------
\* The agent's side of a connection.

\* Nothing refers to k any more: it can stand for a new connection.
Unused(k) ==
    /\ ws[k] = "closed" /\ auth[k] \notin Handling
    /\ \A i \in Instances, s \in Servers : agents[i][s] # k
    /\ \A s \in Servers : link[s] # k

\* The hub has seen the end of every earlier connection of s.
Forgotten(s) ==
    /\ \A k \in Sockets : owner[k] = s => ws[k] = "closed" /\ auth[k] \notin Handling
    /\ \A n \in DOMAIN late : late[n].server # s

\* The agent loop connects and sends AGENT_AUTH.
Connect(s, k, i) ==
    /\ link[s] = None
    /\ Unused(k)
    /\ "overlap" \in faults \/ Forgotten(s)
    /\ link' = [link EXCEPT ![s] = k]
    /\ ws' = [ws EXCEPT ![k] = "open"]
    /\ at' = [at EXCEPT ![k] = i]
    /\ owner' = [owner EXCEPT ![k] = s]
    /\ bound' = [bound EXCEPT ![k] = FALSE]
    /\ auth' = [auth EXCEPT ![k] = "hello"]
    /\ isAlive' = [isAlive EXCEPT ![k] = TRUE]
    /\ UNCHANGED <<agents, status, late, faults>>

\* The agent's end is gone: the process died, or the network is down.
Drop(s) ==
    /\ link[s] # None
    /\ auth[link[s]] \in Handling => "early" \in faults
    /\ link' = [link EXCEPT ![s] = None]
    /\ UNCHANGED <<sockVars, agents, status, late, faults>>

\* The agent learns that the hub has closed the connection.
NoticeClosed(s) ==
    /\ link[s] # None /\ ws[link[s]] # "open"
    /\ link' = [link EXCEPT ![s] = None]
    /\ UNCHANGED <<sockVars, agents, status, late, faults>>

Peer(k) == link[owner[k]] = k

-----------------------------------------------------------------------------
\* handleAgentAuth, agent_token: it is not stopped by the end of its socket.

Lookup(k) ==
    /\ auth[k] = "hello"
    /\ auth' = [auth EXCEPT ![k] = IF status[owner[k]] = "deleted" THEN "none" ELSE "found"]
    /\ UNCHANGED <<ws, at, owner, bound, isAlive, agents, status, late, link, faults>>

\* The UPDATE to online takes effect.
MarkOnline(k) ==
    /\ auth[k] = "found"
    /\ "reorder" \in faults \/ \A n \in DOMAIN late : late[n].server # owner[k]
    /\ SetStatus(owner[k], "online")
    /\ auth' = [auth EXCEPT ![k] = "updated"]
    /\ UNCHANGED <<ws, at, owner, bound, isAlive, agents, late, link, faults>>

\* Variant (a bug a run must notice): ws.serverId is not set; an
\* entry that is there already is kept.
RegisterUnbound(k) ==
    /\ auth[k] = "updated"
    /\ agents' = [agents EXCEPT ![at[k]][owner[k]] = k]
    /\ auth' = [auth EXCEPT ![k] = "sync"]
    /\ UNCHANGED <<ws, at, owner, bound, isAlive, status, late, link, faults>>

RegisterOnce(k) ==
    /\ auth[k] = "updated"
    /\ bound' = [bound EXCEPT ![k] = TRUE]
    /\ agents' = IF agents[at[k]][owner[k]] = None
                 THEN [agents EXCEPT ![at[k]][owner[k]] = k]
                 ELSE agents
    /\ auth' = [auth EXCEPT ![k] = "sync"]
    /\ UNCHANGED <<ws, at, owner, isAlive, status, late, link, faults>>

\* The continuation: the registry, AUTH_RESULT, and the query of the users.
Register(k) ==
    /\ auth[k] = "updated"
    /\ bound' = [bound EXCEPT ![k] = TRUE]
    /\ agents' = [agents EXCEPT ![at[k]][owner[k]] = k]
    /\ auth' = [auth EXCEPT ![k] = "sync"]
    /\ UNCHANGED <<ws, at, owner, isAlive, status, late, link, faults>>

\* SYNC_CONFIG goes to the registered socket, the status to the dashboards.
Synced(k) ==
    /\ auth[k] = "sync"
    /\ auth' = [auth EXCEPT ![k] = "done"]
    /\ UNCHANGED <<ws, at, owner, bound, isAlive, agents, status, late, link, faults>>

\* Variant (a bug a run must notice): only last_heartbeat is set.
HeartbeatTimeOnly(k) ==
    /\ ws[k] = "open" /\ Peer(k) /\ bound[k]
    /\ UNCHANGED vars

Heartbeat(k) ==
    /\ ws[k] = "open" /\ Peer(k) /\ bound[k]
    /\ Issue(owner[k], "online")
    /\ UNCHANGED <<sockVars, agents, status, link, faults>>

-----------------------------------------------------------------------------
\* The end of a connection, hub side.

\* Variant (a bug a run must notice): the status is left alone.
CleanupSilent(k) ==
    /\ agents' = IF bound[k] THEN [agents EXCEPT ![at[k]][owner[k]] = None] ELSE agents
    /\ UNCHANGED late

\* cleanupConnection: the entry of the server goes, whichever socket it names.
Cleanup(k) ==
    IF bound[k]
    THEN /\ agents' = [agents EXCEPT ![at[k]][owner[k]] = None]
         /\ Issue(owner[k], "offline")
    ELSE UNCHANGED <<agents, late>>

\* The end of the stream, or a write to a peer that is gone.
StreamEnds(k) ==
    /\ ws[k] = "open" /\ ~Peer(k)
    /\ ws' = [ws EXCEPT ![k] = "ended"]
    /\ UNCHANGED <<at, owner, bound, auth, isAlive, agents, status, late, link, faults>>

\* An error event cleans up too, and the close event after it once more.
ErrorEvent(k) ==
    /\ ws[k] = "open" /\ ~Peer(k)
    /\ ws' = [ws EXCEPT ![k] = "ended"]
    /\ Cleanup(k)
    /\ UNCHANGED <<at, owner, bound, auth, isAlive, status, link, faults>>

CloseEvent(k) ==
    /\ ws[k] = "ended"
    /\ ws' = [ws EXCEPT ![k] = "closed"]
    /\ Cleanup(k)
    /\ UNCHANGED <<at, owner, bound, auth, isAlive, status, link, faults>>

\* Variant (a bug a run must notice): isAlive is not reset.
CheckForgetful(i) ==
    /\ \E k \in Sockets : at[k] = i /\ ws[k] = "open"
    /\ ws' = [k \in Sockets |-> IF at[k] = i /\ ws[k] = "open" /\ ~isAlive[k]
                                THEN "ended" ELSE ws[k]]
    /\ UNCHANGED <<at, owner, bound, auth, isAlive, agents, status, late, link, faults>>

\* The 30 s check of one instance: a socket without a pong since the last
\* check is terminated, the others are pinged.
Check(i) ==
    LET mine == {k \in Sockets : at[k] = i /\ ws[k] = "open"}
        dead == {k \in mine : ~isAlive[k]}
    IN  /\ mine # {}
        /\ "early" \in faults \/ \A k \in dead : auth[k] \notin Handling
        /\ ws' = [k \in Sockets |-> IF k \in dead THEN "ended" ELSE ws[k]]
        /\ isAlive' = [k \in Sockets |-> IF k \in mine THEN FALSE ELSE isAlive[k]]
        /\ UNCHANGED <<at, owner, bound, auth, agents, status, late, link, faults>>

Pong(k) ==
    /\ ws[k] = "open" /\ Peer(k) /\ ~isAlive[k]
    /\ isAlive' = [isAlive EXCEPT ![k] = TRUE]
    /\ UNCHANGED <<ws, at, owner, bound, auth, agents, status, late, link, faults>>

\* An instance dies and is started again: no cleanup runs, and nothing looks
\* at the status its agents were left with.
Crash(i) ==
    /\ "crash" \in faults
    /\ ws' = [k \in Sockets |-> IF at[k] = i THEN "closed" ELSE ws[k]]
    /\ auth' = [k \in Sockets |-> IF at[k] = i THEN "none" ELSE auth[k]]
    /\ agents' = [agents EXCEPT ![i] = [s \in Servers |-> None]]
    /\ UNCHANGED <<at, owner, bound, isAlive, status, late, link, faults>>

-----------------------------------------------------------------------------
Agent(s) ==
    \/ \E k \in Sockets, i \in Instances : Connect(s, k, i)
    \/ Drop(s)
    \/ NoticeClosed(s)

Authentication(k) == Lookup(k) \/ MarkOnline(k) \/ Register(k) \/ Synced(k)

Ending(k) == StreamEnds(k) \/ ErrorEvent(k) \/ CloseEvent(k)

Next ==
    \/ \E s \in Servers : Agent(s) \/ DeleteServer(s)
    \/ \E k \in Sockets : Authentication(k) \/ Heartbeat(k) \/ Ending(k) \/ Pong(k)
    \/ \E i \in Instances : Check(i) \/ Crash(i)
    \/ Execute

Spec == Init /\ [][Next]_vars

\* Handlers, timers and queries go on.  That the end of a stream is noticed is
\* not assumed (the network may swallow it), nor that an agent reconnects.
Fairness ==
    /\ WF_vars(Execute)
    /\ \A k \in Sockets :
        /\ WF_vars(Lookup(k) \/ Register(k) \/ Synced(k)) /\ SF_vars(MarkOnline(k))
        /\ SF_vars(CloseEvent(k))
        /\ SF_vars(Heartbeat(k))
    /\ \A i \in Instances : WF_vars(Check(i))

FairSpec == Spec /\ Fairness

-----------------------------------------------------------------------------
\* The agent of s has been told that it is authenticated, on a connection that
\* is up at both ends.
Connected(s, k) ==
    /\ link[s] = k /\ ws[k] = "open"
    /\ auth[k] \in {"sync", "done"}

Reachable(s) == \E i \in Instances : agents[i][s] # None /\ Connected(s, agents[i][s])

\* If an agent reconnects only after the hub is done with its old connection,
\* then whatever else happens a command for its server is delivered as long as
\* it is connected.
ConnectedIsReachable ==
    "overlap" \notin faults =>
    \A s \in Servers, k \in Sockets : Connected(s, k) => agents[at[k]][s] = k

\* When nothing goes wrong but connections that end, and every handler and
\* query has finished, the status is online for the servers with an open
\* connection and offline for the others.
StatusTruthful ==
    faults = {} =>
    \A s \in Servers :
        (/\ Len(late) = 0
         /\ status[s] # "deleted"
         /\ \A k \in Sockets : owner[k] = s => ws[k] # "ended" /\ auth[k] \notin Handling)
        => (status[s] = "online" <=> \E k \in Sockets : owner[k] = s /\ ws[k] = "open")

\* A half-open connection is always found out by the ping check, even when the
\* end of its stream is never seen.
HalfOpenEnds ==
    \A k \in Sockets : (ws[k] = "open" /\ ~Peer(k)) ~> (ws[k] # "open" \/ Peer(k))

\* Whatever goes wrong, an agent that stays connected is shown online in the
\* end: its heartbeats repair the status.
ConnectedIsOnline ==
    \A s \in Servers : LET up == \E k \in Sockets : Connected(s, k) IN
        up ~> (status[s] \in {"online", "deleted"} \/ ~up)

-----------------------------------------------------------------------------
\* docs/user-flows.md, flow 6: a reconnected agent resumes normal operation,
\* commands of the dashboard included.
ReconnectedIsReachable ==
    \A s \in Servers :
        (\E k \in Sockets : Connected(s, k)) ~>
            (Reachable(s) \/ \A k \in Sockets : ~Connected(s, k))
=============================================================================
