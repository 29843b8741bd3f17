---------------------------- MODULE Registration ----------------------------
(***************************************************************************)
(* How an agent becomes a server of the hub, and stays the same one: the   *)
(* start of main.rs, the config file of agent/src/config.rs, the           *)
(* authentication of agent/src/websocket.rs, and handleAgentAuth of        *)
(* server/src/websocket/manager.js with one install token.                 *)
(*                                                                         *)
(* Agents are machines on which the token was used to install.  A row of   *)
(* servers is a number, and so is its agent token.  What HubRegistry has   *)
(* (status, registered sockets, heartbeats) is left out here.              *)
(***************************************************************************)
EXTENDS Integers, FiniteSets, Sequences

CONSTANTS
    Agents,
    ByArgument,     \* agents started with --install-token
    Handlers,       \* handleAgentAuth, one for a connection at a time
    None,
    Torn,           \* content of a file that is truncated and not written
    Faults,
    MaxServers      \* bound: rows of servers

\* "lost":   connections end at any moment.
\* "crash":  an agent's process ends at any moment.
\* "hub":    the hub's process ends at any moment.
\* "delete": users delete servers.
\* "expire": the install token's 30 days pass.
\* "disk":   a write to the config file fails.
ASSUME RegistrationAssumption ==
    /\ ByArgument \subseteq Agents
    /\ None \notin Handlers
    /\ MaxServers \in Nat
    /\ Torn \notin 0..MaxServers
    /\ Faults \subseteq {"lost", "crash", "hub", "delete", "expire", "disk"}

VARIABLES
    used, expired,  \* the install token
    servers,        \* rows ever inserted; history: the agent of each
    gone,           \* rows deleted
    file,           \* config.json: Torn, 0 without agent token, or the token
    config,         \* the AgentConfig the process works with, likewise
    saved,          \* history: the token last written to the file, 0 before
    pc,             \* where the agent is; "off": no process
    conn,           \* the handler of the agent's connection, or None
    step, job       \* the handlers: where each is, and for what

hubVars == <<used, expired, servers, gone>>
fileVars == <<file, config, saved>>
vars == <<hubVars, fileVars, pc, conn, step, job>>

Ids == 1..Len(servers)
Jobs == [agent : Agents, server : 0..MaxServers]

\* The agent reads its connection; it has something to save first.  (When
\* conn[a] is None then, the connection has ended, and a does not know yet.)
Waiting == {"auth", "up"}
Saving == {"authSave", "authWrite"}

TypeOK ==
    /\ used \in BOOLEAN /\ expired \in BOOLEAN
    /\ servers \in Seq(Agents) /\ Len(servers) <= MaxServers
    /\ gone \subseteq Ids
    /\ saved \in [Agents -> Ids \cup {0}]
    /\ file \in [Agents -> Ids \cup {0, Torn}]
    /\ \A a \in Agents : file[a] \in {saved[a], Torn}
    /\ config \in [Agents -> Ids \cup {0}]
    /\ pc \in [Agents -> {"off", "bootSave", "bootWrite", "loop", "auth", "authSave",
                          "authWrite", "up"}]
    /\ conn \in [Agents -> Handlers \cup {None}]
    /\ \A a \in Agents : conn[a] # None => pc[a] \in Waiting \cup Saving
    /\ step \in [Handlers -> {"idle", "lookup", "insert", "mark", "find", "grant", "refuse"}]
    /\ job \in [Handlers -> Jobs \cup {None}]
    /\ \A h \in Handlers : step[h] = "idle" \/ job[h] \in Jobs

Init ==
    /\ used = FALSE /\ expired = FALSE
    /\ servers = <<>> /\ gone = {}
    /\ file = [a \in Agents |-> 0]
    /\ config = [a \in Agents |-> 0]
    /\ saved = [a \in Agents |-> 0]
    /\ pc = [a \in Agents |-> "off"]
    /\ conn = [a \in Agents |-> None]
    /\ step = [h \in Handlers |-> "idle"]
    /\ job = [h \in Handlers |-> None]

Goto(a, label) == pc' = [pc EXCEPT ![a] = label]

\* Variant (a bug a run must notice): the agent tries again and keeps the
\* connection.
HangUpNot(a) == UNCHANGED conn
HangUp(a) == conn' = [conn EXCEPT ![a] = None]

-----------------------------------------------------------------------------
\* The agent.

\* Variant (a bug a run must notice): the arguments start a config of its own.
BootConfigFresh(a) == 0
BootConfig(a) == file[a]

\* run_agent: a config that cannot be parsed ends the process; with
\* --install-token the config is saved, whatever it was.
Start(a) ==
    /\ pc[a] = "off" /\ file[a] # Torn
    /\ config' = [config EXCEPT ![a] = BootConfig(a)]
    /\ Goto(a, IF a \in ByArgument THEN "bootSave" ELSE "loop")
    /\ UNCHANGED <<hubVars, file, saved, conn, step, job>>

\* ConfigStore::save: File::create truncates ...
Truncate(a) ==
    /\ pc[a] \in {"bootSave", "authSave"}
    /\ file' = [file EXCEPT ![a] = Torn]
    /\ Goto(a, IF pc[a] = "bootSave" THEN "bootWrite" ELSE "authWrite")
    /\ UNCHANGED <<hubVars, config, saved, conn, step, job>>

\* After a save: to the loop at a start, to the connection else.
Resumed(a) == IF pc[a] = "bootWrite" THEN "loop" ELSE "up"

\* ... and write_all writes.
Write(a) ==
    /\ pc[a] \in {"bootWrite", "authWrite"}
    /\ file' = [file EXCEPT ![a] = config[a]]
    /\ saved' = [saved EXCEPT ![a] = config[a]]
    /\ Goto(a, Resumed(a))
    /\ UNCHANGED <<hubVars, config, conn, step, job>>

\* The disk is full: main gives up, the connection goes on.
WriteFails(a) ==
    /\ "disk" \in Faults /\ pc[a] \in {"bootWrite", "authWrite"}
    /\ Goto(a, IF pc[a] = "bootWrite" THEN "off" ELSE "up")
    /\ UNCHANGED <<hubVars, fileVars, conn, step, job>>

\* Variant (a bug a run must notice): the install token first.
FirstStepInstall(a) == IF a \in ByArgument THEN "lookup" ELSE "find"

\* The token of AGENT_AUTH, by where the handler begins.
FirstStep(a) == IF file[a] # 0 THEN "find" ELSE "lookup"

\* The bound on rows: no registration begins that could be one too many.
Pending == {h \in Handlers : step[h] \in {"lookup", "insert"}}
MayRegister == used \/ Len(servers) + Cardinality(Pending) < MaxServers

\* The loop of run: load the config, connect, send AGENT_AUTH.  A config that
\* cannot be parsed, or no token at all, and the loop waits and tries again.
Connect(a, h) ==
    /\ pc[a] = "loop" /\ file[a] # Torn
    /\ file[a] # 0 \/ (a \in ByArgument /\ MayRegister)
    /\ step[h] = "idle"
    /\ config' = [config EXCEPT ![a] = file[a]]
    /\ conn' = [conn EXCEPT ![a] = h]
    /\ step' = [step EXCEPT ![h] = FirstStep(a)]
    /\ job' = [job EXCEPT ![h] = [agent |-> a, server |-> file[a]]]
    /\ Goto(a, "auth")
    /\ UNCHANGED <<hubVars, file, saved>>

\* The connection has ended: read.next() says so, or a heartbeat fails.
Notices(a) ==
    /\ pc[a] \in Waiting /\ conn[a] = None
    /\ Goto(a, "loop")
    /\ UNCHANGED <<hubVars, fileVars, conn, step, job>>

\* An agent that is up sends heartbeats, and one of them fails in the end.  One
\* that waits for AUTH_RESULT sends nothing and has no timeout: when the end
\* does not reach it, it waits for ever.
HeartbeatFails(a) == pc[a] = "up" /\ Notices(a)
Stranded(a) == pc[a] = "auth" /\ conn[a] = None

-----------------------------------------------------------------------------
\* handleAgentAuth, from query to query.

HandlerGoes(h, label) == step' = [step EXCEPT ![h] = label]
AgentsWait == UNCHANGED <<fileVars, pc, conn>>

Lookup(h) ==
    /\ step[h] = "lookup"
    /\ HandlerGoes(h, IF used \/ expired THEN "refuse" ELSE "insert")
    /\ UNCHANGED <<hubVars, job>> /\ AgentsWait

Insert(h) ==
    /\ step[h] = "insert" /\ Len(servers) < MaxServers
    /\ servers' = Append(servers, job[h].agent)
    /\ job' = [job EXCEPT ![h].server = Len(servers')]
    /\ HandlerGoes(h, "mark")
    /\ UNCHANGED <<used, expired, gone>> /\ AgentsWait

Mark(h) ==
    /\ step[h] = "mark"
    /\ used' = TRUE
    /\ HandlerGoes(h, "grant")
    /\ UNCHANGED <<expired, servers, gone, job>> /\ AgentsWait

Find(h) ==
    /\ step[h] = "find"
    /\ HandlerGoes(h, IF job[h].server \in gone THEN "refuse" ELSE "grant")
    /\ UNCHANGED <<hubVars, job>> /\ AgentsWait

\* Variant (a bug a run must notice): the row is looked up by install token.
GrantedLatest(h) == Len(servers)
Granted(h) == job[h].server

\* AUTH_RESULT.  The agent, if it is still there, saves its config, also when
\* only server_id is in the answer; refused, it tries again.
Answer(h) ==
    LET a == job[h].agent
        received == conn[a] = h
    IN  /\ step[h] \in {"grant", "refuse"}
        /\ HandlerGoes(h, "idle")
        /\ job' = [job EXCEPT ![h] = None]
        /\ IF received /\ step[h] = "grant"
           THEN /\ config' = [config EXCEPT ![a] = Granted(h)]
                /\ Goto(a, "authSave") /\ UNCHANGED conn
           ELSE /\ UNCHANGED config
                /\ IF received THEN Goto(a, "loop") /\ HangUp(a)
                               ELSE UNCHANGED <<pc, conn>>
        /\ UNCHANGED <<hubVars, file, saved>>

-----------------------------------------------------------------------------
\* Failures, and what users do.

\* Connections end; the agents may hear of it, or not.
Cut(as) ==
    /\ conn' = [a \in Agents |-> IF a \in as THEN None ELSE conn[a]]
    /\ UNCHANGED pc

\* A handler that is awaiting a query goes on for nobody.
Lose(a) ==
    /\ "lost" \in Faults /\ conn[a] # None
    /\ Cut({a})
    /\ UNCHANGED <<hubVars, fileVars, step, job>>

Crash(a) ==
    /\ "crash" \in Faults /\ pc[a] # "off"
    /\ Goto(a, "off") /\ HangUp(a)
    /\ UNCHANGED <<hubVars, fileVars, step, job>>

HubRestart ==
    /\ "hub" \in Faults /\ \E a \in Agents : conn[a] # None
    /\ Cut(Agents)
    /\ step' = [h \in Handlers |-> "idle"]
    /\ job' = [h \in Handlers |-> None]
    /\ UNCHANGED <<hubVars, fileVars>>

Delete ==
    /\ "delete" \in Faults
    /\ \E n \in Ids \ gone : gone' = gone \cup {n}
    /\ UNCHANGED <<used, expired, servers, fileVars, pc, conn, step, job>>

Expire ==
    /\ "expire" \in Faults /\ ~expired
    /\ expired' = TRUE
    /\ UNCHANGED <<used, servers, gone, fileVars, pc, conn, step, job>>

-----------------------------------------------------------------------------
Agent(a) ==
    \/ Start(a) \/ Truncate(a) \/ Write(a)
    \/ \E h \in Handlers : Connect(a, h)
    \/ HeartbeatFails(a)
Handler(h) == Lookup(h) \/ Insert(h) \/ Mark(h) \/ Find(h) \/ Answer(h)
Loss == HubRestart \/ Expire \/ Delete \/ \E a \in Agents : Lose(a) \/ Crash(a) \/ WriteFails(a)

Next ==
    \/ \E a \in Agents : Agent(a) \/ Notices(a)
    \/ \E h \in Handlers : Handler(h)
    \/ Loss

Spec == Init /\ [][Next]_vars

\* The service manager restarts agents, agents retry, handlers go on.
FairSpec ==
    /\ Spec
    /\ \A a \in Agents : WF_vars(Agent(a))
    /\ \A h \in Handlers : WF_vars(Handler(h))

-----------------------------------------------------------------------------
\* A token that an agent has saved is that of a row made for this agent, also
\* when agents share an install token and answers come for connections that
\* are gone: two agents never are one server.
TokenIsOwn == \A a \in Agents : file[a] \in Ids => servers[file[a]] = a

\* Once saved, an agent's token never changes: restarts with --install-token,
\* lost answers, refusals and writes that fail half way included.
IdentityKept == [][\A a \in Agents : saved[a] # 0 => saved'[a] = saved[a]]_vars

LossesEnd == <>[][~Loss]_vars

EndsHeard == \A a \in Agents : []<>~Stranded(a)

\* When losses end, and none was so silent that an agent goes on waiting for the
\* answer of a connection that is gone, an agent with a token of an existing row
\* is connected.
EventuallyUp ==
    LossesEnd /\ EndsHeard =>
        \A a \in Agents : <>[](file[a] \in Ids \ gone =>
                                 conn[a] # None /\ pc[a] \in Saving \cup {"up"})
=============================================================================
