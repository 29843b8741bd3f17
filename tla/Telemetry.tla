----------------------------- MODULE Telemetry -----------------------------
(***************************************************************************)
(* How the traffic of an agent becomes numbers on a dashboard: the byte    *)
(* counters of TrafficRelay, the metrics loop of agent/src/websocket.rs,   *)
(* handleMetricsReport of server/src/websocket/manager.js from await to    *)
(* await, and the events it publishes through Redis to the dashboard       *)
(* sockets registered on the instances of the hub.                         *)
(*                                                                         *)
(* One server and its owner.  A report is its two counters.  Dashboard     *)
(* sockets authenticate with valid tokens, each as one user.  HubRegistry  *)
(* has the agent's own registration and the events of its status.          *)
(***************************************************************************)
EXTENDS TrafficRelay, Sequences

CONSTANTS
    Accounts, Owner,
    Instances, AgentHome,   \* of the hub; the one the agent connects to
    Sockets, Home,          \* of dashboards; the instance of each
    Handlers,               \* reports an instance handles at a time
    None,
    Scenarios               \* bounds and faults of a behaviour

\* "ends":   connections through the proxy end or fail.
\* "slow":   queries of two handlers overtake each other.
\* "lost":   the agent's connection ends.
\* "crash":  the agent's process ends.
\* "hub":    an instance of the hub restarts.
Scenario == [bytes : Nat,           \* bound: bytes a source sends
             dirs : SUBSET Dirs,    \* directions in which anything happens
             handlers : SUBSET Handlers,    \* none: the agent does not connect
             sockets : SUBSET Sockets,
             events : Nat,          \* bound: events Redis has for an instance
             faults : SUBSET {"ends", "slow", "lost", "crash", "hub"}]

ASSUME TelemetryAssumption ==
    /\ Owner \in Accounts /\ AgentHome \in Instances
    /\ Home \in [Sockets -> Instances]
    /\ None \notin Accounts /\ None \notin Nat /\ None \notin [in : Nat, out : Nat \cup {None}]
    /\ Scenarios \subseteq Scenario

VARIABLES
    scenario,   \* chosen once
    link,       \* the agent's connection is "up" or "down"
    loop,       \* the metrics loop: what it has loaded, or None
    wire,       \* reports on the connection
    step, job,  \* the handlers: where each is, and its report
    ahead,      \* pairs of handlers: the next query of one was made before
                \* that of the other
    last,       \* the newest row of server_metrics
    metadata,   \* the report in servers.metadata
    dashboards, \* Map of each instance: userId -> sockets
    sock,       \* the sockets
    bus,        \* events on their way to each instance
    due         \* history: the last event published for a socket since it
                \* was registered

agentVars == <<link, loop, wire>>
handlerVars == <<step, job, ahead>>
tableVars == <<last, metadata>>
clientVars == <<dashboards, sock, due>>
vars == <<relayVars, scenario, agentVars, handlerVars, tableVars, clientVars, bus>>

Fault(x) == x \in scenario.faults

Busy == {h \in Handlers : step[h] # "idle"}

Reports == [in : Nat, out : Nat]
Events == [user : Accounts, report : Reports]

AgentTypeOK ==
    /\ link \in {"up", "down"}
    /\ loop \in [in : Nat, out : Nat \cup {None}] \cup {None}
    /\ wire \in Seq(Reports)

HandlerTypeOK ==
    /\ step \in [Handlers -> {"idle", "insert", "update"}]
    /\ job \in [Handlers -> Reports \cup {None}]
    /\ \A h \in Handlers : step[h] = "idle" <=> job[h] = None
    /\ ahead \subseteq Busy \X Busy
    /\ last \in Reports \cup {None} /\ metadata \in Reports \cup {None}

ClientTypeOK ==
    /\ DOMAIN dashboards = Instances
    /\ \A i \in Instances :
         DOMAIN dashboards[i] \subseteq Accounts
         /\ \A u \in DOMAIN dashboards[i] : dashboards[i][u] \subseteq Sockets
    /\ sock \in [Sockets -> [at : {"closed", "open", "error"}, user : Accounts \cup {None},
                             seen : Reports \cup {None}]]
    /\ bus \in [Instances -> Seq(Events)]
    /\ due \in [Sockets -> Reports \cup {None}]

TypeOK == RelayTypeOK /\ scenario \in Scenarios /\ AgentTypeOK /\ HandlerTypeOK /\ ClientTypeOK

Shut == [at |-> "closed", user |-> None, seen |-> None]
NoClients == [u \in {} |-> {}]

Init ==
    /\ RelayInit
    /\ scenario \in Scenarios
    /\ link = "down" /\ loop = None /\ wire = <<>>
    /\ step = [h \in Handlers |-> "idle"] /\ job = [h \in Handlers |-> None] /\ ahead = {}
    /\ last = None /\ metadata = None
    /\ dashboards = [i \in Instances |-> NoClients]
    /\ sock = [k \in Sockets |-> Shut]
    /\ bus = [i \in Instances |-> <<>>]
    /\ due = [k \in Sockets |-> None]

-----------------------------------------------------------------------------
\* The agent.

\* Connections through the proxy, within the bounds.
Traffic ==
    /\ \/ \E c \in Conns : Open(c) /\ scenario.bytes > 0
       \/ \E f \in Conns \X scenario.dirs : \/ Send(f) /\ sent[f] < scenario.bytes
                                            \/ Fault("ends") /\ (EndSource(f) \/ Fail(f))
    /\ UNCHANGED <<scenario, agentVars, handlerVars, tableVars, clientVars, bus>>

Relaying(c) ==
    /\ RelayStep(c)
    /\ UNCHANGED <<scenario, agentVars, handlerVars, tableVars, clientVars, bus>>

\* Authenticated; the metrics loop starts.
Connect ==
    /\ link = "down" /\ scenario.handlers # {}
    /\ link' = "up" /\ loop' = None /\ wire' = <<>>
    /\ UNCHANGED <<relayVars, scenario, handlerVars, tableVars, clientVars, bus>>

Down == link' = "down" /\ loop' = None /\ wire' = <<>>

\* The connection ends and the metrics loop is aborted.
Lose ==
    /\ Fault("lost") /\ link = "up"
    /\ Down
    /\ UNCHANGED <<relayVars, scenario, handlerVars, tableVars, clientVars, bus>>

\* The agent starts again; reports of the old process may still be handled.
Crash ==
    /\ Fault("crash")
    /\ RelayRestart /\ Down
    /\ UNCHANGED <<scenario, handlerVars, tableVars, clientVars, bus>>

\* Every minute: one counter is loaded, then the other ...
LoadIn ==
    /\ link = "up" /\ loop = None /\ wire = <<>>
    /\ loop' = [in |-> counter["in"], out |-> None]
    /\ UNCHANGED <<relayVars, scenario, link, wire, handlerVars, tableVars, clientVars, bus>>

LoadOut ==
    /\ loop # None /\ loop.out = None
    /\ loop' = [loop EXCEPT !.out = counter["out"]]
    /\ UNCHANGED <<relayVars, scenario, link, wire, handlerVars, tableVars, clientVars, bus>>

\* Variant (a bug a run must notice): the counters are loaded before the loop.
SendReportStale ==
    /\ loop # None /\ loop.out # None /\ wire = <<>>
    /\ wire' = Append(wire, loop)
    /\ UNCHANGED <<relayVars, scenario, link, loop, handlerVars, tableVars, clientVars, bus>>

\* ... and the report is sent.
SendReport ==
    /\ loop # None /\ loop.out # None
    /\ wire' = Append(wire, loop)
    /\ loop' = None
    /\ UNCHANGED <<relayVars, scenario, link, handlerVars, tableVars, clientVars, bus>>

-----------------------------------------------------------------------------
\* handleMetricsReport: messages of a socket are handled without waiting for
\* each other.

\* The order of the queries once h has none any more, or has made its next one.
Answered(h) == {p \in ahead : h \notin {p[1], p[2]}}
Asked(h) == Answered(h) \cup ((Busy \ {h}) \X {h})

Receive(h) ==
    /\ wire # <<>> /\ step[h] = "idle" /\ h \in scenario.handlers
    /\ step' = [step EXCEPT ![h] = "insert"]
    /\ job' = [job EXCEPT ![h] = Head(wire)]
    /\ ahead' = Asked(h)
    /\ wire' = Tail(wire)
    /\ UNCHANGED <<relayVars, scenario, link, loop, tableVars, clientVars, bus>>

\* The handler whose query is executed: the oldest, unless queries overtake.
Turn(h) == h \in Busy /\ ((\A g \in Busy : <<g, h>> \notin ahead) \/ Fault("slow"))

\* Variant (a bug a run must notice): a report stays what the agent sent last.
InsertedSum(r) ==
    IF last = None THEN r ELSE [r EXCEPT !.in = @ - last.in, !.out = @ - last.out]
Inserted(r) == r

\* MetricModel.create.
Insert(h) ==
    /\ Turn(h) /\ step[h] = "insert"
    /\ last' = Inserted(job[h])
    /\ step' = [step EXCEPT ![h] = "update"]
    /\ ahead' = Asked(h)
    /\ UNCHANGED <<relayVars, scenario, agentVars, job, metadata, clientVars, bus>>

Registered(i, u) == IF u \in DOMAIN dashboards[i] THEN dashboards[i][u] ELSE {}

\* Variant (a bug a run must notice): the event stays on the agent's instance.
PublishedHere(e) ==
    [i \in Instances |-> IF i = AgentHome THEN Append(bus[i], e) ELSE bus[i]]

\* sendToDashboard: Redis has it for every instance.
Published(e) == [i \in Instances |-> Append(bus[i], e)]

\* metadata || report: the report's fields replace what is there.
Merged(r) == r

\* The metadata of the server, and the event.
Update(h) ==
    /\ Turn(h) /\ step[h] = "update" /\ \A i \in Instances : Len(bus[i]) < scenario.events
    /\ metadata' = Merged(job[h])
    /\ bus' = Published([user |-> Owner, report |-> job[h]])
    /\ due' = [k \in Sockets |-> IF k \in Registered(Home[k], Owner) THEN job[h] ELSE due[k]]
    /\ step' = [step EXCEPT ![h] = "idle"]
    /\ job' = [job EXCEPT ![h] = None]
    /\ ahead' = Answered(h)
    /\ UNCHANGED <<relayVars, scenario, agentVars, last, dashboards, sock>>

-----------------------------------------------------------------------------
\* Dashboard sockets.

OpenSocket(k) ==
    /\ k \in scenario.sockets /\ sock[k].at = "closed"
    /\ sock' = [sock EXCEPT ![k].at = "open"]
    /\ UNCHANGED <<relayVars, scenario, agentVars, handlerVars, tableVars, dashboards, due, bus>>

Put(map, u, set) == [v \in DOMAIN map \cup {u} |-> IF v = u THEN set ELSE map[v]]

\* handleDashboardAuth.
DashboardAuth(k, u) ==
    /\ sock[k].at = "open" /\ sock[k].user \in {u, None}
    /\ sock' = [sock EXCEPT ![k].user = u]
    /\ dashboards' = [dashboards EXCEPT ![Home[k]] = Put(@, u, Registered(Home[k], u) \cup {k})]
    /\ UNCHANGED <<relayVars, scenario, agentVars, handlerVars, tableVars, due, bus>>

\* cleanupConnection, for a dashboard.
Cleaned(k) ==
    LET map == dashboards[Home[k]]  u == sock[k].user  left == Registered(Home[k], u) \ {k}
    IN  IF u \notin DOMAIN map THEN map
        ELSE IF left = {} THEN [v \in DOMAIN map \ {u} |-> map[v]]
        ELSE Put(map, u, left)

Cleanup(k) ==
    /\ dashboards' = [dashboards EXCEPT ![Home[k]] = Cleaned(k)]
    /\ due' = [due EXCEPT ![k] = None]
    /\ UNCHANGED <<relayVars, scenario, agentVars, handlerVars, tableVars, bus>>

\* An error event comes before the close event: the cleanup runs twice.
SocketError(k) ==
    /\ sock[k].at = "open"
    /\ sock' = [sock EXCEPT ![k].at = "error"]
    /\ Cleanup(k)

SocketClose(k) ==
    /\ sock[k].at # "closed"
    /\ sock' = [sock EXCEPT ![k] = Shut]
    /\ Cleanup(k)

\* localSendToDashboard, for an event Redis has for the instance.
Deliver(i) ==
    /\ bus[i] # <<>>
    /\ LET e == Head(bus[i])
           to == {k \in Registered(i, e.user) : sock[k].at = "open"}
       IN  sock' = [k \in Sockets |-> IF k \in to THEN [sock[k] EXCEPT !.seen = e.report]
                                      ELSE sock[k]]
    /\ bus' = [bus EXCEPT ![i] = Tail(@)]
    /\ UNCHANGED <<relayVars, scenario, agentVars, handlerVars, tableVars, dashboards, due>>

\* An instance restarts: its sockets, handlers and subscriptions are gone.
HubRestart(i) ==
    LET mine == {k \in Sockets : Home[k] = i} IN
    /\ Fault("hub")
    /\ dashboards' = [dashboards EXCEPT ![i] = NoClients]
    /\ sock' = [k \in Sockets |-> IF k \in mine THEN Shut ELSE sock[k]]
    /\ due' = [k \in Sockets |-> IF k \in mine THEN None ELSE due[k]]
    /\ bus' = [bus EXCEPT ![i] = <<>>]
    /\ IF i = AgentHome
         THEN /\ Down
              /\ step' = [h \in Handlers |-> "idle"] /\ job' = [h \in Handlers |-> None]
              /\ ahead' = {}
         ELSE UNCHANGED <<agentVars, handlerVars>>
    /\ UNCHANGED <<relayVars, scenario, tableVars>>

-----------------------------------------------------------------------------
Reporting == LoadIn \/ LoadOut \/ SendReport \/ \E h \in Handlers : Receive(h)
Handling(h) == Insert(h) \/ Update(h)

Next ==
    \/ Traffic \/ (\E c \in Conns : Relaying(c))
    \/ Connect \/ Lose \/ Crash \/ Reporting
    \/ \E h \in Handlers : Handling(h)
    \/ \E k \in Sockets : \/ OpenSocket(k) \/ SocketError(k) \/ SocketClose(k)
                          \/ \E u \in Accounts : DashboardAuth(k, u)
    \/ \E i \in Instances : Deliver(i) \/ HubRestart(i)

Spec == Init /\ [][Next]_vars

\* Relays go on, though a write waits as long as its receiver does not read;
\* the metrics loop, queries and Redis go on too, and the agent connects again.
FairSpec ==
    /\ Spec
    /\ WF_vars(Connect) /\ WF_vars(Reporting)
    /\ \A c \in Conns : WF_vars(Relaying(c) /\ Unhindered(c))
    /\ \A h \in Handlers : WF_vars(Handling(h))
    /\ \A i \in Instances : WF_vars(Deliver(i))

-----------------------------------------------------------------------------
RegistryExact ==
    \A i \in Instances, u \in Accounts :
        /\ Registered(i, u) = {k \in Sockets : Home[k] = i /\ sock[k].at = "open" /\ sock[k].user = u}
        /\ u \in DOMAIN dashboards[i] => dashboards[i][u] # {}

MetadataCurrent ==
    ~Fault("slow") /\ ~Fault("hub") /\ Busy = {} => metadata = last

\* With no report under way the server's metadata is its newest row, if queries
\* are carried out in order and no hub dies between them.  With no event under
\* way a dashboard of the owner that is registered has got the last one, on
\* whichever instance it is; dashboards of others get nothing.  That rests on
\* the registry: a socket is registered on its instance for its user as long as
\* it is open, whatever closes, fails or restarts, and no empty set stays.
DashboardsSee ==
    /\ MetadataCurrent /\ RegistryExact
    /\ \A k \in Sockets :
         /\ bus[Home[k]] = <<>> /\ due[k] # None => sock[k].seen = due[k]
         /\ sock[k].seen # None => sock[k].user = Owner

\* An agent that stays connected is reported in the end: the counters of its
\* traffic are the newest row and the metadata.
ReportedInTheEnd ==
    <>[](link = "up")
      => <>[](last # None /\ last = metadata /\ last.in = counter["in"] /\ last.out = counter["out"])

\* A relay whose two sources have ended ends, if no receiver leaves a write
\* waiting for ever; one that does keeps the relay, and the slot it holds.
RelaysEnd ==
    \A c \in Conns :
        (\A d \in Dirs : []<>(stage[<<c, d>>] # "write"))
          => ((\A d \in Dirs : ended[<<c, d>>]) ~> (c \in over \/ stage[<<c, "in">>] = "off"))
=============================================================================
