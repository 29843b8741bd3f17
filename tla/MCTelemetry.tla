---------------------------- MODULE MCTelemetry ----------------------------
\* One relay, two instances of the hub, and an account besides the owner.
EXTENDS Telemetry

CONSTANTS i1, i2, k1, k2, h1

\* Both dashboards on the instance the agent is not connected to.
MCHome == [k \in Sockets |-> i2]

\* A relay with traffic both ways; reports with everything that can happen to
\* the agent, and with queries that overtake; two dashboards.
MCRelay == [bytes |-> 2, dirs |-> Dirs, handlers |-> {}, sockets |-> {}, events |-> 1,
            faults |-> {"ends", "crash"}]
MCAgent == [bytes |-> 2, dirs |-> {"in"}, handlers |-> Handlers, sockets |-> {}, events |-> 1,
            faults |-> {"lost"}]
MCRestarts == [MCAgent EXCEPT !.bytes = 1, !.faults = {"lost", "crash"}]
MCSlow == [MCAgent EXCEPT !.bytes = 1, !.faults = {"slow", "lost", "hub"}]
MCDashboards == [bytes |-> 1, dirs |-> {"in"}, handlers |-> {h1}, sockets |-> Sockets, events |-> 1,
                 faults |-> {"hub"}]
MCScenarios == {MCRelay, MCAgent, MCRestarts, MCSlow, MCDashboards}
=============================================================================
