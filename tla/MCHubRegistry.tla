---------------------------- MODULE MCHubRegistry ----------------------------
\* One server suffices: servers share no state but the bounded queue.  Two
\* sockets let an old and a current connection of it overlap.
EXTENDS HubRegistry

\* Connections end, nothing else; everything but connections of one agent that
\* overlap; everything.
MCScenarios == {{}, {"early", "crash", "reorder"}, {"overlap", "early", "crash", "reorder"}}

MCOverlap == {{"overlap"}}
=============================================================================
