---------------------------- MODULE MCConfigSync ----------------------------
\* Two users and two ports: users can swap, follow and collide on ports.
EXTENDS ConfigSync, TLC

MCSymmetry == Permutations(Users) \cup Permutations(Ports)
              \cup Permutations(Vals) \cup Permutations(Requests)
              \cup Permutations(Queries)

\* One request at a time: with losses or without.
MCSequential == {{}, {"disconnect"}}

\* Losses with requests that overlap, with rows that change under SYNC_CONFIG,
\* and alone.
MCOverlap == {{"concurrent", "disconnect"}, {"disconnect", "syncrace"}, {"disconnect"}}
=============================================================================
