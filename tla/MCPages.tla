------------------------------ MODULE MCPages ------------------------------
\* Two SOCKS5 users, an account, and two ranges.
EXTENDS Pages, TLC

\* A patient user alone, an impatient one, one on a bad network, and one of many.
MCScenarios == {{}, {"impatient"}, {"impatient", "lost", "reorder"}, {"others"}}

Symmetry == Permutations(Socks) \cup Permutations(Ports) \cup Permutations(Limits)
=============================================================================
