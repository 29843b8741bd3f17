---------------------------- MODULE MCAuthTokens ----------------------------
\* Two browsers of one account, one of them with two calls under way.
EXTENDS AuthTokens, TLC

CONSTANTS b1, b2, c1, c2, c3

MCCalls == {<<b1, c1>>, <<b1, c2>>, <<b2, c3>>}
MCFaults == {"lost", "expire", "deactivate"}
MCSymmetry == Permutations({c1, c2})
=============================================================================
