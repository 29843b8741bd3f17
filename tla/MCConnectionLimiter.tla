------------------------ MODULE MCConnectionLimiter ------------------------
\* The limiter with few tasks: enough for two releases, or a release and an
\* acquisition, of one user to overlap while remove_user runs.
EXTENDS ConnectionLimiter

MCLimits == {1, 2}
=============================================================================
