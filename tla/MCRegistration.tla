--------------------------- MODULE MCRegistration ---------------------------
\* Two agents and two handlers: enough for a registration whose answer nobody
\* waits for to overlap the next one.
EXTENDS Registration

MCFaults == {"lost", "crash", "hub", "delete", "expire", "disk"}
=============================================================================
