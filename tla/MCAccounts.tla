----------------------------- MODULE MCAccounts -----------------------------
\* The seeded administrator, two accounts made later, one server.
EXTENDS Accounts, TLC

CONSTANTS u2, e2, s1

Patch(ro, act) == [role |-> ro, active |-> act]

\* An account is made twice, promoted, deactivated and deleted; the
\* administrator is demoted.
MCAsked ==
    [do : {"listUsers", "listServers", "script"}]
      \cup [do : {"createUser"}, email : {e2}, role : {"user"}]
      \cup [do : {"updateUser"}, user : {u2}, patch : {Patch("admin", None), Patch(None, FALSE)}]
      \cup [do : {"updateUser"}, user : {Seeded}, patch : {Patch("user", None)}]
      \cup [do : {"deleteUser"}, user : {u2}]
      \cup [do : {"getServer", "deleteServer"}, server : {s1}]

Symmetry == Permutations(Requests)
=============================================================================
