--------------------------- MODULE MCSocks5Engine ---------------------------
\* Two ids on two ports: enough for a port to pass from one user to another
\* while its first listener is still stopping.
EXTENDS Socks5Engine, TLC

MCLimits == {1, 2}
MCSymmetry == Permutations(Conns) \cup Permutations(Users) \cup Permutations(Ports)
              \cup Permutations(Passwords)
=============================================================================
