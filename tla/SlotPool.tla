------------------------------ MODULE SlotPool ------------------------------
(***************************************************************************)
(* What agent/src/socks5/limiter.rs promises its callers: every user has a *)
(* pool of `limit' slots; a connection asks for one, is granted one if the *)
(* pool has one left and turned away otherwise, and gives it back once.    *)
(*                                                                         *)
(* Removing a user while connections of it are in forgets them: the pool   *)
(* is voided and promises nothing until it is removed again while empty.   *)
(* The limit may go with it, or by itself.                                 *)
(*                                                                         *)
(* When the process ends, a new pool takes the place of the old one.       *)
(***************************************************************************)
EXTENDS Integers, FiniteSets

CONSTANTS Conns, Users, Limits

VARIABLES
    limit,   \* slots of each user
    stage,   \* "out", "asking" for a slot, or "in"
    user,    \* on whose behalf the connection asks
    voided   \* users whose slots are no longer counted

poolVars == <<limit, stage, user, voided>>

Init ==
    /\ limit = [u \in Users |-> 1]
    /\ stage = [c \in Conns |-> "out"]
    /\ user \in [Conns -> Users]
    /\ voided = {}

In(u) == {c \in Conns : user[c] = u /\ stage[c] = "in"}

Ask(c, u) ==
    /\ stage[c] = "out"
    /\ stage' = [stage EXCEPT ![c] = "asking"]
    /\ user' = [user EXCEPT ![c] = u]
    /\ UNCHANGED <<limit, voided>>

Grant(c) ==
    /\ stage[c] = "asking"
    /\ user[c] \in voided \/ Cardinality(In(user[c])) < limit[user[c]]
    /\ stage' = [stage EXCEPT ![c] = "in"]
    /\ UNCHANGED <<limit, user, voided>>

Deny(c) ==
    /\ stage[c] = "asking"
    /\ user[c] \in voided \/ Cardinality(In(user[c])) >= limit[user[c]]
    /\ stage' = [stage EXCEPT ![c] = "out"]
    /\ UNCHANGED <<limit, user, voided>>

Return(c) ==
    /\ stage[c] = "in"
    /\ stage' = [stage EXCEPT ![c] = "out"]
    /\ UNCHANGED <<limit, user, voided>>

\* A user without a configured limit is back at the default of one slot.
Configure(u) ==
    /\ \E m \in Limits \cup {1} : limit' = [limit EXCEPT ![u] = m]
    /\ UNCHANGED <<stage, user, voided>>

Forget(u) ==
    /\ voided' = IF In(u) = {} THEN voided \ {u} ELSE voided \cup {u}
    /\ limit' \in {limit, [limit EXCEPT ![u] = 1]}
    /\ UNCHANGED <<stage, user>>

Next ==
    \/ \E c \in Conns :
        \/ \E u \in Users : Ask(c, u)
        \/ Grant(c)
        \/ Deny(c)
        \/ Return(c)
    \/ \E u \in Users : Configure(u) \/ Forget(u)

Spec == Init /\ [][Next]_poolVars

\* The pools of one process after the other.
LivesSpec == Init /\ [][Next \/ Init']_poolVars
=============================================================================
