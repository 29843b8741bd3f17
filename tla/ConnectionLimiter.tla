-------------------------- MODULE ConnectionLimiter --------------------------
(***************************************************************************)
(* agent/src/socks5/limiter.rs: the per-user connection limiter of the     *)
(* SOCKS5 engine, at the grain of its locks and atomic operations.         *)
(*                                                                         *)
(* Connection tasks (one per accepted socket) take a slot with             *)
(* try_acquire and give it back with release when their LimiterGuard is    *)
(* dropped (server.rs).  One task, the agent's command loop, calls         *)
(* set_limit and remove_user.  Both maps are behind an RwLock; a slot      *)
(* counter is an AtomicU32 that release decrements under a SHARED lock, by *)
(* a load followed by a fetch_sub.                                         *)
(*                                                                         *)
(* A lock's holders are read off the program counters: a task is past a    *)
(* lock() exactly while it is at the labels that follow it.                *)
(***************************************************************************)
EXTENDS Integers, FiniteSets

CONSTANTS
    Conns,   \* connection tasks
    Users,   \* socks5 user ids
    Limits,  \* the values max_connections takes
    Word     \* 2^w for the w-bit counter (2^32 in the code)

NoEntry == -1    \* the key is not in the map

\* Counters are unsigned words, and fewer connections exist than a word counts.
ASSUME LimiterAssumption ==
    /\ IsFiniteSet(Conns)
    /\ NoEntry \notin Users
    /\ Limits \subseteq Nat
    /\ Word \in Nat
    /\ Cardinality(Conns) < Word

VARIABLES
    limits,       \* user -> max connections, or NoEntry
    connections,  \* user -> value of the counter, or NoEntry
    pc,           \* where each connection task is
    user,         \* the user the task authenticated as
    max,          \* max_allowed of a task inside try_acquire
    current,      \* the task's local copy of the counter
    cmd,          \* the user remove_user is busy with, or NoEntry when idle
    reset         \* history: users whose counter was dropped while in use

vars == <<limits, connections, pc, user, max, current, cmd, reset>>

Counts == 0 .. Word - 1
Labels == {"idle", "lookup", "decide", "held", "dropping", "releasing"}

TypeOK ==
    /\ limits \in [Users -> Limits \cup {NoEntry}]
    /\ connections \in [Users -> Counts \cup {NoEntry}]
    /\ pc \in [Conns -> Labels]
    /\ user \in [Conns -> Users]
    /\ max \in [Conns -> Nat]
    /\ current \in [Conns -> Counts]
    /\ cmd \in Users \cup {NoEntry}
    /\ reset \subseteq Users

Init ==
    /\ limits = [u \in Users |-> NoEntry]
    /\ connections = [u \in Users |-> NoEntry]
    /\ pc = [c \in Conns |-> "idle"]
    /\ user \in [Conns -> Users]
    /\ max = [c \in Conns |-> 0]
    /\ current = [c \in Conns |-> 0]
    /\ cmd = NoEntry
    /\ reset = {}

-----------------------------------------------------------------------------
\* Variant (a bug a run must notice): no unwrap_or.
LimitOfUnset(u) == limits[u]

\* The limit that applies to u: a user without an entry may hold one slot.
LimitOf(u) == IF limits[u] = NoEntry THEN 1 ELSE limits[u]

\* The counter of u, as get_count returns it.
Count(u) == IF connections[u] = NoEntry THEN 0 ELSE connections[u]

\* The connections of u that hold a slot: admitted, and not given back yet.
Holders(u) == {c \in Conns : user[c] = u /\ pc[c] \in {"held", "dropping", "releasing"}}

\* Locks: an RwLock admits readers while it has no writer, a writer alone.
\* remove_user keeps the limits lock while it waits for the connections lock.
LimitsReaders == {c \in Conns : pc[c] \in {"lookup", "decide"}}
ConnsWriters  == {c \in Conns : pc[c] = "decide"}
ConnsReaders  == {c \in Conns : pc[c] = "releasing"}

\* Variant (a bug a run must notice): try_acquire lets go of the limits lock
\* after the lookup.
LimitsCanWriteEarly == cmd = NoEntry

LimitsCanRead  == cmd = NoEntry
LimitsCanWrite == cmd = NoEntry /\ LimitsReaders = {}
ConnsCanRead   == ConnsWriters = {}
ConnsCanWrite  == ConnsWriters = {} /\ ConnsReaders = {}

-----------------------------------------------------------------------------
\* try_acquire, by a connection that authenticated as u.

\* limits.read(), then the lookup of the limit.
AcquireLimit(c, u) ==
    /\ pc[c] = "idle"
    /\ LimitsCanRead
    /\ pc' = [pc EXCEPT ![c] = "lookup"]
    /\ user' = [user EXCEPT ![c] = u]
    /\ max' = [max EXCEPT ![c] = LimitOf(u)]
    /\ UNCHANGED <<limits, connections, current, cmd, reset>>

\* connections.write(), entry().or_insert(0), load().
AcquireCounter(c) ==
    /\ pc[c] = "lookup"
    /\ ConnsCanWrite
    /\ pc' = [pc EXCEPT ![c] = "decide"]
    /\ connections' = [connections EXCEPT ![user[c]] = Count(user[c])]
    /\ current' = [current EXCEPT ![c] = Count(user[c])]
    /\ UNCHANGED <<limits, user, max, cmd, reset>>

\* Variant (a bug a run must notice): off by one.
IsFullLate(c)  == current[c] > max[c]

IsFull(c) == current[c] >= max[c]

\* current >= max_allowed: the caller is turned away.
AcquireFull(c) ==
    /\ pc[c] = "decide"
    /\ IsFull(c)
    /\ pc' = [pc EXCEPT ![c] = "idle"]
    /\ UNCHANGED <<limits, connections, user, max, current, cmd, reset>>

\* fetch_add(1); both guards are dropped when the function returns.
AcquireSlot(c) ==
    /\ pc[c] = "decide"
    /\ ~IsFull(c)
    /\ pc' = [pc EXCEPT ![c] = "held"]
    /\ connections' = [connections EXCEPT ![user[c]] = (@ + 1) % Word]
    /\ UNCHANGED <<limits, user, max, current, cmd, reset>>

-----------------------------------------------------------------------------
\* release, when the connection task ends in whatever way.

\* The task returns or fails; its LimiterGuard is dropped.
DropGuard(c) ==
    /\ pc[c] = "held"
    /\ pc' = [pc EXCEPT ![c] = "dropping"]
    /\ UNCHANGED <<limits, connections, user, max, current, cmd, reset>>

\* connections.read() finds no entry: nothing to do.
ReleaseAbsent(c) ==
    /\ pc[c] = "dropping"
    /\ ConnsCanRead
    /\ connections[user[c]] = NoEntry
    /\ pc' = [pc EXCEPT ![c] = "idle"]
    /\ UNCHANGED <<limits, connections, user, max, current, cmd, reset>>

\* connections.read() finds the counter, load().
ReleaseLoad(c) ==
    /\ pc[c] = "dropping"
    /\ ConnsCanRead
    /\ connections[user[c]] # NoEntry
    /\ pc' = [pc EXCEPT ![c] = "releasing"]
    /\ current' = [current EXCEPT ![c] = connections[user[c]]]
    /\ UNCHANGED <<limits, connections, user, max, cmd, reset>>

\* Variant (a bug a run must notice): store(current - 1).
DecrementedLost(c) == current[c] - 1

\* fetch_sub(1) wraps.
Decremented(c) == (connections[user[c]] - 1) % Word

\* if current > 0 { fetch_sub(1) }
ReleaseStore(c) ==
    /\ pc[c] = "releasing"
    /\ pc' = [pc EXCEPT ![c] = "idle"]
    /\ connections' = IF current[c] > 0
                      THEN [connections EXCEPT ![user[c]] = Decremented(c)]
                      ELSE connections
    /\ UNCHANGED <<limits, user, max, current, cmd, reset>>

-----------------------------------------------------------------------------
\* The command task.

\* set_limit: one write under the exclusive lock.
SetLimit(u, m) ==
    /\ LimitsCanWrite
    /\ limits' = [limits EXCEPT ![u] = m]
    /\ UNCHANGED <<connections, pc, user, max, current, cmd, reset>>

\* remove_user: limits.write(), remove.
RemoveLimit(u) ==
    /\ LimitsCanWrite
    /\ limits' = [limits EXCEPT ![u] = NoEntry]
    /\ cmd' = u
    /\ UNCHANGED <<connections, pc, user, max, current, reset>>

\* Variant (a bug a run must notice): wait for the user's slots.
RemoveCounterDrained ==
    /\ cmd # NoEntry
    /\ ConnsCanWrite
    /\ Holders(cmd) = {}
    /\ connections' = [connections EXCEPT ![cmd] = NoEntry]
    /\ cmd' = NoEntry
    /\ reset' = reset \ {cmd}
    /\ UNCHANGED <<limits, pc, user, max, current>>

\* remove_user: connections.write(), remove, return.
RemoveCounter ==
    /\ cmd # NoEntry
    /\ ConnsCanWrite
    /\ connections' = [connections EXCEPT ![cmd] = NoEntry]
    /\ cmd' = NoEntry
    /\ reset' = IF Holders(cmd) = {} THEN reset \ {cmd} ELSE reset \cup {cmd}
    /\ UNCHANGED <<limits, pc, user, max, current>>

-----------------------------------------------------------------------------
Connection(c) ==
    \/ \E u \in Users : AcquireLimit(c, u)
    \/ AcquireCounter(c)
    \/ AcquireFull(c)
    \/ AcquireSlot(c)
    \/ DropGuard(c)
    \/ ReleaseAbsent(c)
    \/ ReleaseLoad(c)
    \/ ReleaseStore(c)

Command ==
    \/ \E u \in Users, m \in Limits : SetLimit(u, m)
    \/ \E u \in Users : RemoveLimit(u)
    \/ RemoveCounter

Next == (\E c \in Conns : Connection(c)) \/ Command

Spec == Init /\ [][Next]_vars

\* A task that holds a lock runs on; a task waiting for a lock that becomes
\* free again and again gets it in the end.  No task has to start a
\* connection, end one, or issue a command.
Fairness ==
    /\ \A c \in Conns :
        /\ WF_vars(AcquireFull(c) \/ AcquireSlot(c) \/ ReleaseStore(c))
        /\ SF_vars(AcquireCounter(c))
        /\ SF_vars(ReleaseAbsent(c) \/ ReleaseLoad(c))
    /\ SF_vars(RemoveCounter)

FairSpec == Spec /\ Fairness

-----------------------------------------------------------------------------
\* The counter of a user is the number of its connections that hold a slot,
\* whatever try_acquire and release calls overlap, as long as remove_user has
\* not dropped the counter under them (limiter.rs: release under a read lock).
SlotAccounting ==
    \A u \in Users \ reset : Count(u) = Cardinality(Holders(u))

\* What a task has read under its locks still holds when it acts on it: the
\* limit and the counter it compares, and, in release, that the counter it is
\* about to decrement is there and not yet zero.
ReadsStayValid ==
    \A c \in Conns :
        /\ pc[c] \in {"lookup", "decide"} => cmd = NoEntry /\ max[c] = LimitOf(user[c])
        /\ pc[c] = "decide" =>
              /\ connections[user[c]] = current[c]
              /\ ConnsWriters \cup ConnsReaders = {c}
        /\ pc[c] = "releasing" =>
              /\ connections[user[c]] # NoEntry
              /\ user[c] \notin reset => current[c] > 0

\* No step admits a connection of u beyond the limit that is in force at that
\* moment: try_acquire keeps the limits lock until it has counted the slot.
GrantWithinLimit ==
    [][\A c \in Conns : LET u == user[c] IN
         (pc[c] = "decide" /\ pc'[c] = "held" /\ u \notin reset) =>
            Cardinality(Holders(u)') <= LimitOf(u)']_vars

\* No step turns a connection of u away while u has a slot left.
DenyOnlyWhenFull ==
    [][\A c \in Conns : LET u == user[c] IN
         (pc[c] = "decide" /\ pc'[c] = "idle" /\ u \notin reset) =>
            Cardinality(Holders(u)) >= LimitOf(u)]_vars

\* A decision is always reached, a dropped guard always gives its slot back
\* and remove_user always returns: the two locks are taken in one order.
CallsReturn ==
    /\ \A c \in Conns : pc[c] \in {"lookup", "decide"} ~> pc[c] \in {"idle", "held"}
    /\ \A c \in Conns : pc[c] = "dropping" ~> pc[c] = "idle"
    /\ cmd # NoEntry ~> cmd = NoEntry

-----------------------------------------------------------------------------
\* What the limiter promises, whatever its locks do: see SlotPool.
Pool == INSTANCE SlotPool WITH
    limit  <- [u \in Users |-> LimitOf(u)],
    stage  <- [c \in Conns |-> CASE pc[c] = "idle" -> "out"
                                 [] pc[c] \in {"lookup", "decide"} -> "asking"
                                 [] OTHER -> "in"],
    voided <- reset

\* The locked, multi-step limiter behaves like a pool whose grants, denials and
\* returns are single steps (limiter.rs as its callers in server.rs see it).
ImplementsPool == Pool!Spec
=============================================================================
