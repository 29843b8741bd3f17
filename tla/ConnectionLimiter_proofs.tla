----------------------- MODULE ConnectionLimiter_proofs -----------------------
(***************************************************************************)
(* Proofs about agent/src/socks5/limiter.rs: the counter of a user is      *)
(* exact, and grants and denials are right, for any number of connection   *)
(* tasks and users.                                                        *)
(***************************************************************************)
EXTENDS ConnectionLimiter, FiniteSetTheorems, TLAPS

USE LimiterAssumption

\* A word can count every connection task, and at least 0.
LEMMA WordLarge == Cardinality(Conns) \in Nat /\ Word \in Nat \ {0}
BY FS_CardinalityType

\* The variables of the limiter keep their types: in particular a counter
\* stays a word and a limit a value that was configured.
THEOREM TypeCorrect == Spec => []TypeOK
<1>1. Init => TypeOK
  BY WordLarge DEF Init, TypeOK, Counts, Labels, NoEntry
<1>2. TypeOK /\ [Next]_vars => TypeOK'
  <2> SUFFICES ASSUME TypeOK, [Next]_vars PROVE TypeOK'
    OBVIOUS
  <2> USE DEF TypeOK, Counts, Labels
  <2>1. ASSUME NEW c \in Conns, NEW u \in Users, AcquireLimit(c, u) PROVE TypeOK'
    <3>1. LimitOf(u) \in Nat
      BY DEF LimitOf, NoEntry
    <3> QED BY <2>1, <3>1 DEF AcquireLimit
  <2>2. ASSUME NEW c \in Conns, AcquireCounter(c) PROVE TypeOK'
    <3>1. Count(user[c]) \in Counts
      BY WordLarge DEF Count, NoEntry
    <3> QED BY <2>2, <3>1 DEF AcquireCounter
  <2>3. ASSUME NEW c \in Conns, AcquireFull(c) PROVE TypeOK'
    BY <2>3 DEF AcquireFull
  <2>4. ASSUME NEW c \in Conns, AcquireSlot(c) PROVE TypeOK'
    <3>1. (connections[user[c]] + 1) % Word \in Counts
      BY WordLarge DEF NoEntry
    <3> QED BY <2>4, <3>1 DEF AcquireSlot
  <2>5. ASSUME NEW c \in Conns, DropGuard(c) PROVE TypeOK'
    BY <2>5 DEF DropGuard
  <2>6. ASSUME NEW c \in Conns, ReleaseAbsent(c) PROVE TypeOK'
    BY <2>6 DEF ReleaseAbsent
  <2>7. ASSUME NEW c \in Conns, ReleaseLoad(c) PROVE TypeOK'
    BY <2>7 DEF ReleaseLoad
  <2>8. ASSUME NEW c \in Conns, ReleaseStore(c) PROVE TypeOK'
    <3>1. (connections[user[c]] - 1) % Word \in Counts
      BY WordLarge DEF NoEntry
    <3> QED BY <2>8, <3>1 DEF ReleaseStore, Decremented
  <2>9. ASSUME NEW u \in Users, NEW m \in Limits, SetLimit(u, m) PROVE TypeOK'
    BY <2>9 DEF SetLimit
  <2>10. ASSUME NEW u \in Users, RemoveLimit(u) PROVE TypeOK'
    BY <2>10 DEF RemoveLimit
  <2>11. ASSUME RemoveCounter PROVE TypeOK'
    BY <2>11 DEF RemoveCounter
  <2>12. CASE UNCHANGED vars
    BY <2>12 DEF vars
  <2> QED
    BY <2>1, <2>2, <2>3, <2>4, <2>5, <2>6, <2>7, <2>8, <2>9, <2>10, <2>11, <2>12
    DEF Next, Connection, Command
<1> QED BY <1>1, <1>2, PTL DEF Spec

-----------------------------------------------------------------------------
\* Slots of a user are counted by a natural number.
LEMMA HoldersFinite ==
  ASSUME NEW u
  PROVE  IsFiniteSet(Holders(u)) /\ Cardinality(Holders(u)) \in 0 .. Cardinality(Conns)
BY FS_Subset, FS_CardinalityType, Holders(u) \subseteq Conns DEF Holders

\* A connection that starts to hold a slot raises the number by one.
LEMMA HoldersAdd ==
  ASSUME NEW u, NEW c \in Conns, c \notin Holders(u), Holders(u)' = Holders(u) \cup {c}
  PROVE  Cardinality(Holders(u)') = Cardinality(Holders(u)) + 1
BY HoldersFinite, FS_AddElement

\* A connection that stops to hold a slot lowers the number by one.
LEMMA HoldersRemove ==
  ASSUME NEW u, NEW c \in Conns, c \in Holders(u), Holders(u)' = Holders(u) \ {c}
  PROVE  Cardinality(Holders(u)') = Cardinality(Holders(u)) - 1
BY HoldersFinite, FS_RemoveElement

\* While the counter of u is exact it is far from both ends of the word.
LEMMA ExactCounter ==
  ASSUME SlotAccounting, NEW u \in Users \ reset
  PROVE  /\ Count(u) = Cardinality(Holders(u))
         /\ Count(u) \in 0 .. Cardinality(Conns)
         /\ \A c \in Holders(u) : Count(u) > 0
<1>1. Count(u) = Cardinality(Holders(u))
  BY DEF SlotAccounting
<1>2. ASSUME NEW c \in Holders(u) PROVE Count(u) > 0
  <2>1. Cardinality(Holders(u) \ {c}) = Cardinality(Holders(u)) - 1
    BY <1>2, HoldersFinite, FS_RemoveElement
  <2>2. Cardinality(Holders(u) \ {c}) \in Nat
    BY HoldersFinite, FS_Subset, FS_CardinalityType, Holders(u) \ {c} \subseteq Holders(u)
  <2> QED BY <1>1, <2>1, <2>2, HoldersFinite, WordLarge
<1> QED BY <1>1, <1>2, HoldersFinite

-----------------------------------------------------------------------------
\* The inductive invariant: exact counting needs that the counter a task has
\* loaded, and the limit it compares it with, cannot change before it acts.
IInv == TypeOK /\ ReadsStayValid /\ SlotAccounting

\* A new limiter has no entries and no holders.
LEMMA InitInv == Init => IInv
<1> SUFFICES ASSUME Init PROVE IInv
  OBVIOUS
<1>1. TypeOK
  BY WordLarge DEF Init, TypeOK, Counts, Labels
<1>2. ReadsStayValid
  BY DEF Init, ReadsStayValid
<1>3. SlotAccounting
  <2>1. \A u : Holders(u) = {}
    BY DEF Init, Holders
  <2>2. \A u \in Users : Count(u) = 0
    BY DEF Init, Count
  <2> QED BY <2>1, <2>2, FS_EmptySet DEF SlotAccounting
<1> QED BY <1>1, <1>2, <1>3 DEF IInv

\* The steps of try_acquire keep the invariant.
LEMMA AcquireInv ==
  ASSUME IInv, TypeOK', NEW c \in Conns,
         \/ \E u \in Users : AcquireLimit(c, u)
         \/ AcquireCounter(c)
         \/ AcquireFull(c)
         \/ AcquireSlot(c)
  PROVE  IInv'
<1> USE DEF IInv, TypeOK, Counts
<1>1. CASE \E u \in Users : AcquireLimit(c, u)
  <2>1. PICK u \in Users : AcquireLimit(c, u)
    BY <1>1
  <2>2. ReadsStayValid'
    BY <2>1 DEF AcquireLimit, ReadsStayValid, LimitsCanRead, LimitOf,
                ConnsWriters, ConnsReaders
  <2>3. \A v : Holders(v)' = Holders(v)
    BY <2>1 DEF AcquireLimit, Holders
  <2> QED BY <2>1, <2>2, <2>3 DEF AcquireLimit, SlotAccounting, Count
<1>2. CASE AcquireCounter(c)
  <2>1. ReadsStayValid'
    BY <1>2 DEF AcquireCounter, ReadsStayValid, ConnsCanWrite, LimitOf, Count,
                ConnsWriters, ConnsReaders
  <2>2. \A v : Holders(v)' = Holders(v)
    BY <1>2 DEF AcquireCounter, Holders
  <2>3. \A v \in Users : Count(v)' = Count(v)
    BY <1>2, WordLarge DEF AcquireCounter, Count, NoEntry
  <2> QED BY <1>2, <2>1, <2>2, <2>3 DEF AcquireCounter, SlotAccounting
<1>3. CASE AcquireFull(c)
  <2>1. ReadsStayValid'
    BY <1>3 DEF AcquireFull, ReadsStayValid, LimitOf, ConnsWriters, ConnsReaders
  <2>2. \A v : Holders(v)' = Holders(v)
    BY <1>3 DEF AcquireFull, Holders
  <2> QED BY <1>3, <2>1, <2>2 DEF AcquireFull, SlotAccounting, Count
<1>4. CASE AcquireSlot(c)
  <2>1. ReadsStayValid'
    BY <1>4 DEF AcquireSlot, ReadsStayValid, LimitOf, ConnsWriters, ConnsReaders
  <2>2. ASSUME NEW v \in Users \ reset PROVE Count(v)' = Cardinality(Holders(v)')
    <3>1. CASE v # user[c]
      <4>1. Holders(v)' = Holders(v)
        BY <1>4, <3>1 DEF AcquireSlot, Holders
      <4> QED BY <1>4, <3>1, <4>1, ExactCounter DEF AcquireSlot, Count
    <3>2. CASE v = user[c]
      <4>1. connections[v] # NoEntry /\ Count(v) = connections[v]
        BY <1>4, <3>2 DEF AcquireSlot, ReadsStayValid, Count, NoEntry
      <4>2. Holders(v)' = Holders(v) \cup {c} /\ c \notin Holders(v)
        BY <1>4, <3>2 DEF AcquireSlot, Holders
      <4>3. Cardinality(Holders(v)') = Count(v) + 1
        BY <4>2, HoldersAdd, ExactCounter
      <4>4. Count(v) + 1 \in 1 .. Cardinality(Conns)
        <5>1. Cardinality(Holders(v)') \in 0 .. Cardinality(Conns)
          BY <4>2, FS_Subset, FS_CardinalityType, Holders(v) \cup {c} \subseteq Conns
             DEF Holders
        <5> QED BY <4>3, <5>1, ExactCounter, WordLarge
      <4>5. connections'[v] = (Count(v) + 1) % Word
        BY <1>4, <3>2, <4>1 DEF AcquireSlot
      <4>6. connections'[v] = Count(v) + 1
        BY <4>4, <4>5, WordLarge
      <4> QED BY <4>3, <4>4, <4>6, WordLarge DEF Count, NoEntry
    <3> QED BY <3>1, <3>2
  <2> QED BY <1>4, <2>1, <2>2 DEF AcquireSlot, SlotAccounting
<1> QED BY <1>1, <1>2, <1>3, <1>4

\* The steps of release keep the invariant.
LEMMA ReleaseInv ==
  ASSUME IInv, TypeOK', NEW c \in Conns,
         DropGuard(c) \/ ReleaseAbsent(c) \/ ReleaseLoad(c) \/ ReleaseStore(c)
  PROVE  IInv'
<1> USE DEF IInv, TypeOK, Counts
<1>1. CASE DropGuard(c)
  <2>1. ReadsStayValid'
    BY <1>1 DEF DropGuard, ReadsStayValid, LimitOf, ConnsWriters, ConnsReaders
  <2>2. \A v : Holders(v)' = Holders(v)
    BY <1>1 DEF DropGuard, Holders
  <2> QED BY <1>1, <2>1, <2>2 DEF DropGuard, SlotAccounting, Count
<1>2. CASE ReleaseAbsent(c)
  <2>1. ReadsStayValid'
    BY <1>2 DEF ReleaseAbsent, ReadsStayValid, LimitOf, ConnsWriters, ConnsReaders
  <2>2. c \in Holders(user[c]) /\ Count(user[c]) = 0
    BY <1>2 DEF ReleaseAbsent, Holders, Count
  <2>3. user[c] \in reset
    BY <2>2, ExactCounter
  <2>4. \A v \in Users \ reset : Holders(v)' = Holders(v)
    BY <1>2, <2>3 DEF ReleaseAbsent, Holders
  <2> QED BY <1>2, <2>1, <2>4 DEF ReleaseAbsent, SlotAccounting, Count
<1>3. CASE ReleaseLoad(c)
  <2>1. c \in Holders(user[c]) /\ Count(user[c]) = connections[user[c]]
    BY <1>3 DEF ReleaseLoad, Holders, Count
  <2>2. user[c] \notin reset => connections[user[c]] > 0
    BY <2>1, ExactCounter
  <2>3. ReadsStayValid'
    BY <1>3, <2>2 DEF ReleaseLoad, ReadsStayValid, LimitOf, ConnsWriters, ConnsReaders,
                     ConnsCanRead
  <2>4. \A v : Holders(v)' = Holders(v)
    BY <1>3 DEF ReleaseLoad, Holders
  <2> QED BY <1>3, <2>3, <2>4 DEF ReleaseLoad, SlotAccounting, Count
<1>4. CASE ReleaseStore(c)
  <2>1. connections[user[c]] # NoEntry /\ c \in Holders(user[c])
    BY <1>4 DEF ReleaseStore, ReadsStayValid, Holders
  <2>2. ConnsWriters = {} /\ ConnsWriters' = {}
    BY <1>4 DEF ReleaseStore, ReadsStayValid, ConnsWriters, ConnsReaders
  <2>3. connections'[user[c]] # NoEntry
    BY <1>4, <2>1, WordLarge DEF ReleaseStore, Decremented, NoEntry
  <2>4. ReadsStayValid'
    BY <1>4, <2>2, <2>3 DEF ReleaseStore, ReadsStayValid, LimitOf, ConnsWriters
  <2>5. ASSUME NEW v \in Users \ reset PROVE Count(v)' = Cardinality(Holders(v)')
    <3>1. CASE v # user[c]
      <4>1. Holders(v)' = Holders(v)
        BY <1>4, <3>1 DEF ReleaseStore, Holders
      <4> QED BY <1>4, <3>1, <4>1, ExactCounter DEF ReleaseStore, Count
    <3>2. CASE v = user[c]
      <4>1. Count(v) = connections[v] /\ Count(v) \in 1 .. Cardinality(Conns)
        BY <2>1, <3>2, ExactCounter, WordLarge DEF Count
      <4>2. Holders(v)' = Holders(v) \ {c}
        BY <1>4, <3>2 DEF ReleaseStore, Holders
      <4>3. Cardinality(Holders(v)') = Count(v) - 1
        BY <2>1, <3>2, <4>2, HoldersRemove, ExactCounter
      <4>4. current[c] > 0
        BY <1>4, <3>2 DEF ReleaseStore, ReadsStayValid
      <4>5. connections'[v] = (Count(v) - 1) % Word
        BY <1>4, <3>2, <4>1, <4>4 DEF ReleaseStore, Decremented
      <4>6. connections'[v] = Count(v) - 1
        BY <4>1, <4>5, WordLarge
      <4> QED BY <4>1, <4>3, <4>6, WordLarge DEF Count, NoEntry
    <3> QED BY <3>1, <3>2
  <2> QED BY <1>4, <2>4, <2>5 DEF ReleaseStore, SlotAccounting
<1> QED BY <1>1, <1>2, <1>3, <1>4

\* The steps of set_limit and remove_user keep the invariant.
LEMMA CommandInv ==
  ASSUME IInv, TypeOK', Command
  PROVE  IInv'
<1> USE DEF IInv, TypeOK, Counts
<1>1. ASSUME NEW u \in Users, NEW m \in Limits, SetLimit(u, m) PROVE IInv'
  <2>1. ReadsStayValid'
    BY <1>1 DEF SetLimit, ReadsStayValid, LimitsCanWrite, LimitsReaders,
                ConnsWriters, ConnsReaders
  <2>2. \A v : Holders(v)' = Holders(v)
    BY <1>1 DEF SetLimit, Holders
  <2> QED BY <1>1, <2>1, <2>2 DEF SetLimit, SlotAccounting, Count
<1>2. ASSUME NEW u \in Users, RemoveLimit(u) PROVE IInv'
  <2>1. ReadsStayValid'
    BY <1>2 DEF RemoveLimit, ReadsStayValid, LimitsCanWrite, LimitsReaders,
                ConnsWriters, ConnsReaders
  <2>2. \A v : Holders(v)' = Holders(v)
    BY <1>2 DEF RemoveLimit, Holders
  <2> QED BY <1>2, <2>1, <2>2 DEF RemoveLimit, SlotAccounting, Count
<1>3. ASSUME RemoveCounter PROVE IInv'
  <2>1. \A c \in Conns : pc[c] \notin {"lookup", "decide", "releasing"}
    BY <1>3 DEF RemoveCounter, ReadsStayValid, ConnsCanWrite, ConnsWriters, ConnsReaders
  <2>2. ReadsStayValid'
    BY <1>3, <2>1 DEF RemoveCounter, ReadsStayValid
  <2>3. \A v : Holders(v)' = Holders(v)
    BY <1>3 DEF RemoveCounter, Holders
  <2>4. ASSUME NEW v \in Users \ reset' PROVE Count(v)' = Cardinality(Holders(v)')
    <3>1. CASE v # cmd
      <4>1. v \in Users \ reset /\ Count(v)' = Count(v)
        BY <1>3, <3>1 DEF RemoveCounter, Count
      <4> QED BY <2>3, <4>1, ExactCounter
    <3>2. CASE v = cmd
      <4>1. Holders(v) = {} /\ Count(v)' = 0
        BY <1>3, <3>2 DEF RemoveCounter, Count
      <4> QED BY <2>3, <4>1, FS_EmptySet
    <3> QED BY <3>1, <3>2
  <2> QED BY <2>2, <2>4 DEF SlotAccounting
<1> QED BY <1>1, <1>2, <1>3 DEF Command

\* The inductive invariant holds in every reachable state.
THEOREM Invariant == Spec => []IInv
<1>1. Init => IInv
  BY InitInv
<1>2. IInv /\ TypeOK' /\ [Next]_vars => IInv'
  <2> SUFFICES ASSUME IInv, TypeOK', [Next]_vars PROVE IInv'
    OBVIOUS
  <2>1. CASE \E c \in Conns : Connection(c)
    <3>1. PICK c \in Conns : Connection(c)
      BY <2>1
    <3> QED BY <3>1, AcquireInv, ReleaseInv DEF Connection
  <2>2. CASE Command
    BY <2>2, CommandInv
  <2>3. CASE UNCHANGED vars
    BY <2>3 DEF vars, IInv, TypeOK, ReadsStayValid, SlotAccounting, Count, Holders,
                LimitOf, ConnsWriters, ConnsReaders
  <2> QED BY <2>1, <2>2, <2>3 DEF Next
<1> QED BY <1>1, <1>2, TypeCorrect, PTL DEF Spec

\* Exact slot accounting, for any number of tasks and users (limiter.rs: no
\* interleaving of try_acquire and release loses or invents a slot, unless
\* remove_user drops the counter while it is in use).
THEOREM AccountingCorrect == Spec => []SlotAccounting
BY Invariant, PTL DEF IInv

\* Nothing a task has read under its locks is stale when it is used.
THEOREM ReadsCorrect == Spec => []ReadsStayValid
BY Invariant, PTL DEF IInv

-----------------------------------------------------------------------------
\* No step admits a connection beyond the limit in force, for any number of
\* tasks and users (limiter.rs: both locks are kept up to the fetch_add).
THEOREM GrantCorrect == Spec => GrantWithinLimit
<1>1. IInv /\ IInv' /\ [Next]_vars =>
        [\A c \in Conns : LET u == user[c] IN
           (pc[c] = "decide" /\ pc'[c] = "held" /\ u \notin reset) =>
              Cardinality(Holders(u)') <= LimitOf(u)']_vars
  <2> SUFFICES ASSUME IInv, IInv', Next, NEW c \in Conns,
                      pc[c] = "decide", pc'[c] = "held", user[c] \notin reset
               PROVE  Cardinality(Holders(user[c])') <= LimitOf(user[c])'
    BY DEF vars
  <2> USE DEF IInv, TypeOK, Counts
  <2>1. AcquireSlot(c)
    BY DEF Next, Connection, Command, AcquireLimit, AcquireCounter, AcquireFull, AcquireSlot,
           DropGuard, ReleaseAbsent, ReleaseLoad, ReleaseStore, SetLimit, RemoveLimit,
           RemoveCounter
  <2>2. Count(user[c]) = current[c] /\ max[c] = LimitOf(user[c])
    BY <2>1 DEF AcquireSlot, ReadsStayValid, Count, NoEntry
  <2>3. Cardinality(Holders(user[c])) = current[c] /\ current[c] < max[c]
    BY <2>1, <2>2, ExactCounter DEF AcquireSlot, IsFull
  <2>4. Cardinality(Holders(user[c])') = current[c] + 1
    <3>1. PICK v \in Users : v = user[c] /\ v = user'[c]
      BY <2>1 DEF AcquireSlot
    <3>2. Holders(v)' = Holders(v) \cup {c} /\ c \notin Holders(v)
      BY <2>1, <3>1 DEF AcquireSlot, Holders
    <3>3. Cardinality(Holders(v)') = Cardinality(Holders(v)) + 1
      BY <3>2, HoldersAdd
    <3> QED BY <2>3, <3>1, <3>3
  <2>5. LimitOf(user[c])' = max[c]
    BY <2>1, <2>2 DEF AcquireSlot, LimitOf
  <2> QED BY <2>3, <2>4, <2>5
<1> QED BY <1>1, Invariant, PTL DEF Spec, GrantWithinLimit

\* No step turns a connection away while its user has a slot left.
THEOREM DenyCorrect == Spec => DenyOnlyWhenFull
<1>1. IInv /\ [Next]_vars =>
        [\A c \in Conns : LET u == user[c] IN
           (pc[c] = "decide" /\ pc'[c] = "idle" /\ u \notin reset) =>
              Cardinality(Holders(u)) >= LimitOf(u)]_vars
  <2> SUFFICES ASSUME IInv, Next, NEW c \in Conns,
                      pc[c] = "decide", pc'[c] = "idle", user[c] \notin reset
               PROVE  Cardinality(Holders(user[c])) >= LimitOf(user[c])
    BY DEF vars
  <2> USE DEF IInv, TypeOK, Counts
  <2>1. AcquireFull(c)
    BY DEF Next, Connection, Command, AcquireLimit, AcquireCounter, AcquireFull, AcquireSlot,
           DropGuard, ReleaseAbsent, ReleaseLoad, ReleaseStore, SetLimit, RemoveLimit,
           RemoveCounter
  <2>2. Count(user[c]) = current[c] /\ max[c] = LimitOf(user[c])
    BY <2>1 DEF AcquireFull, ReadsStayValid, Count, NoEntry
  <2>3. Cardinality(Holders(user[c])) = current[c] /\ current[c] >= max[c]
    BY <2>1, <2>2, ExactCounter DEF AcquireFull, IsFull
  <2> QED BY <2>2, <2>3
<1> QED BY <1>1, Invariant, PTL DEF Spec, DenyOnlyWhenFull

-----------------------------------------------------------------------------
\* The refinement of SlotPool, whose `limit' and `stage' are these.
PoolLimit == [u \in Users |-> LimitOf(u)]

PoolStage == [c \in Conns |-> CASE pc[c] = "idle" -> "out"
                                [] pc[c] \in {"lookup", "decide"} -> "asking"
                                [] OTHER -> "in"]

\* (The instance has its own copy of the operator.)
LEMMA PoolCardinality == \A S : Pool!Cardinality(S) = Cardinality(S)
BY DEF Pool!Cardinality, Cardinality

\* In the pool's terms a connection is in exactly while it is a holder.
LEMMA PoolIn ==
  ASSUME TypeOK, NEW u
  PROVE  Pool!In(u) = Holders(u)
BY DEF Pool!In, Holders, TypeOK, Labels

\* A new limiter is a new pool: every user has the default of one slot.
LEMMA PoolInit == Init => Pool!Init
BY DEF Init, Pool!Init, LimitOf

\* Every step of the limiter is a step of the pool, or none.
LEMMA PoolStep == IInv /\ IInv' /\ [Next]_vars => [Pool!Next]_Pool!poolVars
<1> SUFFICES ASSUME IInv, IInv', [Next]_vars PROVE [Pool!Next]_Pool!poolVars
  OBVIOUS
<1> USE DEF IInv, TypeOK, Labels
<1>1. ASSUME NEW c \in Conns, NEW u \in Users, AcquireLimit(c, u) PROVE Pool!Ask(c, u)
  BY <1>1 DEF AcquireLimit, Pool!Ask, LimitOf
<1>2. ASSUME NEW c \in Conns, AcquireCounter(c) PROVE UNCHANGED Pool!poolVars
  BY <1>2 DEF AcquireCounter, Pool!poolVars, LimitOf
<1>3. ASSUME NEW c \in Conns, AcquireFull(c) PROVE Pool!Deny(c)
  <2>1. user[c] \in reset \/ Cardinality(Holders(user[c])) >= LimitOf(user[c])
    <3>1. Count(user[c]) = current[c] /\ max[c] = LimitOf(user[c])
      BY <1>3 DEF AcquireFull, ReadsStayValid, Count, NoEntry, Counts
    <3> QED BY <1>3, <3>1, ExactCounter DEF AcquireFull, IsFull, Counts
  <2>2. Pool!In(user[c]) = Holders(user[c])
    BY PoolIn
  <2>3. PoolLimit[user[c]] = LimitOf(user[c]) /\ UNCHANGED PoolLimit
    BY <1>3 DEF AcquireFull, PoolLimit, LimitOf
  <2>4. PoolStage' = [PoolStage EXCEPT ![c] = "out"] /\ PoolStage[c] = "asking"
    BY <1>3 DEF AcquireFull, PoolStage
  <2>5. user[c] \in reset \/ Cardinality(Pool!In(user[c])) >= PoolLimit[user[c]]
    BY <2>1, <2>2, <2>3
  <2>6. UNCHANGED <<PoolLimit, user, reset>>
    BY <1>3, <2>3 DEF AcquireFull
  <2> QED BY <2>4, <2>5, <2>6, PoolCardinality DEF Pool!Deny, PoolLimit, PoolStage
<1>4. ASSUME NEW c \in Conns, AcquireSlot(c) PROVE Pool!Grant(c)
  <2>1. user[c] \in reset \/ Cardinality(Holders(user[c])) < LimitOf(user[c])
    <3>1. Count(user[c]) = current[c] /\ max[c] = LimitOf(user[c])
      BY <1>4 DEF AcquireSlot, ReadsStayValid, Count, NoEntry, Counts
    <3> QED BY <1>4, <3>1, ExactCounter DEF AcquireSlot, IsFull, Counts
  <2>2. Pool!In(user[c]) = Holders(user[c])
    BY PoolIn
  <2>3. PoolLimit[user[c]] = LimitOf(user[c]) /\ UNCHANGED PoolLimit
    BY <1>4 DEF AcquireSlot, PoolLimit, LimitOf
  <2>4. PoolStage' = [PoolStage EXCEPT ![c] = "in"] /\ PoolStage[c] = "asking"
    BY <1>4 DEF AcquireSlot, PoolStage
  <2>5. user[c] \in reset \/ Cardinality(Pool!In(user[c])) < PoolLimit[user[c]]
    BY <2>1, <2>2, <2>3
  <2>6. UNCHANGED <<PoolLimit, user, reset>>
    BY <1>4, <2>3 DEF AcquireSlot
  <2> QED BY <2>4, <2>5, <2>6, PoolCardinality DEF Pool!Grant, PoolLimit, PoolStage
<1>5. ASSUME NEW c \in Conns, DropGuard(c) PROVE UNCHANGED Pool!poolVars
  BY <1>5 DEF DropGuard, Pool!poolVars, LimitOf
<1>6. ASSUME NEW c \in Conns, ReleaseAbsent(c) PROVE Pool!Return(c)
  BY <1>6 DEF ReleaseAbsent, Pool!Return, LimitOf
<1>7. ASSUME NEW c \in Conns, ReleaseLoad(c) PROVE UNCHANGED Pool!poolVars
  BY <1>7 DEF ReleaseLoad, Pool!poolVars, LimitOf
<1>8. ASSUME NEW c \in Conns, ReleaseStore(c) PROVE Pool!Return(c)
  BY <1>8 DEF ReleaseStore, Pool!Return, LimitOf
<1>9. ASSUME NEW u \in Users, NEW m \in Limits, SetLimit(u, m) PROVE Pool!Configure(u)
  <2>1. PoolLimit' = [PoolLimit EXCEPT ![u] = m]
    <3>1. \A v \in Users : LimitOf(v)' = IF v = u THEN m ELSE LimitOf(v)
      BY <1>9 DEF SetLimit, LimitOf, NoEntry
    <3> QED BY <3>1 DEF PoolLimit
  <2> QED BY <1>9, <2>1 DEF SetLimit, Pool!Configure, PoolLimit
<1>10. ASSUME NEW u \in Users, RemoveLimit(u) PROVE Pool!Configure(u)
  <2>1. PoolLimit' = [PoolLimit EXCEPT ![u] = 1]
    BY <1>10 DEF RemoveLimit, PoolLimit, LimitOf, NoEntry
  <2> QED BY <1>10, <2>1 DEF RemoveLimit, Pool!Configure, PoolLimit
<1>11. ASSUME RemoveCounter PROVE Pool!Forget(cmd) /\ cmd \in Users
  <2>1. Pool!In(cmd) = Holders(cmd)
    BY PoolIn
  <2> QED BY <1>11, <2>1 DEF RemoveCounter, Pool!Forget, LimitOf
<1>12. CASE UNCHANGED vars
  BY <1>12 DEF vars, Pool!poolVars, LimitOf
<1> QED
  BY <1>1, <1>2, <1>3, <1>4, <1>5, <1>6, <1>7, <1>8, <1>9, <1>10, <1>11, <1>12
  DEF Next, Connection, Command, Pool!Next

\* The limiter implements the pool, for any number of tasks and users: to its
\* callers, each grant, denial and return of limiter.rs is a single step.
THEOREM PoolCorrect == Spec => ImplementsPool
BY PoolInit, PoolStep, Invariant, PTL DEF Spec, ImplementsPool, Pool!Spec

=============================================================================
