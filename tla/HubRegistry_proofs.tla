-------------------------- MODULE HubRegistry_proofs --------------------------
(***************************************************************************)
(* Proofs about the registry of agent connections and the status of        *)
(* servers (server/src/websocket/manager.js): for any numbers of servers,  *)
(* connections and instances of the hub, a connected agent is reachable    *)
(* unless connections of one agent overlap, and the status is true at rest *)
(* when connections end and nothing else goes wrong.                       *)
(***************************************************************************)
EXTENDS HubRegistry, SequenceTheorems, TLAPS

USE HubAssumption

-----------------------------------------------------------------------------
\* The inductive invariant.

\* The hub is not done with a connection.
Alive(k) == ws[k] # "closed" \/ auth[k] \in Handling

\* An agent uses a connection of its own.
LinkOwn == \A s \in Servers, k \in Sockets : link[s] = k => owner[k] = s

BoundOnce == \A k \in Sockets : auth[k] \in {"sync", "done"} => bound[k]

\* Without overlapping connections a server has one at a time, and what is
\* authenticated and open is registered.
OneEach ==
    "overlap" \notin faults =>
        \A j, k \in Sockets : owner[j] = owner[k] /\ Alive(j) /\ Alive(k) => j = k

Registered ==
    "overlap" \notin faults =>
        \A k \in Sockets : ws[k] = "open" /\ auth[k] \in {"sync", "done"} => agents[at[k]][owner[k]] = k

\* When connections end and nothing else happens, they end after their
\* authentication, which only a deleted server does not pass.
Watched ==
    faults = {} => \A k \in Sockets :
        /\ auth[k] \in Handling => ws[k] = "open" /\ Peer(k)
        /\ ws[k] # "closed" /\ auth[k] = "none" => status[owner[k]] = "deleted"

\* What the status of s will be when the issued UPDATEs have taken effect.
WillBe(s, v) ==
    \/ \E n \in 1..Len(late) : /\ late[n] = [server |-> s, status |-> v]
                               /\ \A m \in 1..Len(late) : m > n => late[m].server # s
    \/ status[s] = v /\ \A n \in 1..Len(late) : late[n].server # s

WillBeTrue ==
    faults = {} => \A s \in Servers : status[s] # "deleted" =>
        /\ (\E k \in Sockets : owner[k] = s /\ ws[k] = "open" /\ auth[k] \in {"updated", "sync", "done"})
             => WillBe(s, "online")
        /\ (\A k \in Sockets : owner[k] = s => ~Alive(k)) => WillBe(s, "offline")

HubInv == LinkOwn /\ BoundOnce /\ OneEach /\ Registered /\ Watched /\ WillBeTrue

IInv == TypeOK /\ HubInv

-----------------------------------------------------------------------------
\* The issued UPDATEs.

\* Nothing is issued or carried out, and the status of s stays.
LEMMA WillBeStill ==
  ASSUME NEW s, NEW v, late' = late, status'[s] = status[s]
  PROVE  WillBe(s, v)' <=> WillBe(s, v)
BY DEF WillBe

\* An UPDATE is issued: it decides what its server's status will be.
LEMMA WillBeIssued ==
  ASSUME TypeOK, NEW s \in Servers, NEW v \in {"online", "offline"}, Issue(s, v), status' = status
  PROVE  /\ late' \in Seq(Update) /\ Len(late') <= MaxLate
         /\ WillBe(s, v)'
         /\ \A t \in Servers : \A w : t # s => (WillBe(t, w)' <=> WillBe(t, w))
<1> DEFINE new == [server |-> s, status |-> v]
<1>1. /\ late \in Seq(Update) /\ Len(late) < MaxLate /\ late' = Append(late, new)
      /\ new \in Update /\ new.server = s
  BY DEF TypeOK, Issue, Update
<1> HIDE DEF new
<1>2. /\ late' \in Seq(Update) /\ Len(late) \in Nat /\ Len(late') = Len(late) + 1
      /\ late'[Len(late) + 1] = new
      /\ \A n \in 1..Len(late) : late'[n] = late[n]
  BY <1>1
<1>3. WillBe(s, v)'
  <2>1. /\ Len(late) + 1 \in 1..Len(late')
        /\ \A m \in 1..Len(late') : ~(m > Len(late) + 1)
    BY <1>2
  <2> QED BY <1>2, <2>1 DEF WillBe, new
<1>4. ASSUME NEW t \in Servers, NEW w, t # s
      PROVE  WillBe(t, w)' <=> WillBe(t, w)
  <2>1. \A n \in 1..Len(late') : n = Len(late) + 1 \/ n \in 1..Len(late)
    BY <1>2
  <2>2. \A n \in 1..Len(late) : n \in 1..Len(late')
    BY <1>2
  <2>3. [server |-> t, status |-> w].server # new.server
    BY <1>1, <1>4
  <2>4. late'[Len(late) + 1].server # t /\ late'[Len(late) + 1] # [server |-> t, status |-> w]
    BY <1>1, <1>2, <1>4, <2>3
  <2> QED BY <1>2, <2>1, <2>2, <2>4 DEF WillBe
<1>5. Len(late') <= MaxLate
  BY <1>1, <1>2
<1> QED BY <1>2, <1>3, <1>4, <1>5

\* RemoveAt keeps the others, in order.
LEMMA RemovedAt ==
  ASSUME NEW S, NEW q \in Seq(S), NEW n \in 1..Len(q)
  PROVE  /\ RemoveAt(q, n) \in Seq(S) /\ Len(RemoveAt(q, n)) = Len(q) - 1
         /\ \A m \in 1..(Len(q) - 1) : RemoveAt(q, n)[m] = IF m < n THEN q[m] ELSE q[m + 1]
<1> DEFINE a == SubSeq(q, 1, n - 1)
           b == SubSeq(q, n + 1, Len(q))
<1>1. a \in Seq(S) /\ Len(a) = n - 1 /\ \A m \in 1..(n - 1) : a[m] = q[m]
  OBVIOUS
<1>2. b \in Seq(S) /\ Len(b) = Len(q) - n /\ \A m \in 1..(Len(q) - n) : b[m] = q[n + m]
  OBVIOUS
<1>3. RemoveAt(q, n) = a \o b
  BY DEF RemoveAt
<1> HIDE DEF a, b
<1>4. /\ a \o b \in Seq(S) /\ Len(a \o b) = Len(a) + Len(b)
      /\ \A m \in 1..(Len(a) + Len(b)) : (a \o b)[m] = IF m <= Len(a) THEN a[m] ELSE b[m - Len(a)]
  BY <1>1, <1>2, ConcatProperties
<1>5. ASSUME NEW m \in 1..(Len(q) - 1)
      PROVE  (a \o b)[m] = IF m < n THEN q[m] ELSE q[m + 1]
  <2>1. CASE m < n
    BY <1>1, <1>2, <1>4, <2>1
  <2>2. CASE ~(m < n)
    <3>1. /\ m - (n - 1) \in 1..(Len(q) - n) /\ n + (m - (n - 1)) = m + 1
          /\ ~(m <= n - 1) /\ m \in 1..((n - 1) + (Len(q) - n))
      BY <2>2
    <3>2. (a \o b)[m] = b[m - (n - 1)]
      BY <1>1, <1>2, <1>4, <3>1
    <3>3. b[m - (n - 1)] = q[m + 1]
      BY <1>2, <3>1
    <3> QED BY <2>2, <3>2, <3>3
  <2> QED BY <2>1, <2>2
<1> QED BY <1>1, <1>2, <1>3, <1>4, <1>5

\* In order, an UPDATE that is carried out changes nothing about what the
\* status will be.
LEMMA WillBeExecuted ==
  ASSUME TypeOK, Execute, "reorder" \notin faults, NEW s \in Servers, NEW v, status'[s] # "deleted", WillBe(s, v)
  PROVE  WillBe(s, v)'
<1>1. /\ late \in Seq(Update) /\ 1 \in 1..Len(late) /\ SetStatus(late[1].server, late[1].status)
      /\ late' = RemoveAt(late, 1) /\ late[1] \in Update
  BY DEF Execute, TypeOK
<1>2. /\ Len(late) \in Nat /\ Len(late') = Len(late) - 1
      /\ \A m \in 1..Len(late') : late'[m] = late[m + 1] /\ m + 1 \in 1..Len(late)
      /\ \A m \in 1..Len(late) : m = 1 \/ (m - 1 \in 1..Len(late') /\ late'[m - 1] = late[m])
  BY <1>1, RemovedAt
<1>3. /\ late[1].server # s => status'[s] = status[s]
      /\ late[1].server = s => status'[s] = late[1].status
  BY <1>1 DEF SetStatus, TypeOK, Update
<1>4. CASE status[s] = v /\ \A n \in 1..Len(late) : late[n].server # s
  BY <1>1, <1>2, <1>3, <1>4 DEF WillBe
<1>5. ASSUME NEW n \in 1..Len(late), late[n] = [server |-> s, status |-> v],
             \A m \in 1..Len(late) : m > n => late[m].server # s
      PROVE  WillBe(s, v)'
  <2>1. CASE n = 1
    <3>1. status'[s] = v
      BY <1>3, <1>5, <2>1
    <3>2. \A m \in 1..Len(late') : late'[m].server # s
      BY <1>2, <1>5, <2>1
    <3> QED BY <3>1, <3>2 DEF WillBe
  <2>2. CASE n # 1
    <3>1. n - 1 \in 1..Len(late') /\ late'[n - 1] = [server |-> s, status |-> v]
      BY <1>2, <1>5, <2>2
    <3>2. \A m \in 1..Len(late') : m > n - 1 => late'[m].server # s
      BY <1>2, <1>5
    <3> QED BY <3>1, <3>2 DEF WillBe
  <2> QED BY <2>1, <2>2
<1> QED BY <1>4, <1>5 DEF WillBe

-----------------------------------------------------------------------------
\* The agent's side.

LEMMA ConnectInv ==
  ASSUME TypeOK, HubInv, NEW s \in Servers, NEW k \in Sockets, NEW i \in Instances, Connect(s, k, i)
  PROVE  IInv'
<1> USE DEF Connect, Unused
<1>1. TypeOK'
  BY DEF TypeOK, Handling
<1>2. LinkOwn' /\ BoundOnce'
  BY DEF TypeOK, HubInv, LinkOwn, BoundOnce, Handling
<1>3. OneEach'
  BY DEF TypeOK, HubInv, OneEach, Alive, Handling, Forgotten
<1>4. Registered'
  BY DEF TypeOK, HubInv, Registered, BoundOnce, OneEach, Alive, Handling
<1>5. Watched'
  BY DEF TypeOK, HubInv, Watched, LinkOwn, Peer, Handling
<1>6. WillBeTrue'
  <2> SUFFICES ASSUME faults = {}, NEW t \in Servers, status[t] # "deleted"
               PROVE  /\ (\E j \in Sockets : owner'[j] = t /\ ws'[j] = "open" /\ auth'[j] \in {"updated", "sync", "done"})
                           => WillBe(t, "online")
                      /\ (\A j \in Sockets : owner'[j] = t => ~Alive(j)') => WillBe(t, "offline")
    BY WillBeStill DEF WillBeTrue
  <2>1. /\ auth'[k] = "hello" /\ ws'[k] = "open" /\ ~Alive(k)
        /\ \A j \in Sockets : j # k => owner'[j] = owner[j] /\ ws'[j] = ws[j] /\ auth'[j] = auth[j]
    BY DEF TypeOK, Alive
  <2>2. \A j \in Sockets : j # k => (Alive(j)' <=> Alive(j))
    BY <2>1 DEF Alive
  <2> QED BY <2>1, <2>2 DEF HubInv, WillBeTrue
<1> QED BY <1>1, <1>2, <1>3, <1>4, <1>5, <1>6 DEF IInv, HubInv

\* The agent loses its connection or learns that it is closed; a pong.
LEMMA AgentInv ==
  ASSUME TypeOK, HubInv,
         \/ \E s \in Servers : Drop(s) \/ NoticeClosed(s)
         \/ \E k \in Sockets : Pong(k)
  PROVE  IInv'
<1>1. UNCHANGED <<ws, auth, bound, owner, at, agents, status, late, faults>>
  BY DEF Drop, NoticeClosed, Pong, sockVars
<1>2. link' \in [Servers -> Sockets \cup {None}] /\ isAlive' \in [Sockets -> BOOLEAN]
  <2>1. CASE \E k \in Sockets : Pong(k)
    BY <2>1 DEF Pong, TypeOK
  <2>2. CASE \E s \in Servers : Drop(s) \/ NoticeClosed(s)
    BY <2>2 DEF Drop, NoticeClosed, sockVars, TypeOK
  <2> QED BY <2>1, <2>2
<1>3. /\ \A s \in Servers : link'[s] \in {link[s], None}
      /\ "early" \notin faults =>
           \A k \in Sockets : auth[k] \in Handling /\ ws[k] = "open" /\ Peer(k) => link'[owner[k]] = k
  <2>1. CASE \E k \in Sockets : Pong(k)
    BY <2>1 DEF Pong, Peer
  <2>2. ASSUME NEW s \in Servers, Drop(s) \/ NoticeClosed(s)
        PROVE  /\ \A t \in Servers : link'[t] \in {link[t], None}
               /\ "early" \notin faults =>
                    \A k \in Sockets : auth[k] \in Handling /\ ws[k] = "open" /\ Peer(k) => link'[owner[k]] = k
    BY <2>2 DEF Drop, NoticeClosed, Peer, TypeOK
  <2> QED BY <2>1, <2>2
<1>4. TypeOK'
  BY <1>1, <1>2 DEF TypeOK
<1>5. LinkOwn' /\ BoundOnce' /\ OneEach' /\ Registered'
  BY <1>1, <1>3 DEF HubInv, LinkOwn, BoundOnce, OneEach, Registered, Alive
<1>6. Watched'
  BY <1>1, <1>3 DEF HubInv, Watched, Peer
<1>7. WillBeTrue'
  BY <1>1, WillBeStill DEF HubInv, WillBeTrue, Alive
<1> QED BY <1>4, <1>5, <1>6, <1>7 DEF IInv, HubInv

\* A server is deleted.
LEMMA DeleteInv ==
  ASSUME TypeOK, HubInv, NEW s \in Servers, DeleteServer(s)
  PROVE  IInv'
<1>1. /\ UNCHANGED <<ws, at, owner, bound, auth, isAlive, agents, late, link, faults>>
      /\ status' = [status EXCEPT ![s] = "deleted"]
  BY DEF DeleteServer, sockVars
<1>2. TypeOK'
  BY <1>1 DEF TypeOK
<1>3. LinkOwn' /\ BoundOnce' /\ OneEach' /\ Registered'
  BY <1>1 DEF HubInv, LinkOwn, BoundOnce, OneEach, Registered, Alive
<1>4. Watched'
  BY <1>1 DEF TypeOK, HubInv, Watched, Peer
<1>5. WillBeTrue'
  <2>1. \A t \in Servers : \A v : status'[t] # "deleted" => status[t] = status'[t] /\ (WillBe(t, v)' <=> WillBe(t, v))
    BY <1>1, WillBeStill DEF TypeOK
  <2> QED BY <1>1, <2>1 DEF HubInv, WillBeTrue, Alive
<1> QED BY <1>2, <1>3, <1>4, <1>5 DEF IInv, HubInv

-----------------------------------------------------------------------------
\* handleAgentAuth.

LEMMA AuthInv ==
  ASSUME TypeOK, HubInv, NEW k \in Sockets, Authentication(k)
  PROVE  IInv'
<1> USE DEF Lookup, MarkOnline, Register, Synced, SetStatus
<1>1. TypeOK'
  <2>1. CASE Lookup(k) \/ Synced(k)
    <3>1. UNCHANGED <<ws, at, owner, bound, isAlive, agents, status, late, link, faults>>
      BY <2>1
    <3>2. PICK v \in {"none", "done"} \cup Handling : auth' = [auth EXCEPT ![k] = v]
      BY <2>1 DEF Handling
    <3>3. auth' \in [Sockets -> {"none", "done"} \cup Handling]
      BY <3>2 DEF TypeOK
    <3> QED BY <3>1, <3>3 DEF TypeOK
  <2>2. CASE MarkOnline(k)
    BY <2>2 DEF TypeOK, Handling
  <2>3. CASE Register(k)
    BY <2>3 DEF TypeOK, Handling
  <2> QED BY <2>1, <2>2, <2>3 DEF Authentication
<1>2. LinkOwn' /\ BoundOnce'
  BY DEF Authentication, TypeOK, HubInv, LinkOwn, BoundOnce, Handling
<1>3. OneEach'
  BY DEF Authentication, TypeOK, HubInv, OneEach, Alive, Handling
<1>4. Registered'
  <2>1. CASE Lookup(k) \/ MarkOnline(k) \/ Synced(k)
    BY <2>1 DEF TypeOK, HubInv, Registered, Handling
  <2>2. CASE Register(k)
    BY <2>2 DEF TypeOK, HubInv, Registered, OneEach, Alive, Handling
  <2> QED BY <2>1, <2>2 DEF Authentication
<1>5. Watched'
  BY DEF Authentication, TypeOK, HubInv, Watched, LinkOwn, Peer, Handling
<1>6. WillBeTrue'
  <2> SUFFICES ASSUME faults = {}
               PROVE  WillBeTrue'
    <3>1. faults' = faults
      BY DEF Authentication
    <3> QED BY <3>1 DEF WillBeTrue
  <2>1. /\ ws[k] = "open" /\ ws' = ws /\ owner' = owner /\ late' = late /\ faults' = faults /\ auth[k] \in Handling
        /\ \A j \in Sockets : j # k => auth'[j] = auth[j]
    BY DEF Authentication, HubInv, Watched, Handling, TypeOK
  <2>2. \A j \in Sockets : Alive(j)' <=> Alive(j)
    BY <2>1 DEF Alive
  <2>3. CASE MarkOnline(k)
    <3>1. \A t \in Servers : t # owner[k] => status'[t] = status[t]
      BY <2>3 DEF TypeOK
    <3>2. status'[owner[k]] # "deleted" => WillBe(owner[k], "online")'
      BY <2>1, <2>3 DEF WillBe, TypeOK
    <3>3. Alive(k)
      BY <2>1 DEF Alive
    <3> QED BY <2>1, <2>2, <3>1, <3>2, <3>3, WillBeStill DEF HubInv, WillBeTrue
  <2>4. CASE Lookup(k) \/ Register(k) \/ Synced(k)
    <3>1. /\ status' = status
          /\ auth'[k] \in {"updated", "sync", "done"} => auth[k] \in {"updated", "sync", "done"}
      BY <2>4 DEF TypeOK
    <3> QED BY <2>1, <2>2, <3>1, WillBeStill DEF HubInv, WillBeTrue
  <2> QED BY <2>3, <2>4 DEF Authentication
<1> QED BY <1>1, <1>2, <1>3, <1>4, <1>5, <1>6 DEF IInv, HubInv

-----------------------------------------------------------------------------
\* UPDATEs, and the end of a connection.

LEMMA HeartbeatInv ==
  ASSUME TypeOK, HubInv, NEW k \in Sockets, Heartbeat(k)
  PROVE  IInv'
<1>1. /\ UNCHANGED <<ws, at, owner, bound, auth, isAlive, agents, status, link, faults>>
      /\ ws[k] = "open" /\ owner[k] \in Servers /\ Issue(owner[k], "online")
  BY DEF Heartbeat, sockVars, TypeOK
<1>2. /\ late' \in Seq(Update) /\ Len(late') <= MaxLate
      /\ WillBe(owner[k], "online")'
      /\ \A t \in Servers : \A w : t # owner[k] => (WillBe(t, w)' <=> WillBe(t, w))
  BY <1>1, WillBeIssued
<1>3. TypeOK'
  BY <1>1, <1>2 DEF TypeOK
<1>4. LinkOwn' /\ BoundOnce' /\ OneEach' /\ Registered' /\ Watched'
  BY <1>1 DEF HubInv, LinkOwn, BoundOnce, OneEach, Registered, Watched, Alive, Peer
<1>5. WillBeTrue'
  <2>1. Alive(k) /\ \A j \in Sockets : Alive(j)' <=> Alive(j)
    BY <1>1 DEF Alive
  <2> QED BY <1>1, <1>2, <2>1 DEF HubInv, WillBeTrue
<1> QED BY <1>3, <1>4, <1>5 DEF IInv, HubInv

\* What the end of a stream, the error event and the close event have in common.
LEMMA EndingInv ==
  ASSUME TypeOK, HubInv, NEW k \in Sockets, Ending(k)
  PROVE  IInv'
<1>1. /\ UNCHANGED <<at, owner, bound, auth, isAlive, status, link, faults>> /\ owner[k] \in Servers
      /\ \A j \in Sockets : j # k => ws'[j] = ws[j]
      /\ ws' \in [Sockets -> {"closed", "open", "ended"}]
      /\ ws[k] # "closed" /\ ws'[k] # "open" /\ (ws[k] = "open" => ~Peer(k))
      /\ (StreamEnds(k) /\ ws'[k] = "ended" /\ UNCHANGED <<agents, late>>) \/ Cleanup(k)
  <2>1. CASE StreamEnds(k)
    BY <2>1 DEF StreamEnds, TypeOK
  <2>2. CASE ErrorEvent(k)
    BY <2>2 DEF ErrorEvent, TypeOK
  <2>3. CASE CloseEvent(k)
    BY <2>3 DEF CloseEvent, TypeOK
  <2> QED BY <2>1, <2>2, <2>3 DEF Ending
<1>2. CASE UNCHANGED <<agents, late>> /\ (ws'[k] = "ended" \/ ~bound[k])
  <2>1. TypeOK'
    BY <1>1, <1>2 DEF TypeOK
  <2>2. LinkOwn' /\ BoundOnce' /\ OneEach' /\ Registered'
    BY <1>1, <1>2 DEF HubInv, LinkOwn, BoundOnce, OneEach, Registered, Alive
  <2>3. Watched'
    BY <1>1, <1>2 DEF HubInv, Watched, Peer
  <2>4. WillBeTrue'
    <3> SUFFICES ASSUME faults = {}
                 PROVE  WillBeTrue'
      BY <1>1 DEF WillBeTrue
    <3>1. auth[k] \notin Handling
      BY <1>1 DEF HubInv, Watched
    <3>2. \A j \in Sockets : j # k => (Alive(j)' <=> Alive(j))
      BY <1>1 DEF Alive
    <3>3. Alive(k)' \/ status[owner[k]] = "deleted"
      <4>1. CASE ws'[k] = "ended"
        BY <4>1 DEF Alive
      <4>2. CASE ~bound[k]
        <5>1. auth[k] = "none"
          BY <3>1, <4>2 DEF HubInv, BoundOnce, TypeOK
        <5> QED BY <1>1, <5>1 DEF HubInv, Watched
      <4> QED BY <1>2, <4>1, <4>2
    <3> QED BY <1>1, <1>2, <3>2, <3>3, WillBeStill DEF HubInv, WillBeTrue
  <2> QED BY <2>1, <2>2, <2>3, <2>4 DEF IInv, HubInv
<1>3. CASE bound[k] /\ agents' = [agents EXCEPT ![at[k]][owner[k]] = None] /\ Issue(owner[k], "offline")
  <2>1. /\ late' \in Seq(Update) /\ Len(late') <= MaxLate
        /\ WillBe(owner[k], "offline")'
        /\ \A t \in Servers : \A w : t # owner[k] => (WillBe(t, w)' <=> WillBe(t, w))
    BY <1>1, <1>3, WillBeIssued
  <2>2. agents' \in [Instances -> [Servers -> Sockets \cup {None}]]
    BY <1>1, <1>3 DEF TypeOK
  <2>3. \A j \in Instances, s \in Servers : agents'[j][s] \in {agents[j][s], None}
        /\ (j # at[k] \/ s # owner[k] => agents'[j][s] = agents[j][s])
    BY <1>1, <1>3 DEF TypeOK
  <2>4. TypeOK'
    BY <1>1, <2>1, <2>2, <2>3 DEF TypeOK
  <2>5. LinkOwn' /\ BoundOnce' /\ OneEach'
    BY <1>1 DEF HubInv, LinkOwn, BoundOnce, OneEach, Alive
  <2>6. Registered'
    <3> SUFFICES ASSUME "overlap" \notin faults, NEW j \in Sockets, ws'[j] = "open", auth[j] \in {"sync", "done"}
                 PROVE  agents'[at[j]][owner[j]] = j
      BY <1>1 DEF Registered
    <3>1. j # k /\ ws[j] = "open"
      BY <1>1
    <3>2. owner[j] # owner[k]
      BY <1>1, <3>1 DEF HubInv, OneEach, Alive
    <3>3. agents[at[j]][owner[j]] = j /\ at[j] \in Instances /\ owner[j] \in Servers
      BY <3>1 DEF HubInv, Registered, TypeOK
    <3> QED BY <2>3, <3>2, <3>3
  <2>7. Watched'
    BY <1>1 DEF HubInv, Watched, Peer
  <2>8. WillBeTrue'
    <3> SUFFICES ASSUME faults = {}
                 PROVE  WillBeTrue'
      BY <1>1 DEF WillBeTrue
    <3>1. \A j \in Sockets : j # k => (Alive(j)' <=> Alive(j))
      BY <1>1 DEF Alive
    <3>2. \A j \in Sockets : owner[j] = owner[k] => ws'[j] # "open"
      BY <1>1 DEF HubInv, OneEach, Alive
    <3> QED BY <1>1, <2>1, <3>1, <3>2 DEF HubInv, WillBeTrue
  <2> QED BY <2>4, <2>5, <2>6, <2>7, <2>8 DEF IInv, HubInv
<1> QED BY <1>1, <1>2, <1>3 DEF Cleanup

LEMMA CheckInv ==
  ASSUME TypeOK, HubInv, NEW i \in Instances, Check(i)
  PROVE  IInv'
<1>1. /\ UNCHANGED <<at, owner, bound, auth, agents, status, late, link, faults>>
      /\ ws' \in [Sockets -> {"closed", "open", "ended"}] /\ isAlive' \in [Sockets -> BOOLEAN]
      /\ \A k \in Sockets : /\ ws'[k] = "closed" <=> ws[k] = "closed"
                            /\ ws'[k] = "open" => ws[k] = "open"
                            /\ "early" \notin faults /\ auth[k] \in Handling => ws'[k] = ws[k]
  BY DEF Check, TypeOK
<1>2. TypeOK'
  BY <1>1 DEF TypeOK
<1>3. LinkOwn' /\ BoundOnce' /\ OneEach' /\ Registered'
  BY <1>1 DEF HubInv, LinkOwn, BoundOnce, OneEach, Registered, Alive
<1>4. Watched'
  BY <1>1 DEF HubInv, Watched, Peer
<1>5. WillBeTrue'
  <2>1. \A j \in Sockets : Alive(j)' <=> Alive(j)
    BY <1>1 DEF Alive
  <2> QED BY <1>1, <2>1, WillBeStill DEF HubInv, WillBeTrue
<1> QED BY <1>2, <1>3, <1>4, <1>5 DEF IInv, HubInv

LEMMA CrashInv ==
  ASSUME TypeOK, HubInv, NEW i \in Instances, Crash(i)
  PROVE  IInv'
<1> USE DEF Crash
<1>1. TypeOK'
  BY DEF TypeOK, Handling
<1>2. LinkOwn' /\ BoundOnce'
  BY DEF TypeOK, HubInv, LinkOwn, BoundOnce, Handling
<1>3. OneEach'
  BY DEF TypeOK, HubInv, OneEach, Alive, Handling
<1>4. Registered'
  BY DEF TypeOK, HubInv, Registered
<1>5. Watched' /\ WillBeTrue'
  BY DEF Watched, WillBeTrue
<1> QED BY <1>1, <1>2, <1>3, <1>4, <1>5 DEF IInv, HubInv

LEMMA ExecuteInv ==
  ASSUME TypeOK, HubInv, Execute
  PROVE  IInv'
<1>1. PICK n \in 1..Len(late) : /\ SetStatus(late[n].server, late[n].status)
                                /\ late' = RemoveAt(late, n)
                                /\ UNCHANGED <<ws, at, owner, bound, auth, isAlive, agents, link, faults>>
  BY DEF Execute, sockVars, TypeOK
<1>2. late \in Seq(Update) /\ late[n] \in Update
  BY DEF TypeOK
<1>3. /\ status' \in [Servers -> {"online", "offline", "deleted"}]
      /\ \A s \in Servers : status'[s] = "deleted" <=> status[s] = "deleted"
  BY <1>1, <1>2 DEF SetStatus, TypeOK, Update
<1>4. TypeOK'
  <2>1. late' \in Seq(Update) /\ Len(late') <= MaxLate
    BY <1>1, <1>2, RemovedAt DEF TypeOK
  <2> QED BY <1>1, <1>3, <2>1 DEF TypeOK
<1>5. LinkOwn' /\ BoundOnce' /\ OneEach' /\ Registered' /\ Watched'
  BY <1>1, <1>3 DEF TypeOK, HubInv, LinkOwn, BoundOnce, OneEach, Registered, Watched, Alive, Peer
<1>6. WillBeTrue'
  <2> SUFFICES ASSUME faults = {}
               PROVE  WillBeTrue'
    BY <1>1 DEF WillBeTrue
  <2>1. \A s \in Servers, v \in {"online", "offline"} : status'[s] # "deleted" /\ WillBe(s, v) => WillBe(s, v)'
    BY WillBeExecuted
  <2>2. \A j \in Sockets : Alive(j)' <=> Alive(j)
    BY <1>1 DEF Alive
  <2> QED BY <1>1, <1>3, <2>1, <2>2 DEF HubInv, WillBeTrue
<1> QED BY <1>4, <1>5, <1>6 DEF IInv, HubInv

-----------------------------------------------------------------------------
LEMMA InitIInv == Init => IInv
<1> SUFFICES ASSUME Init PROVE IInv
  OBVIOUS
<1>1. TypeOK
  BY DEF Init, TypeOK
<1>2. HubInv
  <2>1. \A s \in Servers : WillBe(s, "offline")
    <3>1. 1..Len(late) = {}
      BY DEF Init
    <3> QED BY <3>1 DEF Init, WillBe
  <2> QED BY <2>1 DEF Init, HubInv, LinkOwn, BoundOnce, OneEach, Registered, Watched, WillBeTrue, Alive, Handling
<1> QED BY <1>1, <1>2 DEF IInv

LEMMA NextIInv == IInv /\ [Next]_vars => IInv'
<1> SUFFICES ASSUME IInv, [Next]_vars PROVE IInv'
  OBVIOUS
<1>1. TypeOK /\ HubInv
  BY DEF IInv
<1>2. CASE UNCHANGED vars
  <2>1. UNCHANGED <<ws, at, owner, bound, auth, isAlive, agents, status, late, link, faults>>
    BY <1>2 DEF vars, sockVars
  <2>2. TypeOK'
    BY <1>1, <2>1 DEF TypeOK
  <2>3. HubInv'
    BY <1>1, <2>1 DEF HubInv, LinkOwn, BoundOnce, OneEach, Registered, Watched, WillBeTrue, WillBe, Alive, Peer
  <2> QED BY <2>2, <2>3 DEF IInv
<1> QED BY <1>1, <1>2, ConnectInv, AgentInv, DeleteInv, AuthInv, HeartbeatInv, EndingInv, CheckInv, CrashInv,
      ExecuteInv DEF Next, Agent

THEOREM Invariance == Spec => []IInv
BY InitIInv, NextIInv, PTL DEF Spec

\* The variables keep their types, and an entry of the registry is of the right
\* server and instance, and of a socket that has been authenticated.
THEOREM TypeCorrect == Spec => []TypeOK
<1>1. IInv => TypeOK
  BY DEF IInv
<1> QED BY <1>1, Invariance, PTL

\* handleAgentAuth, cleanupConnection: without overlapping connections of one
\* agent, an agent that is connected is registered where its socket is.
THEOREM ReachableCorrect == Spec => []ConnectedIsReachable
<1>1. IInv => ConnectedIsReachable
  BY DEF IInv, HubInv, LinkOwn, Registered, ConnectedIsReachable, Connected
<1> QED BY <1>1, Invariance, PTL

\* The status column: at rest it says who is connected, if connections end and
\* nothing else goes wrong.
THEOREM StatusCorrect == Spec => []StatusTruthful
<1>1. IInv => StatusTruthful
  <2> SUFFICES ASSUME IInv, faults = {}, NEW s \in Servers, Len(late) = 0, status[s] # "deleted",
                      \A k \in Sockets : owner[k] = s => ws[k] # "ended" /\ auth[k] \notin Handling
               PROVE  status[s] = "online" <=> \E k \in Sockets : owner[k] = s /\ ws[k] = "open"
    BY DEF StatusTruthful
  <2>1. \A v : WillBe(s, v) => status[s] = v
    BY DEF WillBe
  <2>2. ASSUME NEW k \in Sockets, owner[k] = s, ws[k] = "open"
        PROVE  status[s] = "online"
    <3>1. auth[k] = "done"
      BY <2>2 DEF IInv, TypeOK, HubInv, Watched
    <3> QED BY <2>1, <2>2, <3>1 DEF IInv, HubInv, WillBeTrue
  <2>3. ASSUME \A k \in Sockets : owner[k] = s => ws[k] # "open"
        PROVE  status[s] = "offline"
    <3>1. \A k \in Sockets : owner[k] = s => ~Alive(k)
      BY <2>3 DEF IInv, TypeOK, Alive
    <3> QED BY <2>1, <3>1 DEF IInv, HubInv, WillBeTrue
  <2> QED BY <2>2, <2>3
<1> QED BY <1>1, Invariance, PTL
=============================================================================
