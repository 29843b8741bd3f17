-------------------------- MODULE Telemetry_proofs --------------------------
(***************************************************************************)
(* Proofs about the traffic of an agent and the numbers made of it         *)
(* (agent/src/socks5/relay.rs, the metrics loop of websocket.rs,           *)
(* server/src/websocket/manager.js): for any number of relays, reports,    *)
(* instances of the hub and dashboards no byte is lost or counted twice,   *)
(* and dashboards of the owner, and no others, see the last report.        *)
(***************************************************************************)
EXTENDS Telemetry, FiniteSetTheorems, TLAPS

USE TelemetryAssumption

-----------------------------------------------------------------------------
\* The inductive invariant of the relay.

\* What was sent to a copy is written, on its way, or in its hands.
Balance ==
    \A f \in Copies : stage[f] # "failed" =>
        sent[f] = delivered[f] + pending[f] + (IF stage[f] = "write" THEN 1 ELSE 0)

Drained == \A f \in Copies : stage[f] = "done" => pending[f] = 0

\* What is counted is finite, so that counting it means something.
Finite == \A d \in Dirs : IsFiniteSet(Delivered(d)) /\ IsFiniteSet(Uncounted(d))

RelayInv == RelayTypeOK /\ Balance /\ Drained /\ Finite /\ CountsDelivered

-----------------------------------------------------------------------------
\* The relay.

\* A copy is of a connection, in a direction.
LEMMA CopyOf ==
  ASSUME NEW f \in Copies
  PROVE  f = <<f[1], f[2]>> /\ f[1] \in Conns /\ f[2] \in Dirs
BY DEF Copies

\* Which chunks there are, when so many of each copy are delivered.
Chunks(numbers, d) == UNION {{<<c, n>> : n \in 1..numbers[<<c, d>>]} : c \in Conns}

LEMMA InChunks ==
  ASSUME NEW numbers, NEW d, NEW x
  PROVE  x \in Chunks(numbers, d) <=> /\ x = <<x[1], x[2]>> /\ x[1] \in Conns
                                      /\ x[2] \in 1..numbers[<<x[1], d>>]
<1> DEFINE Of(c) == {<<c, n>> : n \in 1..numbers[<<c, d>>]}
<1>1. \A c \in Conns : x \in Of(c) <=> x = <<c, x[2]>> /\ x[2] \in 1..numbers[<<c, d>>]
  OBVIOUS
<1>2. Chunks(numbers, d) = UNION {Of(c) : c \in Conns}
  BY DEF Chunks
<1> HIDE DEF Of
<1>3. x \in Chunks(numbers, d) <=> \E c \in Conns : x \in Of(c)
  BY <1>2
<1>4. \A c : x = <<c, x[2]>> <=> x = <<x[1], x[2]>> /\ x[1] = c
  OBVIOUS
<1> QED BY <1>1, <1>3, <1>4

LEMMA DeliveredChunks ==
  ASSUME NEW d
  PROVE  Delivered(d) = Chunks(delivered, d) /\ Delivered(d)' = Chunks(delivered', d)
BY DEF Delivered, Chunks

\* The same chunks, counted or not, as before.
LEMMA CountsStill ==
  ASSUME Finite, CountsDelivered, UNCHANGED <<counter, delivered>>,
         \A f \in Copies : stage'[f] = "count" <=> stage[f] = "count"
  PROVE  Finite' /\ CountsDelivered'
<1>1. \A d \in Dirs : Delivered(d)' = Delivered(d) /\ Uncounted(d)' = Uncounted(d)
  BY DEF Delivered, Uncounted, Copies
<1> QED BY <1>1 DEF Finite, CountsDelivered

\* A process that has just started has delivered nothing.
LEMMA FreshCounts ==
  ASSUME delivered = Fresh.numbers, stage = Fresh.stage, counter = Fresh.counter
  PROVE  Finite /\ CountsDelivered
<1>1. ASSUME NEW d \in Dirs
      PROVE  Delivered(d) = {} /\ Uncounted(d) = {} /\ counter[d] = 0
  <2>1. \A c \in Conns : delivered[<<c, d>>] = 0 /\ stage[<<c, d>>] = "off"
    BY DEF Fresh, Copies
  <2>2. counter[d] = 0
    BY DEF Fresh
  <2>3. \A x : x \notin Delivered(d)
    <3> SUFFICES ASSUME NEW x, x \in Chunks(delivered, d) PROVE FALSE
      BY DeliveredChunks
    <3>1. x[1] \in Conns /\ x[2] \in 1..delivered[<<x[1], d>>]
      BY InChunks
    <3> QED BY <2>1, <3>1
  <2> QED BY <2>1, <2>2, <2>3 DEF Uncounted
<1>2. Finite
  BY <1>1, FS_EmptySet DEF Finite
<1>3. CountsDelivered
  <2> SUFFICES ASSUME NEW d \in Dirs
               PROVE  counter[d] + Cardinality(Uncounted(d)) = Cardinality(Delivered(d))
    BY DEF CountsDelivered
  <2>1. Cardinality(Delivered(d)) = Cardinality({}) /\ Cardinality(Uncounted(d)) = Cardinality({})
    BY <1>1
  <2>2. Cardinality({}) = 0
    BY FS_EmptySet
  <2> QED BY <1>1, <2>1, <2>2
<1> QED BY <1>2, <1>3

LEMMA RelayInitInv == RelayInit => RelayInv
<1> SUFFICES ASSUME RelayInit PROVE RelayInv
  OBVIOUS
<1>1. Finite /\ CountsDelivered
  BY FreshCounts DEF RelayInit
<1>2. RelayTypeOK /\ Balance /\ Drained
  BY DEF RelayInit, RelayTypeOK, Balance, Drained, Fresh, Dirs, Ended
<1> QED BY <1>1, <1>2 DEF RelayInv

LEMMA RelayRestartInv == RelayRestart => RelayInv'
<1> SUFFICES ASSUME RelayRestart PROVE RelayInv'
  OBVIOUS
<1>1. RelayInit'
  BY DEF RelayRestart, RelayInit, Fresh
<1> QED BY <1>1, RelayInitInv, PTL

\* Steps that count and write nothing.
LEMMA TransportInv ==
  ASSUME RelayInv, NEW f \in Copies,
         Send(f) \/ EndSource(f) \/ Read(f) \/ ReadEnd(f) \/ Fail(f)
  PROVE  RelayInv'
<1>1. UNCHANGED <<counter, delivered>> /\ \A g \in Copies : stage'[g] = "count" <=> stage[g] = "count"
  BY DEF Send, EndSource, Read, ReadEnd, Fail, Goto, RelayInv, RelayTypeOK
<1>2. Finite' /\ CountsDelivered'
  BY <1>1, CountsStill DEF RelayInv
<1>3. CASE Send(f) \/ EndSource(f)
  <2>1. RelayTypeOK'
    <3>1. CASE Send(f)
      BY <3>1 DEF Send, RelayInv, RelayTypeOK
    <3>2. CASE EndSource(f)
      BY <3>2 DEF EndSource, RelayInv, RelayTypeOK
    <3> QED BY <1>3, <3>1, <3>2
  <2>2. Balance' /\ Drained'
    BY <1>3 DEF Send, EndSource, RelayInv, RelayTypeOK, Balance, Drained, Running, Ended
  <2> QED BY <1>2, <2>1, <2>2 DEF RelayInv
<1>4. CASE Read(f)
  <2>1. RelayTypeOK'
    BY <1>4 DEF Read, Goto, RelayInv, RelayTypeOK
  <2>2. Balance' /\ Drained'
    BY <1>4 DEF Read, Goto, RelayInv, RelayTypeOK, Balance, Drained
  <2> QED BY <1>2, <2>1, <2>2 DEF RelayInv
<1>5. CASE ReadEnd(f) \/ Fail(f)
  <2>1. RelayTypeOK'
    BY <1>5 DEF ReadEnd, Fail, Goto, RelayInv, RelayTypeOK, Ended
  <2>2. Balance' /\ Drained'
    BY <1>5 DEF ReadEnd, Fail, Goto, RelayInv, RelayTypeOK, Balance, Drained
  <2> QED BY <1>2, <2>1, <2>2 DEF RelayInv
<1> QED BY <1>3, <1>4, <1>5

\* A relay opens with both its copies, one that is over has none to stop.
LEMMA OpenReturnInv ==
  ASSUME RelayInv, NEW c \in Conns, Open(c) \/ Return(c)
  PROVE  RelayInv'
<1>1. /\ UNCHANGED <<ended, pending, counter, sent, delivered>>
      /\ over' \subseteq Conns
      /\ stage' \in [Copies -> {"off", "read", "write", "count"} \cup Ended]
      /\ \A g \in Copies : stage'[g] = stage[g] \/ (stage[g] = "off" /\ stage'[g] = "read")
  <2>1. \A g \in Copies : g[1] = c => g = <<c, g[2]>> /\ g[2] \in Dirs
    BY CopyOf
  <2>2. CASE Open(c)
    BY <2>1, <2>2 DEF Open, RelayInv, RelayTypeOK
  <2>3. CASE Return(c)
    <3>1. \A g \in Copies : g[1] = c => stage[g] \in Ended
      BY <2>1, <2>3 DEF Return, Returns
    <3> QED BY <2>3, <3>1 DEF Return, Running, RelayInv, RelayTypeOK, Ended
  <2> QED BY <2>2, <2>3
<1>2. Finite' /\ CountsDelivered'
  BY <1>1, CountsStill DEF RelayInv
<1>3. RelayTypeOK' /\ Balance' /\ Drained'
  BY <1>1 DEF RelayInv, RelayTypeOK, Balance, Drained
<1> QED BY <1>2, <1>3 DEF RelayInv

\* A chunk is written: one more is delivered, and to be counted.
LEMMA WriteInv ==
  ASSUME RelayInv, NEW f \in Copies, Write(f)
  PROVE  RelayInv'
<1> DEFINE c == f[1]  d == f[2]
<1>1. f = <<c, d>> /\ c \in Conns /\ d \in Dirs
  BY CopyOf
<1>2. /\ UNCHANGED <<ended, pending, over, counter, sent>>
      /\ stage[f] = "write" /\ stage' = [stage EXCEPT ![f] = "count"]
      /\ delivered' = [delivered EXCEPT ![f] = delivered[f] + 1]
      /\ delivered[f] \in Nat
  BY DEF Write, Goto, RelayInv, RelayTypeOK
<1>3. RelayTypeOK'
  BY <1>2 DEF RelayInv, RelayTypeOK
<1>4. Balance' /\ Drained'
  BY <1>2 DEF RelayInv, RelayTypeOK, Balance, Drained
<1>5. \A e \in Dirs \ {d} : Delivered(e)' = Delivered(e) /\ Uncounted(e)' = Uncounted(e)
  <2> SUFFICES ASSUME NEW e \in Dirs \ {d}
               PROVE  Delivered(e)' = Delivered(e) /\ Uncounted(e)' = Uncounted(e)
    OBVIOUS
  <2>1. \A y \in Conns : /\ delivered'[<<y, e>>] = delivered[<<y, e>>]
                         /\ stage'[<<y, e>>] = stage[<<y, e>>]
    BY <1>1, <1>2 DEF RelayInv, RelayTypeOK, Copies
  <2>2. \A z : z \in Chunks(delivered', e) <=> z \in Chunks(delivered, e)
    <3> SUFFICES ASSUME NEW z PROVE z \in Chunks(delivered', e) <=> z \in Chunks(delivered, e)
      OBVIOUS
    <3>1. z \in Chunks(delivered, e) <=> /\ z = <<z[1], z[2]>> /\ z[1] \in Conns
                                         /\ z[2] \in 1..delivered[<<z[1], e>>]
      BY InChunks
    <3>2. z \in Chunks(delivered', e) <=> /\ z = <<z[1], z[2]>> /\ z[1] \in Conns
                                          /\ z[2] \in 1..delivered'[<<z[1], e>>]
      BY InChunks
    <3> QED BY <2>1, <3>1, <3>2
  <2>3. Uncounted(e)' = Uncounted(e)
    BY <2>1 DEF Uncounted
  <2>4. Chunks(delivered', e) = Chunks(delivered, e)
    BY <2>2
  <2> QED BY <2>3, <2>4, DeliveredChunks
<1> DEFINE x == <<c, delivered[f] + 1>>
<1>6. Uncounted(d)' = Uncounted(d) \cup {c} /\ c \notin Uncounted(d)
  <2>1. \A y \in Conns : stage'[<<y, d>>] = IF y = c THEN "count" ELSE stage[<<y, d>>]
    BY <1>1, <1>2 DEF RelayInv, RelayTypeOK, Copies
  <2>2. stage[<<c, d>>] = "write"
    BY <1>1, <1>2
  <2> HIDE DEF c, d
  <2> QED BY <1>1, <2>1, <2>2 DEF Uncounted
<1>7. Delivered(d)' = Delivered(d) \cup {x} /\ x \notin Delivered(d)
  <2>1. \A y \in Conns : delivered'[<<y, d>>] = IF y = c THEN delivered[f] + 1 ELSE delivered[<<y, d>>]
    BY <1>1, <1>2 DEF RelayInv, RelayTypeOK, Copies
  <2>2. delivered[<<c, d>>] = delivered[f]
    BY <1>1
  <2>3. \A z : z \in Delivered(d) <=> z = <<z[1], z[2]>> /\ z[1] \in Conns /\ z[2] \in 1..delivered[<<z[1], d>>]
    BY InChunks, DeliveredChunks
  <2>4. \A z : z \in Delivered(d)' <=> z = <<z[1], z[2]>> /\ z[1] \in Conns /\ z[2] \in 1..delivered'[<<z[1], d>>]
    BY InChunks, DeliveredChunks
  <2>5. x \notin Delivered(d)
    BY <1>2, <2>2, <2>3
  <2>6. \A n : n \in 1..(delivered[f] + 1) <=> n \in 1..delivered[f] \/ n = delivered[f] + 1
    BY <1>2
  <2> HIDE DEF c, d
  <2>7. \A z : z \in Delivered(d)' <=> z \in Delivered(d) \/ z = x
    BY <1>1, <2>1, <2>2, <2>3, <2>4, <2>6
  <2> QED BY <2>5, <2>7
<1>8. ASSUME NEW e \in Dirs
      PROVE  /\ IsFiniteSet(Delivered(e))' /\ IsFiniteSet(Uncounted(e))'
             /\ (counter[e] + Cardinality(Uncounted(e)) = Cardinality(Delivered(e)))'
  <2>1. /\ IsFiniteSet(Delivered(e)) /\ IsFiniteSet(Uncounted(e)) /\ counter'[e] = counter[e]
        /\ counter[e] + Cardinality(Uncounted(e)) = Cardinality(Delivered(e)) /\ counter[e] \in Nat
    BY <1>2 DEF RelayInv, RelayTypeOK, Finite, CountsDelivered
  <2>2. CASE e # d
    BY <1>5, <2>1, <2>2
  <2>3. CASE e = d
    <3> HIDE DEF c, d, x
    <3>1. /\ IsFiniteSet(Delivered(d)') /\ Cardinality(Delivered(d)') = Cardinality(Delivered(d)) + 1
      BY <1>7, <2>1, <2>3, FS_AddElement
    <3>2. /\ IsFiniteSet(Uncounted(d)') /\ Cardinality(Uncounted(d)') = Cardinality(Uncounted(d)) + 1
      BY <1>6, <2>1, <2>3, FS_AddElement
    <3>3. Cardinality(Uncounted(d)) \in Nat
      BY <2>1, <2>3, FS_CardinalityType
    <3> QED BY <2>1, <2>3, <3>1, <3>2, <3>3
  <2> QED BY <2>2, <2>3
<1> QED BY <1>3, <1>4, <1>8 DEF RelayInv, Finite, CountsDelivered

\* The chunk that was delivered last is counted, in its direction.
LEMMA CountInv ==
  ASSUME RelayInv, NEW f \in Copies, Count(f)
  PROVE  RelayInv'
<1> DEFINE c == f[1]  d == f[2]
<1>1. f = <<c, d>> /\ c \in Conns /\ d \in Dirs
  BY CopyOf
<1>2. /\ UNCHANGED <<ended, pending, over, delivered, sent>>
      /\ stage[f] = "count" /\ stage' = [stage EXCEPT ![f] = "read"]
      /\ counter' = [counter EXCEPT ![d] = counter[d] + 1]
  BY DEF Count, CounterOf, Goto
<1>3. RelayTypeOK'
  BY <1>1, <1>2 DEF RelayInv, RelayTypeOK
<1>4. Balance' /\ Drained'
  BY <1>2 DEF RelayInv, RelayTypeOK, Balance, Drained
<1>5. \A e \in Dirs : Uncounted(e)' = IF e = d THEN Uncounted(e) \ {c} ELSE Uncounted(e)
  <2>1. \A e \in Dirs, y \in Conns : stage'[<<y, e>>] = IF y = c /\ e = d THEN "read" ELSE stage[<<y, e>>]
    BY <1>1, <1>2 DEF RelayInv, RelayTypeOK, Copies
  <2> HIDE DEF c, d
  <2> QED BY <1>1, <2>1 DEF Uncounted
<1>6. c \in Uncounted(d)
  BY <1>1, <1>2 DEF Uncounted
<1>7. \A e \in Dirs : Delivered(e)' = Delivered(e)
  BY <1>2 DEF Delivered
<1>8. ASSUME NEW e \in Dirs
      PROVE  /\ IsFiniteSet(Delivered(e))' /\ IsFiniteSet(Uncounted(e))'
             /\ (counter[e] + Cardinality(Uncounted(e)) = Cardinality(Delivered(e)))'
  <2>1. /\ IsFiniteSet(Delivered(e)) /\ IsFiniteSet(Uncounted(e)) /\ counter \in [Dirs -> Nat]
        /\ counter[e] + Cardinality(Uncounted(e)) = Cardinality(Delivered(e))
    BY DEF RelayInv, RelayTypeOK, Finite, CountsDelivered
  <2>2. CASE e # d
    BY <1>1, <1>2, <1>5, <1>7, <2>1, <2>2
  <2>3. CASE e = d
    <3> HIDE DEF c, d
    <3>1. /\ IsFiniteSet(Uncounted(d)') /\ Cardinality(Uncounted(d)') = Cardinality(Uncounted(d)) - 1
      BY <1>1, <1>5, <1>6, <2>1, <2>3, FS_RemoveElement
    <3>2. Cardinality(Uncounted(d)) \in Nat
      BY <2>1, <2>3, FS_CardinalityType
    <3>3. counter'[d] = counter[d] + 1 /\ counter[d] \in Nat
      BY <1>1, <1>2, <2>1
    <3> QED BY <1>1, <1>7, <2>1, <2>3, <3>1, <3>2, <3>3
  <2> QED BY <2>2, <2>3
<1> QED BY <1>3, <1>4, <1>8 DEF RelayInv, Finite, CountsDelivered

\* What the scenario of a behaviour allows.
LEMMA ScenarioType ==
  ASSUME scenario \in Scenarios
  PROVE  /\ scenario \in Scenario /\ scenario.dirs \subseteq Dirs
         /\ scenario.handlers \subseteq Handlers /\ scenario.sockets \subseteq Sockets
BY DEF Scenario

\* Every step keeps the relay's part of the invariant.
LEMMA RelayNext ==
  ASSUME RelayInv, scenario \in Scenarios, [Next]_vars
  PROVE  RelayInv'
<1>1. CASE UNCHANGED relayVars
  <2>1. UNCHANGED <<ended, pending, stage, over, counter, sent, delivered>>
    BY <1>1 DEF relayVars
  <2>2. Finite' /\ CountsDelivered'
    BY <2>1, CountsStill DEF RelayInv
  <2> QED BY <2>1, <2>2 DEF RelayInv, RelayTypeOK, Balance, Drained
<1>2. CASE Traffic
  <2>1. \A f \in Conns \X scenario.dirs : f \in Copies
    BY ScenarioType DEF Copies
  <2> QED BY <1>2, <2>1, OpenReturnInv, TransportInv DEF Traffic
<1>3. ASSUME NEW c \in Conns, Relaying(c)
      PROVE  RelayInv'
  <2>1. \A d \in Dirs : <<c, d>> \in Copies
    BY DEF Copies
  <2> QED BY <1>3, <2>1, OpenReturnInv, TransportInv, WriteInv, CountInv DEF Relaying, RelayStep, Copy, Advance
<1>4. CASE Crash
  BY <1>4, RelayRestartInv DEF Crash
<1> QED BY <1>1, <1>2, <1>3, <1>4 DEF Next, Connect, Lose, Reporting, LoadIn, LoadOut, SendReport, Receive,
      Handling, Insert, Update, OpenSocket, SocketError, SocketClose, Cleanup, DashboardAuth, Deliver,
      HubRestart, vars

-----------------------------------------------------------------------------
\* The agent and the handlers of its reports.

\* The metrics loop loads counters, and what it sends is a whole report.
LEMMA AgentNext ==
  ASSUME RelayTypeOK, scenario \in Scenarios, AgentTypeOK, [Next]_vars
  PROVE  AgentTypeOK'
<1> USE DEF AgentTypeOK
<1>1. CASE UNCHANGED agentVars
  BY <1>1 DEF agentVars
<1>2. CASE Connect \/ Down
  <2>1. link' \in {"up", "down"} /\ loop' = None /\ wire' = <<>>
    BY <1>2 DEF Connect, Down
  <2> QED BY <2>1
<1>3. CASE LoadIn
  <2>1. counter["in"] \in Nat
    BY DEF RelayTypeOK, Dirs
  <2> QED BY <1>3, <2>1 DEF LoadIn
<1>4. CASE LoadOut
  <2>1. counter["out"] \in Nat
    BY DEF RelayTypeOK, Dirs
  <2> QED BY <1>4, <2>1 DEF LoadOut
<1>5. CASE SendReport
  <2>1. loop \in Reports
    BY <1>5 DEF SendReport, Reports
  <2> QED BY <1>5, <2>1 DEF SendReport
<1>6. ASSUME NEW h \in Handlers, Receive(h)
      PROVE  AgentTypeOK'
  BY <1>6 DEF Receive
<1> QED BY <1>1, <1>2, <1>3, <1>4, <1>5, <1>6 DEF Next, Traffic, Relaying, Lose, Crash, Reporting,
      Handling, Insert, Update, OpenSocket, SocketError, SocketClose, Cleanup, DashboardAuth, Deliver,
      HubRestart, vars

\* Of two handlers that wait, the query of one was made before the other's.
Queued ==
    \A g, h \in Handlers : step[g] # "idle" /\ step[h] # "idle" /\ g # h
        => <<g, h>> \in ahead \/ <<h, g>> \in ahead

\* The handlers that have inserted their row and not updated the metadata.
Updating == {h \in Handlers : step[h] = "update"}

\* With queries carried out in order the last of these has the newest row, and
\* without any the metadata have it.
NewestLast ==
    ~Fault("slow") /\ ~Fault("hub") =>
        /\ \A h \in Updating : (\A g \in Updating \ {h} : <<g, h>> \in ahead) => job[h] = last
        /\ Updating = {} => metadata = last

HandlerInv == HandlerTypeOK /\ Queued /\ NewestLast

\* None is not a report.
LEMMA NoneNoReport == None \notin Reports
BY DEF Reports

LEMMA ReceiveInv ==
  ASSUME HandlerInv, AgentTypeOK, NEW h \in Handlers, Receive(h)
  PROVE  HandlerInv'
<1>1. /\ step[h] = "idle" /\ step' = [step EXCEPT ![h] = "insert"]
      /\ job' = [job EXCEPT ![h] = Head(wire)] /\ Head(wire) \in Reports
      /\ ahead' = Asked(h) /\ UNCHANGED <<scenario, last, metadata>>
  BY DEF Receive, AgentTypeOK, tableVars
<1>2. HandlerTypeOK'
  BY <1>1, NoneNoReport DEF HandlerInv, HandlerTypeOK, Asked, Answered, Busy
<1>3. Queued'
  BY <1>1 DEF HandlerInv, HandlerTypeOK, Queued, Asked, Answered, Busy
<1>4. NewestLast'
  <2>1. Updating' = Updating /\ h \notin Updating
    BY <1>1 DEF Updating, HandlerInv, HandlerTypeOK
  <2>2. \A g \in Updating : job'[g] = job[g]
    BY <1>1, <2>1 DEF Updating, HandlerInv, HandlerTypeOK
  <2>3. \A g, k \in Updating : <<g, k>> \in ahead' => <<g, k>> \in ahead
    BY <1>1, <2>1 DEF Asked, Answered
  <2> QED BY <1>1, <2>1, <2>2, <2>3 DEF HandlerInv, NewestLast, Fault
<1> QED BY <1>2, <1>3, <1>4 DEF HandlerInv

LEMMA InsertInv ==
  ASSUME HandlerInv, NEW h \in Handlers, Insert(h)
  PROVE  HandlerInv'
<1>1. /\ step[h] = "insert" /\ step' = [step EXCEPT ![h] = "update"]
      /\ last' = job[h] /\ job[h] \in Reports
      /\ ahead' = Asked(h) /\ UNCHANGED <<scenario, job, metadata>>
  BY DEF Insert, Inserted, HandlerInv, HandlerTypeOK
<1>2. HandlerTypeOK'
  BY <1>1 DEF HandlerInv, HandlerTypeOK, Asked, Answered, Busy
<1>3. Queued'
  BY <1>1 DEF HandlerInv, HandlerTypeOK, Queued, Asked, Answered, Busy
<1>4. NewestLast'
  <2>1. Updating' = Updating \cup {h}
    BY <1>1 DEF Updating, HandlerInv, HandlerTypeOK
  <2>2. \A g \in Updating' \ {h} : <<h, g>> \notin ahead'
    BY <1>1 DEF Asked, Answered
  <2> QED BY <1>1, <2>1, <2>2 DEF NewestLast
<1> QED BY <1>2, <1>3, <1>4 DEF HandlerInv

LEMMA UpdateInv ==
  ASSUME HandlerInv, NEW h \in Handlers, Update(h)
  PROVE  HandlerInv'
<1>1. /\ step[h] = "update" /\ step' = [step EXCEPT ![h] = "idle"]
      /\ metadata' = job[h] /\ job[h] \in Reports /\ job' = [job EXCEPT ![h] = None]
      /\ ahead' = Answered(h) /\ UNCHANGED <<scenario, last>>
      /\ (\A g \in Busy : <<g, h>> \notin ahead) \/ Fault("slow")
  BY DEF Update, Merged, Turn, HandlerInv, HandlerTypeOK
<1>2. HandlerTypeOK'
  BY <1>1 DEF HandlerInv, HandlerTypeOK, Answered, Busy
<1>3. Queued'
  BY <1>1 DEF HandlerInv, HandlerTypeOK, Queued, Answered
<1>4. NewestLast'
  <2> SUFFICES ASSUME ~Fault("slow"), ~Fault("hub")
               PROVE  /\ \A k \in Updating' : (\A g \in Updating' \ {k} : <<g, k>> \in ahead') => job'[k] = last
                      /\ Updating' = {} => metadata' = last
    BY <1>1 DEF NewestLast, Fault
  <2>1. Updating' = Updating \ {h} /\ h \in Updating
    BY <1>1 DEF Updating, HandlerInv, HandlerTypeOK
  <2>2. \A k \in Updating \ {h} : <<h, k>> \in ahead
    BY <1>1 DEF HandlerInv, Queued, Updating, Busy
  <2>3. ASSUME NEW k \in Updating', \A g \in Updating' \ {k} : <<g, k>> \in ahead'
        PROVE  job'[k] = last
    <3>1. \A g \in Updating \ {k} : <<g, k>> \in ahead
      BY <1>1, <2>1, <2>2, <2>3 DEF Answered
    <3>2. k \in Updating /\ k # h /\ job'[k] = job[k]
      BY <1>1, <2>1 DEF Updating, HandlerInv, HandlerTypeOK
    <3> QED BY <3>1, <3>2 DEF HandlerInv, NewestLast
  <2>4. Updating' = {} => job[h] = last
    BY <2>1 DEF HandlerInv, NewestLast
  <2> QED BY <1>1, <2>3, <2>4
<1> QED BY <1>2, <1>3, <1>4 DEF HandlerInv

\* The instance of the agent restarts, and its handlers are gone.
LEMMA HandlersGone ==
  ASSUME HandlerInv, NEW i \in Instances, HubRestart(i)
  PROVE  HandlerInv'
<1>1. Fault("hub")' /\ UNCHANGED <<last, metadata>>
  BY DEF HubRestart, Fault, tableVars
<1>2. CASE /\ step' = [h \in Handlers |-> "idle"] /\ job' = [h \in Handlers |-> None]
           /\ ahead' = {}
  BY <1>1, <1>2 DEF HandlerInv, HandlerTypeOK, Queued, NewestLast, Busy
<1>3. CASE UNCHANGED <<step, job, ahead>>
  BY <1>1, <1>3 DEF HandlerInv, HandlerTypeOK, Queued, NewestLast, Busy
<1> QED BY <1>2, <1>3 DEF HubRestart, handlerVars

LEMMA HandlerNext ==
  ASSUME AgentTypeOK, HandlerInv, [Next]_vars
  PROVE  HandlerInv'
<1>1. CASE UNCHANGED <<handlerVars, tableVars, scenario>>
  <2>1. UNCHANGED <<step, job, ahead, last, metadata, scenario>>
    BY <1>1 DEF handlerVars, tableVars
  <2> QED BY <2>1 DEF HandlerInv, HandlerTypeOK, Queued, NewestLast, Busy, Updating, Fault
<1>2. ASSUME NEW h \in Handlers, Receive(h) \/ Handling(h)
      PROVE  HandlerInv'
  BY <1>2, ReceiveInv, InsertInv, UpdateInv DEF Handling
<1>3. ASSUME NEW i \in Instances, HubRestart(i)
      PROVE  HandlerInv'
  BY <1>3, HandlersGone
<1> QED BY <1>1, <1>2, <1>3 DEF Next, Traffic, Relaying, Connect, Lose, Crash, Reporting, LoadIn, LoadOut,
      SendReport, OpenSocket, SocketError, SocketClose, Cleanup, DashboardAuth, Deliver, vars

-----------------------------------------------------------------------------
\* The dashboards and the events for them.

\* What is under way is for the owner; what is due to a dashboard is the last
\* event there is for it, or it has it.
EventsDue ==
    /\ \A i \in Instances : \A n \in 1..Len(bus[i]) : bus[i][n].user = Owner
    /\ \A k \in Sockets :
         /\ sock[k].seen # None => sock[k].user = Owner
         /\ due[k] # None =>
              /\ sock[k].at = "open" /\ sock[k].user = Owner
              /\ bus[Home[k]] = <<>> => sock[k].seen = due[k]
              /\ bus[Home[k]] # <<>> => bus[Home[k]][Len(bus[Home[k]])].report = due[k]

\* A socket that is closed was nobody's, or is so again.
ClosedNobody == \A k \in Sockets : sock[k].at = "closed" => sock[k] = Shut

ClientInv == ClientTypeOK /\ RegistryExact /\ EventsDue /\ ClosedNobody

\* An event is published for the owner, on every instance.
LEMMA UpdateClients ==
  ASSUME ClientInv, HandlerTypeOK, NEW h \in Handlers, Update(h)
  PROVE  ClientInv'
<1> DEFINE e == [user |-> Owner, report |-> job[h]]
<1>1. e \in Events /\ e.user = Owner /\ e.report = job[h] /\ job[h] \in Reports
  BY DEF Update, HandlerTypeOK, Events
<1>2. /\ bus' = [i \in Instances |-> Append(bus[i], e)]
      /\ due' = [k \in Sockets |-> IF k \in Registered(Home[k], Owner) THEN job[h] ELSE due[k]]
      /\ UNCHANGED <<dashboards, sock>>
  BY DEF Update, Published
<1> HIDE DEF e
<1>3. ASSUME NEW i \in Instances
      PROVE  /\ bus'[i] \in Seq(Events) /\ Len(bus'[i]) = Len(bus[i]) + 1
             /\ bus'[i] # <<>> /\ bus'[i][Len(bus'[i])] = e
             /\ \A n \in 1..Len(bus[i]) : bus'[i][n] = bus[i][n]
             /\ Len(bus[i]) \in Nat
  <2>1. bus[i] \in Seq(Events) /\ bus'[i] = Append(bus[i], e)
    BY <1>2 DEF ClientInv, ClientTypeOK
  <2>2. /\ bus'[i] \in Seq(Events) /\ Len(bus'[i]) = Len(bus[i]) + 1 /\ Len(bus[i]) \in Nat
        /\ bus'[i][Len(bus[i]) + 1] = e /\ \A n \in 1..Len(bus[i]) : bus'[i][n] = bus[i][n]
    BY <1>1, <2>1
  <2>3. bus'[i] # <<>>
    BY <2>2
  <2> QED BY <2>2, <2>3
<1>4. ClientTypeOK'
  BY <1>1, <1>2, <1>3 DEF ClientInv, ClientTypeOK
<1>5. RegistryExact'
  BY <1>2 DEF ClientInv, RegistryExact, Registered
<1>6. ClosedNobody'
  BY <1>2 DEF ClientInv, ClosedNobody
<1>7. EventsDue'
  <2>1. \A i \in Instances : \A n \in 1..Len(bus'[i]) : bus'[i][n].user = Owner
    BY <1>1, <1>3 DEF ClientInv, EventsDue
  <2>2. ASSUME NEW k \in Sockets, due'[k] # None
        PROVE  sock[k].at = "open" /\ sock[k].user = Owner /\ due'[k] = job[h]
    BY <1>2, <2>2 DEF ClientInv, RegistryExact, EventsDue
  <2>3. \A k \in Sockets : Home[k] \in Instances
    OBVIOUS
  <2> QED BY <1>1, <1>2, <1>3, <2>1, <2>2, <2>3 DEF ClientInv, EventsDue
<1> QED BY <1>4, <1>5, <1>7, <1>6 DEF ClientInv

\* Redis hands the oldest event of an instance to the sockets registered there.
LEMMA DeliverClients ==
  ASSUME ClientInv, NEW i \in Instances, Deliver(i)
  PROVE  ClientInv'
<1> DEFINE e == Head(bus[i])
           to == {k \in Registered(i, e.user) : sock[k].at = "open"}
<1>1. /\ bus[i] # <<>> /\ bus[i] \in Seq(Events)
      /\ sock' = [k \in Sockets |-> IF k \in to THEN [sock[k] EXCEPT !.seen = e.report] ELSE sock[k]]
      /\ bus' = [bus EXCEPT ![i] = Tail(bus[i])]
      /\ UNCHANGED <<dashboards, due>>
  BY DEF Deliver, ClientInv, ClientTypeOK
<1>2. e = bus[i][1] /\ e \in Events /\ e.report \in Reports /\ e.user = Owner
  <2>1. e = bus[i][1] /\ e \in Events /\ 1 \in 1..Len(bus[i])
    BY <1>1
  <2>2. e.user = Owner
    BY <2>1 DEF ClientInv, EventsDue
  <2> HIDE DEF e
  <2> QED BY <2>1, <2>2 DEF Events
<1>3. to = {k \in Sockets : Home[k] = i /\ sock[k].at = "open" /\ sock[k].user = Owner}
  BY <1>2 DEF ClientInv, RegistryExact
<1> HIDE DEF e, to
<1>4. ASSUME NEW k \in Sockets
      PROVE  /\ sock'[k].at = sock[k].at /\ sock'[k].user = sock[k].user
             /\ sock'[k].seen = IF k \in to THEN e.report ELSE sock[k].seen
             /\ sock'[k] \in [at : {"closed", "open", "error"}, user : Accounts \cup {None},
                              seen : Reports \cup {None}]
  <2>1. sock[k] \in [at : {"closed", "open", "error"}, user : Accounts \cup {None},
                     seen : Reports \cup {None}]
    BY DEF ClientInv, ClientTypeOK
  <2> QED BY <1>1, <1>2, <2>1
<1>5. ClientTypeOK'
  BY <1>1, <1>4 DEF ClientInv, ClientTypeOK
<1>6. RegistryExact'
  BY <1>1, <1>4 DEF ClientInv, RegistryExact, Registered
<1>7. ClosedNobody'
  BY <1>1, <1>3 DEF ClientInv, ClosedNobody
<1>8. EventsDue'
  <2>1. /\ bus'[i] = Tail(bus[i]) /\ Len(bus'[i]) = Len(bus[i]) - 1
        /\ Len(bus[i]) \in Nat /\ Len(bus[i]) > 0
        /\ \A n \in 1..Len(bus'[i]) : bus'[i][n] = bus[i][n + 1]
        /\ \A j \in Instances : j # i => bus'[j] = bus[j]
    BY <1>1 DEF ClientInv, ClientTypeOK
  <2>2. ASSUME NEW j \in Instances, NEW n \in 1..Len(bus'[j])
        PROVE  bus'[j][n].user = Owner
    <3>1. CASE j # i
      BY <2>1, <2>2, <3>1 DEF ClientInv, EventsDue
    <3>2. CASE j = i
      <4>1. n + 1 \in 1..Len(bus[i]) /\ bus'[i][n] = bus[i][n + 1]
        <5>1. n \in 1..Len(bus'[i])
          BY <2>2, <3>2
        <5>2. bus'[i][n] = bus[i][n + 1]
          BY <2>1, <5>1
        <5>3. \A l \in Nat : n \in 1..(l - 1) => n + 1 \in 1..l
          OBVIOUS
        <5>4. n \in 1..(Len(bus[i]) - 1)
          BY <2>1, <5>1
        <5> QED BY <2>1, <5>2, <5>3, <5>4
      <4> QED BY <3>2, <4>1 DEF ClientInv, EventsDue
    <3> QED BY <3>1, <3>2
  <2>3. ASSUME NEW k \in Sockets, due[k] # None, Home[k] = i
        PROVE  /\ bus'[i] = <<>> => sock'[k].seen = due[k]
               /\ bus'[i] # <<>> => bus'[i][Len(bus'[i])].report = due[k]
    <3>1. k \in to /\ bus[i][Len(bus[i])].report = due[k]
      BY <1>1, <1>3, <2>3 DEF ClientInv, EventsDue
    <3>2. bus'[i] = <<>> => Len(bus[i]) = 1
      <4>1. Len(<<>>) = 0
        OBVIOUS
      <4>2. bus'[i] = <<>> => Len(bus'[i]) = 0
        BY <4>1, Zenon
      <4>3. Len(bus'[i]) = 0 => Len(bus[i]) = 1
        BY <2>1
      <4> QED BY <4>2, <4>3, Zenon
    <3>3. bus'[i] # <<>> => Len(bus'[i]) > 0
      BY <1>1, <2>1
    <3> QED BY <1>2, <1>4, <2>1, <3>1, <3>2, <3>3
  <2>4. ASSUME NEW k \in Sockets, due[k] # None, Home[k] # i
        PROVE  bus'[Home[k]] = bus[Home[k]] /\ sock'[k].seen = sock[k].seen
    BY <1>3, <1>4, <2>1, <2>4
  <2>5. ASSUME NEW k \in Sockets, sock'[k].seen # None
        PROVE  sock'[k].user = Owner
    BY <1>3, <1>4, <2>5 DEF ClientInv, EventsDue
  <2> QED BY <1>1, <1>4, <2>2, <2>3, <2>4, <2>5 DEF ClientInv, EventsDue
<1> QED BY <1>5, <1>6, <1>8, <1>7 DEF ClientInv

\* A socket opens, and is nobody's yet.
LEMMA OpenClients ==
  ASSUME ClientInv, NEW k \in Sockets, OpenSocket(k)
  PROVE  ClientInv'
<1>1. /\ sock[k].at = "closed" /\ UNCHANGED <<dashboards, due, bus>>
      /\ sock' = [sock EXCEPT ![k].at = "open"]
  BY DEF OpenSocket
<1>2. sock[k] \in [at : {"closed", "open", "error"}, user : Accounts \cup {None}, seen : Reports \cup {None}]
  BY DEF ClientInv, ClientTypeOK
<1> DEFINE new == [sock[k] EXCEPT !.at = "open"]
<1>3. /\ new \in [at : {"closed", "open", "error"}, user : Accounts \cup {None}, seen : Reports \cup {None}]
      /\ new.at = "open" /\ new.user = sock[k].user /\ new.seen = sock[k].seen
  BY <1>2
<1> HIDE DEF new
<1>4. sock'[k] = new /\ \A q \in Sockets : q # k => sock'[q] = sock[q]
  BY <1>1 DEF ClientInv, ClientTypeOK, new
<1>5. sock[k].user = None
  BY <1>1 DEF ClientInv, ClosedNobody, Shut
<1>6. ClientTypeOK'
  BY <1>1, <1>3, <1>4 DEF ClientInv, ClientTypeOK, new
<1>7. RegistryExact'
  BY <1>1, <1>3, <1>4, <1>5 DEF ClientInv, RegistryExact, Registered
<1>8. EventsDue' /\ ClosedNobody'
  BY <1>1, <1>3, <1>4 DEF ClientInv, EventsDue, ClosedNobody
<1> QED BY <1>6, <1>7, <1>8 DEF ClientInv

\* A socket authenticates as a user, once more or for the first time.
LEMMA AuthClients ==
  ASSUME ClientInv, NEW k \in Sockets, NEW u \in Accounts, DashboardAuth(k, u)
  PROVE  ClientInv'
<1> DEFINE i == Home[k]
           map == Put(dashboards[i], u, Registered(i, u) \cup {k})
           new == [sock[k] EXCEPT !.user = u]
<1>1. /\ sock[k].at = "open" /\ sock[k].user \in {u, None} /\ UNCHANGED <<due, bus>>
      /\ sock' = [sock EXCEPT ![k] = new]
      /\ dashboards' = [dashboards EXCEPT ![i] = map] /\ i \in Instances
  BY DEF DashboardAuth
<1>2. sock[k] \in [at : {"closed", "open", "error"}, user : Accounts \cup {None}, seen : Reports \cup {None}]
  BY DEF ClientInv, ClientTypeOK
<1>3. /\ new \in [at : {"closed", "open", "error"}, user : Accounts \cup {None}, seen : Reports \cup {None}]
      /\ new.at = "open" /\ new.user = u /\ new.seen = sock[k].seen
  BY <1>1, <1>2
<1> HIDE DEF new
<1>4. sock'[k] = new /\ \A q \in Sockets : q # k => sock'[q] = sock[q]
  BY <1>1 DEF ClientInv, ClientTypeOK
<1>5. /\ DOMAIN map = DOMAIN dashboards[i] \cup {u} /\ map[u] = Registered(i, u) \cup {k}
      /\ \A v \in DOMAIN dashboards[i] : v # u => map[v] = dashboards[i][v]
  BY DEF Put
<1> HIDE DEF map
<1>6. /\ dashboards'[i] = map /\ DOMAIN dashboards' = Instances
      /\ \A j \in Instances : j # i => dashboards'[j] = dashboards[j]
  BY <1>1 DEF ClientInv, ClientTypeOK
<1>7. Registered(i, u) \subseteq Sockets
  BY DEF Registered, ClientInv, ClientTypeOK
<1>8. ClientTypeOK'
  <2>1. sock' \in [Sockets -> [at : {"closed", "open", "error"}, user : Accounts \cup {None},
                               seen : Reports \cup {None}]]
    BY <1>1, <1>3 DEF ClientInv, ClientTypeOK
  <2>2. /\ DOMAIN map \subseteq Accounts
        /\ \A v \in DOMAIN map : map[v] \subseteq Sockets
    BY <1>1, <1>5, <1>7 DEF ClientInv, ClientTypeOK
  <2>3. \A j \in Instances :
          DOMAIN dashboards'[j] \subseteq Accounts
          /\ \A v \in DOMAIN dashboards'[j] : dashboards'[j][v] \subseteq Sockets
    BY <1>6, <2>2 DEF ClientInv, ClientTypeOK
  <2> QED BY <1>1, <1>6, <2>1, <2>3 DEF ClientInv, ClientTypeOK
<1>9. RegistryExact'
  <2> SUFFICES ASSUME NEW j \in Instances, NEW v \in Accounts
               PROVE  /\ Registered(j, v)' = {q \in Sockets : Home[q] = j /\ sock'[q].at = "open" /\ sock'[q].user = v}
                      /\ v \in DOMAIN dashboards'[j] => dashboards'[j][v] # {}
    BY DEF RegistryExact
  <2>1. /\ Registered(j, v) = {q \in Sockets : Home[q] = j /\ sock[q].at = "open" /\ sock[q].user = v}
        /\ v \in DOMAIN dashboards[j] => dashboards[j][v] # {}
    BY DEF ClientInv, RegistryExact
  <2>2. CASE j # i
    <3>1. Registered(j, v)' = Registered(j, v)
      BY <1>6, <2>2 DEF Registered
    <3> QED BY <1>4, <1>6, <2>1, <2>2, <3>1
  <2>3. CASE j = i /\ v # u
    <3>1. Registered(j, v)' = Registered(j, v)
      BY <1>5, <1>6, <2>3 DEF Registered
    <3>2. ~(sock[k].user = v) /\ ~(sock'[k].user = v)
      BY <1>1, <1>3, <1>4, <2>3
    <3> QED BY <1>4, <1>5, <1>6, <2>1, <2>3, <3>1, <3>2
  <2>4. CASE j = i /\ v = u
    <3>1. Registered(j, v)' = Registered(j, v) \cup {k} /\ dashboards'[j][v] # {}
      BY <1>5, <1>6, <2>4 DEF Registered
    <3> HIDE DEF i
    <3>2. Home[k] = j /\ sock'[k].at = "open" /\ sock'[k].user = v
      BY <1>3, <1>4, <2>4 DEF i
    <3> QED BY <1>4, <2>1, <3>1, <3>2
  <2> QED BY <2>2, <2>3, <2>4
<1>10. EventsDue' /\ ClosedNobody'
  BY <1>1, <1>3, <1>4 DEF ClientInv, EventsDue, ClosedNobody
<1> QED BY <1>8, <1>9, <1>10 DEF ClientInv

\* A socket that is not open any more is no longer registered, and no event is
\* due to it.
LEMMA CleanupClients ==
  ASSUME ClientInv, NEW k \in Sockets, Cleanup(k),
         NEW new \in [at : {"closed", "error"}, user : Accounts \cup {None}, seen : Reports \cup {None}],
         new.seen # None => new.user = Owner,
         new.at = "closed" => new = Shut,
         sock' = [sock EXCEPT ![k] = new]
  PROVE  ClientInv'
<1> DEFINE i == Home[k]
           u == sock[k].user
           left == Registered(i, u) \ {k}
           map == Cleaned(k)
<1>1. /\ dashboards' = [dashboards EXCEPT ![i] = map] /\ i \in Instances
      /\ due' = [due EXCEPT ![k] = None] /\ UNCHANGED bus
  BY DEF Cleanup
<1>2. /\ sock'[k] = new /\ new.at # "open" /\ \A q \in Sockets : q # k => sock'[q] = sock[q]
      /\ due'[k] = None /\ \A q \in Sockets : q # k => due'[q] = due[q]
  BY <1>1 DEF ClientInv, ClientTypeOK
<1>3. /\ dashboards'[i] = map /\ DOMAIN dashboards' = Instances
      /\ \A j \in Instances : j # i => dashboards'[j] = dashboards[j]
  BY <1>1 DEF ClientInv, ClientTypeOK
<1>4. /\ u \in Accounts \cup {None}
      /\ DOMAIN dashboards[i] \subseteq Accounts
      /\ \A v \in DOMAIN dashboards[i] : dashboards[i][v] \subseteq Sockets /\ dashboards[i][v] # {}
      /\ Registered(i, u) \subseteq Sockets
  BY <1>1 DEF ClientInv, ClientTypeOK, RegistryExact, Registered
\* What the map of the instance has afterwards.
<1>5. /\ DOMAIN map \subseteq DOMAIN dashboards[i]
      /\ \A v \in DOMAIN map : map[v] \subseteq Sockets /\ map[v] # {}
      /\ \A v \in DOMAIN dashboards[i] : v # u => v \in DOMAIN map /\ map[v] = dashboards[i][v]
      /\ u \in DOMAIN map <=> u \in DOMAIN dashboards[i] /\ left # {}
      /\ u \in DOMAIN map => map[u] = left
  <2>1. CASE u \notin DOMAIN dashboards[i]
    BY <1>4, <2>1 DEF Cleaned
  <2>2. CASE u \in DOMAIN dashboards[i] /\ left = {}
    <3>1. map = [v \in DOMAIN dashboards[i] \ {u} |-> dashboards[i][v]]
      BY <2>2 DEF Cleaned
    <3> HIDE DEF map, left
    <3> QED BY <1>4, <2>2, <3>1
  <2>3. CASE u \in DOMAIN dashboards[i] /\ left # {}
    <3>1. map = [v \in DOMAIN dashboards[i] \cup {u} |-> IF v = u THEN left ELSE dashboards[i][v]]
      BY <2>3 DEF Cleaned, Put
    <3>2. left \subseteq Sockets
      BY <1>4
    <3> HIDE DEF map, left
    <3> QED BY <1>4, <2>3, <3>1, <3>2
  <2> QED BY <2>1, <2>2, <2>3
<1> HIDE DEF map
<1>6. ClientTypeOK'
  <2>1. sock' \in [Sockets -> [at : {"closed", "open", "error"}, user : Accounts \cup {None},
                               seen : Reports \cup {None}]]
    <3>1. new \in [at : {"closed", "open", "error"}, user : Accounts \cup {None}, seen : Reports \cup {None}]
      OBVIOUS
    <3> QED BY <3>1 DEF ClientInv, ClientTypeOK
  <2>2. \A j \in Instances :
          DOMAIN dashboards'[j] \subseteq Accounts
          /\ \A v \in DOMAIN dashboards'[j] : dashboards'[j][v] \subseteq Sockets
    BY <1>3, <1>4, <1>5 DEF ClientInv, ClientTypeOK
  <2> QED BY <1>1, <1>3, <2>1, <2>2 DEF ClientInv, ClientTypeOK
<1>7. RegistryExact'
  <2> SUFFICES ASSUME NEW j \in Instances, NEW v \in Accounts
               PROVE  /\ Registered(j, v)' = {q \in Sockets : Home[q] = j /\ sock'[q].at = "open" /\ sock'[q].user = v}
                      /\ v \in DOMAIN dashboards'[j] => dashboards'[j][v] # {}
    BY DEF RegistryExact
  <2>1. /\ Registered(j, v) = {q \in Sockets : Home[q] = j /\ sock[q].at = "open" /\ sock[q].user = v}
        /\ v \in DOMAIN dashboards[j] => dashboards[j][v] # {}
    BY DEF ClientInv, RegistryExact
  <2>2. Registered(j, v)' = Registered(j, v) \ {k}
    <3>1. CASE j # i
      BY <1>3, <2>1, <3>1 DEF Registered
    <3>2. CASE j = i /\ v # u
      <4>1. Registered(j, v)' = Registered(j, v)
        BY <1>3, <1>5, <3>2 DEF Registered
      <4>2. k \notin Registered(j, v)
        BY <2>1, <3>2
      <4> QED BY <4>1, <4>2
    <3>3. CASE j = i /\ v = u
      <4>1. Registered(i, u) = IF u \in DOMAIN dashboards[i] THEN dashboards[i][u] ELSE {}
        BY DEF Registered
      <4>2. Registered(j, v)' = IF u \in DOMAIN map THEN map[u] ELSE {}
        BY <1>3, <3>3 DEF Registered
      <4> QED BY <1>5, <3>3, <4>1, <4>2
    <3> QED BY <3>1, <3>2, <3>3
  <2>3. v \in DOMAIN dashboards'[j] => dashboards'[j][v] # {}
    BY <1>3, <1>5, <2>1
  <2> QED BY <1>2, <2>1, <2>2, <2>3
<1>8. EventsDue' /\ ClosedNobody'
  BY <1>1, <1>2 DEF ClientInv, EventsDue, ClosedNobody
<1> QED BY <1>6, <1>7, <1>8 DEF ClientInv

LEMMA CloseClients ==
  ASSUME ClientInv, NEW k \in Sockets, SocketError(k) \/ SocketClose(k)
  PROVE  ClientInv'
<1>1. sock[k] \in [at : {"closed", "open", "error"}, user : Accounts \cup {None}, seen : Reports \cup {None}]
      /\ (sock[k].seen # None => sock[k].user = Owner)
  BY DEF ClientInv, ClientTypeOK, EventsDue
<1>2. CASE SocketError(k)
  <2> DEFINE new == [sock[k] EXCEPT !.at = "error"]
  <2>1. /\ new \in [at : {"closed", "error"}, user : Accounts \cup {None}, seen : Reports \cup {None}]
        /\ new.at = "error" /\ new.user = sock[k].user /\ new.seen = sock[k].seen
    BY <1>1
  <2>2. sock' = [sock EXCEPT ![k] = new] /\ Cleanup(k)
    BY <1>2 DEF SocketError
  <2> HIDE DEF new
  <2>3. "error" # "closed"
    OBVIOUS
  <2> QED BY <1>1, <2>1, <2>2, <2>3, CleanupClients
<1>3. CASE SocketClose(k)
  <2>1. /\ Shut \in [at : {"closed", "error"}, user : Accounts \cup {None}, seen : Reports \cup {None}]
        /\ Shut.seen = None
    BY DEF Shut
  <2>2. sock' = [sock EXCEPT ![k] = Shut] /\ Cleanup(k)
    BY <1>3 DEF SocketClose
  <2> QED BY <2>1, <2>2, CleanupClients
<1> QED BY <1>2, <1>3

\* An instance restarts: nobody is registered there, and no event is due.
LEMMA RestartClients ==
  ASSUME ClientInv, NEW i \in Instances, HubRestart(i)
  PROVE  ClientInv'
<1>1. /\ dashboards' = [dashboards EXCEPT ![i] = NoClients]
      /\ sock' = [k \in Sockets |-> IF Home[k] = i THEN Shut ELSE sock[k]]
      /\ due' = [k \in Sockets |-> IF Home[k] = i THEN None ELSE due[k]]
      /\ bus' = [bus EXCEPT ![i] = <<>>]
  BY DEF HubRestart
<1>2. /\ Shut \in [at : {"closed", "open", "error"}, user : Accounts \cup {None}, seen : Reports \cup {None}]
      /\ Shut.at = "closed" /\ Shut.user = None /\ Shut.seen = None
  BY DEF Shut
<1>3. DOMAIN NoClients = {}
  BY DEF NoClients
<1>4. /\ dashboards'[i] = NoClients /\ DOMAIN dashboards' = Instances
      /\ \A j \in Instances : j # i => dashboards'[j] = dashboards[j]
      /\ bus'[i] = <<>> /\ \A j \in Instances : j # i => bus'[j] = bus[j]
  BY <1>1 DEF ClientInv, ClientTypeOK
<1>5. \A k \in Sockets : /\ sock'[k] = IF Home[k] = i THEN Shut ELSE sock[k]
                         /\ due'[k] = IF Home[k] = i THEN None ELSE due[k]
  BY <1>1
<1>6. ClientTypeOK'
  <2>1. <<>> \in Seq(Events)
    OBVIOUS
  <2>2. bus' \in [Instances -> Seq(Events)]
    BY <1>1, <2>1 DEF ClientInv, ClientTypeOK
  <2>3. sock' \in [Sockets -> [at : {"closed", "open", "error"}, user : Accounts \cup {None},
                               seen : Reports \cup {None}]]
    BY <1>1, <1>2 DEF ClientInv, ClientTypeOK
  <2>4. due' \in [Sockets -> Reports \cup {None}]
    BY <1>1 DEF ClientInv, ClientTypeOK
  <2> QED BY <1>3, <1>4, <2>2, <2>3, <2>4 DEF ClientInv, ClientTypeOK
<1>7. RegistryExact'
  <2> SUFFICES ASSUME NEW j \in Instances, NEW v \in Accounts
               PROVE  /\ Registered(j, v)' = {q \in Sockets : Home[q] = j /\ sock'[q].at = "open" /\ sock'[q].user = v}
                      /\ v \in DOMAIN dashboards'[j] => dashboards'[j][v] # {}
    BY DEF RegistryExact
  <2>1. CASE j = i
    <3>1. Registered(j, v)' = {}
      BY <1>3, <1>4, <2>1 DEF Registered
    <3> QED BY <1>2, <1>3, <1>4, <1>5, <2>1, <3>1
  <2>2. CASE j # i
    <3>1. Registered(j, v)' = Registered(j, v)
      BY <1>4, <2>2 DEF Registered
    <3> QED BY <1>4, <1>5, <2>2, <3>1 DEF ClientInv, RegistryExact
  <2> QED BY <2>1, <2>2
<1>8. EventsDue' /\ ClosedNobody'
  <2>1. \A j \in Instances : \A n \in 1..Len(bus'[j]) : bus'[j][n].user = Owner
    <3>1. 1..Len(<<>>) = {}
      OBVIOUS
    <3> QED BY <1>4, <3>1 DEF ClientInv, EventsDue
  <2>2. \A k \in Sockets : Home[k] # i => bus'[Home[k]] = bus[Home[k]]
    BY <1>4
  <2> QED BY <1>2, <1>5, <2>1, <2>2 DEF ClientInv, EventsDue, ClosedNobody
<1> QED BY <1>6, <1>7, <1>8 DEF ClientInv

LEMMA ClientNext ==
  ASSUME ClientInv, HandlerTypeOK, [Next]_vars
  PROVE  ClientInv'
<1>1. CASE UNCHANGED <<clientVars, bus>>
  <2>1. UNCHANGED <<dashboards, sock, due, bus>>
    BY <1>1 DEF clientVars
  <2>2. ClientTypeOK'
    BY <2>1 DEF ClientInv, ClientTypeOK
  <2>3. RegistryExact'
    BY <2>1 DEF ClientInv, RegistryExact, Registered
  <2>4. EventsDue' /\ ClosedNobody'
    BY <2>1 DEF ClientInv, EventsDue, ClosedNobody
  <2> QED BY <2>2, <2>3, <2>4 DEF ClientInv
<1>2. ASSUME NEW h \in Handlers, Update(h)
      PROVE  ClientInv'
  BY <1>2, UpdateClients
<1>3. ASSUME NEW k \in Sockets, OpenSocket(k) \/ SocketError(k) \/ SocketClose(k) \/ \E u \in Accounts : DashboardAuth(k, u)
      PROVE  ClientInv'
  BY <1>3, OpenClients, AuthClients, CloseClients
<1>4. ASSUME NEW i \in Instances, Deliver(i) \/ HubRestart(i)
      PROVE  ClientInv'
  BY <1>4, DeliverClients, RestartClients
<1> QED BY <1>1, <1>2, <1>3, <1>4 DEF Next, Traffic, Relaying, Connect, Lose, Crash, Reporting, LoadIn, LoadOut,
      SendReport, Receive, Handling, Insert, vars

-----------------------------------------------------------------------------
\* The inductive invariant, and what it is for.

IInv == scenario \in Scenarios /\ RelayInv /\ AgentTypeOK /\ HandlerInv /\ ClientInv

LEMMA InitIInv == Init => IInv
<1> SUFFICES ASSUME Init PROVE IInv
  OBVIOUS
<1>1. RelayInv
  BY RelayInitInv DEF Init
<1>2. AgentTypeOK
  BY DEF Init, AgentTypeOK
<1>3. HandlerInv
  <2>1. \A h \in Handlers : step[h] = "idle" /\ job[h] = None
    BY DEF Init
  <2>2. HandlerTypeOK
    BY <2>1 DEF Init, HandlerTypeOK
  <2> QED BY <2>1, <2>2 DEF Init, HandlerInv, Queued, NewestLast, Updating, Busy
<1>4. ClientInv
  <2>1. \A i \in Instances : bus[i] = <<>> /\ DOMAIN dashboards[i] = {}
    BY DEF Init, NoClients
  <2>2. \A k \in Sockets : sock[k] = Shut /\ due[k] = None
    BY DEF Init
  <2>3. Shut.at = "closed" /\ Shut.user = None /\ Shut.seen = None
    BY DEF Shut
  <2>4. ClientTypeOK
    <3>1. Shut \in [at : {"closed", "open", "error"}, user : Accounts \cup {None}, seen : Reports \cup {None}]
      BY DEF Shut
    <3>2. bus \in [Instances -> Seq(Events)] /\ due \in [Sockets -> Reports \cup {None}]
      BY DEF Init
    <3> QED BY <2>1, <3>1, <3>2 DEF Init, ClientTypeOK
  <2>5. RegistryExact
    BY <2>1, <2>2, <2>3 DEF RegistryExact, Registered
  <2>6. EventsDue /\ ClosedNobody
    <3>1. 1..Len(<<>>) = {}
      OBVIOUS
    <3> QED BY <2>1, <2>2, <2>3, <3>1 DEF EventsDue, ClosedNobody
  <2> QED BY <2>4, <2>5, <2>6 DEF ClientInv
<1> QED BY <1>1, <1>2, <1>3, <1>4 DEF Init, IInv

LEMMA ScenarioStill ==
  ASSUME [Next]_vars
  PROVE  scenario' = scenario
BY DEF Next, Traffic, Relaying, Connect, Lose, Crash, Reporting, LoadIn, LoadOut, SendReport, Receive, Handling,
   Insert, Update, OpenSocket, SocketError, SocketClose, Cleanup, DashboardAuth, Deliver, HubRestart, vars

LEMMA NextIInv == IInv /\ [Next]_vars => IInv'
<1> SUFFICES ASSUME IInv, [Next]_vars PROVE IInv'
  OBVIOUS
<1>1. /\ scenario \in Scenarios /\ RelayInv /\ RelayTypeOK /\ AgentTypeOK
      /\ HandlerInv /\ HandlerTypeOK /\ ClientInv
  BY DEF IInv, RelayInv, HandlerInv
<1>2. RelayInv'
  BY <1>1, RelayNext
<1>3. AgentTypeOK'
  BY <1>1, AgentNext
<1>4. HandlerInv'
  BY <1>1, HandlerNext
<1>5. ClientInv'
  BY <1>1, ClientNext
<1> QED BY <1>1, <1>2, <1>3, <1>4, <1>5, ScenarioStill DEF IInv

THEOREM Invariance == Spec => []IInv
BY InitIInv, NextIInv, PTL DEF Spec

\* The variables keep their types, for any number of relays, handlers,
\* instances and dashboards.
THEOREM TypeCorrect == Spec => []TypeOK
<1>1. IInv => TypeOK
  BY DEF IInv, TypeOK, RelayInv, HandlerInv, ClientInv
<1> QED BY <1>1, Invariance, PTL

\* relay.rs: a relay that is over has delivered all that was sent in each
\* direction that did not fail, and the counters are what was delivered.
THEOREM RelayCorrect == Spec => []RelayExact
<1>1. IInv => RelayExact
  <2> SUFFICES ASSUME IInv PROVE RelayExact
    OBVIOUS
  <2>1. ASSUME NEW f \in Copies, stage[f] = "done"
        PROVE  delivered[f] = sent[f]
    BY <2>1 DEF IInv, RelayInv, RelayTypeOK, Balance, Drained
  <2> QED BY <2>1 DEF IInv, RelayInv, RelayExact, WholeStream
<1> QED BY <1>1, Invariance, PTL

\* handleMetricsReport, sendToDashboard, cleanupConnection: the metadata is the
\* newest row once no report is under way, dashboards of the owner have the last
\* event, others none, and the registry of each instance is exact.
THEOREM DashboardsCorrect == Spec => []DashboardsSee
<1>1. IInv => DashboardsSee
  <2> SUFFICES ASSUME IInv PROVE DashboardsSee
    OBVIOUS
  <2>1. MetadataCurrent
    <3>1. Busy = {} => Updating = {}
      BY DEF Busy, Updating
    <3> QED BY <3>1 DEF IInv, HandlerInv, NewestLast, MetadataCurrent
  <2>2. RegistryExact /\ \A k \in Sockets :
          /\ bus[Home[k]] = <<>> /\ due[k] # None => sock[k].seen = due[k]
          /\ sock[k].seen # None => sock[k].user = Owner
    BY DEF IInv, ClientInv, EventsDue
  <2> QED BY <2>1, <2>2 DEF DashboardsSee
<1> QED BY <1>1, Invariance, PTL
=============================================================================
