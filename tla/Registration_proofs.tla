------------------------- MODULE Registration_proofs -------------------------
(***************************************************************************)
(* Proofs about the registration of agents (server/src/websocket/          *)
(* manager.js, agent/src/websocket.rs, agent/src/config.rs): for any       *)
(* number of agents that share an install token, no agent ever saves the   *)
(* identity of another one, and none loses its own.                        *)
(***************************************************************************)
EXTENDS Registration, TLAPS

USE RegistrationAssumption

-----------------------------------------------------------------------------
\* The inductive invariant.  An identity travels from a row through a handler
\* to the agent's memory and to its file, and is that agent's all the way.

\* n is no token, or that of a row made for a.
Own(a, n) == n \in Ids => servers[n] = a

\* Handlers work for the agent whose row they have, and have one from the
\* INSERT or the look-up of an agent token on.
JobsOwn ==
    \A h \in Handlers : step[h] # "idle" =>
        /\ job[h].server \in Ids \cup {0}
        /\ Own(job[h].agent, job[h].server)
        /\ step[h] \in {"mark", "find", "grant"} => job[h].server # 0
        /\ step[h] \in {"lookup", "insert"} => job[h].server = 0

MemoryOwn == \A a \in Agents : Own(a, config[a]) /\ Own(a, saved[a])

\* A handler that a is waiting for.
Serves(h, a) == conn[a] = h /\ h \in Handlers /\ step[h] # "idle" /\ job[h].agent = a

\* What a is about to save is what it has saved, if anything: a start saves
\* what it has loaded, and a handler got the saved token from a.
SavesSame ==
    \A a \in Agents :
        /\ pc[a] \in {"bootSave", "bootWrite"} => config[a] = saved[a]
        /\ pc[a] \in Saving => saved[a] \in {0, config[a]}
        /\ \A h \in Handlers : Serves(h, a) =>
              pc[a] = "auth" /\ saved[a] \in {0, job[h].server}

IInv == TypeOK /\ JobsOwn /\ MemoryOwn /\ SavesSame

-----------------------------------------------------------------------------
\* At first nobody has a token.
LEMMA InitInv == Init => IInv
<1> SUFFICES ASSUME Init PROVE IInv
  OBVIOUS
<1> USE DEF Init
<1>1. TypeOK
  <2>1. servers \in Seq(Agents) /\ Len(servers) = 0
    OBVIOUS
  <2>2. saved \in [Agents -> Ids \cup {0}] /\ config \in [Agents -> Ids \cup {0}]
    OBVIOUS
  <2>3. file \in [Agents -> Ids \cup {0, Torn}] /\ \A a \in Agents : file[a] \in {saved[a], Torn}
    OBVIOUS
  <2>4. job \in [Handlers -> Jobs \cup {None}]
    OBVIOUS
  <2>5. Len(servers) <= MaxServers /\ gone \subseteq Ids
    BY <2>1
  <2>6. /\ pc \in [Agents -> {"off", "bootSave", "bootWrite", "loop", "auth", "authSave",
                             "authWrite", "up"}]
        /\ conn \in [Agents -> Handlers \cup {None}]
        /\ \A a \in Agents : conn[a] = None /\ pc[a] = "off"
    OBVIOUS
  <2>7. /\ step \in [Handlers -> {"idle", "lookup", "insert", "mark", "find", "grant", "refuse"}]
        /\ \A h \in Handlers : step[h] = "idle"
    OBVIOUS
  <2> HIDE DEF Init
  <2>8. used \in BOOLEAN /\ expired \in BOOLEAN
    BY DEF Init
  <2> QED BY <2>1, <2>2, <2>3, <2>4, <2>5, <2>6, <2>7, <2>8 DEF TypeOK, Waiting, Saving
<1>2. JobsOwn /\ MemoryOwn /\ SavesSame
  BY DEF JobsOwn, MemoryOwn, SavesSame, Serves, Own, Ids, Saving
<1> QED BY <1>1, <1>2 DEF IInv

\* The steps of an agent that do not involve the hub keep the invariant.
LEMMA LocalInv ==
  ASSUME IInv, NEW a \in Agents,
         Start(a) \/ Truncate(a) \/ Write(a) \/ WriteFails(a) \/ Notices(a)
  PROVE  IInv'
<1> USE DEF IInv
<1> Ids' = Ids
  BY DEF Start, Truncate, Write, WriteFails, Notices, hubVars, Ids
<1> JobsOwn'
  BY DEF Start, Truncate, Write, WriteFails, Notices, hubVars, JobsOwn, Own
<1>1. CASE Start(a)
  <2> USE <1>1 DEF Start, Goto, hubVars, BootConfig
  <2>1. file[a] = saved[a] /\ conn[a] = None
    BY DEF TypeOK, Waiting, Saving
  <2>2. TypeOK'
    BY <2>1 DEF TypeOK, Waiting, Saving, Jobs
  <2>3. MemoryOwn'
    BY <2>1 DEF MemoryOwn, Own, TypeOK
  <2>4. SavesSame'
    BY <2>1 DEF SavesSame, Serves, Saving, TypeOK
  <2> QED BY <2>2, <2>3, <2>4
<1>2. CASE Truncate(a)
  <2> USE <1>2 DEF Truncate, Goto, hubVars
  <2>1. TypeOK'
    BY DEF TypeOK, Waiting, Saving, Jobs
  <2>2. MemoryOwn'
    BY DEF MemoryOwn, Own
  <2>3. SavesSame'
    BY DEF SavesSame, Serves, Saving, TypeOK
  <2> QED BY <2>1, <2>2, <2>3
<1>3. CASE Write(a)
  <2> USE <1>3 DEF Write, Resumed, Goto, hubVars
  <2>1. TypeOK'
    BY DEF TypeOK, Waiting, Saving, Jobs
  <2>2. MemoryOwn'
    BY DEF MemoryOwn, Own, TypeOK
  <2>3. SavesSame'
    BY DEF SavesSame, Serves, Saving, TypeOK
  <2> QED BY <2>1, <2>2, <2>3
<1>4. CASE WriteFails(a)
  <2> USE <1>4 DEF WriteFails, Resumed, Goto, hubVars, fileVars
  <2>1. TypeOK'
    BY DEF TypeOK, Waiting, Saving, Jobs
  <2>2. MemoryOwn'
    BY DEF MemoryOwn, Own
  <2>3. SavesSame'
    BY DEF SavesSame, Serves, Saving, TypeOK
  <2> QED BY <2>1, <2>2, <2>3
<1>5. CASE Notices(a)
  <2> USE <1>5 DEF Notices, Goto, hubVars, fileVars
  <2>1. TypeOK'
    BY DEF TypeOK, Waiting, Saving, Jobs
  <2>2. MemoryOwn'
    BY DEF MemoryOwn, Own
  <2>3. SavesSame'
    BY DEF SavesSame, Serves, Saving, TypeOK
  <2> QED BY <2>1, <2>2, <2>3
<1> QED BY <1>1, <1>2, <1>3, <1>4, <1>5

\* A connection starts with the saved token, or with none.
LEMMA ConnectInv ==
  ASSUME IInv, NEW a \in Agents, NEW h \in Handlers, Connect(a, h)
  PROVE  IInv'
<1> USE DEF IInv, Connect, Goto, hubVars, FirstStep
<1> Ids' = Ids
  BY DEF Ids
<1>1. file[a] = saved[a] /\ file[a] \in Ids \cup {0}
  BY DEF TypeOK
<1>2. TypeOK'
  BY <1>1 DEF TypeOK, Waiting, Saving, Jobs, Ids
<1>3. JobsOwn'
  BY <1>1 DEF JobsOwn, Own, MemoryOwn, TypeOK
<1>4. MemoryOwn'
  BY <1>1 DEF MemoryOwn, Own, TypeOK
<1>5. SavesSame'
  BY <1>1 DEF SavesSame, Serves, Saving, TypeOK
<1> QED BY <1>2, <1>3, <1>4, <1>5

\* The queries of a handler.
LEMMA QueryInv ==
  ASSUME IInv, NEW h \in Handlers, Lookup(h) \/ Insert(h) \/ Mark(h) \/ Find(h)
  PROVE  IInv'
<1> USE DEF IInv, HandlerGoes, AgentsWait, fileVars, hubVars
<1>1. CASE Lookup(h) \/ Mark(h) \/ Find(h)
  <2> USE <1>1 DEF Lookup, Mark, Find
  <2> Ids' = Ids
    BY DEF Ids
  <2>1. TypeOK'
    BY DEF TypeOK, Jobs
  <2>2. JobsOwn'
    BY DEF JobsOwn, Own, TypeOK
  <2>3. MemoryOwn'
    BY DEF MemoryOwn, Own
  <2>4. SavesSame'
    BY DEF SavesSame, Serves, TypeOK
  <2> QED BY <2>1, <2>2, <2>3, <2>4
<1>2. CASE Insert(h)
  <2> DEFINE n == Len(servers) + 1
             a == job[h].agent
  <2>1. /\ job[h] \in Jobs /\ a \in Agents /\ job[h].server = 0
        /\ servers \in Seq(Agents) /\ Len(servers) \in Nat /\ n <= MaxServers
    BY <1>2 DEF Insert, TypeOK, Jobs, JobsOwn
  <2>2. /\ servers' \in Seq(Agents) /\ Len(servers') = n
        /\ servers'[n] = a
        /\ \A i \in Ids : servers'[i] = servers[i]
    BY <1>2, <2>1 DEF Insert, Ids
  <2>3. Ids' = Ids \cup {n} /\ n \notin Ids /\ n # 0 /\ 0 \notin Ids'
    BY <2>1, <2>2 DEF Ids
  <2>4. /\ step \in [Handlers -> {"idle", "lookup", "insert", "mark", "find", "grant", "refuse"}]
        /\ step' = [step EXCEPT ![h] = "mark"]
        /\ job \in [Handlers -> Jobs \cup {None}]
        /\ job' = [job EXCEPT ![h].server = n]
    BY <1>2, <2>2 DEF Insert, TypeOK
  <2>5. job'[h] = [agent |-> a, server |-> n] /\ job'[h] \in Jobs
    BY <2>1, <2>4 DEF Jobs
  <2>6. UNCHANGED <<used, expired, gone, file, config, saved, pc, conn>>
    BY <1>2 DEF Insert
  <2>7. TypeOK'
    <3>1. job' \in [Handlers -> Jobs \cup {None}]
      BY <2>4, <2>5
    <3>2. \A g \in Handlers : step'[g] = "idle" \/ job'[g] \in Jobs
      BY <2>4, <2>5 DEF TypeOK
    <3>3. step' \in [Handlers -> {"idle", "lookup", "insert", "mark", "find", "grant", "refuse"}]
      BY <2>4
    <3>4. /\ gone' \subseteq Ids' /\ saved' \in [Agents -> Ids' \cup {0}]
          /\ config' \in [Agents -> Ids' \cup {0}]
          /\ file' \in [Agents -> Ids' \cup {0, Torn}]
      BY <2>3, <2>6 DEF TypeOK
    <3> QED BY <2>1, <2>2, <2>6, <3>1, <3>2, <3>3, <3>4 DEF TypeOK, Jobs, Waiting, Saving
  <2>8. JobsOwn'
    <3> SUFFICES ASSUME NEW g \in Handlers, step'[g] # "idle"
        PROVE /\ job'[g].server \in Ids' \cup {0}
              /\ job'[g].server \in Ids' => servers'[job'[g].server] = job'[g].agent
              /\ step'[g] \in {"mark", "find", "grant"} => job'[g].server # 0
              /\ step'[g] \in {"lookup", "insert"} => job'[g].server = 0
      BY DEF JobsOwn, Own
    <3>1. CASE g = h
      BY <3>1, <2>2, <2>3, <2>4, <2>5
    <3>2. CASE g # h
      <4>1. step'[g] = step[g] /\ job'[g] = job[g]
        BY <3>2, <2>4
      <4> QED BY <4>1, <2>2, <2>3 DEF JobsOwn, Own
    <3> QED BY <3>1, <3>2
  <2>9. MemoryOwn'
    BY <2>2, <2>3, <2>6 DEF MemoryOwn, Own, TypeOK
  <2>10. SavesSame'
    <3>1. \A b \in Agents, g \in Handlers :
            Serves(g, b)' => Serves(g, b) /\ (IF g = h THEN saved[b] = 0 ELSE job'[g] = job[g])
      <4> SUFFICES ASSUME NEW b \in Agents, NEW g \in Handlers, Serves(g, b)'
          PROVE Serves(g, b) /\ (IF g = h THEN saved[b] = 0 ELSE job'[g] = job[g])
        OBVIOUS
      <4>1. CASE g = h
        <5>1. Serves(h, b)
          BY <4>1, <1>2, <2>5, <2>6 DEF Serves, Insert
        <5>2. saved[b] \in {0, job[h].server}
          BY <5>1 DEF SavesSame
        <5> QED BY <4>1, <5>1, <5>2, <2>1
      <4>2. CASE g # h
        BY <4>2, <2>4, <2>6 DEF Serves
      <4> QED BY <4>1, <4>2
    <3>2. \A b \in Agents, g \in Handlers :
            Serves(g, b)' => pc'[b] = "auth" /\ saved'[b] \in {0, job'[g].server}
      BY <3>1, <2>6 DEF SavesSame
    <3>3. \A b \in Agents :
            /\ pc'[b] \in {"bootSave", "bootWrite"} => config'[b] = saved'[b]
            /\ pc'[b] \in Saving => saved'[b] \in {0, config'[b]}
      BY <2>6 DEF SavesSame
    <3> QED BY <3>2, <3>3 DEF SavesSame
  <2> QED BY <2>7, <2>8, <2>9, <2>10
<1> QED BY <1>1, <1>2

\* AUTH_RESULT gives the agent its own row, if it is still there.
LEMMA AnswerInv ==
  ASSUME IInv, NEW h \in Handlers, Answer(h)
  PROVE  IInv'
<1> USE DEF IInv, Answer, HandlerGoes, HangUp, Goto, hubVars, Granted
<1> DEFINE a == job[h].agent
<1> Ids' = Ids
  BY DEF Ids
<1>1. job[h] \in Jobs /\ a \in Agents /\ step'[h] = "idle"
  BY DEF TypeOK, Jobs
<1>2. \A g \in Handlers : step'[g] # "idle" => g # h /\ step'[g] = step[g] /\ job'[g] = job[g]
  BY DEF TypeOK
<1>3. /\ job[h].server \in Ids \cup {0} /\ Own(a, job[h].server)
      /\ step[h] = "grant" => job[h].server # 0
  BY DEF JobsOwn
<1>4. TypeOK'
  BY <1>1, <1>3 DEF TypeOK, Waiting, Saving
<1>5. JobsOwn'
  BY <1>2 DEF JobsOwn, Own
<1>6. MemoryOwn'
  BY <1>1, <1>3 DEF MemoryOwn, Own, TypeOK
<1>7. SavesSame'
  <2>1. \A b \in Agents, g \in Handlers : Serves(g, b)' => Serves(g, b) /\ g # h
    BY <1>1, <1>2 DEF Serves, TypeOK
  <2>2. conn[a] = h => Serves(h, a)
    BY <1>1 DEF Serves
  <2> QED BY <1>1, <1>2, <2>1, <2>2 DEF SavesSame, Serves, Saving, TypeOK
<1> QED BY <1>4, <1>5, <1>6, <1>7

\* Whatever ends connections leaves tokens alone.
LEMMA CutInv ==
  ASSUME IInv, NEW as, Cut(as), UNCHANGED <<hubVars, fileVars>>,
         \/ UNCHANGED <<step, job>>
         \/ /\ step' = [h \in Handlers |-> "idle"]
            /\ job' = [h \in Handlers |-> None]
  PROVE  IInv'
<1> USE DEF IInv, Cut, hubVars, fileVars
<1> Ids' = Ids
  BY DEF Ids
<1>1. TypeOK'
  BY DEF TypeOK, Waiting, Saving, Jobs
<1>2. JobsOwn'
  BY DEF JobsOwn, Own
<1>3. MemoryOwn'
  BY DEF MemoryOwn, Own
<1>4. SavesSame'
  <2>1. \A h \in Handlers, a \in Agents :
          Serves(h, a)' => Serves(h, a) /\ a \notin as /\ job'[h] = job[h]
    BY DEF Serves, TypeOK
  <2> QED BY <2>1 DEF SavesSame, Saving
<1> QED BY <1>1, <1>2, <1>3, <1>4

\* So does a crash, and what happens at the hub.
LEMMA LossInv ==
  ASSUME IInv, Loss
  PROVE  IInv'
<1>1. ASSUME NEW a \in Agents, Lose(a) PROVE IInv'
  BY <1>1, CutInv DEF Lose
<1>2. CASE HubRestart
  BY <1>2, CutInv DEF HubRestart
<1>3. ASSUME NEW a \in Agents, WriteFails(a) PROVE IInv'
  BY <1>3, LocalInv
<1>4. ASSUME NEW a \in Agents, Crash(a) PROVE IInv'
  <2> USE <1>4 DEF IInv, Crash, HangUp, Goto, hubVars, fileVars
  <2> Ids' = Ids
    BY DEF Ids
  <2>1. TypeOK'
    BY DEF TypeOK, Waiting, Saving, Jobs
  <2>2. JobsOwn' /\ MemoryOwn'
    BY DEF JobsOwn, MemoryOwn, Own
  <2>3. SavesSame'
    BY DEF SavesSame, Serves, Saving, TypeOK
  <2> QED BY <2>1, <2>2, <2>3
<1>5. CASE Delete \/ Expire
  <2> USE <1>5 DEF IInv, Delete, Expire, fileVars
  <2> Ids' = Ids
    BY DEF Ids
  <2>1. TypeOK'
    BY DEF TypeOK, Jobs
  <2>2. JobsOwn' /\ MemoryOwn' /\ SavesSame'
    BY DEF JobsOwn, MemoryOwn, SavesSame, Serves, Own
  <2> QED BY <2>1, <2>2
<1> QED BY <1>1, <1>2, <1>3, <1>4, <1>5 DEF Loss

\* The inductive invariant holds in every reachable state.
THEOREM Invariant == Spec => []IInv
<1>1. IInv /\ [Next]_vars => IInv'
  <2> SUFFICES ASSUME IInv, [Next]_vars PROVE IInv'
    OBVIOUS
  <2>1. ASSUME NEW a \in Agents, Agent(a) \/ Notices(a) PROVE IInv'
    BY <2>1, LocalInv, ConnectInv DEF Agent, HeartbeatFails
  <2>2. ASSUME NEW h \in Handlers, Handler(h) PROVE IInv'
    BY <2>2, QueryInv, AnswerInv DEF Handler
  <2>3. CASE Loss
    BY <2>3, LossInv
  <2>4. CASE UNCHANGED vars
    <3> Ids' = Ids
      BY <2>4 DEF vars, hubVars, Ids
    <3> QED
      BY <2>4 DEF vars, hubVars, fileVars, IInv, TypeOK, Jobs, JobsOwn, MemoryOwn,
                  SavesSame, Serves, Own
  <2> QED BY <2>1, <2>2, <2>3, <2>4 DEF Next
<1> QED BY <1>1, InitInv, PTL DEF Spec

-----------------------------------------------------------------------------
\* The variables keep their types; the tokens that agents hold in memory and on
\* disk always name rows (main.rs, config.rs, websocket.rs).
THEOREM TypeCorrect == Spec => []TypeOK
BY Invariant, PTL DEF IInv

\* However many agents are installed with one token, and whichever answers come
\* for connections that are gone, a saved token is that of a row made for the
\* agent that saved it (handleAgentAuth of manager.js, run of websocket.rs).
THEOREM OwnCorrect == Spec => []TokenIsOwn
<1>1. IInv => TokenIsOwn
  BY DEF IInv, TypeOK, MemoryOwn, Own, TokenIsOwn, Ids
<1> QED BY <1>1, Invariant, PTL

\* A token once saved is never replaced by another, restarts with
\* --install-token included (main.rs saves what it has loaded).
THEOREM KeptCorrect == Spec => IdentityKept
<1> DEFINE Kept == \A a \in Agents : saved[a] # 0 => saved'[a] = saved[a]
<1>1. IInv /\ [Next]_vars => [Kept]_vars
  <2> SUFFICES ASSUME IInv, Next PROVE Kept
    OBVIOUS
  <2>1. ASSUME NEW a \in Agents, Write(a) PROVE Kept
    BY <2>1 DEF Write, IInv, TypeOK, SavesSame, Saving
  <2>2. CASE \A a \in Agents : ~Write(a)
    BY <2>2 DEF Next, Agent, Handler, Loss, Start, Truncate, Connect, Lookup, Insert, Mark,
                Find, Answer, Notices, HeartbeatFails, HubRestart, Expire, Delete, Lose, Crash, WriteFails, AgentsWait,
                fileVars
  <2> QED BY <2>1, <2>2
<1> QED BY <1>1, Invariant, PTL DEF Spec, IdentityKept
=============================================================================
