-------------------------- MODULE ConfigSync_proofs --------------------------
(***************************************************************************)
(* Proofs about the path of the SOCKS5 users from the requests of the      *)
(* dashboard to the agent (server/src/routes/socks5-users.routes.js,       *)
(* server/src/websocket/manager.js, agent/src/websocket.rs): for any       *)
(* numbers of users, ports and requests, and any bound of the queues,      *)
(* nothing is missing at rest when requests come one at a time, nothing is *)
(* left over when moreover nothing is lost, and a restart of the agent     *)
(* repairs everything in any case.                                         *)
(***************************************************************************)
EXTENDS ConfigSync, TLAPS

USE SyncAssumption

-----------------------------------------------------------------------------
\* The requests.

Emitting == {r \in Requests : pc[r] \in {"emitAdd", "emitUpdate", "emitRemove"}}

\* A request has what its next steps read.
HandlerFits ==
    \A r \in Requests :
        /\ pc[r] \in {"postCheck", "postInsert", "emitAdd"} => req[r].port # None /\ req[r].val # None
        /\ pc[r] \in {"putCheck", "putWrite", "delWrite", "emitUpdate", "emitRemove"}
             => existing[r] \in Rows

\* One at a time, it finds the row as it has read it, or none yet.
UpToDate ==
    "concurrent" \notin faults =>
        /\ \A q, r \in Busy : q = r
        /\ \A r \in Requests : pc[r] \in {"postCheck", "postInsert"} => db[User(r)] = NoRow
        /\ \A r \in Requests : pc[r] \in {"putCheck", "putWrite", "delWrite"} => existing[r] = db[User(r)]

SentAtOnce == "syncrace" \notin faults => \A q \in Queries : queries[q] \in {None, Asked}

-----------------------------------------------------------------------------
\* The commands under way: about to be published, in Redis, on the socket.

Pending == {Command(r) : r \in Emitting}

Messages == Upserts \cup Removals \cup Syncs

\* A message of M is still to come: in Redis or before, or on the socket.
BusMends(M)  == Pending \cap M # {} \/ \E j \in 1..Len(bus) : bus[j] \in M
WillMend(M)  == BusMends(M) \/ \E j \in 1..Len(wire) : wire[j] \in M

\* What a message of S does, a later message of M undoes.
BusMended(S, M) ==
    /\ Pending \cap S = {}
    /\ \A i \in 1..Len(bus) : bus[i] \in S =>
         Pending \cap M # {} \/ \E j \in 1..Len(bus) : j > i /\ bus[j] \in M
WireMended(S, M) ==
    \A i \in 1..Len(wire) : wire[i] \in S =>
        BusMends(M) \/ \E j \in 1..Len(wire) : j > i /\ wire[j] \in M

Releases(x, p) ==
    \/ x.type = "upsert" /\ x.old \notin {None, x.port} /\ x.old = p
    \/ x.type = "remove" /\ x.port = p

Gives(x, u, p, v) ==
    \/ x.type = "upsert" /\ x.user = u /\ x.port = p /\ x.val = v
    \/ x.type = "sync" /\ x.rows[u] = [port |-> p, val |-> v]

\* The messages that give u a credential on p, and those that free p; those
\* after which u is served as row says, and those after which it is not.
Giving(u, p)     == {x \in Messages : \E v \in Vals : Gives(x, u, p, v)}
Freeing(p)       == {x \in Messages : Releases(x, p)}
Serving(u, row)  == {x \in Messages : Gives(x, u, row.port, row.val)}
Spoiling(u, row) == {x \in Messages : \/ Releases(x, row.port)
                                      \/ \E v \in Vals \ {row.val} : Gives(x, u, row.port, v)}

\* The agent is connected, and no SYNC_CONFIG is still to come.
Synced == link = "up" /\ \A q \in Queries : queries[q] = None

\* One request at a time: whatever spoils a row is made good, and a connected
\* agent serves the row or is about to.
RowsComing ==
    faults \subseteq {"disconnect"} => \A u \in Users, row \in Rows : db[u] = row =>
        /\ BusMended(Spoiling(u, row), Serving(u, row))
        /\ Synced =>
             /\ WireMended(Spoiling(u, row), Serving(u, row))
             /\ creds[row.port][u] = row.val \/ WillMend(Serving(u, row))

Wanted(u, p) == Present(db, u) /\ db[u].port = p

\* And nothing lost: what no row wants is about to be removed.
RestGoing ==
    faults = {} =>
        /\ link = "down" => wire = <<>> /\ creds = Nothing
        /\ \A u \in Users, p \in Ports : ~Wanted(u, p) =>
             /\ BusMended(Giving(u, p), Freeing(p))
             /\ WireMended(Giving(u, p), Freeing(p))
             /\ creds[p][u] # None => WillMend(Freeing(p))

\* An agent started at rest has seen the rows as they are, or not yet.
FreshExact ==
    fresh =>
        /\ Busy = {} /\ bus = <<>> /\ \A q \in Queries : queries[q] \in {None, Asked, db}
        /\ \A i \in 1..Len(wire) : wire[i].type = "sync" /\ wire[i].rows = db
        /\ \A u \in Users, p \in Ports :
             creds[p][u] # None => Wanted(u, p) /\ creds[p][u] = db[u].val
        /\ Synced /\ wire = <<>> => \A u \in Users : Present(db, u) => Served(u)

SyncInv == HandlerFits /\ UpToDate /\ SentAtOnce /\ RowsComing /\ RestGoing /\ FreshExact

IInv == TypeOK /\ SyncInv

-----------------------------------------------------------------------------
\* What the queues do to what is mended.

\* The message at the head of a queue goes.
LEMMA TailShift ==
  ASSUME NEW T, NEW q \in Seq(T), q # <<>>
  PROVE  /\ Head(q) = q[1] /\ 1 \in 1..Len(q) /\ Tail(q) \in Seq(T) /\ Len(Tail(q)) \in Nat
         /\ \A i \in 1..Len(Tail(q)) : i + 1 \in 1..Len(q) /\ Tail(q)[i] = q[i + 1]
         /\ \A i \in 1..Len(q) : i > 1 => i - 1 \in 1..Len(Tail(q)) /\ q[i] = Tail(q)[i - 1]
OBVIOUS

\* A message is added at the end of one.
LEMMA AppendShift ==
  ASSUME NEW T, NEW q \in Seq(T), NEW x \in T
  PROVE  /\ Append(q, x) \in Seq(T) /\ Len(Append(q, x)) = Len(q) + 1 /\ Len(q) \in Nat
         /\ Append(q, x)[Len(q) + 1] = x
         /\ \A i \in 1..Len(q) : Append(q, x)[i] = q[i]
OBVIOUS

\* A command is about to be published, after all others.
LEMMA PendingMends ==
  ASSUME NEW S, NEW M, bus' = bus, wire' = wire, (Pending \cap S = {})', (Pending \cap M # {})'
  PROVE  BusMended(S, M)' /\ WireMended(S, M)' /\ WillMend(M)'
BY DEF BusMended, WireMended, WillMend, BusMends

\* It is none of these, and none was.
LEMMA PendingKeeps ==
  ASSUME NEW S, NEW M, bus' = bus, Pending = {} \/ Pending' = Pending, (Pending \cap S = {})'
  PROVE  /\ BusMended(S, M) => BusMended(S, M)'
         /\ wire' = wire /\ WireMended(S, M) => WireMended(S, M)'
         /\ wire' = wire /\ WillMend(M) => WillMend(M)'
BY DEF BusMended, WireMended, WillMend, BusMends

\* Emit, with one request.
LEMMA PublishKeeps ==
  ASSUME TypeOK, NEW S, NEW M, NEW x \in Upserts \cup Removals, Pending = {x}, Pending' = {},
         bus' = Append(bus, x), wire' = wire
  PROVE  /\ BusMended(S, M) => BusMended(S, M)'
         /\ WireMended(S, M) => WireMended(S, M)'
         /\ WillMend(M) => WillMend(M)'
<1>1. /\ bus \in Seq(Upserts \cup Removals) /\ Len(bus') = Len(bus) + 1 /\ Len(bus) \in Nat
      /\ bus'[Len(bus) + 1] = x /\ \A i \in 1..Len(bus) : bus'[i] = bus[i]
  BY AppendShift DEF TypeOK
<1>2. /\ \A i \in 1..Len(bus') : i \in 1..Len(bus) \/ i = Len(bus) + 1
      /\ \A i \in 1..Len(bus) : i \in 1..Len(bus') /\ Len(bus) + 1 > i
      /\ Len(bus) + 1 \in 1..Len(bus')
  BY <1>1
<1>3. BusMended(S, M) => BusMended(S, M)'
  BY <1>1, <1>2 DEF BusMended
<1>4. BusMends(M) => BusMends(M)'
  BY <1>1, <1>2 DEF BusMends
<1> QED BY <1>3, <1>4 DEF WireMended, WillMend

\* Deliver, to the socket of the agent.
LEMMA DeliveredKeeps ==
  ASSUME TypeOK, NEW S, NEW M, Pending' = Pending, bus # <<>>, bus' = Tail(bus)
  PROVE  /\ BusMended(S, M) => BusMended(S, M)'
         /\ wire' = Append(wire, Head(bus)) /\ BusMended(S, M) /\ WireMended(S, M) => WireMended(S, M)'
         /\ wire' = Append(wire, Head(bus)) /\ WillMend(M) => WillMend(M)'
<1>1. /\ bus \in Seq(Upserts \cup Removals) /\ wire \in Seq(Upserts \cup Removals \cup Syncs)
      /\ Head(bus) = bus[1] /\ 1 \in 1..Len(bus) /\ Head(bus) \in Upserts \cup Removals \cup Syncs
      /\ \A i \in 1..Len(bus') : i + 1 \in 1..Len(bus) /\ bus'[i] = bus[i + 1]
      /\ \A i \in 1..Len(bus) : i > 1 => i - 1 \in 1..Len(bus') /\ bus[i] = bus'[i - 1]
  BY TailShift DEF TypeOK
<1>2. BusMended(S, M) => BusMended(S, M)'
  <2> SUFFICES ASSUME BusMended(S, M), NEW i \in 1..Len(bus'), bus'[i] \in S, (Pending \cap M = {})'
               PROVE  \E j \in 1..Len(bus') : j > i /\ bus'[j] \in M
    BY DEF BusMended
  <2>1. PICK j \in 1..Len(bus) : j > i + 1 /\ bus[j] \in M
    BY <1>1 DEF BusMended
  <2>2. j > 1 /\ j - 1 > i
    BY <2>1
  <2> QED BY <1>1, <2>1, <2>2
<1>3. ASSUME wire' = Append(wire, Head(bus))
      PROVE  /\ Len(wire) \in Nat /\ Len(wire') = Len(wire) + 1 /\ wire'[Len(wire) + 1] = bus[1]
             /\ \A i \in 1..Len(wire) : wire'[i] = wire[i] /\ i \in 1..Len(wire') /\ Len(wire) + 1 > i
             /\ \A i \in 1..Len(wire') : i \in 1..Len(wire) \/ i = Len(wire) + 1
             /\ Len(wire) + 1 \in 1..Len(wire')
  <2>1. /\ Len(wire) \in Nat /\ Len(wire') = Len(wire) + 1 /\ wire'[Len(wire) + 1] = bus[1]
        /\ \A i \in 1..Len(wire) : wire'[i] = wire[i]
    BY <1>1, <1>3, AppendShift
  <2> QED BY <2>1
<1>4. BusMends(M) => BusMends(M)' \/ bus[1] \in M
  BY <1>1 DEF BusMends
<1>5. ASSUME wire' = Append(wire, Head(bus)), BusMended(S, M), WireMended(S, M)
      PROVE  WireMended(S, M)'
  <2> SUFFICES ASSUME NEW i \in 1..Len(wire'), wire'[i] \in S, ~BusMends(M)'
               PROVE  \E j \in 1..Len(wire') : j > i /\ wire'[j] \in M
    BY DEF WireMended
  <2>1. CASE i \in 1..Len(wire)
    BY <1>3, <1>4, <1>5, <2>1 DEF WireMended
  <2>2. CASE i = Len(wire) + 1
    <3>1. bus[1] \in S
      BY <1>3, <1>5, <2>2
    <3>2. Pending \cap M # {} \/ \E j \in 1..Len(bus) : j > 1 /\ bus[j] \in M
      BY <1>1, <1>5, <3>1 DEF BusMended
    <3> QED BY <1>1, <3>2 DEF BusMends
  <2> QED BY <1>3, <1>5, <2>1, <2>2
<1>6. ASSUME wire' = Append(wire, Head(bus)), WillMend(M)
      PROVE  WillMend(M)'
  BY <1>3, <1>4, <1>6 DEF WillMend
<1> QED BY <1>2, <1>5, <1>6

\* SYNC_CONFIG is sent.
LEMMA SentKeeps ==
  ASSUME TypeOK, NEW S, NEW M, NEW x \in Syncs, Pending' = Pending, bus' = bus, wire' = Append(wire, x)
  PROVE  /\ BusMended(S, M) => BusMended(S, M)'
         /\ x \in M /\ x \notin S => WireMended(S, M)' /\ WillMend(M)'
         /\ x \notin S /\ WireMended(S, M) => WireMended(S, M)'
         /\ WillMend(M) => WillMend(M)'
<1>1. /\ wire \in Seq(Upserts \cup Removals \cup Syncs) /\ Len(wire') = Len(wire) + 1 /\ Len(wire) \in Nat
      /\ wire'[Len(wire) + 1] = x /\ \A i \in 1..Len(wire) : wire'[i] = wire[i]
  BY AppendShift DEF TypeOK
<1>2. /\ \A i \in 1..Len(wire') : i \in 1..Len(wire) \/ i = Len(wire) + 1
      /\ \A i \in 1..Len(wire) : i \in 1..Len(wire') /\ Len(wire) + 1 > i
      /\ Len(wire) + 1 \in 1..Len(wire')
  BY <1>1
<1>3. BusMends(M)' <=> BusMends(M)
  BY DEF BusMends
<1>4. BusMended(S, M) => BusMended(S, M)'
  BY DEF BusMended
<1>5. x \notin S /\ WireMended(S, M) => WireMended(S, M)'
  BY <1>1, <1>2, <1>3 DEF WireMended
<1>6. x \in M /\ x \notin S => WireMended(S, M)' /\ WillMend(M)'
  BY <1>1, <1>2, <1>3 DEF WireMended, WillMend
<1>7. WillMend(M) => WillMend(M)'
  BY <1>1, <1>2, <1>3 DEF WillMend
<1> QED BY <1>4, <1>5, <1>6, <1>7

\* Apply: what the message has done is still undone.
LEMMA AppliedKeeps ==
  ASSUME TypeOK, NEW S, NEW M, Pending' = Pending, bus' = bus, wire # <<>>, wire' = Tail(wire)
  PROVE  /\ BusMended(S, M) => BusMended(S, M)'
         /\ WireMended(S, M) => WireMended(S, M)'
         /\ WireMended(S, M) /\ Head(wire) \in S => WillMend(M)'
         /\ WillMend(M) /\ Head(wire) \notin M => WillMend(M)'
<1>1. /\ Head(wire) = wire[1] /\ 1 \in 1..Len(wire)
      /\ \A i \in 1..Len(wire') : i + 1 \in 1..Len(wire) /\ wire'[i] = wire[i + 1]
      /\ \A i \in 1..Len(wire) : i > 1 => i - 1 \in 1..Len(wire') /\ wire[i] = wire'[i - 1]
      /\ \A i \in 1..Len(wire) : i = 1 \/ i > 1
  BY TailShift DEF TypeOK
<1>2. BusMends(M)' <=> BusMends(M)
  BY DEF BusMends
<1>3. BusMended(S, M) => BusMended(S, M)'
  BY DEF BusMended
<1>4. WireMended(S, M) => WireMended(S, M)'
  <2> SUFFICES ASSUME WireMended(S, M), NEW i \in 1..Len(wire'), wire'[i] \in S, ~BusMends(M)'
               PROVE  \E j \in 1..Len(wire') : j > i /\ wire'[j] \in M
    BY DEF WireMended
  <2>1. PICK j \in 1..Len(wire) : j > i + 1 /\ wire[j] \in M
    BY <1>1, <1>2 DEF WireMended
  <2>2. j > 1 /\ j - 1 > i
    BY <2>1
  <2> QED BY <1>1, <2>1, <2>2
<1>5. WireMended(S, M) /\ Head(wire) \in S => WillMend(M)'
  BY <1>1, <1>2 DEF WireMended, WillMend
<1>6. WillMend(M) /\ Head(wire) \notin M => WillMend(M)'
  BY <1>1, <1>2 DEF WillMend
<1> QED BY <1>3, <1>4, <1>5, <1>6

-----------------------------------------------------------------------------
\* The requests.

\* What a request publishes.
LEMMA CommandOf ==
  ASSUME TypeOK, HandlerFits, NEW r \in Emitting
  PROVE  /\ Command(r) \in Upserts \cup Removals
         /\ pc[r] = "emitAdd" =>
              Command(r) = [type |-> "upsert", user |-> User(r), port |-> req[r].port,
                            old |-> None, val |-> req[r].val]
         /\ pc[r] = "emitUpdate" => Command(r) = UpdateCommand(r)
         /\ pc[r] = "emitRemove" =>
              Command(r) = [type |-> "remove", user |-> User(r), port |-> existing[r].port]
<1>1. r \in Requests /\ pc[r] \in {"emitAdd", "emitUpdate", "emitRemove"}
  BY DEF Emitting
<1>2. req[r] \in Params /\ User(r) \in Users
  BY <1>1 DEF TypeOK, User, Params
<1>3. CASE pc[r] = "emitAdd"
  BY <1>1, <1>2, <1>3 DEF HandlerFits, Command, Params, Upserts
<1>4. CASE pc[r] = "emitUpdate"
  <2>1. existing[r].port \in Ports /\ existing[r].val \in Vals
    BY <1>1, <1>4 DEF HandlerFits, Rows
  <2> QED BY <1>1, <1>2, <1>4, <2>1 DEF Command, UpdateCommand, Given, Params, Upserts
<1>5. CASE pc[r] = "emitRemove"
  <2>1. existing[r].port \in Ports
    BY <1>1, <1>5 DEF HandlerFits, Rows
  <2> QED BY <1>1, <1>2, <1>5, <2>1 DEF Command, Removals
<1> QED BY <1>1, <1>3, <1>4, <1>5

\* One request at a time: at most its command is about to be published.
LEMMA Alone ==
  ASSUME UpToDate, "concurrent" \notin faults, NEW r \in Busy
  PROVE  /\ Busy = {r}
         /\ r \notin Emitting => Pending = {}
         /\ r \in Emitting => Pending = {Command(r)}
<1>1. Busy = {r}
  BY DEF UpToDate
<1>2. Emitting \subseteq Busy
  BY DEF Emitting, Busy
<1> QED BY <1>1, <1>2 DEF Pending

\* What serves a row does not spoil it.
LEMMA ServingIsClean ==
  ASSUME NEW u \in Users, NEW row \in Rows, NEW x \in Serving(u, row)
  PROVE  x \notin Spoiling(u, row)
<1>1. row.port \in Ports /\ row.val \in Vals
  BY DEF Rows
<1>2. CASE x.type = "upsert" /\ x.user = u /\ x.port = row.port /\ x.val = row.val
  BY <1>1, <1>2 DEF Spoiling, Gives, Releases
<1>3. CASE x.type = "sync" /\ x.rows[u] = [port |-> row.port, val |-> row.val]
  <2>1. \A v \in Vals \ {row.val} : [port |-> row.port, val |-> v] # x.rows[u]
    BY <1>3
  <2> QED BY <1>3, <2>1 DEF Spoiling, Gives, Releases
<1> QED BY <1>2, <1>3 DEF Serving, Gives

\* A step of a request that neither writes nor is about to publish.
LEMMA SilentInv ==
  ASSUME SyncInv, TypeOK', HandlerFits', UpToDate', UNCHANGED <<db, linkVars, creds, faults>>, fresh' = FALSE,
         "concurrent" \notin faults => Pending = {} /\ Pending' = {}
  PROVE  IInv'
<1>1. UNCHANGED <<bus, wire, link, queries>>
  BY DEF linkVars
<1>2. RowsComing'
  <2> SUFFICES ASSUME faults \subseteq {"disconnect"}, NEW u \in Users, NEW row \in Rows, db[u] = row
               PROVE  /\ BusMended(Spoiling(u, row), Serving(u, row))'
                      /\ Synced =>
                           /\ WireMended(Spoiling(u, row), Serving(u, row))'
                           /\ creds[row.port][u] = row.val \/ WillMend(Serving(u, row))'
    BY <1>1 DEF RowsComing, Synced
  <2> QED BY <1>1, PendingKeeps DEF SyncInv, RowsComing
<1>3. RestGoing'
  <2> SUFFICES ASSUME faults = {}
               PROVE  /\ link = "down" => wire = <<>> /\ creds = Nothing
                      /\ \A u \in Users, p \in Ports : ~Wanted(u, p) =>
                           /\ BusMended(Giving(u, p), Freeing(p))'
                           /\ WireMended(Giving(u, p), Freeing(p))'
                           /\ creds[p][u] # None => WillMend(Freeing(p))'
    BY <1>1 DEF RestGoing, Wanted
  <2> QED BY <1>1, PendingKeeps DEF SyncInv, RestGoing
<1>4. SentAtOnce' /\ FreshExact'
  BY <1>1 DEF SyncInv, SentAtOnce, FreshExact, Synced
<1> QED BY <1>2, <1>3, <1>4 DEF IInv, SyncInv

\* One that writes the row of u: it is about to publish what follows from it.
LEMMA WrittenInv ==
  ASSUME SyncInv, TypeOK, TypeOK', HandlerFits', UpToDate', UNCHANGED <<linkVars, creds, faults>>, fresh' = FALSE,
         NEW u \in Users, NEW new, db' = [db EXCEPT ![u] = new],
         "concurrent" \notin faults =>
            /\ Pending = {}
            /\ \E c \in Upserts \cup Removals :
                 /\ Pending' = {c}
                 /\ new \in Rows => c \in Serving(u, new)
                 /\ \A v \in Users, row \in Rows : v # u /\ db[v] = row => c \notin Spoiling(v, row)
                 /\ \A v \in Users, p \in Ports : ~Wanted(v, p)' => c \notin Giving(v, p)
                 /\ \A p \in Ports : Wanted(u, p) /\ ~Wanted(u, p)' => c \in Freeing(p)
  PROVE  IInv'
<1>1. UNCHANGED <<bus, wire, link, queries>>
  BY DEF linkVars
<1>2. db'[u] = new /\ \A v \in Users : v # u => db'[v] = db[v]
  BY DEF TypeOK, Table
<1>3. ASSUME "concurrent" \notin faults
      PROVE  RowsComing' /\ RestGoing'
  <2>1. PICK c \in Upserts \cup Removals :
                 /\ Pending' = {c}
                 /\ new \in Rows => c \in Serving(u, new)
                 /\ \A v \in Users, row \in Rows : v # u /\ db[v] = row => c \notin Spoiling(v, row)
                 /\ \A v \in Users, p \in Ports : ~Wanted(v, p)' => c \notin Giving(v, p)
                 /\ \A p \in Ports : Wanted(u, p) /\ ~Wanted(u, p)' => c \in Freeing(p)
    BY <1>3
  <2>2. Pending = {}
    BY <1>3
  <2>3. RowsComing'
    <3> SUFFICES ASSUME faults \subseteq {"disconnect"}, NEW v \in Users, NEW row \in Rows, db'[v] = row
                 PROVE  /\ BusMended(Spoiling(v, row), Serving(v, row))'
                        /\ Synced =>
                             /\ WireMended(Spoiling(v, row), Serving(v, row))'
                             /\ creds[row.port][v] = row.val \/ WillMend(Serving(v, row))'
      BY <1>1 DEF RowsComing, Synced
    <3>1. CASE v = u
      <4>1. c \in Serving(v, row) /\ c \notin Spoiling(v, row)
        BY <1>2, <2>1, <3>1, ServingIsClean
      <4>2. (Pending \cap Spoiling(v, row) = {})' /\ (Pending \cap Serving(v, row) # {})'
        BY <2>1, <4>1
      <4> QED BY <1>1, <4>2, PendingMends
    <3>2. CASE v # u
      <4>1. db[v] = row /\ (Pending \cap Spoiling(v, row) = {})'
        BY <1>2, <2>1, <3>2
      <4> QED BY <1>1, <2>2, <4>1, PendingKeeps DEF SyncInv, RowsComing
    <3> QED BY <3>1, <3>2
  <2>4. RestGoing'
    <3> SUFFICES ASSUME faults = {}
                 PROVE  /\ link = "down" => wire = <<>> /\ creds = Nothing
                        /\ \A v \in Users, p \in Ports : ~Wanted(v, p)' =>
                             /\ BusMended(Giving(v, p), Freeing(p))'
                             /\ WireMended(Giving(v, p), Freeing(p))'
                             /\ creds[p][v] # None => WillMend(Freeing(p))'
      BY <1>1 DEF RestGoing
    <3>1. ASSUME NEW v \in Users, NEW p \in Ports, ~Wanted(v, p)'
          PROVE  /\ BusMended(Giving(v, p), Freeing(p))'
                 /\ WireMended(Giving(v, p), Freeing(p))'
                 /\ creds[p][v] # None => WillMend(Freeing(p))'
      <4>1. (Pending \cap Giving(v, p) = {})'
        BY <2>1, <3>1
      <4>2. CASE Wanted(v, p)
        <5>1. v = u
          BY <1>2, <3>1, <4>2 DEF Wanted, Present
        <5>2. (Pending \cap Freeing(p) # {})'
          BY <2>1, <3>1, <4>2, <5>1
        <5> QED BY <1>1, <4>1, <5>2, PendingMends
      <4>3. CASE ~Wanted(v, p)
        BY <1>1, <2>2, <4>1, <4>3, PendingKeeps DEF SyncInv, RestGoing
      <4> QED BY <4>2, <4>3
    <3> QED BY <3>1 DEF SyncInv, RestGoing
  <2> QED BY <2>3, <2>4
<1>4. RowsComing' /\ RestGoing'
  BY <1>3 DEF RowsComing, RestGoing
<1>5. SentAtOnce' /\ FreshExact'
  BY <1>1 DEF SyncInv, SentAtOnce, FreshExact, Synced
<1> QED BY <1>4, <1>5 DEF IInv, SyncInv

LEMMA BeginInv ==
  ASSUME TypeOK, SyncInv, NEW r \in Requests, Begin(r)
  PROVE  IInv'
<1>1. PICK u \in Users, label \in {"postCheck", "putFind", "delFind"},
           p \in Ports \cup {None}, v \in Vals \cup {None} :
             /\ Start(r, label, u, p, v)
             /\ label = "postCheck" => p # None /\ v # None /\ db[u] = NoRow
  BY DEF Begin
<1>2. /\ pc' = [pc EXCEPT ![r] = label]
      /\ req' = [req EXCEPT ![r] = [user |-> u, port |-> p, val |-> v]] /\ fresh' = FALSE
      /\ r \notin Busy /\ ("concurrent" \in faults \/ Busy = {})
      /\ UNCHANGED <<db, existing, bus, wire, link, queries, creds, faults>>
  BY <1>1 DEF Start, MayStart, linkVars
<1>3. [user |-> u, port |-> p, val |-> v] \in Params
  BY DEF Params
<1>4. TypeOK'
  <2>1. /\ pc' \in [Requests -> Labels] /\ req' \in [Requests -> Params \cup {None}]
        /\ \A q \in Requests : pc'[q] # "idle" => req'[q] \in Params
    BY <1>2, <1>3 DEF TypeOK, Labels
  <2> QED BY <1>2, <2>1 DEF TypeOK, Present
<1>5. HandlerFits'
  BY <1>1, <1>2 DEF TypeOK, SyncInv, HandlerFits
<1>6. ASSUME "concurrent" \notin faults
      PROVE  Busy' = {r} /\ Pending = {} /\ Pending' = {}
  <2>1. \A q \in Requests : pc[q] = "idle"
    BY <1>2, <1>6 DEF Busy
  <2>2. \A q \in Requests : pc'[q] = IF q = r THEN label ELSE "idle"
    BY <1>2, <2>1 DEF TypeOK
  <2> QED BY <2>1, <2>2 DEF Busy, Pending, Emitting
<1>7. UpToDate'
  <2> SUFFICES ASSUME "concurrent" \notin faults
               PROVE  /\ \A q, s \in Busy' : q = s
                      /\ \A q \in Requests : pc'[q] \in {"postCheck", "postInsert"} => db[User(q)'] = NoRow
                      /\ \A q \in Requests : pc'[q] \in {"putCheck", "putWrite", "delWrite"}
                           => existing'[q] = db[User(q)']
    BY <1>2 DEF UpToDate
  <2>1. pc'[r] = label /\ User(r)' = u /\ \A q \in Requests : pc'[q] # "idle" => q = r
    BY <1>2, <1>6 DEF TypeOK, Busy, User
  <2> QED BY <1>1, <1>6, <2>1
<1> QED BY <1>2, <1>4, <1>5, <1>6, <1>7, SilentInv DEF SyncInv, linkVars

\* A request steps to a label of its own, or answers; the others stay.
LEMMA StepTypes ==
  ASSUME TypeOK, NEW r \in Busy, NEW label \in Labels \ {"idle"},
         \/ Answer(r)
         \/ /\ pc' = [pc EXCEPT ![r] = label] /\ req' = req
            /\ \/ existing' = existing
               \/ \E row \in Rows : existing' = [existing EXCEPT ![r] = row]
  PROVE  /\ pc' \in [Requests -> Labels] /\ req' \in [Requests -> Params \cup {None}]
         /\ existing' \in [Requests -> Rows \cup {NoRow}]
         /\ \A q \in Requests : pc'[q] # "idle" => req'[q] \in Params /\ req'[q] = req[q]
         /\ \A q \in Requests : q # r => pc'[q] = pc[q] /\ req'[q] = req[q] /\ existing'[q] = existing[q]
         /\ Busy' \subseteq Busy
         /\ Answer(r) => pc'[r] = "idle" /\ Busy' = Busy \ {r}
         /\ pc'[r] \in {label, "idle"}
<1>1. r \in Requests /\ pc[r] # "idle" /\ req[r] \in Params
  BY DEF Busy, TypeOK
<1>2. /\ pc' \in [Requests -> Labels] /\ req' \in [Requests -> Params \cup {None}]
      /\ existing' \in [Requests -> Rows \cup {NoRow}]
  <2>1. CASE Answer(r)
    BY <1>1, <2>1 DEF TypeOK, Answer, Labels
  <2>2. CASE pc' = [pc EXCEPT ![r] = label] /\ req' = req
    BY <1>1, <2>2 DEF TypeOK, Answer
  <2> QED BY <2>1, <2>2
<1>3. \A q \in Requests : q # r => pc'[q] = pc[q] /\ req'[q] = req[q] /\ existing'[q] = existing[q]
  BY <1>1 DEF TypeOK, Answer
<1>4. pc'[r] \in {label, "idle"} /\ (pc'[r] # "idle" => req'[r] = req[r])
  BY <1>1 DEF TypeOK, Answer, Labels
<1>5. Answer(r) => pc'[r] = "idle"
  BY <1>1 DEF TypeOK, Answer
<1>6. \A q \in Requests : pc'[q] # "idle" => req'[q] \in Params /\ req'[q] = req[q]
  BY <1>1, <1>3, <1>4 DEF TypeOK
<1>7. Busy' \subseteq Busy /\ (Answer(r) => Busy' = Busy \ {r})
  BY <1>1, <1>3, <1>5 DEF Busy
<1> QED BY <1>2, <1>3, <1>4, <1>5, <1>6, <1>7

\* The steps that only look.
LEMMA LookInv ==
  ASSUME TypeOK, SyncInv, NEW r \in Requests,
         PostCheck(r) \/ Find(r) \/ PutCheck(r)
  PROVE  IInv'
<1>1. /\ UNCHANGED <<db, bus, wire, link, queries, creds, fresh, faults>>
      /\ pc[r] \in {"postCheck", "putFind", "delFind", "putCheck"}
  BY DEF PostCheck, Find, PutCheck, Quietly, linkVars
<1>2. r \in Busy
  BY <1>1 DEF Busy
<1>3. PICK label \in {"postInsert", "delWrite", "putCheck", "putWrite"} :
        \/ Answer(r)
        \/ /\ pc' = [pc EXCEPT ![r] = label] /\ req' = req
           /\ \/ /\ existing' = existing
                 /\ label = "postInsert" => pc[r] = "postCheck"
                 /\ label = "putWrite" => pc[r] = "putCheck"
                 /\ label \in {"postInsert", "putWrite"}
              \/ /\ db[User(r)] \in Rows /\ existing' = [existing EXCEPT ![r] = db[User(r)]]
                 /\ label \in {"delWrite", "putCheck"}
  <2>1. CASE PostCheck(r)
    BY <2>1 DEF PostCheck, Continue, Goto
  <2>2. CASE PutCheck(r)
    BY <2>2 DEF PutCheck, Continue, Goto
  <2>3. CASE Find(r)
    <3>1. User(r) \in Users
      BY <1>1 DEF TypeOK, User, Params
    <3>2. Present(db, User(r)) => db[User(r)] \in Rows
      BY <3>1 DEF TypeOK, Table, Present
    <3> QED BY <2>3, <3>2 DEF Find, Goto
  <2> QED BY <2>1, <2>2, <2>3
<1>4. /\ pc' \in [Requests -> Labels] /\ req' \in [Requests -> Params \cup {None}]
      /\ existing' \in [Requests -> Rows \cup {NoRow}]
      /\ \A q \in Requests : pc'[q] # "idle" => req'[q] \in Params /\ req'[q] = req[q]
      /\ \A q \in Requests : q # r => pc'[q] = pc[q] /\ req'[q] = req[q] /\ existing'[q] = existing[q]
      /\ Busy' \subseteq Busy /\ pc'[r] \in {label, "idle"}
      /\ Answer(r) => pc'[r] = "idle"
  <2>1. label \in Labels \ {"idle"}
    BY DEF Labels
  <2> QED BY <1>2, <1>3, <2>1, StepTypes
<1>5. TypeOK'
  BY <1>1, <1>4 DEF TypeOK, Present
<1>6. HandlerFits'
  <2>1. CASE pc'[r] = "idle"
    BY <1>4, <2>1 DEF SyncInv, HandlerFits
  <2>2. CASE pc'[r] # "idle"
    <3>1. /\ pc'[r] = label /\ req'[r] = req[r]
          /\ label = "postInsert" => pc[r] = "postCheck"
          /\ label = "putWrite" => pc[r] = "putCheck" /\ existing'[r] = existing[r]
          /\ label \in {"delWrite", "putCheck"} => existing'[r] \in Rows
      BY <1>3, <1>4, <2>2 DEF TypeOK
    <3> QED BY <1>4, <3>1 DEF SyncInv, HandlerFits
  <2> QED BY <2>1, <2>2
<1>7. UpToDate'
  <2> SUFFICES ASSUME "concurrent" \notin faults
               PROVE  /\ \A q, s \in Busy' : q = s
                      /\ \A q \in Requests : pc'[q] \in {"postCheck", "postInsert"} => db[User(q)'] = NoRow
                      /\ \A q \in Requests : pc'[q] \in {"putCheck", "putWrite", "delWrite"}
                           => existing'[q] = db[User(q)']
    BY <1>1 DEF UpToDate
  <2>1. \A q \in Requests : pc'[q] # "idle" => User(q)' = User(q)
    BY <1>4 DEF User
  <2>2. pc'[r] \in {"putCheck", "putWrite", "delWrite"} => existing'[r] = db[User(r)]
    <3> SUFFICES ASSUME pc'[r] \in {"putCheck", "putWrite", "delWrite"}
                 PROVE  existing'[r] = db[User(r)]
      OBVIOUS
    <3>1. CASE label = "putWrite" /\ existing' = existing /\ pc[r] = "putCheck"
      BY <3>1 DEF SyncInv, UpToDate
    <3>2. CASE existing' = [existing EXCEPT ![r] = db[User(r)]]
      BY <3>2 DEF TypeOK
    <3> QED BY <1>3, <1>4, <3>1, <3>2
  <2>3. \A q \in Requests : q # r /\ pc'[q] \in {"putCheck", "putWrite", "delWrite"}
          => existing'[q] = db[User(q)]
    BY <1>4 DEF SyncInv, UpToDate
  <2>4. \A q, s \in Busy' : q = s
    BY <1>4 DEF SyncInv, UpToDate
  <2>5. \A q \in Requests : pc'[q] \in {"postCheck", "postInsert"}
          => pc[q] \in {"postCheck", "postInsert"}
    BY <1>3, <1>4
  <2>6. \A q \in Requests : pc'[q] \in {"postCheck", "postInsert"} => db[User(q)] = NoRow
    BY <2>5 DEF SyncInv, UpToDate
  <2> QED BY <2>1, <2>2, <2>3, <2>4, <2>6
<1>8. "concurrent" \notin faults => Pending = {} /\ Pending' = {}
  <2> SUFFICES ASSUME "concurrent" \notin faults PROVE Pending = {} /\ Pending' = {}
    OBVIOUS
  <2>1. Busy = {r}
    BY <1>2, Alone DEF SyncInv
  <2>2. r \notin Emitting /\ r \notin Emitting'
    BY <1>1, <1>3, <1>4 DEF Emitting
  <2>3. Emitting \subseteq Busy /\ Emitting' \subseteq Busy'
    BY DEF Emitting, Busy
  <2> QED BY <1>4, <2>1, <2>2, <2>3 DEF Pending
<1>9. fresh' = FALSE
  BY <1>1, <1>2 DEF TypeOK, SyncInv, FreshExact
<1> QED BY <1>1, <1>5, <1>6, <1>7, <1>8, <1>9, SilentInv DEF SyncInv, linkVars

\* The steps that write, when they do.
LEMMA PostInsertInv ==
  ASSUME TypeOK, SyncInv, NEW r \in Requests, PostInsert(r)
  PROVE  IInv'
<1>0. PICK u, new : u = User(r) /\ new = [port |-> req[r].port, val |-> req[r].val]
  OBVIOUS
<1>1. /\ UNCHANGED <<bus, wire, link, queries, creds, fresh, faults>>
      /\ pc[r] = "postInsert" /\ r \in Busy /\ req[r] \in Params /\ u \in Users /\ new \in Rows
  <2>1. /\ UNCHANGED <<bus, wire, link, queries, creds, fresh, faults>>
        /\ pc[r] = "postInsert" /\ r \in Busy /\ req[r] \in Params
    BY DEF PostInsert, Quietly, linkVars, Busy, TypeOK
  <2>2. req[r].port # None /\ req[r].val # None
    BY <2>1 DEF SyncInv, HandlerFits
  <2> QED BY <1>0, <2>1, <2>2 DEF Params, Rows, User
<1>2. \/ Answer(r) /\ db' = db
      \/ /\ pc' = [pc EXCEPT ![r] = "emitAdd"] /\ UNCHANGED <<req, existing>>
         /\ db' = [db EXCEPT ![u] = new] /\ ~Taken(new.port, u)
  BY <1>0 DEF PostInsert, Continue, Goto, Fits
<1>3. "emitAdd" \in Labels \ {"idle"}
  BY DEF Labels
<1>4. /\ pc' \in [Requests -> Labels] /\ req' \in [Requests -> Params \cup {None}]
      /\ existing' \in [Requests -> Rows \cup {NoRow}]
      /\ \A q \in Requests : pc'[q] # "idle" => req'[q] \in Params /\ req'[q] = req[q]
      /\ \A q \in Requests : q # r => pc'[q] = pc[q] /\ req'[q] = req[q] /\ existing'[q] = existing[q]
      /\ Busy' \subseteq Busy /\ pc'[r] \in {"emitAdd", "idle"}
  BY <1>1, <1>2, <1>3, StepTypes
<1>5. db' \in Table /\ \A v, w \in Users :
        (v # w /\ Present(db', v) /\ Present(db', w)) => db'[v].port # db'[w].port
  <2>1. CASE db' = db
    BY <2>1 DEF TypeOK
  <2>2. CASE db' = [db EXCEPT ![u] = new] /\ ~Taken(new.port, u)
    BY <1>1, <2>2 DEF TypeOK, Table, Taken, Present
  <2> QED BY <1>2, <2>1, <2>2
<1>6. TypeOK'
  BY <1>1, <1>4, <1>5 DEF TypeOK
<1>7. HandlerFits'
  <2>1. pc'[r] = "emitAdd" => req'[r] = req[r]
    BY <1>1, <1>4
  <2> QED BY <1>1, <1>4, <2>1 DEF SyncInv, HandlerFits
<1>8. ASSUME "concurrent" \notin faults
      PROVE  Busy = {r} /\ Pending = {} /\ (pc'[r] = "idle" => Pending' = {})
             /\ \A q \in Requests : pc'[q] \in {"idle", "emitAdd"}
  <2>1. Busy = {r} /\ Pending = {}
    BY <1>1, <1>8, Alone DEF SyncInv, Emitting
  <2>2. \A q \in Requests : pc'[q] \in {"idle", "emitAdd"} /\ (q # r => pc'[q] = "idle")
    BY <1>4, <2>1 DEF Busy
  <2> QED BY <1>4, <2>1, <2>2 DEF Pending, Emitting
<1>9. UpToDate'
  BY <1>1, <1>4, <1>8 DEF UpToDate
<1>10. fresh' = FALSE
  BY <1>1 DEF TypeOK, SyncInv, FreshExact
<1>11. CASE Answer(r) /\ db' = db
  <2>1. pc'[r] = "idle"
    BY <1>1, <1>3, <1>11, StepTypes
  <2> QED BY <1>1, <1>6, <1>7, <1>8, <1>9, <1>10, <1>11, <2>1, SilentInv DEF SyncInv, linkVars
<1>12. CASE /\ pc' = [pc EXCEPT ![r] = "emitAdd"] /\ UNCHANGED <<req, existing>>
            /\ db' = [db EXCEPT ![u] = new] /\ ~Taken(new.port, u)
  <2> DEFINE c == [type |-> "upsert", user |-> u, port |-> new.port, old |-> None, val |-> new.val]
  <2>1. c \in Upserts
    BY <1>1 DEF Upserts, Rows
  <2>2. ASSUME "concurrent" \notin faults
        PROVE  Pending' = {c}
    <3>1. r \in Busy' /\ Emitting' = {r} /\ pc'[r] = "emitAdd"
      BY <1>1, <1>4, <1>8, <1>12, <2>2 DEF TypeOK, Busy, Emitting
    <3>2. Command(r)' = c
      BY <1>0, <1>12, <3>1 DEF Command, User
    <3> QED BY <3>1, <3>2 DEF Pending
  <2>3. c \in Serving(u, new)
    BY <2>1 DEF Serving, Gives, Messages
  <2>4. \A v \in Users, row \in Rows : v # u /\ db[v] = row => c \notin Spoiling(v, row)
    BY DEF Spoiling, Releases, Gives
  <2>5. \A v \in Users, p \in Ports : ~Wanted(v, p)' => c \notin Giving(v, p)
    <3>1. Wanted(u, new.port)'
      BY <1>1, <1>12 DEF Wanted, Present, TypeOK, Table
    <3> QED BY <3>1 DEF Giving, Gives
  <2>6. "concurrent" \notin faults => \A p \in Ports : ~Wanted(u, p)
    BY <1>0, <1>1 DEF Wanted, Present, SyncInv, UpToDate
  <2> HIDE DEF c
  <2>7. "concurrent" \notin faults =>
            /\ Pending = {}
            /\ \E x \in Upserts \cup Removals :
                 /\ Pending' = {x}
                 /\ new \in Rows => x \in Serving(u, new)
                 /\ \A v \in Users, row \in Rows : v # u /\ db[v] = row => x \notin Spoiling(v, row)
                 /\ \A v \in Users, p \in Ports : ~Wanted(v, p)' => x \notin Giving(v, p)
                 /\ \A p \in Ports : Wanted(u, p) /\ ~Wanted(u, p)' => x \in Freeing(p)
    BY <1>8, <2>1, <2>2, <2>3, <2>4, <2>5, <2>6
  <2>8. UNCHANGED <<linkVars, creds, faults>>
    BY <1>1 DEF linkVars
  <2> QED BY <1>1, <1>6, <1>7, <1>9, <1>10, <1>12, <2>7, <2>8, WrittenInv
<1> QED BY <1>2, <1>11, <1>12

LEMMA PutWriteInv ==
  ASSUME TypeOK, SyncInv, NEW r \in Requests, PutWrite(r)
  PROVE  IInv'
<1>0. PICK u, row, new : /\ u = User(r) /\ row = db[u]
                         /\ new = [port |-> Given(req[r].port, row.port), val |-> Given(req[r].val, row.val)]
  OBVIOUS
<1>1. /\ UNCHANGED <<bus, wire, link, queries, creds, fresh, faults>>
      /\ pc[r] = "putWrite" /\ r \in Busy /\ req[r] \in Params /\ u \in Users /\ existing[r] \in Rows
      /\ fresh' = FALSE
  <2>1. /\ UNCHANGED <<bus, wire, link, queries, creds, fresh, faults>>
        /\ pc[r] = "putWrite" /\ r \in Busy /\ req[r] \in Params
    BY DEF PutWrite, Quietly, linkVars, Busy, TypeOK
  <2> QED BY <1>0, <2>1 DEF Params, User, TypeOK, SyncInv, HandlerFits, FreshExact
<1>2. \/ Answer(r) /\ db' = db
      \/ /\ pc' = [pc EXCEPT ![r] = "emitUpdate"] /\ UNCHANGED <<req, existing>>
         /\ \/ db' = db /\ ~Present(db, u)
            \/ db' = [db EXCEPT ![u] = new] /\ Present(db, u) /\ ~Taken(new.port, u)
  BY <1>0 DEF PutWrite, Continue, Goto, Fits
<1>3. "emitUpdate" \in Labels \ {"idle"}
  BY DEF Labels
<1>4. /\ pc' \in [Requests -> Labels] /\ req' \in [Requests -> Params \cup {None}]
      /\ existing' \in [Requests -> Rows \cup {NoRow}]
      /\ \A q \in Requests : pc'[q] # "idle" => req'[q] \in Params /\ req'[q] = req[q]
      /\ \A q \in Requests : q # r => pc'[q] = pc[q] /\ req'[q] = req[q] /\ existing'[q] = existing[q]
      /\ Busy' \subseteq Busy /\ pc'[r] \in {"emitUpdate", "idle"}
      /\ Answer(r) => pc'[r] = "idle"
  BY <1>1, <1>2, <1>3, StepTypes
<1>5. Present(db, u) => row \in Rows /\ new \in Rows
  BY <1>0, <1>1 DEF TypeOK, Table, Present, Given, Params, Rows
<1>6. db' \in Table /\ \A v, w \in Users :
        (v # w /\ Present(db', v) /\ Present(db', w)) => db'[v].port # db'[w].port
  <2>1. CASE db' = db
    BY <2>1 DEF TypeOK
  <2>2. CASE db' = [db EXCEPT ![u] = new] /\ Present(db, u) /\ ~Taken(new.port, u)
    <3>1. new \in Rows
      BY <1>5, <2>2
    <3> QED BY <1>1, <2>2, <3>1 DEF TypeOK, Table, Taken, Present
  <2> QED BY <1>2, <2>1, <2>2
<1>7. TypeOK'
  BY <1>1, <1>4, <1>6 DEF TypeOK
<1>8. HandlerFits'
  <2>1. pc'[r] = "emitUpdate" => existing'[r] \in Rows
    BY <1>1, <1>2, <1>4
  <2> QED BY <1>1, <1>4, <2>1 DEF SyncInv, HandlerFits
<1>9. ASSUME "concurrent" \notin faults
      PROVE  Busy = {r} /\ Pending = {} /\ (pc'[r] = "idle" => Pending' = {})
             /\ \A q \in Requests : pc'[q] \in {"idle", "emitUpdate"}
  <2>1. Busy = {r} /\ Pending = {}
    BY <1>1, <1>9, Alone DEF SyncInv, Emitting
  <2>2. \A q \in Requests : pc'[q] \in {"idle", "emitUpdate"} /\ (q # r => pc'[q] = "idle")
    BY <1>4, <2>1 DEF Busy
  <2> QED BY <1>4, <2>1, <2>2 DEF Pending, Emitting
<1>10. UpToDate'
  BY <1>1, <1>4, <1>9 DEF UpToDate
<1>11. UNCHANGED <<linkVars, creds, faults>>
  BY <1>1 DEF linkVars
<1>12. "concurrent" \notin faults => existing[r] = row /\ Present(db, u)
  BY <1>0, <1>1 DEF SyncInv, UpToDate, Present
<1>13. CASE db' = db /\ (Answer(r) \/ ~Present(db, u))
  <2>1. "concurrent" \notin faults => pc'[r] = "idle"
    BY <1>4, <1>12, <1>13
  <2> QED BY <1>1, <1>7, <1>8, <1>9, <1>10, <1>11, <1>13, <2>1, SilentInv DEF SyncInv
<1>14. CASE /\ pc' = [pc EXCEPT ![r] = "emitUpdate"] /\ UNCHANGED <<req, existing>>
            /\ db' = [db EXCEPT ![u] = new] /\ Present(db, u) /\ ~Taken(new.port, u)
  <2>1. PICK c : c = UpdateCommand(r)
    OBVIOUS
  <2>2. ASSUME "concurrent" \notin faults
        PROVE  /\ Pending' = {c} /\ c \in Upserts /\ c.user = u /\ c.port = new.port /\ c.val = new.val
               /\ c.old \in {None, row.port} /\ (new.port # row.port => c.old = row.port)
    <3>1. r \in Busy' /\ Emitting' = {r} /\ pc'[r] = "emitUpdate"
      BY <1>1, <1>4, <1>9, <1>14, <2>2 DEF TypeOK, Busy, Emitting
    <3>2. Command(r)' = c
      BY <1>14, <2>1, <3>1 DEF Command, UpdateCommand, User, Moves
    <3>3. Pending' = {c}
      BY <3>1, <3>2 DEF Pending
    <3>4. existing[r] = row /\ row \in Rows /\ new \in Rows
      BY <1>5, <1>12, <1>14, <2>2
    <3> QED BY <1>0, <1>1, <2>1, <3>3, <3>4 DEF UpdateCommand, Moves, Given, Upserts, Rows, Params
  <2>3. "concurrent" \notin faults => c \in Serving(u, new)
    BY <2>2 DEF Serving, Gives, Messages, Upserts
  <2>4. "concurrent" \notin faults => \A v \in Users, w \in Rows : v # u /\ db[v] = w => c \notin Spoiling(v, w)
    <3> SUFFICES ASSUME "concurrent" \notin faults, NEW v \in Users, NEW w \in Rows, v # u, db[v] = w
                 PROVE  c \notin Spoiling(v, w)
      OBVIOUS
    <3>1. Present(db, v) /\ w.port \in Ports
      BY DEF Present, Rows
    <3>2. w.port # row.port
      BY <1>0, <1>1, <1>14, <3>1 DEF TypeOK
    <3>3. w.port # None
      BY <3>1
    <3> QED BY <2>2, <3>2, <3>3 DEF Spoiling, Releases, Gives, Upserts
  <2>5. "concurrent" \notin faults => \A v \in Users, p \in Ports : ~Wanted(v, p)' => c \notin Giving(v, p)
    <3>1. Wanted(u, new.port)'
      BY <1>1, <1>5, <1>14 DEF Wanted, Present, TypeOK, Table
    <3> QED BY <2>2, <3>1 DEF Giving, Gives, Upserts
  <2>6. "concurrent" \notin faults => \A p \in Ports : Wanted(u, p) /\ ~Wanted(u, p)' => c \in Freeing(p)
    <3> SUFFICES ASSUME "concurrent" \notin faults, NEW p \in Ports, Wanted(u, p), ~Wanted(u, p)'
                 PROVE  c \in Freeing(p)
      OBVIOUS
    <3>1. row.port = p /\ new.port # p
      BY <1>0, <1>1, <1>5, <1>14 DEF Wanted, Present, TypeOK, Table
    <3> QED BY <2>2, <3>1 DEF Freeing, Releases, Messages, Upserts
  <2>7. "concurrent" \notin faults =>
            /\ Pending = {}
            /\ \E x \in Upserts \cup Removals :
                 /\ Pending' = {x}
                 /\ new \in Rows => x \in Serving(u, new)
                 /\ \A v \in Users, w \in Rows : v # u /\ db[v] = w => x \notin Spoiling(v, w)
                 /\ \A v \in Users, p \in Ports : ~Wanted(v, p)' => x \notin Giving(v, p)
                 /\ \A p \in Ports : Wanted(u, p) /\ ~Wanted(u, p)' => x \in Freeing(p)
    BY <1>9, <2>2, <2>3, <2>4, <2>5, <2>6
  <2> QED BY <1>1, <1>7, <1>8, <1>10, <1>11, <1>14, <2>7, WrittenInv
<1> QED BY <1>2, <1>13, <1>14

LEMMA DelWriteInv ==
  ASSUME TypeOK, SyncInv, NEW r \in Requests, DelWrite(r)
  PROVE  IInv'
<1>0. PICK u : u = User(r)
  OBVIOUS
<1>1. /\ UNCHANGED <<bus, wire, link, queries, creds, faults>> /\ fresh' = FALSE
      /\ pc[r] = "delWrite" /\ r \in Busy /\ req[r] \in Params /\ u \in Users /\ existing[r] \in Rows
      /\ pc' = [pc EXCEPT ![r] = "emitRemove"] /\ UNCHANGED <<req, existing>>
      /\ db' = [db EXCEPT ![u] = Gone]
  <2>1. /\ UNCHANGED <<bus, wire, link, queries, creds, fresh, faults>>
        /\ pc[r] = "delWrite" /\ r \in Busy /\ req[r] \in Params
        /\ pc' = [pc EXCEPT ![r] = "emitRemove"] /\ UNCHANGED <<req, existing>>
        /\ db' = [db EXCEPT ![u] = Gone]
    BY <1>0 DEF DelWrite, Quietly, Continue, Goto, linkVars, Busy, TypeOK
  <2> QED BY <1>0, <2>1 DEF Params, User, TypeOK, SyncInv, HandlerFits, FreshExact
<1>2. "emitRemove" \in Labels \ {"idle"}
  BY DEF Labels
<1>3. /\ pc' \in [Requests -> Labels] /\ req' \in [Requests -> Params \cup {None}]
      /\ existing' \in [Requests -> Rows \cup {NoRow}]
      /\ \A q \in Requests : pc'[q] # "idle" => req'[q] \in Params /\ req'[q] = req[q]
      /\ \A q \in Requests : q # r => pc'[q] = pc[q] /\ req'[q] = req[q] /\ existing'[q] = existing[q]
      /\ Busy' \subseteq Busy /\ pc'[r] = "emitRemove"
  <2>1. pc'[r] = "emitRemove"
    BY <1>1 DEF TypeOK
  <2> QED BY <1>1, <1>2, <2>1, StepTypes
<1>4. db' \in Table /\ \A v, w \in Users :
        (v # w /\ Present(db', v) /\ Present(db', w)) => db'[v].port # db'[w].port
  BY <1>1 DEF TypeOK, Table, Present
<1>5. TypeOK'
  BY <1>1, <1>3, <1>4 DEF TypeOK
<1>6. HandlerFits'
  BY <1>1, <1>3 DEF SyncInv, HandlerFits
<1>7. ASSUME "concurrent" \notin faults
      PROVE  Pending = {} /\ Busy = {r} /\ \A q \in Requests : q # r => pc'[q] = "idle"
  <2>1. Busy = {r} /\ Pending = {}
    BY <1>1, <1>7, Alone DEF SyncInv, Emitting
  <2> QED BY <1>3, <2>1 DEF Busy
<1>8. UpToDate'
  <2> SUFFICES ASSUME "concurrent" \notin faults
               PROVE  /\ \A q, s \in Busy' : q = s
                      /\ \A q \in Requests : pc'[q] \in {"idle", "emitRemove"}
    BY <1>1 DEF UpToDate
  <2> QED BY <1>3, <1>7
<1>9. UNCHANGED <<linkVars, creds, faults>>
  BY <1>1 DEF linkVars
<1>10. PICK c : c = [type |-> "remove", user |-> u, port |-> existing[r].port]
  OBVIOUS
<1>11. c \in Removals
  BY <1>1, <1>10 DEF Removals, Rows
<1>12. ASSUME "concurrent" \notin faults
       PROVE  Pending' = {c} /\ existing[r] = db[u] /\ Present(db, u)
  <2>1. Emitting' = {r}
    BY <1>1, <1>3, <1>7, <1>12 DEF Emitting
  <2>2. Command(r)' = c
    BY <1>0, <1>1, <1>3, <1>10 DEF Command, User
  <2> QED BY <1>0, <1>1, <1>12, <2>1, <2>2 DEF Pending, SyncInv, UpToDate, Present
<1>13. "concurrent" \notin faults => \A v \in Users, w \in Rows : v # u /\ db[v] = w => c \notin Spoiling(v, w)
  <2> SUFFICES ASSUME "concurrent" \notin faults, NEW v \in Users, NEW w \in Rows, v # u, db[v] = w
               PROVE  c \notin Spoiling(v, w)
    OBVIOUS
  <2>1. w.port # existing[r].port
    BY <1>1, <1>12 DEF TypeOK, Present
  <2> QED BY <1>10, <2>1 DEF Spoiling, Releases, Gives
<1>14. \A v \in Users, p \in Ports : c \notin Giving(v, p)
  BY <1>10 DEF Giving, Gives
<1>15. "concurrent" \notin faults => \A p \in Ports : Wanted(u, p) => c \in Freeing(p)
  BY <1>10, <1>11, <1>12 DEF Wanted, Freeing, Releases, Messages
<1>16. Gone \notin Rows
  OBVIOUS
<1>17. "concurrent" \notin faults =>
            /\ Pending = {}
            /\ \E x \in Upserts \cup Removals :
                 /\ Pending' = {x}
                 /\ Gone \in Rows => x \in Serving(u, Gone)
                 /\ \A v \in Users, w \in Rows : v # u /\ db[v] = w => x \notin Spoiling(v, w)
                 /\ \A v \in Users, p \in Ports : ~Wanted(v, p)' => x \notin Giving(v, p)
                 /\ \A p \in Ports : Wanted(u, p) /\ ~Wanted(u, p)' => x \in Freeing(p)
  BY <1>7, <1>11, <1>12, <1>13, <1>14, <1>15, <1>16
<1> QED BY <1>1, <1>5, <1>6, <1>8, <1>9, <1>17, WrittenInv

\* Publish, and answer.
LEMMA EmitInv ==
  ASSUME TypeOK, SyncInv, NEW r \in Requests, Emit(r)
  PROVE  IInv'
<1>0. PICK x : x = Command(r)
  OBVIOUS
<1>1. /\ UNCHANGED <<db, wire, link, queries, creds, faults>> /\ fresh' = FALSE
      /\ r \in Emitting /\ r \in Busy /\ Answer(r) /\ bus' = Append(bus, x)
      /\ x \in Upserts \cup Removals
  <2>1. /\ UNCHANGED <<db, wire, link, queries, creds, fresh, faults>>
        /\ r \in Emitting /\ r \in Busy /\ Answer(r) /\ bus' = Append(bus, x)
    BY <1>0 DEF Emit, Emitting, Busy
  <2> QED BY <1>0, <2>1, CommandOf DEF SyncInv, TypeOK, FreshExact
<1>2. /\ pc' \in [Requests -> Labels] /\ req' \in [Requests -> Params \cup {None}]
      /\ existing' \in [Requests -> Rows \cup {NoRow}]
      /\ \A q \in Requests : pc'[q] # "idle" => req'[q] \in Params /\ req'[q] = req[q]
      /\ \A q \in Requests : q # r => pc'[q] = pc[q] /\ req'[q] = req[q] /\ existing'[q] = existing[q]
      /\ Busy' = Busy \ {r} /\ pc'[r] = "idle"
  <2>1. "emitAdd" \in Labels \ {"idle"}
    BY DEF Labels
  <2> QED BY <1>1, <2>1, StepTypes
<1>3. TypeOK'
  <2>1. bus' \in Seq(Upserts \cup Removals)
    BY <1>1, AppendShift DEF TypeOK
  <2> QED BY <1>1, <1>2, <2>1 DEF TypeOK, Present
<1>4. HandlerFits'
  BY <1>2 DEF SyncInv, HandlerFits
<1>5. ASSUME "concurrent" \notin faults
      PROVE  Pending = {x} /\ Pending' = {} /\ Busy' = {} /\ \A q \in Requests : pc'[q] = "idle"
  <2>1. Busy = {r} /\ Pending = {x}
    BY <1>0, <1>1, <1>5, Alone DEF SyncInv
  <2>2. Busy' = {}
    BY <1>2, <2>1
  <2>3. \A q \in Requests : pc'[q] = "idle"
    BY <2>2 DEF Busy
  <2> QED BY <2>1, <2>2, <2>3 DEF Pending, Emitting
<1>6. UpToDate'
  BY <1>1, <1>5 DEF UpToDate
<1>7. RowsComing'
  <2> SUFFICES ASSUME faults \subseteq {"disconnect"}, NEW u \in Users, NEW row \in Rows, db[u] = row
               PROVE  /\ BusMended(Spoiling(u, row), Serving(u, row))'
                      /\ Synced =>
                           /\ WireMended(Spoiling(u, row), Serving(u, row))'
                           /\ creds[row.port][u] = row.val \/ WillMend(Serving(u, row))'
    BY <1>1 DEF RowsComing, Synced
  <2>1. Pending = {x} /\ Pending' = {}
    BY <1>5
  <2> QED BY <1>1, <2>1, PublishKeeps DEF SyncInv, RowsComing
<1>8. RestGoing'
  <2> SUFFICES ASSUME faults = {}
               PROVE  /\ link = "down" => wire = <<>> /\ creds = Nothing
                      /\ \A u \in Users, p \in Ports : ~Wanted(u, p) =>
                           /\ BusMended(Giving(u, p), Freeing(p))'
                           /\ WireMended(Giving(u, p), Freeing(p))'
                           /\ creds[p][u] # None => WillMend(Freeing(p))'
    BY <1>1 DEF RestGoing, Wanted
  <2>1. Pending = {x} /\ Pending' = {}
    BY <1>5
  <2> QED BY <1>1, <2>1, PublishKeeps DEF SyncInv, RestGoing
<1>9. SentAtOnce' /\ FreshExact'
  BY <1>1 DEF SyncInv, SentAtOnce, FreshExact, Synced
<1> QED BY <1>3, <1>4, <1>6, <1>7, <1>8, <1>9 DEF IInv, SyncInv

-----------------------------------------------------------------------------
\* The hub and the agent.

\* The requests stay where they are.
LEMMA RequestsStay ==
  ASSUME UNCHANGED <<hubVars, faults>>, HandlerFits, UpToDate
  PROVE  HandlerFits' /\ UpToDate' /\ Pending' = Pending /\ Busy' = Busy
BY DEF hubVars, HandlerFits, UpToDate, Pending, Emitting, Busy, Command, UpdateCommand, User, Moves

LEMMA DeliverInv ==
  ASSUME TypeOK, SyncInv, Deliver
  PROVE  IInv'
<1>1. /\ UNCHANGED <<db, pc, req, existing, link, queries, creds, fresh, faults>>
      /\ bus # <<>> /\ bus' = Tail(bus)
      /\ link \in {"down", "up"} /\ wire' = IF link # "down" THEN Append(wire, Head(bus)) ELSE wire
  BY DEF Deliver, Send, hubVars, TypeOK
<1>2. HandlerFits' /\ UpToDate' /\ Pending' = Pending
  BY RequestsStay DEF Deliver, SyncInv
<1>3. TypeOK'
  <2>1. bus' \in Seq(Upserts \cup Removals) /\ Head(bus) \in Upserts \cup Removals
    BY <1>1, TailShift DEF TypeOK
  <2>2. wire' \in Seq(Upserts \cup Removals \cup Syncs)
    BY <1>1, <2>1, AppendShift DEF TypeOK
  <2> QED BY <1>1, <2>1, <2>2 DEF TypeOK, Present
<1>4. RowsComing'
  <2> SUFFICES ASSUME faults \subseteq {"disconnect"}, NEW u \in Users, NEW row \in Rows, db[u] = row
               PROVE  /\ BusMended(Spoiling(u, row), Serving(u, row))'
                      /\ Synced =>
                           /\ WireMended(Spoiling(u, row), Serving(u, row))'
                           /\ creds[row.port][u] = row.val \/ WillMend(Serving(u, row))'
    BY <1>1 DEF RowsComing, Synced
  <2>1. Synced => link # "down"
    BY DEF Synced
  <2> QED BY <1>1, <1>2, <2>1, DeliveredKeeps DEF SyncInv, RowsComing
<1>5. RestGoing'
  <2> SUFFICES ASSUME faults = {}
               PROVE  /\ link = "down" => wire' = <<>> /\ creds = Nothing
                      /\ \A u \in Users, p \in Ports : ~Wanted(u, p) =>
                           /\ BusMended(Giving(u, p), Freeing(p))'
                           /\ WireMended(Giving(u, p), Freeing(p))'
                           /\ creds[p][u] # None => WillMend(Freeing(p))'
    BY <1>1 DEF RestGoing, Wanted
  <2>1. link = "down" => wire' = <<>> /\ creds = Nothing
    BY <1>1 DEF SyncInv, RestGoing
  <2>2. ASSUME NEW u \in Users, NEW p \in Ports, ~Wanted(u, p)
        PROVE  /\ BusMended(Giving(u, p), Freeing(p))'
               /\ WireMended(Giving(u, p), Freeing(p))'
               /\ creds[p][u] # None => WillMend(Freeing(p))'
    <3>1. CASE link # "down"
      BY <1>1, <1>2, <2>2, <3>1, DeliveredKeeps DEF SyncInv, RestGoing
    <3>2. CASE link = "down"
      <4>1. wire' = <<>> /\ creds[p][u] = None
        BY <2>1, <3>2 DEF Nothing
      <4>2. WireMended(Giving(u, p), Freeing(p))'
        BY <4>1 DEF WireMended
      <4> QED BY <1>1, <1>2, <2>2, <4>1, <4>2, DeliveredKeeps DEF SyncInv, RestGoing
    <3> QED BY <3>1, <3>2
  <2> QED BY <2>1, <2>2
<1>6. SentAtOnce' /\ FreshExact'
  BY <1>1 DEF SyncInv, SentAtOnce, FreshExact, Synced
<1> QED BY <1>2, <1>3, <1>4, <1>5, <1>6 DEF IInv, SyncInv

\* The agent connects, and the rows are asked for, or read: they are to be sent.
LEMMA ConnectInv ==
  ASSUME TypeOK, SyncInv, NEW q \in Queries, Connect(q) \/ ("syncrace" \in faults /\ SyncRead(q))
  PROVE  IInv'
<1>1. /\ UNCHANGED <<db, pc, req, existing, bus, wire, creds, fresh, faults>>
      /\ link' = "up" \/ link' = link
      /\ \/ queries' = [queries EXCEPT ![q] = Asked]
         \/ queries' = [queries EXCEPT ![q] = db] /\ "syncrace" \in faults
  BY DEF Connect, SyncRead, hubVars
<1>2. HandlerFits' /\ UpToDate' /\ Pending' = Pending /\ Busy' = Busy
  BY <1>1, RequestsStay DEF SyncInv, hubVars
<1>3. TypeOK'
  BY <1>1 DEF TypeOK, Present
<1>4. \A S, M : /\ BusMended(S, M)' <=> BusMended(S, M)
                /\ WireMended(S, M)' <=> WireMended(S, M)
                /\ WillMend(M)' <=> WillMend(M)
  BY <1>1, <1>2 DEF BusMended, WireMended, WillMend, BusMends
<1>5. ~Synced'
  BY <1>1 DEF TypeOK, Synced
<1>6. RowsComing'
  BY <1>1, <1>4, <1>5 DEF SyncInv, RowsComing
<1>7. RestGoing'
  BY <1>1, <1>4 DEF SyncInv, RestGoing, Wanted
<1>8. SentAtOnce'
  BY <1>1 DEF TypeOK, SyncInv, SentAtOnce
<1>9. FreshExact'
  BY <1>1, <1>2, <1>5 DEF TypeOK, SyncInv, FreshExact, Wanted, Present
<1> QED BY <1>2, <1>3, <1>6, <1>7, <1>8, <1>9 DEF IInv, SyncInv

\* SYNC_CONFIG is sent, with the rows as they are or, in a race, as they were;
\* or it is lost, as the agent is gone.
LEMMA SyncInvKept ==
  ASSUME TypeOK, SyncInv, NEW q \in Queries,
         ("syncrace" \notin faults /\ SyncAtOnce(q)) \/ ("syncrace" \in faults /\ SyncSend(q))
  PROVE  IInv'
<1>1. PICK x \in Syncs :
        /\ UNCHANGED <<db, pc, req, existing, bus, link, creds, fresh, faults>>
        /\ link \in {"down", "up"}
        /\ wire' = IF link = "up" THEN Append(wire, x) ELSE wire
        /\ queries' = [queries EXCEPT ![q] = None]
        /\ x.rows = db \/ ("syncrace" \in faults /\ queries[q] \in Table /\ x.rows = queries[q])
  BY DEF SyncAtOnce, SyncSend, Send, hubVars, TypeOK, Syncs
<1>2. HandlerFits' /\ UpToDate' /\ Pending' = Pending /\ Busy' = Busy
  BY <1>1, RequestsStay DEF SyncInv, hubVars
<1>3. x.type = "sync" /\ x \in Messages
  BY DEF Syncs, Messages
<1>4. TypeOK'
  <2>1. wire' \in Seq(Upserts \cup Removals \cup Syncs)
    BY <1>1, AppendShift DEF TypeOK
  <2> QED BY <1>1, <2>1 DEF TypeOK, Present
<1>5. SentAtOnce'
  BY <1>1 DEF TypeOK, SyncInv, SentAtOnce
<1>6. \A p \in Queries : queries'[p] \in {queries[p], None}
  BY <1>1 DEF TypeOK
<1>7. CASE link = "down"
  <2>1. ~Synced' /\ wire' = wire /\ link' = "down"
    BY <1>1, <1>7 DEF Synced
  <2>2. \A S, M : /\ BusMended(S, M)' <=> BusMended(S, M)
                  /\ WireMended(S, M)' <=> WireMended(S, M)
                  /\ WillMend(M)' <=> WillMend(M)
    BY <1>1, <1>2, <2>1 DEF BusMended, WireMended, WillMend, BusMends
  <2>3. RowsComing' /\ RestGoing'
    BY <1>1, <1>7, <2>1, <2>2 DEF SyncInv, RowsComing, RestGoing, Wanted
  <2>4. FreshExact'
    BY <1>1, <1>2, <1>6, <2>1 DEF SyncInv, FreshExact, Wanted, Present
  <2> QED BY <1>2, <1>4, <1>5, <2>3, <2>4 DEF IInv, SyncInv
<1>8. CASE link = "up"
  <2>0. wire' = Append(wire, x)
    BY <1>1, <1>8
  <2>1. RowsComing'
    <3> SUFFICES ASSUME faults \subseteq {"disconnect"}, NEW u \in Users, NEW row \in Rows, db[u] = row
                 PROVE  /\ BusMended(Spoiling(u, row), Serving(u, row))'
                        /\ WireMended(Spoiling(u, row), Serving(u, row))'
                        /\ WillMend(Serving(u, row))'
      BY <1>1 DEF RowsComing
    <3>1. x.rows[u] = row /\ row = [port |-> row.port, val |-> row.val]
      BY <1>1 DEF Rows
    <3>2. x \in Serving(u, row)
      BY <1>3, <3>1 DEF Serving, Gives
    <3> QED BY <1>1, <1>2, <2>0, <3>2, ServingIsClean, SentKeeps DEF SyncInv, RowsComing
  <2>2. RestGoing'
    <3> SUFFICES ASSUME faults = {}, NEW u \in Users, NEW p \in Ports, ~Wanted(u, p)
                 PROVE  /\ BusMended(Giving(u, p), Freeing(p))'
                        /\ WireMended(Giving(u, p), Freeing(p))'
                        /\ creds[p][u] # None => WillMend(Freeing(p))'
      BY <1>1, <1>8 DEF RestGoing, Wanted
    <3>1. x \notin Giving(u, p)
      <4> SUFFICES ASSUME NEW v \in Vals, db[u] = [port |-> p, val |-> v] PROVE FALSE
        BY <1>1, <1>3 DEF Giving, Gives
      <4>1. db[u] \in Rows /\ db[u].port = p
        BY DEF Rows
      <4> QED BY <4>1 DEF Wanted, Present
    <3> QED BY <1>1, <1>2, <2>0, <3>1, SentKeeps DEF SyncInv, RestGoing
  <2>3. FreshExact'
    <3> SUFFICES ASSUME fresh PROVE FreshExact'
      BY <1>1 DEF FreshExact
    <3>1. x.rows = db
      BY <1>1 DEF SyncInv, FreshExact
    <3>2. /\ Len(wire) \in Nat /\ Len(wire') = Len(wire) + 1 /\ wire'[Len(wire) + 1] = x
          /\ \A i \in 1..Len(wire) : wire'[i] = wire[i]
      BY <2>0, AppendShift DEF TypeOK
    <3>3. wire' # <<>> /\ \A i \in 1..Len(wire') : i \in 1..Len(wire) \/ i = Len(wire) + 1
      BY <3>2
    <3>4. \A i \in 1..Len(wire') : wire'[i].type = "sync" /\ wire'[i].rows = db
      BY <1>3, <3>1, <3>2, <3>3 DEF SyncInv, FreshExact
    <3> QED BY <1>1, <1>2, <1>6, <3>3, <3>4 DEF SyncInv, FreshExact, Wanted, Present
  <2> QED BY <1>2, <1>4, <1>5, <2>1, <2>2, <2>3 DEF IInv, SyncInv
<1> QED BY <1>1, <1>7, <1>8

\* Connections and processes are lost.
LEMMA LossInv ==
  ASSUME TypeOK, SyncInv, Disconnect \/ AgentRestart \/ HubRestart
  PROVE  IInv'
<1>1. /\ "disconnect" \in faults /\ UNCHANGED <<db, faults>>
      /\ link' = "down" /\ wire' = <<>>
      /\ queries' = queries \/ queries' = [q \in Queries |-> None]
  BY DEF Disconnect, AgentRestart, HubRestart, hubVars
<1>2. \/ /\ UNCHANGED <<hubVars, bus>>
         /\ \/ UNCHANGED <<creds, fresh>>
            \/ /\ creds' = Nothing /\ fresh' \in BOOLEAN
               /\ fresh' => Busy = {} /\ bus = <<>> /\ \A q \in Queries : queries[q] \in {None, Asked}
      \/ /\ pc' = [r \in Requests |-> "idle"] /\ req' = [r \in Requests |-> None]
         /\ existing' = [r \in Requests |-> NoRow] /\ bus' = <<>> /\ UNCHANGED <<creds, fresh>>
         /\ queries' = [q \in Queries |-> None]
  BY DEF Disconnect, AgentRestart, HubRestart
<1>3. TypeOK'
  <2>1. wire' \in Seq(Upserts \cup Removals \cup Syncs) /\ link' = "down"
          /\ queries' \in [Queries -> Table \cup {None, Asked}]
    BY <1>1 DEF TypeOK
  <2>2. creds' \in [Ports -> [Users -> Vals \cup {None}]]
    <3>1. Nothing \in [Ports -> [Users -> Vals \cup {None}]]
      BY DEF Nothing
    <3> QED BY <1>2, <3>1 DEF TypeOK
  <2>3. bus' \in Seq(Upserts \cup Removals)
    <3>1. bus' = <<>> \/ bus' = bus
      BY <1>2
    <3>2. bus \in Seq(Upserts \cup Removals) /\ <<>> \in Seq(Upserts \cup Removals)
      BY DEF TypeOK
    <3> QED BY <3>1, <3>2
  <2>4. fresh' \in BOOLEAN
    <3>1. fresh \in BOOLEAN
      BY DEF TypeOK
    <3> QED BY <1>2, <3>1, Zenon
  <2>5. /\ pc' \in [Requests -> Labels] /\ req' \in [Requests -> Params \cup {None}]
        /\ \A r \in Requests : pc'[r] # "idle" => req'[r] \in Params
        /\ existing' \in [Requests -> Rows \cup {NoRow}]
    BY <1>2 DEF TypeOK, hubVars, Labels
  <2> QED BY <1>1, <2>1, <2>2, <2>3, <2>4, <2>5 DEF TypeOK, Present
<1>4. /\ HandlerFits' /\ UpToDate'
      /\ Pending' = {} \/ Pending' = Pending
      /\ bus' = <<>> \/ (bus' = bus /\ Pending' = Pending)
      /\ fresh' => /\ Busy' = {} /\ bus' = <<>>
                   /\ \A q \in Queries : queries'[q] \in {None, Asked, db}
  <2>1. CASE UNCHANGED <<hubVars, bus>>
    <3>1. HandlerFits' /\ UpToDate' /\ Pending' = Pending /\ Busy' = Busy
      BY <1>1, <2>1, RequestsStay DEF SyncInv
    <3>2. fresh' => Busy = {} /\ bus = <<>> /\ \A q \in Queries : queries[q] \in {None, Asked, db}
      BY <1>2, <2>1 DEF SyncInv, FreshExact
    <3> QED BY <1>1, <2>1, <3>1, <3>2
  <2>2. CASE /\ pc' = [r \in Requests |-> "idle"] /\ bus' = <<>>
             /\ queries' = [q \in Queries |-> None]
    BY <1>1, <2>2 DEF HandlerFits, UpToDate, Pending, Emitting, Busy
  <2> QED BY <1>2, <2>1, <2>2
<1>5. RowsComing'
  <2> SUFFICES ASSUME faults \subseteq {"disconnect"}, NEW u \in Users, NEW row \in Rows, db[u] = row
               PROVE  BusMended(Spoiling(u, row), Serving(u, row))'
    BY <1>1 DEF RowsComing, Synced
  <2>1. BusMended(Spoiling(u, row), Serving(u, row))
    BY DEF SyncInv, RowsComing
  <2> QED BY <1>2, <1>4, <2>1 DEF BusMended
<1>6. RestGoing' /\ SentAtOnce'
  BY <1>1 DEF RestGoing, SyncInv, SentAtOnce
<1>7. FreshExact'
  <2> SUFFICES ASSUME fresh'
               PROVE  \A u \in Users, p \in Ports :
                        creds'[p][u] # None => Wanted(u, p) /\ creds'[p][u] = db[u].val
    BY <1>1, <1>4 DEF FreshExact, Synced, Wanted, Present
  <2>1. CASE creds' = Nothing
    BY <2>1 DEF Nothing
  <2>2. CASE UNCHANGED <<creds, fresh>>
    BY <2>2 DEF SyncInv, FreshExact
  <2> QED BY <1>2, <2>1, <2>2
<1> QED BY <1>3, <1>4, <1>5, <1>6, <1>7 DEF IInv, SyncInv

\* What a message does to the agent's table.
Applied(c, x) ==
    CASE x.type = "upsert" -> Upserted(c, x)
      [] x.type = "remove" -> Cleared(c, x.port)
      [] x.type = "sync"   -> Merged(c, x.rows)

Creds == [Ports -> [Users -> Vals \cup {None}]]

LEMMA AppliedRow ==
  ASSUME NEW c \in Creds, NEW x \in Messages
  PROVE  /\ Applied(c, x) \in Creds
         /\ \A u \in Users, p \in Ports : Applied(c, x)[p][u] # None =>
              x \in Giving(u, p) \/ (x \notin Freeing(p) /\ c[p][u] # None)
         /\ \A u \in Users, row \in Rows :
              /\ x \in Serving(u, row) => Applied(c, x)[row.port][u] = row.val
              /\ x \notin Spoiling(u, row) /\ c[row.port][u] = row.val
                   => Applied(c, x)[row.port][u] = row.val
<1> USE DEF Creds
<1>1. CASE x \in Removals
  <2>1. x.type = "remove" /\ x.port \in Ports /\ Applied(c, x) = Cleared(c, x.port)
    BY <1>1 DEF Removals, Applied
  <2>2. /\ Applied(c, x) \in Creds
        /\ \A u \in Users, p \in Ports : Applied(c, x)[p][u] = IF p = x.port THEN None ELSE c[p][u]
    BY <2>1 DEF Cleared
  <2>3. \A u \in Users, p \in Ports : Applied(c, x)[p][u] # None => x \notin Freeing(p) /\ c[p][u] # None
    BY <2>1, <2>2 DEF Freeing, Releases
  <2>4. ASSUME NEW u \in Users, NEW row \in Rows
        PROVE  x \notin Serving(u, row) /\ (x \notin Spoiling(u, row) => x.port # row.port)
    BY <2>1 DEF Serving, Spoiling, Gives, Releases
  <2> QED BY <2>2, <2>3, <2>4 DEF Rows
<1>2. CASE x \in Upserts
  <2>1. /\ x.type = "upsert" /\ x.user \in Users /\ x.port \in Ports /\ x.val \in Vals
        /\ x.old \in Ports \cup {None} /\ Applied(c, x) = Upserted(c, x)
    BY <1>2 DEF Upserts, Applied
  <2>2. /\ Applied(c, x) \in Creds
        /\ \A u \in Users, p \in Ports : Applied(c, x)[p][u] =
             IF p = x.port /\ u = x.user THEN x.val
             ELSE IF Releases(x, p) THEN None ELSE c[p][u]
    <3>1. CASE x.old \in {None, x.port}
      BY <2>1, <3>1 DEF Upserted, Releases
    <3>2. CASE x.old \notin {None, x.port}
      <4>1. Cleared(c, x.old) \in Creds
        BY <2>1, <3>2 DEF Cleared
      <4>2. \A u \in Users, p \in Ports : Cleared(c, x.old)[p][u] = IF p = x.old THEN None ELSE c[p][u]
        BY <2>1, <3>2 DEF Cleared
      <4>3. Applied(c, x) = [Cleared(c, x.old) EXCEPT ![x.port][x.user] = x.val]
        BY <2>1, <3>2 DEF Upserted
      <4>4. Applied(c, x) \in Creds
        BY <2>1, <4>1, <4>3
      <4>5. \A u \in Users, p \in Ports : Applied(c, x)[p][u] =
              IF p = x.port /\ u = x.user THEN x.val ELSE Cleared(c, x.old)[p][u]
        BY <2>1, <4>1, <4>3
      <4>6. \A p \in Ports : Releases(x, p) <=> p = x.old
        BY <2>1, <3>2 DEF Releases
      <4> QED BY <3>2, <4>2, <4>4, <4>5, <4>6
    <3> QED BY <3>1, <3>2
  <2>3. ASSUME NEW u \in Users, NEW p \in Ports, Applied(c, x)[p][u] # None
        PROVE  x \in Giving(u, p) \/ (x \notin Freeing(p) /\ c[p][u] # None)
    <3>1. CASE p = x.port /\ u = x.user
      BY <2>1, <3>1 DEF Giving, Gives
    <3>2. CASE ~(p = x.port /\ u = x.user)
      <4>1. ~Releases(x, p) /\ c[p][u] # None
        BY <2>2, <2>3, <3>2
      <4> QED BY <4>1 DEF Freeing
    <3> QED BY <3>1, <3>2
  <2>4. ASSUME NEW u \in Users, NEW row \in Rows
        PROVE  /\ x \in Serving(u, row) => Applied(c, x)[row.port][u] = row.val
               /\ x \notin Spoiling(u, row) /\ c[row.port][u] = row.val
                    => Applied(c, x)[row.port][u] = row.val
    <3>1. row.port \in Ports /\ row.val \in Vals
      BY DEF Rows
    <3>2. x \in Serving(u, row) => x.user = u /\ x.port = row.port /\ x.val = row.val
      BY <2>1 DEF Serving, Gives
    <3>3. x \notin Spoiling(u, row) =>
            /\ ~Releases(x, row.port)
            /\ x.user = u /\ x.port = row.port => x.val = row.val
      BY <2>1 DEF Spoiling, Gives
    <3> QED BY <2>2, <3>1, <3>2, <3>3
  <2> QED BY <2>2, <2>3, <2>4
<1>3. CASE x \in Syncs
  <2>1. x.type = "sync" /\ x.rows \in Table /\ Applied(c, x) = Merged(c, x.rows)
    BY <1>3 DEF Syncs, Applied
  <2>2. \A u \in Users : Present(x.rows, u) <=> x.rows[u] \in Rows
    BY <2>1 DEF Table, Present
  <2>3. /\ Applied(c, x) \in Creds
        /\ \A u \in Users, p \in Ports : Applied(c, x)[p][u] =
             IF Present(x.rows, u) /\ x.rows[u].port = p THEN x.rows[u].val ELSE c[p][u]
    BY <2>1, <2>2 DEF Merged, Rows
  <2>4. ASSUME NEW u \in Users, NEW p \in Ports, Applied(c, x)[p][u] # None
        PROVE  x \in Giving(u, p) \/ (x \notin Freeing(p) /\ c[p][u] # None)
    <3>1. CASE Present(x.rows, u) /\ x.rows[u].port = p
      <4>1. x.rows[u].val \in Vals /\ x.rows[u] = [port |-> p, val |-> x.rows[u].val]
        BY <2>2, <3>1 DEF Rows
      <4> QED BY <2>1, <4>1 DEF Giving, Gives
    <3>2. CASE ~(Present(x.rows, u) /\ x.rows[u].port = p)
      <4>1. c[p][u] # None
        BY <2>3, <2>4, <3>2
      <4>2. x \notin Freeing(p)
        BY <2>1 DEF Freeing, Releases
      <4> QED BY <4>1, <4>2
    <3> QED BY <3>1, <3>2
  <2>5. ASSUME NEW u \in Users, NEW row \in Rows
        PROVE  /\ x \in Serving(u, row) => Applied(c, x)[row.port][u] = row.val
               /\ x \notin Spoiling(u, row) /\ c[row.port][u] = row.val
                    => Applied(c, x)[row.port][u] = row.val
    <3>1. row.port \in Ports /\ row.val \in Vals /\ row = [port |-> row.port, val |-> row.val]
      BY DEF Rows
    <3>2. x \in Serving(u, row) => x.rows[u] = row
      BY <2>1, <3>1 DEF Serving, Gives
    <3>3. x \notin Spoiling(u, row) /\ Present(x.rows, u) /\ x.rows[u].port = row.port
            => x.rows[u].val = row.val
      <4> SUFFICES ASSUME Present(x.rows, u), x.rows[u].port = row.port, x.rows[u].val # row.val
                   PROVE  x \in Spoiling(u, row)
        OBVIOUS
      <4>1. x.rows[u].val \in Vals \ {row.val} /\ x.rows[u] = [port |-> row.port, val |-> x.rows[u].val]
        BY <2>2 DEF Rows
      <4> QED BY <2>1, <4>1 DEF Spoiling, Gives
    <3> QED BY <2>2, <2>3, <3>1, <3>2, <3>3
  <2> QED BY <2>3, <2>4, <2>5
<1> QED BY <1>1, <1>2, <1>3 DEF Messages

LEMMA ApplyInv ==
  ASSUME TypeOK, SyncInv, Apply
  PROVE  IInv'
<1>1. PICK x \in Messages :
        /\ UNCHANGED <<db, pc, req, existing, bus, link, queries, fresh, faults>>
        /\ wire # <<>> /\ wire' = Tail(wire) /\ x = Head(wire) /\ x = wire[1] /\ 1 \in 1..Len(wire)
        /\ creds' = Applied(creds, x)
  <2>1. Head(wire) \in Messages /\ Head(wire) = wire[1] /\ 1 \in 1..Len(wire)
    BY TailShift DEF Apply, TypeOK, Messages
  <2> QED BY <2>1 DEF Apply, Applied, hubVars
<1>2. HandlerFits' /\ UpToDate' /\ Pending' = Pending /\ Busy' = Busy
  BY <1>1, RequestsStay DEF SyncInv, hubVars
<1>3. /\ creds \in Creds /\ creds' \in Creds
      /\ \A u \in Users, p \in Ports : creds'[p][u] # None =>
              x \in Giving(u, p) \/ (x \notin Freeing(p) /\ creds[p][u] # None)
      /\ \A u \in Users, row \in Rows :
              /\ x \in Serving(u, row) => creds'[row.port][u] = row.val
              /\ x \notin Spoiling(u, row) /\ creds[row.port][u] = row.val
                   => creds'[row.port][u] = row.val
  <2>1. creds \in Creds
    BY DEF TypeOK, Creds
  <2> QED BY <1>1, <2>1, AppliedRow
<1>4. TypeOK'
  <2>1. wire' \in Seq(Upserts \cup Removals \cup Syncs)
    BY <1>1, TailShift DEF TypeOK
  <2> QED BY <1>1, <1>3, <2>1 DEF TypeOK, Present, Creds
<1>5. RowsComing'
  <2> SUFFICES ASSUME faults \subseteq {"disconnect"}, NEW u \in Users, NEW row \in Rows, db[u] = row
               PROVE  /\ BusMended(Spoiling(u, row), Serving(u, row))'
                      /\ Synced =>
                           /\ WireMended(Spoiling(u, row), Serving(u, row))'
                           /\ creds'[row.port][u] = row.val \/ WillMend(Serving(u, row))'
    BY <1>1 DEF RowsComing, Synced
  <2>1. /\ BusMended(Spoiling(u, row), Serving(u, row))
        /\ Synced =>
             /\ WireMended(Spoiling(u, row), Serving(u, row))
             /\ creds[row.port][u] = row.val \/ WillMend(Serving(u, row))
    BY DEF SyncInv, RowsComing
  <2> QED BY <1>1, <1>2, <1>3, <2>1, AppliedKeeps
<1>6. RestGoing'
  <2> SUFFICES ASSUME faults = {}
               PROVE  /\ link # "down"
                      /\ \A u \in Users, p \in Ports : ~Wanted(u, p) =>
                           /\ BusMended(Giving(u, p), Freeing(p))'
                           /\ WireMended(Giving(u, p), Freeing(p))'
                           /\ creds'[p][u] # None => WillMend(Freeing(p))'
    BY <1>1 DEF RestGoing, Wanted
  <2>1. link # "down"
    BY <1>1 DEF SyncInv, RestGoing
  <2>2. ASSUME NEW u \in Users, NEW p \in Ports, ~Wanted(u, p)
        PROVE  /\ BusMended(Giving(u, p), Freeing(p))'
               /\ WireMended(Giving(u, p), Freeing(p))'
               /\ creds'[p][u] # None => WillMend(Freeing(p))'
    BY <1>1, <1>2, <1>3, <2>2, AppliedKeeps DEF SyncInv, RestGoing
  <2> QED BY <2>1, <2>2
<1>7. SentAtOnce'
  BY <1>1 DEF SyncInv, SentAtOnce
<1>8. FreshExact'
  <2> SUFFICES ASSUME fresh PROVE FreshExact'
    BY <1>1 DEF FreshExact
  <2>1. x.type = "sync" /\ x.rows = db /\ creds' = Merged(creds, db)
    BY <1>1 DEF SyncInv, FreshExact, Applied
  <2>2. \A u \in Users, p \in Ports : creds'[p][u] = IF Wanted(u, p) THEN db[u].val ELSE creds[p][u]
    BY <2>1 DEF Merged, Wanted
  <2>3. \A u \in Users : Present(db, u) => db[u].port \in Ports
    BY DEF TypeOK, Table, Present, Rows
  <2>4. \A i \in 1..Len(wire') : wire'[i].type = "sync" /\ wire'[i].rows = db
    BY <1>1, TailShift DEF TypeOK, SyncInv, FreshExact
  <2>5. \A u \in Users, p \in Ports :
          creds'[p][u] # None => Wanted(u, p) /\ creds'[p][u] = db[u].val
    BY <2>2 DEF SyncInv, FreshExact
  <2>6. \A u \in Users : Present(db, u) => creds'[db[u].port][u] = db[u].val
    BY <2>2, <2>3 DEF Wanted
  <2> QED BY <1>1, <1>2, <2>4, <2>5, <2>6 DEF SyncInv, FreshExact, Wanted, Present, Served
<1> QED BY <1>2, <1>4, <1>5, <1>6, <1>7, <1>8 DEF IInv, SyncInv

-----------------------------------------------------------------------------
LEMMA InitIInv == Init => IInv
<1> SUFFICES ASSUME Init PROVE IInv
  OBVIOUS
<1>1. TypeOK
  BY DEF Init, TypeOK, Table, Labels, Nothing, Present
<1>2. Busy = {} /\ Pending = {} /\ \A u \in Users : ~Present(db, u)
  BY DEF Init, Busy, Pending, Emitting, Present
<1>3. HandlerFits /\ UpToDate /\ SentAtOnce
  BY <1>2 DEF Init, HandlerFits, UpToDate, SentAtOnce
<1>4. RowsComing
  BY DEF Init, RowsComing, Synced
<1>5. RestGoing
  BY <1>2 DEF Init, RestGoing, BusMended, WireMended, Nothing
<1>6. FreshExact
  BY <1>2 DEF Init, FreshExact, Synced, Nothing
<1> QED BY <1>1, <1>3, <1>4, <1>5, <1>6 DEF IInv, SyncInv

LEMMA NextIInv == IInv /\ [Next]_vars => IInv'
<1> SUFFICES ASSUME IInv, [Next]_vars PROVE IInv'
  OBVIOUS
<1>1. TypeOK /\ SyncInv
  BY DEF IInv
<1>2. CASE UNCHANGED vars
  <2>1. UNCHANGED <<db, pc, req, existing, bus, wire, link, queries, creds, fresh, faults>>
    BY <1>2 DEF vars, hubVars, linkVars
  <2>2. HandlerFits' /\ UpToDate' /\ Pending' = Pending /\ Busy' = Busy
    BY <1>1, <2>1, RequestsStay DEF SyncInv, hubVars
  <2>3. \A S, M : /\ BusMended(S, M)' <=> BusMended(S, M)
                  /\ WireMended(S, M)' <=> WireMended(S, M)
                  /\ WillMend(M)' <=> WillMend(M)
    BY <2>1, <2>2 DEF BusMended, WireMended, WillMend, BusMends
  <2>4. TypeOK'
    BY <1>1, <2>1 DEF TypeOK, Present
  <2>5. RowsComing' /\ RestGoing'
    BY <1>1, <2>1, <2>3 DEF SyncInv, RowsComing, Synced, RestGoing, Wanted
  <2>6. SentAtOnce' /\ FreshExact'
    BY <1>1, <2>1, <2>2 DEF SyncInv, SentAtOnce, FreshExact, Synced, Wanted, Present, Served
  <2> QED BY <2>2, <2>4, <2>5, <2>6 DEF IInv, SyncInv
<1>3. ASSUME NEW r \in Requests, Begin(r) \/ Handler(r)
      PROVE  IInv'
  BY <1>1, <1>3, BeginInv, LookInv, PostInsertInv, PutWriteInv, DelWriteInv, EmitInv DEF Handler
<1>4. CASE Deliver \/ Apply
  BY <1>1, <1>4, DeliverInv, ApplyInv
<1>6. ASSUME NEW q \in Queries, Connect(q) \/ Sync(q)
      PROVE  IInv'
  BY <1>1, <1>6, ConnectInv, SyncInvKept DEF Sync
<1>5. CASE Disconnect \/ AgentRestart \/ HubRestart
  BY <1>1, <1>5, LossInv
<1> QED BY <1>2, <1>3, <1>4, <1>5, <1>6 DEF Next

THEOREM Invariance == Spec => []IInv
BY InitIInv, NextIInv, PTL DEF Spec

\* The variables keep their types, and no two rows have one port.
THEOREM TypeCorrect == Spec => []TypeOK
<1>1. IInv => TypeOK
  BY DEF IInv
<1> QED BY <1>1, Invariance, PTL

\* socks5-users.routes.js, syncAgentConfig: with one request at a time, and
\* whatever is lost, a connected agent at rest serves every row.
THEOREM MissingCorrect == Spec => []NothingMissing
<1>1. IInv => NothingMissing
  <2> SUFFICES ASSUME IInv, faults \subseteq {"disconnect"}, Quiet, NEW u \in Users, Present(db, u)
               PROVE  Served(u)
    BY DEF NothingMissing
  <2>1. Pending = {} /\ bus = <<>> /\ wire = <<>> /\ Synced
    BY DEF Quiet, Busy, Pending, Emitting, Synced
  <2>2. db[u] \in Rows
    BY DEF IInv, TypeOK, Table, Present
  <2>3. \A M : ~WillMend(M)
    BY <2>1 DEF WillMend, BusMends
  <2> QED BY <2>1, <2>2, <2>3 DEF IInv, SyncInv, RowsComing, Served
<1> QED BY <1>1, Invariance, PTL

\* If moreover nothing is lost, it serves nothing else.
THEOREM LeftOverCorrect == Spec => []NothingLeftOver
<1>1. IInv => NothingLeftOver
  <2> SUFFICES ASSUME IInv, faults = {}, Quiet, NEW u \in Users, NEW p \in Ports, creds[p][u] # None
               PROVE  Wanted(u, p)
    BY DEF NothingLeftOver, Wanted
  <2>1. Pending = {} /\ bus = <<>> /\ wire = <<>>
    BY DEF Quiet, Busy, Pending, Emitting
  <2>2. ~WillMend(Freeing(p))
    BY <2>1 DEF WillMend, BusMends
  <2> QED BY <2>2 DEF IInv, SyncInv, RestGoing
<1> QED BY <1>1, Invariance, PTL

\* main.rs, syncAgentConfig: an agent started with no request, no command and no
\* rows already read under way serves, once connected, the rows and nothing else,
\* whatever happened before.
THEOREM RepairCorrect == Spec => []RestartRepairs
<1>1. IInv => RestartRepairs
  <2> SUFFICES ASSUME IInv, Quiet, fresh, NEW u \in Users, NEW p \in Ports
               PROVE  creds[p][u] = IF Wanted(u, p) THEN db[u].val ELSE None
    BY DEF RestartRepairs, Wanted
  <2> QED BY DEF IInv, SyncInv, FreshExact, Quiet, Synced, Wanted, Served
<1> QED BY <1>1, Invariance, PTL
=============================================================================
