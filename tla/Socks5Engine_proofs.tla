------------------------- MODULE Socks5Engine_proofs -------------------------
(***************************************************************************)
(* Proofs about the agent's SOCKS5 engine (agent/src/socks5/server.rs,     *)
(* auth.rs, the command handler of websocket.rs): for any numbers of       *)
(* users, ports and connections, however the tasks interleave and whenever *)
(* the agent dies, the engine mirrors the hub's rows between two commands, *)
(* no listener is orphaned, no slot is lost, and revoked credentials are   *)
(* refused.                                                                *)
(***************************************************************************)
EXTENDS Socks5Engine, FiniteSetTheorems, TLAPS

USE EngineAssumption

-----------------------------------------------------------------------------
\* The inductive invariant.

\* The hub gives a port to one user at a time.
PortsUnique ==
    \A u, v \in Users : Present(u) /\ Present(v) /\ db[u].port = db[v].port => u = v

Configuring == step \in {"old", "bind", "cred", "limit"}
Removing    == step \in {"forget", "unlimit", "unbind"}

\* No row has a port.
Unused(p, rows) == \A u \in Users : rows[u] \notin {NoRow, Gone} => rows[u].port # p

\* An entry is its user's row; the port it leaves is nobody's.
Fits(e, rows) ==
    /\ rows[e.user] \notin {NoRow, Gone}
    /\ e.port = rows[e.user].port /\ e.cred = rows[e.user].cred /\ e.max = rows[e.user].max
    /\ e.old \in {NoPort, e.port} \/ Unused(e.old, rows)

\* The commands that are carried out are those of the rows as they are.
TodoFits ==
    /\ Idle <=> todo = <<>>
    /\ Configuring => \A n \in 1..Len(todo) : Fits(todo[n], db)
    /\ Removing => db[Head(todo).user] = Gone /\ Unused(Head(todo).port, db)

\* The port the current command has yet to close.
Closing(p) ==
    \/ step = "old" /\ p = Head(todo).old
    \/ Removing /\ p = Head(todo).port

\* A port that has credentials, or whose user is about to get some, has an
\* entry, and a port that has an entry is a row's or about to be closed.
PortsKept ==
    /\ \A p \in Ports : socket[p] = "open" <=> listeners[p] = "live"
    /\ \A p \in Ports : listeners[p] # "none" => ~Free(p) \/ Closing(p)
    /\ \A p \in Ports, u \in Users : users[p][u] # NoCred => listeners[p] # "none"
    /\ step \in {"cred", "limit"} => listeners[Head(todo).port] # "none"

\* Where the current command has yet to replace or to remove a credential.
Settling(u, p) ==
    /\ step \in {"old", "bind", "cred", "forget"} /\ u = Head(todo).user
    /\ p = IF step = "old" THEN Head(todo).old ELSE Head(todo).port

CredsMirrored ==
    \A u \in Users, p \in Ports : users[p][u] # NoCred =>
        Settling(u, p) \/ (Present(u) /\ db[u].port = p /\ users[p][u] = db[u].cred)

\* A row has all it needs, unless the current command is about it.
RowsServed ==
    /\ \A u \in Users : Present(u) /\ u \notin failed /\ ~(Configuring /\ u = Head(todo).user) =>
         users[db[u].port][u] # NoCred /\ LimitOf(u) = db[u].max /\ listeners[db[u].port] # "none"
    /\ step = "limit" => users[Head(todo).port][Head(todo).user] # NoCred

EngineInv == PortsUnique /\ TodoFits /\ PortsKept /\ CredsMirrored /\ RowsServed

IInv == TypeOK /\ EngineInv /\ SlotAccounting

-----------------------------------------------------------------------------
\* The command, and the rows it is made of.

\* A user that is present has a row.
LEMMA PresentRow ==
  ASSUME TypeOK, NEW u \in Users
  PROVE  Present(u) <=> db[u] \in Rows
BY DEF TypeOK, Present

LEMMA EntryType ==
  ASSUME NEW u \in Users, NEW row \in Rows, NEW old \in Ports \cup {NoPort}
  PROVE  Entry(u, row, old) \in Entries
BY DEF Entry, Entries, Rows

\* The current entry of a command that is being carried out, and the rest.
LEMMA HeadFits ==
  ASSUME TypeOK, TodoFits, ~Idle
  PROVE  /\ Head(todo) \in Entries /\ Tail(todo) \in Seq(Entries)
         /\ Configuring => Fits(Head(todo), db)
         /\ Configuring => \A n \in 1..Len(Tail(todo)) : Fits(Tail(todo)[n], db)
         /\ Tail(todo) = <<>> <=> Len(todo) = 1
<1>1. todo \in Seq(Entries) /\ todo # <<>>
  BY DEF TypeOK, TodoFits
<1>2. /\ Head(todo) = todo[1] /\ Head(todo) \in Entries /\ Tail(todo) \in Seq(Entries)
      /\ Len(Tail(todo)) = Len(todo) - 1 /\ Len(todo) \in Nat /\ Len(todo) > 0
      /\ \A n \in 1..Len(Tail(todo)) : Tail(todo)[n] = todo[n + 1]
  BY <1>1
<1>3. 1 \in 1..Len(todo) /\ \A n \in 1..Len(Tail(todo)) : n + 1 \in 1..Len(todo)
  BY <1>2
<1>4. Tail(todo) = <<>> <=> Len(todo) = 1
  <2>1. Len(<<>>) = 0
    OBVIOUS
  <2>2. Tail(todo) = <<>> => Len(Tail(todo)) = 0
    BY <2>1, Zenon
  <2>3. \A s \in Seq(Entries) : Len(s) = 0 => s = <<>>
    OBVIOUS
  <2>4. Len(Tail(todo)) = 0 <=> Len(todo) = 1
    BY <1>2
  <2> QED BY <1>2, <2>2, <2>3, <2>4
<1> QED BY <1>2, <1>3, <1>4 DEF TodoFits

\* SYNC_CONFIG is an entry of every row, and nothing without any.
LEMMA SyncTodo ==
  ASSUME TypeOK, SyncConfig
  PROVE  /\ todo' \in Seq(Entries) /\ step' \in {"idle", "old"}
         /\ step' = "idle" <=> todo' = <<>>
         /\ \A n \in 1..Len(todo') :
              \E u \in Users : Present(u) /\ todo'[n] = Entry(u, db[u], NoPort)
<1> DEFINE P == {u \in Users : Present(u)}
<1>1. PICK us \in SetToSeqs(P) :
        /\ todo' = [n \in DOMAIN us |-> Entry(us[n], db[us[n]], NoPort)]
        /\ step' = IF us = <<>> THEN "idle" ELSE "old"
  BY DEF SyncConfig
<1>2. IsFiniteSet(P) /\ Cardinality(P) \in Nat
  BY FS_Subset, FS_CardinalityType
<1>3. us \in [1..Cardinality(P) -> P]
  BY <1>1 DEF SetToSeqs
<1> DEFINE N == Cardinality(P)
<1>4. \A n \in 1..N : us[n] \in Users /\ Present(us[n]) /\ db[us[n]] \in Rows
  BY <1>3, PresentRow
<1> HIDE DEF P, N
<1>5. /\ DOMAIN us = 1..N /\ N \in Nat
      /\ \A n \in 1..N : todo'[n] = Entry(us[n], db[us[n]], NoPort) /\ todo'[n] \in Entries
      /\ todo' = [n \in 1..N |-> Entry(us[n], db[us[n]], NoPort)]
  BY <1>1, <1>2, <1>3, <1>4, EntryType DEF N
<1>6. todo' \in [1..N -> Entries]
  BY <1>5
<1>7. todo' \in Seq(Entries) /\ Len(todo') = N
  BY <1>5, <1>6
<1>8. us \in Seq(Users) /\ Len(us) = N
  <2>1. us \in [1..N -> Users]
    BY <1>3, <1>4 DEF N
  <2> QED BY <1>5, <2>1
<1>9. us = <<>> <=> todo' = <<>>
  <2>1. us = <<>> <=> Len(us) = 0
    BY <1>8
  <2>2. todo' = <<>> <=> Len(todo') = 0
    BY <1>7
  <2> QED BY <1>7, <1>8, <2>1, <2>2
<1> QED BY <1>1, <1>4, <1>5, <1>7, <1>9

-----------------------------------------------------------------------------
\* Types.

\* remove_port.
LEMMA RemovePortType ==
  ASSUME TypeOK, NEW p \in Ports, RemovePort(p)
  PROVE  /\ listeners' \in [Ports -> {"none", "live", "dead"}]
         /\ socket' \in [Ports -> {"free", "open", "closing", "foreign"}]
         /\ users' \in [Ports -> [Users -> Creds \cup {NoCred}]]
BY DEF RemovePort, TypeOK

LEMMA HubType ==
  ASSUME TypeOK, Hub
  PROVE  TypeOK'
<1>1. PICK u \in Users, row \in Rows, old \in Ports \cup {NoPort} :
        /\ db' \in {[db EXCEPT ![u] = row], [db EXCEPT ![u] = Gone]}
        /\ todo' = <<Entry(u, row, old)>> /\ step' \in {"old", "forget"}
        /\ UNCHANGED <<listeners, users, limits, failed, reset, socket, count, connVars>>
  <2>1. ASSUME NEW u \in Users, Present(u)
        PROVE  db[u] \in Rows /\ db[u].port \in Ports
    BY <2>1, PresentRow DEF Rows
  <2> QED BY <2>1 DEF Hub, Create, Update, Delete
<1>2. <<Entry(u, row, old)>> \in Seq(Entries)
  BY EntryType
<1> QED BY <1>1, <1>2 DEF TypeOK, Steps, connVars

LEMMA SyncType ==
  ASSUME TypeOK, Sync \/ Restart
  PROVE  TypeOK'
<1>1. todo' \in Seq(Entries) /\ step' \in {"idle", "old"}
  BY SyncTodo DEF Sync, Restart
<1>2. CASE Sync
  BY <1>1, <1>2 DEF Sync, TypeOK, Steps, connVars
<1>3. CASE Restart
  BY <1>1, <1>3 DEF Restart, TypeOK, Steps, Stages
<1> QED BY <1>2, <1>3

LEMMA CommandType ==
  ASSUME TypeOK, TodoFits, CommandTask
  PROVE  TypeOK'
<1>1. ~Idle /\ <<>> \in Seq(Entries)
  BY DEF CommandTask, MoveOff, PortKnown, PortBound, BindFails, AddUser, SetLimit, RemoveUser, RemoveLimit,
     Unbind, Idle
<1> DEFINE e == Head(todo)
<1>2. /\ e.user \in Users /\ e.port \in Ports /\ e.cred \in Creds /\ e.max \in Limits
      /\ e.old \in Ports \cup {NoPort} /\ Tail(todo) \in Seq(Entries)
  BY <1>1, HeadFits DEF Entries
<1> HIDE DEF e
<1>3. CASE MoveOff
  <2>1. UNCHANGED <<listeners, socket, users>> \/ (e.old \in Ports /\ RemovePort(e.old))
    BY <1>2, <1>3 DEF MoveOff, e
  <2>2. /\ listeners' \in [Ports -> {"none", "live", "dead"}]
        /\ socket' \in [Ports -> {"free", "open", "closing", "foreign"}]
        /\ users' \in [Ports -> [Users -> Creds \cup {NoCred}]]
    BY <2>1, RemovePortType DEF TypeOK
  <2> QED BY <1>3, <2>2 DEF MoveOff, TypeOK, Steps, connVars
<1>4. CASE Unbind
  <2>1. /\ listeners' \in [Ports -> {"none", "live", "dead"}]
        /\ socket' \in [Ports -> {"free", "open", "closing", "foreign"}]
        /\ users' \in [Ports -> [Users -> Creds \cup {NoCred}]]
    BY <1>2, <1>4, RemovePortType DEF Unbind, e
  <2> QED BY <1>1, <1>4, <2>1 DEF Unbind, TypeOK, Steps, connVars
<1>5. CASE PortKnown \/ PortBound \/ BindFails
  BY <1>1, <1>2, <1>5 DEF PortKnown, PortBound, BindFails, TypeOK, Steps, connVars, e
<1>6. CASE AddUser \/ RemoveUser
  <2>1. PICK cred \in Creds \cup {NoCred} : users' = [users EXCEPT ![e.port][e.user] = cred]
    BY <1>2, <1>6 DEF AddUser, RemoveUser, e
  <2>2. users' \in [Ports -> [Users -> Creds \cup {NoCred}]]
    BY <1>2, <2>1 DEF TypeOK
  <2>3. UNCHANGED <<db, listeners, socket, limits, count, todo, failed, reset, stage, port, user>>
        /\ step' \in Steps
    BY <1>6 DEF AddUser, RemoveUser, Steps, connVars
  <2> QED BY <2>2, <2>3 DEF TypeOK
<1>7. CASE SetLimit
  <2>1. limits' \in [Users -> Limits \cup {0}] /\ failed' \subseteq Users /\ todo' \in Seq(Entries)
        /\ step' \in Steps
    BY <1>2, <1>7 DEF SetLimit, TypeOK, Steps, e
  <2> QED BY <1>7, <2>1 DEF SetLimit, TypeOK, connVars
<1>8. CASE RemoveLimit
  <2>1. /\ limits' = [limits EXCEPT ![e.user] = 0] /\ count' = [count EXCEPT ![e.user] = 0]
        /\ reset' \subseteq reset \cup {e.user}
    BY <1>8 DEF RemoveLimit, e
  <2>2. limits' \in [Users -> Limits \cup {0}] /\ count' \in [Users -> Nat] /\ reset' \subseteq Users
    BY <1>2, <2>1 DEF TypeOK
  <2>3. UNCHANGED <<db, listeners, socket, users, todo, failed, stage, port, user>> /\ step' \in Steps
    BY <1>8 DEF RemoveLimit, Steps, connVars
  <2> QED BY <2>2, <2>3 DEF TypeOK
<1> QED BY <1>3, <1>4, <1>5, <1>6, <1>7, <1>8 DEF CommandTask

\* Connections and other programs.
LEMMA TaskType ==
  ASSUME TypeOK,
         \/ \E p \in Ports : Host(p) \/ Stop(p) \/ \E c \in Conns : Accept(c, p)
         \/ \E c \in Conns : ConnectionTask(c)
  PROVE  TypeOK'
<1>1. CASE \E p \in Ports : Host(p) \/ Stop(p)
  BY <1>1 DEF Host, Stop, TypeOK, engineVars, connVars
<1>2. CASE \E p \in Ports, c \in Conns : Accept(c, p)
  BY <1>2 DEF Accept, TypeOK, engineVars, Stages
<1>3. ASSUME NEW c \in Conns, ConnectionTask(c)
      PROVE  TypeOK'
  <2>1. /\ UNCHANGED <<db, socket, port, engineVars>>
        /\ stage' \in [Conns -> Stages]
    BY <1>3 DEF ConnectionTask, Greet, Authenticate, Admit, Refuse, Request, Connected, End, Advance,
       TypeOK, Stages
  <2>2. user' \in [Conns -> Users]
    BY <1>3 DEF ConnectionTask, Greet, Authenticate, Admit, Refuse, Request, Connected, End, TypeOK
  <2>3. count' \in [Users -> Nat]
    <3>1. user[c] \in Users /\ count[user[c]] \in Nat
      BY DEF TypeOK
    <3>2. CASE count' = count
      BY <3>2 DEF TypeOK
    <3>3. CASE count' = [count EXCEPT ![user[c]] = @ + 1]
      BY <3>1, <3>3 DEF TypeOK
    <3>4. CASE count[user[c]] > 0 /\ count' = [count EXCEPT ![user[c]] = @ - 1]
      BY <3>1, <3>4 DEF TypeOK
    <3> QED BY <1>3, <3>2, <3>3, <3>4 DEF ConnectionTask, Greet, Authenticate, Admit, Refuse, Request,
          Connected, End, GivesBack
  <2> QED BY <2>1, <2>2, <2>3 DEF TypeOK, engineVars
<1> QED BY <1>1, <1>2, <1>3

-----------------------------------------------------------------------------
\* The engine and the hub's rows.

\* Between two commands everything is settled.
LEMMA IdleFacts ==
  ASSUME EngineInv, Idle
  PROVE  /\ todo = <<>>
         /\ \A u \in Users, p \in Ports : users[p][u] # NoCred =>
              Present(u) /\ db[u].port = p /\ users[p][u] = db[u].cred
         /\ \A u \in Users : Present(u) /\ u \notin failed =>
              /\ users[db[u].port][u] # NoCred /\ LimitOf(u) = db[u].max
              /\ listeners[db[u].port] # "none"
         /\ \A p \in Ports : listeners[p] # "none" => ~Free(p)
<1>1. ~Configuring /\ ~Removing /\ step \notin {"old", "bind", "cred", "forget"}
  BY DEF Idle, Configuring, Removing
<1>2. todo = <<>>
  BY DEF EngineInv, TodoFits
<1>3. \A u \in Users, p \in Ports : ~Settling(u, p)
  BY <1>1 DEF Settling
<1>4. \A u \in Users, p \in Ports : users[p][u] # NoCred =>
        Present(u) /\ db[u].port = p /\ users[p][u] = db[u].cred
  BY <1>3 DEF EngineInv, CredsMirrored
<1>5. \A u \in Users : Present(u) /\ u \notin failed =>
        /\ users[db[u].port][u] # NoCred /\ LimitOf(u) = db[u].max
        /\ listeners[db[u].port] # "none"
  BY <1>1 DEF EngineInv, RowsServed
<1>6. \A p \in Ports : listeners[p] # "none" => ~Free(p)
  <2>1. \A p \in Ports : ~Closing(p)
    BY <1>1 DEF Closing
  <2> QED BY <2>1 DEF EngineInv, PortsKept
<1> QED BY <1>2, <1>4, <1>5, <1>6

\* The hub creates a row, or changes one.
LEMMA WriteInv ==
  ASSUME TypeOK, EngineInv, NEW u \in Users, NEW row \in Rows, Create(u, row) \/ Update(u, row)
  PROVE  EngineInv'
<1>1. PICK old \in Ports \cup {NoPort}, e \in Entries :
        /\ e = Entry(u, row, old)
        /\ Present(u) => old = db[u].port
        /\ ~Present(u) => old = NoPort
        /\ Idle /\ step' = "old" /\ todo' = <<e>> /\ db' = [db EXCEPT ![u] = row]
        /\ UNCHANGED <<listeners, users, limits, failed, socket>>
        /\ Free(row.port) \/ (Present(u) /\ row.port = db[u].port)
  <2>1. CASE Create(u, row)
    <3>1. Entry(u, row, NoPort) \in Entries /\ ~Present(u)
      BY <2>1, EntryType DEF Create, Present
    <3> QED BY <2>1, <3>1 DEF Create, Idle
  <2>2. CASE Update(u, row)
    <3>1. Present(u) /\ db[u].port \in Ports
      BY <2>2, PresentRow DEF Update, Rows
    <3>2. Entry(u, row, db[u].port) \in Entries
      BY <3>1, EntryType
    <3> QED BY <2>2, <3>1, <3>2 DEF Update, Idle
  <2> QED BY <2>1, <2>2
<1>2. /\ e.user = u /\ e.port = row.port /\ e.cred = row.cred /\ e.max = row.max /\ e.old = old
      /\ Head(todo') = e /\ Len(todo') = 1 /\ todo'[1] = e /\ todo' # <<>>
  BY <1>1 DEF Entry
<1>3. Present(u) => old = db[u].port
  BY <1>1
<1>4. ~Present(u) => old = NoPort
  BY <1>1
<1>5. /\ db'[u] = row /\ \A v \in Users : v # u => db'[v] = db[v]
      /\ Present(u)' /\ \A v \in Users : v # u => (Present(v)' <=> Present(v))
  BY <1>1 DEF TypeOK, Present
<1>6. \A p \in Ports : Free(p)' <=> p # row.port /\ \A v \in Users : v # u /\ Present(v) => db[v].port # p
  BY <1>5 DEF Free
<1>7. PortsUnique'
  BY <1>1, <1>5 DEF PortsUnique, Free, EngineInv
<1>8. Configuring' /\ ~Removing' /\ ~Idle'
  BY <1>1 DEF Configuring, Removing, Idle
<1>9. TodoFits'
  <2>1. old \in {NoPort, row.port} \/ Unused(old, db')
    <3>1. CASE Present(u) /\ old # row.port
      <4>1. \A v \in Users : v # u /\ Present(v) => db[v].port # old
        BY <1>3, <3>1 DEF EngineInv, PortsUnique
      <4> QED BY <1>5, <3>1, <4>1 DEF Unused, Present
    <3> QED BY <1>4, <3>1
  <2>2. Fits(e, db')
    BY <1>2, <1>5, <2>1 DEF Fits, Present
  <2>3. \A n \in 1..Len(todo') : todo'[n] = e
    BY <1>2
  <2> QED BY <1>2, <1>8, <2>2, <2>3 DEF TodoFits
<1>10. PortsKept'
  <2>1. ASSUME NEW p \in Ports, listeners'[p] # "none"
        PROVE  ~Free(p)' \/ Closing(p)'
    <3>1. PICK v \in Users : Present(v) /\ db[v].port = p
      BY <1>1, <2>1, IdleFacts DEF Free
    <3>2. CASE v # u
      BY <1>6, <3>1, <3>2
    <3>3. CASE v = u
      BY <1>1, <1>2, <1>3, <3>1, <3>3 DEF Closing
    <3> QED BY <3>2, <3>3
  <2> QED BY <1>1, <2>1 DEF EngineInv, PortsKept
<1>11. CredsMirrored'
  <2> SUFFICES ASSUME NEW v \in Users, NEW p \in Ports, users[p][v] # NoCred
               PROVE  Settling(v, p)' \/ (Present(v)' /\ db'[v].port = p /\ users[p][v] = db'[v].cred)
    BY <1>1 DEF CredsMirrored
  <2>1. Present(v) /\ db[v].port = p /\ users[p][v] = db[v].cred
    BY <1>1, IdleFacts
  <2>2. CASE v = u
    BY <1>1, <1>2, <1>3, <2>1, <2>2 DEF Settling
  <2>3. CASE v # u
    BY <1>5, <2>1, <2>3
  <2> QED BY <2>2, <2>3
<1>12. RowsServed'
  <2>1. ASSUME NEW v \in Users, Present(v)', v \notin failed, v # u
        PROVE  /\ users[db'[v].port][v] # NoCred /\ LimitOf(v)' = db'[v].max
               /\ listeners[db'[v].port] # "none"
    BY <1>1, <1>5, <2>1, IdleFacts DEF LimitOf
  <2> QED BY <1>1, <1>2, <1>8, <2>1 DEF RowsServed
<1> QED BY <1>7, <1>9, <1>10, <1>11, <1>12 DEF EngineInv

\* The hub deletes a row.
LEMMA DeleteInv ==
  ASSUME TypeOK, EngineInv, NEW u \in Users, Delete(u)
  PROVE  EngineInv'
<1>1. PICK e : e = Entry(u, db[u], NoPort)
  OBVIOUS
<1>2. /\ Idle /\ step' = "forget" /\ todo' = <<e>> /\ db' = [db EXCEPT ![u] = Gone] /\ Present(u)
      /\ UNCHANGED <<listeners, users, limits, failed, socket>>
      /\ e.user = u /\ e.port = db[u].port /\ Head(todo') = e /\ todo' # <<>>
  BY <1>1 DEF Delete, Idle, Entry
<1>3. /\ db'[u] = Gone /\ \A v \in Users : v # u => db'[v] = db[v]
      /\ ~Present(u)' /\ \A v \in Users : v # u => (Present(v)' <=> Present(v))
  BY <1>2 DEF TypeOK, Present
<1>4. \A p \in Ports : Free(p)' <=> \A v \in Users : v # u /\ Present(v) => db[v].port # p
  BY <1>3 DEF Free
<1>5. ~Configuring' /\ Removing' /\ ~Idle'
  BY <1>2 DEF Configuring, Removing, Idle
<1>6. PortsUnique'
  BY <1>3 DEF PortsUnique, EngineInv
<1>7. TodoFits'
  <2>1. Unused(e.port, db')
    <3>1. \A v \in Users : v # u /\ Present(v) => db[v].port # e.port
      BY <1>2 DEF EngineInv, PortsUnique
    <3> QED BY <1>3, <3>1 DEF Unused, Present
  <2> QED BY <1>2, <1>3, <1>5, <2>1 DEF TodoFits
<1>8. PortsKept'
  <2>1. ASSUME NEW p \in Ports, listeners'[p] # "none"
        PROVE  ~Free(p)' \/ Closing(p)'
    <3>1. PICK v \in Users : Present(v) /\ db[v].port = p
      BY <1>2, <2>1, IdleFacts DEF Free
    <3>2. CASE v # u
      BY <1>4, <3>1, <3>2
    <3>3. CASE v = u
      BY <1>2, <1>5, <3>1, <3>3 DEF Closing
    <3> QED BY <3>2, <3>3
  <2> QED BY <1>2, <2>1 DEF EngineInv, PortsKept
<1>9. CredsMirrored'
  <2> SUFFICES ASSUME NEW v \in Users, NEW p \in Ports, users[p][v] # NoCred
               PROVE  Settling(v, p)' \/ (Present(v)' /\ db'[v].port = p /\ users[p][v] = db'[v].cred)
    BY <1>2 DEF CredsMirrored
  <2>1. Present(v) /\ db[v].port = p /\ users[p][v] = db[v].cred
    BY <1>2, IdleFacts
  <2>2. CASE v = u
    BY <1>2, <2>1, <2>2 DEF Settling
  <2>3. CASE v # u
    BY <1>3, <2>1, <2>3
  <2> QED BY <2>2, <2>3
<1>10. RowsServed'
  <2>1. ASSUME NEW v \in Users, Present(v)', v \notin failed
        PROVE  /\ users[db'[v].port][v] # NoCred /\ LimitOf(v)' = db'[v].max
               /\ listeners[db'[v].port] # "none"
    BY <1>2, <1>3, <2>1, IdleFacts DEF LimitOf
  <2> QED BY <1>2, <2>1 DEF RowsServed
<1> QED BY <1>6, <1>7, <1>8, <1>9, <1>10 DEF EngineInv

\* The agent is sent every row, with an engine as it was or an empty one.
LEMMA SyncInv ==
  ASSUME TypeOK, EngineInv, Sync \/ Restart
  PROVE  EngineInv'
<1>1. /\ db' = db /\ step' \in {"idle", "old"} /\ (step' = "idle" <=> todo' = <<>>)
      /\ \A n \in 1..Len(todo') : \E u \in Users : Present(u) /\ todo'[n] = Entry(u, db[u], NoPort)
  BY SyncTodo DEF Sync, Restart
<1>2. \A u \in Users : Present(u)' <=> Present(u)
  BY <1>1 DEF Present
<1>3. \A p \in Ports : Free(p)' <=> Free(p)
  BY <1>1, <1>2 DEF Free
<1>4. PortsUnique'
  BY <1>1, <1>2 DEF EngineInv, PortsUnique
<1>5. TodoFits'
  <2>1. ASSUME NEW n \in 1..Len(todo')
        PROVE  Fits(todo'[n], db')
    <3>1. PICK u \in Users : Present(u) /\ todo'[n] = Entry(u, db[u], NoPort)
      BY <1>1
    <3> QED BY <1>1, <3>1 DEF Fits, Entry, Present
  <2> QED BY <1>1, <2>1 DEF TodoFits, Idle, Removing
<1>6. CASE Sync
  <2>1. Idle /\ UNCHANGED <<listeners, socket, users, limits, failed>>
    BY <1>6 DEF Sync, Idle
  <2>2. PortsKept'
    BY <1>1, <1>3, <2>1, IdleFacts DEF EngineInv, PortsKept
  <2>3. CredsMirrored'
    BY <1>1, <1>2, <2>1, IdleFacts DEF CredsMirrored
  <2>4. RowsServed'
    BY <1>1, <1>2, <2>1, IdleFacts DEF RowsServed, LimitOf
  <2> QED BY <1>4, <1>5, <2>2, <2>3, <2>4 DEF EngineInv
<1>7. CASE Restart
  <2>1. /\ listeners' = [p \in Ports |-> "none"]
        /\ socket' = [p \in Ports |-> IF socket[p] = "foreign" THEN "foreign" ELSE "free"]
        /\ users' = [p \in Ports |-> [u \in Users |-> NoCred]]
        /\ failed' = {u \in Users : Present(u)}
    BY <1>7 DEF Restart
  <2>2. PortsKept'
    BY <1>1, <2>1 DEF PortsKept
  <2>3. CredsMirrored'
    BY <2>1 DEF CredsMirrored
  <2>4. RowsServed'
    BY <1>1, <1>2, <2>1 DEF RowsServed
  <2> QED BY <1>4, <1>5, <2>2, <2>3, <2>4 DEF EngineInv
<1> QED BY <1>6, <1>7

-----------------------------------------------------------------------------
\* The steps of the command task.

\* They leave the hub's rows alone.
LEMMA RowsStill ==
  ASSUME db' = db
  PROVE  /\ \A u \in Users : Present(u)' <=> Present(u)
         /\ \A p \in Ports : (Free(p)' <=> Free(p)) /\ (Free(p) <=> Unused(p, db))
         /\ PortsUnique => PortsUnique'
BY DEF Present, Free, Unused, PortsUnique

\* remove_port leaves nothing of a port and all of the others.
LEMMA RemovePortDoes ==
  ASSUME TypeOK, PortsKept, NEW p \in Ports, RemovePort(p)
  PROVE  /\ \A q \in Ports : socket'[q] = "open" <=> listeners'[q] = "live"
         /\ listeners'[p] = "none" /\ \A u \in Users : users'[p][u] = NoCred
         /\ \A q \in Ports : q # p => listeners'[q] = listeners[q] /\ users'[q] = users[q]
<1>1. /\ listeners' = [listeners EXCEPT ![p] = "none"]
      /\ socket' = IF listeners[p] = "live" THEN [socket EXCEPT ![p] = "closing"] ELSE socket
      /\ users' = IF listeners[p] # "none" THEN [users EXCEPT ![p] = [u \in Users |-> NoCred]] ELSE users
  BY DEF RemovePort
<1>2. \A q \in Ports : socket'[q] = "open" <=> listeners'[q] = "live"
  BY <1>1 DEF TypeOK, PortsKept
<1>3. listeners'[p] = "none" /\ \A q \in Ports : q # p => listeners'[q] = listeners[q] /\ users'[q] = users[q]
  BY <1>1 DEF TypeOK
<1>4. \A u \in Users : users'[p][u] = NoCred
  BY <1>1 DEF TypeOK, PortsKept
<1> QED BY <1>2, <1>3, <1>4

LEMMA MoveOffInv ==
  ASSUME TypeOK, EngineInv, MoveOff
  PROVE  EngineInv'
<1>1. PICK e \in Entries : e = Head(todo) /\ Fits(e, db)
  BY HeadFits DEF MoveOff, Idle, Configuring, EngineInv
<1>2. /\ step = "old" /\ step' = "bind" /\ todo' = todo /\ db' = db /\ UNCHANGED <<limits, failed>>
      /\ Head(todo') = e /\ e.port \in Ports /\ e.user \in Users
  BY <1>1 DEF MoveOff, Entries
<1>3. Configuring /\ Configuring' /\ ~Removing /\ ~Removing' /\ ~Idle /\ ~Idle'
  BY <1>2 DEF Configuring, Removing, Idle
<1>4. Present(e.user) /\ db[e.user].port = e.port
  BY <1>1 DEF Fits, Present
<1>5. TodoFits'
  BY <1>2, <1>3 DEF EngineInv, TodoFits
\* The port that is left has nothing any more; others are as they were.
<1>6. /\ \A q \in Ports : socket'[q] = "open" <=> listeners'[q] = "live"
      /\ \A q \in Ports, u \in Users : users'[q][u] # NoCred => listeners'[q] # "none"
      /\ \A q \in Ports : q = e.old /\ q # e.port => listeners'[q] = "none" /\ \A u \in Users : users'[q][u] = NoCred
      /\ \A q \in Ports : q # e.old \/ q = e.port => listeners'[q] = listeners[q] /\ users'[q] = users[q]
  <2>1. CASE e.old \in {NoPort, e.port}
    <3>1. UNCHANGED <<listeners, socket, users>>
      BY <1>1, <2>1 DEF MoveOff
    <3> QED BY <2>1, <3>1 DEF EngineInv, PortsKept
  <2>2. CASE e.old \notin {NoPort, e.port}
    <3>1. e.old \in Ports /\ RemovePort(e.old)
      BY <1>1, <2>2 DEF MoveOff, Entries
    <3>2. PortsKept
      BY DEF EngineInv
    <3>3. /\ \A q \in Ports : socket'[q] = "open" <=> listeners'[q] = "live"
          /\ listeners'[e.old] = "none" /\ \A u \in Users : users'[e.old][u] = NoCred
          /\ \A q \in Ports : q # e.old => listeners'[q] = listeners[q] /\ users'[q] = users[q]
      BY <3>1, <3>2, RemovePortDoes
    <3> QED BY <2>2, <3>2, <3>3 DEF PortsKept
  <2> QED BY <2>1, <2>2
<1>7. PortsKept'
  <2>1. ASSUME NEW p \in Ports, listeners'[p] # "none"
        PROVE  ~Free(p)
    <3>1. CASE p = e.old /\ p # e.port
      BY <1>6, <2>1, <3>1
    <3>2. CASE p = e.port
      BY <1>2, <1>4, <3>2 DEF Free
    <3>3. CASE p # e.old
      <4>1. listeners[p] # "none" /\ ~Closing(p)
        BY <1>1, <1>3, <1>6, <2>1, <3>3 DEF Closing
      <4> QED BY <4>1 DEF EngineInv, PortsKept
    <3> QED BY <3>1, <3>2, <3>3
  <2> QED BY <1>2, <1>6, <2>1, RowsStill DEF PortsKept
<1>8. CredsMirrored'
  <2> SUFFICES ASSUME NEW u \in Users, NEW p \in Ports, users'[p][u] # NoCred
               PROVE  Settling(u, p)' \/ (Present(u)' /\ db'[u].port = p /\ users'[p][u] = db'[u].cred)
    BY DEF CredsMirrored
  <2>1. (p # e.old \/ p = e.port) /\ users'[p][u] = users[p][u]
    BY <1>6
  <2>2. Settling(u, p) \/ (Present(u) /\ db[u].port = p /\ users[p][u] = db[u].cred)
    BY <2>1 DEF EngineInv, CredsMirrored
  <2>3. Settling(u, p) => Settling(u, p)'
    BY <1>1, <1>2, <2>1 DEF Settling
  <2> QED BY <1>2, <2>1, <2>2, <2>3, RowsStill
<1>9. RowsServed'
  <2> SUFFICES ASSUME NEW u \in Users, Present(u), u \notin failed, u # e.user
               PROVE  users'[db[u].port][u] # NoCred /\ LimitOf(u) = db[u].max /\ listeners'[db[u].port] # "none"
    BY <1>2, <1>3, RowsStill DEF RowsServed, LimitOf
  <2>1. /\ users[db[u].port][u] # NoCred /\ LimitOf(u) = db[u].max /\ listeners[db[u].port] # "none"
        /\ db[u].port \in Ports
    BY <1>1, PresentRow DEF EngineInv, RowsServed, Rows
  <2>2. db[u].port # e.old \/ e.old = e.port
    BY <1>1, <2>1 DEF Fits, Unused, Present
  <2> QED BY <1>6, <2>1, <2>2
<1> QED BY <1>2, <1>5, <1>7, <1>8, <1>9, RowsStill DEF EngineInv

LEMMA UnbindInv ==
  ASSUME TypeOK, EngineInv, Unbind
  PROVE  EngineInv'
<1>1. PICK p \in Ports : p = Head(todo).port /\ RemovePort(p) /\ Unused(p, db)
  BY HeadFits DEF Unbind, Idle, Removing, EngineInv, TodoFits, Entries
<1>2. /\ step = "unbind" /\ step' = "idle" /\ todo' = <<>> /\ db' = db /\ UNCHANGED <<limits, failed>>
  BY DEF Unbind
<1>3. ~Configuring /\ ~Configuring' /\ ~Removing' /\ Idle'
  BY <1>2 DEF Configuring, Removing, Idle
<1>4. PortsKept
  BY DEF EngineInv
<1>5. /\ \A q \in Ports : socket'[q] = "open" <=> listeners'[q] = "live"
      /\ listeners'[p] = "none" /\ \A u \in Users : users'[p][u] = NoCred
      /\ \A q \in Ports : q # p => listeners'[q] = listeners[q] /\ users'[q] = users[q]
  BY <1>1, <1>4, RemovePortDoes
<1>6. TodoFits'
  BY <1>2, <1>3 DEF TodoFits
<1>7. PortsKept'
  <2>1. ASSUME NEW q \in Ports, listeners'[q] # "none"
        PROVE  ~Free(q)
    <3>1. listeners[q] # "none" /\ ~Closing(q)
      BY <1>1, <1>2, <1>5, <2>1 DEF Closing, Removing
    <3> QED BY <1>4, <3>1 DEF PortsKept
  <2> QED BY <1>2, <1>4, <1>5, <2>1, RowsStill DEF PortsKept
<1>8. CredsMirrored'
  <2> SUFFICES ASSUME NEW u \in Users, NEW q \in Ports, users'[q][u] # NoCred
               PROVE  Present(u) /\ db[u].port = q /\ users'[q][u] = db[u].cred
    BY <1>2, RowsStill DEF CredsMirrored
  <2>1. users'[q][u] = users[q][u] /\ ~Settling(u, q)
    BY <1>2, <1>5 DEF Settling
  <2> QED BY <2>1 DEF EngineInv, CredsMirrored
<1>9. RowsServed'
  <2> SUFFICES ASSUME NEW u \in Users, Present(u), u \notin failed
               PROVE  users'[db[u].port][u] # NoCred /\ LimitOf(u) = db[u].max /\ listeners'[db[u].port] # "none"
    BY <1>2, <1>3, RowsStill DEF RowsServed, LimitOf
  <2>1. /\ users[db[u].port][u] # NoCred /\ LimitOf(u) = db[u].max /\ listeners[db[u].port] # "none"
        /\ db[u].port \in Ports
    BY <1>3, PresentRow DEF EngineInv, RowsServed, Rows
  <2>2. db[u].port # p
    BY <1>1 DEF Unused, Present
  <2> QED BY <1>5, <2>1, <2>2
<1> QED BY <1>2, <1>6, <1>7, <1>8, <1>9, RowsStill DEF EngineInv

\* add_port: the port has an entry already, is bound, or cannot be.
LEMMA BindInv ==
  ASSUME TypeOK, EngineInv, PortKnown \/ PortBound \/ BindFails
  PROVE  EngineInv'
<1>1. PICK e \in Entries : e = Head(todo) /\ Fits(e, db)
  BY HeadFits DEF PortKnown, PortBound, BindFails, Idle, Configuring, EngineInv
<1>2. step = "bind" /\ db' = db /\ UNCHANGED <<users, limits>> /\ e.port \in Ports /\ e.user \in Users
  BY <1>1 DEF PortKnown, PortBound, BindFails, Entries
<1>3. Configuring /\ ~Removing /\ ~Idle
  BY <1>2 DEF Configuring, Removing, Idle
<1>4. Present(e.user) /\ db[e.user].port = e.port
  BY <1>1 DEF Fits, Present
<1>5. /\ \A p \in Ports : listeners[p] # "none" => ~Free(p)
      /\ \A p \in Ports : socket[p] = "open" <=> listeners[p] = "live"
      /\ \A p \in Ports, u \in Users : users[p][u] # NoCred => listeners[p] # "none"
  <2>1. \A p \in Ports : ~Closing(p)
    BY <1>2, <1>3 DEF Closing
  <2> QED BY <2>1 DEF EngineInv, PortsKept
<1>6. ~Free(e.port)
  BY <1>2, <1>4 DEF Free
<1>7. CASE PortKnown \/ PortBound
  <2>1. /\ step' = "cred" /\ todo' = todo /\ failed' = failed /\ Head(todo') = e
        /\ listeners'[e.port] # "none"
        /\ \A p \in Ports : p # e.port => listeners'[p] = listeners[p]
        /\ \A p \in Ports : socket'[p] = "open" <=> listeners'[p] = "live"
    BY <1>1, <1>2, <1>5, <1>7 DEF PortKnown, PortBound, TypeOK
  <2>2. Configuring' /\ ~Removing' /\ ~Idle'
    BY <2>1 DEF Configuring, Removing, Idle
  <2>3. TodoFits'
    BY <1>2, <1>3, <2>1, <2>2 DEF EngineInv, TodoFits
  <2>4. PortsKept'
    <3>1. \A p \in Ports : listeners'[p] # "none" => ~Free(p)
      BY <1>5, <1>6, <2>1
    <3>2. \A p \in Ports, u \in Users : users'[p][u] # NoCred => listeners'[p] # "none"
      BY <1>2, <1>5, <2>1
    <3> QED BY <1>2, <2>1, <3>1, <3>2, RowsStill DEF PortsKept
  <2>5. CredsMirrored'
    <3>1. \A u \in Users, p \in Ports : Settling(u, p) => Settling(u, p)'
      BY <1>1, <1>2, <2>1 DEF Settling
    <3> QED BY <1>2, <3>1, RowsStill DEF EngineInv, CredsMirrored
  <2>6. RowsServed'
    <3> SUFFICES ASSUME NEW u \in Users, Present(u), u \notin failed, u # e.user
                 PROVE  users[db[u].port][u] # NoCred /\ LimitOf(u) = db[u].max /\ listeners'[db[u].port] # "none"
      BY <1>2, <2>1, <2>2, RowsStill DEF RowsServed, LimitOf
    <3>1. /\ users[db[u].port][u] # NoCred /\ LimitOf(u) = db[u].max /\ listeners[db[u].port] # "none"
          /\ db[u].port \in Ports
      BY <1>1, PresentRow DEF EngineInv, RowsServed, Rows
    <3> QED BY <2>1, <3>1
  <2> QED BY <1>2, <2>3, <2>4, <2>5, <2>6, RowsStill DEF EngineInv
<1>8. CASE BindFails
  <2>1. /\ step' = "idle" /\ todo' = <<>> /\ failed' = failed \cup {e.user} /\ socket' = socket
        /\ listeners[e.port] = "none" /\ listeners'[e.port] = "dead"
        /\ \A p \in Ports : p # e.port => listeners'[p] = listeners[p]
    BY <1>1, <1>2, <1>8 DEF BindFails, TypeOK
  <2>2. ~Configuring' /\ ~Removing' /\ Idle'
    BY <2>1 DEF Configuring, Removing, Idle
  <2>3. TodoFits'
    BY <2>1, <2>2 DEF TodoFits
  <2>4. PortsKept'
    <3>1. \A p \in Ports : listeners'[p] # "none" => ~Free(p)
      BY <1>5, <1>6, <2>1
    <3>2. \A p \in Ports, u \in Users : users'[p][u] # NoCred => listeners'[p] # "none"
      BY <1>2, <1>5, <2>1
    <3>3. \A p \in Ports : socket'[p] = "open" <=> listeners'[p] = "live"
      BY <1>5, <2>1
    <3> QED BY <1>2, <2>1, <3>1, <3>2, <3>3, RowsStill DEF PortsKept
  <2>5. CredsMirrored'
    <3>1. \A u \in Users, p \in Ports : users[p][u] # NoCred => ~Settling(u, p)
      BY <1>1, <1>2, <1>5, <2>1 DEF Settling
    <3> QED BY <1>2, <3>1, RowsStill DEF EngineInv, CredsMirrored
  <2>6. RowsServed'
    <3> SUFFICES ASSUME NEW u \in Users, Present(u), u \notin failed, u # e.user
                 PROVE  users[db[u].port][u] # NoCred /\ LimitOf(u) = db[u].max /\ listeners'[db[u].port] # "none"
      BY <1>2, <2>1, <2>2, RowsStill DEF RowsServed, LimitOf
    <3>1. /\ users[db[u].port][u] # NoCred /\ LimitOf(u) = db[u].max /\ listeners[db[u].port] # "none"
          /\ db[u].port \in Ports
      BY <1>1, PresentRow DEF EngineInv, RowsServed, Rows
    <3> QED BY <2>1, <3>1
  <2> QED BY <1>2, <2>3, <2>4, <2>5, <2>6, RowsStill DEF EngineInv
<1> QED BY <1>7, <1>8

LEMMA AddUserInv ==
  ASSUME TypeOK, EngineInv, AddUser
  PROVE  EngineInv'
<1>1. PICK e \in Entries : e = Head(todo) /\ Fits(e, db)
  BY HeadFits DEF AddUser, Idle, Configuring, EngineInv
<1>2. /\ step = "cred" /\ step' = "limit" /\ todo' = todo /\ Head(todo') = e /\ db' = db
      /\ UNCHANGED <<listeners, socket, limits, failed>>
      /\ e.port \in Ports /\ e.user \in Users /\ e.cred \in Creds
  BY <1>1 DEF AddUser, Entries
<1>3. Configuring /\ Configuring' /\ ~Removing /\ ~Removing' /\ ~Idle /\ ~Idle'
  BY <1>2 DEF Configuring, Removing, Idle
<1>4. Present(e.user) /\ db[e.user].port = e.port /\ db[e.user].cred = e.cred
  BY <1>1 DEF Fits, Present
<1>5. \A p \in Ports, u \in Users :
        users'[p][u] = IF p = e.port /\ u = e.user THEN e.cred ELSE users[p][u]
  <2>1. users' = [users EXCEPT ![e.port][e.user] = e.cred]
    BY <1>1 DEF AddUser
  <2> QED BY <1>2, <2>1 DEF TypeOK
<1>6. TodoFits'
  BY <1>2, <1>3 DEF EngineInv, TodoFits
<1>7. PortsKept'
  <2>1. listeners[e.port] # "none"
    BY <1>1, <1>2 DEF EngineInv, PortsKept
  <2>2. \A p \in Ports : listeners[p] # "none" => ~Free(p)
    BY <1>2, <1>3 DEF EngineInv, PortsKept, Closing
  <2>3. \A p \in Ports, u \in Users : users'[p][u] # NoCred => listeners[p] # "none"
    BY <1>5, <2>1 DEF EngineInv, PortsKept
  <2> QED BY <1>2, <2>1, <2>2, <2>3, RowsStill DEF EngineInv, PortsKept
<1>8. CredsMirrored'
  <2> SUFFICES ASSUME NEW u \in Users, NEW p \in Ports, users'[p][u] # NoCred
               PROVE  Present(u) /\ db[u].port = p /\ users'[p][u] = db[u].cred
    BY <1>2, RowsStill DEF CredsMirrored
  <2>1. CASE p = e.port /\ u = e.user
    BY <1>4, <1>5, <2>1
  <2>2. CASE ~(p = e.port /\ u = e.user)
    <3>1. users'[p][u] = users[p][u] /\ ~Settling(u, p)
      BY <1>1, <1>2, <1>5, <2>2 DEF Settling
    <3> QED BY <3>1 DEF EngineInv, CredsMirrored
  <2> QED BY <2>1, <2>2
<1>9. RowsServed'
  <2>1. users'[e.port][e.user] # NoCred
    BY <1>2, <1>5
  <2>2. ASSUME NEW u \in Users, Present(u), u \notin failed, u # e.user
        PROVE  users'[db[u].port][u] # NoCred /\ LimitOf(u) = db[u].max /\ listeners[db[u].port] # "none"
    <3>1. /\ users[db[u].port][u] # NoCred /\ LimitOf(u) = db[u].max /\ listeners[db[u].port] # "none"
          /\ db[u].port \in Ports
      BY <1>1, <2>2, PresentRow DEF EngineInv, RowsServed, Rows
    <3> QED BY <1>5, <2>2, <3>1
  <2> QED BY <1>2, <1>3, <2>1, <2>2, RowsStill DEF RowsServed, LimitOf
<1> QED BY <1>2, <1>6, <1>7, <1>8, <1>9, RowsStill DEF EngineInv

LEMMA SetLimitInv ==
  ASSUME TypeOK, EngineInv, SetLimit
  PROVE  EngineInv'
<1>1. PICK e \in Entries : /\ e = Head(todo) /\ Fits(e, db)
                           /\ \A n \in 1..Len(Tail(todo)) : Fits(Tail(todo)[n], db)
                           /\ Tail(todo) = <<>> <=> Len(todo) = 1
  BY HeadFits DEF SetLimit, Idle, Configuring, EngineInv
<1>2. /\ step = "limit" /\ todo' = Tail(todo) /\ db' = db /\ UNCHANGED <<listeners, socket, users>>
      /\ step' = IF Tail(todo) = <<>> THEN "idle" ELSE "old"
      /\ limits' = [limits EXCEPT ![e.user] = e.max] /\ failed' = failed \ {e.user}
      /\ e.port \in Ports /\ e.user \in Users /\ e.max \in Limits
  BY <1>1 DEF SetLimit, Entries
<1>3. Configuring /\ ~Removing /\ ~Removing' /\ ~Idle /\ step' \in {"idle", "old"}
  BY <1>2 DEF Configuring, Removing, Idle
<1>4. Present(e.user) /\ db[e.user].port = e.port /\ db[e.user].max = e.max
  BY <1>1 DEF Fits, Present
<1>5. TodoFits'
  BY <1>1, <1>2, <1>3 DEF TodoFits, Idle, Configuring
<1>6. PortsKept'
  <2>1. \A p \in Ports : listeners[p] # "none" => ~Free(p)
    BY <1>2, <1>3 DEF EngineInv, PortsKept, Closing
  <2> QED BY <1>2, <1>3, <2>1, RowsStill DEF EngineInv, PortsKept
<1>7. CredsMirrored'
  <2>1. \A u \in Users, p \in Ports : ~Settling(u, p)
    BY <1>2 DEF Settling
  <2> QED BY <1>2, <2>1, RowsStill DEF EngineInv, CredsMirrored
<1>8. RowsServed'
  <2>1. /\ limits'[e.user] = e.max /\ e.max # 0
        /\ \A u \in Users : u # e.user => limits'[u] = limits[u]
    BY <1>2 DEF TypeOK
  <2>2. /\ LimitOf(e.user)' = e.max
        /\ \A u \in Users : u # e.user => LimitOf(u)' = LimitOf(u)
    BY <2>1 DEF LimitOf
  <2>3. users[e.port][e.user] # NoCred /\ listeners[e.port] # "none"
    BY <1>1, <1>2 DEF EngineInv, RowsServed, PortsKept
  <2>4. ASSUME NEW u \in Users, Present(u), u \notin failed'
        PROVE  users[db[u].port][u] # NoCred /\ LimitOf(u)' = db[u].max /\ listeners[db[u].port] # "none"
    <3>1. CASE u = e.user
      BY <1>4, <2>2, <2>3, <3>1
    <3>2. CASE u # e.user
      <4>1. u \notin failed
        BY <1>2, <2>4, <3>2
      <4> QED BY <1>1, <2>2, <2>4, <3>2, <4>1 DEF EngineInv, RowsServed
    <3> QED BY <3>1, <3>2
  <2> QED BY <1>2, <1>3, <2>4, RowsStill DEF RowsServed
<1> QED BY <1>2, <1>5, <1>6, <1>7, <1>8, RowsStill DEF EngineInv

\* REMOVE_SOCKS5_USER.
LEMMA RemoveInv ==
  ASSUME TypeOK, EngineInv, RemoveUser \/ RemoveLimit
  PROVE  EngineInv'
<1>1. PICK e \in Entries : e = Head(todo) /\ db[e.user] = Gone
  BY HeadFits DEF RemoveUser, RemoveLimit, Idle, Removing, EngineInv, TodoFits
<1>2. /\ todo' = todo /\ Head(todo') = e /\ db' = db /\ UNCHANGED <<listeners, socket, failed>>
      /\ e.port \in Ports /\ e.user \in Users /\ ~Present(e.user)
      /\ step \in {"forget", "unlimit"} /\ step' \in {"unlimit", "unbind"}
  BY <1>1 DEF RemoveUser, RemoveLimit, Entries, Present
<1>3. ~Configuring /\ ~Configuring' /\ Removing /\ Removing' /\ ~Idle /\ ~Idle'
  BY <1>2 DEF Configuring, Removing, Idle
<1>4. \A p \in Ports, u \in Users :
        users'[p][u] = IF step = "forget" /\ p = e.port /\ u = e.user THEN NoCred ELSE users[p][u]
  <2>1. CASE RemoveUser
    <3>1. step = "forget" /\ users' = [users EXCEPT ![e.port][e.user] = NoCred]
      BY <1>1, <2>1 DEF RemoveUser
    <3> QED BY <1>2, <3>1 DEF TypeOK
  <2>2. CASE RemoveLimit
    BY <2>2 DEF RemoveLimit
  <2> QED BY <2>1, <2>2
<1>5. \A u \in Users : u # e.user => LimitOf(u)' = LimitOf(u)
  <2>1. CASE RemoveUser
    BY <2>1 DEF RemoveUser, LimitOf
  <2>2. CASE RemoveLimit
    BY <1>1, <1>2, <2>2 DEF RemoveLimit, LimitOf, TypeOK
  <2> QED BY <2>1, <2>2
<1>6. TodoFits'
  BY <1>2, <1>3 DEF EngineInv, TodoFits
<1>7. PortsKept'
  <2>1. \A p \in Ports : Closing(p) => Closing(p)'
    BY <1>1, <1>2, <1>3 DEF Closing
  <2>2. \A p \in Ports, u \in Users : users'[p][u] # NoCred => listeners[p] # "none"
    BY <1>4 DEF EngineInv, PortsKept
  <2> QED BY <1>2, <2>1, <2>2, RowsStill DEF EngineInv, PortsKept
<1>8. CredsMirrored'
  <2> SUFFICES ASSUME NEW u \in Users, NEW p \in Ports, users'[p][u] # NoCred
               PROVE  Present(u) /\ db[u].port = p /\ users'[p][u] = db[u].cred
    BY <1>2, RowsStill DEF CredsMirrored
  <2>1. users'[p][u] = users[p][u] /\ ~Settling(u, p)
    BY <1>1, <1>2, <1>4 DEF Settling
  <2> QED BY <2>1 DEF EngineInv, CredsMirrored
<1>9. RowsServed'
  <2> SUFFICES ASSUME NEW u \in Users, Present(u), u \notin failed
               PROVE  users'[db[u].port][u] # NoCred /\ LimitOf(u)' = db[u].max /\ listeners[db[u].port] # "none"
    BY <1>2, <1>3, RowsStill DEF RowsServed
  <2>1. /\ users[db[u].port][u] # NoCred /\ LimitOf(u) = db[u].max /\ listeners[db[u].port] # "none"
        /\ db[u].port \in Ports /\ u # e.user
    BY <1>2, <1>3, PresentRow DEF EngineInv, RowsServed, Rows
  <2> QED BY <1>4, <1>5, <2>1
<1> QED BY <1>2, <1>6, <1>7, <1>8, <1>9, RowsStill DEF EngineInv

\* Connections are no part of it, and other programs and listener tasks change
\* no socket that is open.
LEMMA EngineNext ==
  ASSUME TypeOK, EngineInv, [Next]_vars
  PROVE  EngineInv'
<1>1. CASE /\ UNCHANGED <<db, engineVars>>
           /\ \A p \in Ports : socket'[p] = "open" <=> socket[p] = "open"
  <2>1. UNCHANGED <<listeners, users, limits, step, todo, failed>>
    BY <1>1 DEF engineVars
  <2>2. PortsUnique' /\ TodoFits' /\ CredsMirrored'
    BY <1>1, <2>1, RowsStill DEF EngineInv, TodoFits, CredsMirrored, Settling, Idle, Configuring, Removing
  <2>3. PortsKept'
    BY <1>1, <2>1, RowsStill DEF EngineInv, PortsKept, Closing, Removing
  <2>4. RowsServed'
    BY <1>1, <2>1, RowsStill DEF EngineInv, RowsServed, LimitOf, Configuring
  <2> QED BY <2>2, <2>3, <2>4 DEF EngineInv
<1>2. CASE UNCHANGED vars
  BY <1>1, <1>2 DEF vars
<1>3. CASE Hub \/ Sync \/ Restart
  BY <1>3, WriteInv, DeleteInv, SyncInv DEF Hub
<1>4. CASE CommandTask
  BY <1>4, MoveOffInv, BindInv, AddUserInv, SetLimitInv, RemoveInv, UnbindInv DEF CommandTask
<1>5. CASE \E p \in Ports : Host(p) \/ Stop(p) \/ \E c \in Conns : Accept(c, p)
  <2>1. UNCHANGED <<db, engineVars>> /\ \A p \in Ports : socket'[p] = "open" <=> socket[p] = "open"
    BY <1>5 DEF Host, Stop, Accept, TypeOK
  <2> QED BY <1>1, <2>1
<1>6. CASE \E c \in Conns : ConnectionTask(c)
  <2>1. UNCHANGED <<db, engineVars, socket>>
    BY <1>6 DEF ConnectionTask, Greet, Authenticate, Admit, Refuse, Request, Connected, End
  <2> QED BY <1>1, <2>1
<1> QED BY <1>2, <1>3, <1>4, <1>5, <1>6 DEF Next

-----------------------------------------------------------------------------
\* The slots of the limiter.

LEMMA HoldersFinite ==
  ASSUME NEW u
  PROVE  IsFiniteSet(Holders(u)) /\ Cardinality(Holders(u)) \in Nat
BY FS_Subset, FS_CardinalityType DEF Holders

LEMMA SlotsNext ==
  ASSUME TypeOK, SlotAccounting, [Next]_vars, TodoFits
  PROVE  SlotAccounting'
<1>1. CASE UNCHANGED <<count, reset>> /\ \A u \in Users : Holders(u)' = Holders(u)
  BY <1>1 DEF SlotAccounting
<1>2. CASE UNCHANGED <<count, reset, stage, user>>
  BY <1>1, <1>2 DEF Holders
<1>3. CASE Restart
  <2>1. \A u \in Users : Holders(u)' = {} /\ count'[u] = 0
    BY <1>3 DEF Restart, Holders
  <2> QED BY <2>1, FS_EmptySet DEF SlotAccounting
<1>4. CASE RemoveLimit
  <2>1. PICK v \in Users : /\ count' = [count EXCEPT ![v] = 0]
                           /\ reset' = IF Holders(v) = {} THEN reset \ {v} ELSE reset \cup {v}
    <3>1. Head(todo).user \in Users
      BY <1>4, HeadFits DEF RemoveLimit, Idle, Entries
    <3> QED BY <1>4, <3>1 DEF RemoveLimit
  <2>2. \A u \in Users : Holders(u)' = Holders(u)
    BY <1>4 DEF RemoveLimit, connVars, Holders
  <2>3. ASSUME NEW u \in Users, u \notin reset'
        PROVE  count'[u] = Cardinality(Holders(u))
    <3>1. u # v => u \notin reset
      BY <2>1, <2>3
    <3>2. CASE u = v
      BY <2>1, <2>3, <3>2, FS_EmptySet DEF TypeOK
    <3>3. CASE u # v
      BY <2>1, <3>1, <3>3 DEF TypeOK, SlotAccounting
    <3> QED BY <3>2, <3>3
  <2> QED BY <2>2, <2>3 DEF SlotAccounting
\* Steps that neither take a slot nor give one back.
<1>5. ASSUME NEW c \in Conns,
             \/ Greet(c) \/ Refuse(c) \/ Request(c) \/ Connected(c)
             \/ \E p \in Ports : Accept(c, p)
             \/ \E u \in Users, pw \in Passwords : Authenticate(c, u, pw)
      PROVE  SlotAccounting'
  <2>1. UNCHANGED <<count, reset>>
    BY <1>5 DEF Greet, Refuse, Request, Connected, Accept, Authenticate, engineVars
  <2>2. \A d \in Conns : d # c => stage'[d] = stage[d] /\ user'[d] = user[d]
    BY <1>5 DEF Greet, Refuse, Request, Connected, Accept, Authenticate, Advance, TypeOK
  <2>3. \/ /\ {stage[c], stage'[c]} \cap {"request", "connect", "relay"} = {}
        \/ user'[c] = user[c] /\ {stage[c], stage'[c]} \subseteq {"request", "connect", "relay"}
    BY <1>5 DEF Greet, Refuse, Request, Connected, Accept, Authenticate, Advance, TypeOK
  <2> QED BY <1>1, <2>1, <2>2, <2>3 DEF Holders
<1>6. ASSUME NEW c \in Conns, Admit(c)
      PROVE  SlotAccounting'
  <2> DEFINE v == user[c]
  <2>1. /\ v \in Users /\ count[v] \in Nat /\ count' = [count EXCEPT ![v] = @ + 1]
        /\ stage[c] = "known" /\ stage' = [stage EXCEPT ![c] = "request"] /\ UNCHANGED <<user, reset>>
    BY <1>6 DEF Admit, Advance, engineVars, TypeOK
  <2>2. /\ Holders(v)' = Holders(v) \cup {c} /\ c \notin Holders(v)
        /\ \A u \in Users : u # v => Holders(u)' = Holders(u)
    BY <2>1 DEF Holders, TypeOK
  <2>3. Cardinality(Holders(v) \cup {c}) = Cardinality(Holders(v)) + 1
    BY <2>2, HoldersFinite, FS_AddElement
  <2> QED BY <2>1, <2>2, <2>3 DEF SlotAccounting, TypeOK
<1>7. ASSUME NEW c \in Conns, End(c)
      PROVE  SlotAccounting'
  <2> DEFINE v == user[c]
  <2>1. /\ v \in Users /\ count[v] \in Nat /\ stage' = [stage EXCEPT ![c] = "none"] /\ UNCHANGED <<user, reset>>
        /\ count' = IF GivesBack(c) THEN [count EXCEPT ![v] = @ - 1] ELSE count
    BY <1>7 DEF End, engineVars, TypeOK
  <2>2. /\ Holders(v)' = Holders(v) \ {c}
        /\ \A u \in Users : u # v => Holders(u)' = Holders(u)
    BY <2>1 DEF Holders, TypeOK
  <2>3. CASE c \notin Holders(v)
    BY <1>1, <2>1, <2>2, <2>3 DEF GivesBack
  <2>4. CASE c \in Holders(v)
    <3>1. Cardinality(Holders(v) \ {c}) = Cardinality(Holders(v)) - 1 /\ Cardinality(Holders(v)) \in Nat
      BY <2>4, HoldersFinite, FS_RemoveElement
    <3>2. Cardinality(Holders(v)) # 0
      BY <2>4, HoldersFinite, FS_EmptySet
    <3>3. v \notin reset => GivesBack(c)
      BY <2>1, <2>4, <3>1, <3>2 DEF GivesBack, SlotAccounting
    <3>4. v \notin reset => count'[v] = Cardinality(Holders(v)')
      BY <2>1, <2>2, <3>1, <3>3 DEF SlotAccounting, TypeOK
    <3>5. \A u \in Users : u # v => count'[u] = count[u]
      BY <2>1 DEF TypeOK
    <3> QED BY <2>1, <2>2, <3>4, <3>5 DEF SlotAccounting
  <2> QED BY <2>3, <2>4
<1>8. CASE CommandTask \/ Hub \/ Sync
  BY <1>2, <1>4, <1>8 DEF CommandTask, MoveOff, PortKnown, PortBound, BindFails, AddUser, SetLimit, RemoveUser,
     Unbind, Hub, Create, Update, Delete, Sync, connVars
<1>9. CASE (\E p \in Ports : Host(p) \/ Stop(p)) \/ UNCHANGED vars
  BY <1>2, <1>9 DEF Host, Stop, engineVars, connVars, vars
<1> QED BY <1>3, <1>5, <1>6, <1>7, <1>8, <1>9 DEF Next, ConnectionTask

-----------------------------------------------------------------------------
\* The invariant, and what it is for.

LEMMA InitIInv == Init => IInv
<1> SUFFICES ASSUME Init PROVE IInv
  OBVIOUS
<1>1. TypeOK
  BY DEF Init, TypeOK, Steps, Stages
<1>2. /\ Idle /\ ~Configuring /\ ~Removing /\ todo = <<>> /\ step = "idle"
      /\ \A u \in Users : ~Present(u)
  BY DEF Init, Idle, Configuring, Removing, Present
<1>3. /\ \A p \in Ports : socket[p] = "free" /\ listeners[p] = "none"
      /\ \A p \in Ports, u \in Users : users[p][u] = NoCred
  BY DEF Init
<1>4. EngineInv
  BY <1>2, <1>3 DEF EngineInv, PortsUnique, TodoFits, PortsKept, CredsMirrored, RowsServed
<1>5. SlotAccounting
  <2>1. \A u \in Users : Holders(u) = {} /\ count[u] = 0
    BY DEF Init, Holders
  <2> QED BY <2>1, FS_EmptySet DEF SlotAccounting
<1> QED BY <1>1, <1>4, <1>5 DEF IInv

LEMMA NextIInv == IInv /\ [Next]_vars => IInv'
<1> SUFFICES ASSUME IInv, [Next]_vars PROVE IInv'
  OBVIOUS
<1>1. TypeOK /\ EngineInv /\ SlotAccounting /\ TodoFits
  BY DEF IInv, EngineInv
<1>2. TypeOK'
  <2>1. CASE UNCHANGED vars
    BY <1>1, <2>1 DEF TypeOK, vars, engineVars, connVars
  <2> QED BY <1>1, <2>1, HubType, SyncType, CommandType, TaskType DEF Next
<1> QED BY <1>1, <1>2, EngineNext, SlotsNext DEF IInv

THEOREM Invariance == Spec => []IInv
BY InitIInv, NextIInv, PTL DEF Spec

\* The variables keep their types, for any users, ports and connections; among
\* them count, which no release takes below zero.
THEOREM TypeCorrect == Spec => []TypeOK
<1>1. IInv => TypeOK
  BY DEF IInv
<1> QED BY <1>1, Invariance, PTL

\* The command handler of websocket.rs: between two commands the engine is what
\* the hub's rows say, also after a bind that failed and after a restart.
THEOREM ConfigCorrect == Spec => []ConfigMirrored
<1>1. IInv => ConfigMirrored
  <2> SUFFICES ASSUME IInv, Idle, NEW u \in Users, NEW p \in Ports
               PROVE  LET here == Present(u) /\ db[u].port = p IN
                      /\ users[p][u] # NoCred => here /\ users[p][u] = db[u].cred
                      /\ here /\ u \notin failed =>
                           users[p][u] # NoCred /\ LimitOf(u) = db[u].max /\ listeners[p] # "none"
    BY DEF ConfigMirrored
  <2> QED BY IdleFacts DEF IInv
<1> QED BY <1>1, Invariance, PTL

\* add_port, remove_port: no listener is left running for a port no row has.
THEOREM ListenersCorrect == Spec => []NoOrphanListener
<1>1. IInv => NoOrphanListener
  <2> SUFFICES ASSUME IInv PROVE NoOrphanListener
    OBVIOUS
  <2>1. EngineInv
    BY DEF IInv
  <2> QED BY <2>1, IdleFacts DEF EngineInv, PortsKept, NoOrphanListener
<1> QED BY <1>1, Invariance, PTL

\* handle_connection, LimiterGuard: the slots counted for a user are those of
\* its connections, on every path out of the handler.
THEOREM SlotsCorrect == Spec => []SlotAccounting
<1>1. IInv => SlotAccounting
  BY DEF IInv
<1> QED BY <1>1, Invariance, PTL

\* authenticate, clear_port, add_user: between commands a login takes the port
\* and the password of an active row as it is, on every listener.
THEOREM RevocationCorrect == Spec => RevokedIsRefused
<1>1. IInv => \A c \in Conns, u \in Users, pw \in Passwords :
         Idle /\ Authenticate(c, u, pw) =>
            /\ Present(u) /\ db[u].port = port[c]
            /\ db[u].cred = [password |-> pw, active |-> TRUE]
  <2> SUFFICES ASSUME IInv, NEW c \in Conns, NEW u \in Users, NEW pw \in Passwords,
                      Idle, Authenticate(c, u, pw)
               PROVE  /\ Present(u) /\ db[u].port = port[c]
                      /\ db[u].cred = [password |-> pw, active |-> TRUE]
    OBVIOUS
  <2>1. TypeOK /\ EngineInv
    BY DEF IInv
  <2>2. port[c] \in Ports /\ users[port[c]][u] = [password |-> pw, active |-> TRUE]
    BY <2>1 DEF Authenticate, Accepts, TypeOK
  <2>3. users[port[c]][u] # NoCred
    <3>1. [password |-> pw, active |-> TRUE] \in Creds
      BY DEF Creds
    <3> QED BY <2>2, <3>1
  <2>4. Present(u) /\ db[u].port = port[c] /\ users[port[c]][u] = db[u].cred
    BY <2>1, <2>2, <2>3, IdleFacts
  <2> QED BY <2>2, <2>4
<1> QED BY <1>1, Invariance, PTL DEF Spec, RevokedIsRefused

-----------------------------------------------------------------------------
\* The refinement of SlotPool, whose `limit' and `stage' are these.
PoolLimit == [u \in Users |-> LimitOf(u)]

PoolStage == [c \in Conns |->
                 CASE stage[c] = "known" -> "asking"
                   [] stage[c] \in {"request", "connect", "relay"} -> "in"
                   [] OTHER -> "out"]

\* (The instance has its own copy of the operator.)
LEMMA PoolCardinality == \A S : Pool!Cardinality(S) = Cardinality(S)
BY DEF Pool!Cardinality, Cardinality

\* In the pool's terms a connection is in exactly while it holds a slot.
LEMMA PoolIn ==
  ASSUME TypeOK, NEW u
  PROVE  Pool!In(u) = Holders(u)
BY DEF Pool!In, Holders, TypeOK, Stages

\* A new process has a new pool: every user has the default of one slot.
LEMMA PoolInit == Init => Pool!Init
BY DEF Init, Pool!Init, LimitOf

\* What the counter says of a user, it says of the slots that are in use.
LEMMA PoolCounts ==
  ASSUME IInv, NEW c \in Conns
  PROVE  /\ user[c] \in Users
         /\ user[c] \in reset \/ count[user[c]] = Pool!Cardinality(Pool!In(user[c]))
         /\ PoolLimit[user[c]] = LimitOf(user[c])
BY PoolCardinality, PoolIn DEF IInv, TypeOK, SlotAccounting, PoolLimit

\* The hub, other programs, and what the command task does to the ports and the
\* credentials leave the pool alone.
LEMMA PoolStill ==
  ASSUME UNCHANGED <<limits, reset, stage, user>>
  PROVE  UNCHANGED Pool!poolVars
BY DEF Pool!poolVars, LimitOf

\* The command task changes the pool in two of its steps.
LEMMA PoolCommand ==
  ASSUME IInv, CommandTask
  PROVE  Pool!Next \/ UNCHANGED Pool!poolVars
<1>1. TypeOK /\ TodoFits
  BY DEF IInv, EngineInv
<1>2. ~Idle
  BY DEF CommandTask, MoveOff, PortKnown, PortBound, BindFails, AddUser, SetLimit, RemoveUser, RemoveLimit,
     Unbind, Idle
<1> DEFINE u == Head(todo).user
<1>3. u \in Users /\ Head(todo).max \in Limits
  BY <1>1, <1>2, HeadFits DEF Entries
<1>4. CASE SetLimit
  <2>1. limits' = [limits EXCEPT ![u] = Head(todo).max] /\ UNCHANGED <<reset, stage, user>>
    BY <1>4 DEF SetLimit, connVars
  <2>2. \A v \in Users : LimitOf(v)' = IF v = u THEN Head(todo).max ELSE LimitOf(v)
    BY <1>1, <1>3, <2>1 DEF LimitOf, TypeOK
  <2>3. PoolLimit' = [PoolLimit EXCEPT ![u] = Head(todo).max] /\ PoolStage' = PoolStage
    BY <2>1, <2>2 DEF PoolLimit, PoolStage
  <2>4. Pool!Configure(u)
    BY <1>3, <2>1, <2>3 DEF Pool!Configure, PoolLimit, PoolStage
  <2> QED BY <1>3, <2>4 DEF Pool!Next
<1>5. CASE RemoveLimit
  <2>1. /\ limits' = [limits EXCEPT ![u] = 0] /\ UNCHANGED <<stage, user>>
        /\ reset' = IF Holders(u) = {} THEN reset \ {u} ELSE reset \cup {u}
    BY <1>5 DEF RemoveLimit, connVars
  <2>2. \A v \in Users : LimitOf(v)' = IF v = u THEN 1 ELSE LimitOf(v)
    BY <1>1, <1>3, <2>1 DEF LimitOf, TypeOK
  <2>3. PoolLimit' = [PoolLimit EXCEPT ![u] = 1] /\ PoolStage' = PoolStage
    BY <2>1, <2>2 DEF PoolLimit, PoolStage
  <2>4. Pool!Forget(u)
    BY <1>1, <2>1, <2>3, PoolIn DEF Pool!Forget, PoolLimit, PoolStage
  <2> QED BY <1>3, <2>4 DEF Pool!Next
<1>6. CASE MoveOff \/ PortKnown \/ PortBound \/ BindFails \/ AddUser \/ RemoveUser \/ Unbind
  BY <1>6, PoolStill DEF MoveOff, PortKnown, PortBound, BindFails, AddUser, RemoveUser, Unbind, connVars
<1> QED BY <1>4, <1>5, <1>6 DEF CommandTask

\* A connection task asks with Authenticate, and is answered by Admit or Refuse.
LEMMA PoolConnection ==
  ASSUME IInv, NEW c \in Conns, ConnectionTask(c)
  PROVE  Pool!Next \/ UNCHANGED Pool!poolVars
<1>1. /\ stage \in [Conns -> Stages] /\ user \in [Conns -> Users]
      /\ UNCHANGED <<limits, reset>> /\ PoolLimit' = PoolLimit
  BY DEF IInv, TypeOK, ConnectionTask, Greet, Authenticate, Admit, Refuse, Request, Connected, End, engineVars,
     PoolLimit, LimitOf
\* What the pool sees of a stage.
<1> DEFINE At(s) == CASE s = "known" -> "asking"
                      [] s \in {"request", "connect", "relay"} -> "in"
                      [] OTHER -> "out"
<1>0. /\ At("known") = "asking" /\ At("request") = "in"
      /\ At("login") = "out" /\ At("none") = "out"
      /\ \A s : s # "known" => At(s) \in {"in", "out"}
  OBVIOUS
<1>2. /\ PoolStage[c] = At(stage[c])
      /\ \A to : stage' = [stage EXCEPT ![c] = to] => PoolStage' = [PoolStage EXCEPT ![c] = At(to)]
  BY <1>1 DEF PoolStage
<1> HIDE DEF At
<1>3. CASE Greet(c) \/ Request(c) \/ Connected(c)
  <2>1. PoolStage' = PoolStage
    BY <1>1, <1>3 DEF Greet, Request, Connected, Advance, PoolStage
  <2>2. user' = user
    BY <1>3 DEF Greet, Request, Connected
  <2> QED BY <1>1, <2>1, <2>2 DEF Pool!poolVars, PoolLimit, PoolStage
<1>4. CASE \E u \in Users, pw \in Passwords : Authenticate(c, u, pw)
  <2>1. PICK u \in Users, pw \in Passwords : Authenticate(c, u, pw)
    BY <1>4
  <2>2. PoolStage[c] = "out" /\ PoolStage' = [PoolStage EXCEPT ![c] = "asking"]
    BY <1>0, <1>2, <2>1 DEF Authenticate, Advance
  <2>3. user' = [user EXCEPT ![c] = u]
    BY <2>1 DEF Authenticate
  <2>4. Pool!Ask(c, u)
    BY <1>1, <2>2, <2>3 DEF Pool!Ask, PoolLimit, PoolStage
  <2> QED BY <2>4 DEF Pool!Next
<1>5. CASE Admit(c)
  <2>1. PoolStage[c] = "asking" /\ PoolStage' = [PoolStage EXCEPT ![c] = "in"]
    BY <1>0, <1>2, <1>5 DEF Admit, Advance
  <2>2. count[user[c]] < LimitOf(user[c]) /\ user' = user
    BY <1>5 DEF Admit
  <2>3. user[c] \in reset \/ Pool!Cardinality(Pool!In(user[c])) < PoolLimit[user[c]]
    BY <2>2, PoolCounts
  <2>4. Pool!Grant(c)
    BY <1>1, <2>1, <2>2, <2>3 DEF Pool!Grant, PoolLimit, PoolStage
  <2> QED BY <2>4 DEF Pool!Next
<1>6. CASE Refuse(c)
  <2>1. PoolStage[c] = "asking" /\ PoolStage' = [PoolStage EXCEPT ![c] = "out"]
    BY <1>0, <1>2, <1>6 DEF Refuse, Advance
  <2>2. count[user[c]] >= LimitOf(user[c]) /\ user' = user
    BY <1>6 DEF Refuse
  <2>3. user[c] \in reset \/ Pool!Cardinality(Pool!In(user[c])) >= PoolLimit[user[c]]
    BY <2>2, PoolCounts
  <2>4. Pool!Deny(c)
    BY <1>1, <2>1, <2>2, <2>3 DEF Pool!Deny, PoolLimit, PoolStage
  <2> QED BY <2>4 DEF Pool!Next
<1>7. CASE End(c)
  <2>1. stage' = [stage EXCEPT ![c] = "none"] /\ user' = user /\ stage[c] # "known"
    BY <1>7 DEF End
  <2>2. PoolStage' = [PoolStage EXCEPT ![c] = "out"] /\ PoolStage[c] \in {"in", "out"}
    BY <1>0, <1>2, <2>1
  <2>3. CASE PoolStage[c] = "in"
    <3>1. Pool!Return(c)
      BY <1>1, <2>1, <2>2, <2>3 DEF Pool!Return, PoolLimit, PoolStage
    <3> QED BY <3>1 DEF Pool!Next
  <2>4. CASE PoolStage[c] = "out"
    <3>1. PoolStage' = PoolStage
      BY <2>2, <2>4 DEF PoolStage
    <3> QED BY <1>1, <2>1, <3>1 DEF Pool!poolVars, PoolLimit, PoolStage
  <2> QED BY <2>2, <2>3, <2>4
<1> QED BY <1>3, <1>4, <1>5, <1>6, <1>7 DEF ConnectionTask

\* Every step of the engine is a step of the pool, a new pool, or neither.
LEMMA PoolStep == IInv /\ [Next]_vars => [Pool!Next \/ Pool!Init']_Pool!poolVars
<1> SUFFICES ASSUME IInv, [Next]_vars PROVE [Pool!Next \/ Pool!Init']_Pool!poolVars
  OBVIOUS
<1>1. CASE Hub \/ Sync
  BY <1>1, PoolStill DEF Hub, Create, Update, Delete, Sync, connVars
<1>2. CASE Restart
  <2>1. /\ limits' = [u \in Users |-> 0] /\ stage' = [c \in Conns |-> "none"]
        /\ reset' = {} /\ user' = user /\ user \in [Conns -> Users]
    BY <1>2 DEF Restart, IInv, TypeOK
  <2>2. PoolLimit' = [u \in Users |-> 1] /\ PoolStage' = [c \in Conns |-> "out"]
    BY <2>1 DEF PoolLimit, PoolStage, LimitOf
  <2> QED BY <2>1, <2>2 DEF Pool!Init, PoolLimit, PoolStage
<1>3. CASE CommandTask
  BY <1>3, PoolCommand
<1>4. CASE \E p \in Ports : Host(p) \/ Stop(p)
  BY <1>4, PoolStill DEF Host, Stop, engineVars, connVars
<1>5. ASSUME NEW p \in Ports, NEW c \in Conns, Accept(c, p) PROVE UNCHANGED Pool!poolVars
  <2>1. UNCHANGED <<limits, reset, user>> /\ PoolLimit' = PoolLimit
    BY <1>5 DEF Accept, engineVars, PoolLimit, LimitOf
  <2>2. PoolStage' = PoolStage
    BY <1>5 DEF Accept, PoolStage, IInv, TypeOK
  <2> QED BY <2>1, <2>2 DEF Pool!poolVars, PoolLimit, PoolStage
<1>6. CASE \E c \in Conns : ConnectionTask(c)
  BY <1>6, PoolConnection
<1>7. CASE UNCHANGED vars
  BY <1>7, PoolStill DEF vars, engineVars, connVars
<1> QED BY <1>1, <1>2, <1>3, <1>4, <1>5, <1>6, <1>7 DEF Next

\* handle_connection, LimiterGuard, remove_user: for any users, limits and
\* connections, and through restarts, the engine lets in, turns away and counts
\* out as a pool of slots does.
THEOREM PoolCorrect == Spec => ImplementsPool
BY PoolInit, PoolStep, Invariance, PTL DEF Spec, ImplementsPool, Pool!LivesSpec

=============================================================================
