---------------------------- MODULE Socks5Engine ----------------------------
(***************************************************************************)
(* The agent's SOCKS5 engine: agent/src/socks5/server.rs (listeners and    *)
(* connection handler), auth.rs (credentials), and the command handler of  *)
(* agent/src/websocket.rs that configures them.                            *)
(*                                                                         *)
(* Three kinds of tasks interleave: the command task, which takes one      *)
(* command at a time and runs it in several steps, with an await or a lock *)
(* between two of them; one listener task per bound port; and one task per *)
(* accepted connection.  The limiter is used at the grain of its calls:    *)
(* ConnectionLimiter shows that they behave like single steps.             *)
(*                                                                         *)
(* The hub is the environment: its table db of SOCKS5 users gives a port   *)
(* to one user at a time, and every change of it is sent as one command,   *)
(* in order.  An id is a UUID: a deleted row never comes back.             *)
(***************************************************************************)
EXTENDS Integers, FiniteSets, Sequences, SequencesExt

CONSTANTS
    Conns,      \* connection tasks
    Users,      \* socks5 user ids; an id stands for its user name too
    Ports,
    Passwords,
    Limits,     \* values of max_connections
    NoPort,     \* no old_port in a command
    NoRow,      \* a user that has not been created yet
    Gone,       \* a user that has been deleted
    NoCred      \* no credential

Creds == [password : Passwords, active : BOOLEAN]
Rows  == [port : Ports, cred : Creds, max : Limits]

ASSUME EngineAssumption ==
    /\ IsFiniteSet(Conns) /\ IsFiniteSet(Users)
    /\ Limits \subseteq Nat \ {0}
    /\ NoPort \notin Ports /\ NoCred \notin Creds
    /\ NoRow \notin Rows /\ Gone \notin Rows

VARIABLES
    db,         \* the hub's rows (environment)
    listeners,  \* port -> "none", or the state of the task that holds its
                \* shutdown receiver: "live", or "dead" when bind failed
    socket,     \* port -> who listens on it: "free"; "open" or "closing", the
                \* engine's task; "foreign", another program of the host
    users,      \* AuthManager: port -> user -> credential
    limits,     \* ConnectionLimiter: user -> limit, 0 when there is no entry
    count,      \* ConnectionLimiter: user -> slots counted
    step,       \* where the command task is in the current command
    todo,       \* the users the current command has yet to configure
    failed,     \* history: users whose row the engine has not been given in
                \* full: add_port aborted their last command, or a restart
                \* has lost it
    reset,      \* history: users whose counter was dropped while in use
    stage,      \* where a connection task is in handle_connection
    port,       \* the port that accepted the connection
    user        \* user_cred.id of the connection

engineVars == <<listeners, users, limits, step, todo, failed, reset>>
connVars   == <<stage, port, user>>
vars == <<db, socket, count, engineVars, connVars>>

Steps  == {"idle", "old", "bind", "cred", "limit", "forget", "unlimit", "unbind"}
Stages == {"none", "greeting", "login", "known", "request", "connect", "relay"}
Entries == [user : Users, port : Ports, old : Ports \cup {NoPort}, cred : Creds, max : Limits]

TypeOK ==
    /\ db \in [Users -> Rows \cup {NoRow, Gone}]
    /\ listeners \in [Ports -> {"none", "live", "dead"}]
    /\ socket \in [Ports -> {"free", "open", "closing", "foreign"}]
    /\ users \in [Ports -> [Users -> Creds \cup {NoCred}]]
    /\ limits \in [Users -> Limits \cup {0}]
    /\ count \in [Users -> Nat]
    /\ step \in Steps
    /\ todo \in Seq(Entries)
    /\ failed \subseteq Users
    /\ reset \subseteq Users
    /\ stage \in [Conns -> Stages]
    /\ port \in [Conns -> Ports]
    /\ user \in [Conns -> Users]

Init ==
    /\ db = [u \in Users |-> NoRow]
    /\ listeners = [p \in Ports |-> "none"]
    /\ socket = [p \in Ports |-> "free"]
    /\ users = [p \in Ports |-> [u \in Users |-> NoCred]]
    /\ limits = [u \in Users |-> 0]
    /\ count = [u \in Users |-> 0]
    /\ step = "idle"
    /\ todo = <<>>
    /\ failed = {}
    /\ reset = {}
    /\ stage = [c \in Conns |-> "none"]
    /\ port \in [Conns -> Ports]
    /\ user \in [Conns -> Users]

-----------------------------------------------------------------------------
\* The hub.

Present(u) == db[u] \notin {NoRow, Gone}
Free(p)    == \A u \in Users : Present(u) => db[u].port # p
Entry(u, row, old) == [user |-> u, port |-> row.port, old |-> old,
                       cred |-> row.cred, max |-> row.max]

\* A user is created active.
Create(u, row) ==
    /\ step = "idle" /\ db[u] = NoRow /\ Free(row.port) /\ row.cred.active
    /\ db' = [db EXCEPT ![u] = row]
    /\ todo' = <<Entry(u, row, NoPort)>>
    /\ step' = "old"
    /\ UNCHANGED <<listeners, users, limits, failed, reset, socket, count, connVars>>

Update(u, row) ==
    /\ step = "idle" /\ Present(u) /\ row # db[u]
    /\ row.port # db[u].port => Free(row.port)
    /\ db' = [db EXCEPT ![u] = row]
    /\ todo' = <<Entry(u, row, db[u].port)>>
    /\ step' = "old"
    /\ UNCHANGED <<listeners, users, limits, failed, reset, socket, count, connVars>>

Delete(u) ==
    /\ step = "idle" /\ Present(u)
    /\ db' = [db EXCEPT ![u] = Gone]
    /\ todo' = <<Entry(u, db[u], NoPort)>>
    /\ step' = "forget"
    /\ UNCHANGED <<listeners, users, limits, failed, reset, socket, count, connVars>>

\* SYNC_CONFIG: every row, in an order of the database's.
SyncConfig ==
    \E us \in SetToSeqs({u \in Users : Present(u)}) :
        /\ todo' = [i \in DOMAIN us |-> Entry(us[i], db[us[i]], NoPort)]
        /\ step' = IF us = <<>> THEN "idle" ELSE "old"

\* The agent reconnects and is sent the configuration again.
Sync ==
    /\ step = "idle"
    /\ SyncConfig
    /\ UNCHANGED <<db, listeners, users, limits, failed, reset, socket, count, connVars>>

\* The agent dies, whatever it is doing, and is started again: the engine has
\* no state on disk, and SYNC_CONFIG is all it gets.
Restart ==
    /\ listeners' = [p \in Ports |-> "none"]
    /\ socket' = [p \in Ports |-> IF socket[p] = "foreign" THEN "foreign" ELSE "free"]
    /\ users' = [p \in Ports |-> [u \in Users |-> NoCred]]
    /\ limits' = [u \in Users |-> 0]
    /\ count' = [u \in Users |-> 0]
    /\ reset' = {}
    /\ stage' = [c \in Conns |-> "none"]
    /\ failed' = {u \in Users : Present(u)}
    /\ SyncConfig
    /\ UNCHANGED <<db, port, user>>

-----------------------------------------------------------------------------
\* The engine's operations.

\* Variant (a bug a run must notice): the port's users are kept;
\* the task is not told to stop.
RemovePortKeepUsers(p) ==
    /\ listeners' = [listeners EXCEPT ![p] = "none"]
    /\ socket' = IF listeners[p] = "live" THEN [socket EXCEPT ![p] = "closing"] ELSE socket
    /\ UNCHANGED users

RemovePortSilent(p) ==
    /\ listeners' = [listeners EXCEPT ![p] = "none"]
    /\ users' = [users EXCEPT ![p] = [u \in Users |-> NoCred]]
    /\ UNCHANGED socket

\* remove_port: an entry is dropped, its task told to stop, the port cleared.
RemovePort(p) ==
    /\ listeners' = [listeners EXCEPT ![p] = "none"]
    /\ socket' = IF listeners[p] = "live" THEN [socket EXCEPT ![p] = "closing"] ELSE socket
    /\ users' = IF listeners[p] # "none"
                THEN [users EXCEPT ![p] = [u \in Users |-> NoCred]]
                ELSE users

CanBind(p) == socket[p] = "free"

\* The command task.  An entry is configured in four steps.
MoveOff ==
    /\ step = "old"
    /\ IF Head(todo).old \notin {NoPort, Head(todo).port}
       THEN RemovePort(Head(todo).old)
       ELSE UNCHANGED <<listeners, socket, users>>
    /\ step' = "bind"
    /\ UNCHANGED <<db, limits, count, todo, failed, reset, connVars>>

\* add_port on a port that has an entry already does nothing.
PortKnown ==
    /\ step = "bind"
    /\ listeners[Head(todo).port] # "none"
    /\ step' = "cred"
    /\ UNCHANGED <<db, listeners, socket, users, limits, count, todo, failed, reset, connVars>>

PortBound ==
    /\ step = "bind"
    /\ listeners[Head(todo).port] = "none"
    /\ CanBind(Head(todo).port)
    /\ listeners' = [listeners EXCEPT ![Head(todo).port] = "live"]
    /\ socket' = [socket EXCEPT ![Head(todo).port] = "open"]
    /\ step' = "cred"
    /\ UNCHANGED <<db, users, limits, count, todo, failed, reset, connVars>>

\* bind()? fails: the entry inserted before it stays, the command is aborted
\* and with it the rest of a SYNC_CONFIG.
BindFails ==
    /\ step = "bind"
    /\ listeners[Head(todo).port] = "none"
    /\ ~CanBind(Head(todo).port)
    /\ listeners' = [listeners EXCEPT ![Head(todo).port] = "dead"]
    /\ failed' = failed \cup {Head(todo).user}
    /\ todo' = <<>>
    /\ step' = "idle"
    /\ UNCHANGED <<db, socket, users, limits, count, reset, connVars>>

\* Variant (a bug a run must notice): a credential that is there is kept.
AddUserOnce ==
    /\ step = "cred"
    /\ LET here == users[Head(todo).port][Head(todo).user]
       IN  users' = [users EXCEPT ![Head(todo).port][Head(todo).user] =
                        IF here = NoCred THEN Head(todo).cred ELSE here]
    /\ step' = "limit"
    /\ UNCHANGED <<db, listeners, socket, limits, count, todo, failed, reset, connVars>>

AddUser ==
    /\ step = "cred"
    /\ users' = [users EXCEPT ![Head(todo).port][Head(todo).user] = Head(todo).cred]
    /\ step' = "limit"
    /\ UNCHANGED <<db, listeners, socket, limits, count, todo, failed, reset, connVars>>

SetLimit ==
    /\ step = "limit"
    /\ limits' = [limits EXCEPT ![Head(todo).user] = Head(todo).max]
    /\ failed' = failed \ {Head(todo).user}
    /\ todo' = Tail(todo)
    /\ step' = IF Len(todo) = 1 THEN "idle" ELSE "old"
    /\ UNCHANGED <<db, listeners, socket, users, count, reset, connVars>>

\* REMOVE_SOCKS5_USER: the credential, the limiter, the port.
RemoveUser ==
    /\ step = "forget"
    /\ users' = [users EXCEPT ![Head(todo).port][Head(todo).user] = NoCred]
    /\ step' = "unlimit"
    /\ UNCHANGED <<db, listeners, socket, limits, count, todo, failed, reset, connVars>>

Holders(u) == {c \in Conns : user[c] = u /\ stage[c] \in {"request", "connect", "relay"}}

RemoveLimit ==
    /\ step = "unlimit"
    /\ LET u == Head(todo).user IN
         /\ limits' = [limits EXCEPT ![u] = 0]
         /\ count' = [count EXCEPT ![u] = 0]
         /\ reset' = IF Holders(u) = {} THEN reset \ {u} ELSE reset \cup {u}
    /\ step' = "unbind"
    /\ UNCHANGED <<db, listeners, socket, users, todo, failed, connVars>>

Unbind ==
    /\ step = "unbind"
    /\ RemovePort(Head(todo).port)
    /\ todo' = <<>>
    /\ step' = "idle"
    /\ UNCHANGED <<db, limits, count, failed, reset, connVars>>

-----------------------------------------------------------------------------
\* Another program of the host takes a port, and gives it back.
Host(p) ==
    /\ \/ socket[p] = "free" /\ socket' = [socket EXCEPT ![p] = "foreign"]
       \/ socket[p] = "foreign" /\ socket' = [socket EXCEPT ![p] = "free"]
    /\ UNCHANGED <<db, count, engineVars, connVars>>

\* The listener task of p.  Told to stop, select! may still pick a connection.
Accept(c, p) ==
    /\ stage[c] = "none"
    /\ socket[p] \in {"open", "closing"}
    /\ stage' = [stage EXCEPT ![c] = "greeting"]
    /\ port' = [port EXCEPT ![c] = p]
    /\ UNCHANGED <<db, socket, count, engineVars, user>>

\* Variant (a bug a run must notice): the listener waits for its
\* connections.
StopDrained(p) ==
    /\ socket[p] = "closing"
    /\ \A c \in Conns : stage[c] # "none" => port[c] # p
    /\ socket' = [socket EXCEPT ![p] = "free"]
    /\ UNCHANGED <<db, count, engineVars, connVars>>

Stop(p) ==
    /\ socket[p] = "closing"
    /\ socket' = [socket EXCEPT ![p] = "free"]
    /\ UNCHANGED <<db, count, engineVars, connVars>>

-----------------------------------------------------------------------------
\* handle_connection.

Advance(c, from, to) ==
    /\ stage[c] = from
    /\ stage' = [stage EXCEPT ![c] = to]

\* Version 5 and method 2 offered.
Greet(c) ==
    /\ Advance(c, "greeting", "login")
    /\ UNCHANGED <<db, socket, count, engineVars, port, user>>

Accepts(p, u, pw) == users[p][u] = [password |-> pw, active |-> TRUE]

Authenticate(c, u, pw) ==
    /\ Accepts(port[c], u, pw)
    /\ Advance(c, "login", "known")
    /\ user' = [user EXCEPT ![c] = u]
    /\ UNCHANGED <<db, socket, count, engineVars, port>>

LimitOf(u) == IF limits[u] = 0 THEN 1 ELSE limits[u]

\* try_acquire succeeds: the LimiterGuard exists from here to the end.
Admit(c) ==
    /\ count[user[c]] < LimitOf(user[c])
    /\ Advance(c, "known", "request")
    /\ count' = [count EXCEPT ![user[c]] = @ + 1]
    /\ UNCHANGED <<db, socket, engineVars, port, user>>

Refuse(c) ==
    /\ count[user[c]] >= LimitOf(user[c])
    /\ Advance(c, "known", "none")
    /\ UNCHANGED <<db, socket, count, engineVars, port, user>>

\* A CONNECT request with a known address type.
Request(c) ==
    /\ Advance(c, "request", "connect")
    /\ UNCHANGED <<db, socket, count, engineVars, port, user>>

Connected(c) ==
    /\ Advance(c, "connect", "relay")
    /\ UNCHANGED <<db, socket, count, engineVars, port, user>>

\* Variants (bugs a run must notice): the slot is given back after a relay
\* only; the counter is not checked.
GivesBackRelayed(c)  == stage[c] = "relay" /\ count[user[c]] > 0
GivesBackUnchecked(c) == c \in Holders(user[c])

\* The LimiterGuard is dropped and release finds something to decrement.
GivesBack(c) == c \in Holders(user[c]) /\ count[user[c]] > 0

\* The handler returns: a peer closes, a read or write fails, the version, the
\* credentials, the command or the address type is wrong, connect() fails, or
\* the relay is over.
End(c) ==
    /\ stage[c] \notin {"none", "known"}
    /\ stage' = [stage EXCEPT ![c] = "none"]
    /\ count' = IF GivesBack(c)
                THEN [count EXCEPT ![user[c]] = @ - 1]
                ELSE count
    /\ UNCHANGED <<db, socket, engineVars, port, user>>

-----------------------------------------------------------------------------
Hub == \E u \in Users :
    \/ \E row \in Rows : Create(u, row) \/ Update(u, row)
    \/ Delete(u)

CommandTask ==
    \/ MoveOff \/ PortKnown \/ PortBound \/ BindFails \/ AddUser \/ SetLimit
    \/ RemoveUser \/ RemoveLimit \/ Unbind

ConnectionTask(c) ==
    \/ Greet(c)
    \/ \E u \in Users, pw \in Passwords : Authenticate(c, u, pw)
    \/ Admit(c) \/ Refuse(c)
    \/ Request(c) \/ Connected(c) \/ End(c)

Next ==
    \/ Hub \/ Sync \/ Restart
    \/ CommandTask
    \/ \E p \in Ports : Host(p) \/ Stop(p) \/ \E c \in Conns : Accept(c, p)
    \/ \E c \in Conns : ConnectionTask(c)

Spec == Init /\ [][Next]_vars

\* The runtime polls a task that can run; what peers do is up to them.  The
\* agent does not die for ever.
Fairness ==
    /\ <>[][~Restart]_vars
    /\ WF_vars(CommandTask)
    /\ \A p \in Ports : WF_vars(Stop(p))
    /\ \A c \in Conns : WF_vars(Admit(c) \/ Refuse(c))

FairSpec == Spec /\ Fairness

-----------------------------------------------------------------------------
Idle == step = "idle"

\* Between two commands the ports, credentials and limits are those of the
\* hub's rows and no others, for every user whose last command was not aborted;
\* and even an aborted command leaves no credential behind that no row has.
ConfigMirrored ==
    Idle => \A u \in Users, p \in Ports :
        LET here == Present(u) /\ db[u].port = p IN
        /\ users[p][u] # NoCred => here /\ users[p][u] = db[u].cred
        /\ here /\ u \notin failed =>
              users[p][u] # NoCred /\ LimitOf(u) = db[u].max /\ listeners[p] # "none"

\* Between two commands a port accepts connections for good only if a row has
\* it, and the listener map knows of every socket that does (remove_port could
\* otherwise never close it).
NoOrphanListener ==
    /\ \A p \in Ports : socket[p] = "open" <=> listeners[p] = "live"
    /\ Idle => \A p \in Ports : listeners[p] # "none" => ~Free(p)

\* The limiter's counter of a user is the number of its connections between
\* admission and the end of the handler, on every path out of the handler.
SlotAccounting ==
    \A u \in Users \ reset : count[u] = Cardinality(Holders(u))

\* Once the command that removed, moved or deactivated a user, or changed its
\* password, has been carried out, a login succeeds with the password of the
\* row as it is and no other, and on no port but the row's, although
\* connections that were accepted before, and listeners that have not stopped
\* yet, go on.
RevokedIsRefused ==
    [][\A c \in Conns, u \in Users, pw \in Passwords :
         Idle /\ Authenticate(c, u, pw) =>
            /\ Present(u) /\ db[u].port = port[c]
            /\ db[u].cred = [password |-> pw, active |-> TRUE]]_vars

\* A command is always carried out, and a closed port is always free again.
CommandsFinish ==
    /\ ~Idle ~> Idle
    /\ \A p \in Ports : socket[p] = "closing" ~> socket[p] = "free"

-----------------------------------------------------------------------------
\* What the limiter promises its callers, in the engine's terms: see SlotPool.
Pool == INSTANCE SlotPool WITH
    limit  <- [u \in Users |-> LimitOf(u)],
    stage  <- [c \in Conns |->
                  CASE stage[c] = "known" -> "asking"
                    [] stage[c] \in {"request", "connect", "relay"} -> "in"
                    [] OTHER -> "out"],
    voided <- reset

\* Whatever the command task does meanwhile and whichever way a handler ends
\* (server.rs), a connection is let in, turned away and counted out as by the
\* pools of one process of the agent after the other.
ImplementsPool == Pool!LivesSpec
=============================================================================
