# SockPit: specifications, model checking and proofs

SockPit manages SOCKS5 proxies on many machines from one dashboard. This directory holds TLA+
modules that model its core, TLC configurations that check them on small instances, and TLAPS proofs
of what matters most. Paths below are relative to the repository.

## 1. The system

Four programs talk to each other:

```
 dashboard (React) --HTTP, WebSocket--> hub (Node, several instances) --SQL--> PostgreSQL
                                          |  \--Redis: commands to agents, refresh tokens
                                          +--WebSocket--> agent (Rust, one per server)
                                                            \--SOCKS5 listeners <-- clients
```

| Component | State it keeps | Operations | Interacts through |
|---|---|---|---|
| Connection limiter (`agent/src/socks5/limiter.rs`) | two locked maps: limit and atomic counter of each user | `try_acquire`, `release`, `set_limit`, `remove_user` | called by connection tasks (through a guard dropped at the end) and by the command task |
| SOCKS5 engine (`agent/src/socks5/server.rs`, `auth.rs`) | listener map, credentials by port, one task per listener and per connection | `add_port`, `remove_port`, `add_user`, `remove_user`, `handle_connection` | configured by the command task; told to stop through one-shot channels |
| Agent command execution (`agent/src/websocket.rs`) | none of its own | `SYNC_CONFIG`, `ADD_`/`UPDATE_`/`REMOVE_SOCKS5_USER` | one task, one command at a time, several awaits and locks per command |
| Agent connection loop (`agent/src/websocket.rs`, `main.rs`, `config.rs`) | `config.json`, the config in memory, one connection | start, connect, authenticate, save, retry | `AGENT_AUTH`, `AUTH_RESULT` |
| Hub registry (`server/src/websocket/manager.js`) | map server -> socket in every instance; `status` in the database | authentication, heartbeat, ping check, close, error | handlers that run from await to await; a connection pool |
| Configuration path (`socks5-users.routes.js`, `manager.js`, `websocket.rs`) | table `socks5_users`, Redis channel, the agent's socket and table | POST, PUT, DELETE, publish, deliver, `SYNC_CONFIG` | await to await; at most once delivery |
| Registration (`manager.js`, `installers.routes.js`) | install token, rows of `servers` | `handleAgentAuth` | queries without a transaction |
| Dashboard sessions (`auth.service.js`, `lib/api.js`) | refresh tokens in Redis, pairs in `localStorage` | login, refresh, logout, `apiFetch` | HTTP; calls of one page run concurrently |
| Access control (`auth`, `rbac`, `ownership` middlewares; routes of users, servers and installers) | tables `dashboard_users`, `servers`, `install_tokens` | lists, creation, update and deletion of accounts, deletion of servers, installer scripts | a check, some awaits, and the query it was for; foreign keys |
| Traffic relay (`agent/src/socks5/relay.rs`) | two copies and two counters of the process | read, write, count, shutdown | counters are read by the metrics loop |
| Metrics and dashboard events (`websocket.rs`, `manager.js`, `metric.model.js`) | rows of `server_metrics`, `metadata` of a server, sockets of each user in every instance | report, insert, update, publish, deliver | the agent's connection, queries, Redis |
| Dashboard pages (`servers/[serverId]`, `users`, `metrics`) | rows shown, modal, form, range | fetch, open, edit, save, delete, toggle | HTTP calls nobody orders |
| Installer templates, cryptography, startup | see PROJECT.json | | not modelled, or partly: section 8 |

What is hard in it: locks and atomics used under shared locks (limiter); tasks that outlive what started
them (listeners, connections); commands made of several fallible steps; handlers that use rows read
before an await; queries nobody waits for; sockets that overlap; messages that are dropped when nobody
is connected; processes that die between two writes. PROJECT.json lists each of these at its line under
`hazards`, with the properties that would catch it going wrong.

What makes each component correct:

- limiter: exact accounting of slots, grants within the limit in force, no refusal while a slot is left;
- engine: between commands it mirrors the rows; no orphaned socket; only the password a row has is accepted; every
  path out of a connection gives its slot back; commands end;
- registry: a connected agent can be reached; the status is true at rest and is repaired by heartbeats;
- configuration path: nothing is missing after a loss, nothing is left over without one, a restart
  with nothing old under way repairs everything;
- registration: no agent takes the identity of another, or forgets its own;
- sessions: one working refresh token per login, and no session that ends without a reason, as long as no two
  renewals of a login are under way together;
- access control: nothing is changed or shown for somebody who lacked the right ever since the request
  began, and nothing belongs to an account that is gone;
- relay and metrics: counters are what was delivered, one direction never cuts off the other, what was
  delivered is reported in the end, a relay whose peers have finished and read ends, and the last report reaches the dashboards of the owner and of nobody else;
- pages: what rests on the screen is what there is; a save changes what the user changed.

## 2. Modules

| Module | Models | Grain |
|---|---|---|
| `SlotPool` | what the limiter promises: grants, denials and returns as single steps | abstract |
| `ConnectionLimiter` | `limiter.rs` | each lock acquisition, load, comparison and store |
| `ConnectionLimiter_proofs` | theorems about it | |
| `Socks5Engine` | `server.rs`, `auth.rs`, the command handler of `websocket.rs` | each await or lock of a command; the stages of a connection |
| `Socks5Engine_proofs` | theorems about it | |
| `HubRegistry` | registry, status, heartbeats and cleanup of `manager.js` | await to await; UPDATEs take effect later |
| `HubRegistry_proofs` | theorems about it | |
| `ConfigSync` | dashboard request to agent table | await to await; a command of the agent is one step |
| `ConfigSync_proofs` | theorems about it | |
| `Registration` | `main.rs`, `config.rs`, the loop of `websocket.rs`, `handleAgentAuth` | query to query; truncation and write of the file apart |
| `Registration_proofs` | theorems about it | |
| `AuthTokens` | `auth.service.js`, `lib/api.js`, `useAuth.js` | await to await |
| `Accounts` | the middlewares, `users.routes.js`, `servers.routes.js`, `installers.routes.js`, the tables behind them | await to await; a host that registers, query by query |
| `Accounts_proofs` | theorems about it | |
| `TrafficRelay` | `relay.rs` | each read, write and count of each direction |
| `Telemetry` | the metrics loop of `websocket.rs`, `handleMetricsReport`, `handleDashboardAuth`, `cleanupConnection` and `sendToDashboard` of `manager.js`; extends `TrafficRelay` | each load of a counter; await to await; events on their way |
| `Telemetry_proofs` | theorems about it and `TrafficRelay` | |
| `Pages` | the three pages of the dashboard that change something or choose what they show | a click, a call, its service and its answer |
| `Dashboard_proofs` | theorems about `AuthTokens` and `Pages` | |

Each component module declares its parameters as CONSTANTS with a named assumption, has one action per
operation or step, a type invariant, and its properties at the end. The definitions marked "Variant" in
comments are plausible bugs; PROJECT.json pairs every property with one of them, which violates it. The
`MC*` modules give the constants of a run that a `.cfg` cannot express.

How modules relate: `ConnectionLimiter` implements `SlotPool` (`ImplementsPool`), and `Socks5Engine` uses
the limiter at the pool's grain: it implements `SlotPool` too, through restarts, each of which begins with
a new pool (`LivesSpec`); `Socks5Engine` runs the commands step by step, with binds that fail,
against an orderly hub, and `ConfigSync` runs them as single steps, with binds that succeed, against the
real request handlers and a lossy connection; `HubRegistry` and `Registration` split `handleAgentAuth`:
the first has known agents and what follows authentication, the second has tokens and what precedes it.
`Accounts` has registration once more, in three steps, against accounts and tokens that are deleted
meanwhile. `Telemetry` composes the relay with the agent's connection, the hub and the dashboards. `Pages`
takes each call as one step of the API; what is inside is in `ConfigSync` and `Accounts`.

State and actions, briefly:

- `ConnectionLimiter`: `limits` and `connections` are the two maps; a lock's holders are read off the
  program counters, so `cmd` is `remove_user` between its two locks (it keeps the first). `reset` is a
  history variable: the users whose counter `remove_user` dropped while connections held slots. Counters
  are words (`% Word`).
- `Socks5Engine`: `db` is the environment; `listeners` is the map of shutdown senders ("dead": the entry
  `add_port` inserted before a `bind` that failed); `socket` says who listens on a port; `step` and `todo`
  are the command task; `stage`, `port` and `user` the connections. `failed` is a history variable.
- `HubRegistry`: `ws` is the hub's side of a socket and `link` the agent's, so a half-open connection is a
  state; `late` holds the UPDATEs issued and not yet carried out. `faults` is chosen once per behaviour
  from `Scenarios`, so that one run covers several environments.
- `ConfigSync`: `pc`, `req` and `existing` are request handlers; `bus` is Redis, `wire` the agent's socket;
  `queries` are the calls of `syncAgentConfig` under way, with the rows each has read: a connection that ends and
  an agent that restarts leave them alone, and what they send goes to the socket registered by then (`Send`).
  `fresh` is a history variable.
- `Registration`: `file` and `config` are the config on disk and in memory; `conn` links an agent to the
  handler that serves it, which goes on when the agent is gone. A connection that ends only clears `conn`: the
  agent learns of it in an action of its own (`Notices`), or never while it waits for `AUTH_RESULT` (`Stranded`).
  `saved` is a history variable.
- `AuthTokens`: a token pair is a number; `pairs` remembers the login each goes back to; `due` and `crossed` are
  history variables: the login of a browser to which nothing happened that may end it, and the logins of which
  two renewals were under way at a time. A browser has as many calls at a time as `AllCalls` says; a call begins
  when it is answered 401.
- `Accounts`: `users`, `servers` and `tokens` are the tables; `req` the requests, `at` the await each is
  at. `made` keeps ids from being used twice. `held` is a history variable: the roles the user of a request
  has had since it began. A body that fails validation is no request. What follows the INSERT of an install token
  (template, audit log) may fail for any reason (`Audit`).
- `TrafficRelay`: `stage` is where each copy is, a write that waits for its receiver included; `ended` and `pending` are the peers'; `sent` and
  `delivered` are history variables.
- `Telemetry`: `loop` is what the metrics loop has loaded, `step` and `job` the handlers of the hub, `ahead`
  the pairs of them whose queries are in order; `bus` is Redis, by instance. A report is its two counters; the event, which
  carries other fields of the report, is the report too. `due` is a history variable. `scenario` is chosen once and bounds a behaviour.
- `Pages`: `form` is the modal, with the fields it was opened with; `calls` are the calls under way, each
  with the state of its answer; those of a page that was left stay under way, and nobody waits for them.
  The names differ from those of `AuthTokens` (`TabSpec`, `tabVars`, `Nil`), so that one module can have both.
  `tried`, `early` and `over` are history fields: whether the form was submitted since it was opened, opened while
  calls were under way, and opened while another form was being saved and not submitted since. What is typed is
  chosen at submission.

## 3. Runs that pass

The safety and action properties of these runs are also proved for every instance (section 7); the runs show that they hold of the model as it stands, cheaply, and what the mutants
break, and the liveness properties are checked here only.

| Run | Instance | Properties | Why the bounds are enough |
|---|---|---|---|
| `limiter` | 2 connections, 1 user, limits 1 and 2, 2-bit counter | `TypeOK`, `SlotAccounting`, `ReadsStayValid`, `ImplementsPool`, `CallsReturn` | two releases, or a release and an acquisition, overlap with `remove_user`; users share nothing but the locks |
| `engine_config` | 2 users, 2 ports, 2 passwords, 1 connection, limits 1 and 2 | `TypeOK`, `ConfigMirrored`, `NoOrphanListener`, `RevokedIsRefused` | ports pass between users, and are taken by other programs, at every step of a command; an old and a new password; symmetric |
| `engine_tasks` | 2 users, 1 port, 2 connections | `SlotAccounting`, `CommandsFinish` | two holders of one user, and a port that closes and opens for another user |
| `hub` | 1 server, 2 sockets, 1 instance, 2 UPDATEs in flight, three scenarios | `TypeOK`, `ConnectedIsReachable`, `StatusTruthful`, `HalfOpenEnds`, `ConnectedIsOnline` | an old and a current connection; two UPDATEs can change places |
| `sync_sequential` | 2 users, 2 ports, 2 values, 1 request, 2 calls of `syncAgentConfig`, 1 command in Redis and 1 message on the socket, with losses and without | `TypeOK`, `NothingMissing`, `NothingLeftOver` | users swap, follow and collide on ports; a command can be lost in Redis, on the socket or before the publish |
| `sync_overlap` | 1 user, 2 ports, 2 requests, 2 calls of `syncAgentConfig`; losses with overlapping requests, with rows that change under `SYNC_CONFIG`, and alone | `RestartRepairs`, `EventuallyServed` | two handlers of one row, or old rows about to be sent, also to a later connection, each with every loss; the two calls overtake each other |
| `auth` | 2 browsers, one with 2 calls and one with 1, 3 pairs, every fault | `TypeOK`, `OneLivePerLogin`, `SessionSurvives` | two renewals of one login that overlap or follow each other, or one beside another login |
| `registration` | 2 agents with one install token, 2 handlers, 2 rows, every fault | `TypeOK`, `TokenIsOwn`, `IdentityKept`, `EventuallyUp` | both agents register at once; a handler whose agent is gone overlaps the next one |
| `accounts` | 3 accounts, 2 addresses, 1 server, 1 install token, 2 requests | `TypeOK`, `Integrity`, `Authority` | a request and another that takes its right, its object or its address away; the third account makes collisions of two others possible; symmetric in requests |
| `telemetry` | 1 relay, 1 or 2 bytes, 2 handlers, 2 instances, 2 dashboards on the instance the agent is not on; five scenarios | `TypeOK`, `RelayExact`, `DashboardsSee`, `ReportedInTheEnd`, `RelaysEnd` | two reports under way; both directions in every order; two sockets of one user, of two users, and of none |
| `pages` | 2 SOCKS5 users, 1 account, 2 ports, 2 limits, 2 calls under way; four scenarios | `TabTypeOK`, `AtRestCurrent`, `FormExact`, `NoLostUpdate` | a call overlaps one other, its own refetch, one of the page that was left, or one of somebody else; symmetric in ports and limits |

What the properties mean:

- `SlotAccounting`: the counter of a user is the number of its connections that hold a slot. It is claimed
  for users not in `reset`: after `remove_user` has dropped a counter in use, the guards of the old
  connections decrement the new one, and the limit can be exceeded until the user is removed again while it
  has no connection. That is what the code does; the model keeps it, and the property says where it ends.
- `ReadsStayValid`: what a task read under its locks still holds when it acts on it. `ImplementsPool`
  speaks of the limit in force at the moment of the decision, not when it was read; it implies
  `GrantWithinLimit` and `DenyOnlyWhenFull`, which are proved (section 7) and not run on their own.
- `ConfigMirrored`: between commands, credentials, limits and ports are those of the rows, except for users
  whose command was aborted, who have no credential that the row does not have.
- `RevokedIsRefused`: between commands a login succeeds only with the password its row has, of an active user, on
  the port of the row, also through a listener that has not stopped yet or a connection accepted before.
- `ConnectedIsReachable` excludes connections of one agent that overlap: with them it is false (section 4).
- `StatusTruthful` is for connections that end and nothing else; with crashes or reordered queries only
  `ConnectedIsOnline` remains.
- `NothingMissing` and `EventuallyServed` are for one request at a time and rows that do not change between the
  query of `SYNC_CONFIG` and its sending; `NothingLeftOver` for no losses besides. `RestartRepairs` needs none of
  this before the restart; the restart must come when no request, no command and no rows already read are under way,
  since `syncAgentConfig` sends old rows to whatever socket is registered by then (section 5). A call that has
  not read yet may be pending. Together they say which disorder the design tolerates.
- `OneLivePerLogin` and `SessionSurvives` are for calls that overlap in any way. They exempt the logins of which
  two renewals were under way together, with which both are false (section 5), and nothing else: calls that
  share a browser and renew one after the other, each with what is stored by then, lose no session. A call that
  sent the pair it began with would (the mutant).
- `EventuallyUp` speaks of agents with a token, once losses have ended, and of behaviours in which no agent waits
  for ever for the answer of a connection that is gone (`EndsHeard`): one that does is stranded (section 5).
- `IdentityKept`: a token once saved is never replaced. A file torn by a crash during a save is not
  excluded: the code truncates in place, and the agent then does not start (section 5).
- `Authority` allows what was right at some moment of the request: between the check of a role and the
  query it is for, the role may go. It says that nothing older counts, for what is changed and for what a
  list shows.
- `Integrity`: no server or token of an account that is gone, one account per address, and the token of an
  installer script is there as long as its account, in scripts that were answered and where something failed after
  the token was made. The two inserts of `POST /script` are no transaction (section 5).
- `DashboardsSee`: each instance knows the open sockets of each user and no others, nobody is shown another
  user's server, and, with queries carried out in the order they were made, metadata and screens have the
  last report. One connection of the pool gives that order and several do not; `ReportedInTheEnd` needs no
  order, as reports go on.
- `RelayExact`: a direction that ended without failing has delivered all that was sent to it, whatever
  happened to the other, and the counters are what was delivered. `RelaysEnd` has the price: a relay ends only when
  both sources have, and only if no receiver leaves a write waiting for ever (`write_all`, `relay.rs:37`, `:55`). A
  peer that goes away silently, or that stops reading, keeps its relay, and its slot, for ever.
- `MetadataCurrent`, a part of `DashboardsSee`, is for queries that succeed: a failed one is logged
  (`manager.js:336`), and the next report replaces what it would have written.
- `AtRestCurrent` allows any impatience as long as calls arrive in order. `NoLostUpdate` allows it too, for a tab
  that is alone: a form, or a button, used with no call under way sends no field but those its user changed,
  whatever the user does meanwhile. One opened from rows that a save under way is about to change
  sends old fields, as all fields are sent. `FormExact`: a button is disabled while a call of a form is under way and at no
  other time; a form that was not opened over the saving of another waits for its own call and shows its own
  error, over any network. The others are exempt because the code treats them as the form that was saved
  (section 5).

Deadlock is checked except where the system may rightly stop: `engine_*` and `sync_sequential` (every
id created and deleted, ids are never reused), `registration` (every config file torn).

## 4. The run that finds a violation

It states what a document of the repository says; the counterexample is what the code does.

| Run | Property | What happens |
|---|---|---|
| `hub_overlap` | `ReconnectedIsReachable` | `cleanupConnection` deletes the entry of the server whichever socket it names: the late close event of an old connection unregisters the new one. The agent stays connected and online; its commands are dropped. |

## 5. Other divergences read in the code

Met while modelling, without a run of their own. Those of agent, hub and sessions are in the models:

- `add_port` inserts its entry before `bind` and leaves it there when `bind` fails (`server.rs:47`: another
  program has the port, or the listener just removed has not stopped). Later commands, `SYNC_CONFIG`
  included, find the entry and report success; nothing listens until the port is removed. This is the
  entry "dead" of `Socks5Engine`.
- Calls of one page that get 401 at the same time all refresh with the same token (`overview/page.js:26` makes two
  calls at once). Those that are refused clear the pair that another has saved (`api.js:28`) and the user is
  logged out; if both looked the token up before either deleted it, both are granted a pair and one works for
  seven days that nobody has. `crossed` marks these logins in `AuthTokens`.
- The install token is used up before the answer with the agent token has arrived (`manager.js:158`). When
  it is lost, the agent can never register: `EventuallyUp` speaks of agents with a token only.
- While it waits for `AUTH_RESULT` the agent sends nothing and has no timeout (`websocket.rs:112`). If the connection
  is lost silently, it waits for ever, against "Auto-reconnect" of `docs/websocket-protocol.md:379`. This is `Stranded`.
- Deleting a user leaves its relayed connections alone (`docs/socks5-engine.md:223` says they are
  terminated): in `Socks5Engine` no command touches `stage`.
- One port that cannot be bound aborts the rest of `SYNC_CONFIG` (`websocket.rs:281`): `BindFails` empties
  `todo`; this is why `ConfigMirrored` exempts `failed`.
- `SYNC_CONFIG` removes nothing (`websocket.rs:267-294`), although `docs/websocket-protocol.md:196` says it
  makes the agent match the database: users deleted or moved while the agent was away are served until it
  restarts. `NothingLeftOver` therefore needs `faults = {}`.
- A row that changes between the query of `SYNC_CONFIG` and its sending is set back (`manager.js:346`). Nothing ends
  `syncAgentConfig` with its connection: rows read before the agent restarted may be sent to its new socket
  (`manager.js:372`), and set back what it has been sent since. And
  a PUT that overlaps a DELETE adds the deleted user to the agent again (`socks5-users.routes.js:180`):
  scenarios "syncrace" and "concurrent", which only `RestartRepairs` tolerates.
- A query of `syncAgentConfig` that fails is logged and not repeated (`manager.js:359`): the agent gets no
  configuration until it connects again. `ConfigSync` has queries that succeed.
- A hub crash leaves servers online whose agents never return (`docs/user-flows.md:206`): nothing looks at
  `last_heartbeat`.
- Refresh tokens are thus not single use (`auth.service.js:72-78`, against
  `docs/security.md:45`), and the dashboard's logout sends no body, so its refresh token is not revoked
  (`useAuth.js:41`, against `docs/api-reference.md:74`).
- Two agents that register at the same time with one install token both become servers
  (`manager.js:136-161`, against `docs/database-schema.md:283`). `TokenIsOwn` shows they stay apart.
- The generated install scripts put `install_token` into `config.json`, a field `AgentConfig` does not
  have (`config.rs:9`): agents outside `ByArgument` have no token to send.
- A process killed while it saves its config leaves a file that `load` cannot parse (`config.rs:46`).

Those of access control, metrics and pages:

- `POST /script` inserts the token, and then may find no template, fail to read it, or fail to write the audit log
  (`installers.routes.js:48`, `:55`, `:81`): an error is answered and a token stays that nobody was told of.
- A form opened while another is being saved has its button disabled by that save, and is closed by its success or
  shows its error (`page.js:120-125`). `FormExact` exempts it (`over`).
- An edit sends every field (`page.js:112`): a form opened before the rows were fetched after another save undoes that
  save, and so does one that somebody else's change overtakes. `NoLostUpdate` exempts them (`early`, "others").
- Nothing orders the answers of fetches (`page.js:121`, `metrics/page.js:45`): one that is overtaken leaves old rows, or the chart
  of another range. `AtRestCurrent` assumes order.
- Nothing keeps administrators from demoting, deactivating or deleting each other or themselves until none
  is left (`users.routes.js:146`, `:176`).
- Deleting a server or an account tells neither the agent nor the hub: the agent goes on serving, its
  heartbeats update nothing and its reports fail on the foreign key (`servers.routes.js:110`). `DELETE` of a
  server answers 200 when another request has deleted it meanwhile.
- A deactivated user's dashboard sockets stay registered and go on receiving events: only
  `cleanupConnection` removes them. A socket that authenticates again as another user stays with the first
  one (`manager.js:252`); `Telemetry` has each socket authenticate as one user.
- The dashboard gets no events at all: `useWebSocket` puts its token into the URL, which the hub ignores, and
  never sends `DASHBOARD_AUTH`; the types the pages compare with are in lower case, those of the hub are not
  (`useWebSocket.js:17`, `overview/page.js:61`, against `docs/frontend.md:230-243`). `Telemetry` has what the hub
  does for a client that authenticates.
- `cleanupConnection` publishes "offline" before its UPDATE is carried out (`manager.js:404-414`).
- The rollup adds up counters that only grow (`metric.model.js:54`), so a bucket with several reports shows
  more than was transferred (against `docs/database-schema.md:210`); with `interval=1h`, which the schema
  accepts, it divides by zero (`metric.model.js:59`), as the minutes of one hour are 0.
- The metrics page hands the object of arrays the API returns to charts that want an array of objects
  (`metrics/page.js:35`, `metrics.routes.js:28-50`).
- The accounts page sends no `display_name` when the field is empty, which the API requires
  (`users/page.js:60`, `users.routes.js:29`).
- `runScriptSchema`, 25 characters, is not used, and the tokens have at most 20
  (`installers.routes.js:20`, `:33`).

## 6. Fairness

- Limiter: weak fairness for a task that holds a lock, strong fairness for one that waits for a lock which
  becomes free again and again. The latter is an assumption on `std::sync::RwLock`, whose policy is the
  platform's: on Linux readers queue behind a waiting writer, and waiters are woken in turn. Nobody has to
  start or end a connection, or to issue a command.
- Engine: weak fairness of the command task, of stopping listeners and of the decision of `try_acquire`: the
  runtime polls tasks that can run. What peers do is up to them. The agent dies finitely often.
- Hub: handlers and queries go on, the ping timer fires, an agent that stays connected sends heartbeats
  (strong, since the bounded queue may be full for a moment). That the end of a stream is noticed is not
  assumed, nor that an agent reconnects.
- Sync: Redis, delivery, `syncAgentConfig` and the agent go on, the agent reconnects. `EventuallyServed` assumes in
  its own premise that requests and losses end; no request need be carried on.
- Registration: agents retry and are restarted by their service
  manager; handlers go on; the heartbeats of an agent that is up fail when its connection is gone. That an agent
  which waits for `AUTH_RESULT` hears of the end of its connection is not assumed: `LossesEnd` and `EndsHeard` are
  premises.
- Telemetry: reads, counts and the end of a relay go on, the metrics loop, handlers and Redis too, and the agent
  connects again. Writes do not (`Unhindered`): `write_all` waits as long as its receiver does not read. That no
  receiver leaves a write waiting for ever, and that both sources end, are premises of `RelaysEnd`; that losses end is one of
  `ReportedInTheEnd`.
- `AuthTokens`, `Accounts` and `Pages` claim no liveness.

Bounds: `Word`, `MaxLate`, `MaxQueue`, `MaxPairs`, `MaxServers` and `MaxCalls` are named constants in guards;
`Telemetry` has its bounds in the record `scenario`; in `Accounts` `IdsLeft` keeps a request from starting
that would find no id.
`MayRegister` keeps a registration
from starting that `MaxServers` would stop half way.

## 7. What is proved

Assumptions: the named ASSUME of each component module, which TLC evaluates on every run. They say that
marks (`None`, `NoRow`, `Gone`, `NoPort`, `NoCred`) are no values, that `NoRow` and `Gone` differ where
ids are not used again, that bounds are numbers, and that connections (and the users of an agent) are
finitely many where they are counted. No theorem has another hypothesis.

Each proof module has an inductive invariant `IInv` (that of `Pages` is `TabInv`), made of the type invariant and of conjuncts named
for what they say; one lemma for each action, or for a few that resemble each other; `InitIInv`, `NextIInv`
and `Invariance == Spec => []IInv`, or lemmas named alike, from which the theorems follow. TLC has checked every `IInv` on the
instances of section 3.

`ConnectionLimiter_proofs`, for any finite set of connections, any users and limits, and any word that can
count the connections:

| Theorem | States |
|---|---|
| `TypeCorrect` | `Spec => []TypeOK` |
| `AccountingCorrect` | `Spec => []SlotAccounting` |
| `ReadsCorrect` | `Spec => []ReadsStayValid` |
| `GrantCorrect`, `DenyCorrect` | `Spec => GrantWithinLimit`, `Spec => DenyOnlyWhenFull`: the limit at the moment of the decision |
| `PoolCorrect` | `Spec => ImplementsPool`: every step is a step of `SlotPool` or a stutter |

The invariant is `IInv == TypeOK /\ ReadsStayValid /\ SlotAccounting`. `SlotAccounting` alone is not
inductive: `release` decrements a counter it has loaded earlier, so one needs that the load is not stale
(nobody holds the write lock while a reader is between load and `fetch_sub`) and that the counter counts at
least the releasing task itself, hence does not wrap. Cardinality lemmas (`HoldersAdd`, `HoldersRemove`)
connect a step of one task to the number of holders.

`Socks5Engine_proofs`, for any ports, credentials and limits, and any finite sets of users and connections:

| Theorem | States |
|---|---|
| `TypeCorrect` | `Spec => []TypeOK` |
| `ConfigCorrect` | `Spec => []ConfigMirrored` |
| `ListenersCorrect` | `Spec => []NoOrphanListener` |
| `SlotsCorrect` | `Spec => []SlotAccounting` |
| `RevocationCorrect` | `Spec => RevokedIsRefused`: the password of the row, and no other |
| `PoolCorrect` | `Spec => ImplementsPool`: every step is a step of `SlotPool`, a new pool (a restart) or a stutter |

Between two awaits of a command nothing is mirrored, so the invariant says what the command is about to do:
the commands left to do are those of the rows (`TodoFits`, where a port that is given up is nobody's any
more), a credential without its row is where the current command will replace or remove it
(`CredsMirrored`, `Settling`), a port with credentials keeps its entry until it is closed (`PortsKept`), and
a row that no current or aborted command is about has all it needs (`RowsServed`). `RevocationCorrect` follows from
`CredsMirrored` between commands: what is looked up is the credential of the row, password included. That a failed bind
leaves the entry "dead" is part of `PortsKept`: an open socket is exactly a live entry.

`PoolCorrect` is the theorem of the same name about the limiter, one level up: there, the locks and loads of
`try_acquire` behave like one grant; here, what is done with grants by `handle_connection`, its guard and `remove_user`
is what a pool allows. A connection is "asking" between authentication and `try_acquire`, and "in" until
the handler ends. The guards of `Grant` and `Deny` speak of connections, those of `Admit` and `Refuse` of
a counter: `SlotAccounting` is what makes them equal (`PoolCounts`). No run has this property as its own;
TLC has checked it on the instance of `engine_tasks`.

`HubRegistry_proofs`, for any servers, sockets and instances, and any number of UPDATEs under way:

| Theorem | States |
|---|---|
| `TypeCorrect` | `Spec => []TypeOK` |
| `ReachableCorrect` | `Spec => []ConnectedIsReachable` |
| `StatusCorrect` | `Spec => []StatusTruthful` |

`StatusTruthful` speaks of rest; before, what counts is what the status will be when the UPDATEs under way
are carried out: `WillBe(s, v)` says that the last of them about `s` sets `v`, or none is about `s` and the
status is `v`. Issuing one decides it (`WillBeIssued`), carrying out the oldest does not change it
(`WillBeExecuted`). `WillBeTrue` is `StatusTruthful` with `WillBe` for the column. Registration rests on
`OneEach`: without overlap a server has one connection the hub is not done with.

`ConfigSync_proofs`, for any users, ports and requests and any bound of the queues:

| Theorem | States |
|---|---|
| `TypeCorrect` | `Spec => []TypeOK`, which has the uniqueness of ports in the table |
| `MissingCorrect` | `Spec => []NothingMissing` |
| `LeftOverCorrect` | `Spec => []NothingLeftOver` |
| `RepairCorrect` | `Spec => []RestartRepairs` |

The invariant follows the commands on their way: about to be published, in Redis, on the socket. A message
may spoil a row (free its port, or set another value) as long as a later one serves it again
(`BusMended`, `WireMended` with the sets `Spoiling` and `Serving`), and a connected agent serves a row or has
a message to come that will (`RowsComing`). What is in Redis is mended by what is in Redis alone, as the
socket can be lost. With `Giving` and `Freeing` in the place of `Spoiling` and `Serving` the same says
that nothing is left over (`RestGoing`). One request at a time is needed for `UpToDate`: the row a handler
has read is the row it changes; then the port it frees is nobody else's. `SentAtOnce` says that without "syncrace" no
query has rows to send. `FreshExact` is for `RepairCorrect`, which needs none of this: as long as an agent is
fresh, what pending queries have read, what is on its socket and what it serves are the rows.

`Registration_proofs`, for any sets of agents and handlers and any number of rows:

| Theorem | States |
|---|---|
| `TypeCorrect` | `Spec => []TypeOK` |
| `OwnCorrect` | `Spec => []TokenIsOwn` |
| `KeptCorrect` | `Spec => IdentityKept` |

The invariant follows an identity on its way: a handler works for the agent whose row it has (`JobsOwn`),
what an agent has in memory and has saved is its own (`MemoryOwn`), and what it is about to save, or the
handler it waits for is about to send, is what it has saved already, if anything (`SavesSame`).

`Dashboard_proofs`, on sessions, for any browsers, calls and number of pairs:

| Theorem | States |
|---|---|
| `TypeCorrect` | `Spec => []TypeOK`: no stage that needs a pair is without one |
| `OneLiveCorrect` | `Spec => []OneLivePerLogin` |
| `SessionCorrect` | `Spec => []SessionSurvives` |

Calls overlap in any way. A pair just granted is known to the call it was granted to and to nobody else
(`GrantedToOne`), pairs of one login are with one browser (`Separate`), and of a login that is not in `crossed` one
call at most is at work (`OneRenewal`). What still works of such a login is then the pair its browser has stored, or the one
its renewal works with (`Newest`). A session nothing has happened to has a pair that works, or a call that will replace the
stored one (`Renewable`), also when its renewals have crossed, unless it has been cleared.

`Dashboard_proofs`, on pages, for any rows, ports, limits and ranges, any number of calls under way and any scenarios:

| Theorem | States |
|---|---|
| `TabTypeCorrect` | `TabSpec => []TabTypeOK` |
| `AtRestCorrect` | `TabSpec => []AtRestCurrent` |
| `FormCorrect` | `TabSpec => []FormExact` |
| `SavesCorrect` | `TabSpec => NoLostUpdate` |

The invariant, `TabInv`, says what has yet to happen to a screen that is not what it should be. When calls
arrive in order, those under way are a queue, with the calls of pages left behind first and the answered ones
before the others (`Queued`). The rows then are right, or a list that was answered after the last write is there
to replace them (`Fetched`), or a write was answered and the page will ask again, or has asked (`ToBeFetched`);
of the chart, the last request is for the range chosen (`ChartComing`). A form has one call under way at most
(`FormWaits`). For `NoLostUpdate`: while a form that was opened with no call under way is open, nothing but its
own call can be begun, so its fields are the row as it is, and a save not yet served that was made from it is the
first call under way (`Undisturbed`). `RowsComing` is not inductive without `FetchedAfter`: a
write that was left behind may still change the table, but only before the new page's list is served.

`Accounts_proofs`, for any accounts, addresses, servers, tokens, requests and hosts:

| Theorem | States |
|---|---|
| `TypeCorrect` | `Spec => []TypeOK` |
| `IntegrityCorrect` | `Spec => []Integrity` |
| `AuthorityCorrect` | `Spec => Authority` |

The role a request carries is one its user has had since it began (`RoleHeld`, `HeldNow`). The check of
`requireServerOwnership` is some awaits old when the server is deleted; it still counts because ids are
not used again and servers do not change hands (`OwnChecked`). A token a request has made is its user's while it is
there (`TokenOwn`), and only the end of the account removes it.

`Telemetry_proofs`, for any relays, handlers, instances, dashboards and scenarios:

| Theorem | States |
|---|---|
| `TypeCorrect` | `Spec => []TypeOK` |
| `RelayCorrect` | `Spec => []RelayExact` |
| `DashboardsCorrect` | `Spec => []DashboardsSee` |

What was sent to a copy is delivered, on its way or in its hands (`Balance`); what is delivered is counted
or about to be (`CountsDelivered`), which takes sets of chunks and their cardinalities. Handlers queue up
in the order of their reports (`Queued`), so the newest is the last to be carried out (`NewestLast`), and an
event on its way to an instance is the newest that its sockets are due (`EventsDue`).

What the proofs changed in the models: an overlap of two arms of a CASE in `Pages` (`Shown`: an answered
list on a page that shows nothing yet fell under the arm for answers and under that for errors, and TLC
takes the first), and the types of its tables, which had let a row of one page stand in the table of the
other. The calls a page leaves behind are kept under way since, as they are in a browser.

Only model-checked: liveness (`CallsReturn`, `CommandsFinish`, `HalfOpenEnds`, `ConnectedIsOnline`,
`EventuallyServed`, `EventuallyUp`, `ReportedInTheEnd`, `RelaysEnd`). The prover has no rules for fairness.
`ReconnectedIsReachable` is false.

## 8. Not modelled, and why

- SOCKS5 bytes, HTTP bodies, JSON: parsing is abstracted to the decision taken on it.
- Cryptography: bcrypt, AES and JWT signatures are library calls that succeed for the right key.
- `findHistory`: it changes nothing, and its buckets are SQL arithmetic on timestamps. Section 5 has what
  is wrong with it.
- Lists of accounts and servers are taken whole, and their two queries as one: paging and search choose
  rows, the filter by owner is modelled.
- Delays and timers as durations: a timer is an action that may happen at any time.
- Pages that fetch once and render (overview, list of servers, installers), the charts, templates, startup
  wiring: no state that changes, or text.
- `Socks5Engine` takes the hub's commands to arrive in order and once; `ConfigSync` has what happens when
  they do not. `ConfigSync` takes ports to be bindable; `Socks5Engine` has what happens when they are not.
- `hub` runs one instance: a second one has its own map and shares the `status` column only. The module
  has instances as a parameter; the next step is a safety run with two.

## 9. Plan

1. Check: a `hub` run with two instances. (Once, with two servers, two instances and one UPDATE in flight,
   the inductive invariant of `HubRegistry_proofs` has been checked in 1 029 920 states.)
2. Refine: a `ConfigSync` whose agent is the table of `Socks5Engine`'s completed commands. Their commands are
   the same, but `ConfigSync` has them out of order and `Socks5Engine` has them in order, so the table between
   them has to allow for both.
3. Model: queries of `syncAgentConfig` and of `handleMetricsReport` that fail.

Considered and rejected: an abstract table, that of the rows some time ago, for `ConfigSync` to implement
with one request at a time. After a reconnection the commands still in Redis follow the `SYNC_CONFIG` that
has their effect already, and take the agent back through tables that never were in the database, until the
last of them restores it (`BusMended`). What is true is what `NothingMissing` and `NothingLeftOver` say of
rest.
