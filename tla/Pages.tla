------------------------------- MODULE Pages -------------------------------
(***************************************************************************)
(* A tab of the dashboard on the pages that change something or choose     *)
(* what they show: servers/[serverId]/page.js (the SOCKS5 users of a       *)
(* server), users/page.js (the accounts) and the metrics page.             *)
(*                                                                         *)
(* A page shows what its last fetch brought.  Calls leave the page, are    *)
(* served by the API in one step each (ConfigSync and Accounts have what   *)
(* is inside), and are answered, while the user may go on.  A row is its   *)
(* id, which stands for its unique name too, and its other fields.  What   *)
(* the user types is chosen when the form is submitted.                    *)
(***************************************************************************)
EXTENDS Naturals, Sequences

CONSTANTS
    Socks,          \* SOCKS5 users of the server
    Accounts,
    Ports, Limits,  \* values of port and max_connections
    Ranges, DefaultRange,   \* ranges of the metrics page
    NoRow, Gone,    \* an id without a row: not yet, no more
    Nil,
    Scenarios,      \* what may go wrong in a behaviour: sets of faults
    MaxCalls        \* bound: calls of the tab under way

Ids == Socks \cup Accounts
SocksRow == [port : Ports, max : Limits]
AccountRow == [active : BOOLEAN]
Row == SocksRow \cup AccountRow
RowOf(i) == IF i \in Socks THEN SocksRow ELSE AccountRow
Table == {t \in [Ids -> Row \cup {NoRow}] : \A i \in Ids : t[i] \in RowOf(i) \cup {NoRow}}
Views == {"server", "users", "metrics"}

\* "impatient": the user acts while calls are under way.
\* "reorder":   calls overtake each other, on the way and back.
\* "lost":      a call fails, before or after it was served.
\* "others":    somebody else changes the rows.
ASSUME PagesAssumption ==
    /\ Scenarios \subseteq SUBSET {"impatient", "reorder", "lost", "others"}
    /\ DefaultRange \in Ranges
    /\ MaxCalls \in Nat \ {0}
    /\ Socks \cap Accounts = {}
    /\ NoRow \notin Row /\ Gone \notin Row \cup {NoRow}
    /\ Nil \notin Ids \cup Row \cup Ranges \cup Table

VARIABLES
    db,         \* the rows of socks5_users and dashboard_users
    view,       \* the page the tab is on
    shown,      \* its rows; Nil: still loading
    range, charted, \* the range chosen, and the one the chart has data of
    form,       \* the modal, its fields as they were filled in when it opened
    loading,    \* formLoading
    calls,      \* calls under way, in the order they were made
    faults      \* what may go wrong in this behaviour, chosen once

tab == <<view, shown, range, charted, form, loading>>
tabVars == <<db, tab, calls, faults>>

Request ==
    [op : {"list", "metrics", "post", "put", "delete"},
     view : Views,
     id : Ids \cup {Nil},
     row : Row \cup {Nil},     \* the body
     base : Row \cup {Nil},    \* the fields before the user changed any
     early : BOOLEAN,           \* history: those fields were taken from the page
                                \* while calls were under way
     form : BOOLEAN,            \* made by the form
     live : BOOLEAN,            \* the page that made it is still there
     state : {"sent", "ok", "error"},
     range : Ranges \cup {Nil},    \* asked for and answered
     rows : Table \cup {Nil}]      \* answered

Form == [open : BOOLEAN, id : Ids \cup {Nil}, row : Row \cup {Nil}, error : BOOLEAN,
         tried : BOOLEAN,       \* history: submitted since it was opened
         early : BOOLEAN,       \* history: opened while calls were under way
         over : BOOLEAN]        \* history: opened while another form was being
                                \* saved, and not submitted since

TabTypeOK ==
    /\ db \in [Ids -> Row \cup {NoRow, Gone}]
    /\ \A i \in Ids : db[i] \in RowOf(i) \cup {NoRow, Gone}
    /\ view \in Views
    /\ shown \in Table \cup {Nil}
    /\ range \in Ranges /\ charted \in Ranges \cup {Nil}
    /\ form \in Form
    /\ loading \in BOOLEAN
    /\ calls \in Seq(Request) /\ Len(calls) <= MaxCalls
    /\ faults \in Scenarios

Blank == [open |-> FALSE, id |-> Nil, row |-> Nil, error |-> FALSE, tried |-> FALSE,
          early |-> FALSE, over |-> FALSE]

Bare(op) == [op |-> op, view |-> view, id |-> Nil, row |-> Nil, base |-> Nil, early |-> FALSE,
             form |-> FALSE, live |-> TRUE, state |-> "sent", range |-> Nil, rows |-> Nil]

TabInit ==
    /\ db = [i \in Ids |-> NoRow]
    /\ view = "server"
    /\ shown = Nil
    /\ range = DefaultRange /\ charted = Nil
    /\ form = Blank
    /\ loading = FALSE
    /\ calls = <<Bare("list")>>
    /\ faults \in Scenarios

-----------------------------------------------------------------------------
\* The user.

Room == Len(calls) < MaxCalls
May == "impatient" \in faults \/ calls = <<>>
Acts == May /\ shown # Nil
Closed == ~form.open

Fetch(v, r) ==
    IF v = "metrics" THEN [Bare("metrics") EXCEPT !.view = v, !.range = r]
    ELSE [Bare("list") EXCEPT !.view = v]

IsWrite(c) == c.op \in {"post", "put", "delete"}

\* What a page has asked for when it is left: it is served, and nobody waits.
Abandoned == [k \in DOMAIN calls |-> [calls[k] EXCEPT !.live = FALSE]]

\* The tab goes to a page, which fetches what it shows.
Visit(v) ==
    /\ May /\ Room /\ v # view
    /\ view' = v
    /\ shown' = Nil /\ charted' = Nil /\ range' = DefaultRange
    /\ form' = Blank /\ loading' = FALSE
    /\ calls' = Append(Abandoned, Fetch(v, DefaultRange))
    /\ UNCHANGED <<db, faults>>

\* The effect of the metrics page fetches again when the range changes.
RangeFetch(r) == <<Fetch("metrics", r)>>

PickRange(r) ==
    /\ May /\ Room /\ view = "metrics" /\ r # range
    /\ range' = r
    /\ calls' = calls \o RangeFetch(r)
    /\ UNCHANGED <<db, view, shown, charted, form, loading, faults>>

\* A form that opens, and what was under way then.
Fresh == [Blank EXCEPT !.open = TRUE, !.early = (calls # <<>>), !.over = loading]

\* handleOpenAddModal of either page; the accounts' page shows its button while
\* it is still loading.
OpenAdd ==
    /\ May /\ Closed /\ (shown # Nil \/ view = "users")
    /\ form' = Fresh
    /\ UNCHANGED <<db, view, shown, range, charted, loading, calls, faults>>

\* Variant (a bug a run must notice): a field keeps the value it starts with.
OpenedHalf(i) ==
    [Fresh EXCEPT !.id = i, !.row = [shown[i] EXCEPT !.max = CHOOSE l \in Limits : TRUE]]

\* The state handleOpenEditModal sets.
Opened(i) == [Fresh EXCEPT !.id = i, !.row = shown[i]]

OpenEdit(i) ==
    /\ Acts /\ Closed /\ i \in Socks /\ shown[i] # NoRow
    /\ form' = Opened(i)
    /\ UNCHANGED <<db, view, shown, range, charted, loading, calls, faults>>

\* What is left of a form that closes: nobody looks at its fields again.
Shut == [Blank EXCEPT !.error = form.error]

\* Cancel, the cross or Escape.
Cancel ==
    /\ May /\ form.open
    /\ form' = Shut
    /\ UNCHANGED <<db, view, shown, range, charted, loading, calls, faults>>

Send(c) ==
    /\ Room
    /\ calls' = Append(calls, c)

Saving ==
    /\ May /\ form.open /\ ~loading
    /\ form' = [form EXCEPT !.error = FALSE, !.tried = TRUE, !.over = FALSE]
    /\ loading' = TRUE
    /\ UNCHANGED <<db, view, shown, range, charted, faults>>

\* handleSubmitUser: a new row, or the row of the form; all fields are sent.
SubmitUser(i, row) ==
    /\ Saving /\ view = "server" /\ row \in SocksRow
    /\ \/ form.id = Nil /\ i \in Socks
          /\ Send([Bare("post") EXCEPT !.id = i, !.row = row, !.form = TRUE])
       \/ form.id = i
          /\ Send([Bare("put") EXCEPT !.id = i, !.row = row, !.base = form.row, !.form = TRUE,
                                      !.early = form.early])

\* handleCreateUser of the accounts' page.
CreateAccount(i) ==
    /\ Saving /\ view = "users" /\ i \in Accounts
    /\ Send([Bare("post") EXCEPT !.id = i, !.row = [active |-> TRUE], !.form = TRUE])

\* handleDeleteUser, confirmed.
DeleteRow(i) ==
    /\ Acts /\ Closed /\ i \in Socks /\ shown[i] # NoRow
    /\ Send([Bare("delete") EXCEPT !.id = i])
    /\ UNCHANGED <<db, tab, faults>>

\* handleToggleActive: the opposite of what the page shows.
Toggle(i) ==
    /\ Acts /\ Closed /\ i \in Accounts /\ shown[i] # NoRow
    /\ Send([Bare("put") EXCEPT !.id = i, !.row = [active |-> ~shown[i].active], !.base = shown[i],
                              !.early = (calls # <<>>)])
    /\ UNCHANGED <<db, tab, faults>>

-----------------------------------------------------------------------------
\* The API.

InOrder(k, before) ==
    "reorder" \in faults \/ \A j \in 1..(k - 1) : calls[j].state \in before

\* Variant (a bug a run must notice): rows that are gone are answered too.
RowsEver(v) == [i \in Ids |-> db[i]]

\* What a list has.
Rows(v) ==
    [i \in Ids |-> IF db[i] \in Row /\ i \in (IF v = "server" THEN Socks ELSE Accounts)
                   THEN db[i] ELSE NoRow]

\* What a call has asked for does not matter any more.
Serve(k, ok, rows) ==
    calls' = [calls EXCEPT ![k] = [@ EXCEPT !.state = IF ok THEN "ok" ELSE "error", !.rows = rows,
                                            !.id = Nil, !.row = Nil, !.base = Nil, !.early = FALSE]]

\* GET of rows, and of metrics, whose answer goes with its range.
ServeFetch(k) ==
    /\ calls[k].op \in {"list", "metrics"}
    /\ Serve(k, TRUE, IF calls[k].op = "list" THEN Rows(calls[k].view) ELSE Nil)
    /\ UNCHANGED db

PortTaken(i, row) ==
    i \in Socks /\ \E j \in Socks \ {i} : db[j] \in Row /\ db[j].port = row.port

\* POST, PUT, DELETE of SOCKS5 users and of accounts: 409 for what is taken,
\* 404 for what is gone.
ServeWrite(k) ==
    LET c == calls[k]
        ok == CASE c.op = "post" -> db[c.id] = NoRow /\ ~PortTaken(c.id, c.row)
                [] c.op = "put" -> db[c.id] \in Row /\ ~PortTaken(c.id, c.row)
                [] c.op = "delete" -> db[c.id] \in Row
    IN  /\ IsWrite(c)
        /\ Serve(k, ok, Nil)
        /\ db' = IF ~ok THEN db
                 ELSE [db EXCEPT ![c.id] = IF c.op = "delete" THEN Gone ELSE c.row]

ServeCall(k) ==
    /\ k \in DOMAIN calls /\ calls[k].state = "sent" /\ InOrder(k, {"ok", "error"})
    /\ ServeFetch(k) \/ ServeWrite(k)
    /\ UNCHANGED <<tab, faults>>

\* fetch throws: the call or its answer is lost.
LoseCall(k) ==
    /\ "lost" \in faults /\ k \in DOMAIN calls /\ calls[k].state # "error"
    /\ Serve(k, FALSE, Nil)
    /\ UNCHANGED <<db, tab, faults>>

\* Another tab, or another administrator.
OthersChange(i, row) ==
    /\ "others" \in faults /\ db[i] # Gone /\ db[i] # row
    /\ row \in Row => row \in RowOf(i) /\ ~PortTaken(i, row)
    /\ row = Gone => db[i] \in Row
    /\ db' = [db EXCEPT ![i] = row]
    /\ UNCHANGED <<tab, calls, faults>>

-----------------------------------------------------------------------------
\* Answers.

\* Variant (a bug a run must notice): the rows are not fetched again.
AgainNever(c) == <<>>

\* fetchServerDetails or fetchUsers after a success, not awaited.
Again(c) == IF c.state = "ok" THEN <<Fetch(view, range)>> ELSE <<>>

\* Variant (a bug a run must notice): formLoading is reset after a success only.
LoadingAfterOnSuccess(c) == c.state # "ok"
LoadingAfter(c) == FALSE

Others(k) == [j \in 1..(Len(calls) - 1) |-> IF j < k THEN calls[j] ELSE calls[j + 1]]

\* setSocks5Users, setUsers or setMetrics; an error leaves what there is, and
\* the accounts' page empty if there is nothing.
Shown(c) ==
    /\ shown' = CASE c.op = "list" /\ c.state = "ok" -> c.rows
                  [] c.op = "list" /\ c.state = "error" /\ shown = Nil /\ view = "users"
                       -> [i \in Ids |-> NoRow]
                  [] OTHER -> shown
    /\ charted' = IF c.op = "metrics" /\ c.state = "ok" THEN c.range ELSE charted
    /\ UNCHANGED <<form, loading>>

\* The form closes, or says what is wrong.
Saved(c) ==
    /\ form' = IF c.state = "ok" THEN Shut ELSE [form EXCEPT !.error = TRUE]
    /\ loading' = LoadingAfter(c)
    /\ UNCHANGED <<shown, charted>>

AnswerCall(k) ==
    /\ k \in DOMAIN calls /\ calls[k].state # "sent" /\ InOrder(k, {})
    /\ LET c == calls[k] IN
         /\ calls' = Others(k) \o (IF c.live /\ IsWrite(c) THEN Again(c) ELSE <<>>)
         /\ \/ ~c.live /\ UNCHANGED <<shown, charted, form, loading>>
            \/ c.live /\ c.op \in {"list", "metrics"} /\ Shown(c)
            \/ c.live /\ c.form /\ Saved(c)
            \/ c.live /\ c.op \in {"put", "delete"} /\ ~c.form
               /\ UNCHANGED <<shown, charted, form, loading>>
    /\ UNCHANGED <<db, view, range, faults>>

-----------------------------------------------------------------------------
TabNext ==
    \/ \E v \in Views : Visit(v)
    \/ \E r \in Ranges : PickRange(r)
    \/ OpenAdd \/ Cancel
    \/ \E i \in Ids : OpenEdit(i) \/ DeleteRow(i) \/ Toggle(i) \/ CreateAccount(i)
    \/ \E i \in Ids, row \in SocksRow : SubmitUser(i, row)
    \/ \E i \in Ids, row \in Row \cup {Gone} : OthersChange(i, row)
    \/ \E k \in 1..MaxCalls : ServeCall(k) \/ LoseCall(k) \/ AnswerCall(k)

TabSpec == TabInit /\ [][TabNext]_tabVars

-----------------------------------------------------------------------------
\* When nothing is under way a page shows the rows there are, and the chart has
\* the data of the range chosen, provided that calls arrive, and in order, and
\* nobody else changes the rows.
AtRestCurrent ==
    calls = <<>> =>
        /\ faults \subseteq {"impatient"} /\ shown # Nil => shown = Rows(view)
        /\ faults \subseteq {"impatient", "others"} /\ view = "metrics" => charted = range

\* Where the tab is alone and its calls arrive in order, a save changes the
\* fields that the user has changed and no others, although all fields are
\* sent; whatever else the user does meanwhile, as long as the form was opened
\* with no call under way.
NoLostUpdate ==
    [][faults \subseteq {"impatient"} =>
        \A i \in Ids : db[i] \in Row /\ db'[i] \in Row =>
          \A f \in DOMAIN db[i] : db'[i][f] # db[i][f] =>
            \E k \in DOMAIN calls :
                /\ calls[k].id = i /\ calls[k].op = "put"
                /\ calls[k].state = "sent" /\ calls'[k].state = "ok"
                /\ calls[k].early \/ calls[k].row[f] # calls[k].base[f]
      ]_tabVars

\* The button of a form is disabled only while a call of a form of this page is
\* under way, so no form is stuck, and always then.  A form that was not opened
\* while another was being saved waits for its own call alone, and the error it
\* shows is that of its own, however impatient the user.  (One that was opened
\* then is disabled, filled with an error or closed by the answer to the other.)
FormExact ==
    /\ loading <=> \E k \in DOMAIN calls : calls[k].form /\ calls[k].live
    /\ form.open /\ ~form.over /\ (loading \/ form.error) => form.tried
=============================================================================
