-------------------------- MODULE Dashboard_proofs --------------------------
(***************************************************************************)
(* Proofs about the dashboard: its sessions (server/src/services/          *)
(* auth.service.js, dashboard/src/lib/api.js) and the pages of a tab       *)
(* (dashboard/src/app/(dashboard)).                                        *)
(*                                                                         *)
(* For any number of browsers of an account, of calls each has under way   *)
(* and of token pairs, a login has one refresh token that works and a      *)
(* session that nothing happened to can be renewed, unless two renewals of *)
(* it crossed.  For any tables, ranges and calls under way, a tab at rest  *)
(* shows what is there, a form that was not opened over the saving of      *)
(* another waits for its own call alone, and a save changes what the user  *)
(* changed.                                                                *)
(***************************************************************************)
EXTENDS AuthTokens, Pages, TLAPS

USE AuthAssumption

-----------------------------------------------------------------------------
(***************************************************************************)
(*                              S e s s i o n s                            *)
(***************************************************************************)
\* The inductive invariant.

\* The stages of a call that is at work with a pair, and of the renewals whose
\* answer will replace what is stored.
Work == Renewing \cup {"granted"}
Replaces(f) == pc[f] \in {"find", "set"} \/ (pc[f] = "granted" /\ Root(tok[f]) # tok[f])

LoginTok == \A f \in AllCalls : pc[f] = "login" => tok[f] = None

\* A pair granted is known to its call alone.
GrantedToOne ==
    \A f \in AllCalls : pc[f] = "granted" =>
        /\ stored[f[1]] # tok[f]
        /\ \A g \in AllCalls : pc[g] \in Work /\ tok[g] = tok[f] => g = f

\* A browser has a pair, or a call of it is at work with it.
Has(b, n) ==
    /\ n # None
    /\ n = stored[b] \/ \E f \in AllCalls : f[1] = b /\ pc[f] \in Work /\ n = tok[f]

\* Two browsers never have pairs of the same login.
Separate ==
    \A b, c \in Browsers : \A m, n \in Pair : Has(b, m) /\ Has(c, n) /\ Root(m) = Root(n) => b = c

\* A login whose renewals never crossed has one of them under way.
OneRenewal ==
    \A f, g \in AllCalls :
        /\ pc[f] \in Work /\ pc[g] \in Work
        /\ Root(tok[f]) = Root(tok[g]) /\ Root(tok[f]) \notin crossed
        => f = g

\* What of it still works is the pair its browser has, or the renewal has.
Newest ==
    /\ \A b \in Browsers : \A m \in registry :
          stored[b] # None /\ Root(m) = Root(stored[b]) /\ Root(m) \notin crossed
            => \/ m = stored[b]
               \/ \E f \in AllCalls : /\ f[1] = b /\ pc[f] = "granted"
                                      /\ Root(tok[f]) = Root(m) /\ Root(tok[f]) # tok[f]
    /\ \A f \in AllCalls : \A m \in registry :
          pc[f] \in Work /\ Root(m) = Root(tok[f]) /\ Root(m) \notin crossed
            => m = tok[f] /\ pc[f] \notin {"find", "set"}

\* A session nothing happened to: its pair, or the one that replaces it, works;
\* and if its renewals never crossed, it has one and no call is refused.
Lasts(b, login) ==
    /\ active
    /\ \A f \in AllCalls : f[1] = b /\ pc[f] \in Work =>
          Root(tok[f]) = login \/ (pc[f] = "granted" /\ Root(tok[f]) = tok[f])
    /\ stored[b] # None =>
          /\ Root(stored[b]) = login
          /\ stored[b] \in registry \/ \E f \in AllCalls : f[1] = b /\ Replaces(f)
    /\ \A f \in AllCalls : f[1] = b /\ pc[f] = "granted" => tok[f] \in registry
    /\ login \notin crossed =>
          /\ stored[b] # None
          /\ \A f \in AllCalls : f[1] = b =>
                pc[f] # "refused" /\ (pc[f] \in {"get", "del"} => tok[f] \in registry)

Renewable == \A b \in Browsers : due[b] # None => Lasts(b, due[b])

Sessions ==
    LoginTok /\ GrantedToOne /\ Separate /\ OneRenewal /\ Newest /\ OneLivePerLogin /\ Renewable

IInv == TypeOK /\ Sessions

-----------------------------------------------------------------------------
\* Types.

Stages == InHub \cup {"idle", "stale", "granted", "refused"}

\* A call moves to a stage with a pair or with none; the others stay.
LEMMA StageType ==
  ASSUME TypeOK, NEW f \in AllCalls, NEW label \in Stages, NEW n, Goto(f, label, n),
         n \in Pair \cup {None}, label \in Renewing \cup {"stale", "granted"} => n # None
  PROVE  /\ pc' \in [AllCalls -> Stages] /\ tok' \in [AllCalls -> Pair \cup {None}]
         /\ pc'[f] = label /\ tok'[f] = n
         /\ \A g \in AllCalls : g # f => pc'[g] = pc[g] /\ tok'[g] = tok[g]
         /\ \A g \in AllCalls : pc'[g] \in Renewing \cup {"stale", "granted"} => tok'[g] # None
BY DEF TypeOK, Goto, Stages

\* Pairs are numbers, not None.
LEMMA PairType ==
  ASSUME TypeOK, NEW n \in Pair
  PROVE  n \in Nat /\ n # None /\ n <= Len(pairs) /\ n >= 1 /\ Root(n) \in 1..n /\ Root(n) \in Pair
BY DEF TypeOK, Pair, Root

\* What a browser or a call at work has is a pair.
LEMMA HasType ==
  ASSUME TypeOK
  PROVE  /\ \A b \in Browsers : stored[b] # None => stored[b] \in Pair
         /\ \A f \in AllCalls : f[1] \in Browsers
         /\ \A f \in AllCalls : pc[f] \in Work => tok[f] \in Pair /\ tok[f] # None
         /\ registry \subseteq Pair
BY DEF TypeOK, Work

\* What a new pair is: a number more, of the same login or of its own.
LEMMA SetPair ==
  ASSUME TypeOK, NEW f \in AllCalls, Set(f)
  PROVE  LET n == Len(pairs) + 1 IN
         /\ pairs' \in Seq(Nat) /\ Len(pairs') <= MaxPairs
         /\ Pair' = Pair \cup {n} /\ n \notin Pair /\ n \in Nat /\ Len(pairs') = n
         /\ \A m \in Pair : pairs'[m] = pairs[m]
         /\ \A m \in Pair' : pairs'[m] \in 1..m
         /\ pairs'[n] = IF tok[f] = None THEN n ELSE Root(tok[f])
<1> DEFINE l == IF tok[f] = None THEN Len(pairs) + 1 ELSE Root(tok[f])
<1>1. Len(pairs) < MaxPairs /\ pairs' = Append(pairs, l) /\ Len(pairs) \in Nat /\ pairs \in Seq(Nat)
  BY DEF Set, TypeOK
<1>2. l \in 1..(Len(pairs) + 1)
  BY <1>1, PairType DEF TypeOK, Pair
<1> HIDE DEF l
<1>3. /\ pairs' \in Seq(Nat) /\ Len(pairs') = Len(pairs) + 1 /\ pairs'[Len(pairs) + 1] = l
      /\ \A m \in 1..Len(pairs) : pairs'[m] = pairs[m]
  BY <1>1, <1>2
<1>4. Pair' = Pair \cup {Len(pairs) + 1} /\ Len(pairs) + 1 \notin Pair
  BY <1>1, <1>3 DEF Pair
<1>5. \A m \in Pair' : pairs'[m] \in 1..m
  BY <1>2, <1>3, <1>4, PairType DEF Pair, Root
<1>6. Len(pairs') <= MaxPairs
  BY <1>1, <1>3
<1> QED BY <1>1, <1>3, <1>4, <1>5, <1>6 DEF Pair, l

\* Every step keeps the types.
LEMMA TypeNext ==
  ASSUME TypeOK, [Next]_vars
  PROVE  TypeOK'
<1>1. ASSUME NEW f \in AllCalls, Login(f) \/ Begin(f) \/ Call(f) \/ LoseLogin(f) \/ LoseRenewal(f)
      PROVE  TypeOK'
  <2>1. ASSUME NEW label \in Stages, NEW n, Goto(f, label, n), n \in Pair \cup {None},
               label \in Renewing \cup {"stale", "granted"} => n # None,
               UNCHANGED <<active, pairs>>, registry' \subseteq Pair,
               stored' \in [Browsers -> Pair \cup {None}], due' \in [Browsers -> Pair \cup {None}],
               crossed' \subseteq Pair
        PROVE  TypeOK'
    <3>1. /\ pc' \in [AllCalls -> Stages] /\ tok' \in [AllCalls -> Pair \cup {None}]
          /\ \A g \in AllCalls : pc'[g] \in Renewing \cup {"stale", "granted"} => tok'[g] # None
      BY <2>1, StageType
    <3> QED BY <2>1, <3>1 DEF TypeOK, Stages, Pair, Root
  <2>2. CASE Login(f) \/ Begin(f)
    BY <2>1, <2>2 DEF Login, Begin, hubVars, TypeOK, Stages, InHub, Renewing
  <2>3. CASE SendRefresh(f)
    <3>1. stored[f[1]] \in Pair \cup {None} /\ crossed' \subseteq Pair
      BY <2>3, HasType, PairType DEF SendRefresh, SendPair, TypeOK
    <3> QED BY <2>1, <2>3, <3>1 DEF SendRefresh, SendPair, hubVars, TypeOK, Stages, InHub, Renewing
  <2>4. CASE Save(f)
    <3>1. tok[f] \in Pair
      BY <2>4 DEF Save, At, TypeOK
    <3>2. due' \in [Browsers -> Pair \cup {None}] /\ stored' \in [Browsers -> Pair \cup {None}]
      BY <2>4, <3>1 DEF Save, TypeOK
    <3> QED BY <2>1, <2>4, <3>2 DEF Save, hubVars, TypeOK, Stages, Renewing, InHub
  <2>5. CASE Clear(f) \/ LoseLogin(f) \/ LoseRenewal(f)
    <3>1. due' \in [Browsers -> Pair \cup {None}] /\ stored' \in [Browsers -> Pair \cup {None}]
      BY <2>5 DEF Clear, LoseLogin, LoseRenewal, Forgive, TypeOK
    <3> QED BY <2>1, <2>5, <3>1 DEF Clear, LoseLogin, LoseRenewal, hubVars, TypeOK, Stages, Renewing, InHub
  <2>6. CASE Get(f) \/ Del(f) \/ FindUser(f)
    <3>1. tok[f] \in Pair /\ tok[f] # None
      BY <2>6 DEF Get, Del, FindUser, At, TypeOK, Renewing
    <3> QED BY <2>1, <2>6, <3>1 DEF Get, Del, FindUser, hubVars, TypeOK, Stages, Renewing, InHub
  <2>7. CASE Set(f)
    <3>0. PICK n : n = Len(pairs) + 1
      OBVIOUS
    <3>1. /\ pairs' \in Seq(Nat) /\ Len(pairs') <= MaxPairs
          /\ Pair' = Pair \cup {n} /\ n \in Nat /\ \A m \in Pair' : pairs'[m] \in 1..m
      BY <2>7, <3>0, SetPair
    <3>2. /\ registry' = registry \cup {n} /\ UNCHANGED <<active, stored, due, crossed>>
          /\ pc' = [pc EXCEPT ![f] = "granted"] /\ tok' = [tok EXCEPT ![f] = n] /\ n # None
      BY <2>7, <3>0, <3>1 DEF Set, Goto
    <3> QED BY <3>1, <3>2 DEF TypeOK, Root
  <2> QED BY <1>1, <2>2, <2>3, <2>4, <2>5, <2>6, <2>7 DEF Call
<1>2. ASSUME NEW b \in Browsers, Logout(b) \/ Revoke(b)
      PROVE  TypeOK'
  BY <1>2 DEF Logout, Revoke, Forgive, hubVars, TypeOK, Pair, Root
<1>3. CASE RefreshExpires \/ SetActive
  BY <1>3 DEF RefreshExpires, SetActive, Forgive, TypeOK, Pair, Root
<1>4. CASE HubRestart
  <2>1. /\ UNCHANGED <<active, pairs, registry, stored, crossed>>
        /\ due' \in [Browsers -> Pair \cup {None}]
        /\ pc' \in [AllCalls -> Stages] /\ tok' \in [AllCalls -> Pair \cup {None}]
    BY <1>4 DEF HubRestart, Forgive, hubVars, TypeOK, Stages
  <2>2. \A g \in AllCalls : pc'[g] \in Renewing \cup {"stale", "granted"} => tok'[g] # None
    BY <1>4 DEF HubRestart, At, TypeOK, InHub, Renewing
  <2> QED BY <2>1, <2>2 DEF TypeOK, Stages, Pair, Root
<1>5. CASE UNCHANGED vars
  BY <1>5 DEF vars, hubVars, TypeOK, Pair, Root
<1> QED BY <1>1, <1>2, <1>3, <1>4, <1>5 DEF Next

-----------------------------------------------------------------------------
\* Steps.

\* At first nobody has a pair.
LEMMA InitInv == Init => IInv
<1> SUFFICES ASSUME Init PROVE IInv
  OBVIOUS
<1>1. TypeOK
  BY DEF Init, TypeOK, Pair, Root, Renewing
<1>2. Sessions
  BY DEF Init, Sessions, LoginTok, GrantedToOne, Separate, OneRenewal, Newest, OneLivePerLogin, Renewable, Work,
    Renewing, Has
<1> QED BY <1>1, <1>2 DEF IInv

\* Who has no pair he did not have before shares none.
LEMMA SeparateStill ==
  ASSUME Separate, pairs' = pairs, \A b \in Browsers : \A n \in Pair : Has(b, n)' => Has(b, n)
  PROVE  Separate'
BY DEF Separate, Root, Pair

\* Steps that make no pair and store none: calls begin, end, or go from one
\* stage of their work to the next; what is stored is cleared; tokens end.
LEMMA QuietInv ==
  ASSUME IInv, UNCHANGED <<pairs, crossed>>, registry' \subseteq registry,
         \A g \in AllCalls : pc'[g] = "login" => tok'[g] = None,
         \A g \in AllCalls : pc'[g] \in Work =>
            /\ tok'[g] = tok[g]
            /\ \/ pc'[g] = pc[g]
               \/ pc[g] = "get" /\ pc'[g] = "del" /\ tok[g] \in registry
               \/ pc[g] = "find" /\ pc'[g] = "set",
         \A b \in Browsers : stored'[b] # None =>
            /\ stored'[b] = stored[b]
            /\ \A g \in AllCalls : g[1] = b /\ pc[g] = "granted" /\ Root(tok[g]) # tok[g] => pc'[g] = "granted",
         \A b \in Browsers : due'[b] # None =>
            /\ due'[b] = due[b] /\ active' = active
            /\ stored'[b] = stored[b] \/ due[b] \in crossed
            /\ \A g \in AllCalls : g[1] = b /\ Replaces(g) => pc'[g] \in Work
            /\ \A g \in AllCalls : g[1] = b /\ pc'[g] = "refused" => pc[g] = "refused" \/ due[b] \in crossed
            /\ \A n \in registry \ registry' : ~Has(b, n)
  PROVE  Sessions'
<1> USE HasType DEF IInv
<1>1. LoginTok' /\ OneLivePerLogin'
  BY DEF Sessions, LoginTok, OneLivePerLogin, Root
<1>2. GrantedToOne' /\ OneRenewal'
  BY DEF Sessions, GrantedToOne, OneRenewal, Root, Work, Renewing
<1>3. Separate'
  <2>1. \A b \in Browsers : \A n \in Pair : Has(b, n)' => Has(b, n)
    BY DEF Has, Work, Renewing
  <2> QED BY <2>1, SeparateStill DEF Sessions
<1>4. Newest'
  <2>1. ASSUME NEW b \in Browsers, NEW m \in registry,
               stored'[b] # None, Root(m) = Root(stored'[b]), Root(m) \notin crossed
        PROVE  \/ m = stored'[b]
               \/ \E f \in AllCalls : /\ f[1] = b /\ pc'[f] = "granted"
                                      /\ Root(tok'[f]) = Root(m) /\ Root(tok'[f]) # tok'[f]
    <3>1. CASE m # stored[b]
      <4>1. PICK f \in AllCalls : /\ f[1] = b /\ pc[f] = "granted"
                                  /\ Root(tok[f]) = Root(m) /\ Root(tok[f]) # tok[f]
        BY <2>1, <3>1 DEF Sessions, Newest
      <4>2. pc'[f] = "granted" /\ tok'[f] = tok[f]
        BY <2>1, <4>1 DEF Work
      <4> QED BY <4>1, <4>2
    <3> QED BY <2>1, <3>1
  <2>2. ASSUME NEW f \in AllCalls, NEW m \in registry,
               pc'[f] \in Work, Root(m) = Root(tok'[f]), Root(m) \notin crossed
        PROVE  m = tok'[f] /\ pc'[f] \notin {"find", "set"}
    BY <2>2 DEF Sessions, Newest, Work, Renewing
  <2> QED BY <2>1, <2>2 DEF Newest, Root
<1>5. Renewable'
  <2> SUFFICES ASSUME NEW b \in Browsers, due'[b] # None
               PROVE  Lasts(b, due[b])'
    BY DEF Renewable
  <2>1. /\ due'[b] = due[b] /\ due[b] # None /\ Lasts(b, due[b])
    BY DEF Sessions, Renewable
  <2>2. \A f \in AllCalls : f[1] = b /\ pc'[f] \in Work =>
          Root(tok'[f]) = due[b] \/ (pc'[f] = "granted" /\ Root(tok'[f]) = tok'[f])
    BY <2>1 DEF Lasts, Work, Renewing
  <2>3. \A n \in registry : Has(b, n) => n \in registry'
    OBVIOUS
  <2>4. stored'[b] # None =>
          /\ Root(stored'[b]) = due[b]
          /\ \/ stored'[b] \in registry'
             \/ \E f \in AllCalls : f[1] = b /\ Replaces(f)'
    <3> SUFFICES ASSUME stored'[b] # None, stored'[b] \notin registry'
                 PROVE  Root(stored'[b]) = due[b] /\ \E f \in AllCalls : f[1] = b /\ Replaces(f)'
      BY <2>1 DEF Lasts
    <3>1. stored'[b] = stored[b] /\ Has(b, stored[b])
      BY DEF Has
    <3>2. PICK f \in AllCalls : f[1] = b /\ Replaces(f)
      BY <2>1, <2>3, <3>1 DEF Lasts
    <3>3. Replaces(f)'
      BY <3>2 DEF Replaces, Work, Renewing, Root
    <3> QED BY <2>1, <3>1, <3>2, <3>3 DEF Lasts
  <2>5. \A f \in AllCalls : f[1] = b /\ pc'[f] = "granted" => tok'[f] \in registry'
    <3> SUFFICES ASSUME NEW f \in AllCalls, f[1] = b, pc'[f] = "granted"
                 PROVE  tok'[f] \in registry'
      OBVIOUS
    <3>1. pc[f] = "granted" /\ tok'[f] = tok[f] /\ tok[f] # None
      BY DEF Work, Renewing
    <3>2. tok[f] \in registry /\ Has(b, tok[f])
      BY <2>1, <3>1 DEF Lasts, Has, Work
    <3> QED BY <2>3, <3>1, <3>2
  <2>6. due[b] \notin crossed =>
          /\ stored'[b] # None
          /\ \A f \in AllCalls : f[1] = b =>
                pc'[f] # "refused" /\ (pc'[f] \in {"get", "del"} => tok'[f] \in registry')
    <3> SUFFICES ASSUME due[b] \notin crossed, NEW f \in AllCalls, f[1] = b, pc'[f] \in {"get", "del"}
                 PROVE  tok'[f] \in registry'
      BY <2>1 DEF Lasts
    <3>1. pc[f] \in {"get", "del"} /\ tok'[f] = tok[f] /\ tok[f] # None
      BY DEF Work, Renewing
    <3>2. tok[f] \in registry /\ Has(b, tok[f])
      BY <2>1, <3>1 DEF Lasts, Has, Work, Renewing
    <3> QED BY <2>3, <3>1, <3>2
  <2>7. active'
    BY <2>1 DEF Lasts
  <2> QED BY <2>1, <2>2, <2>4, <2>5, <2>6, <2>7 DEF Lasts, Root
<1> QED BY <1>1, <1>2, <1>3, <1>4, <1>5 DEF Sessions

\* A call moves, the others stay where they are.
LEMMA Moves ==
  ASSUME TypeOK, NEW f \in AllCalls, NEW label, NEW n, Goto(f, label, n)
  PROVE  /\ pc'[f] = label /\ tok'[f] = n
         /\ \A g \in AllCalls : g # f => pc'[g] = pc[g] /\ tok'[g] = tok[g]
BY DEF TypeOK, Goto

\* The steps of a call that store nothing, or clear what is stored.
LEMMA QuietCall ==
  ASSUME IInv, NEW f \in AllCalls,
         \/ Login(f) \/ Begin(f) \/ Clear(f) \/ Get(f) \/ FindUser(f)
         \/ LoseLogin(f) \/ LoseRenewal(f)
  PROVE  Sessions'
<1> USE DEF IInv
<1>1. f[1] \in Browsers
  BY HasType
<1>2. CASE Login(f) \/ Begin(f)
  <2>1. PICK label, n :
          /\ label \in {"login", "stale"} /\ Goto(f, label, n) /\ pc[f] = "idle" /\ (label = "login" => n = None)
          /\ UNCHANGED <<active, pairs, registry, stored, due, crossed>>
    BY <1>2 DEF Login, Begin, At, hubVars
  <2> QED BY <2>1, Moves, QuietInv DEF Work, Renewing, Replaces, Sessions, LoginTok
<1>3. CASE Clear(f)
  <2>1. /\ Goto(f, "idle", None) /\ pc[f] = "refused" /\ stored'[f[1]] = None
        /\ \A c \in Browsers : c # f[1] => stored'[c] = stored[c]
        /\ UNCHANGED <<active, pairs, registry, due, crossed>>
    BY <1>1, <1>3 DEF Clear, At, hubVars, TypeOK
  <2>2. due[f[1]] # None => due[f[1]] \in crossed
    BY <1>1, <2>1 DEF Sessions, Renewable, Lasts
  <2> QED BY <1>1, <2>1, <2>2, Moves, QuietInv DEF Work, Renewing, Replaces, Sessions, LoginTok
<1>4. CASE Get(f)
  <2>1. /\ UNCHANGED <<active, pairs, registry, stored, due, crossed>> /\ pc[f] = "get"
        /\ \/ tok[f] \in registry /\ Goto(f, "del", tok[f])
           \/ tok[f] \notin registry /\ Goto(f, "refused", None)
    BY <1>4 DEF Get, At, hubVars
  <2>2. tok[f] \notin registry /\ due[f[1]] # None => due[f[1]] \in crossed
    BY <1>1, <2>1 DEF Sessions, Renewable, Lasts
  <2> QED BY <1>1, <2>1, <2>2, Moves, QuietInv DEF Work, Renewing, Replaces, Sessions, LoginTok
<1>5. CASE FindUser(f)
  <2>1. /\ UNCHANGED <<active, pairs, registry, stored, due, crossed>> /\ pc[f] = "find"
        /\ \/ active /\ Goto(f, "set", tok[f])
           \/ ~active /\ Goto(f, "refused", None)
    BY <1>5 DEF FindUser, At, hubVars
  <2>2. due[f[1]] # None => active
    BY <1>1 DEF Sessions, Renewable, Lasts
  <2> QED BY <1>1, <2>1, <2>2, Moves, QuietInv DEF Work, Renewing, Replaces, Sessions, LoginTok
<1>6. CASE LoseLogin(f)
  <2>1. /\ UNCHANGED <<active, pairs, registry, stored, due, crossed>> /\ pc[f] = "granted"
        /\ Root(tok[f]) = tok[f] /\ Goto(f, "idle", None)
    BY <1>6 DEF LoseLogin, At, hubVars
  <2> QED BY <1>1, <2>1, Moves, QuietInv DEF Work, Renewing, Replaces, Sessions, LoginTok
<1>7. CASE LoseRenewal(f)
  <2>1. /\ UNCHANGED <<active, pairs, registry, crossed>> /\ Goto(f, "idle", None)
        /\ stored'[f[1]] = None /\ \A c \in Browsers : c # f[1] => stored'[c] = stored[c]
        /\ \A c \in Browsers : due'[c] # None => due'[c] = due[c] /\ c # f[1]
    BY <1>1, <1>7 DEF LoseRenewal, Forgive, hubVars, TypeOK
  <2> QED BY <1>1, <2>1, Moves, QuietInv DEF Work, Renewing, Replaces, Sessions, LoginTok
<1> QED BY <1>2, <1>3, <1>4, <1>5, <1>6, <1>7

\* What happens to a browser, to the account, to the hub: those it happens to
\* are forgiven.
LEMMA QuietEvent ==
  ASSUME IInv,
         \/ \E b \in Browsers : Logout(b) \/ Revoke(b)
         \/ RefreshExpires \/ SetActive \/ HubRestart \/ UNCHANGED vars
  PROVE  Sessions'
<1> USE DEF IInv
<1>1. ASSUME NEW b \in Browsers, Logout(b) \/ Revoke(b)
      PROVE  Sessions'
  <2>1. /\ UNCHANGED <<active, pairs, pc, tok, crossed>> /\ stored[b] # None
        /\ stored'[b] = None /\ \A c \in Browsers : c # b => stored'[c] = stored[c]
        /\ \A c \in Browsers : due'[c] # None => due'[c] = due[c] /\ c # b
        /\ registry' = registry \/ registry' = registry \ {stored[b]}
    BY <1>1 DEF Logout, Revoke, Forgive, hubVars, TypeOK
  <2>2. \A c \in Browsers : c # b => ~Has(c, stored[b])
    BY <2>1, HasType DEF Sessions, Separate, Has
  <2>3. /\ registry' \subseteq registry
        /\ \A g \in AllCalls : pc'[g] = "login" => tok'[g] = None
        /\ \A g \in AllCalls : Replaces(g) => pc'[g] \in Work
        /\ \A n \in registry \ registry' : n = stored[b]
    BY <2>1 DEF Work, Renewing, Replaces, Sessions, LoginTok
  <2> HIDE DEF IInv
  <2> QED BY <2>1, <2>2, <2>3, QuietInv
<1>2. CASE RefreshExpires \/ SetActive
  <2>1. /\ UNCHANGED <<pairs, stored, pc, tok, crossed>> /\ registry' \subseteq registry
        /\ \A b \in Browsers : due'[b] = None
    BY <1>2 DEF RefreshExpires, SetActive, Forgive
  <2> QED BY <2>1, QuietInv DEF Sessions, LoginTok
<1>3. CASE HubRestart
  <2>1. /\ UNCHANGED <<active, pairs, registry, stored, crossed>>
        /\ \A g \in AllCalls :
             /\ pc'[g] = IF pc[g] \in Renewing THEN "refused" ELSE IF pc[g] = "login" THEN "idle" ELSE pc[g]
             /\ tok'[g] = IF pc[g] \in InHub THEN None ELSE tok[g]
        /\ \A c \in Browsers : due'[c] # None =>
             due'[c] = due[c] /\ \A g \in AllCalls : g[1] = c => pc[g] \notin Renewing
    BY <1>3 DEF HubRestart, Forgive, At, hubVars, TypeOK
  <2> QED BY <2>1, QuietInv DEF Work, Renewing, InHub, Replaces, Sessions, LoginTok
<1>4. CASE UNCHANGED vars
  <2>1. UNCHANGED <<active, pairs, registry, stored, pc, tok, due, crossed>>
    BY <1>4 DEF vars, hubVars
  <2>2. /\ \A g \in AllCalls : pc'[g] = "login" => tok'[g] = None
        /\ \A g \in AllCalls : Replaces(g) => pc'[g] \in Work
    BY <2>1 DEF Work, Renewing, Replaces, Sessions, LoginTok
  <2> HIDE DEF IInv
  <2> QED BY <2>1, <2>2, QuietInv
<1> QED BY <1>1, <1>2, <1>3, <1>4

\* The call takes up the pair that is stored by now.
LEMMA SendRefreshInv ==
  ASSUME IInv, NEW f \in AllCalls, SendRefresh(f)
  PROVE  Sessions'
<1> DEFINE b == f[1]
<1> USE HasType DEF IInv
<1>1. /\ UNCHANGED <<active, pairs, registry, stored, due>> /\ pc[f] = "stale" /\ b \in Browsers
      /\ Goto(f, IF stored[b] = None THEN "idle" ELSE "get", stored[b])
      /\ crossed' = IF stored[b] # None /\ Renews(stored[b]) THEN crossed \cup {Root(stored[b])} ELSE crossed
  BY DEF SendRefresh, SendPair, At, hubVars
<1>2. CASE stored[b] = None
  BY <1>1, <1>2, Moves, QuietInv DEF Work, Renewing, Replaces, Sessions, LoginTok
<1>3. CASE stored[b] # None
  <2>1. /\ pc'[f] = "get" /\ tok'[f] = stored[b] /\ stored[b] \in Pair /\ crossed \subseteq crossed'
        /\ \A g \in AllCalls : g # f => pc'[g] = pc[g] /\ tok'[g] = tok[g]
    BY <1>1, <1>3, Moves
  <2>2. Root(stored[b]) \notin crossed' =>
          \A g \in AllCalls : pc[g] \in Work => Root(tok[g]) # Root(stored[b])
    BY <1>1, <1>3 DEF Renews, At, Work
  <2>3. LoginTok' /\ GrantedToOne' /\ OneLivePerLogin'
    <3>1. LoginTok' /\ OneLivePerLogin'
      BY <1>1, <2>1 DEF Sessions, LoginTok, OneLivePerLogin, Root
    <3>2. ASSUME NEW g \in AllCalls, pc[g] = "granted"
          PROVE  tok[g] # stored[b] /\ stored[g[1]] # tok[g]
      <4>1. Has(g[1], tok[g]) /\ Has(b, stored[b]) /\ tok[g] \in Pair
        BY <1>3, <3>2 DEF Has, Work
      <4>2. tok[g] = stored[b] => g[1] = b
        BY <1>1, <2>1, <4>1 DEF Sessions, Separate
      <4> QED BY <3>2, <4>2 DEF Sessions, GrantedToOne
    <3>3. \A g \in AllCalls : pc'[g] = "granted" => g # f /\ pc[g] = "granted"
      BY <2>1
    <3>4. GrantedToOne'
      BY <1>1, <2>1, <3>2, <3>3 DEF Sessions, GrantedToOne, Work
    <3> QED BY <3>1, <3>4
  <2>4. Separate'
    <3>1. \A c \in Browsers : \A n \in Pair : Has(c, n)' => Has(c, n)
      BY <1>1, <2>1 DEF Has, Work
    <3> QED BY <1>1, <3>1, SeparateStill DEF Sessions
  <2>5. OneRenewal'
    BY <1>1, <2>1, <2>2 DEF Sessions, OneRenewal, Root, Work, Renewing
  <2>6. Newest'
    <3>1. \A m \in registry : Root(m) = Root(stored[b]) /\ Root(m) \notin crossed' => m = stored[b]
      BY <1>1, <1>3, <2>1, <2>2 DEF Sessions, Newest, Work
    <3>2. ASSUME NEW c \in Browsers, NEW m \in registry,
                 stored[c] # None, Root(m) = Root(stored[c]), Root(m) \notin crossed', m # stored[c]
          PROVE  \E g \in AllCalls : /\ g[1] = c /\ pc'[g] = "granted"
                                     /\ Root(tok'[g]) = Root(m) /\ Root(tok'[g]) # tok'[g]
      BY <1>1, <2>1, <3>2 DEF Sessions, Newest
    <3>3. ASSUME NEW g \in AllCalls, NEW m \in registry,
                 pc'[g] \in Work, Root(m) = Root(tok'[g]), Root(m) \notin crossed'
          PROVE  m = tok'[g] /\ pc'[g] \notin {"find", "set"}
      BY <1>1, <2>1, <3>1, <3>3 DEF Sessions, Newest
    <3> QED BY <1>1, <3>2, <3>3 DEF Newest, Root
  <2>7. Renewable'
    <3> SUFFICES ASSUME NEW c \in Browsers, due[c] # None
                 PROVE  Lasts(c, due[c])'
      BY <1>1 DEF Renewable
    <3>1. Lasts(c, due[c])
      BY DEF Sessions, Renewable
    <3>2. \A g \in AllCalls : Replaces(g) => Replaces(g)'
      BY <1>1, <2>1 DEF Replaces, Root
    <3>3. c = b => Root(stored[b]) = due[c]
      BY <1>3, <3>1 DEF Lasts
    <3>4. c = b /\ due[c] \notin crossed' => stored[b] \in registry
      BY <1>3, <2>2, <3>1, <3>3 DEF Lasts, Replaces, Work, Renewing
    <3> QED BY <1>1, <2>1, <3>1, <3>2, <3>3, <3>4 DEF Lasts, Root, Work
  <2> QED BY <2>3, <2>4, <2>5, <2>6, <2>7 DEF Sessions
<1> QED BY <1>2, <1>3

\* The pair granted becomes the one that is stored.
LEMMA SaveInv ==
  ASSUME IInv, NEW f \in AllCalls, Save(f)
  PROVE  Sessions'
<1> DEFINE b == f[1]
<1> USE HasType DEF IInv
<1>1. /\ UNCHANGED <<active, pairs, registry, crossed>> /\ pc[f] = "granted" /\ b \in Browsers
      /\ tok[f] # None /\ tok[f] \in Pair
      /\ stored'[b] = tok[f] /\ \A c \in Browsers : c # b => stored'[c] = stored[c]
      /\ pc'[f] = "idle" /\ \A g \in AllCalls : g # f => pc'[g] = pc[g] /\ tok'[g] = tok[g]
  BY Moves DEF Save, At, hubVars, TypeOK, Work
<1>2. LoginTok' /\ OneRenewal' /\ OneLivePerLogin'
  BY <1>1 DEF Sessions, LoginTok, OneRenewal, OneLivePerLogin, Root, Work, Renewing
<1>3. GrantedToOne'
  BY <1>1 DEF Sessions, GrantedToOne, Work, Renewing
<1>4. Separate'
  <2>1. \A c \in Browsers : \A n \in Pair : Has(c, n)' => Has(c, n)
    <3> SUFFICES ASSUME NEW c \in Browsers, NEW n \in Pair, Has(c, n)'
                 PROVE  Has(c, n)
      OBVIOUS
    <3>1. CASE n = stored'[c]
      BY <1>1, <3>1 DEF Has, Work
    <3>2. CASE n # stored'[c]
      BY <1>1, <3>2 DEF Has, Work, Renewing
    <3> QED BY <3>1, <3>2
  <2> QED BY <1>1, <2>1, SeparateStill DEF Sessions
<1>5. Newest'
  <2>1. \A m \in registry : Root(m) = Root(tok[f]) /\ Root(m) \notin crossed => m = tok[f]
    BY <1>1 DEF Sessions, Newest, Work
  <2>2. ASSUME NEW c \in Browsers, NEW m \in registry,
               stored'[c] # None, Root(m) = Root(stored'[c]), Root(m) \notin crossed, m # stored'[c]
        PROVE  \E g \in AllCalls : /\ g[1] = c /\ pc'[g] = "granted"
                                   /\ Root(tok'[g]) = Root(m) /\ Root(tok'[g]) # tok'[g]
    <3>1. c # b /\ stored'[c] = stored[c]
      BY <1>1, <2>1, <2>2
    <3>2. PICK g \in AllCalls : /\ g[1] = c /\ pc[g] = "granted"
                                /\ Root(tok[g]) = Root(m) /\ Root(tok[g]) # tok[g]
      BY <2>2, <3>1 DEF Sessions, Newest
    <3> QED BY <1>1, <3>1, <3>2
  <2>3. ASSUME NEW g \in AllCalls, NEW m \in registry,
               pc'[g] \in Work, Root(m) = Root(tok'[g]), Root(m) \notin crossed
        PROVE  m = tok'[g] /\ pc'[g] \notin {"find", "set"}
    BY <1>1, <2>3 DEF Sessions, Newest, Work, Renewing
  <2> QED BY <1>1, <2>2, <2>3 DEF Newest, Root
<1>6. Renewable'
  <2> SUFFICES ASSUME NEW c \in Browsers, NEW login, login = due'[c], login # None
               PROVE  Lasts(c, login)'
    BY DEF Renewable
  <2>1. \A g \in AllCalls : g # f /\ Replaces(g) => Replaces(g)'
    BY <1>1 DEF Replaces, Root
  <2>2. CASE c # b
    <3>1. login = due[c]
      BY <1>1, <2>2 DEF Save, TypeOK
    <3>2. Lasts(c, login)
      BY <3>1 DEF Sessions, Renewable
    <3> QED BY <1>1, <2>1, <2>2, <3>2 DEF Lasts, Root, Work
  <2>3. CASE c = b /\ Root(tok[f]) = tok[f]
    <3>1. /\ login = tok[f] /\ active /\ tok[f] \in registry
          /\ \A g \in AllCalls : g[1] = b /\ g # f => pc[g] \notin Work \cup {"refused"}
      BY <1>1, <2>3 DEF Save, At, TypeOK, Work
    <3>2. \A g \in AllCalls : g[1] = b => pc'[g] \notin Work \cup {"refused"}
      BY <1>1, <3>1 DEF Work, Renewing
    <3> QED BY <1>1, <2>3, <3>1, <3>2 DEF Lasts, Root, Work, Renewing
  <2>4. CASE c = b /\ Root(tok[f]) # tok[f]
    <3>1. login = due[b]
      BY <2>4 DEF Save
    <3>2. Lasts(b, login)
      BY <1>1, <3>1 DEF Sessions, Renewable
    <3>3. Root(tok[f]) = login /\ tok[f] \in registry
      BY <1>1, <2>4, <3>2 DEF Lasts, Work
    <3>4. \A g \in AllCalls : pc'[g] \in Work \cup {"refused"} => pc'[g] = pc[g] /\ tok'[g] = tok[g]
      BY <1>1 DEF Work, Renewing
    <3> QED BY <1>1, <2>4, <3>2, <3>3, <3>4 DEF Lasts, Root, Work, Renewing
  <2> QED BY <2>2, <2>3, <2>4
<1> QED BY <1>2, <1>3, <1>4, <1>5, <1>6 DEF Sessions

\* The old token is spent; those of other browsers are of other logins.
LEMMA DelInv ==
  ASSUME IInv, NEW f \in AllCalls, Del(f)
  PROVE  Sessions'
<1> DEFINE b == f[1]
<1> USE HasType DEF IInv
<1>1. /\ UNCHANGED <<active, pairs, stored, due, crossed>> /\ pc[f] = "del" /\ b \in Browsers
      /\ registry' = registry \ {tok[f]} /\ tok[f] \in Pair /\ tok[f] # None
      /\ pc'[f] = "find" /\ tok' = tok /\ \A g \in AllCalls : g # f => pc'[g] = pc[g]
  BY Moves DEF Del, Spent, At, Goto, TypeOK, Work, Renewing
<1>2. LoginTok' /\ GrantedToOne' /\ OneRenewal' /\ OneLivePerLogin'
  BY <1>1 DEF Sessions, LoginTok, GrantedToOne, OneRenewal, OneLivePerLogin, Root, Work, Renewing
<1>3. Separate'
  <2>1. \A c \in Browsers : \A n \in Pair : Has(c, n)' => Has(c, n)
    BY <1>1 DEF Has, Work, Renewing
  <2> QED BY <1>1, <2>1, SeparateStill DEF Sessions
<1>4. Newest'
  <2>1. ASSUME NEW c \in Browsers, NEW m \in registry',
               stored[c] # None, Root(m) = Root(stored[c]), Root(m) \notin crossed, m # stored[c]
        PROVE  \E g \in AllCalls : /\ g[1] = c /\ pc'[g] = "granted"
                                   /\ Root(tok[g]) = Root(m) /\ Root(tok[g]) # tok[g]
    BY <1>1, <2>1 DEF Sessions, Newest
  <2>2. ASSUME NEW g \in AllCalls, NEW m \in registry',
               pc'[g] \in Work, Root(m) = Root(tok[g]), Root(m) \notin crossed
        PROVE  m = tok[g] /\ pc'[g] \notin {"find", "set"}
    BY <1>1, <2>2 DEF Sessions, Newest, Work, Renewing
  <2> QED BY <1>1, <2>1, <2>2 DEF Newest, Root
<1>5. Renewable'
  <2> SUFFICES ASSUME NEW c \in Browsers, due[c] # None
               PROVE  Lasts(c, due[c])'
    BY <1>1 DEF Renewable
  <2>1. Lasts(c, due[c])
    BY DEF Sessions, Renewable
  <2>2. c # b => ~Has(c, tok[f])
    BY <1>1 DEF Sessions, Separate, Has, Work, Renewing
  <2>3. Replaces(f)' /\ \A g \in AllCalls : Replaces(g) => Replaces(g)'
    BY <1>1 DEF Replaces, Root
  <2>4. stored[c] # None /\ stored[c] \notin registry' =>
          stored[c] \notin registry \/ c = b
    BY <1>1, <2>2 DEF Has
  <2>5. \A g \in AllCalls : g[1] = c /\ pc'[g] = "granted" => tok[g] \in registry'
    <3> SUFFICES ASSUME NEW g \in AllCalls, g[1] = c, pc'[g] = "granted"
                 PROVE  tok[g] # tok[f]
      BY <1>1, <2>1 DEF Lasts
    <3> QED BY <1>1 DEF Sessions, GrantedToOne, Work, Renewing
  <2>6. ASSUME NEW g \in AllCalls, g[1] = c, pc'[g] \in {"get", "del"}, due[c] \notin crossed
        PROVE  tok[g] \in registry'
    <3>1. g # f /\ pc[g] \in {"get", "del"} /\ tok[g] \in registry
      BY <1>1, <2>1, <2>6 DEF Lasts
    <3>2. Root(tok[g]) = due[c]
      BY <2>1, <2>6, <3>1 DEF Lasts, Work, Renewing
    <3>3. tok[g] # tok[f]
      BY <1>1, <2>6, <3>1, <3>2 DEF Sessions, OneRenewal, Work, Renewing
    <3> QED BY <1>1, <3>1, <3>3
  <2> QED BY <1>1, <2>1, <2>3, <2>4, <2>5, <2>6 DEF Lasts, Root, Work, Renewing
<1> QED BY <1>2, <1>3, <1>4, <1>5 DEF Sessions

\* The new pair is known to its call alone, and if the login's renewals never
\* crossed it is the only one of it that works.
LEMMA SetInv ==
  ASSUME IInv, NEW f \in AllCalls, Set(f)
  PROVE  Sessions'
<1> DEFINE b == f[1]  NewRoot(m) == pairs'[m]
<1> USE HasType DEF IInv
<1>0. PICK n : n = Len(pairs) + 1
  OBVIOUS
<1>1. /\ UNCHANGED <<active, stored, due, crossed>> /\ pc[f] \in {"login", "set"} /\ b \in Browsers
      /\ registry' = registry \cup {n}
      /\ pc'[f] = "granted" /\ tok'[f] = n
      /\ \A g \in AllCalls : g # f => pc'[g] = pc[g] /\ tok'[g] = tok[g]
  BY <1>0, Moves DEF Set, At
<1>2. pc[f] = "login" <=> tok[f] = None
  BY <1>1 DEF Sessions, LoginTok, Work, Renewing
<1>3. /\ Pair' = Pair \cup {n} /\ n \notin Pair /\ n \in Nat /\ n # None
      /\ \A m \in Pair : NewRoot(m) = Root(m)
      /\ NewRoot(n) = IF tok[f] = None THEN n ELSE Root(tok[f])
  BY <1>0, SetPair DEF Root
<1>4. \A m \in Pair : Root(m) # n /\ Root(m) \in Pair
  <2>1. \A m \in Pair : Root(m) \in 1..m /\ m <= Len(pairs) /\ m \in Nat /\ Root(m) \in Pair
    BY PairType
  <2>2. Len(pairs) \in Nat
    BY DEF TypeOK
  <2> QED BY <1>0, <2>1, <2>2
<1>5. crossed \subseteq Pair
  BY DEF TypeOK
<1> HIDE DEF NewRoot
<1>6. \A g \in AllCalls : pc[g] \in Work => tok[g] \in Pair /\ NewRoot(tok[g]) = Root(tok[g])
  BY <1>3
<1>7. \A c \in Browsers : stored[c] # None => stored[c] \in Pair /\ NewRoot(stored[c]) = Root(stored[c])
  BY <1>3
<1>8. \A m \in registry : m \in Pair /\ NewRoot(m) = Root(m)
  BY <1>3
<1>9. \A m \in registry : Root(m) = NewRoot(n) => NewRoot(n) \in crossed
  <2>1. CASE tok[f] = None
    BY <1>3, <1>4, <1>8, <2>1
  <2>2. CASE tok[f] # None
    BY <1>1, <1>2, <1>3, <2>2 DEF Sessions, Newest, Work, Renewing
  <2> QED BY <2>1, <2>2
<1>10. \A c \in Browsers : \A m \in Pair : c # b /\ Has(c, m) => Root(m) # NewRoot(n)
  <2>1. tok[f] # None => tok[f] \in Pair /\ Has(b, tok[f])
    BY <1>1, <1>2 DEF Has, Work, Renewing
  <2> QED BY <1>1, <1>3, <1>4, <2>1 DEF Sessions, Separate
<1>11. LoginTok' /\ GrantedToOne'
  BY <1>1, <1>3, <1>6, <1>7 DEF Sessions, LoginTok, GrantedToOne, Work, Renewing
<1>12. \A g \in AllCalls : g # f /\ pc[g] \in Work /\ Root(tok[g]) = NewRoot(n) => NewRoot(n) \in crossed
  <2>1. CASE tok[f] = None
    BY <1>3, <1>4, <1>6, <2>1
  <2>2. CASE tok[f] # None
    BY <1>1, <1>2, <1>3, <2>2 DEF Sessions, OneRenewal, Work, Renewing
  <2> QED BY <2>1, <2>2
<1>13. OneRenewal'
  <2> SUFFICES ASSUME NEW g \in AllCalls, NEW h \in AllCalls, pc'[g] \in Work, pc'[h] \in Work,
                      NewRoot(tok'[g]) = NewRoot(tok'[h]), NewRoot(tok'[g]) \notin crossed
               PROVE  g = h
    BY <1>1 DEF OneRenewal, Root, NewRoot, Work, Renewing
  <2> QED BY <1>1, <1>6, <1>12 DEF Sessions, OneRenewal
<1>14. OneLivePerLogin'
  <2> SUFFICES ASSUME NEW m \in registry', NEW x \in registry', NewRoot(m) = NewRoot(x)
               PROVE  m = x \/ NewRoot(m) \in crossed
    BY <1>1 DEF OneLivePerLogin, NewRoot, Root
  <2> QED BY <1>1, <1>8, <1>9 DEF Sessions, OneLivePerLogin
<1>15. Newest'
  <2>1. ASSUME NEW c \in Browsers, NEW m \in registry', stored[c] # None,
               NewRoot(m) = NewRoot(stored[c]), NewRoot(m) \notin crossed, m # stored[c]
        PROVE  \E g \in AllCalls : /\ g[1] = c /\ pc'[g] = "granted"
                                   /\ NewRoot(tok'[g]) = NewRoot(m) /\ NewRoot(tok'[g]) # tok'[g]
    <3>1. CASE m = n
      <4>1. c = b
        BY <1>7, <1>10, <2>1, <3>1 DEF Has
      <4>2. NewRoot(n) # n
        BY <1>4, <1>7, <2>1, <3>1
      <4> QED BY <1>1, <3>1, <4>1, <4>2
    <3>2. CASE m # n
      <4>1. m \in registry /\ Root(m) = Root(stored[c]) /\ Root(m) \notin crossed
        BY <1>1, <1>7, <1>8, <2>1, <3>2
      <4>2. PICK g \in AllCalls : /\ g[1] = c /\ pc[g] = "granted"
                                  /\ Root(tok[g]) = Root(m) /\ Root(tok[g]) # tok[g]
        BY <2>1, <4>1 DEF Sessions, Newest
      <4>3. g # f /\ NewRoot(tok[g]) = Root(tok[g])
        BY <1>1, <1>6, <4>2 DEF Work
      <4> QED BY <1>1, <1>8, <4>1, <4>2, <4>3
    <3> QED BY <3>1, <3>2
  <2>2. ASSUME NEW g \in AllCalls, NEW m \in registry',
               pc'[g] \in Work, NewRoot(m) = NewRoot(tok'[g]), NewRoot(m) \notin crossed
        PROVE  m = tok'[g] /\ pc'[g] \notin {"find", "set"}
    <3>1. CASE g = f
      BY <1>1, <1>8, <1>9, <2>2, <3>1
    <3>2. CASE g # f
      <4>1. pc[g] \in Work /\ tok'[g] = tok[g] /\ pc'[g] = pc[g] /\ NewRoot(tok[g]) = Root(tok[g])
        BY <1>1, <1>6, <2>2, <3>2
      <4>2. m # n
        BY <1>12, <2>2, <3>2, <4>1
      <4>3. m \in registry /\ Root(m) = Root(tok[g]) /\ Root(m) \notin crossed
        BY <1>1, <1>8, <2>2, <4>1, <4>2
      <4> QED BY <4>1, <4>3 DEF Sessions, Newest
    <3> QED BY <3>1, <3>2
  <2> QED BY <1>1, <2>1, <2>2 DEF Newest, Root, NewRoot
<1>16. Separate'
  <2>1. \A c \in Browsers : \A m \in Pair' : Has(c, m)' => (m = n /\ c = b) \/ (m \in Pair /\ Has(c, m))
    BY <1>1, <1>3, <1>6, <1>7 DEF Has, Work
  <2> SUFFICES ASSUME NEW c \in Browsers, NEW d \in Browsers, NEW m \in Pair', NEW x \in Pair',
                      Has(c, m)', Has(d, x)', NewRoot(m) = NewRoot(x)
               PROVE  c = d
    BY DEF Separate, Root, NewRoot
  <2>2. CASE m = n
    BY <1>3, <1>10, <2>1, <2>2
  <2>3. CASE x = n
    BY <1>3, <1>10, <2>1, <2>3
  <2>4. CASE m # n /\ x # n
    <3>1. m \in Pair /\ x \in Pair /\ Has(c, m) /\ Has(d, x) /\ Root(m) = Root(x)
      BY <1>3, <2>1, <2>4
    <3> QED BY <3>1 DEF Sessions, Separate
  <2> QED BY <2>2, <2>3, <2>4
<1>17. Renewable'
  <2> SUFFICES ASSUME NEW c \in Browsers, due[c] # None
               PROVE  Lasts(c, due[c])'
    BY <1>1 DEF Renewable
  <2>1. Lasts(c, due[c])
    BY DEF Sessions, Renewable
  <2>2. c = b /\ tok[f] # None => NewRoot(n) = due[c]
    BY <1>1, <1>2, <1>3, <2>1 DEF Lasts, Work, Renewing
  <2>3. tok[f] = None => NewRoot(n) = n
    BY <1>3
  <2>4. \A g \in AllCalls : g[1] = c /\ pc'[g] \in Work =>
          NewRoot(tok'[g]) = due[c] \/ (pc'[g] = "granted" /\ NewRoot(tok'[g]) = tok'[g])
    BY <1>1, <1>6, <2>1, <2>2, <2>3 DEF Lasts
  <2>5. \A g \in AllCalls : g[1] = c /\ Replaces(g) => Replaces(g)'
    <3> SUFFICES ASSUME NEW g \in AllCalls, g[1] = c, Replaces(g)
                 PROVE  pc'[g] \in {"find", "set"} \/ (pc'[g] = "granted" /\ NewRoot(tok'[g]) # tok'[g])
      BY DEF Replaces, Root, NewRoot
    <3>1. CASE g = f
      BY <1>1, <1>2, <1>3, <1>4, <3>1 DEF Replaces, Work, Renewing
    <3>2. CASE g # f
      BY <1>1, <1>6, <3>2 DEF Replaces, Work
    <3> QED BY <3>1, <3>2
  <2>6. \A g \in AllCalls : g[1] = c /\ pc'[g] = "granted" => tok'[g] \in registry'
    BY <1>1, <2>1 DEF Lasts
  <2>7. due[c] \notin crossed =>
          /\ stored[c] # None
          /\ \A g \in AllCalls : g[1] = c =>
                pc'[g] # "refused" /\ (pc'[g] \in {"get", "del"} => tok'[g] \in registry')
    BY <1>1, <2>1 DEF Lasts
  <2>8. stored[c] # None =>
          /\ NewRoot(stored[c]) = due[c]
          /\ stored[c] \in registry' \/ \E g \in AllCalls : g[1] = c /\ Replaces(g)'
    BY <1>1, <1>7, <2>1, <2>5 DEF Lasts
  <2>9. active
    BY <2>1 DEF Lasts
  <2> QED BY <1>1, <2>4, <2>6, <2>7, <2>8, <2>9 DEF Lasts, Root, NewRoot
<1> QED BY <1>11, <1>13, <1>14, <1>15, <1>16, <1>17 DEF Sessions

-----------------------------------------------------------------------------
\* Every step keeps the inductive invariant.
LEMMA NextInv ==
  ASSUME IInv, [Next]_vars
  PROVE  IInv'
<1>1. TypeOK'
  BY TypeNext DEF IInv
<1>2. ASSUME NEW f \in AllCalls, Login(f) \/ Begin(f) \/ Call(f) \/ LoseLogin(f) \/ LoseRenewal(f)
      PROVE  Sessions'
  BY <1>2, QuietCall, SendRefreshInv, SaveInv, DelInv, SetInv DEF Call
<1>3. Sessions'
  BY <1>2, QuietEvent DEF Next
<1> QED BY <1>1, <1>3 DEF IInv

\* Types, however many calls a browser has under way: a stage that needs a pair
\* has one, so "undefined" is never sent as a refresh token.
THEOREM TypeCorrect == Spec => []TypeOK
<1>1. Init => TypeOK
  BY InitInv DEF IInv
<1> QED BY <1>1, TypeNext, PTL DEF Spec

\* The inductive invariant holds in every state.
LEMMA InvariantHolds == Spec => []IInv
<1>1. IInv /\ [Next]_vars => IInv'
  BY NextInv
<1> QED BY <1>1, InitInv, PTL DEF Spec

\* A login never has two refresh tokens that work, for any number of browsers,
\* of calls under way in each and of renewals, whatever is lost, and even when
\* the user logs out in the middle of a renewal, unless two renewals of that
\* very login were under way at a time.
THEOREM OneLiveCorrect == Spec => []OneLivePerLogin
<1>1. IInv => OneLivePerLogin
  BY DEF IInv, Sessions
<1> QED BY <1>1, InvariantHolds, PTL

\* Who logged in, and neither logged out nor had an answer lost, a token
\* expired or the account switched since, has a pair the hub renews, however
\* many calls go on; or has none stored, and then two renewals of that login
\* were under way at a time.
THEOREM SessionCorrect == Spec => []SessionSurvives
<1>1. IInv => SessionSurvives
  <2> SUFFICES ASSUME IInv, NEW b \in Browsers, due[b] # None, Idle(b)
               PROVE  stored[b] \in registry \/ (stored[b] = None /\ due[b] \in crossed)
    BY DEF SessionSurvives
  <2> QED BY DEF IInv, Sessions, Renewable, Lasts, Replaces, Idle
<1> QED BY <1>1, InvariantHolds, PTL


-----------------------------------------------------------------------------
(***************************************************************************)
(*                                 P a g e s                               *)
(***************************************************************************)
HIDE AuthAssumption

\* What is asked of a call, in the sequence of those under way.
Unserved(k) == calls[k].state = "sent"
Lists(k) == calls[k].live /\ calls[k].op = "list"
FormCall(k) == calls[k].live /\ calls[k].form

\* Nothing overtakes, and nothing is lost.
Orderly == faults \cap {"reorder", "lost"} = {}

\* A call fits the page that made it, and what it has asked fits its row.
CallFits(c) ==
    /\ c.live => c.view = view
    /\ c.op = "metrics" => c.view = "metrics" /\ c.range \in Ranges
    /\ c.op # "metrics" => c.view # "metrics"
    /\ c.form => c.op \in {"post", "put"}
    /\ c.state = "sent" /\ IsWrite(c) =>
          c.id \in Ids /\ (c.op \in {"post", "put"} => c.row \in RowOf(c.id))
    /\ c.op = "list" /\ c.state = "ok" => c.rows \in Table
    /\ c.state = "error" => "lost" \in faults \/ IsWrite(c)

TabFits ==
    /\ \A k \in DOMAIN calls : CallFits(calls[k])
    /\ view = "metrics" => shown = Nil /\ ~form.open
    /\ form.id \in Socks \cup {Nil}

\* The form has one call under way at most, and waits for it.
FormWaits ==
    /\ \A j, k \in DOMAIN calls : FormCall(j) /\ FormCall(k) => j = k
    /\ loading <=> \E k \in DOMAIN calls : FormCall(k)
    /\ form.open /\ ~form.over /\ (loading \/ form.error) => form.tried

\* Calls are served in order, and those of the pages left behind come first.
Queued ==
    Orderly =>
        /\ \A j, k \in DOMAIN calls : j < k /\ Unserved(j) => Unserved(k)
        /\ \A j, k \in DOMAIN calls : j < k /\ calls[j].live => calls[k].live
        /\ calls # <<>> => calls[Len(calls)].live

\* The chart has its range, or the last call will bring it.
ChartComing ==
    Orderly /\ view = "metrics" =>
        IF calls = <<>> THEN charted = range
        ELSE calls[Len(calls)].op = "metrics" /\ calls[Len(calls)].range = range

\* Nobody but this tab, over a network that works.
Alone == faults \subseteq {"impatient"}

\* What a page that was left may still change, the next one is yet to fetch.
FetchedAfter ==
    Alone /\ view # "metrics" =>
        \A j \in DOMAIN calls : ~calls[j].live /\ Unserved(j) =>
            \E k \in DOMAIN calls : Lists(k) /\ Unserved(k)

\* The rows there are will be fetched, have been, or are shown.
ToBeFetched ==
    \E k \in DOMAIN calls :
        \/ calls[k].live /\ IsWrite(calls[k]) /\ calls[k].state = "ok"
        \/ Lists(k) /\ Unserved(k)
Fetched ==
    \E k \in DOMAIN calls :
        /\ Lists(k) /\ calls[k].state = "ok" /\ calls[k].rows = Rows(view)
        /\ \A j \in DOMAIN calls : Lists(j) => j <= k
Current ==
    /\ \A k \in DOMAIN calls : ~Lists(k)
    /\ shown \in {Nil, Rows(view)}

RowsComing == Alone /\ view # "metrics" => ToBeFetched \/ Fetched \/ Current

\* Of a form that was opened with no call under way: its own call is the only
\* one, and what the form and then the put start from is what the table has.
Undisturbed ==
    Alone =>
        /\ form.open /\ ~form.early => \A k \in DOMAIN calls : FormCall(k)
        /\ form.open /\ form.id # Nil /\ ~form.early =>
              form.row = db[form.id] \/ \E k \in DOMAIN calls : calls[k].state = "ok"
        /\ \A k \in DOMAIN calls :
              calls[k].op = "put" /\ Unserved(k) /\ ~calls[k].early =>
                k = 1 /\ calls[k].base = db[calls[k].id]

TabInv ==
    /\ TabTypeOK /\ TabFits
    /\ FormWaits
    /\ Queued /\ ChartComing
    /\ FetchedAfter /\ RowsComing
    /\ Undisturbed

-----------------------------------------------------------------------------
\* Sequences: one more at the end; one less; one changed.
LEMMA OneMore ==
  ASSUME NEW S, NEW s \in Seq(S), NEW c \in S
  PROVE  /\ Append(s, c) \in Seq(S) /\ Len(Append(s, c)) = Len(s) + 1
         /\ DOMAIN Append(s, c) = DOMAIN s \cup {Len(s) + 1} /\ Len(s) + 1 \notin DOMAIN s
         /\ \A j \in DOMAIN s : Append(s, c)[j] = s[j] /\ j <= Len(s)
         /\ Append(s, c)[Len(s) + 1] = c
         /\ Append(s, c) # <<>>
  OBVIOUS

LEMMA OneLess ==
  ASSUME NEW S, NEW s \in Seq(S), NEW k \in DOMAIN s, NEW r,
         r = [j \in 1..(Len(s) - 1) |-> IF j < k THEN s[j] ELSE s[j + 1]]
  PROVE  /\ r \in Seq(S) /\ Len(r) = Len(s) - 1 /\ DOMAIN r = 1..(Len(s) - 1)
         /\ \A j \in DOMAIN r : r[j] = s[IF j < k THEN j ELSE j + 1]
<1>1. Len(s) \in Nat /\ DOMAIN s = 1..Len(s) /\ Len(s) - 1 \in Nat
  OBVIOUS
<1>2. \A j \in 1..(Len(s) - 1) : r[j] \in S /\ r[j] = s[IF j < k THEN j ELSE j + 1]
  BY <1>1
<1>3. DOMAIN r = 1..(Len(s) - 1)
  OBVIOUS
<1> QED BY <1>1, <1>2, <1>3

LEMMA RequestType ==
  ASSUME NEW op \in {"list", "metrics", "post", "put", "delete"}, view \in Views
  PROVE  Bare(op) \in Request
BY DEF Bare, Request, Views

LEMMA RowsType ==
  ASSUME TabTypeOK, NEW v \in Views
  PROVE  Rows(v) \in Table
<1> DEFINE T == Rows(v)
<1>1. \A i \in Ids : T[i] \in RowOf(i) \cup {NoRow} /\ T[i] \in Row \cup {NoRow}
  <2> TAKE i \in Ids
  <2>1. (T[i] = db[i] /\ db[i] \in Row) \/ T[i] = NoRow
    BY DEF Rows
  <2>2. db[i] \in Row => db[i] \in RowOf(i)
    BY PagesAssumption DEF TabTypeOK
  <2> QED BY <2>1, <2>2
<1>2. T \in [Ids -> Row \cup {NoRow}]
  BY <1>1 DEF Rows
<1> QED BY <1>1, <1>2 DEF Table

\* What a page fetches.
LEMMA FetchType ==
  ASSUME TabTypeOK, NEW v \in Views, NEW r \in Ranges
  PROVE  /\ Fetch(v, r) \in Request
         /\ LET c == Fetch(v, r) IN
              /\ c.live /\ c.view = v /\ ~c.form /\ c.state = "sent" /\ ~IsWrite(c)
              /\ v = "metrics" => c.op = "metrics" /\ c.range = r
              /\ v # "metrics" => c.op = "list"
<1>1. Bare("list") \in Request /\ Bare("metrics") \in Request
  BY RequestType DEF TabTypeOK
<1> QED BY <1>1 DEF Fetch, Bare, Request, IsWrite, Views

-----------------------------------------------------------------------------
\* What a step does to the calls.

\* The page is left.
LEMMA LeftStep ==
  ASSUME TabTypeOK, NEW v \in Views, Visit(v)
  PROVE  /\ calls' \in Seq(Request) /\ Len(calls') = Len(calls) + 1 /\ Len(calls) < MaxCalls
         /\ calls'[Len(calls) + 1] = Fetch(v, DefaultRange)
         /\ \A j \in 1..Len(calls) :
              /\ ~calls'[j].live
              /\ \A f \in {"op", "view", "id", "row", "base", "early", "form", "state", "range", "rows"} :
                    calls'[j][f] = calls[j][f]
<1> DEFINE left == Abandoned
<1>1. calls \in Seq(Request) /\ Len(calls) \in Nat /\ DOMAIN calls = 1..Len(calls)
  BY DEF TabTypeOK
<1>2. \A j \in 1..Len(calls) : calls[j] \in Request
  BY <1>1
<1>3. left = [j \in 1..Len(calls) |-> [calls[j] EXCEPT !.live = FALSE]]
  BY <1>1 DEF Abandoned
<1> HIDE DEF left
<1>4. ASSUME NEW j \in 1..Len(calls)
      PROVE  /\ left[j] \in Request /\ ~left[j].live
             /\ \A f \in {"op", "view", "id", "row", "base", "early", "form", "state", "range", "rows"} :
                   left[j][f] = calls[j][f]
  <2> DEFINE c == calls[j]  d == [c EXCEPT !.live = FALSE]
  <2>1. left[j] = d /\ c \in Request
    BY <1>2, <1>3
  <2> HIDE DEF c
  <2>2. /\ d \in Request /\ ~d.live
        /\ \A f \in {"op", "view", "id", "row", "base", "early", "form", "state", "range", "rows"} : d[f] = c[f]
    BY <2>1 DEF Request
  <2> QED BY <2>1, <2>2 DEF c
<1>5. left \in Seq(Request) /\ Len(left) = Len(calls) /\ DOMAIN left = 1..Len(calls)
  <2>1. \A j \in 1..Len(calls) : [calls[j] EXCEPT !.live = FALSE] \in Request
    BY <1>3, <1>4
  <2> QED BY <1>1, <1>3, <2>1
<1>6. Fetch(v, DefaultRange) \in Request
  BY FetchType, PagesAssumption
<1>7. calls' = Append(left, Fetch(v, DefaultRange)) /\ Len(calls) < MaxCalls
  BY DEF Visit, Room, left
<1> QED BY <1>1, <1>3, <1>4, <1>5, <1>6, <1>7

\* A call is served or lost.
Marked(k, ok, rows) ==
    /\ calls' \in Seq(Request) /\ Len(calls') = Len(calls)
    /\ \A j \in DOMAIN calls : j # k => calls'[j] = calls[j]
    /\ calls'[k].state = (IF ok THEN "ok" ELSE "error") /\ calls'[k].rows = rows
    /\ \A f \in {"op", "view", "form", "live", "range"} : calls'[k][f] = calls[k][f]

LEMMA MarkStep ==
  ASSUME TabTypeOK, NEW k \in DOMAIN calls, NEW ok \in BOOLEAN, NEW rows \in Table \cup {Nil},
         Serve(k, ok, rows)
  PROVE  Marked(k, ok, rows)
<1> DEFINE c == [calls[k] EXCEPT !.state = IF ok THEN "ok" ELSE "error", !.rows = rows,
                                 !.id = Nil, !.row = Nil, !.base = Nil, !.early = FALSE]
<1>1. calls \in Seq(Request) /\ Len(calls) \in Nat /\ DOMAIN calls = 1..Len(calls) /\ calls[k] \in Request
  BY DEF TabTypeOK
<1>2. /\ c \in Request
      /\ c.state = (IF ok THEN "ok" ELSE "error") /\ c.rows = rows
      /\ \A f \in {"op", "view", "form", "live", "range"} : c[f] = calls[k][f]
  BY <1>1 DEF Request
<1>3. calls' = [calls EXCEPT ![k] = c]
  BY DEF Serve
<1> HIDE DEF c
<1> QED BY <1>1, <1>2, <1>3 DEF Marked

\* A call is answered.
Asks(k) == calls[k].live /\ IsWrite(calls[k]) /\ calls[k].state = "ok"

LEMMA AnswerStep ==
  ASSUME TabTypeOK, NEW k, AnswerCall(k)
  PROVE  /\ k \in DOMAIN calls /\ ~Unserved(k) /\ (Orderly => k = 1)
         /\ calls' \in Seq(Request)
         /\ Len(calls') = (IF Asks(k) THEN Len(calls) ELSE Len(calls) - 1)
         /\ \A j \in 1..(Len(calls) - 1) : calls'[j] = calls[IF j < k THEN j ELSE j + 1]
         /\ Asks(k) => calls'[Len(calls)] = Fetch(view, range)
<1> DEFINE r == Others(k)
<1>1. k \in DOMAIN calls /\ ~Unserved(k) /\ calls \in Seq(Request) /\ Len(calls) \in Nat
      /\ DOMAIN calls = 1..Len(calls)
  BY DEF AnswerCall, TabTypeOK, Unserved
<1>2. /\ r \in Seq(Request) /\ Len(r) = Len(calls) - 1
      /\ \A j \in DOMAIN r : r[j] = calls[IF j < k THEN j ELSE j + 1]
      /\ DOMAIN r = 1..(Len(calls) - 1)
  BY <1>1, OneLess DEF Others
<1>3. calls' = r \o (IF calls[k].live /\ IsWrite(calls[k]) THEN Again(calls[k]) ELSE <<>>)
  BY DEF AnswerCall
<1>4. Orderly => k = 1
  <2> SUFFICES ASSUME Orderly, k # 1 PROVE FALSE
    OBVIOUS
  <2>1. 1 \in 1..(k - 1) /\ "reorder" \notin faults
    BY <1>1 DEF Orderly
  <2> QED BY <2>1 DEF AnswerCall, InOrder
<1>5. Fetch(view, range) \in Request
  BY FetchType DEF TabTypeOK
<1> HIDE DEF r
<1>6. CASE Asks(k)
  <2>1. calls' = r \o <<Fetch(view, range)>>
    BY <1>3, <1>6 DEF Asks, Again
  <2>2. r \o <<Fetch(view, range)>> = Append(r, Fetch(view, range))
    BY <1>2, <1>5
  <2>3. /\ calls' \in Seq(Request) /\ Len(calls') = Len(calls)
        /\ \A j \in DOMAIN r : calls'[j] = r[j]
        /\ calls'[Len(calls)] = Fetch(view, range)
    <3>1. calls' = Append(r, Fetch(view, range)) /\ Len(r) + 1 = Len(calls)
      BY <1>1, <1>2, <2>1, <2>2
    <3> DEFINE x == Fetch(view, range)  s == Append(r, x)
    <3> HIDE DEF x, s
    <3>2. /\ s \in Seq(Request) /\ Len(s) = Len(r) + 1
          /\ \A j \in DOMAIN r : s[j] = r[j]
          /\ s[Len(r) + 1] = x
      BY <1>2, <1>5, OneMore DEF s, x
    <3>3. calls' = s
      BY <3>1 DEF s, x
    <3> QED BY <3>1, <3>2, <3>3 DEF x
  <2> QED BY <1>1, <1>2, <1>4, <1>6, <2>3
<1>7. CASE ~Asks(k)
  <2>1. calls' = r \o <<>>
    BY <1>3, <1>7 DEF Asks, Again
  <2>2. calls' = r
    BY <1>2, <2>1
  <2> QED BY <1>1, <1>2, <1>4, <1>7, <2>2
<1> QED BY <1>6, <1>7

LEMMA Positions ==
  ASSUME TabTypeOK
  PROVE  /\ Len(calls) \in Nat /\ DOMAIN calls = 1..Len(calls)
         /\ \A k \in DOMAIN calls : calls[k] \in Request
         /\ calls = <<>> <=> Len(calls) = 0
BY DEF TabTypeOK

\* Where the calls are after an answer, and where they were.
LEMMA AnswerPositions ==
  ASSUME TabTypeOK, NEW k, AnswerCall(k)
  PROVE  /\ k \in DOMAIN calls /\ ~Unserved(k) /\ (Orderly => k = 1)
         /\ \A j \in DOMAIN calls' :
              \/ \E i \in DOMAIN calls : i # k /\ calls'[j] = calls[i] /\ (j < k => i = j) /\ (j >= k => i = j + 1)
              \/ Asks(k) /\ j = Len(calls) /\ calls'[j] = Fetch(view, range)
         /\ \A i \in DOMAIN calls :
              i # k => \E j \in DOMAIN calls' :
                          calls'[j] = calls[i] /\ (i < k => j = i) /\ (i > k => j = i - 1)
         /\ Asks(k) => Len(calls) \in DOMAIN calls' /\ calls'[Len(calls)] = Fetch(view, range)
<1> DEFINE f == Fetch(view, range)
<1> HIDE DEF f
<1>1. PICK n \in Nat : n = Len(calls) /\ DOMAIN calls = 1..n
  BY Positions
<1>2. /\ k \in 1..n /\ ~Unserved(k) /\ (Orderly => k = 1)
      /\ calls' \in Seq(Request)
      /\ Len(calls') = (IF Asks(k) THEN n ELSE n - 1)
      /\ \A j \in 1..(n - 1) : calls'[j] = calls[IF j < k THEN j ELSE j + 1]
      /\ Asks(k) => calls'[n] = f
  BY <1>1, AnswerStep DEF f
<1>3. PICK m \in Nat : m = Len(calls') /\ DOMAIN calls' = 1..m /\ m = IF Asks(k) THEN n ELSE n - 1
  BY <1>2
<1>4. ASSUME NEW j \in 1..m, j <= n - 1
      PROVE  \E i \in 1..n : i # k /\ calls'[j] = calls[i] /\ (j < k => i = j) /\ (j >= k => i = j + 1)
  <2>1. CASE j < k
    BY <1>2, <1>4, <2>1
  <2>2. CASE ~(j < k)
    BY <1>2, <1>4, <2>2
  <2> QED BY <2>1, <2>2
<1>5. ASSUME NEW j \in 1..m, ~(j <= n - 1) PROVE Asks(k) /\ j = n /\ calls'[j] = f
  BY <1>2, <1>3, <1>5
<1>6. ASSUME NEW i \in 1..n, i # k
      PROVE  \E j \in 1..m : calls'[j] = calls[i] /\ (i < k => j = i) /\ (i > k => j = i - 1)
  <2>1. CASE i < k
    BY <1>2, <1>3, <1>6, <2>1
  <2>2. CASE i > k
    BY <1>2, <1>3, <1>6, <2>2
  <2> QED BY <1>2, <1>6, <2>1, <2>2
<1>7. Asks(k) => n \in 1..m /\ calls'[n] = f
  BY <1>2, <1>3
<1> QED BY <1>1, <1>2, <1>3, <1>4, <1>5, <1>6, <1>7 DEF f

\* A call is served: what it brings, or what it changes.
Written(c) ==
    /\ db' = [db EXCEPT ![c.id] = IF c.op = "delete" THEN Gone ELSE c.row]
    /\ c.op = "post" => db[c.id] = NoRow
    /\ c.op # "post" => db[c.id] \in Row

Served(k, ok, rows) ==
    /\ Marked(k, ok, rows)
    /\ \/ calls[k].op = "list" /\ ok /\ rows = Rows(calls[k].view) /\ db' = db
       \/ calls[k].op = "metrics" /\ ok /\ rows = Nil /\ db' = db
       \/ IsWrite(calls[k]) /\ rows = Nil /\ (IF ok THEN Written(calls[k]) ELSE db' = db)

LEMMA ServeStep ==
  ASSUME TabTypeOK, NEW k, ServeCall(k)
  PROVE  /\ k \in DOMAIN calls /\ Unserved(k) /\ UNCHANGED <<tab, faults>>
         /\ Orderly => \A j \in DOMAIN calls : j < k => ~Unserved(j)
         /\ \E ok \in BOOLEAN, rows \in Table \cup {Nil} : Served(k, ok, rows)
<1>1. /\ k \in DOMAIN calls /\ Unserved(k) /\ UNCHANGED <<tab, faults>>
      /\ calls \in Seq(Request) /\ Len(calls) \in Nat /\ DOMAIN calls = 1..Len(calls)
      /\ calls[k] \in Request
  BY DEF ServeCall, TabTypeOK, Unserved
<1>2. ASSUME Orderly, NEW j \in DOMAIN calls, j < k PROVE ~Unserved(j)
  <2>1. j \in 1..(k - 1) /\ "reorder" \notin faults
    BY <1>1, <1>2 DEF Orderly
  <2> QED BY <2>1 DEF ServeCall, InOrder, Unserved
<1>3. \E ok \in BOOLEAN, rows \in Table \cup {Nil} : Served(k, ok, rows)
  <2>1. CASE ServeFetch(k)
    <3>1. CASE calls[k].op = "list"
      <4>1. PICK rows : rows = Rows(calls[k].view)
        OBVIOUS
      <4>2. rows \in Table
        BY <1>1, <4>1, RowsType DEF Request
      <4>3. Serve(k, TRUE, rows) /\ db' = db
        BY <2>1, <3>1, <4>1 DEF ServeFetch
      <4>4. Marked(k, TRUE, rows)
        BY <1>1, <4>2, <4>3, MarkStep
      <4> QED BY <3>1, <4>1, <4>2, <4>3, <4>4 DEF Served
    <3>2. CASE calls[k].op = "metrics"
      <4>3. Serve(k, TRUE, Nil) /\ db' = db
        BY <2>1, <3>2 DEF ServeFetch
      <4>4. Marked(k, TRUE, Nil)
        BY <1>1, <4>3, MarkStep
      <4> QED BY <3>2, <4>3, <4>4 DEF Served
    <3> QED BY <2>1, <3>1, <3>2 DEF ServeFetch
  <2>2. CASE ServeWrite(k)
    <3> DEFINE c == calls[k]
               can == CASE c.op = "post" -> db[c.id] = NoRow /\ ~PortTaken(c.id, c.row)
                        [] c.op = "put" -> db[c.id] \in Row /\ ~PortTaken(c.id, c.row)
                        [] c.op = "delete" -> db[c.id] \in Row
    <3>1. IsWrite(c)
      BY <2>2 DEF ServeWrite
    <3>2. PICK ok \in BOOLEAN : ok <=> can
      BY Zenon
    <3>3. /\ Serve(k, ok, Nil)
          /\ db' = IF ok THEN [db EXCEPT ![c.id] = IF c.op = "delete" THEN Gone ELSE c.row] ELSE db
      BY <2>2, <3>2 DEF ServeWrite
    <3>4. can => (c.op = "post" => db[c.id] = NoRow) /\ (c.op # "post" => db[c.id] \in Row)
      BY <3>1 DEF IsWrite
    <3>5. Marked(k, ok, Nil)
      BY <1>1, <3>3, MarkStep
    <3>6. IF ok THEN Written(c) ELSE db' = db
      BY <3>2, <3>3, <3>4 DEF Written
    <3> QED BY <3>1, <3>5, <3>6 DEF Served
  <2> QED BY <2>1, <2>2 DEF ServeCall
<1> QED BY <1>1, <1>2, <1>3

LEMMA LoseStep ==
  ASSUME TabTypeOK, NEW k, LoseCall(k)
  PROVE  k \in DOMAIN calls /\ "lost" \in faults /\ Marked(k, FALSE, Nil) /\ UNCHANGED <<db, tab, faults>>
<1>1. k \in DOMAIN calls /\ Serve(k, FALSE, Nil) /\ "lost" \in faults /\ UNCHANGED <<db, tab, faults>>
  BY DEF LoseCall
<1> QED BY <1>1, MarkStep

\* A write is sent.
Sent(c) ==
    /\ c \in Request /\ c.live /\ c.view = view /\ c.state = "sent" /\ IsWrite(c)
    /\ c.id \in Ids /\ (c.op \in {"post", "put"} => c.row \in RowOf(c.id))
    /\ c.form => c.op \in {"post", "put"}
    /\ calls' = Append(calls, c) /\ Len(calls) < MaxCalls

LEMMA SubmitStep ==
  ASSUME TabTypeOK, TabFits, NEW i \in Ids, NEW row \in SocksRow, SubmitUser(i, row)
  PROVE  \E c : /\ Sent(c) /\ c.form /\ view = "server"
                /\ c.op = "put" => /\ form.id # Nil /\ c.id = form.id
                                    /\ c.base = form.row /\ c.early = form.early
<1>1. CASE form.id = Nil /\ i \in Socks /\ Send([Bare("post") EXCEPT !.id = i, !.row = row, !.form = TRUE])
  <2>1. PICK c : c = [Bare("post") EXCEPT !.id = i, !.row = row, !.form = TRUE]
    OBVIOUS
  <2>2. /\ c \in Request /\ c.live /\ c.view = view /\ c.state = "sent" /\ IsWrite(c)
        /\ c.id = i /\ c.row = row /\ c.form /\ c.op = "post"
    <3>1. Bare("post") \in Request /\ row \in Row
      BY RequestType DEF TabTypeOK, Row
    <3>2. /\ Bare("post").live /\ Bare("post").view = view /\ Bare("post").state = "sent"
          /\ Bare("post").op = "post"
      BY DEF Bare
    <3> QED BY <2>1, <3>1, <3>2 DEF Request, IsWrite
  <2>3. Len(calls) < MaxCalls /\ calls' = Append(calls, c) /\ view = "server"
    BY <1>1, <2>1 DEF Send, Room, SubmitUser
  <2>4. c.row \in RowOf(c.id)
    BY <1>1, <2>2 DEF RowOf
  <2>5. Sent(c)
    BY <2>2, <2>3, <2>4 DEF Sent
  <2> QED BY <2>2, <2>3, <2>5
<1>2. CASE /\ form.id = i
           /\ Send([Bare("put") EXCEPT !.id = i, !.row = row, !.base = form.row, !.form = TRUE,
                                       !.early = form.early])
  <2>1. PICK c : c = [Bare("put") EXCEPT !.id = i, !.row = row, !.base = form.row, !.form = TRUE,
                                         !.early = form.early]
    OBVIOUS
  <2>2. /\ c \in Request /\ c.live /\ c.view = view /\ c.state = "sent" /\ IsWrite(c)
        /\ c.id = i /\ c.row = row /\ c.form /\ c.op = "put" /\ c.base = form.row /\ c.early = form.early
    <3>1. Bare("put") \in Request /\ form.row \in Row \cup {Nil} /\ row \in Row \cup {Nil}
          /\ form.early \in BOOLEAN
      BY RequestType DEF TabTypeOK, Form, Row
    <3>2. /\ Bare("put").live /\ Bare("put").view = view /\ Bare("put").state = "sent"
          /\ Bare("put").op = "put"
      BY DEF Bare
    <3> QED BY <2>1, <3>1, <3>2 DEF Request, IsWrite
  <2>3. i \in Socks /\ i # Nil
    BY <1>2, PagesAssumption DEF TabFits
  <2>4. Len(calls) < MaxCalls /\ calls' = Append(calls, c) /\ view = "server"
    BY <1>2, <2>1 DEF Send, Room, SubmitUser
  <2>5. c.row \in RowOf(c.id)
    BY <2>2, <2>3 DEF RowOf
  <2>6. Sent(c)
    BY <2>2, <2>4, <2>5 DEF Sent
  <2> QED BY <1>2, <2>2, <2>3, <2>4, <2>6
<1> QED BY <1>1, <1>2 DEF SubmitUser

LEMMA CreateStep ==
  ASSUME TabTypeOK, NEW i \in Ids, CreateAccount(i)
  PROVE  \E c : Sent(c) /\ c.form /\ c.op = "post" /\ view = "users"
<1>1. PICK c : c = [Bare("post") EXCEPT !.id = i, !.row = [active |-> TRUE], !.form = TRUE]
  OBVIOUS
<1>2. i \in Accounts /\ i \notin Socks /\ view = "users" /\ Len(calls) < MaxCalls /\ calls' = Append(calls, c)
  BY <1>1, PagesAssumption DEF CreateAccount, Send, Room
<1>3. /\ c \in Request /\ c.live /\ c.view = view /\ c.state = "sent" /\ IsWrite(c)
      /\ c.id = i /\ c.row = [active |-> TRUE] /\ c.form /\ c.op = "post"
  <2>1. Bare("post") \in Request
    BY RequestType DEF TabTypeOK
  <2>2. /\ Bare("post").live /\ Bare("post").view = view /\ Bare("post").state = "sent"
        /\ Bare("post").op = "post"
    BY DEF Bare
  <2>3. PICK row \in Row : row = [active |-> TRUE]
    BY DEF Row, AccountRow
  <2>4. c = [Bare("post") EXCEPT !.id = i, !.row = row, !.form = TRUE]
    BY <1>1, <2>3
  <2> QED BY <2>1, <2>2, <2>3, <2>4 DEF Request, IsWrite
<1>4. c.row \in RowOf(c.id)
  BY <1>2, <1>3 DEF RowOf, AccountRow
<1>5. Sent(c)
  BY <1>2, <1>3, <1>4 DEF Sent
<1> QED BY <1>2, <1>3, <1>5

LEMMA DeleteStep ==
  ASSUME TabTypeOK, TabFits, NEW i \in Ids, DeleteRow(i)
  PROVE  \E c : Sent(c) /\ ~c.form /\ c.op = "delete" /\ view # "metrics"
<1>1. PICK c : c = [Bare("delete") EXCEPT !.id = i]
  OBVIOUS
<1>2. Len(calls) < MaxCalls /\ calls' = Append(calls, c) /\ view # "metrics"
  BY <1>1 DEF DeleteRow, Send, Room, Acts, TabFits
<1>3. /\ c \in Request /\ c.live /\ c.view = view /\ c.state = "sent" /\ IsWrite(c)
      /\ c.id = i /\ ~c.form /\ c.op = "delete"
  BY <1>1, RequestType DEF TabTypeOK, Bare, Request, IsWrite
<1> QED BY <1>2, <1>3 DEF Sent

LEMMA ToggleStep ==
  ASSUME TabTypeOK, TabFits, NEW i \in Ids, Toggle(i)
  PROVE  \E c : /\ Sent(c) /\ ~c.form /\ c.op = "put" /\ view # "metrics"
                /\ c.id = i /\ c.base = shown[i] /\ shown # Nil /\ shown[i] # NoRow
                /\ c.early = (calls # <<>>)
<1>1. PICK c : c = [Bare("put") EXCEPT !.id = i, !.row = [active |-> ~shown[i].active], !.base = shown[i],
                                       !.early = (calls # <<>>)]
  OBVIOUS
<1>2. /\ Len(calls) < MaxCalls /\ calls' = Append(calls, c) /\ view # "metrics"
      /\ i \in Accounts /\ i \notin Socks /\ shown # Nil /\ shown[i] # NoRow
  BY <1>1, PagesAssumption DEF Toggle, Send, Room, Acts, TabFits
<1>3. shown[i] \in Row /\ shown[i].active \in BOOLEAN
  BY <1>2 DEF TabTypeOK, Table, RowOf, AccountRow, Row
<1>4. [active |-> ~shown[i].active] \in AccountRow
  BY <1>3 DEF AccountRow
<1>5. /\ c \in Request /\ c.live /\ c.view = view /\ c.state = "sent" /\ IsWrite(c)
      /\ c.id = i /\ ~c.form /\ c.op = "put" /\ c.base = shown[i] /\ c.row \in AccountRow
      /\ c.early = (calls # <<>>)
  <2>1. Bare("put") \in Request /\ [active |-> ~shown[i].active] \in Row
    BY <1>4, RequestType DEF TabTypeOK, Row
  <2>2. /\ Bare("put").live /\ Bare("put").view = view /\ Bare("put").state = "sent"
        /\ Bare("put").op = "put" /\ ~Bare("put").form
    BY DEF Bare
  <2> DEFINE row == [active |-> ~shown[i].active]
  <2> HIDE DEF row
  <2>3. PICK e \in BOOLEAN : e = (calls # <<>>)
    OBVIOUS
  <2>5. c = [Bare("put") EXCEPT !.id = i, !.row = row, !.base = shown[i], !.early = e]
    BY <1>1, <2>3 DEF row
  <2>4. row \in AccountRow /\ row \in Row
    BY <1>4, <2>1 DEF row
  <2> QED BY <1>3, <2>1, <2>2, <2>3, <2>4, <2>5 DEF Request, IsWrite
<1> QED BY <1>2, <1>5 DEF Sent, RowOf

\* A call is made.
Added(c) ==
    /\ calls' \in Seq(Request) /\ Len(calls') = Len(calls) + 1
    /\ \A j \in 1..Len(calls) : calls'[j] = calls[j]
    /\ calls'[Len(calls) + 1] = c

LEMMA AddStep ==
  ASSUME TabTypeOK, NEW c \in Request, calls' = Append(calls, c)
  PROVE  Added(c)
<1>1. calls \in Seq(Request) /\ Len(calls) \in Nat /\ DOMAIN calls = 1..Len(calls)
  BY DEF TabTypeOK
<1>2. PICK s : s = Append(calls, c)
  OBVIOUS
<1> QED BY <1>1, <1>2, OneMore DEF Added

\* The range is changed: one fetch more.
LEMMA RangeStep ==
  ASSUME TabTypeOK, NEW r \in Ranges, PickRange(r)
  PROVE  \E c : c = Fetch("metrics", r) /\ c \in Request /\ Added(c)
<1>1. PICK c : c = Fetch("metrics", r)
  OBVIOUS
<1>2. c \in Request
  BY <1>1, FetchType DEF Views
<1>3. calls' = calls \o <<c>> /\ calls \in Seq(Request)
  BY <1>1 DEF PickRange, RangeFetch, TabTypeOK
<1>4. calls' = Append(calls, c)
  BY <1>2, <1>3
<1> QED BY <1>1, <1>2, <1>4, AddStep

-----------------------------------------------------------------------------
\* Types.
LEMMA FormType ==
  ASSUME TabTypeOK
  PROVE  /\ Blank \in Form /\ Shut \in Form /\ Fresh \in Form
         /\ Fresh.open /\ ~Fresh.error /\ Fresh.id = Nil
         /\ Fresh.early = (calls # <<>>) /\ Fresh.over = loading
         /\ [form EXCEPT !.error = TRUE] \in Form
<1>1. Blank \in Form /\ ~Blank.error /\ Blank.id = Nil
  BY DEF Blank, Form
<1>2. PICK e \in BOOLEAN : e = (calls # <<>>)
  OBVIOUS
<1>3. Fresh = [Blank EXCEPT !.open = TRUE, !.early = e, !.over = loading]
  BY <1>2 DEF Fresh
<1>4. /\ Fresh \in Form /\ Fresh.open /\ ~Fresh.error /\ Fresh.id = Nil
      /\ Fresh.early = e /\ Fresh.over = loading
  BY <1>1, <1>3 DEF Form, TabTypeOK
<1> QED BY <1>1, <1>2, <1>4 DEF Shut, Form, TabTypeOK

LEMMA OpenedForm ==
  ASSUME TabTypeOK, NEW i \in Ids, OpenEdit(i)
  PROVE  /\ form' \in Form /\ form'.open /\ ~form'.error /\ form'.id = i /\ form'.row = shown[i]
         /\ form'.early = (calls # <<>>) /\ form'.over = loading
         /\ i \in Socks /\ shown # Nil /\ shown[i] # NoRow /\ shown[i] \in Row
<1>1. i \in Socks /\ shown # Nil /\ shown[i] # NoRow /\ form' = Opened(i)
  BY DEF OpenEdit, Acts
<1>2. shown[i] \in Row
  BY <1>1 DEF TabTypeOK, Table
<1> QED BY <1>1, <1>2, FormType DEF Opened, Form

LEMMA SavingForm ==
  ASSUME TabTypeOK, Saving
  PROVE  /\ form' \in Form /\ form'.open /\ ~form'.error /\ form'.tried
         /\ form'.id = form.id /\ form'.row = form.row /\ form'.early = form.early
         /\ form.open /\ ~loading /\ loading' /\ May
         /\ UNCHANGED <<db, view, shown, range, charted, faults>>
BY DEF Saving, TabTypeOK, Form

\* A write of the form, or of a button of the list.
LEMMA WriteTypes ==
  ASSUME TabTypeOK, NEW c, Sent(c)
  PROVE  Added(c) /\ calls' \in Seq(Request) /\ Len(calls') <= MaxCalls
<1>1. Added(c)
  BY AddStep DEF Sent
<1> QED BY <1>1, PagesAssumption DEF Added, Sent, TabTypeOK

LEMMA TabTypeStep ==
  ASSUME TabTypeOK, TabFits, [TabNext]_tabVars
  PROVE  TabTypeOK'
<1> USE DEF TabTypeOK
<1>1. CASE UNCHANGED tabVars
  BY <1>1 DEF tabVars, tab
<1>2. ASSUME NEW v \in Views, Visit(v) PROVE TabTypeOK'
  <2>1. calls' \in Seq(Request) /\ Len(calls') <= MaxCalls
    BY <1>2, LeftStep, PagesAssumption
  <2>2. Blank \in Form
    BY FormType
  <2> QED BY <1>2, <2>1, <2>2, PagesAssumption DEF Visit
<1>3. ASSUME NEW r \in Ranges, PickRange(r) PROVE TabTypeOK'
  <2>1. calls' \in Seq(Request) /\ Len(calls') <= MaxCalls
    BY <1>3, RangeStep, PagesAssumption DEF Added, PickRange, Room
  <2> QED BY <1>3, <2>1 DEF PickRange
<1>4. CASE OpenAdd
  BY <1>4, FormType DEF OpenAdd
<1>5. CASE Cancel
  BY <1>5, FormType DEF Cancel
<1>6. ASSUME NEW i \in Ids, OpenEdit(i) PROVE TabTypeOK'
  BY <1>6, OpenedForm DEF OpenEdit
<1>7. ASSUME NEW i \in Ids, DeleteRow(i) PROVE TabTypeOK'
  <2>1. calls' \in Seq(Request) /\ Len(calls') <= MaxCalls
    BY <1>7, DeleteStep, WriteTypes
  <2> QED BY <1>7, <2>1 DEF DeleteRow, tab
<1>8. ASSUME NEW i \in Ids, Toggle(i) PROVE TabTypeOK'
  <2>1. calls' \in Seq(Request) /\ Len(calls') <= MaxCalls
    BY <1>8, ToggleStep, WriteTypes
  <2> QED BY <1>8, <2>1 DEF Toggle, tab
<1>9. ASSUME NEW i \in Ids, CreateAccount(i) PROVE TabTypeOK'
  <2>1. calls' \in Seq(Request) /\ Len(calls') <= MaxCalls
    BY <1>9, CreateStep, WriteTypes
  <2>2. loading' = TRUE
    BY <1>9 DEF CreateAccount, Saving
  <2> QED BY <1>9, <2>1, <2>2, SavingForm DEF CreateAccount
<1>10. ASSUME NEW i \in Ids, NEW row \in SocksRow, SubmitUser(i, row) PROVE TabTypeOK'
  <2>1. calls' \in Seq(Request) /\ Len(calls') <= MaxCalls
    BY <1>10, SubmitStep, WriteTypes
  <2>2. loading' = TRUE
    BY <1>10 DEF SubmitUser, Saving
  <2> QED BY <1>10, <2>1, <2>2, SavingForm DEF SubmitUser
<1>11. ASSUME NEW i \in Ids, NEW row \in Row \cup {Gone}, OthersChange(i, row) PROVE TabTypeOK'
  <2>1. row \in RowOf(i) \cup {Gone}
    BY <1>11 DEF OthersChange
  <2>2. db' = [db EXCEPT ![i] = row] /\ UNCHANGED <<tab, calls, faults>>
    BY <1>11 DEF OthersChange
  <2> QED BY <2>1, <2>2 DEF tab
<1>12. ASSUME NEW k, ServeCall(k) PROVE TabTypeOK'
  <2>1. PICK ok \in BOOLEAN, rows \in Table \cup {Nil} : Served(k, ok, rows)
    BY <1>12, ServeStep
  <2>2. k \in DOMAIN calls /\ Unserved(k) /\ UNCHANGED <<tab, faults>>
    BY <1>12, ServeStep
  <2>3. calls' \in Seq(Request) /\ Len(calls') <= MaxCalls
    BY <2>1 DEF Served, Marked
  <2>4. CASE db' = db
    BY <2>2, <2>3, <2>4 DEF tab
  <2>5. CASE IsWrite(calls[k]) /\ Written(calls[k])
    <3>1. /\ calls[k].id \in Ids
          /\ calls[k].op # "delete" => calls[k].row \in RowOf(calls[k].id)
      BY <2>2, <2>5 DEF TabFits, CallFits, Unserved, IsWrite
    <3>2. PICK row : row = IF calls[k].op = "delete" THEN Gone ELSE calls[k].row
      OBVIOUS
    <3>3. PICK i \in Ids : i = calls[k].id
      BY <3>1
    <3>4. db' = [db EXCEPT ![i] = row] /\ row \in RowOf(i) \cup {Gone} /\ row \in Row \cup {Gone}
      BY <2>5, <3>1, <3>2, <3>3 DEF Written, RowOf, Row
    <3> QED BY <2>2, <2>3, <3>4 DEF tab
  <2> QED BY <2>1, <2>4, <2>5 DEF Served
<1>13. ASSUME NEW k, LoseCall(k) PROVE TabTypeOK'
  BY <1>13, LoseStep DEF Marked, tab
<1>14. ASSUME NEW k, AnswerCall(k) PROVE TabTypeOK'
  <2>1. k \in DOMAIN calls /\ calls' \in Seq(Request) /\ Len(calls') <= MaxCalls
    BY <1>14, AnswerStep, PagesAssumption
  <2>2. UNCHANGED <<db, view, range, faults>>
    BY <1>14 DEF AnswerCall
  <2>3. shown' \in Table \cup {Nil} /\ charted' \in Ranges \cup {Nil}
    <3>1. CASE Shown(calls[k]) /\ calls[k].op \in {"list", "metrics"}
      <4>1. [i \in Ids |-> NoRow] \in Table
        BY DEF Table
      <4>2. calls[k].rows \in Table \cup {Nil} /\ calls[k].range \in Ranges \cup {Nil}
        <5>1. calls[k] \in Request
          BY <2>1
        <5> QED BY <5>1 DEF Request
      <4> QED BY <3>1, <4>1, <4>2 DEF Shown
    <3>2. CASE UNCHANGED <<shown, charted>>
      BY <3>2
    <3> QED BY <1>14, <3>1, <3>2 DEF AnswerCall, Saved
  <2>4. form' \in Form /\ loading' \in BOOLEAN
    BY <1>14, FormType DEF AnswerCall, Saved, Shown, LoadingAfter
  <2> QED BY <2>1, <2>2, <2>3, <2>4
<1> QED
  BY <1>1, <1>2, <1>3, <1>4, <1>5, <1>6, <1>7, <1>8, <1>9, <1>10, <1>11, <1>12, <1>13, <1>14 DEF TabNext

-----------------------------------------------------------------------------
\* Calls fit the pages that made them.
CallsFit == \A k \in DOMAIN calls : CallFits(calls[k])

LEMMA FetchFits ==
  ASSUME TabTypeOK, NEW c, NEW v \in Views, NEW r \in Ranges, c = Fetch(v, r), v = view
  PROVE  CallFits(c)
<1>1. /\ c.live /\ c.view = v /\ ~c.form /\ c.state = "sent" /\ ~IsWrite(c) /\ c \in Request
      /\ v = "metrics" => c.op = "metrics" /\ c.range = r
      /\ v # "metrics" => c.op = "list"
  BY FetchType
<1> QED BY <1>1 DEF CallFits

LEMMA WriteFits ==
  ASSUME TabTypeOK, NEW c, Sent(c), view # "metrics"
  PROVE  CallFits(c)
BY DEF Sent, CallFits, IsWrite

LEMMA AddFits ==
  ASSUME TabTypeOK, TabTypeOK', CallsFit, NEW c, Added(c), CallFits(c), UNCHANGED <<view, faults>>
  PROVE  CallsFit'
<1> SUFFICES ASSUME NEW k \in (DOMAIN calls)' PROVE CallFits(calls[k])'
  BY DEF CallsFit
<1>1. k \in 1..(Len(calls) + 1)
  BY Positions DEF Added, TabTypeOK
<1>2. PICK d : d = calls'[k] /\ CallFits(d)
  BY <1>1, Positions DEF Added, CallsFit
<1>3. CallFits(d)'
  BY <1>2 DEF CallFits
<1> QED BY <1>2, <1>3 DEF CallFits, IsWrite

LEMMA MarkFits ==
  ASSUME TabTypeOK, TabTypeOK', CallsFit, NEW k \in DOMAIN calls, NEW ok \in BOOLEAN,
         NEW rows \in Table \cup {Nil}, Marked(k, ok, rows), UNCHANGED <<view, faults>>,
         ok /\ calls[k].op = "list" => rows \in Table,
         ~ok => "lost" \in faults \/ IsWrite(calls[k])
  PROVE  CallsFit'
<1> SUFFICES ASSUME NEW j \in (DOMAIN calls)' PROVE CallFits(calls[j])'
  BY DEF CallsFit
<1>1. j \in DOMAIN calls /\ CallFits(calls[j])
  BY Positions DEF Marked, CallsFit, TabTypeOK
<1>2. CASE j # k
  <2>1. calls'[j] = calls[j]
    BY <1>1, <1>2 DEF Marked
  <2> QED BY <1>1, <2>1 DEF CallFits, IsWrite
<1>3. CASE j = k
  <2>1. /\ calls'[j].op = calls[j].op /\ calls'[j].view = calls[j].view
        /\ calls'[j].form = calls[j].form /\ calls'[j].live = calls[j].live
        /\ calls'[j].range = calls[j].range
        /\ calls'[j].state = (IF ok THEN "ok" ELSE "error") /\ calls'[j].rows = rows
    BY <1>3 DEF Marked
  <2> QED BY <1>1, <1>3, <2>1 DEF CallFits, IsWrite
<1> QED BY <1>2, <1>3

LEMMA AnswerFits ==
  ASSUME TabTypeOK, TabTypeOK', CallsFit, NEW k, AnswerCall(k)
  PROVE  CallsFit'
<1> SUFFICES ASSUME NEW j \in (DOMAIN calls)' PROVE CallFits(calls[j])'
  BY DEF CallsFit
<1>1. PICK d : d = calls'[j]
  OBVIOUS
<1>2. CallFits(d)
  <2>1. CASE \E i \in DOMAIN calls : d = calls[i]
    BY <2>1 DEF CallsFit
  <2>2. CASE d = Fetch(view, range)
    BY <2>2, FetchFits DEF TabTypeOK
  <2> QED BY <1>1, <2>1, <2>2, AnswerPositions
<1>3. UNCHANGED <<view, faults>>
  BY DEF AnswerCall
<1> QED BY <1>1, <1>2, <1>3 DEF CallFits, IsWrite

LEMMA LeftFits ==
  ASSUME TabTypeOK, TabTypeOK', CallsFit, NEW v \in Views, Visit(v)
  PROVE  CallsFit'
<1>1. /\ Len(calls') = Len(calls) + 1 /\ calls'[Len(calls) + 1] = Fetch(v, DefaultRange)
      /\ view' = v /\ faults' = faults
  BY LeftStep DEF Visit
<1> SUFFICES ASSUME NEW j \in (DOMAIN calls)' PROVE CallFits(calls[j])'
  BY DEF CallsFit
<1>2. CASE j \in 1..Len(calls)
  <2>1. CallFits(calls[j])
    BY <1>2, Positions DEF CallsFit
  <2>2. /\ ~calls'[j].live /\ calls'[j].op = calls[j].op /\ calls'[j].view = calls[j].view
        /\ calls'[j].form = calls[j].form /\ calls'[j].state = calls[j].state
        /\ calls'[j].id = calls[j].id /\ calls'[j].row = calls[j].row
        /\ calls'[j].range = calls[j].range /\ calls'[j].rows = calls[j].rows
    BY <1>2, LeftStep
  <2> QED BY <1>1, <2>1, <2>2 DEF CallFits, IsWrite
<1>3. CASE j \notin 1..Len(calls)
  <2>1. calls'[j] = Fetch(v, DefaultRange)
    BY <1>1, <1>3, Positions DEF TabTypeOK
  <2>2. PICK c : c = Fetch(v, DefaultRange)
    OBVIOUS
  <2>3. /\ c.live /\ c.view = v /\ ~c.form /\ c.state = "sent" /\ ~IsWrite(c)
        /\ v = "metrics" => c.op = "metrics" /\ c.range = DefaultRange
        /\ v # "metrics" => c.op = "list"
    BY <2>2, FetchType, PagesAssumption
  <2> QED BY <1>1, <2>1, <2>2, <2>3, PagesAssumption DEF CallFits, IsWrite
<1> QED BY <1>2, <1>3

LEMMA TabFitsStep ==
  ASSUME TabTypeOK, TabTypeOK', TabFits, [TabNext]_tabVars
  PROVE  TabFits'
<1> USE DEF TabFits
<1>0. CallsFit
  BY DEF CallsFit
<1>a. CallsFit' => (\A k \in DOMAIN calls : CallFits(calls[k]))'
  BY DEF CallsFit
<1>1. CASE UNCHANGED tabVars
  BY <1>1 DEF tabVars, tab, CallFits, IsWrite
<1>2. ASSUME NEW v \in Views, Visit(v) PROVE TabFits'
  <2>1. form'.id = Nil /\ ~form'.open /\ shown' = Nil
    BY <1>2 DEF Visit, Blank
  <2> QED BY <1>0, <1>a, <1>2, <2>1, LeftFits
<1>3. ASSUME NEW r \in Ranges, PickRange(r) PROVE TabFits'
  <2>1. PICK c : c = Fetch("metrics", r) /\ c \in Request /\ Added(c)
    BY <1>3, RangeStep
  <2>2. view = "metrics" /\ UNCHANGED <<view, shown, form, faults>>
    BY <1>3 DEF PickRange
  <2>3. CallFits(c)
    BY <2>1, <2>2, FetchFits DEF Views
  <2> QED BY <1>0, <1>a, <2>1, <2>2, <2>3, AddFits
<1>4. CASE OpenAdd
  <2>1. form'.id = Nil /\ view # "metrics" /\ UNCHANGED <<view, shown, calls, faults>>
    BY <1>4, <1>a, FormType DEF OpenAdd
  <2> QED BY <2>1 DEF CallFits, IsWrite
<1>5. CASE Cancel
  <2>1. form'.id = Nil /\ ~form'.open /\ UNCHANGED <<view, shown, calls, faults>>
    BY <1>5 DEF Cancel, Shut, Blank
  <2> QED BY <2>1 DEF CallFits, IsWrite
<1>6. ASSUME NEW i \in Ids, OpenEdit(i) PROVE TabFits'
  <2>1. form'.id \in Socks /\ shown # Nil /\ UNCHANGED <<view, shown, calls, faults>>
    BY <1>6, OpenedForm DEF OpenEdit
  <2> QED BY <2>1 DEF CallFits, IsWrite
<1>7. ASSUME NEW c, Sent(c), view # "metrics", UNCHANGED <<view, faults>>, form'.id = form.id
      PROVE  TabFits'
  BY <1>0, <1>a, <1>7, WriteFits, WriteTypes, AddFits
<1>8. ASSUME NEW i \in Ids, DeleteRow(i) \/ Toggle(i) \/ CreateAccount(i) PROVE TabFits'
  <2>1. UNCHANGED <<view, faults>> /\ form'.id = form.id
    BY <1>8, SavingForm DEF DeleteRow, Toggle, CreateAccount, tab
  <2> QED BY <1>7, <1>8, <2>1, DeleteStep, ToggleStep, CreateStep
<1>10. ASSUME NEW i \in Ids, NEW row \in SocksRow, SubmitUser(i, row) PROVE TabFits'
  <2>1. UNCHANGED <<view, faults>> /\ form'.id = form.id
    BY <1>10, SavingForm DEF SubmitUser
  <2>2. PICK c : Sent(c) /\ view = "server"
    BY <1>10, SubmitStep
  <2> QED BY <1>7, <2>1, <2>2
<1>11. ASSUME NEW i \in Ids, NEW row \in Row \cup {Gone}, OthersChange(i, row) PROVE TabFits'
  BY <1>11 DEF OthersChange, tab, CallFits, IsWrite
<1>12. ASSUME NEW k, ServeCall(k) PROVE TabFits'
  <2>1. PICK ok \in BOOLEAN, rows \in Table \cup {Nil} : Served(k, ok, rows)
    BY <1>12, ServeStep
  <2>2. k \in DOMAIN calls /\ UNCHANGED <<view, shown, form, faults>>
    BY <1>12, ServeStep DEF tab
  <2>3. ok /\ calls[k].op = "list" => rows \in Table
    BY <2>1, <2>2, RowsType, Positions DEF Served, Request, IsWrite
  <2>4. ~ok => IsWrite(calls[k])
    BY <2>1 DEF Served
  <2> QED BY <1>0, <1>a, <2>1, <2>2, <2>3, <2>4, MarkFits DEF Served
<1>13. ASSUME NEW k, LoseCall(k) PROVE TabFits'
  <2>1. /\ k \in DOMAIN calls /\ "lost" \in faults /\ Marked(k, FALSE, Nil)
        /\ UNCHANGED <<view, shown, form, faults>>
    BY <1>13, LoseStep DEF tab
  <2> QED BY <1>0, <1>a, <2>1, MarkFits
<1>14. ASSUME NEW k, AnswerCall(k) PROVE TabFits'
  <2>1. CallsFit' /\ UNCHANGED <<view>>
    BY <1>0, <1>14, AnswerFits DEF AnswerCall
  <2>2. form'.id \in Socks \cup {Nil} /\ (form'.open => form.open)
    BY <1>14 DEF AnswerCall, Saved, Shown, Shut, Blank, TabTypeOK, Form
  <2>3. view = "metrics" => shown' = Nil
    <3>1. CASE calls[k].live /\ Shown(calls[k])
      <4>1. view = "metrics" => calls[k].op # "list"
        BY <1>0, <1>14, <3>1 DEF CallsFit, CallFits, AnswerCall
      <4> QED BY <3>1, <4>1 DEF Shown
    <3>2. CASE UNCHANGED shown
      BY <3>2
    <3> QED BY <1>14, <3>1, <3>2 DEF AnswerCall, Saved
  <2> QED BY <1>a, <2>1, <2>2, <2>3
<1> QED
  BY <1>1, <1>2, <1>3, <1>4, <1>5, <1>6, <1>8, <1>10, <1>11, <1>12, <1>13, <1>14 DEF TabNext

-----------------------------------------------------------------------------
\* Where the calls are after the other steps.
LEMMA AddPositions ==
  ASSUME TabTypeOK, NEW c, Added(c)
  PROVE  /\ DOMAIN calls' = DOMAIN calls \cup {Len(calls) + 1} /\ Len(calls) + 1 \notin DOMAIN calls
         /\ \A j \in DOMAIN calls : calls'[j] = calls[j] /\ j < Len(calls) + 1
         /\ calls'[Len(calls) + 1] = c /\ Len(calls') = Len(calls) + 1 /\ calls' # <<>>
<1>1. PICK n \in Nat : n = Len(calls) /\ DOMAIN calls = 1..n
  BY Positions
<1> QED BY <1>1 DEF Added

LEMMA LeftPositions ==
  ASSUME TabTypeOK, NEW v \in Views, Visit(v)
  PROVE  /\ DOMAIN calls' = DOMAIN calls \cup {Len(calls) + 1} /\ Len(calls) + 1 \notin DOMAIN calls
         /\ \A j \in DOMAIN calls :
              j < Len(calls) + 1 /\ ~calls'[j].live /\ calls'[j].state = calls[j].state
         /\ calls'[Len(calls) + 1] = Fetch(v, DefaultRange) /\ Len(calls') = Len(calls) + 1
         /\ calls' # <<>>
<1>1. PICK n \in Nat : n = Len(calls) /\ DOMAIN calls = 1..n
  BY Positions
<1>2. calls' \in Seq(Request) /\ Len(calls') = n + 1 /\ calls'[n + 1] = Fetch(v, DefaultRange)
  BY <1>1, LeftStep
<1>3. \A j \in 1..n : ~calls'[j].live /\ calls'[j].state = calls[j].state
  BY <1>1, LeftStep
<1> QED BY <1>1, <1>2, <1>3

LEMMA MarkPositions ==
  ASSUME TabTypeOK, NEW k \in DOMAIN calls, NEW ok, NEW rows, Marked(k, ok, rows)
  PROVE  /\ DOMAIN calls' = DOMAIN calls /\ Len(calls') = Len(calls)
         /\ calls = <<>> <=> calls' = <<>>
         /\ \A j \in DOMAIN calls :
              /\ calls'[j].op = calls[j].op /\ calls'[j].form = calls[j].form
              /\ calls'[j].live = calls[j].live /\ calls'[j].range = calls[j].range
              /\ calls'[j].view = calls[j].view
              /\ j # k => calls'[j] = calls[j]
         /\ calls'[k].state = (IF ok THEN "ok" ELSE "error") /\ calls'[k].rows = rows
<1>1. PICK n \in Nat : n = Len(calls) /\ DOMAIN calls = 1..n
  BY Positions
<1> QED BY <1>1 DEF Marked, TabTypeOK

\* An answer of a call of the form, and one of another call.
LEMMA AnswerForm ==
  ASSUME TabTypeOK, TabFits, NEW k, AnswerCall(k)
  PROVE  /\ FormCall(k) => Saved(calls[k])
         /\ ~FormCall(k) => UNCHANGED <<form, loading>>
         /\ UNCHANGED <<db, view, range, faults>>
<1>1. k \in DOMAIN calls /\ CallFits(calls[k])
  BY DEF AnswerCall, TabFits
<1>2. calls[k].op \in {"list", "metrics"} => ~calls[k].form
  BY <1>1 DEF CallFits
<1> QED BY <1>1, <1>2 DEF AnswerCall, FormCall, Shown

-----------------------------------------------------------------------------
\* The form waits for its call.
LEMMA WaitsSame ==
  ASSUME TabTypeOK, FormWaits, UNCHANGED <<form, loading, faults>>, DOMAIN calls' = DOMAIN calls,
         \A j \in DOMAIN calls : calls'[j].live = calls[j].live /\ calls'[j].form = calls[j].form
  PROVE  FormWaits'
<1>1. \A j \in DOMAIN calls : FormCall(j)' <=> FormCall(j)
  BY DEF FormCall
<1> QED BY <1>1 DEF FormWaits

\* One call more, which is not the form's.
LEMMA WaitsMore ==
  ASSUME TabTypeOK, FormWaits, NEW c, Added(c), ~c.form, UNCHANGED <<form, loading, faults>>
  PROVE  FormWaits'
<1>1. PICK n : DOMAIN calls' = DOMAIN calls \cup {n} /\ calls'[n] = c
  BY AddPositions
<1>2. \A j \in DOMAIN calls : FormCall(j)' <=> FormCall(j)
  BY AddPositions DEF FormCall
<1>3. ~FormCall(n)'
  BY <1>1 DEF FormCall
<1> QED BY <1>1, <1>2, <1>3 DEF FormWaits

\* The form sends.
LEMMA WaitsSaving ==
  ASSUME TabTypeOK, FormWaits, Saving, NEW c, Added(c), c.form, c.live
  PROVE  FormWaits'
<1>1. PICK n : DOMAIN calls' = DOMAIN calls \cup {n} /\ calls'[n] = c
  BY AddPositions
<1>2. \A j \in DOMAIN calls : ~FormCall(j)'
  BY SavingForm, AddPositions DEF FormCall, FormWaits
<1>3. FormCall(n)'
  BY <1>1 DEF FormCall
<1> QED BY <1>1, <1>2, <1>3, SavingForm DEF FormWaits

\* A form is opened or closed.
LEMMA WaitsOpening ==
  ASSUME TabTypeOK, FormWaits, ~form'.open \/ (~form'.error /\ (form'.over <=> loading)),
         UNCHANGED <<loading, calls, faults>>
  PROVE  FormWaits'
<1>1. \A j \in DOMAIN calls : FormCall(j)' <=> FormCall(j)
  BY DEF FormCall
<1> QED BY <1>1 DEF FormWaits

LEMMA FormWaitsStep ==
  ASSUME TabTypeOK, TabFits, FormWaits, [TabNext]_tabVars
  PROVE  FormWaits'
<1>1. CASE UNCHANGED tabVars
  BY <1>1, WaitsSame DEF tabVars, tab
<1>2. ASSUME NEW v \in Views, Visit(v) PROVE FormWaits'
  <2>1. ~form'.open /\ loading' = FALSE
    BY <1>2 DEF Visit, Blank
  <2>2. PICK c : c = Fetch(v, DefaultRange) /\ ~c.form
    BY FetchType, PagesAssumption
  <2>3. \A j \in DOMAIN calls' : ~FormCall(j)'
    BY <1>2, <2>2, LeftPositions DEF FormCall
  <2> QED BY <2>1, <2>3 DEF FormWaits
<1>3. ASSUME NEW r \in Ranges, PickRange(r) PROVE FormWaits'
  <2>1. PICK c : c = Fetch("metrics", r) /\ Added(c)
    BY <1>3, RangeStep
  <2>2. ~c.form
    BY <2>1, FetchType DEF Views
  <2> QED BY <1>3, <2>1, <2>2, WaitsMore DEF PickRange
<1>4. CASE OpenAdd
  BY <1>4, FormType, WaitsOpening DEF OpenAdd
<1>5. CASE Cancel
  <2>1. ~form'.open
    BY <1>5 DEF Cancel, Shut, Blank
  <2> QED BY <1>5, <2>1, WaitsOpening DEF Cancel
<1>6. ASSUME NEW i \in Ids, OpenEdit(i) PROVE FormWaits'
  BY <1>6, OpenedForm, WaitsOpening DEF OpenEdit
<1>7. ASSUME NEW i \in Ids, DeleteRow(i) PROVE FormWaits'
  <2>1. PICK c : Sent(c) /\ ~c.form
    BY <1>7, DeleteStep
  <2> QED BY <1>7, <2>1, WriteTypes, WaitsMore DEF DeleteRow, tab
<1>8. ASSUME NEW i \in Ids, Toggle(i) PROVE FormWaits'
  <2>1. PICK c : Sent(c) /\ ~c.form
    BY <1>8, ToggleStep
  <2> QED BY <1>8, <2>1, WriteTypes, WaitsMore DEF Toggle, tab
<1>9. ASSUME NEW i \in Ids, CreateAccount(i) PROVE FormWaits'
  <2>1. PICK c : Sent(c) /\ c.form
    BY <1>9, CreateStep
  <2> QED BY <1>9, <2>1, WriteTypes, WaitsSaving DEF CreateAccount, Sent
<1>10. ASSUME NEW i \in Ids, NEW row \in SocksRow, SubmitUser(i, row) PROVE FormWaits'
  <2>1. PICK c : Sent(c) /\ c.form
    BY <1>10, SubmitStep
  <2> QED BY <1>10, <2>1, WriteTypes, WaitsSaving DEF SubmitUser, Sent
<1>11. ASSUME NEW i \in Ids, NEW row \in Row \cup {Gone}, OthersChange(i, row) PROVE FormWaits'
  BY <1>11, WaitsSame DEF OthersChange, tab
<1>12. ASSUME NEW k, ServeCall(k) PROVE FormWaits'
  <2>1. PICK ok, rows : Marked(k, ok, rows)
    BY <1>12, ServeStep DEF Served
  <2> QED BY <1>12, <2>1, ServeStep, MarkPositions, WaitsSame DEF tab
<1>13. ASSUME NEW k, LoseCall(k) PROVE FormWaits'
  BY <1>13, LoseStep, MarkPositions, WaitsSame DEF tab
<1>14. ASSUME NEW k, AnswerCall(k) PROVE FormWaits'
  <2>1. \A j \in DOMAIN calls' : FormCall(j)' =>
           \E i \in DOMAIN calls : FormCall(i) /\ i # k /\ (j < k => i = j) /\ (j >= k => i = j + 1)
    <3>1. ASSUME NEW j \in DOMAIN calls', FormCall(j)'
          PROVE  calls'[j] # Fetch(view, range)
      <4>1. PICK c : c = Fetch(view, range) /\ ~c.form
        BY FetchType DEF TabTypeOK
      <4> QED BY <3>1, <4>1 DEF FormCall
    <3> QED BY <1>14, <3>1, AnswerPositions DEF FormCall
  <2>2. \A i \in DOMAIN calls : FormCall(i) /\ i # k => \E j \in DOMAIN calls' : FormCall(j)'
    BY <1>14, AnswerPositions DEF FormCall
  <2>3. k \in DOMAIN calls
    BY <1>14, AnswerPositions
  <2>4. \A i, j \in DOMAIN calls' : FormCall(i)' /\ FormCall(j)' => i = j
    <3> SUFFICES ASSUME NEW i \in DOMAIN calls', NEW j \in DOMAIN calls', FormCall(i)', FormCall(j)'
                 PROVE  i = j
      OBVIOUS
    <3>1. PICK a \in DOMAIN calls : FormCall(a) /\ a # k /\ (i < k => a = i) /\ (i >= k => a = i + 1)
      BY <2>1
    <3>2. PICK b \in DOMAIN calls : FormCall(b) /\ b # k /\ (j < k => b = j) /\ (j >= k => b = j + 1)
      BY <2>1
    <3>3. a = b
      BY <3>1, <3>2 DEF FormWaits
    <3>4. i \in Nat /\ j \in Nat /\ k \in Nat
      <4>1. calls \in Seq(Request) /\ calls' \in Seq(Request)
        BY <1>14, AnswerStep DEF TabTypeOK
      <4> QED BY <2>3, <4>1
    <3> QED BY <3>1, <3>2, <3>3, <3>4
  <2>5. CASE FormCall(k)
    <3>1. loading /\ \A j \in DOMAIN calls' : ~FormCall(j)'
      BY <2>1, <2>3, <2>5 DEF FormWaits
    <3>2. Saved(calls[k]) /\ faults' = faults
      BY <1>14, <2>5, AnswerForm
    <3>3. loading' = FALSE
      BY <3>2 DEF Saved, LoadingAfter
    <3>4. form'.open /\ ~form'.over => form'.tried
      BY <3>1, <3>2 DEF Saved, Shut, Blank, FormWaits, TabTypeOK, Form
    <3> QED BY <3>1, <3>2, <3>3, <3>4 DEF FormWaits
  <2>6. CASE ~FormCall(k)
    <3>1. UNCHANGED <<form, loading, faults>>
      BY <1>14, <2>6, AnswerForm
    <3>2. (\E j \in DOMAIN calls' : FormCall(j)') <=> (\E j \in DOMAIN calls : FormCall(j))
      BY <2>1, <2>2, <2>6
    <3> QED BY <2>4, <3>1, <3>2 DEF FormWaits
  <2> QED BY <2>5, <2>6
<1> QED
  BY <1>1, <1>2, <1>3, <1>4, <1>5, <1>6, <1>7, <1>8, <1>9, <1>10, <1>11, <1>12, <1>13, <1>14 DEF TabNext

-----------------------------------------------------------------------------
\* Calls are served in their order, and those of the page come last.
LEMMA QueuedSame ==
  ASSUME TabTypeOK, Queued, UNCHANGED <<calls, faults>>
  PROVE  Queued'
BY DEF Queued, Orderly, Unserved

LEMMA QueuedMore ==
  ASSUME TabTypeOK, Queued, NEW c, Added(c), c.live, c.state = "sent", UNCHANGED faults
  PROVE  Queued'
<1> SUFFICES ASSUME Orderly
             PROVE  /\ \A j, k \in DOMAIN calls' : j < k /\ Unserved(j)' => Unserved(k)'
                    /\ \A j, k \in DOMAIN calls' : j < k /\ calls'[j].live => calls'[k].live
                    /\ calls' # <<>> => calls'[Len(calls')].live
  BY DEF Queued, Orderly
<1>1. PICK n : /\ n = Len(calls) + 1 /\ n = Len(calls') /\ DOMAIN calls' = DOMAIN calls \cup {n}
               /\ calls'[n] = c
               /\ \A j \in DOMAIN calls : calls'[j] = calls[j] /\ j < n
  BY AddPositions
<1>2. n \in Nat /\ \A j \in DOMAIN calls : j \in Nat
  BY <1>1, Positions
<1> QED BY <1>1, <1>2 DEF Queued, Unserved

LEMMA QueuedLeft ==
  ASSUME TabTypeOK, Queued, NEW v \in Views, Visit(v)
  PROVE  Queued'
<1> SUFFICES ASSUME Orderly
             PROVE  /\ \A j, k \in DOMAIN calls' : j < k /\ Unserved(j)' => Unserved(k)'
                    /\ \A j, k \in DOMAIN calls' : j < k /\ calls'[j].live => calls'[k].live
                    /\ calls' # <<>> => calls'[Len(calls')].live
  BY DEF Queued, Orderly, Visit
<1>1. PICK c : c = Fetch(v, DefaultRange) /\ c.live /\ c.state = "sent"
  BY FetchType, PagesAssumption
<1>2. PICK n : /\ n = Len(calls) + 1 /\ n = Len(calls') /\ DOMAIN calls' = DOMAIN calls \cup {n}
               /\ calls'[n] = c
               /\ \A j \in DOMAIN calls : j < n /\ ~calls'[j].live /\ calls'[j].state = calls[j].state
  BY <1>1, LeftPositions
<1>3. n \in Nat /\ \A j \in DOMAIN calls : j \in Nat
  BY <1>2, Positions
<1> QED BY <1>1, <1>2, <1>3 DEF Queued, Unserved

LEMMA QueuedServed ==
  ASSUME TabTypeOK, Queued, NEW k, ServeCall(k)
  PROVE  Queued'
<1> SUFFICES ASSUME Orderly
             PROVE  /\ \A j, i \in DOMAIN calls' : j < i /\ Unserved(j)' => Unserved(i)'
                    /\ \A j, i \in DOMAIN calls' : j < i /\ calls'[j].live => calls'[i].live
                    /\ calls' # <<>> => calls'[Len(calls')].live
  BY ServeStep DEF Queued, Orderly
<1>1. PICK ok, rows : ok \in BOOLEAN /\ Marked(k, ok, rows)
  BY ServeStep DEF Served
<1>2. /\ k \in DOMAIN calls /\ Unserved(k) /\ \A j \in DOMAIN calls : j < k => ~Unserved(j)
  BY ServeStep
<1>3. /\ DOMAIN calls' = DOMAIN calls /\ Len(calls') = Len(calls) /\ (calls = <<>> <=> calls' = <<>>)
      /\ \A j \in DOMAIN calls : calls'[j].live = calls[j].live /\ (j # k => calls'[j] = calls[j])
      /\ calls'[k].state \in {"ok", "error"}
  BY <1>1, <1>2, MarkPositions
<1>4. calls # <<>> => Len(calls) \in DOMAIN calls
  BY Positions
<1> QED BY <1>2, <1>3, <1>4 DEF Queued, Unserved

\* In order the first call is answered, and the others move up.
LEMMA FirstAnswered ==
  ASSUME TabTypeOK, NEW k, AnswerCall(k), Orderly
  PROVE  /\ k = 1 /\ Len(calls) \in Nat /\ Len(calls) >= 1
         /\ DOMAIN calls = 1..Len(calls) /\ DOMAIN calls' = 1..Len(calls')
         /\ Len(calls') = (IF Asks(1) THEN Len(calls) ELSE Len(calls) - 1)
         /\ calls' = <<>> <=> Len(calls') = 0
         /\ \A j \in 1..(Len(calls) - 1) : calls'[j] = calls[j + 1]
         /\ Asks(1) => calls'[Len(calls)] = Fetch(view, range)
<1>1. PICK n \in Nat : n = Len(calls) /\ DOMAIN calls = 1..n
  BY Positions
<1>2. /\ k = 1 /\ 1 \in 1..n /\ calls' \in Seq(Request)
      /\ Len(calls') = (IF Asks(1) THEN n ELSE n - 1)
      /\ \A j \in 1..(n - 1) : calls'[j] = calls[IF j < 1 THEN j ELSE j + 1]
      /\ Asks(1) => calls'[n] = Fetch(view, range)
  BY <1>1, AnswerStep
<1> QED BY <1>1, <1>2

LEMMA QueuedAnswered ==
  ASSUME TabTypeOK, Queued, NEW k, AnswerCall(k)
  PROVE  Queued'
<1> SUFFICES ASSUME Orderly
             PROVE  /\ \A j, i \in DOMAIN calls' : j < i /\ Unserved(j)' => Unserved(i)'
                    /\ \A j, i \in DOMAIN calls' : j < i /\ calls'[j].live => calls'[i].live
                    /\ calls' # <<>> => calls'[Len(calls')].live
  BY DEF Queued, Orderly, AnswerCall
<1>1. PICK c : c = Fetch(view, range) /\ c.live /\ c.state = "sent"
  BY FetchType DEF TabTypeOK
<1>2. PICK n \in Nat, m \in Nat :
         /\ n = Len(calls) /\ n >= 1 /\ DOMAIN calls = 1..n
         /\ m = Len(calls') /\ DOMAIN calls' = 1..m /\ (calls' = <<>> <=> m = 0)
         /\ m = (IF Asks(1) THEN n ELSE n - 1)
         /\ \A j \in 1..(n - 1) : calls'[j] = calls[j + 1]
         /\ Asks(1) => calls'[n] = c
  BY <1>1, FirstAnswered
<1>3. ASSUME NEW j \in 1..m
      PROVE  \/ j \in 1..(n - 1) /\ j + 1 \in 1..n /\ calls'[j] = calls[j + 1]
             \/ j = n /\ calls'[j] = c
  <2>1. CASE j <= n - 1
    BY <1>2, <2>1
  <2>2. CASE ~(j <= n - 1)
    BY <1>2, <2>2
  <2> QED BY <2>1, <2>2
<1>4. calls # <<>> /\ calls[n].live
  BY <1>2, Positions DEF Queued
<1>5. ASSUME NEW j \in 1..m, NEW i \in 1..m, j < i
      PROVE  /\ Unserved(j)' => Unserved(i)'
             /\ calls'[j].live => calls'[i].live
  <2>1. CASE i \in 1..(n - 1) /\ calls'[i] = calls[i + 1]
    <3>1. /\ j + 1 \in DOMAIN calls /\ i + 1 \in DOMAIN calls /\ j + 1 < i + 1
          /\ calls'[j] = calls[j + 1]
      BY <1>2, <1>5, <2>1
    <3>2. /\ Unserved(j + 1) => Unserved(i + 1)
          /\ calls[j + 1].live => calls[i + 1].live
      BY <3>1 DEF Queued
    <3> QED BY <2>1, <3>1, <3>2 DEF Unserved
  <2>2. CASE calls'[i] = c
    BY <1>1, <2>2 DEF Unserved
  <2> QED BY <1>3, <2>1, <2>2
<1>7. m # 0 => calls'[m].live
  BY <1>1, <1>2, <1>3, <1>4
<1> QED BY <1>2, <1>5, <1>7

LEMMA QueuedStep ==
  ASSUME TabTypeOK, TabFits, Queued, [TabNext]_tabVars
  PROVE  Queued'
<1>1. CASE UNCHANGED tabVars
  BY <1>1, QueuedSame DEF tabVars
<1>2. ASSUME NEW v \in Views, Visit(v) PROVE Queued'
  BY <1>2, QueuedLeft
<1>3. ASSUME NEW r \in Ranges, PickRange(r) PROVE Queued'
  <2>1. PICK c : c = Fetch("metrics", r) /\ Added(c)
    BY <1>3, RangeStep
  <2>2. c.live /\ c.state = "sent"
    BY <2>1, FetchType DEF Views
  <2> QED BY <1>3, <2>1, <2>2, QueuedMore DEF PickRange
<1>4. CASE OpenAdd \/ Cancel
  BY <1>4, QueuedSame DEF OpenAdd, Cancel
<1>6. ASSUME NEW i \in Ids, OpenEdit(i) PROVE Queued'
  BY <1>6, QueuedSame DEF OpenEdit
<1>7. ASSUME NEW c, Sent(c), UNCHANGED faults PROVE Queued'
  BY <1>7, WriteTypes, QueuedMore DEF Sent
<1>8. ASSUME NEW i \in Ids, DeleteRow(i) \/ Toggle(i) \/ CreateAccount(i) PROVE Queued'
  <2>1. faults' = faults
    BY <1>8 DEF DeleteRow, Toggle, CreateAccount, Saving
  <2> QED BY <1>7, <1>8, <2>1, DeleteStep, ToggleStep, CreateStep
<1>10. ASSUME NEW i \in Ids, NEW row \in SocksRow, SubmitUser(i, row) PROVE Queued'
  <2>1. faults' = faults
    BY <1>10 DEF SubmitUser, Saving
  <2> QED BY <1>7, <1>10, <2>1, SubmitStep
<1>11. ASSUME NEW i \in Ids, NEW row \in Row \cup {Gone}, OthersChange(i, row) PROVE Queued'
  BY <1>11, QueuedSame DEF OthersChange
<1>12. ASSUME NEW k, ServeCall(k) PROVE Queued'
  BY <1>12, QueuedServed
<1>13. ASSUME NEW k, LoseCall(k) PROVE Queued'
  BY <1>13, LoseStep DEF Queued, Orderly
<1>14. ASSUME NEW k, AnswerCall(k) PROVE Queued'
  BY <1>14, QueuedAnswered
<1> QED
  BY <1>1, <1>2, <1>3, <1>4, <1>6, <1>8, <1>10, <1>11, <1>12, <1>13, <1>14 DEF TabNext

-----------------------------------------------------------------------------
\* The chart.
LEMMA ChartAnswered ==
  ASSUME TabTypeOK, TabFits, Queued, ChartComing, NEW k, AnswerCall(k)
  PROVE  ChartComing'
<1> SUFFICES ASSUME Orderly, view = "metrics"
             PROVE  IF calls' = <<>> THEN charted' = range
                    ELSE calls'[Len(calls')].op = "metrics" /\ calls'[Len(calls')].range = range
  BY DEF ChartComing, Orderly, AnswerCall
<1>1. PICK n \in Nat, m \in Nat :
         /\ n = Len(calls) /\ n >= 1 /\ DOMAIN calls = 1..n
         /\ m = Len(calls') /\ (calls' = <<>> <=> m = 0)
         /\ m = (IF Asks(1) THEN n ELSE n - 1)
         /\ \A j \in 1..(n - 1) : calls'[j] = calls[j + 1]
  BY FirstAnswered
<1>2. CallFits(calls[1]) /\ k = 1
  <2>1. 1 \in DOMAIN calls
    BY <1>1
  <2> QED BY <2>1, FirstAnswered DEF TabFits
<1>3. ~Asks(1)
  BY <1>2 DEF Asks, CallFits, IsWrite
<1>4. calls # <<>> /\ calls[n].live /\ calls[n].op = "metrics" /\ calls[n].range = range
  <2>1. calls # <<>>
    BY <1>1, Positions
  <2> QED BY <1>1, <2>1 DEF Queued, ChartComing
<1>5. CASE n = 1
  <2>1. calls[1].state = "ok"
    <3>1. calls[1].state # "sent" /\ calls[1] \in Request
      BY <1>1, <1>2, <1>5, Positions DEF AnswerCall
    <3>2. calls[1].state # "error"
      BY <1>2, <1>4, <1>5 DEF CallFits, Orderly, IsWrite
    <3> QED BY <3>1, <3>2 DEF Request
  <2>2. charted' = range
    BY <1>2, <1>4, <1>5, <2>1 DEF AnswerCall, Shown, CallFits
  <2> QED BY <1>1, <1>3, <1>5, <2>2
<1>6. CASE n # 1
  <2>1. m = n - 1 /\ m \in 1..(n - 1) /\ m + 1 = n
    BY <1>1, <1>3, <1>6
  <2>2. calls'[m] = calls[n] /\ calls' # <<>>
    BY <1>1, <2>1
  <2> QED BY <1>1, <1>4, <2>2
<1> QED BY <1>5, <1>6

LEMMA ChartStep ==
  ASSUME TabTypeOK, TabFits, Queued, ChartComing, [TabNext]_tabVars
  PROVE  ChartComing'
<1>0. ASSUME UNCHANGED <<view, range, charted, calls, faults>> PROVE ChartComing'
  BY <1>0 DEF ChartComing, Orderly
<1>1. CASE UNCHANGED tabVars
  BY <1>0, <1>1 DEF tabVars, tab
<1>2. ASSUME NEW v \in Views, Visit(v) PROVE ChartComing'
  <2>1. PICK c : c = Fetch(v, DefaultRange) /\ (v = "metrics" => c.op = "metrics" /\ c.range = DefaultRange)
    BY FetchType, PagesAssumption
  <2>2. calls' # <<>> /\ calls'[Len(calls')] = c
    BY <1>2, <2>1, LeftPositions
  <2>3. view' = v /\ range' = DefaultRange
    BY <1>2 DEF Visit
  <2> QED BY <2>1, <2>2, <2>3 DEF ChartComing
<1>3. ASSUME NEW r \in Ranges, PickRange(r) PROVE ChartComing'
  <2>1. PICK c : c = Fetch("metrics", r) /\ Added(c)
    BY <1>3, RangeStep
  <2>2. c.op = "metrics" /\ c.range = r
    BY <2>1, FetchType DEF Views
  <2>3. calls' # <<>> /\ calls'[Len(calls')] = c
    BY <2>1, AddPositions
  <2> QED BY <1>3, <2>2, <2>3 DEF ChartComing, PickRange
<1>4. CASE OpenAdd \/ Cancel
  BY <1>0, <1>4 DEF OpenAdd, Cancel
<1>6. ASSUME NEW i \in Ids, OpenEdit(i) PROVE ChartComing'
  BY <1>0, <1>6 DEF OpenEdit
<1>7. ASSUME view # "metrics", view' = view PROVE ChartComing'
  BY <1>7 DEF ChartComing
<1>8. ASSUME NEW i \in Ids, DeleteRow(i) \/ Toggle(i) \/ CreateAccount(i) PROVE ChartComing'
  <2>1. view' = view
    BY <1>8 DEF DeleteRow, Toggle, CreateAccount, Saving, tab
  <2>2. view # "metrics"
    BY <1>8, DeleteStep, ToggleStep, CreateStep
  <2> QED BY <1>7, <2>1, <2>2
<1>10. ASSUME NEW i \in Ids, NEW row \in SocksRow, SubmitUser(i, row) PROVE ChartComing'
  BY <1>7, <1>10 DEF SubmitUser, Saving
<1>11. ASSUME NEW i \in Ids, NEW row \in Row \cup {Gone}, OthersChange(i, row) PROVE ChartComing'
  BY <1>0, <1>11 DEF OthersChange, tab
<1>12. ASSUME NEW k \in DOMAIN calls, NEW ok, NEW rows, Marked(k, ok, rows), UNCHANGED <<tab, faults>>
       PROVE  ChartComing'
  <2>1. /\ Len(calls') = Len(calls) /\ (calls = <<>> <=> calls' = <<>>)
        /\ \A j \in DOMAIN calls : calls'[j].op = calls[j].op /\ calls'[j].range = calls[j].range
    BY <1>12, MarkPositions
  <2>2. calls # <<>> => Len(calls) \in DOMAIN calls
    BY Positions
  <2>3. UNCHANGED <<view, range, charted, faults>>
    BY <1>12 DEF tab
  <2> QED BY <2>1, <2>2, <2>3 DEF ChartComing, Orderly
<1>13. ASSUME NEW k, ServeCall(k) \/ LoseCall(k) PROVE ChartComing'
  BY <1>12, <1>13, ServeStep, LoseStep DEF Served
<1>14. ASSUME NEW k, AnswerCall(k) PROVE ChartComing'
  BY <1>14, ChartAnswered
<1> QED
  BY <1>1, <1>2, <1>3, <1>4, <1>6, <1>8, <1>10, <1>11, <1>13, <1>14 DEF TabNext

-----------------------------------------------------------------------------
\* What the pages left behind may still change will be fetched after it.
LEMMA AloneIsOrderly ==
  ASSUME Alone
  PROVE  Orderly /\ "lost" \notin faults /\ "others" \notin faults
BY DEF Alone, Orderly

LEMMA FetchedSame ==
  ASSUME TabTypeOK, FetchedAfter, UNCHANGED <<view, calls, faults>>
  PROVE  FetchedAfter'
BY DEF FetchedAfter, Alone, Lists, Unserved

LEMMA FetchedMore ==
  ASSUME TabTypeOK, FetchedAfter, NEW c, Added(c), c.live, UNCHANGED <<view, faults>>
  PROVE  FetchedAfter'
<1> SUFFICES ASSUME Alone, view # "metrics", NEW j \in DOMAIN calls', ~calls'[j].live, Unserved(j)'
             PROVE  \E k \in DOMAIN calls' : Lists(k)' /\ Unserved(k)'
  BY DEF FetchedAfter, Alone
<1>1. j \in DOMAIN calls /\ calls'[j] = calls[j]
  BY AddPositions
<1>2. PICK k \in DOMAIN calls : Lists(k) /\ Unserved(k)
  BY <1>1 DEF FetchedAfter, Unserved
<1>3. k \in DOMAIN calls' /\ calls'[k] = calls[k]
  BY AddPositions
<1> QED BY <1>2, <1>3 DEF Lists, Unserved

LEMMA FetchedServed ==
  ASSUME TabTypeOK, Queued, FetchedAfter, NEW k, ServeCall(k)
  PROVE  FetchedAfter'
<1> SUFFICES ASSUME Alone, view # "metrics", NEW j \in DOMAIN calls', ~calls'[j].live, Unserved(j)'
             PROVE  \E i \in DOMAIN calls' : Lists(i)' /\ Unserved(i)'
  BY ServeStep DEF FetchedAfter, Alone, tab
<1>1. PICK ok, rows : ok \in BOOLEAN /\ Marked(k, ok, rows)
  BY ServeStep DEF Served
<1>2. k \in DOMAIN calls /\ \A i \in DOMAIN calls : i < k => ~Unserved(i)
  BY ServeStep, AloneIsOrderly
<1>3. /\ j \in DOMAIN calls /\ j # k /\ calls'[j] = calls[j]
      /\ DOMAIN calls' = DOMAIN calls /\ \A i \in DOMAIN calls : i # k => calls'[i] = calls[i]
  BY <1>1, <1>2, MarkPositions DEF Unserved
<1>4. ~calls[j].live /\ Unserved(j)
  BY <1>3 DEF Unserved
<1>5. PICK i \in DOMAIN calls : Lists(i) /\ Unserved(i)
  BY <1>4, <1>3 DEF FetchedAfter
<1>6. i # k
  <2>1. j \in Nat /\ k \in Nat /\ ~(j < k)
    BY <1>2, <1>3, <1>4, Positions
  <2>2. k < j
    BY <1>3, <2>1
  <2> QED BY <1>2, <1>3, <1>4, <1>5, <2>2, AloneIsOrderly DEF Queued, Lists
<1> QED BY <1>3, <1>5, <1>6 DEF Lists, Unserved

LEMMA FetchedAnswered ==
  ASSUME TabTypeOK, FetchedAfter, NEW k, AnswerCall(k)
  PROVE  FetchedAfter'
<1> SUFFICES ASSUME Alone, view # "metrics", NEW j \in DOMAIN calls', ~calls'[j].live, Unserved(j)'
             PROVE  \E i \in DOMAIN calls' : Lists(i)' /\ Unserved(i)'
  BY DEF FetchedAfter, Alone, AnswerCall
<1>1. PICK c : c = Fetch(view, range) /\ c.live
  BY FetchType DEF TabTypeOK
<1>2. PICK i \in DOMAIN calls : calls'[j] = calls[i]
  BY <1>1, AnswerPositions
<1>3. PICK l \in DOMAIN calls : Lists(l) /\ Unserved(l)
  BY <1>2 DEF FetchedAfter, Unserved
<1>4. l # k
  BY <1>3, AnswerPositions
<1>5. PICK m \in DOMAIN calls' : calls'[m] = calls[l]
  BY <1>4, AnswerPositions
<1> QED BY <1>3, <1>5 DEF Lists, Unserved

LEMMA FetchedStep ==
  ASSUME TabTypeOK, TabFits, Queued, FetchedAfter, [TabNext]_tabVars
  PROVE  FetchedAfter'
<1>1. CASE UNCHANGED tabVars
  BY <1>1, FetchedSame DEF tabVars, tab
<1>2. ASSUME NEW v \in Views, Visit(v) PROVE FetchedAfter'
  <2>1. PICK c : /\ c = Fetch(v, DefaultRange) /\ c.live /\ c.state = "sent"
                 /\ v # "metrics" => c.op = "list"
    BY FetchType, PagesAssumption
  <2>2. PICK n \in DOMAIN calls' : calls'[n] = c
    BY <1>2, <2>1, LeftPositions
  <2>3. view' = v
    BY <1>2 DEF Visit
  <2> QED BY <2>1, <2>2, <2>3 DEF FetchedAfter, Lists, Unserved
<1>3. ASSUME NEW r \in Ranges, PickRange(r) PROVE FetchedAfter'
  BY <1>3 DEF PickRange, FetchedAfter
<1>4. CASE OpenAdd \/ Cancel
  BY <1>4, FetchedSame DEF OpenAdd, Cancel
<1>6. ASSUME NEW i \in Ids, OpenEdit(i) PROVE FetchedAfter'
  BY <1>6, FetchedSame DEF OpenEdit
<1>7. ASSUME NEW c, Sent(c), UNCHANGED <<view, faults>> PROVE FetchedAfter'
  BY <1>7, WriteTypes, FetchedMore DEF Sent
<1>8. ASSUME NEW i \in Ids, DeleteRow(i) \/ Toggle(i) \/ CreateAccount(i) PROVE FetchedAfter'
  <2>1. UNCHANGED <<view, faults>>
    BY <1>8 DEF DeleteRow, Toggle, CreateAccount, Saving, tab
  <2> QED BY <1>7, <1>8, <2>1, DeleteStep, ToggleStep, CreateStep
<1>10. ASSUME NEW i \in Ids, NEW row \in SocksRow, SubmitUser(i, row) PROVE FetchedAfter'
  <2>1. UNCHANGED <<view, faults>>
    BY <1>10 DEF SubmitUser, Saving
  <2> QED BY <1>7, <1>10, <2>1, SubmitStep
<1>11. ASSUME NEW i \in Ids, NEW row \in Row \cup {Gone}, OthersChange(i, row) PROVE FetchedAfter'
  BY <1>11, FetchedSame DEF OthersChange, tab
<1>12. ASSUME NEW k, ServeCall(k) PROVE FetchedAfter'
  BY <1>12, FetchedServed
<1>13. ASSUME NEW k, LoseCall(k) PROVE FetchedAfter'
  BY <1>13, LoseStep DEF FetchedAfter, Alone
<1>14. ASSUME NEW k, AnswerCall(k) PROVE FetchedAfter'
  BY <1>14, FetchedAnswered
<1> QED
  BY <1>1, <1>2, <1>3, <1>4, <1>6, <1>8, <1>10, <1>11, <1>12, <1>13, <1>14 DEF TabNext

-----------------------------------------------------------------------------
\* The rows there are will be fetched, have been, or are shown.
LEMMA ComingSame ==
  ASSUME TabTypeOK, RowsComing, UNCHANGED <<db, view, shown, calls, faults>>
  PROVE  RowsComing'
BY DEF RowsComing, Alone, ToBeFetched, Fetched, Current, Lists, Unserved, IsWrite, Rows

LEMMA ComingMore ==
  ASSUME TabTypeOK, RowsComing, NEW c, Added(c), c.op # "list",
         UNCHANGED <<db, view, shown, faults>>
  PROVE  RowsComing'
<1> SUFFICES ASSUME Alone, view # "metrics" PROVE ToBeFetched' \/ Fetched' \/ Current'
  BY DEF RowsComing, Alone
<1>1. PICK n : /\ DOMAIN calls' = DOMAIN calls \cup {n} /\ calls'[n] = c
               /\ \A j \in DOMAIN calls : calls'[j] = calls[j]
  BY AddPositions
<1>2. Rows(view)' = Rows(view)
  BY DEF Rows
<1>3. \A j \in DOMAIN calls : (Lists(j)' <=> Lists(j)) /\ (Unserved(j)' <=> Unserved(j))
  BY <1>1 DEF Lists, Unserved
<1>4. ~Lists(n)'
  BY <1>1 DEF Lists
<1>5. CASE ToBeFetched
  BY <1>1, <1>3, <1>5 DEF ToBeFetched, IsWrite
<1>6. CASE Fetched
  <2>1. PICK k \in DOMAIN calls :
           /\ Lists(k) /\ calls[k].state = "ok" /\ calls[k].rows = Rows(view)
           /\ \A j \in DOMAIN calls : Lists(j) => j <= k
    BY <1>6 DEF Fetched
  <2>2. Lists(k)' /\ calls'[k].state = "ok" /\ calls'[k].rows = Rows(view)' /\ k \in DOMAIN calls'
    BY <1>1, <1>2, <1>3, <2>1
  <2>3. \A j \in DOMAIN calls' : Lists(j)' => j <= k
    BY <1>1, <1>3, <1>4, <2>1
  <2> QED BY <2>2, <2>3 DEF Fetched
<1>7. CASE Current
  BY <1>1, <1>2, <1>3, <1>4, <1>7 DEF Current
<1> QED BY <1>5, <1>6, <1>7 DEF RowsComing

LEMMA ComingServed ==
  ASSUME TabTypeOK, TabFits, Queued, FetchedAfter, RowsComing, NEW k, ServeCall(k)
  PROVE  RowsComing'
<1> SUFFICES ASSUME Alone, view # "metrics" PROVE ToBeFetched' \/ Fetched' \/ Current'
  BY ServeStep DEF RowsComing, Alone, tab
<1>1. PICK ok \in BOOLEAN, rows \in Table \cup {Nil} : Served(k, ok, rows)
  BY ServeStep
<1>2. /\ k \in DOMAIN calls /\ Unserved(k) /\ UNCHANGED <<view, shown, faults>>
      /\ \A i \in DOMAIN calls : i < k => ~Unserved(i)
      /\ CallFits(calls[k])
  BY ServeStep, AloneIsOrderly DEF tab, TabFits
<1>3. /\ DOMAIN calls' = DOMAIN calls
      /\ \A j \in DOMAIN calls : /\ calls'[j].op = calls[j].op /\ calls'[j].live = calls[j].live
                                 /\ j # k => calls'[j] = calls[j]
      /\ calls'[k].state = (IF ok THEN "ok" ELSE "error") /\ calls'[k].rows = rows
  BY <1>1, <1>2, MarkPositions DEF Served
<1>4. \A j \in DOMAIN calls : (Lists(j)' <=> Lists(j)) /\ (j # k => (Unserved(j)' <=> Unserved(j)))
  BY <1>3 DEF Lists, Unserved
<1>5. CASE \E j \in DOMAIN calls : j # k /\ Lists(j) /\ Unserved(j)
  BY <1>3, <1>4, <1>5 DEF ToBeFetched
<1>6. CASE Lists(k) /\ \A j \in DOMAIN calls : j # k => ~(Lists(j) /\ Unserved(j))
  <2>1. ok /\ rows = Rows(view) /\ db' = db
    BY <1>1, <1>2, <1>6 DEF Served, Lists, CallFits, IsWrite
  <2>2. Rows(view)' = Rows(view)
    BY <1>2, <2>1 DEF Rows
  <2>3. \A j \in DOMAIN calls : Lists(j) => j <= k
    <3> SUFFICES ASSUME NEW j \in DOMAIN calls, Lists(j), ~(j <= k) PROVE FALSE
      OBVIOUS
    <3>1. k < j
      BY <1>2, Positions
    <3> QED BY <1>2, <1>6, <3>1, AloneIsOrderly DEF Queued
  <2>4. \A j \in DOMAIN calls' : Lists(j)' => j <= k
    BY <1>3, <1>4, <2>3
  <2>5. Lists(k)' /\ calls'[k].state = "ok" /\ calls'[k].rows = Rows(view)' /\ k \in DOMAIN calls'
    BY <1>2, <1>3, <1>4, <1>6, <2>1, <2>2
  <2> QED BY <2>4, <2>5 DEF Fetched
<1>7. CASE ~Lists(k) /\ (\A j \in DOMAIN calls : j # k => ~(Lists(j) /\ Unserved(j))) /\ db' # db
  <2>1. IsWrite(calls[k]) /\ ok
    BY <1>1, <1>7 DEF Served
  <2>2. calls[k].live
    BY <1>2, <1>7 DEF FetchedAfter
  <2> QED BY <1>2, <1>3, <2>1, <2>2 DEF ToBeFetched, IsWrite
<1>8. CASE ~Lists(k) /\ (\A j \in DOMAIN calls : j # k => ~(Lists(j) /\ Unserved(j))) /\ db' = db
  <2>1. Rows(view)' = Rows(view)
    BY <1>2, <1>8 DEF Rows
  <2>2. CASE ToBeFetched
    <3>1. PICK j \in DOMAIN calls : calls[j].live /\ IsWrite(calls[j]) /\ calls[j].state = "ok"
      BY <1>8, <2>2 DEF ToBeFetched
    <3>2. j # k
      BY <1>2, <3>1 DEF Unserved
    <3> QED BY <1>3, <3>1, <3>2 DEF ToBeFetched, IsWrite
  <2>3. CASE Fetched
    <3>1. PICK i \in DOMAIN calls :
             /\ Lists(i) /\ calls[i].state = "ok" /\ calls[i].rows = Rows(view)
             /\ \A j \in DOMAIN calls : Lists(j) => j <= i
      BY <2>3 DEF Fetched
    <3>2. i # k
      BY <1>8, <3>1
    <3>3. Lists(i)' /\ calls'[i].state = "ok" /\ calls'[i].rows = Rows(view)' /\ i \in DOMAIN calls'
      BY <1>3, <1>4, <2>1, <3>1, <3>2
    <3>4. \A j \in DOMAIN calls' : Lists(j)' => j <= i
      BY <1>3, <1>4, <3>1
    <3> QED BY <3>3, <3>4 DEF Fetched
  <2>4. CASE Current
    <3>1. \A j \in DOMAIN calls' : ~Lists(j)'
      BY <1>3, <1>4, <2>4 DEF Current
    <3>2. shown' \in {Nil, Rows(view)'}
      BY <1>2, <2>1, <2>4 DEF Current
    <3> QED BY <3>1, <3>2 DEF Current
  <2> QED BY <2>2, <2>3, <2>4 DEF RowsComing
<1> QED BY <1>5, <1>6, <1>7, <1>8

LEMMA ComingAnswered ==
  ASSUME TabTypeOK, TabFits, RowsComing, NEW k, AnswerCall(k)
  PROVE  RowsComing'
<1> SUFFICES ASSUME Alone, view # "metrics" PROVE ToBeFetched' \/ Fetched' \/ Current'
  BY DEF RowsComing, Alone, AnswerCall
<1>1. /\ k \in DOMAIN calls /\ k = 1 /\ ~Unserved(k) /\ CallFits(calls[k])
      /\ calls[k] \in Request /\ UNCHANGED <<db, view, faults>>
  BY AnswerPositions, AloneIsOrderly, Positions DEF TabFits, AnswerCall
<1>2. Rows(view)' = Rows(view)
  BY <1>1 DEF Rows
<1>3. CASE Asks(k)
  <2>1. PICK c : c = Fetch(view, range) /\ c.live /\ c.op = "list" /\ c.state = "sent"
    BY FetchType DEF TabTypeOK
  <2>2. PICK n \in DOMAIN calls' : calls'[n] = c
    BY <1>3, <2>1, AnswerPositions
  <2> QED BY <2>1, <2>2 DEF ToBeFetched, Lists, Unserved
<1>4. CASE ~Asks(k)
  <2>1. \A j \in DOMAIN calls' : \E i \in DOMAIN calls : i # k /\ calls'[j] = calls[i] /\ i = j + 1 /\ j \in Nat
    <3> SUFFICES ASSUME NEW j \in DOMAIN calls'
                 PROVE  \E i \in DOMAIN calls : i # k /\ calls'[j] = calls[i] /\ i = j + 1 /\ j \in Nat
      OBVIOUS
    <3>1. PICK i \in DOMAIN calls : i # k /\ calls'[j] = calls[i] /\ (j < k => i = j) /\ (j >= k => i = j + 1)
      BY <1>4, AnswerPositions
    <3>2. j \in Nat /\ j >= 1
      BY AnswerStep
    <3> QED BY <1>1, <3>1, <3>2
  <2>2. \A i \in DOMAIN calls : i # k => \E j \in DOMAIN calls' : calls'[j] = calls[i] /\ j = i - 1
    <3> SUFFICES ASSUME NEW i \in DOMAIN calls, i # k
                 PROVE  \E j \in DOMAIN calls' : calls'[j] = calls[i] /\ j = i - 1
      OBVIOUS
    <3>1. i \in Nat /\ i > k
      BY <1>1, Positions
    <3> QED BY <3>1, AnswerPositions
  <2>3. CASE ToBeFetched
    <3>1. PICK i \in DOMAIN calls : \/ calls[i].live /\ IsWrite(calls[i]) /\ calls[i].state = "ok"
                                    \/ Lists(i) /\ Unserved(i)
      BY <2>3 DEF ToBeFetched
    <3>2. i # k
      BY <1>1, <1>4, <3>1 DEF Asks
    <3>3. PICK j \in DOMAIN calls' : calls'[j] = calls[i]
      BY <2>2, <3>2
    <3> QED BY <3>1, <3>3 DEF ToBeFetched, Lists, Unserved, IsWrite
  <2>4. CASE Fetched
    <3>1. PICK i \in DOMAIN calls :
             /\ Lists(i) /\ calls[i].state = "ok" /\ calls[i].rows = Rows(view)
             /\ \A j \in DOMAIN calls : Lists(j) => j <= i
      BY <2>4 DEF Fetched
    <3>2. i \in Nat
      BY Positions
    <3>3. CASE i # k
      <4>1. PICK l \in DOMAIN calls' : calls'[l] = calls[i] /\ l = i - 1
        BY <2>2, <3>3
      <4>2. \A j \in DOMAIN calls' : Lists(j)' => j <= l
        <5> SUFFICES ASSUME NEW j \in DOMAIN calls', Lists(j)' PROVE j <= l
          OBVIOUS
        <5>1. PICK a \in DOMAIN calls : calls'[j] = calls[a] /\ a = j + 1 /\ j \in Nat
          BY <2>1
        <5>2. a <= i
          BY <3>1, <5>1 DEF Lists
        <5> QED BY <3>2, <4>1, <5>1, <5>2
      <4>3. Lists(l)' /\ calls'[l].state = "ok" /\ calls'[l].rows = Rows(view)'
        BY <1>2, <3>1, <4>1 DEF Lists
      <4> QED BY <4>2, <4>3 DEF Fetched
    <3>4. CASE i = k
      <4>1. \A j \in DOMAIN calls' : ~Lists(j)'
        <5> SUFFICES ASSUME NEW j \in DOMAIN calls', Lists(j)' PROVE FALSE
          OBVIOUS
        <5>1. PICK a \in DOMAIN calls : a # k /\ calls'[j] = calls[a] /\ a = j + 1 /\ j \in Nat
          BY <2>1
        <5>2. a <= i
          BY <3>1, <5>1 DEF Lists
        <5>3. j >= 1
          BY AnswerStep
        <5> QED BY <1>1, <3>4, <5>1, <5>2, <5>3
      <4>2. shown' = Rows(view)
        <5>1. /\ calls[k].live /\ calls[k].op = "list" /\ ~calls[k].form
              /\ calls[k].state = "ok" /\ calls[k].rows = Rows(view)
          BY <1>1, <3>1, <3>4 DEF Lists, CallFits
        <5>2. Shown(calls[k])
          BY <5>1 DEF AnswerCall
        <5> QED BY <5>1, <5>2 DEF Shown
      <4> QED BY <1>2, <4>1, <4>2 DEF Current
    <3> QED BY <3>3, <3>4
  <2>5. CASE Current
    <3>1. \A j \in DOMAIN calls' : ~Lists(j)'
      BY <2>1, <2>5 DEF Current, Lists
    <3>2. shown' = shown
      <4>1. calls[k].live => calls[k].op \notin {"list", "metrics"}
        BY <1>1, <2>5 DEF Current, Lists, CallFits
      <4> QED BY <4>1 DEF AnswerCall, Saved
    <3> QED BY <1>2, <2>5, <3>1, <3>2 DEF Current
  <2> QED BY <2>3, <2>4, <2>5 DEF RowsComing
<1> QED BY <1>3, <1>4

LEMMA ComingStep ==
  ASSUME TabTypeOK, TabFits, Queued, FetchedAfter, RowsComing, [TabNext]_tabVars
  PROVE  RowsComing'
<1>1. CASE UNCHANGED tabVars
  BY <1>1, ComingSame DEF tabVars, tab
<1>2. ASSUME NEW v \in Views, Visit(v) PROVE RowsComing'
  <2>1. PICK c : /\ c = Fetch(v, DefaultRange) /\ c.live /\ c.state = "sent"
                 /\ v # "metrics" => c.op = "list"
    BY FetchType, PagesAssumption
  <2>2. PICK n \in DOMAIN calls' : calls'[n] = c
    BY <1>2, <2>1, LeftPositions
  <2>3. view' = v
    BY <1>2 DEF Visit
  <2> QED BY <2>1, <2>2, <2>3 DEF RowsComing, ToBeFetched, Lists, Unserved
<1>3. ASSUME NEW r \in Ranges, PickRange(r) PROVE RowsComing'
  BY <1>3 DEF PickRange, RowsComing
<1>4. CASE OpenAdd \/ Cancel
  BY <1>4, ComingSame DEF OpenAdd, Cancel
<1>6. ASSUME NEW i \in Ids, OpenEdit(i) PROVE RowsComing'
  BY <1>6, ComingSame DEF OpenEdit
<1>7. ASSUME NEW c, Sent(c), UNCHANGED <<db, view, shown, faults>> PROVE RowsComing'
  BY <1>7, WriteTypes, ComingMore DEF Sent, IsWrite
<1>8. ASSUME NEW i \in Ids, DeleteRow(i) \/ Toggle(i) \/ CreateAccount(i) PROVE RowsComing'
  <2>1. UNCHANGED <<db, view, shown, faults>>
    BY <1>8 DEF DeleteRow, Toggle, CreateAccount, Saving, tab
  <2> QED BY <1>7, <1>8, <2>1, DeleteStep, ToggleStep, CreateStep
<1>10. ASSUME NEW i \in Ids, NEW row \in SocksRow, SubmitUser(i, row) PROVE RowsComing'
  <2>1. UNCHANGED <<db, view, shown, faults>>
    BY <1>10 DEF SubmitUser, Saving
  <2> QED BY <1>7, <1>10, <2>1, SubmitStep
<1>11. ASSUME NEW i \in Ids, NEW row \in Row \cup {Gone}, OthersChange(i, row) PROVE RowsComing'
  BY <1>11 DEF OthersChange, RowsComing, Alone
<1>12. ASSUME NEW k, ServeCall(k) PROVE RowsComing'
  BY <1>12, ComingServed
<1>13. ASSUME NEW k, LoseCall(k) PROVE RowsComing'
  BY <1>13, LoseStep DEF RowsComing, Alone
<1>14. ASSUME NEW k, AnswerCall(k) PROVE RowsComing'
  BY <1>14, ComingAnswered
<1> QED
  BY <1>1, <1>2, <1>3, <1>4, <1>6, <1>8, <1>10, <1>11, <1>12, <1>13, <1>14 DEF TabNext

-----------------------------------------------------------------------------
\* What a form and a put start from.
\* Rows that rest on the screen are those there are.
LEMMA RowShown ==
  ASSUME TabTypeOK, TabFits, RowsComing, calls = <<>>, Alone, shown # Nil
  PROVE  view # "metrics" /\ shown = Rows(view) /\ \A i \in Ids : shown[i] # NoRow => shown[i] = db[i]
<1>1. view # "metrics" /\ DOMAIN calls = {}
  BY Positions DEF TabFits
<1>2. shown = Rows(view)
  BY <1>1 DEF RowsComing, ToBeFetched, Fetched, Current
<1> QED BY <1>1, <1>2 DEF Rows

LEMMA UndisturbedSame ==
  ASSUME TabTypeOK, Undisturbed, UNCHANGED <<db, form, calls, faults>>
  PROVE  Undisturbed'
BY DEF Undisturbed, Alone, FormCall, Unserved

\* A form is opened or closed.
LEMMA UndisturbedOpening ==
  ASSUME TabTypeOK, Undisturbed, UNCHANGED <<db, calls, faults>>,
         Alone /\ form'.open /\ ~form'.early =>
           calls = <<>> /\ (form'.id # Nil => form'.row = db[form'.id])
  PROVE  Undisturbed'
<1>1. calls = <<>> => DOMAIN calls = {}
  BY Positions
<1>2. \A k \in DOMAIN calls : Unserved(k)' <=> Unserved(k)
  BY DEF Unserved
<1> QED BY <1>1, <1>2 DEF Undisturbed, Alone

\* A call is made.
LEMMA UndisturbedMade ==
  ASSUME TabTypeOK, Undisturbed, NEW c, Added(c), UNCHANGED <<db, faults>>,
         Alone => /\ c.op = "put" /\ ~c.early => calls = <<>> /\ c.base = db[c.id]
                  /\ form'.open /\ ~form'.early =>
                       /\ calls = <<>> /\ c.live /\ c.form
                       /\ form'.id # Nil => form'.row = db[form'.id]
  PROVE  Undisturbed'
<1>0. Len(calls) \in Nat /\ (calls = <<>> => Len(calls) = 0 /\ DOMAIN calls = {})
  BY Positions
<1>a. PICK n \in Nat : n = Len(calls) + 1
  BY <1>0
<1>b. /\ DOMAIN calls' = DOMAIN calls \cup {n} /\ calls'[n] = c
      /\ \A j \in DOMAIN calls : calls'[j] = calls[j]
  BY <1>a, AddPositions
<1>c. calls = <<>> => n = 1 /\ DOMAIN calls = {}
  BY <1>0, <1>a
<1>1. /\ DOMAIN calls' = DOMAIN calls \cup {n} /\ calls'[n] = c
      /\ calls = <<>> => n = 1 /\ DOMAIN calls = {}
      /\ \A j \in DOMAIN calls : calls'[j] = calls[j]
  BY <1>b, <1>c
<1> SUFFICES ASSUME Alone
             PROVE  /\ form'.open /\ ~form'.early => \A k \in DOMAIN calls' : FormCall(k)'
                    /\ form'.open /\ form'.id # Nil /\ ~form'.early => form'.row = db'[form'.id]
                    /\ \A k \in DOMAIN calls' :
                         calls'[k].op = "put" /\ calls'[k].state = "sent" /\ ~calls'[k].early =>
                           k = 1 /\ calls'[k].base = db'[calls'[k].id]
  BY DEF Undisturbed, Alone, Unserved
<1>2. form'.open /\ ~form'.early => \A k \in DOMAIN calls' : FormCall(k)'
  BY <1>1 DEF FormCall
<1>3. ASSUME NEW k \in DOMAIN calls', calls'[k].op = "put", calls'[k].state = "sent", ~calls'[k].early
      PROVE  k = 1 /\ calls'[k].base = db[calls'[k].id]
  <2>1. CASE k \in DOMAIN calls
    BY <1>1, <1>3, <2>1 DEF Undisturbed, Unserved
  <2>2. CASE k = n
    BY <1>1, <1>3, <2>2
  <2> QED BY <1>1, <2>1, <2>2
<1> QED BY <1>2, <1>3

LEMMA UndisturbedServed ==
  ASSUME TabTypeOK, Undisturbed, NEW k, ServeCall(k)
  PROVE  Undisturbed'
<1> SUFFICES ASSUME Alone
             PROVE  /\ form'.open /\ ~form'.early => \A j \in DOMAIN calls' : FormCall(j)'
                    /\ form'.open /\ form'.id # Nil /\ ~form'.early =>
                         form'.row = db'[form'.id] \/ \E j \in DOMAIN calls' : calls'[j].state = "ok"
                    /\ \A j \in DOMAIN calls' :
                         calls'[j].op = "put" /\ Unserved(j)' /\ ~calls'[j].early => FALSE
  BY ServeStep DEF Undisturbed, Alone
<1>1. PICK ok, rows : ok \in BOOLEAN /\ Served(k, ok, rows)
  BY ServeStep
<1>2. /\ k \in DOMAIN calls /\ Unserved(k) /\ UNCHANGED form
      /\ \A j \in DOMAIN calls : j < k => ~Unserved(j)
  BY AloneIsOrderly, ServeStep DEF tab
<1>3. /\ DOMAIN calls' = DOMAIN calls
      /\ \A j \in DOMAIN calls : /\ calls'[j].live = calls[j].live /\ calls'[j].form = calls[j].form
                                 /\ j # k => calls'[j] = calls[j]
      /\ calls'[k].state = (IF ok THEN "ok" ELSE "error")
  BY <1>1, <1>2, MarkPositions DEF Served
<1>4. form.open /\ ~form.early => \A j \in DOMAIN calls' : FormCall(j)'
  BY <1>3 DEF Undisturbed, FormCall
<1>5. ASSUME form.open, form.id # Nil, ~form.early
      PROVE  form.row = db'[form.id] \/ \E j \in DOMAIN calls' : calls'[j].state = "ok"
  <2>1. CASE ok
    BY <1>2, <1>3, <2>1
  <2>2. CASE ~ok
    <3>1. db' = db
      BY <1>1, <2>2 DEF Served
    <3> QED BY <1>2, <1>3, <1>5, <3>1 DEF Undisturbed, Unserved
  <2> QED BY <2>1, <2>2
<1>6. ASSUME NEW j \in DOMAIN calls', calls'[j].op = "put", Unserved(j)', ~calls'[j].early
      PROVE  FALSE
  <2>1. j # k /\ calls'[j] = calls[j] /\ Unserved(j)
    BY <1>3, <1>6 DEF Unserved
  <2>2. j = 1
    BY <1>3, <1>6, <2>1 DEF Undisturbed
  <2>3. 1 < k
    BY <1>2, <2>1, <2>2, Positions
  <2> QED BY <1>2, <1>3, <2>1, <2>2, <2>3
<1> QED BY <1>2, <1>4, <1>5, <1>6

LEMMA UndisturbedAnswered ==
  ASSUME TabTypeOK, TabFits, FormWaits, Undisturbed, NEW k, AnswerCall(k)
  PROVE  Undisturbed'
<1> SUFFICES ASSUME Alone
             PROVE  /\ form'.open /\ ~form'.early => \A j \in DOMAIN calls' : FormCall(j)'
                    /\ form'.open /\ form'.id # Nil /\ ~form'.early => form'.row = db'[form'.id]
                    /\ \A j \in DOMAIN calls' :
                         calls'[j].op = "put" /\ Unserved(j)' /\ ~calls'[j].early => FALSE
  BY DEF Undisturbed, Alone, AnswerCall
<1>1. PICK c : c = Fetch(view, range) /\ c.op # "put"
  BY FetchType DEF TabTypeOK, IsWrite
<1>2. /\ k \in DOMAIN calls /\ ~Unserved(k) /\ k = 1 /\ UNCHANGED db
      /\ \A j \in DOMAIN calls' :
            \/ \E i \in DOMAIN calls : i # k /\ calls'[j] = calls[i]
            \/ Asks(k) /\ calls'[j] = c
  BY <1>1, AloneIsOrderly, AnswerPositions, AnswerForm
<1>3. ASSUME NEW j \in DOMAIN calls', calls'[j].op = "put", Unserved(j)', ~calls'[j].early
      PROVE  FALSE
  <2>1. PICK i \in DOMAIN calls : i # 1 /\ calls'[j] = calls[i]
    BY <1>1, <1>2, <1>3
  <2> QED BY <1>3, <2>1 DEF Undisturbed, Unserved
<1>4. ASSUME form'.open, ~form'.early
      PROVE  /\ FormCall(k) /\ calls[k].state # "ok" /\ form.open
             /\ form'.early = form.early /\ form'.id = form.id /\ form'.row = form.row
  <2>1. CASE FormCall(k)
    <3>1. Saved(calls[k])
      BY <2>1, AnswerForm
    <3>2. calls[k].state # "ok"
      BY <1>4, <3>1 DEF Saved, Shut, Blank
    <3> QED BY <1>4, <2>1, <3>1, <3>2 DEF Saved, TabTypeOK, Form
  <2>2. CASE ~FormCall(k)
    BY <1>2, <1>4, <2>2, AnswerForm DEF Undisturbed
  <2> QED BY <2>1, <2>2
<1>5. ASSUME form'.open, ~form'.early
      PROVE  \A i \in DOMAIN calls : i = k
  BY <1>2, <1>4, <1>5 DEF Undisturbed, FormWaits
<1>6. ASSUME form'.open, ~form'.early
      PROVE  DOMAIN calls' = {}
  BY <1>2, <1>4, <1>5, <1>6 DEF Asks
<1>7. ASSUME form'.open, ~form'.early, form'.id # Nil
      PROVE  form'.row = db[form'.id]
  BY <1>4, <1>5, <1>7 DEF Undisturbed
<1> QED BY <1>2, <1>3, <1>6, <1>7

LEMMA UndisturbedStep ==
  ASSUME TabTypeOK, TabFits, FormWaits, RowsComing, Undisturbed, [TabNext]_tabVars
  PROVE  Undisturbed'
<1>1. CASE UNCHANGED tabVars
  BY <1>1, UndisturbedSame DEF tabVars, tab
<1>2. ASSUME NEW v \in Views, Visit(v) PROVE Undisturbed'
  <2>1. ~form'.open /\ UNCHANGED <<db, faults>>
    BY <1>2 DEF Visit, Blank
  <2>2. PICK c : c = Fetch(v, DefaultRange) /\ c.op # "put"
    BY FetchType, PagesAssumption DEF IsWrite
  <2>3. \A k \in DOMAIN calls' :
          \/ k \in DOMAIN calls
             /\ \A f \in {"op", "id", "base", "early", "state"} : calls'[k][f] = calls[k][f]
          \/ calls'[k] = c
    BY <1>2, <2>2, LeftStep, LeftPositions, Positions
  <2> QED BY <2>1, <2>2, <2>3 DEF Undisturbed, Alone, Unserved
<1>3. ASSUME NEW r \in Ranges, PickRange(r) PROVE Undisturbed'
  <2>1. PICK c : c = Fetch("metrics", r) /\ Added(c)
    BY <1>3, RangeStep
  <2>2. c.op # "put"
    BY <2>1, FetchType DEF Views, IsWrite
  <2>3. ~form'.open /\ UNCHANGED <<db, faults>>
    BY <1>3 DEF PickRange, TabFits
  <2> QED BY <2>1, <2>2, <2>3, UndisturbedMade
<1>4. CASE OpenAdd
  BY <1>4, FormType, UndisturbedOpening DEF OpenAdd
<1>5. CASE Cancel
  <2>1. ~form'.open
    BY <1>5 DEF Cancel, Shut, Blank
  <2> QED BY <1>5, <2>1, UndisturbedOpening DEF Cancel
<1>6. ASSUME NEW i \in Ids, OpenEdit(i) PROVE Undisturbed'
  <2>1. UNCHANGED <<db, calls, faults>>
    BY <1>6 DEF OpenEdit
  <2>2. Alone /\ ~form'.early => calls = <<>> /\ form'.row = db[form'.id]
    BY <1>6, OpenedForm, RowShown
  <2> QED BY <2>1, <2>2, UndisturbedOpening
<1>7. ASSUME NEW i \in Ids, DeleteRow(i) PROVE Undisturbed'
  <2>1. PICK c : Sent(c) /\ c.op = "delete"
    BY <1>7, DeleteStep
  <2>2. ~form'.open /\ UNCHANGED <<db, faults>>
    BY <1>7 DEF DeleteRow, Closed, tab
  <2> QED BY <2>1, <2>2, WriteTypes, UndisturbedMade
<1>8. ASSUME NEW i \in Ids, Toggle(i) PROVE Undisturbed'
  <2>1. PICK c : /\ Sent(c) /\ c.id = i /\ c.base = shown[i] /\ shown # Nil /\ shown[i] # NoRow
                 /\ c.early = (calls # <<>>)
    BY <1>8, ToggleStep
  <2>2. ~form'.open /\ UNCHANGED <<db, faults>>
    BY <1>8 DEF Toggle, Closed, tab
  <2>3. Alone /\ calls = <<>> => shown[i] = db[i]
    BY <2>1, RowShown
  <2> QED BY <2>1, <2>2, <2>3, WriteTypes, UndisturbedMade
<1>9. ASSUME NEW c, Sent(c), c.form, Saving,
             c.op = "put" => /\ form.id # Nil /\ c.id = form.id
                             /\ c.base = form.row /\ c.early = form.early
      PROVE  Undisturbed'
  <2>1. Alone /\ ~form.early =>
          calls = <<>> /\ (form.id # Nil => form.row = db[form.id])
    <3> SUFFICES ASSUME Alone, ~form.early
                 PROVE  calls = <<>> /\ (form.id # Nil => form.row = db[form.id])
      OBVIOUS
    <3>1. DOMAIN calls = {}
      BY <1>9, SavingForm DEF Undisturbed, FormWaits
    <3> QED BY <1>9, <3>1, SavingForm, Positions DEF Undisturbed
  <2> QED BY <1>9, <2>1, SavingForm, WriteTypes, UndisturbedMade DEF Sent
<1>10. ASSUME NEW i \in Ids, CreateAccount(i) PROVE Undisturbed'
  <2>1. PICK c : Sent(c) /\ c.form /\ c.op = "post"
    BY <1>10, CreateStep
  <2> QED BY <1>9, <1>10, <2>1 DEF CreateAccount
<1>11. ASSUME NEW i \in Ids, NEW row \in SocksRow, SubmitUser(i, row) PROVE Undisturbed'
  <2>1. PICK c : /\ Sent(c) /\ c.form
                 /\ c.op = "put" => /\ form.id # Nil /\ c.id = form.id
                                    /\ c.base = form.row /\ c.early = form.early
    BY <1>11, SubmitStep
  <2> QED BY <1>9, <1>11, <2>1 DEF SubmitUser
<1>12. ASSUME NEW i \in Ids, NEW row \in Row \cup {Gone}, OthersChange(i, row) PROVE Undisturbed'
  BY <1>12 DEF OthersChange, Undisturbed, Alone
<1>13. ASSUME NEW k, ServeCall(k) PROVE Undisturbed'
  BY <1>13, UndisturbedServed
<1>14. ASSUME NEW k, LoseCall(k) PROVE Undisturbed'
  BY <1>14, LoseStep DEF Undisturbed, Alone
<1>15. ASSUME NEW k, AnswerCall(k) PROVE Undisturbed'
  BY <1>15, UndisturbedAnswered
<1> QED
  BY <1>1, <1>2, <1>3, <1>4, <1>5, <1>6, <1>7, <1>8, <1>10, <1>11, <1>12, <1>13, <1>14, <1>15 DEF TabNext

-----------------------------------------------------------------------------
\* The invariant holds.
LEMMA TabInitially == TabInit => TabInv
<1> SUFFICES ASSUME TabInit PROVE TabInv
  OBVIOUS
<1>1. PICK c : c = Bare("list")
  OBVIOUS
<1>2. calls = <<c>> /\ view = "server" /\ loading = FALSE /\ form = Blank /\ shown = Nil
  BY <1>1 DEF TabInit
<1>3. /\ c \in Request /\ c.op = "list" /\ c.live /\ ~c.form /\ c.state = "sent" /\ c.view = "server"
  BY <1>1, <1>2, RequestType DEF Bare, Views
<1>4. calls \in Seq(Request) /\ Len(calls) = 1 /\ DOMAIN calls = {1} /\ calls[1] = c /\ calls # <<>>
  BY <1>2, <1>3
<1>5. Blank \in Form /\ ~Blank.open /\ Blank.id = Nil
  BY DEF Blank, Form
<1>6. TabTypeOK
  <2>1. Len(calls) <= MaxCalls
    BY <1>4, PagesAssumption
  <2>2. db \in [Ids -> Row \cup {NoRow, Gone}] /\ \A i \in Ids : db[i] \in RowOf(i) \cup {NoRow, Gone}
    BY DEF TabInit
  <2>3. range \in Ranges /\ charted = Nil /\ faults \in Scenarios
    BY PagesAssumption DEF TabInit
  <2> QED BY <1>2, <1>4, <1>5, <2>1, <2>2, <2>3 DEF TabTypeOK, Views
<1>7. TabFits
  BY <1>2, <1>3, <1>4, <1>5 DEF TabFits, CallFits, IsWrite
<1>8. FormWaits
  BY <1>2, <1>3, <1>4, <1>5 DEF FormWaits, FormCall
<1>9. Queued /\ ChartComing
  BY <1>2, <1>3, <1>4 DEF Queued, ChartComing, Unserved
<1>10. FetchedAfter /\ RowsComing
  BY <1>3, <1>4 DEF FetchedAfter, RowsComing, ToBeFetched, Lists, Unserved
<1>11. Undisturbed
  BY <1>2, <1>3, <1>4, <1>5 DEF Undisturbed
<1> QED BY <1>6, <1>7, <1>8, <1>9, <1>10, <1>11 DEF TabInv

LEMMA TabInvariance == TabSpec => []TabInv
<1>1. TabInv /\ [TabNext]_tabVars => TabInv'
  BY TabTypeStep, TabFitsStep, FormWaitsStep, QueuedStep, ChartStep, FetchedStep, ComingStep,
     UndisturbedStep DEF TabInv
<1> QED BY TabInitially, <1>1, PTL DEF TabSpec

\* page.js of the pages: what a tab keeps has its type, and what it sends fits
\* the table it is sent to.
THEOREM TabTypeCorrect == TabSpec => []TabTypeOK
<1>1. TabInv => TabTypeOK
  BY DEF TabInv
<1> QED BY <1>1, TabInvariance, PTL

\* fetchServerDetails, fetchUsers, the effect of the metrics page: what rests
\* on the screen are the rows there are and the range that is chosen.
THEOREM AtRestCorrect == TabSpec => []AtRestCurrent
<1>1. TabInv => AtRestCurrent
  <2> SUFFICES ASSUME TabInv, calls = <<>>
               PROVE  /\ faults \subseteq {"impatient"} /\ shown # Nil => shown = Rows(view)
                      /\ faults \subseteq {"impatient", "others"} /\ view = "metrics" => charted = range
    BY DEF AtRestCurrent
  <2>1. faults \subseteq {"impatient"} /\ shown # Nil => shown = Rows(view)
    BY RowShown DEF TabInv, Alone
  <2>2. faults \subseteq {"impatient", "others"} => Orderly
    BY DEF Orderly
  <2> QED BY <2>1, <2>2 DEF TabInv, ChartComing
<1> QED BY <1>1, TabInvariance, PTL

\* formLoading, formError: a form that was not opened while another was being
\* saved waits for its own call and for no other, and an error is the one of the
\* form it is shown in, however impatient the user; no button is disabled
\* without a call of a form of the page under way.
THEOREM FormCorrect == TabSpec => []FormExact
<1>1. TabInv => FormExact
  BY DEF TabInv, FormWaits, FormExact, FormCall
<1> QED BY <1>1, TabInvariance, PTL

\* handleSubmitUser, handleToggleActive: the fields the user left alone are
\* sent as they are in the table, whatever the user does while they are under
\* way, if what the form or the button shows was taken when nothing was.
THEOREM SavesCorrect == TabSpec => NoLostUpdate
<1>1. TabInv /\ [TabNext]_tabVars =>
        [faults \subseteq {"impatient"} =>
          \A i \in Ids : db[i] \in Row /\ db'[i] \in Row =>
            \A f \in DOMAIN db[i] : db'[i][f] # db[i][f] =>
              \E k \in DOMAIN calls :
                  /\ calls[k].id = i /\ calls[k].op = "put"
                  /\ calls[k].state = "sent" /\ calls'[k].state = "ok"
                  /\ calls[k].early \/ calls[k].row[f] # calls[k].base[f]]_tabVars
  <2> SUFFICES ASSUME TabInv, TabNext, Alone, NEW i \in Ids, db[i] \in Row, db'[i] \in Row,
                      NEW f \in DOMAIN db[i], db'[i][f] # db[i][f]
               PROVE  \E k \in DOMAIN calls :
                          /\ calls[k].id = i /\ calls[k].op = "put"
                          /\ calls[k].state = "sent" /\ calls'[k].state = "ok"
                          /\ calls[k].early \/ calls[k].row[f] # calls[k].base[f]
    BY DEF Alone
  <2> USE DEF TabInv
  <2>1. db' # db
    OBVIOUS
  <2>2. PICK k : ServeCall(k)
    BY <2>1, LoseStep DEF TabNext, Visit, PickRange, OpenAdd, Cancel, OpenEdit, DeleteRow, Toggle,
       CreateAccount, SubmitUser, Saving, OthersChange, AnswerCall, Alone
  <2>3. PICK ok, rows : Served(k, ok, rows)
    BY <2>2, ServeStep
  <2>4. k \in DOMAIN calls /\ Unserved(k) /\ CallFits(calls[k]) /\ calls[k] \in Request
    BY <2>2, ServeStep, Positions DEF TabFits
  <2>5. IsWrite(calls[k]) /\ Written(calls[k]) /\ ok
    BY <2>1, <2>3 DEF Served
  <2>6. calls[k].id = i
    BY <2>5, <2>4 DEF Written, TabTypeOK
  <2>7. calls[k].op = "put"
    BY <2>4, <2>5, <2>6, PagesAssumption DEF Written, IsWrite, TabTypeOK
  <2>8. db'[i] = calls[k].row
    BY <2>4, <2>5, <2>6, <2>7 DEF Written, TabTypeOK
  <2>9. calls[k].early \/ calls[k].base = db[i]
    BY <2>4, <2>6, <2>7 DEF Undisturbed
  <2>10. calls[k].state = "sent" /\ calls'[k].state = "ok"
    BY <2>3, <2>4, <2>5 DEF Served, Marked, Unserved
  <2> QED BY <2>4, <2>6, <2>7, <2>8, <2>9, <2>10
<1> QED BY <1>1, TabInvariance, PTL DEF TabSpec, NoLostUpdate
=============================================================================
