---------------------------- MODULE PluginProofs ----------------------------
(***************************************************************************)
(* Proofs about Plugin for any number of logins and events: its state is   *)
(* well typed, one refresh of a token at a time is on its way, an MQTT     *)
(* client has one connection, and motion ends.                             *)
(*                                                                         *)
(* A token is being refreshed exactly while its API's promise is set       *)
(* (Counted).  A request is on its way once (Apart), and one that fetches  *)
(* devices or a config belongs to a call or a client that waits for it     *)
(* (Awaited).  A client connects, is connected, or neither (Clients).      *)
(***************************************************************************)
EXTENDS Plugin, TLAPS

TokensTyped ==
  /\ updating \subseteq Logins /\ refreshes \in [Logins -> Nat]
  /\ waiting \subseteq Requests /\ sent \subseteq Requests

Counted == \A a \in Logins : refreshes[a] = IF a \in updating THEN 1 ELSE 0

Apart == waiting \cap sent = {}

TokensRight == TokensTyped /\ Counted /\ Apart

Awaited ==
  \A r \in waiting \cup sent :
    /\ r.who = "devices" => r.api = r.of /\ phase[r.of] = "devices"
    /\ r.who = "mq" => r.api = uses[r.of] /\ fetching[r.of] = 1

Fresh == {"none", "token", "devices", "announcing"}

Clients ==
  \A l \in Logins :
    /\ fetching[l] + conns[l] <= 1
    /\ uses[l] = 0 => fetching[l] = 0 /\ conns[l] = 0
    /\ phase[l] \in Fresh => uses[l] = 0
    /\ l > latest => phase[l] = "none"
    /\ l \in retry \cup up => conns[l] = 1
    /\ phase[l] = "announcing" \/ uses[l] # 0 => devices # 0

Inv == TypeOK /\ Counted /\ Apart /\ Awaited /\ Clients /\ MotionEnds

(* A request and its fields.                                               *)
LEMMA RequestFields ==
  ASSUME NEW who \in {"devices", "mq", "user"}, NEW l \in Logins, NEW a \in Logins
  PROVE  /\ Request(who, l, a) \in Requests
         /\ Request(who, l, a).who = who
         /\ Request(who, l, a).of = l
         /\ Request(who, l, a).api = a
BY DEF Request, Requests

LEMMA InRequests ==
  ASSUME NEW r \in Requests
  PROVE  /\ r.who \in {"devices", "mq", "user"} /\ r.of \in Logins /\ r.api \in Logins
         /\ r = Request(r.who, r.of, r.api)
BY DEF Request, Requests

(* A request that begins, or begins again, is then on its way once, and a  *)
(* refresh begins only when none is on its way.                            *)
LEMMA AskKeeps ==
  ASSUME TokensRight, NEW r \in Requests, r \notin waiting, Ask(r)
  PROVE  /\ TokensRight'
         /\ waiting' \cup sent' = waiting \cup sent \cup {r}
<1>a. r.api \in Logins
  BY InRequests
<1>1. CASE r.api \in updating \cup expired
  <2>1. waiting' = waiting \cup {r} /\ sent' = sent \ {r}
    BY <1>1 DEF Ask
  <2>2. Apart' /\ waiting' \cup sent' = waiting \cup sent \cup {r}
    BY <2>1 DEF Apart, TokensRight
  <2>3. waiting' \subseteq Requests /\ sent' \subseteq Requests
    BY <2>1 DEF TokensRight, TokensTyped
  <2>4. CASE r.api \in updating
    <3>1. UNCHANGED <<updating, refreshes>>
      BY <1>1, <2>4 DEF Ask
    <3> QED
      BY <3>1, <2>2, <2>3 DEF TokensRight, TokensTyped, Counted
  <2>5. CASE r.api \notin updating
    <3>1. updating' = updating \cup {r.api}
          /\ refreshes' = [refreshes EXCEPT ![r.api] = @ + 1]
      BY <1>1, <2>5 DEF Ask, BeginRefresh
    <3>2. updating' \subseteq Logins /\ refreshes' \in [Logins -> Nat] /\ Counted'
      BY <3>1, <2>5, <1>a DEF TokensRight, TokensTyped, Counted
    <3> QED
      BY <3>2, <2>2, <2>3 DEF TokensRight, TokensTyped
  <2> QED
    BY <2>4, <2>5
<1>2. CASE r.api \notin updating \cup expired
  BY <1>2 DEF Ask, TokensRight, TokensTyped, Counted, Apart
<1> QED
  BY <1>1, <1>2

(* The end of a refresh: its waiters leave, to be sent or to fail.         *)
LEMMA RefreshOverKeeps ==
  ASSUME TokensRight, NEW a \in Logins, RefreshOver(a),
         NEW go, go \subseteq Waiters(a), sent' = sent \cup go
  PROVE  /\ TokensRight'
         /\ waiting' \cup sent' \subseteq waiting \cup sent
         /\ (waiting' \cup sent') \cap (Waiters(a) \ go) = {}
<1>1. waiting' = waiting \ Waiters(a) /\ Waiters(a) \subseteq waiting
  BY DEF RefreshOver, Waiters
<1>2. Apart' /\ waiting' \cup sent' \subseteq waiting \cup sent
  BY <1>1 DEF TokensRight, Apart
<1>3. (waiting' \cup sent') \cap (Waiters(a) \ go) = {}
  BY <1>1 DEF TokensRight, Apart
<1>4. waiting' \subseteq Requests /\ sent' \subseteq Requests
  BY <1>1 DEF TokensRight, TokensTyped
<1>5. updating' = updating \ {a} /\ refreshes' = [refreshes EXCEPT ![a] = @ - 1]
      /\ refreshes[a] > 0
  BY DEF RefreshOver
<1>6. refreshes[a] = 1
  BY <1>5 DEF TokensRight, TokensTyped, Counted
<1>7. updating' \subseteq Logins /\ refreshes' \in [Logins -> Nat] /\ Counted'
  BY <1>5, <1>6 DEF TokensRight, TokensTyped, Counted
<1> QED
  BY <1>2, <1>3, <1>4, <1>7 DEF TokensRight, TokensTyped

CallsTyped ==
  /\ latest \in 0..MaxLogins
  /\ phase \in [Logins -> {"none", "token", "devices", "announcing", "mqtt", "over"}]
  /\ stored \in 0..MaxLogins /\ api \in 0..MaxLogins /\ devices \in 0..MaxLogins
  /\ expired \subseteq Logins

ClientsTyped ==
  /\ uses \in [Logins -> 0..MaxLogins]
  /\ fetching \in [Logins -> Nat] /\ conns \in [Logins -> Nat]
  /\ up \subseteq Logins /\ retry \subseteq Logins /\ over \subseteq Logins

MotionTyped ==
  debounced \subseteq Logins /\ motion \in BOOLEAN /\ events \in 0..MaxEvents

(* The parts of the state make up the whole, in the next state too.        *)
LEMMA Parts ==
  Inv <=> /\ CallsTyped /\ ClientsTyped /\ MotionTyped /\ TokensRight
          /\ Awaited /\ Clients /\ MotionEnds
BY DEF TypeOK, CallsTyped, ClientsTyped, MotionTyped, TokensTyped, Inv, TokensRight

LEMMA PartsNext ==
  ASSUME CallsTyped', ClientsTyped', MotionTyped', TokensRight', Awaited', Clients',
         MotionEnds'
  PROVE  Inv'
BY DEF TypeOK, CallsTyped, ClientsTyped, MotionTyped, TokensTyped, Inv, TokensRight

(* Reports that begin or prolong a motion leave a timer to end it.         *)
LEMMA DebounceKeeps ==
  ASSUME MotionTyped, MotionEnds, NEW d \in Logins, Debounce(d),
         events' \in 0..MaxEvents
  PROVE  MotionTyped' /\ MotionEnds'
BY DEF MotionTyped, MotionEnds, Debounce

(* Requests that fail take with them what waited for them.                 *)
LEMMA FailedKeeps ==
  ASSUME CallsTyped, ClientsTyped, Awaited, Clients, NEW rs, rs \subseteq waiting \cup sent,
         rs \subseteq Requests, Failed(rs), (waiting' \cup sent') \cap rs = {},
         waiting' \cup sent' \subseteq waiting \cup sent, TokensTyped,
         UNCHANGED <<latest, api, devices, expired, uses, conns, up, retry>>,
         stored' \in {0, stored}
  PROVE  CallsTyped' /\ ClientsTyped' /\ Awaited' /\ Clients'
<1> DEFINE hit(l) == \E r \in rs : r.who = "mq" /\ r.of = l
           cut(l) == \E r \in rs : r.who = "devices" /\ r.of = l
<1>1. /\ phase' = [l \in Logins |-> IF cut(l) THEN "over" ELSE phase[l]]
      /\ fetching' = [l \in Logins |-> IF hit(l) THEN fetching[l] - 1 ELSE fetching[l]]
      /\ over' = over \cup {r.of : r \in {q \in rs : q.who = "mq"}}
  BY DEF Failed
<1>2. \A l \in Logins : hit(l) => fetching[l] = 1
  BY DEF Awaited
<1>3. fetching' \in [Logins -> Nat]
  BY <1>1, <1>2 DEF ClientsTyped
<1>4. over' \subseteq Logins
  BY <1>1 DEF ClientsTyped, Requests
<1>5. CallsTyped'
  BY <1>1, PluginAssumption DEF CallsTyped
<1>6. ClientsTyped'
  BY <1>3, <1>4 DEF ClientsTyped
<1>7. Awaited'
  <2> SUFFICES ASSUME NEW r \in waiting' \cup sent'
               PROVE  /\ r.who = "devices" => r.api = r.of /\ phase'[r.of] = "devices"
                      /\ r.who = "mq" => r.api = uses[r.of] /\ fetching'[r.of] = 1
    BY DEF Awaited
  <2>1. r \in waiting \cup sent /\ r \notin rs /\ r \in Requests
    BY DEF TokensTyped
  <2>2. CASE r.who = "devices"
    <3>1. ~cut(r.of)
      <4> SUFFICES ASSUME NEW q \in rs, q.who = "devices", q.of = r.of  PROVE FALSE
        OBVIOUS
      <4>1. q.api = r.api
        BY <2>1, <2>2 DEF Awaited
      <4>2. q = r
        BY <4>1, <2>1, <2>2, InRequests, q \in Requests
      <4> QED
        BY <4>2, <2>1
    <3> QED
      BY <3>1, <2>1, <2>2, <1>1, InRequests DEF Awaited
  <2>3. CASE r.who = "mq"
    <3>1. ~hit(r.of)
      <4> SUFFICES ASSUME NEW q \in rs, q.who = "mq", q.of = r.of  PROVE FALSE
        OBVIOUS
      <4>1. q.api = r.api
        BY <2>1, <2>3 DEF Awaited
      <4>2. q = r
        BY <4>1, <2>1, <2>3, InRequests, q \in Requests
      <4> QED
        BY <4>2, <2>1
    <3> QED
      BY <3>1, <2>1, <2>3, <1>1, InRequests DEF Awaited
  <2> QED
    BY <2>2, <2>3
<1>8. Clients'
  <2> SUFFICES ASSUME NEW l \in Logins
               PROVE  /\ fetching'[l] + conns[l] <= 1
                      /\ uses[l] = 0 => fetching'[l] = 0 /\ conns[l] = 0
                      /\ phase'[l] \in Fresh => uses[l] = 0
                      /\ l > latest => phase'[l] = "none"
                      /\ l \in retry \cup up => conns[l] = 1
                      /\ phase'[l] = "announcing" \/ uses[l] # 0 => devices # 0
    BY DEF Clients
  <2>1. fetching'[l] \in {fetching[l], fetching[l] - 1} /\ (fetching[l] = 0 => fetching'[l] = 0)
    BY <1>1, <1>2
  <2>2. cut(l) => phase[l] = "devices"
    BY DEF Awaited
  <2>3. phase'[l] = phase[l] \/ (phase'[l] = "over" /\ phase[l] = "devices")
    BY <2>2, <1>1
  <2>4. fetching[l] \in Nat /\ conns[l] \in Nat /\ fetching'[l] \in Nat
    BY <1>3 DEF ClientsTyped
  <2>5. /\ fetching[l] + conns[l] <= 1
        /\ uses[l] = 0 => fetching[l] = 0 /\ conns[l] = 0
        /\ phase[l] \in Fresh => uses[l] = 0
        /\ l > latest => phase[l] = "none"
        /\ l \in retry \cup up => conns[l] = 1
        /\ phase[l] = "announcing" \/ uses[l] # 0 => devices # 0
    BY DEF Clients
  <2>6. fetching'[l] + conns[l] <= 1
    BY <2>1, <2>4, <2>5
  <2>7. phase'[l] \in Fresh => uses[l] = 0
    BY <2>3, <2>5 DEF Fresh
  <2>8. l > latest => phase'[l] = "none"
    BY <2>3, <2>5
  <2>9. uses[l] = 0 => fetching'[l] = 0 /\ conns[l] = 0
    BY <2>1, <2>5
  <2>10. phase'[l] = "announcing" \/ uses[l] # 0 => devices # 0
    BY <2>3, <2>5
  <2> QED
    BY <2>5, <2>6, <2>7, <2>8, <2>9, <2>10
<1> QED
  BY <1>5, <1>6, <1>7, <1>8

(* The next request of a call or a client that waits for it.               *)
LEMMA AskAwaited ==
  ASSUME Awaited, TokensTyped, NEW r \in Requests,
         waiting' \cup sent' \subseteq waiting \cup sent \cup {r},
         r.who = "devices" => r.api = r.of /\ phase'[r.of] = "devices",
         r.who = "mq" => r.api = uses'[r.of] /\ fetching'[r.of] = 1,
         \A l \in Logins :
           /\ phase[l] = "devices" => phase'[l] = "devices"
           /\ fetching[l] = 1 => uses'[l] = uses[l] /\ fetching'[l] = 1
  PROVE  Awaited'
<1> SUFFICES ASSUME NEW q \in waiting' \cup sent', q # r
             PROVE  /\ q.who = "devices" => q.api = q.of /\ phase'[q.of] = "devices"
                    /\ q.who = "mq" => q.api = uses'[q.of] /\ fetching'[q.of] = 1
  BY DEF Awaited
<1>1. q \in waiting \cup sent /\ q.of \in Logins
  BY InRequests DEF TokensTyped
<1> QED
  BY <1>1 DEF Awaited

(* A client that connects had its one connection, and stops it.            *)
LEMMA ConnectKeeps ==
  ASSUME CallsTyped', ClientsTyped, TokensRight, Awaited, Clients, NEW l \in Logins,
         conns[l] > 0, Connect(l),
         phase' = phase \/ phase' = [phase EXCEPT ![l] = "over"],
         UNCHANGED <<latest, api, devices, expired, uses, over>>, CallsTyped
  PROVE  ClientsTyped' /\ TokensRight' /\ Awaited' /\ Clients'
<1> DEFINE r == Request("mq", l, uses[l])
<1>1. conns[l] = 1 /\ fetching[l] = 0 /\ uses[l] \in Logins
  BY DEF Clients, ClientsTyped, Logins
<1>2. r \in Requests /\ r.who = "mq" /\ r.of = l /\ r.api = uses[l]
  BY <1>1, RequestFields
<1>3. r \notin waiting /\ Ask(r)
  BY <1>1, <1>2 DEF Awaited, Connect
<1>4. TokensRight' /\ waiting' \cup sent' = waiting \cup sent \cup {r}
  BY <1>2, <1>3, AskKeeps
<1>5. /\ conns' = [conns EXCEPT ![l] = 0] /\ up' = up \ {l} /\ retry' = retry \ {l}
      /\ fetching' = [fetching EXCEPT ![l] = @ + 1]
  BY DEF Connect, Stopped
<1>6. ClientsTyped'
  BY <1>5, <1>1 DEF ClientsTyped
<1>7. fetching'[l] = 1 /\ conns'[l] = 0
  BY <1>5, <1>1 DEF ClientsTyped
<1>8. \A m \in Logins : phase'[m] = phase[m] \/ (m = l /\ phase'[m] = "over")
  BY DEF CallsTyped
<1>9. \A m \in Logins : phase[m] = "devices" => phase'[m] = "devices"
  BY <1>8, <1>1 DEF Clients, Fresh, Logins
<1>10. \A m \in Logins : fetching[m] = 1 => uses'[m] = uses[m] /\ fetching'[m] = 1
  BY <1>5, <1>1 DEF ClientsTyped
<1>11. Awaited'
  <2> HIDE DEF r
  <2>1. r.who = "mq" => r.api = uses'[r.of] /\ fetching'[r.of] = 1
    BY <1>2, <1>7
  <2>2. r.who # "devices" /\ TokensTyped
    BY <1>2 DEF TokensRight
  <2> QED
    BY <1>2, <1>4, <1>9, <1>10, <2>1, <2>2, AskAwaited
<1>12. Clients'
  <2> SUFFICES ASSUME NEW m \in Logins
               PROVE  /\ fetching'[m] + conns'[m] <= 1
                      /\ uses[m] = 0 => fetching'[m] = 0 /\ conns'[m] = 0
                      /\ phase'[m] \in Fresh => uses[m] = 0
                      /\ m > latest => phase'[m] = "none"
                      /\ m \in retry' \cup up' => conns'[m] = 1
                      /\ phase'[m] = "announcing" \/ uses[m] # 0 => devices # 0
    BY DEF Clients
  <2>1. /\ fetching[m] + conns[m] <= 1
        /\ uses[m] = 0 => fetching[m] = 0 /\ conns[m] = 0
        /\ phase[m] \in Fresh => uses[m] = 0
        /\ m > latest => phase[m] = "none"
        /\ m \in retry \cup up => conns[m] = 1
        /\ phase[m] = "announcing" \/ uses[m] # 0 => devices # 0
    BY DEF Clients
  <2>2. CASE m = l
    <3>1. uses[m] # 0 /\ phase[m] \notin Fresh
      BY <2>1, <2>2, <1>1 DEF Logins
    <3>2. phase'[m] \notin Fresh /\ ~(m > latest)
      BY <3>1, <2>1, <1>8 DEF Fresh
    <3> QED
      BY <2>1, <2>2, <3>1, <3>2, <1>5, <1>7
  <2>3. CASE m # l
    BY <2>1, <2>3, <1>5, <1>8 DEF ClientsTyped
  <2> QED
    BY <2>2, <2>3
<1> QED
  BY <1>4, <1>6, <1>11, <1>12

(* The two facts about the specification.                                  *)
LEMMA InitInv == Init => Inv
<1> SUFFICES ASSUME Init  PROVE Inv
  OBVIOUS
<1> USE PluginAssumption
<1>1. CallsTyped /\ ClientsTyped /\ TokensRight
  BY DEF Init, CallsTyped, ClientsTyped, TokensRight, TokensTyped, Counted, Apart, Logins
<1>2. debounced \subseteq Logins /\ motion \in BOOLEAN /\ MotionEnds
  BY DEF Init, MotionEnds
<1>4. events \in 0..MaxEvents
  BY DEF Init
<1>3. Awaited /\ Clients
  BY DEF Init, Awaited, Clients, Logins
<1> QED
  BY <1>1, <1>2, <1>3, <1>4, Parts DEF MotionTyped

LEMMA StepInv ==
  ASSUME Inv, [Next]_vars
  PROVE  Inv'
<1> USE PluginAssumption
<1>t. /\ CallsTyped /\ ClientsTyped /\ MotionTyped /\ TokensRight /\ TokensTyped
      /\ Awaited /\ Clients /\ MotionEnds
  BY Parts DEF TokensRight
<1>n. Logins \subseteq 0..MaxLogins /\ 0 \in 0..MaxLogins
  BY DEF Logins
<1>1. ASSUME TryLogin  PROVE Inv'
  <2>1. CallsTyped'
    BY <1>1, <1>t DEF TryLogin, CallsTyped, Logins
  <2>2. ClientsTyped' /\ MotionTyped' /\ TokensRight' /\ MotionEnds'
    BY <1>1, <1>t DEF TryLogin, ClientsTyped, MotionTyped, TokensRight, TokensTyped,
       Counted, Apart, MotionEnds, tokenVars, mqVars, motionVars
  <2>3. latest + 1 \in Logins /\ phase[latest + 1] = "none" /\ latest \in Nat
    BY <1>1, <1>t DEF TryLogin, CallsTyped, Clients, Logins
  <2>4. Awaited'
    BY <1>1, <1>t, <2>3, InRequests DEF TryLogin, Awaited, CallsTyped, TokensTyped,
       tokenVars, mqVars
  <2>5. Clients'
    BY <1>1, <1>t, <2>3 DEF TryLogin, Clients, CallsTyped, Fresh, Logins, mqVars
  <2> QED
    BY <2>1, <2>2, <2>4, <2>5, PartsNext
<1>2. ASSUME UserAsks  PROVE Inv'
  <2> DEFINE r == Request("user", api, api)
  <2>1. r \in Requests /\ r.who = "user" /\ r \notin waiting /\ Ask(r)
    BY <1>2, <1>t, RequestFields DEF UserAsks, CallsTyped, Logins
  <2> HIDE DEF r
  <2>2. TokensRight' /\ waiting' \cup sent' = waiting \cup sent \cup {r}
    BY <2>1, <1>t, AskKeeps
  <2>3. Awaited'
    BY <1>2, <1>t, <2>1, <2>2 DEF UserAsks, Awaited, callVars, mqVars
  <2>4. CallsTyped' /\ ClientsTyped' /\ MotionTyped' /\ MotionEnds' /\ Clients'
    BY <1>2, <1>t DEF UserAsks, CallsTyped, ClientsTyped, MotionTyped, MotionEnds,
       Clients, callVars, mqVars, motionVars
  <2> QED
    BY <2>2, <2>3, <2>4, PartsNext
<1>3. ASSUME NEW l \in Logins, NoToken(l)  PROVE Inv'
  <2>1. CallsTyped' /\ ClientsTyped' /\ MotionTyped' /\ TokensRight' /\ MotionEnds'
    BY <1>3, <1>t DEF NoToken, AwaitsToken, CallsTyped, ClientsTyped, MotionTyped, TokensRight,
       TokensTyped, Counted, Apart, MotionEnds, tokenVars, mqVars, motionVars
  <2>2. Awaited'
    BY <1>3, <1>t, InRequests DEF NoToken, AwaitsToken, Awaited, CallsTyped, TokensTyped, tokenVars,
       mqVars
  <2>3. Clients'
    BY <1>3, <1>t DEF NoToken, AwaitsToken, Clients, CallsTyped, Fresh, mqVars
  <2> QED
    BY <2>1, <2>2, <2>3, PartsNext
<1>4. ASSUME NEW l \in Logins, GotToken(l)  PROVE Inv'
  <2> DEFINE r == Request("devices", l, l)
  <2>1. r \in Requests /\ r.who = "devices" /\ r.of = l /\ r.api = l
    BY RequestFields
  <2>a. Ask(r) /\ phase[l] = "token" /\ phase' = [phase EXCEPT ![l] = "devices"]
    BY <1>4 DEF GotToken, AwaitsToken
  <2> HIDE DEF r
  <2>2. r \notin waiting /\ phase'[l] = "devices"
    BY <1>t, <2>a, <2>1 DEF Awaited, CallsTyped
  <2>3. TokensRight' /\ waiting' \cup sent' = waiting \cup sent \cup {r}
    BY <2>1, <2>2, <2>a, <1>t, AskKeeps
  <2>4. Awaited'
    <3>1. \A m \in Logins : phase[m] = "devices" => phase'[m] = "devices"
      BY <2>a, <1>t DEF CallsTyped
    <3>2. uses' = uses /\ fetching' = fetching
      BY <1>4 DEF GotToken, AwaitsToken, mqVars
    <3> QED
      BY <1>t, <2>1, <2>2, <2>3, <3>1, <3>2, AskAwaited
  <2>5. CallsTyped' /\ ClientsTyped'
    BY <1>4, <1>t, <1>n DEF GotToken, AwaitsToken, CallsTyped, ClientsTyped, mqVars
  <2>7. MotionTyped' /\ MotionEnds'
    BY <1>4, <1>t DEF GotToken, AwaitsToken, MotionTyped, MotionEnds, motionVars
  <2>6. Clients'
    BY <1>4, <1>t DEF GotToken, AwaitsToken, Clients, CallsTyped, Fresh, mqVars
  <2> QED
    BY <2>3, <2>4, <2>5, <2>6, <2>7, PartsNext
<1>5. ASSUME NEW l \in Logins, DevicesAnswered(l)  PROVE Inv'
  <2> DEFINE r == Request("devices", l, l)
  <2>1. r \in Requests /\ r.who = "devices" /\ r.of = l /\ r.api = l
    BY RequestFields
  <2>a. r \in sent /\ sent' = sent \ {r} /\ waiting' = waiting
        /\ phase' = [phase EXCEPT ![l] = "announcing"] /\ uses' = uses
        /\ fetching' = fetching /\ devices' = l
    BY <1>5 DEF DevicesAnswered, mqVars
  <2> HIDE DEF r
  <2>2. phase[l] = "devices" /\ r \notin waiting
    BY <2>1, <2>a, <1>t DEF Awaited, Apart, TokensRight
  <2>3. TokensRight'
    BY <1>5, <1>t, <2>a DEF DevicesAnswered, TokensRight, TokensTyped, Counted, Apart
  <2>4. Awaited'
    <3> SUFFICES ASSUME NEW q \in waiting' \cup sent'
                 PROVE  /\ q.who = "devices" => q.api = q.of /\ phase'[q.of] = "devices"
                        /\ q.who = "mq" => q.api = uses'[q.of] /\ fetching'[q.of] = 1
      BY DEF Awaited
    <3>1. q \in waiting \cup sent /\ q \in Requests /\ q # r
      BY <2>a, <2>2, <1>t DEF TokensTyped
    <3>2. q.who = "devices" => q.of # l
      BY <3>1, <2>1, <1>t, InRequests DEF Awaited
    <3>3. q.of \in Logins
      BY <3>1, InRequests
    <3> QED
      BY <3>1, <3>2, <3>3, <2>a, <1>t DEF Awaited, CallsTyped
  <2>5. CallsTyped' /\ ClientsTyped'
    BY <1>5, <1>t, <1>n DEF DevicesAnswered, CallsTyped, ClientsTyped, mqVars
  <2>7. MotionTyped' /\ MotionEnds'
    BY <1>5, <1>t DEF DevicesAnswered, MotionTyped, MotionEnds, motionVars
  <2>6. Clients'
    BY <1>5, <1>t, <2>2 DEF DevicesAnswered, Clients, CallsTyped, Fresh, mqVars, Logins
  <2> QED
    BY <2>3, <2>4, <2>5, <2>6, <2>7, PartsNext
<1>6. ASSUME NEW l \in Logins, Announced(l)  PROVE Inv'
  <2>1. /\ phase[l] = "announcing" /\ uses[l] = 0 /\ fetching[l] = 0 /\ conns[l] = 0
        /\ devices \in Logins
    BY <1>6, <1>t DEF Announced, Clients, CallsTyped, Fresh, Logins
  <2>2. MotionTyped' /\ MotionEnds'
    <3>1. events' = events /\ (Debounce(devices) \/ UNCHANGED motionVars)
      BY <1>6 DEF Announced
    <3>2. CASE Debounce(devices)
      BY <3>1, <3>2, <2>1, <1>t, DebounceKeeps DEF MotionTyped
    <3>3. CASE UNCHANGED motionVars
      BY <3>1, <3>3, <1>t DEF MotionTyped, MotionEnds, motionVars
    <3> QED
      BY <3>1, <3>2, <3>3
  <2>3. CASE api = 0
    <3>1. CallsTyped' /\ ClientsTyped' /\ TokensRight'
      BY <1>6, <2>3, <1>t DEF Announced, CallsTyped, ClientsTyped, TokensRight, TokensTyped,
         Counted, Apart, tokenVars
    <3>2. Awaited'
      BY <1>6, <2>1, <2>3, <1>t, InRequests DEF Announced, Awaited, CallsTyped,
         TokensTyped, tokenVars
    <3>3. Clients'
      BY <1>6, <2>3, <2>1, <1>t DEF Announced, Clients, CallsTyped, Fresh
    <3> QED
      BY <3>1, <3>2, <3>3, <2>2, PartsNext
  <2>4. CASE api # 0
    <3> DEFINE r == Request("mq", l, api)
    <3>1. api \in Logins
      BY <2>4, <1>t DEF CallsTyped, Logins
    <3>2. r \in Requests /\ r.who = "mq" /\ r.of = l /\ r.api = api
      BY <3>1, RequestFields
    <3>3. /\ Ask(r) /\ phase' = [phase EXCEPT ![l] = "mqtt"]
          /\ uses' = [uses EXCEPT ![l] = api] /\ fetching' = [fetching EXCEPT ![l] = 1]
          /\ UNCHANGED <<latest, stored, api, devices, expired, conns, up, retry, over>>
      BY <1>6, <2>4 DEF Announced
    <3> HIDE DEF r
    <3>4. r \notin waiting
      BY <2>1, <3>2, <1>t DEF Awaited
    <3>5. TokensRight' /\ waiting' \cup sent' = waiting \cup sent \cup {r}
      BY <3>2, <3>3, <3>4, <1>t, AskKeeps
    <3>6. CallsTyped' /\ ClientsTyped'
      BY <3>3, <1>t DEF CallsTyped, ClientsTyped
    <3>7. Awaited'
      <4>1. r.api = uses'[r.of] /\ fetching'[r.of] = 1
        BY <3>2, <3>3, <1>t DEF ClientsTyped
      <4>2. \A m \in Logins :
              /\ phase[m] = "devices" => phase'[m] = "devices"
              /\ fetching[m] = 1 => uses'[m] = uses[m] /\ fetching'[m] = 1
        BY <2>1, <3>3, <1>t DEF CallsTyped, ClientsTyped
      <4> QED
        BY <1>t, <3>2, <3>5, <4>1, <4>2, AskAwaited
    <3>8. Clients'
      <4> SUFFICES ASSUME NEW m \in Logins
                   PROVE  /\ fetching'[m] + conns[m] <= 1
                          /\ uses'[m] = 0 => fetching'[m] = 0 /\ conns[m] = 0
                          /\ phase'[m] \in Fresh => uses'[m] = 0
                          /\ m > latest => phase'[m] = "none"
                          /\ m \in retry \cup up => conns[m] = 1
                          /\ phase'[m] = "announcing" \/ uses'[m] # 0 => devices # 0
        BY <3>3 DEF Clients
      <4>1. CASE m = l
        <5>1. ~(m > latest) /\ devices # 0
          BY <2>1, <4>1, <1>t DEF Clients
        <5>2. uses'[m] = api /\ fetching'[m] = 1 /\ conns[m] = 0 /\ phase'[m] = "mqtt"
          BY <2>1, <4>1, <3>3, <1>t DEF CallsTyped, ClientsTyped
        <5> QED
          BY <5>1, <5>2, <2>4, <4>1, <1>t DEF Clients, Fresh
      <4>2. CASE m # l
        <5>1. uses'[m] = uses[m] /\ fetching'[m] = fetching[m] /\ phase'[m] = phase[m]
          BY <4>2, <3>3, <1>t DEF CallsTyped, ClientsTyped
        <5> QED
          BY <5>1, <1>t DEF Clients
      <4> QED
        BY <4>1, <4>2
    <3> QED
      BY <3>5, <3>6, <3>7, <3>8, <2>2, PartsNext
  <2> QED
    BY <2>3, <2>4
<1>7. ASSUME NEW l \in Logins, Expire(l)  PROVE Inv'
  <2>1. CallsTyped' /\ ClientsTyped' /\ TokensRight' /\ Awaited' /\ Clients'
    BY <1>7, <1>t DEF Expire, CallsTyped, ClientsTyped, TokensRight, TokensTyped, Counted,
       Apart, Awaited, Clients, callVars, tokenVars, mqVars
  <2>2. MotionTyped' /\ MotionEnds'
    BY <1>7, <1>t DEF Expire, Happens, MotionTyped, MotionEnds, motionVars
  <2> QED
    BY <2>1, <2>2, PartsNext
<1>8. ASSUME NEW a \in Logins, Refreshed(a)  PROVE Inv'
  <2>1. RefreshOver(a) /\ sent' = sent \cup Waiters(a)
    BY <1>8 DEF Refreshed
  <2>2. TokensRight' /\ waiting' \cup sent' \subseteq waiting \cup sent
    BY <2>1, <1>t, RefreshOverKeeps
  <2>3. CallsTyped' /\ ClientsTyped' /\ Clients'
    BY <1>8, <1>t, <1>n DEF Refreshed, CallsTyped, ClientsTyped, Clients, mqVars
  <2>4. Awaited'
    BY <1>8, <2>2, <1>t DEF Refreshed, Awaited, mqVars
  <2>5. MotionTyped' /\ MotionEnds'
    BY <1>8, <1>t DEF Refreshed, MotionTyped, MotionEnds, motionVars
  <2> QED
    BY <2>2, <2>3, <2>4, <2>5, PartsNext
<1>9. ASSUME NEW a \in Logins, RefreshFails(a)  PROVE Inv'
  <2>0. PICK go \in SUBSET Spared(a) : Failed(Waiters(a) \ go) /\ sent' = sent \cup go
    BY <1>9 DEF RefreshFails
  <2>1. /\ RefreshOver(a) /\ stored' \in {0, stored} /\ go \subseteq Waiters(a)
        /\ UNCHANGED <<latest, api, devices, expired, uses, conns, up, retry>>
    BY <1>9 DEF RefreshFails, Spared
  <2>2. /\ TokensRight' /\ waiting' \cup sent' \subseteq waiting \cup sent
        /\ (waiting' \cup sent') \cap (Waiters(a) \ go) = {}
    BY <2>0, <2>1, <1>t, RefreshOverKeeps
  <2>3. /\ Waiters(a) \ go \subseteq waiting \cup sent
        /\ Waiters(a) \ go \subseteq Requests
    BY <1>t DEF Waiters, TokensTyped
  <2>4. CallsTyped' /\ ClientsTyped' /\ Awaited' /\ Clients'
    <3> DEFINE rs == Waiters(a) \ go
    <3>1. /\ rs \subseteq waiting \cup sent /\ rs \subseteq Requests /\ Failed(rs)
          /\ (waiting' \cup sent') \cap rs = {}
      BY <2>0, <2>2, <2>3
    <3> HIDE DEF rs
    <3> QED
      BY <2>1, <2>2, <3>1, <1>t, FailedKeeps
  <2>5. MotionTyped' /\ MotionEnds'
    BY <1>9, <1>t DEF RefreshFails, Happens, MotionTyped, MotionEnds, motionVars
  <2> QED
    BY <2>2, <2>4, <2>5, PartsNext
<1>10. ASSUME NEW r \in sent, RequestFails(r)  PROVE Inv'
  <2>1. /\ sent' = sent \ {r} /\ Failed({r}) /\ waiting' = waiting /\ stored' = stored
        /\ UNCHANGED <<updating, refreshes>>
        /\ UNCHANGED <<latest, api, devices, expired, uses, conns, up, retry>>
    BY <1>10 DEF RequestFails
  <2>2. TokensRight'
    BY <2>1, <1>t DEF TokensRight, TokensTyped, Counted, Apart
  <2>3. /\ waiting' \cup sent' \subseteq waiting \cup sent
        /\ (waiting' \cup sent') \cap {r} = {} /\ {r} \subseteq waiting \cup sent
        /\ {r} \subseteq Requests
    BY <2>1, <1>t DEF TokensRight, TokensTyped, Apart
  <2>4. CallsTyped' /\ ClientsTyped' /\ Awaited' /\ Clients'
    BY <2>1, <2>3, <1>t, FailedKeeps
  <2>5. MotionTyped' /\ MotionEnds'
    BY <1>10, <1>t DEF RequestFails, Happens, MotionTyped, MotionEnds, motionVars
  <2> QED
    BY <2>2, <2>4, <2>5, PartsNext
<1>11. ASSUME NEW r \in sent, UserAnswered(r)  PROVE Inv'
  <2>1. CallsTyped' /\ ClientsTyped' /\ TokensRight' /\ Awaited' /\ Clients'
    BY <1>11, <1>t DEF UserAnswered, CallsTyped, ClientsTyped, TokensRight, TokensTyped,
       Counted, Apart, Awaited, Clients, callVars, mqVars
  <2>2. MotionTyped' /\ MotionEnds'
    BY <1>11, <1>t DEF UserAnswered, MotionTyped, MotionEnds, motionVars
  <2> QED
    BY <2>1, <2>2, PartsNext
<1>12. ASSUME NEW r \in sent, AsksAgain(r)  PROVE Inv'
  <2>1. r \in Requests /\ r \notin waiting /\ Ask(r)
    BY <1>12, <1>t DEF AsksAgain, TokensRight, TokensTyped, Apart
  <2>2. TokensRight' /\ waiting' \cup sent' = waiting \cup sent
    BY <2>1, <1>t, AskKeeps
  <2>3. CallsTyped' /\ ClientsTyped' /\ Awaited' /\ Clients'
    BY <1>12, <2>2, <1>t DEF AsksAgain, CallsTyped, ClientsTyped, Awaited, Clients,
       callVars, mqVars
  <2>4. MotionTyped' /\ MotionEnds'
    BY <1>12, <1>t DEF AsksAgain, MotionTyped, MotionEnds, motionVars
  <2> QED
    BY <2>2, <2>3, <2>4, PartsNext
<1>13. ASSUME NEW r \in sent, ConfigFetched(r)  PROVE Inv'
  <2>1. /\ r \in Requests /\ r.of \in Logins /\ r.who = "mq" /\ r \notin waiting
        /\ fetching[r.of] = 1 /\ conns[r.of] = 0
    <3>1. r \in Requests /\ r.who = "mq" /\ r \notin waiting /\ fetching[r.of] = 1
      BY <1>13, <1>t DEF ConfigFetched, TokensRight, TokensTyped, Apart, Awaited
    <3>2. r.of \in Logins
      BY <3>1, InRequests
    <3>3. conns[r.of] = 0
      BY <3>1, <3>2, <1>t DEF Clients, ClientsTyped
    <3> QED
      BY <3>1, <3>2, <3>3
  <2>2. /\ sent' = sent \ {r} /\ waiting' = waiting /\ updating' = updating
        /\ refreshes' = refreshes /\ uses' = uses /\ phase' = phase
        /\ fetching' = [fetching EXCEPT ![r.of] = @ - 1]
        /\ conns' = [conns EXCEPT ![r.of] = @ + 1] /\ retry' = retry \cup {r.of}
        /\ up' = up /\ over' = over /\ devices' = devices /\ latest' = latest
    BY <1>13 DEF ConfigFetched, callVars
  <2>3. TokensRight'
    BY <2>2, <1>t DEF TokensRight, TokensTyped, Counted, Apart
  <2>4. CallsTyped'
    BY <1>13, <1>t DEF ConfigFetched, CallsTyped, callVars
  <2>5. ClientsTyped'
    BY <2>1, <2>2, <1>t DEF ClientsTyped
  <2>6. Awaited'
    <3> SUFFICES ASSUME NEW q \in waiting' \cup sent'
                 PROVE  /\ q.who = "devices" => q.api = q.of /\ phase[q.of] = "devices"
                        /\ q.who = "mq" => q.api = uses[q.of] /\ fetching'[q.of] = 1
      BY <2>2 DEF Awaited
    <3>1. q \in waiting \cup sent /\ q \in Requests /\ q # r
      BY <2>1, <2>2, <1>t DEF TokensTyped
    <3>2. q.who = "mq" => q.of # r.of
      <4> SUFFICES ASSUME q.who = "mq", q.of = r.of  PROVE FALSE
        OBVIOUS
      <4>1. q.api = r.api
        BY <3>1, <2>1, <1>t DEF Awaited
      <4> QED
        BY <4>1, <3>1, <2>1, InRequests
    <3>3. q.of \in Logins
      BY <3>1, InRequests
    <3> QED
      BY <3>1, <3>2, <3>3, <2>2, <1>t DEF Awaited, ClientsTyped
  <2>7. Clients'
    <3> SUFFICES ASSUME NEW m \in Logins
                 PROVE  /\ fetching'[m] + conns'[m] <= 1
                        /\ uses[m] = 0 => fetching'[m] = 0 /\ conns'[m] = 0
                        /\ phase[m] \in Fresh => uses[m] = 0
                        /\ m > latest => phase[m] = "none"
                        /\ m \in retry' \cup up => conns'[m] = 1
                        /\ phase[m] = "announcing" \/ uses[m] # 0 => devices # 0
      BY <2>2 DEF Clients
    <3>1. CASE m = r.of
      <4>1. fetching'[m] = 0 /\ conns'[m] = 1
        BY <2>1, <2>2, <3>1, <1>t DEF ClientsTyped
      <4>2. uses[m] # 0
        BY <2>1, <3>1, <1>t DEF Clients
      <4> QED
        BY <4>1, <4>2, <1>t DEF Clients
    <3>2. CASE m # r.of
      BY <2>2, <3>2, <1>t DEF Clients, ClientsTyped
    <3> QED
      BY <3>1, <3>2
  <2>8. MotionTyped' /\ MotionEnds'
    BY <1>13, <1>t DEF ConfigFetched, MotionTyped, MotionEnds, motionVars
  <2> QED
    BY <2>3, <2>4, <2>5, <2>6, <2>7, <2>8, PartsNext
<1>14. ASSUME NEW l \in Logins, Accepted(l)  PROVE Inv'
  <2>1. conns[l] = 1 /\ uses[l] # 0 /\ phase[l] \notin Fresh /\ ~(l > latest)
    BY <1>14, <1>t DEF Accepted, Clients, ClientsTyped, Fresh
  <2>2. CallsTyped' /\ ClientsTyped' /\ TokensRight'
    BY <1>14, <1>t DEF Accepted, CallsTyped, ClientsTyped, TokensRight, TokensTyped, Counted,
       Apart, tokenVars
  <2>3. Awaited'
    BY <1>14, <2>1, <1>t, InRequests DEF Accepted, Awaited, CallsTyped, TokensTyped, Fresh,
       tokenVars
  <2>4. Clients'
    BY <1>14, <2>1, <1>t DEF Accepted, Clients, CallsTyped, Fresh
  <2>5. MotionTyped' /\ MotionEnds'
    BY <1>14, <1>t DEF Accepted, MotionTyped, MotionEnds, motionVars
  <2> QED
    BY <2>2, <2>3, <2>4, <2>5, PartsNext
<1>15. ASSUME NEW l \in Logins, Broken(l)  PROVE Inv'
  <2>1. /\ conns[l] > 0 /\ Connect(l) /\ phase' = [phase EXCEPT ![l] = "over"]
        /\ UNCHANGED <<latest, stored, api, devices, expired, uses, over>>
    BY <1>15 DEF Broken
  <2>2. CallsTyped'
    BY <2>1, <1>t DEF CallsTyped
  <2>3. ClientsTyped' /\ TokensRight' /\ Awaited' /\ Clients'
    BY <2>1, <2>2, <1>t, ConnectKeeps
  <2>4. MotionTyped' /\ MotionEnds'
    BY <1>15, <1>t DEF Broken, Happens, MotionTyped, MotionEnds, motionVars
  <2> QED
    BY <2>2, <2>3, <2>4, PartsNext
<1>16. ASSUME NEW l \in Logins, RetryTimeout(l)  PROVE Inv'
  <2>1. /\ conns[l] = 1 /\ Connect(l) /\ phase' = phase
        /\ UNCHANGED <<latest, stored, api, devices, expired, uses, over>>
    BY <1>16, <1>t DEF RetryTimeout, Clients, callVars
  <2>2. CallsTyped'
    BY <2>1, <1>t DEF CallsTyped
  <2>3. ClientsTyped' /\ TokensRight' /\ Awaited' /\ Clients'
    BY <2>1, <2>2, <1>t, ConnectKeeps
  <2>4. MotionTyped' /\ MotionEnds'
    BY <1>16, <1>t DEF RetryTimeout, Happens, MotionTyped, MotionEnds, motionVars
  <2> QED
    BY <2>2, <2>3, <2>4, PartsNext
<1>17. ASSUME NEW l \in Logins, ConnectionCloses(l)  PROVE Inv'
  <2>1. CallsTyped' /\ ClientsTyped' /\ TokensRight' /\ Awaited'
    BY <1>17, <1>t DEF ConnectionCloses, Stopped, CallsTyped, ClientsTyped, TokensRight,
       TokensTyped, Counted, Apart, Awaited, callVars, tokenVars
  <2>2. Clients'
    BY <1>17, <1>t DEF ConnectionCloses, Stopped, Clients, ClientsTyped, callVars
  <2>3. MotionTyped' /\ MotionEnds'
    BY <1>17, <1>t DEF ConnectionCloses, Happens, MotionTyped, MotionEnds, motionVars
  <2> QED
    BY <2>1, <2>2, <2>3, PartsNext
<1>18. ASSUME NEW l \in Logins, MotionReported(l)  PROVE Inv'
  <2>1. devices \in Logins
    BY <1>18, <1>t DEF MotionReported, OnMessage, Clients, CallsTyped, Logins
  <2>2. Debounce(devices) /\ events' \in 0..MaxEvents
    BY <1>18, <1>t DEF MotionReported, OnMessage, Happens, MotionTyped
  <2>3. MotionTyped' /\ MotionEnds'
    BY <2>1, <2>2, <1>t, DebounceKeeps
  <2>4. CallsTyped' /\ ClientsTyped' /\ TokensRight' /\ Awaited' /\ Clients'
    BY <1>18, <1>t DEF MotionReported, OnMessage, CallsTyped, ClientsTyped, TokensRight,
        TokensTyped,
       Counted, Apart, Awaited, Clients, callVars, tokenVars, mqVars
  <2> QED
    BY <2>3, <2>4, PartsNext
<1>19. ASSUME NEW d \in Logins, MotionTimer(d)  PROVE Inv'
  <2>1. MotionTyped' /\ MotionEnds'
    BY <1>19, <1>t DEF MotionTimer, MotionTyped, MotionEnds
  <2>2. CallsTyped' /\ ClientsTyped' /\ TokensRight' /\ Awaited' /\ Clients'
    BY <1>19, <1>t DEF MotionTimer, CallsTyped, ClientsTyped, TokensRight, TokensTyped,
       Counted, Apart, Awaited, Clients, callVars, tokenVars, mqVars
  <2> QED
    BY <2>1, <2>2, PartsNext
<1>20. ASSUME UNCHANGED vars  PROVE Inv'
  <2>1. CallsTyped' /\ ClientsTyped' /\ TokensRight' /\ Awaited' /\ Clients'
    BY <1>20, <1>t DEF vars, CallsTyped, ClientsTyped, TokensRight, TokensTyped,
       Counted, Apart, Awaited, Clients, callVars, tokenVars, mqVars
  <2>2. MotionTyped' /\ MotionEnds'
    BY <1>20, <1>t DEF vars, MotionTyped, MotionEnds, motionVars
  <2> QED
    BY <2>1, <2>2, PartsNext
<1>21. ASSUME NEW l \in Logins, AnnounceFails(l)  PROVE Inv'
  <2>1. CallsTyped' /\ ClientsTyped' /\ TokensRight'
    BY <1>21, <1>t DEF AnnounceFails, CallsTyped, ClientsTyped, TokensRight, TokensTyped,
       Counted, Apart, tokenVars, mqVars
  <2>2. Awaited'
    BY <1>21, <1>t, InRequests DEF AnnounceFails, Awaited, CallsTyped, TokensTyped, tokenVars,
       mqVars
  <2>3. Clients'
    BY <1>21, <1>t DEF AnnounceFails, Clients, CallsTyped, Fresh, mqVars
  <2>4. MotionTyped' /\ MotionEnds'
    BY <1>21, <1>t DEF AnnounceFails, Happens, MotionTyped, MotionEnds, motionVars
  <2> QED
    BY <2>1, <2>2, <2>3, <2>4, PartsNext
<1> QED
  BY <1>1, <1>2, <1>3, <1>4, <1>5, <1>6, <1>7, <1>8, <1>9, <1>10, <1>11, <1>12, <1>13,
     <1>14, <1>15, <1>16, <1>17, <1>18, <1>19, <1>20, <1>21 DEF Next

(* What the four theorems below rest on: requests, refreshes, clients and  *)
(* their calls match one another in every state of tryLogin, sharing.ts    *)
(* and mq.ts.                                                              *)
THEOREM Inductive == Spec => []Inv
<1>1. Init => Inv
  BY InitInv
<1>2. Inv /\ [Next]_vars => Inv'
  BY StepInv
<1> QED
  BY <1>1, <1>2, PTL DEF Spec

(* Every variable of the account keeps its type, the counters of refreshes *)
(* and connections included.                                               *)
THEOREM AccountTypeCorrect == Spec => []TypeOK
<1>1. Inv => TypeOK
  BY DEF Inv
<1> QED
  BY <1>1, Inductive, PTL

(* A token that has expired is refreshed once, however many requests find  *)
(* it so while the first is still on its way (sharing.ts:251).             *)
THEOREM RefreshesOnce == Spec => []OneRefresh
<1>1. Inv => OneRefresh
  BY DEF Inv, Counted, OneRefresh
<1> QED
  BY <1>1, Inductive, PTL

(* An MQTT client never has two connections, whatever errors, time-outs    *)
(* and slow configs interleave, and however many logins there were         *)
(* (mq.ts:72).                                                             *)
THEOREM ConnectsOnce == Spec => []OneConnection
<1>1. Inv => OneConnection
  BY DEF Inv, Clients, OneConnection
<1> QED
  BY <1>1, Inductive, PTL

(* While motion is on, a timer that will end it is set (accessory.ts:83).  *)
THEOREM MotionIsTimed == Spec => []MotionEnds
<1>1. Inv => MotionEnds
  BY DEF Inv
<1> QED
  BY <1>1, Inductive, PTL

=============================================================================
