------------------------------- MODULE Plugin -------------------------------
(***************************************************************************)
(* The Scrypted plugin's account: logging in (src/plugin.ts), the client   *)
(* of the sharing API and its token (src/tuya/sharing.ts), the MQTT client *)
(* that brings the devices' changes (src/tuya/mq.ts), and the motion a     *)
(* camera reports through it (src/accessories).                            *)
(*                                                                         *)
(* Every setting that is changed calls tryLogin, whether an earlier call   *)
(* is over or not.  A call that gets a token makes an API and an MQTT      *)
(* client; those of an earlier call are forgotten and never stopped.  A    *)
(* call, its API, its client and its devices are named by one number.      *)
(***************************************************************************)
EXTENDS Naturals, FiniteSets

CONSTANTS
  MaxLogins,    (* bound: calls of tryLogin                                *)
  MaxEvents     (* bound: failures, expiries, reports and timeouts         *)

ASSUME PluginAssumption == MaxLogins \in Nat \ {0} /\ MaxEvents \in Nat

Logins == 1..MaxLogins

VARIABLES
  latest,       (* calls of tryLogin so far                                *)
  phase,        (* how far each call is                                    *)
  stored,       (* whose token the setting tokenInfo holds, 0 for none     *)
  api,          (* whose API this.api is, 0 when undefined                 *)
  devices,      (* whose accessories this.devices holds                    *)
  expired,      (* APIs whose token has expired                            *)
  updating,     (* APIs whose updatingTokenPromise is set                  *)
  refreshes,    (* requests for a new token on their way, by API           *)
  waiting,      (* requests that wait for that promise                     *)
  sent,         (* requests on their way                                   *)
  uses,         (* the API that fetches each MQTT client's config          *)
  fetching,     (* _connect's that wait for their config, by client        *)
  conns,        (* connections that were not ended, by client              *)
  up,           (* clients whose connection was accepted                   *)
  retry,        (* clients whose retryTimeout is set                       *)
  over,         (* history: clients that were closed, or got no config     *)
  debounced,    (* accessories whose debounce timer of motion is set       *)
  motion,       (* motionDetected, which the accessories of a camera share *)
  events        (* failures, expiries, reports and timeouts so far         *)

callVars == <<latest, phase, stored, api, devices>>
tokenVars == <<updating, refreshes, waiting, sent>>
mqVars == <<uses, fetching, conns, up, retry, over>>
motionVars == <<debounced, motion>>
vars == <<callVars, expired, tokenVars, mqVars, motionVars, events>>

(* A request that goes through _request: for whom, and of which API.       *)
Request(who, l, a) == [who |-> who, of |-> l, api |-> a]
Requests == [who : {"devices", "mq", "user"}, of : Logins, api : Logins]

TypeOK ==
  /\ latest \in 0..MaxLogins
  /\ phase \in [Logins -> {"none", "token", "devices", "announcing", "mqtt", "over"}]
  /\ stored \in 0..MaxLogins /\ api \in 0..MaxLogins /\ devices \in 0..MaxLogins
  /\ expired \subseteq Logins /\ updating \subseteq Logins
  /\ refreshes \in [Logins -> Nat]
  /\ waiting \subseteq Requests /\ sent \subseteq Requests
  /\ uses \in [Logins -> 0..MaxLogins]
  /\ fetching \in [Logins -> Nat] /\ conns \in [Logins -> Nat]
  /\ up \subseteq Logins /\ retry \subseteq Logins /\ over \subseteq Logins
  /\ debounced \subseteq Logins /\ motion \in BOOLEAN
  /\ events \in 0..MaxEvents

Init ==
  /\ latest = 0 /\ phase = [l \in Logins |-> "none"]
  /\ stored = 0 /\ api = 0 /\ devices = 0
  /\ expired = {} /\ updating = {} /\ refreshes = [l \in Logins |-> 0]
  /\ waiting = {} /\ sent = {}
  /\ uses = [l \in Logins |-> 0]
  /\ fetching = [l \in Logins |-> 0] /\ conns = [l \in Logins |-> 0]
  /\ up = {} /\ retry = {} /\ over = {}
  /\ debounced = {} /\ motion = FALSE
  /\ events = 0

Happens == events < MaxEvents /\ events' = events + 1

(***************************************************************************)
(* Requests of an API.  refreshTokenIfNeeded lets those that come while    *)
(* the token is looked at share one promise; with a token that has not     *)
(* expired it resolves before anything else can happen.                    *)
(***************************************************************************)
BeginRefresh(a) ==
  /\ updating' = updating \cup {a}
  /\ refreshes' = [refreshes EXCEPT ![a] = @ + 1]

(* Faulty variant: every request looks at the token for itself.            *)
AskUnshared(r) ==
  \/ /\ r.api \in expired
     /\ waiting' = waiting \cup {r} /\ BeginRefresh(r.api)
     /\ sent' = sent \ {r}
  \/ /\ r.api \notin expired
     /\ sent' = sent \cup {r}
     /\ UNCHANGED <<waiting, updating, refreshes>>

Ask(r) ==
  \/ /\ r.api \in updating \cup expired
     /\ waiting' = waiting \cup {r} /\ sent' = sent \ {r}
     /\ IF r.api \in updating THEN UNCHANGED <<updating, refreshes>>
                              ELSE BeginRefresh(r.api)
  \/ /\ r.api \notin updating \cup expired
     /\ sent' = sent \cup {r}
     /\ UNCHANGED <<waiting, updating, refreshes>>

Expire(a) ==
  /\ a \notin expired /\ Happens
  /\ expired' = expired \cup {a}
  /\ UNCHANGED <<callVars, tokenVars, mqVars, motionVars>>

Waiters(a) == {r \in waiting : r.api = a}

RefreshOver(a) ==
  /\ refreshes[a] > 0
  /\ refreshes' = [refreshes EXCEPT ![a] = @ - 1]
  /\ updating' = updating \ {a}
  /\ waiting' = waiting \ Waiters(a)

(* The new token is stored, whoever is logged in by now.                   *)
Refreshed(a) ==
  /\ RefreshOver(a)
  /\ expired' = expired \ {a} /\ stored' = a
  /\ sent' = sent \cup Waiters(a)
  /\ UNCHANGED <<latest, phase, api, devices, mqVars, motionVars, events>>

(* Requests that fail: a call of tryLogin that fetches its devices ends;   *)
(* an MQTT client that fetches its config never tries again, and a call    *)
(* that waits for it to connect waits for ever.                            *)
Failed(rs) ==
  /\ phase' = [l \in Logins |->
                 IF \E r \in rs : r.who = "devices" /\ r.of = l THEN "over"
                 ELSE phase[l]]
  /\ fetching' = [l \in Logins |->
                    IF \E r \in rs : r.who = "mq" /\ r.of = l THEN fetching[l] - 1
                    ELSE fetching[l]]
  /\ over' = over \cup {r.of : r \in {q \in rs : q.who = "mq"}}

(* The requests for the devices' specifications: the login goes on without *)
(* those that fail (updateDeviceSpecs).                                    *)
Spared(a) == {r \in Waiters(a) : r.who = "devices"}

(* The account is refused, and the stored token goes; or no answer comes.  *)
(* A login that had its devices, and waits for their specifications, goes  *)
(* on with what else it asked for.                                         *)
RefreshFails(a) ==
  /\ RefreshOver(a) /\ Happens
  /\ stored' \in {0, stored}
  /\ \E go \in SUBSET Spared(a) : Failed(Waiters(a) \ go) /\ sent' = sent \cup go
  /\ UNCHANGED <<latest, api, devices, expired, uses, conns, up, retry, motionVars>>

(* A specification that cannot be had is none of these: the others, or     *)
(* DevicesAnswered, follow.                                                *)
RequestFails(r) ==
  /\ r \in sent /\ sent' = sent \ {r} /\ Happens
  /\ Failed({r})
  /\ UNCHANGED <<latest, stored, api, devices, expired, updating, refreshes,
                 waiting, uses, conns, up, retry, motionVars>>

(* A command or a stream is asked of a device.                             *)
UserAsks ==
  /\ api # 0 /\ Request("user", api, api) \notin waiting \cup sent
  /\ Ask(Request("user", api, api))
  /\ UNCHANGED <<callVars, expired, mqVars, motionVars, events>>

UserAnswered(r) ==
  /\ r \in sent /\ r.who = "user" /\ sent' = sent \ {r}
  /\ UNCHANGED <<callVars, expired, updating, refreshes, waiting, mqVars,
                 motionVars, events>>

(* Devices and configs take several requests.                              *)
AsksAgain(r) ==
  /\ r \in sent /\ r.who # "user" /\ r.api \in updating \cup expired
  /\ Ask(r)
  /\ UNCHANGED <<callVars, expired, mqVars, motionVars, events>>

(***************************************************************************)
(* tryLogin and initializeDevices.                                         *)
(***************************************************************************)

(* A setting changes; the first call is the constructor's.                 *)
TryLogin ==
  /\ latest < MaxLogins
  /\ latest' = latest + 1
  /\ phase' = [phase EXCEPT ![latest + 1] = "token"]
  /\ api' = 0
  /\ UNCHANGED <<stored, devices, expired, tokenVars, mqVars, motionVars, events>>

(* A QR code is asked for, or the token of the one that was scanned.       *)
AwaitsToken(l) == phase[l] = "token"

(* No token was had: a QR code was shown, or the login failed.             *)
NoToken(l) ==
  /\ AwaitsToken(l) /\ phase' = [phase EXCEPT ![l] = "over"]
  /\ stored' = 0
  /\ UNCHANGED <<latest, api, devices, expired, tokenVars, mqVars, motionVars,
                 events>>

GotToken(l) ==
  /\ AwaitsToken(l) /\ phase' = [phase EXCEPT ![l] = "devices"]
  /\ stored' = l /\ api' = l
  /\ Ask(Request("devices", l, l))
  /\ UNCHANGED <<latest, devices, expired, mqVars, motionVars, events>>

DevicesAnswered(l) ==
  /\ Request("devices", l, l) \in sent
  /\ sent' = sent \ {Request("devices", l, l)}
  /\ phase' = [phase EXCEPT ![l] = "announcing"] /\ devices' = l
  /\ UNCHANGED <<latest, stored, api, expired, updating, refreshes, waiting,
                 mqVars, motionVars, events>>

(* Faulty variant: only the first report sets the timer.                   *)
DebounceOnce(d) ==
  /\ debounced' = IF d \in debounced THEN debounced \ {d} ELSE debounced \cup {d}
  /\ motion' = (motion \/ d \notin debounced)

(* debounce: the first report begins the motion, each one sets its end.    *)
Debounce(d) ==
  /\ debounced' = debounced \cup {d}
  /\ motion' = (motion \/ d \notin debounced)

(* onDevicesChanged is over: the accessories take the values they came     *)
(* with, an old picture of a motion among them, and an MQTT client is made *)
(* for the API that is the plugin's by now.                                *)
Announced(l) ==
  /\ phase[l] = "announcing"
  /\ Debounce(devices) \/ UNCHANGED motionVars
  /\ IF api = 0
       THEN /\ phase' = [phase EXCEPT ![l] = "over"]
            /\ UNCHANGED <<tokenVars, uses, fetching>>
       ELSE /\ phase' = [phase EXCEPT ![l] = "mqtt"]
            /\ uses' = [uses EXCEPT ![l] = api]
            /\ fetching' = [fetching EXCEPT ![l] = 1]
            /\ Ask(Request("mq", l, api))
  /\ UNCHANGED <<latest, stored, api, devices, expired, conns, up, retry, over,
                 events>>

(* onDevicesChanged rejects: the accessories are there, and no MQTT client *)
(* is made.                                                                *)
AnnounceFails(l) ==
  /\ phase[l] = "announcing" /\ Happens
  /\ phase' = [phase EXCEPT ![l] = "over"]
  /\ UNCHANGED <<latest, stored, api, devices, expired, tokenVars, mqVars, motionVars>>

(***************************************************************************)
(* The MQTT client.                                                        *)
(***************************************************************************)
Stopped(l) ==
  /\ conns' = [conns EXCEPT ![l] = 0]
  /\ up' = up \ {l} /\ retry' = retry \ {l}

(* Faulty variant: the old connection is left to itself.                   *)
ConnectBeside(l) ==
  /\ fetching' = [fetching EXCEPT ![l] = @ + 1]
  /\ Ask(Request("mq", l, uses[l]))
  /\ UNCHANGED <<conns, up, retry>>

Connect(l) ==
  /\ Stopped(l)
  /\ fetching' = [fetching EXCEPT ![l] = @ + 1]
  /\ Ask(Request("mq", l, uses[l]))

ConfigFetched(r) ==
  /\ r \in sent /\ r.who = "mq" /\ sent' = sent \ {r}
  /\ fetching' = [fetching EXCEPT ![r.of] = @ - 1]
  /\ conns' = [conns EXCEPT ![r.of] = @ + 1] /\ retry' = retry \cup {r.of}
  /\ UNCHANGED <<callVars, expired, updating, refreshes, waiting, uses, up, over,
                 motionVars, events>>

(* "connect": the call of tryLogin that waits for it is over.              *)
Accepted(l) ==
  /\ conns[l] > 0 /\ l \notin up /\ up' = up \cup {l}
  /\ phase' = [phase EXCEPT ![l] = "over"]
  /\ UNCHANGED <<latest, stored, api, devices, expired, tokenVars, uses, fetching,
                 conns, retry, over, motionVars, events>>

(* Faulty variant: an error is told, and nothing else done.                *)
BrokenOff(l) ==
  /\ conns[l] > 0 /\ Happens
  /\ phase' = [phase EXCEPT ![l] = "over"]
  /\ Stopped(l)
  /\ UNCHANGED <<latest, stored, api, devices, expired, tokenVars, uses, fetching,
                 over, motionVars>>

(* "error": the call that waits is over too, and the client connects anew. *)
Broken(l) ==
  /\ conns[l] > 0 /\ Happens
  /\ phase' = [phase EXCEPT ![l] = "over"]
  /\ Connect(l)
  /\ UNCHANGED <<latest, stored, api, devices, expired, uses, over, motionVars>>

(* "close" without an error: the client stops for good.                    *)
ConnectionCloses(l) ==
  /\ conns[l] > 0 /\ Happens
  /\ Stopped(l) /\ over' = over \cup {l}
  /\ UNCHANGED <<callVars, expired, tokenVars, uses, fetching, motionVars>>

(* A minute before the config expires.                                     *)
RetryTimeout(l) ==
  /\ l \in retry /\ Happens
  /\ Connect(l)
  /\ UNCHANGED <<callVars, expired, uses, over, motionVars>>

(* A message of any client that is up reaches the devices of the map.      *)
OnMessage == Debounce(devices)

MotionReported(l) ==
  /\ l \in up /\ Happens
  /\ OnMessage
  /\ UNCHANGED <<callVars, expired, tokenVars, mqVars>>

MotionTimer(d) ==
  /\ d \in debounced /\ debounced' = debounced \ {d}
  /\ motion' = FALSE
  /\ UNCHANGED <<callVars, expired, tokenVars, mqVars, events>>

(***************************************************************************)
(* The specification.                                                      *)
(***************************************************************************)
Next ==
  \/ TryLogin \/ UserAsks
  \/ \E l \in Logins :
       \/ NoToken(l) \/ GotToken(l) \/ DevicesAnswered(l) \/ Announced(l)
       \/ AnnounceFails(l)
       \/ Expire(l) \/ Refreshed(l) \/ RefreshFails(l)
       \/ Accepted(l) \/ Broken(l) \/ ConnectionCloses(l) \/ RetryTimeout(l)
       \/ MotionReported(l) \/ MotionTimer(l)
  \/ \E r \in sent :
       AsksAgain(r) \/ UserAnswered(r) \/ ConfigFetched(r) \/ RequestFails(r)

Spec == Init /\ [][Next]_vars

(* The calls of the cloud and the broker that the client waits for end,    *)
(* and timers go off.                                                      *)
FairSpec ==
  /\ Spec
  /\ \A l \in Logins :
       /\ WF_vars(Announced(l)) /\ WF_vars(MotionTimer(l))
       /\ WF_vars(Refreshed(l) \/ RefreshFails(l)) /\ WF_vars(Accepted(l))
       /\ \A a \in Logins : WF_vars(ConfigFetched(Request("mq", l, a)))

(***************************************************************************)
(* What must hold.                                                         *)
(***************************************************************************)

(* However many requests find the token expired at once, one refresh of it *)
(* is on its way: a second would be answered by an account that has        *)
(* already replaced the refresh token (sharing.ts:251).                    *)
OneRefresh == \A a \in Logins : refreshes[a] <= 1

(* An MQTT client is connected once or about to be: an error, a time-out   *)
(* of the config and the end of a fetch never leave two connections of one *)
(* client, of which it knows, and could ever end, only the last, and which *)
(* would both report every change (mq.ts:52, mq.ts:72).                    *)
OneConnection == \A l \in Logins : fetching[l] + conns[l] <= 1

(* Motion is never left on: while it is, a debounce timer of some set of   *)
(* accessories, this login's or an earlier one's, will end it              *)
(* (accessory.ts:83).                                                      *)
MotionEnds == motion => debounced # {}

(* A client that was started is connected in the end and again after every *)
(* error, unless its connection was closed or its config could not be had: *)
(* those two end it, and nobody notices (mq.ts:98, mq.ts:102).             *)
Reconnects == \A l \in Logins : uses[l] # 0 ~> l \in up \cup over

=============================================================================
