-------------------------------- MODULE Login --------------------------------
(***************************************************************************)
(* The Tuya account of the bridge: the session the server holds and keeps  *)
(* in its database (bridge/apps/server/src/auth/tuya-protect.service.ts)   *)
(* and the QR login of the page (web/src/components/AddCameraModal.tsx).   *)
(*                                                                         *)
(* Every operation of the service awaits answers of Tuya's server; between *)
(* the awaits others run, change the region, log in or out, and restart    *)
(* the server.  The answer of a poll goes on in the state it finds.        *)
(*                                                                         *)
(* The cookie jar is one value.  A query of the database takes effect when *)
(* it is issued, but for saveSession, which looks the row up first: its    *)
(* write comes later, in the order the saves began, and may fail.          *)
(***************************************************************************)
EXTENDS Naturals, Sequences, FiniteSets

CONSTANTS
  Regions,      (* Tuya's regional hosts                                   *)
  Users,        (* accounts                                                *)
  Cookies,      (* values of the session cookie                            *)
  None,         (* no user, no token, no stored session, an empty jar      *)
  MaxTokens,    (* bound: QR tokens handed out                             *)
  Starts,       (* bound: QR flows starting at the same time               *)
  Polls,        (* bound: polls under way at the same time                 *)
  MaxSaves,     (* bound: saves under way at the same time                 *)
  MaxRestarts   (* bound: restarts of the server                           *)

ASSUME LoginAssumption ==
  /\ None \notin Regions \cup Users \cup Cookies \cup Nat
  /\ MaxTokens \in Nat /\ MaxSaves \in Nat /\ MaxRestarts \in Nat

Tokens == 1..MaxTokens

VARIABLES
  host,         (* regionId and host                                       *)
  cookies,      (* the jar                                                 *)
  loginResult,  (* the user logged in, or None                             *)
  currentQr,    (* currentQrToken, or None                                 *)
  saveTimer,    (* sessionSaveTimeout is pending                           *)
  saves,        (* saveSession calls under way: what each will write       *)
  stored,       (* the tuya_session row, or None                           *)
  failed,       (* history: the last save failed                           *)
  starts,       (* startQrFlow calls: what each awaits, and of which host  *)
  polls,        (* pollQr calls: the same, with the token                  *)
  calling,      (* an API call of another service awaits its answer        *)
  tokens,       (* Tuya's tokens: their region, or None; and who scanned   *)
  modal,        (* the page: the dialog is open, its region, its token     *)
  restarts      (* restarts so far                                         *)

memVars == <<host, cookies, loginResult, currentQr, saveTimer>>
diskVars == <<saves, stored, failed>>
callVars == <<starts, polls, calling>>
vars == <<memVars, diskVars, callVars, tokens, modal, restarts>>

Session == [region : Regions, user : Users, cookies : Cookies \cup {None}]
Save == [session : Session, poll : Polls \cup {None}]
Idle == [at |-> "idle"]
StartCall == [at : {"page", "token"}, host : Regions]
PollCall == [at : {"poll", "info", "saving"}, host : Regions, token : Tokens]

TypeOK ==
  /\ host \in Regions /\ cookies \in Cookies \cup {None}
  /\ loginResult \in Users \cup {None} /\ currentQr \in Tokens \cup {None}
  /\ saveTimer \in BOOLEAN /\ calling \in BOOLEAN
  /\ saves \in Seq(Save) /\ stored \in Session \cup {None}
  /\ failed \in BOOLEAN /\ (failed => saves = <<>>)
  /\ starts \in [Starts -> StartCall \cup {Idle}]
  /\ polls \in [Polls -> PollCall \cup {Idle}]
  /\ tokens \in [Tokens -> [region : Regions \cup {None}, by : Users \cup {None}]]
  /\ modal \in [open : BOOLEAN, region : Regions, token : Tokens \cup {None}]
  /\ restarts \in 0..MaxRestarts

Init ==
  /\ host \in Regions /\ cookies = None /\ loginResult = None
  /\ currentQr = None /\ saveTimer = FALSE
  /\ saves = <<>> /\ stored = None /\ failed = FALSE
  /\ starts = [s \in Starts |-> Idle] /\ polls = [p \in Polls |-> Idle]
  /\ calling = FALSE
  /\ tokens = [t \in Tokens |-> [region |-> None, by |-> None]]
  /\ modal = [open |-> FALSE, region |-> host, token |-> None]
  /\ restarts = 0

(***************************************************************************)
(* The service.                                                            *)
(***************************************************************************)
(* Faulty variant: only a login saves the session.                         *)
TakeCookieQuietly(c) ==
  /\ cookies' = c
  /\ saveTimer' = saveTimer

(* updateCookiesFromResponse: c is the jar after the answer, of whatever   *)
(* host it came from.  A change is saved five seconds later.               *)
TakeCookie(c) ==
  /\ cookies' = c
  /\ saveTimer' = (saveTimer \/ (c # cookies /\ loginResult # None))

(* The jars an answer may leave.                                           *)
AfterAnswer == {cookies} \cup Cookies

(* What saveSession is going to write.                                     *)
Snapshot(u, c) == [region |-> host, user |-> u, cookies |-> c]
BeginSave(u, c, p) ==
  /\ saves' = Append(saves, [session |-> Snapshot(u, c), poll |-> p])
  /\ failed' = FALSE

RoomToSave == Len(saves) < MaxSaves

(* handleSessionExpired, up to the event it emits; logout does the same.   *)
Forget ==
  /\ loginResult' = None /\ cookies' = None /\ currentQr' = None
  /\ stored' = None

(* setRegion: the stored session stays.                                    *)
SetRegion(r) ==
  IF r = host
  THEN UNCHANGED <<host, cookies, loginResult, currentQr>>
  ELSE host' = r /\ cookies' = None /\ loginResult' = None /\ currentQr' = None

(* An answer that says the session is over: 401, 403 or USER_SESSION_*.    *)
Expire ==
  /\ saveTimer' \in {saveTimer, saveTimer \/ loginResult # None}
  /\ Forget
  /\ UNCHANGED <<host, saves, failed>>

SaveTimer ==
  /\ saveTimer /\ RoomToSave
  /\ saveTimer' = FALSE
  /\ IF loginResult = None
     THEN UNCHANGED <<saves, failed>>
     ELSE BeginSave(loginResult, cookies, None)
  /\ UNCHANGED <<host, cookies, loginResult, currentQr, stored, callVars, tokens, modal,
                 restarts>>

(* The write of the oldest save, and of a poll that awaits it its answer:  *)
(* the page closes the dialog.                                             *)
Saved ==
  /\ saves # <<>>
  /\ stored' = Head(saves).session /\ saves' = Tail(saves) /\ UNCHANGED failed
  /\ IF Head(saves).poll = None
     THEN UNCHANGED <<polls, modal>>
     ELSE /\ polls' = [polls EXCEPT ![Head(saves).poll] = Idle]
          /\ modal' = [modal EXCEPT !.open = FALSE]
  /\ UNCHANGED <<memVars, starts, calling, tokens, restarts>>

(* The look-up or the write throws: the timer's save swallows it, and a    *)
(* poll answers that nobody is logged in, so that the page polls again.    *)
SaveFails ==
  /\ saves # <<>>
  /\ saves' = Tail(saves) /\ failed' = (Len(saves) = 1)
  /\ polls' = [p \in Polls |-> IF p = Head(saves).poll THEN Idle ELSE polls[p]]
  /\ UNCHANGED <<memVars, stored, starts, calling, tokens, modal, restarts>>

(* startQrFlow: first the login page of the host ...                       *)
StartFlow(s, r) ==
  /\ starts[s] = Idle
  /\ starts' = [starts EXCEPT ![s] = [at |-> "page", host |-> r]]
  /\ SetRegion(r)
  /\ UNCHANGED <<saveTimer, diskVars, polls, calling, tokens, restarts>>

(* ... then, whatever it answered, a token of what is the host by now ...  *)
PageAnswered(s) ==
  /\ starts[s].at = "page"
  /\ starts' = [starts EXCEPT ![s] = [at |-> "token", host |-> host]]
  /\ \E c \in AfterAnswer : TakeCookie(c)
  /\ UNCHANGED <<host, loginResult, currentQr, diskVars, polls, calling, tokens, modal,
                 restarts>>

(* ... which becomes the current one, and the one the page shows.          *)
TokenAnswered(s) ==
  /\ starts[s].at = "token"
  /\ starts' = [starts EXCEPT ![s] = Idle]
  /\ \E c \in AfterAnswer : TakeCookie(c)
  /\ \/ \E t \in Tokens :
          /\ tokens[t].region = None
          /\ tokens' = [tokens EXCEPT ![t].region = starts[s].host]
          /\ currentQr' = t /\ modal' = [modal EXCEPT !.token = t]
     \/ UNCHANGED <<tokens, currentQr, modal>>
  /\ UNCHANGED <<host, loginResult, diskVars, polls, calling, restarts>>

(* Faulty variant: only the current token is polled.                       *)
PollsCurrent(t) == currentQr # None

(* The token the page names is polled, whatever the current one is.        *)
CanPoll(t) == TRUE

(* The page's interval: pollQr of the token it shows.                      *)
Poll(p) ==
  /\ modal.open /\ modal.token # None /\ polls[p] = Idle
  /\ CanPoll(modal.token)
  /\ polls' = [polls EXCEPT ![p] = [at |-> "poll", host |-> host, token |-> modal.token]]
  /\ UNCHANGED <<memVars, diskVars, starts, calling, tokens, modal, restarts>>

(* The poll, or the user info asked after it, names a user.                *)
LogIn(p, u) ==
  /\ RoomToSave
  /\ \E c \in AfterAnswer :
       /\ TakeCookie(c)
       /\ BeginSave(u, c, p)
  /\ loginResult' = u /\ currentQr' = None
  /\ polls' = [polls EXCEPT ![p].at = "saving"]
  /\ UNCHANGED <<host, stored, starts, calling, tokens, modal, restarts>>

(* The host knows the token only if it is its own.                         *)
PollLogsIn(p) ==
  /\ polls[p].at = "poll" /\ tokens[polls[p].token].region = polls[p].host
  /\ tokens[polls[p].token].by # None
  /\ LogIn(p, tokens[polls[p].token].by)

InfoLogsIn(p, u) == polls[p].at = "info" /\ LogIn(p, u)

(* Success without a user: the user info of the host is asked.             *)
PollSucceeds(p) ==
  /\ polls[p].at = "poll"
  /\ polls' = [polls EXCEPT ![p].at = "info", ![p].host = host]
  /\ \E c \in AfterAnswer : TakeCookie(c)
  /\ UNCHANGED <<host, loginResult, currentQr, diskVars, starts, calling, tokens, modal,
                 restarts>>

(* Not scanned yet, no user, or an error: the page polls again.            *)
PollFails(p) ==
  /\ polls[p].at \in {"poll", "info"}
  /\ polls' = [polls EXCEPT ![p] = Idle]
  /\ \E c \in AfterAnswer : TakeCookie(c)
  /\ UNCHANGED <<host, loginResult, currentQr, diskVars, starts, calling, tokens, modal,
                 restarts>>

(* Asked for the user, the host says the session is over (the login        *)
(* endpoints are exempt): the first of two endpoints is followed by the    *)
(* second.                                                                 *)
InfoExpires(p) ==
  /\ polls[p].at = "info"
  /\ Expire
  /\ UNCHANGED <<callVars, tokens, modal, restarts>>

(* Any other call.                                                         *)
BeginCall ==
  /\ ~calling /\ calling' = TRUE
  /\ UNCHANGED <<memVars, diskVars, starts, polls, tokens, modal, restarts>>

(* The keep-alive and a discovery are begun only with a login.             *)
KeepAlive == loginResult # None /\ BeginCall

DiscoverCameras == loginResult # None /\ BeginCall

(* A PTZ command, the configuration of a camera and the credentials of     *)
(* MQTT are asked for in any case.                                         *)
MovePtz == BeginCall

GetCameraConfig == BeginCall

GetMqttCredentials == BeginCall

CallAnswered ==
  /\ calling /\ calling' = FALSE
  /\ \/ \E c \in AfterAnswer : TakeCookie(c) /\ UNCHANGED <<host, loginResult, currentQr, diskVars>>
     \/ Expire
  /\ UNCHANGED <<starts, polls, tokens, modal, restarts>>

Logout ==
  /\ Forget
  /\ UNCHANGED <<host, saveTimer, saves, failed, callVars, tokens, modal, restarts>>

(* The stored session, or the default region and nobody.                   *)
LoadStoredSession ==
  IF stored = None
  THEN host' \in Regions /\ loginResult' = None /\ cookies' = None
  ELSE host' = stored.region /\ loginResult' = stored.user /\ cookies' = stored.cookies

(* The server restarts: onModuleInit loads the stored session, and asks    *)
(* whether it still holds.                                                 *)
Restart ==
  /\ restarts < MaxRestarts /\ restarts' = restarts + 1
  /\ LoadStoredSession
  /\ currentQr' = None /\ saveTimer' = FALSE /\ saves' = <<>> /\ failed' = FALSE
  /\ starts' = [s \in Starts |-> Idle] /\ polls' = [p \in Polls |-> Idle]
  /\ calling' = (stored # None)
  /\ UNCHANGED <<stored, tokens, modal>>

(***************************************************************************)
(* The page and the user's phone.                                          *)
(***************************************************************************)
(* The dialog opens, its region changes or its code is renewed: the token  *)
(* is fetched anew.                                                        *)
FetchQr(s, r) ==
  /\ modal' = [open |-> TRUE, region |-> r, token |-> None]
  /\ StartFlow(s, r)

CloseModal ==
  /\ modal.open
  /\ modal' = [modal EXCEPT !.open = FALSE]
  /\ UNCHANGED <<memVars, diskVars, callVars, tokens, restarts>>

Scan(u) ==
  /\ modal.open /\ modal.token # None /\ tokens[modal.token].by = None
  /\ tokens' = [tokens EXCEPT ![modal.token].by = u]
  /\ UNCHANGED <<memVars, diskVars, callVars, modal, restarts>>

Next ==
  \/ SaveTimer \/ Saved \/ SaveFails \/ Logout \/ Restart \/ CloseModal
  \/ KeepAlive \/ DiscoverCameras \/ MovePtz \/ GetCameraConfig \/ GetMqttCredentials
  \/ CallAnswered
  \/ \E s \in Starts : PageAnswered(s) \/ TokenAnswered(s) \/ \E r \in Regions : FetchQr(s, r)
  \/ \E p \in Polls :
       \/ Poll(p) \/ PollLogsIn(p) \/ PollSucceeds(p) \/ PollFails(p) \/ InfoExpires(p)
       \/ \E u \in Users : InfoLogsIn(p, u)
  \/ \E u \in Users : Scan(u)

Spec == Init /\ [][Next]_vars

(* The page polls while it shows a token, writes end or fail, requests     *)
(* end, and Tuya's server does not refuse a scanned token for ever.  Users *)
(* owe nothing.                                                            *)
Fairness ==
  /\ WF_vars(Saved \/ SaveFails) /\ WF_vars(SaveTimer)
  /\ \A p \in Polls :
       WF_vars(Poll(p)) /\ SF_vars(PollLogsIn(p)) /\ WF_vars(PollFails(p))

FairSpec == Spec /\ Fairness

(***************************************************************************)
(* Properties.                                                             *)
(***************************************************************************)
LastWrite == IF saves = <<>> THEN stored ELSE saves[Len(saves)].session

(* Whatever logins, expiries, changes of region, cookies and restarts      *)
(* interleave with the saves: while somebody is logged in, the row in the  *)
(* database, or the write on the way to it, is the session in memory (its  *)
(* region, user and cookies), or a save is due, or the last one failed.    *)
(* (updateCookiesFromResponse, saveSession; a failed save is not repeated, *)
(* and a restart in the five seconds of the timer forgets what it was to   *)
(* save.)                                                                  *)
Persisted ==
  loginResult # None =>
    saveTimer \/ LastWrite = Snapshot(loginResult, cookies) \/ failed

(* A user who scans the code on the page is logged in, even if an old      *)
(* request's 401 clears the current token meanwhile: unless the page moves *)
(* on, or the token is of another region than the server's (a flow that    *)
(* began before the region changed).                                       *)
ScanLogsIn ==
  \A t \in Tokens :
    (modal.open /\ modal.token = t /\ tokens[t].by # None)
      ~> (loginResult # None \/ ~modal.open \/ modal.token # t \/ tokens[t].region # host)
=============================================================================
