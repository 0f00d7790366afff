--------------------------- MODULE StreamRecovery ---------------------------
(***************************************************************************)
(* How one camera's stream is started, lost and brought back               *)
(* (bridge/apps/server/src/cameras/cameras.service.ts) over its signalling *)
(* and the login of auth/tuya-protect.service.ts.                          *)
(*                                                                         *)
(* A handler that awaits the database is in handlers.  Most read the       *)
(* camera's row, change some fields and save it, with nothing else done    *)
(* between the two awaits: they are one wait here, and the row is read     *)
(* when it begins, so a handler may go on with a row that was removed,     *)
(* and its save inserts it again.  Two handlers that wait for the same     *)
(* are one element: the second does what the first did.  The loops over    *)
(* all cameras are followed for this camera.  The public stream and its    *)
(* fallback card are the subject of Transcoder; the back-off is left out,  *)
(* as no delay here is compared with another.                              *)
(***************************************************************************)
EXTENDS TuyaSignaling

CONSTANTS
  HasLocalKey, (* the camera's row has a local key and an address          *)
  SnapLimit,   (* maxConsecutiveFailures * 2                               *)
  MaxDisturbed (* bound: requests, changes of the login, and faults        *)

ASSUME RecoveryAssumption ==
  /\ HasLocalKey \in BOOLEAN
  /\ SnapLimit \in Nat \ {0} /\ MaxDisturbed \in Nat

VARIABLES
  row,         (* the camera has a row in the database                     *)
  loggedIn,    (* isLoggedIn()                                             *)
  active,      (* activeStreams.has(did)                                   *)
  timer,       (* recoveryTimers.has(did)                                  *)
  snap,        (* snapshotters.has(did)                                    *)
  failures,    (* its consecutive failures                                 *)
  handlers,    (* handlers that wait for the database                      *)
  disturbed    (* requests, changes of the login and faults so far         *)

snapVars == <<snap, failures>>
vars == <<signalVars, row, loggedIn, active, timer, snapVars, handlers, disturbed>>

Handler == {"started", "disconnected", "unhealthy", "auto", "add", "remove",
            "login", "forget", "expired", "logout", "start", "stop", "delete"}

(* One camera, its row as the last run left it, and the engine just ready. *)
Init ==
  /\ SignalInit
  /\ row \in BOOLEAN /\ loggedIn \in BOOLEAN
  /\ active = FALSE /\ timer = FALSE /\ snap = FALSE /\ failures = 0
  /\ handlers = IF row THEN {"auto"} ELSE {}
  /\ disturbed = 0

TypeOK ==
  /\ SignalTypeOK
  /\ row \in BOOLEAN /\ loggedIn \in BOOLEAN
  /\ active \in BOOLEAN /\ timer \in BOOLEAN
  /\ snap \in BOOLEAN /\ failures \in 0..SnapLimit
  /\ handlers \subseteq Handler
  /\ disturbed \in 0..MaxDisturbed

Disturbs == disturbed < MaxDisturbed /\ disturbed' = disturbed + 1

Awaits(h) == handlers' = handlers \cup {h}
AwaitsRow(h) == handlers' = IF row THEN handlers \cup {h} ELSE handlers
Resumes(h, next) == h \in handlers /\ handlers' = (handlers \ {h}) \cup next
Ends(h) == Resumes(h, {})

StopSnapshotter == snap' = FALSE /\ failures' = 0

(* ensureSnapshotter keeps one that runs.                                  *)
EnsureSnapshotter == snap' = TRUE /\ failures' = IF snap THEN failures ELSE 0

(* Without a login only a camera with a local key is worth an attempt.     *)
CanRecover == loggedIn \/ HasLocalKey

(* Faulty variant: the login is not looked at.                             *)
ScheduleAlways == timer' = TRUE

ScheduleStreamRecovery == timer' = (timer \/ CanRecover)

StartStream ==
  IF loggedIn THEN StartCameraSession ELSE StartP2P /\ UNCHANGED callVars

(***************************************************************************)
(* The engine's events, and how their handlers go on.                      *)
(***************************************************************************)
Reads(e) == events # <<>> /\ Head(events) = e /\ events' = Tail(events) /\ UNCHANGED peer

OnSessionStarted ==
  /\ Reads("started") /\ active' = TRUE /\ timer' = FALSE
  /\ AwaitsRow("started")
  /\ UNCHANGED <<callVars, row, loggedIn, snapVars, disturbed>>

(* Faulty variant: the stream is still taken for an active one.            *)
OnDisconnectedStillActive ==
  /\ Reads("disconnected")
  /\ AwaitsRow("disconnected")
  /\ UNCHANGED <<callVars, row, loggedIn, active, timer, snapVars, disturbed>>

OnDisconnected ==
  /\ Reads("disconnected") /\ active' = FALSE
  /\ AwaitsRow("disconnected")
  /\ UNCHANGED <<callVars, row, loggedIn, timer, snapVars, disturbed>>

OnUnhealthy ==
  /\ Reads("unhealthy") /\ active' = FALSE
  /\ AwaitsRow("unhealthy")
  /\ UNCHANGED <<callVars, row, loggedIn, timer, snapVars, disturbed>>

StartedSaved ==
  /\ Ends("started")
  /\ row' = TRUE /\ EnsureSnapshotter
  /\ UNCHANGED <<signalVars, loggedIn, active, timer, disturbed>>

(* Faulty variant: the loss is noted, and left to the watchdog.            *)
DisconnectedNoted ==
  /\ Ends("disconnected")
  /\ row' = TRUE
  /\ UNCHANGED <<signalVars, loggedIn, active, timer, snapVars, disturbed>>

DisconnectedSaved ==
  /\ Ends("disconnected")
  /\ row' = TRUE /\ ScheduleStreamRecovery
  /\ UNCHANGED <<signalVars, loggedIn, active, snapVars, disturbed>>

UnhealthyFound ==
  /\ Ends("unhealthy") /\ StopSnapshotter /\ ScheduleStreamRecovery
  /\ UNCHANGED <<signalVars, row, loggedIn, active, disturbed>>

(***************************************************************************)
(* Recovery, watchdog and snapshots.                                       *)
(***************************************************************************)
(* The timer's callback stops what there is and starts the stream again.   *)
RecoveryFires ==
  /\ timer /\ timer' = FALSE /\ Room
  /\ StopSnapshotter
  /\ IF loggedIn THEN StartCameraSession
     ELSE call' = Ended /\ sess' = NoCall /\ StopThenStartP2P
  /\ UNCHANGED <<row, loggedIn, active, handlers, disturbed>>

(* Faulty variant: a camera with a snapshotter is taken for one that       *)
(* streams.                                                                *)
IsStreamingOrSnapped == active \/ sess # NoCall \/ snap

IsStreaming == active \/ sess # NoCall

Watchdog ==
  /\ row /\ CanRecover /\ ~IsStreaming /\ ~timer
  /\ ScheduleStreamRecovery
  /\ UNCHANGED <<signalVars, row, loggedIn, active, snapVars, handlers, disturbed>>

(* A snapshot comes from the engine's keyframe or, that failing, from the  *)
(* public stream, which may show the fallback card.                        *)
SnapshotTaken ==
  /\ snap /\ failures' = 0
  /\ UNCHANGED <<signalVars, row, loggedIn, active, timer, snap, handlers, disturbed>>

(* Failures in a row are counted; a picture begins anew.                   *)
HandleFailure == failures' = IF failures < SnapLimit THEN failures + 1 ELSE failures

SnapshotFails ==
  /\ Disturbs /\ snap
  /\ HandleFailure
  /\ IF failures' = SnapLimit
     THEN active' = FALSE /\ ScheduleStreamRecovery
     ELSE UNCHANGED <<active, timer>>
  /\ UNCHANGED <<signalVars, row, loggedIn, snap, handlers>>

(***************************************************************************)
(* Requests of the user.                                                   *)
(***************************************************************************)
(* A request looks the camera up before it does anything (getById); what   *)
(* else there is goes on meanwhile, and the row may be gone by then.       *)
UserAsks(h) ==
  /\ Disturbs /\ row /\ Awaits(h)
  /\ UNCHANGED <<signalVars, row, loggedIn, active, timer, snapVars>>

UserStarts ==
  /\ Ends("start") /\ Room /\ StartStream
  /\ UNCHANGED <<row, loggedIn, active, timer, snapVars, disturbed>>

(* stopStream leaves a pending recovery alone.                             *)
UserStops ==
  /\ Ends("stop") /\ Room /\ active' = FALSE /\ StopSnapshotter /\ StopCameraSession
  /\ UNCHANGED <<row, loggedIn, timer, disturbed>>

(* delete leaves the MQTT session and a pending recovery alone.            *)
UserDeletes ==
  /\ Resumes("delete", {"remove"})
  /\ Room /\ active' = FALSE /\ StopSnapshotter
  /\ StopP2P /\ UNCHANGED callVars
  /\ UNCHANGED <<row, loggedIn, timer, disturbed>>

Removed ==
  /\ Ends("remove")
  /\ row' = FALSE
  /\ UNCHANGED <<signalVars, loggedIn, active, timer, snapVars, disturbed>>

(* createOrUpdate and, for a camera it discovers, refreshTuyaCameras.      *)
UserAdds ==
  /\ Disturbs /\ Awaits("add")
  /\ UNCHANGED <<signalVars, row, loggedIn, active, timer, snapVars>>

(* autoStartCameras and createOrUpdate start the stream of the saved row.  *)
SavedThenStarts(h) ==
  /\ Ends(h)
  /\ row' = TRUE /\ Room /\ StartStream
  /\ UNCHANGED <<loggedIn, active, timer, snapVars, disturbed>>

(***************************************************************************)
(* The login.                                                              *)
(***************************************************************************)
(* pollQr: the login counts at once; the event follows the saved session.  *)
Login ==
  /\ Disturbs /\ ~loggedIn /\ loggedIn' = TRUE
  /\ Awaits("login")
  /\ UNCHANGED <<signalVars, row, active, timer, snapVars>>

LoginSaved ==
  /\ Resumes("login", IF row THEN {"auto"} ELSE {})
  /\ UNCHANGED <<signalVars, row, loggedIn, active, timer, snapVars, disturbed>>

(* setRegion drops the login and tells nobody.                             *)
ChangeRegion ==
  /\ Disturbs /\ loggedIn /\ loggedIn' = FALSE
  /\ UNCHANGED <<signalVars, row, active, timer, snapVars, handlers>>

(* handleSessionExpired, after a request the cloud refused: the login is   *)
(* dropped, and the event follows the deleted setting.                     *)
Expires ==
  /\ Disturbs /\ loggedIn' = FALSE
  /\ Awaits("forget")
  /\ UNCHANGED <<signalVars, row, active, timer, snapVars>>

(* A call of startCameraSession whose request is refused for want of a     *)
(* login.                                                                  *)
CallRefused(c) ==
  /\ Disturbs /\ CallFails(c) /\ loggedIn' = FALSE
  /\ Awaits("forget")
  /\ UNCHANGED <<row, active, timer, snapVars>>

(* The session_expired event.                                              *)
ExpiryTold ==
  /\ Resumes("forget", IF row THEN {"expired"} ELSE {})
  /\ timer' = FALSE /\ active' = FALSE
  /\ UNCHANGED <<signalVars, row, loggedIn, snapVars, disturbed>>

(* The loop of session_expired over a row it saved.                        *)
ExpirySaved ==
  /\ Ends("expired")
  /\ row' = TRUE /\ Room /\ StopSnapshotter /\ StopCameraSession
  /\ UNCHANGED <<loggedIn, active, timer, disturbed>>

(* logoutProfile, up to its first await; without cameras there is nothing  *)
(* to wait for before the login is dropped.                                *)
UserLogsOut ==
  /\ Disturbs /\ timer' = FALSE /\ active' = FALSE
  /\ IF row THEN Awaits("logout") /\ UNCHANGED loggedIn
     ELSE Awaits("forget") /\ loggedIn' = FALSE
  /\ UNCHANGED <<signalVars, row, snapVars>>

(* Its loop.  At its end tuyaProtect.logout drops the login and goes the   *)
(* way of an expiry.  The stop_p2p logoutProfile sends after               *)
(* stopCameraSession finds nothing more to stop.                           *)
LogoutSaved ==
  /\ Resumes("logout", {"forget"})
  /\ row' = TRUE /\ Room /\ StopSnapshotter /\ StopCameraSession
  /\ loggedIn' = FALSE
  /\ UNCHANGED <<active, timer, disturbed>>

(***************************************************************************)
(* Steps of the signalling.                                                *)
(***************************************************************************)
Steady == UNCHANGED <<row, loggedIn, active, timer, snapVars, handlers>>

CallAnswered(c) ==
  /\ CallSucceeds(c) \/ CallFails(c)
  /\ Steady /\ UNCHANGED disturbed

Connected(c) == MqttConnects(c) /\ Steady /\ UNCHANGED disturbed

Stalled == StallIsLoss /\ Steady /\ UNCHANGED disturbed

PeerMends == (PeerConnects \/ PacketsResume) /\ Steady /\ UNCHANGED disturbed

Breaks ==
  /\ Disturbs /\ Steady
  /\ PeerStalls \/ PeerFails \/ \E c \in Call : MqttDrops(c)

(* The camera says disconnect, over whatever client is connected: the      *)
(* session kept is stopped, and the handler of webrtc_disconnected runs.   *)
CameraHangsUp ==
  /\ Disturbs /\ \E c \in Call : call[c] = "up"
  /\ Room /\ StopCameraSession
  /\ active' = FALSE /\ AwaitsRow("disconnected")
  /\ UNCHANGED <<row, loggedIn, timer, snapVars>>

-----------------------------------------------------------------------------

EventRead == OnSessionStarted \/ OnDisconnected \/ OnUnhealthy

HandlerGoesOn ==
  \/ StartedSaved \/ DisconnectedSaved \/ UnhealthyFound
  \/ Removed \/ LoginSaved \/ ExpiryTold \/ ExpirySaved \/ LogoutSaved
  \/ \E h \in {"auto", "add"} : SavedThenStarts(h)
  \/ UserStarts \/ UserStops \/ UserDeletes

SnapshotGrabbed == SnapshotTaken \/ SnapshotFails

User == (\E h \in {"start", "stop", "delete"} : UserAsks(h)) \/ UserAdds \/ UserLogsOut

Cloud == Login \/ ChangeRegion \/ Expires \/ \E c \in Call : CallRefused(c)

Next ==
  \/ EventRead \/ HandlerGoesOn \/ RecoveryFires \/ Watchdog \/ SnapshotGrabbed
  \/ \E c \in Call : CallAnswered(c) \/ Connected(c)
  \/ Stalled \/ PeerMends \/ Breaks \/ CameraHangsUp \/ User \/ Cloud

Spec == Init /\ [][Next]_vars

(* Events, answers of the database, time-outs of requests and timers come; *)
(* users, cameras and the network owe nothing.                             *)
Fairness ==
  /\ WF_vars(EventRead) /\ WF_vars(HandlerGoesOn)
  /\ WF_vars(RecoveryFires) /\ WF_vars(Watchdog) /\ WF_vars(Stalled)
  /\ \A c \in Call : WF_vars(CallAnswered(c))

FairSpec == Spec /\ Fairness

-----------------------------------------------------------------------------

Dead == peer \in {"none", "lost"}

(* The watchdog trusts activeStreams.  A camera counts as active only      *)
(* while the engine has a peer for it that was not reported lost, or the   *)
(* report is still to be read: whatever order stops, restarts and losses   *)
(* of overlapping starts come in, no camera is left active and dead.       *)
ActiveIsTrue ==
  active /\ Dead => \E i \in DOMAIN events : events[i] = "disconnected"

(* A lost peer of a camera that keeps its row does not stay: reports,      *)
(* timers and earlier recoveries notwithstanding, the session is taken     *)
(* down for a new attempt (or the connection comes back by itself).        *)
LossHeals ==
  []row => ((loggedIn /\ peer = "lost") ~> (peer # "lost" \/ ~loggedIn))

(* A camera with neither peer nor signalling is started again, also after  *)
(* a start that failed or was stopped by hand.                             *)
Revives ==
  (row /\ loggedIn /\ peer = "none" /\ sess = NoCall)
    ~> (peer # "none" \/ sess # NoCall \/ ~row \/ ~loggedIn
        \/ \E c \in Call : call[c] = "asking")

(* Without a login, and without a key for the local way, recovery ends:    *)
(* no storm of attempts by timer and watchdog.                             *)
Calms == (<>[](~loggedIn) /\ ~HasLocalKey) => <>[](~timer)
=============================================================================
