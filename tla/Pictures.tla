------------------------------ MODULE Pictures ------------------------------
(***************************************************************************)
(* The pictures of one camera: the snapshot the dashboard shows            *)
(* (frames/<slug>.jpg), which the frame snapshotter and the offline card   *)
(* both write, and the last live frame (frames/<slug>.haus_live.jpg),      *)
(* whose time tells whether the camera is available.                       *)
(*                                                                         *)
(* A snapshotter asks the engine for its cached keyframe, decodes and      *)
(* saves it, and turns to the RTSP stream when that fails.  Stopping it    *)
(* does not stop a grab that waits: the next snapshotter may work beside   *)
(* it.  In the same way a card that is being rendered is written when it   *)
(* is ready, whoever wrote the picture meanwhile.                          *)
(*                                                                         *)
(* Time is counted in steps of fifteen seconds: an age below Limit is less *)
(* than thirty seconds.  The supervision of the stream is StreamRecovery's *)
(* subject: here its events come at any time, and the camera is one that a *)
(* login or a local key lets the server recover.  p2p_connected is left    *)
(* out: no session of the engine makes the client that reports it.         *)
(***************************************************************************)
EXTENDS Naturals, FiniteSets

CONSTANTS
  Snaps,        (* snapshotters that may be at work at once                *)
  MaxRenders,   (* bound: renders in flight that no card waits for         *)
  MaxDisturbed  (* bound: events of the stream, and failures               *)

ASSUME PicturesAssumption ==
  MaxRenders \in Nat \ {0} /\ MaxDisturbed \in Nat

VARIABLES
  streaming,    (* activeStreams.has(did): the public stream is live       *)
  peer,         (* the engine's session of the camera                      *)
  closed,       (* the report of a peer that was closed is to be read      *)
  timer,        (* recoveryTimers.has(did)                                 *)
  online,       (* the row's online                                        *)
  saving,       (* a frame's save, which nobody awaits, is under way       *)
  cache,        (* age of snapshot_annexb_, the engine's cached keyframe   *)
  newest,       (* history: age of the newest keyframe of the camera       *)
  card,         (* offlineStates.has(slug): its timer renders the card     *)
  isRendering,  (* isRendering of the card that is shown                   *)
  renders,      (* other renders in flight                                 *)
  picture,      (* what <slug>.jpg shows                                   *)
  on,           (* the snapshotter in the map, if any                      *)
  grab,         (* what each snapshotter's grab waits for                  *)
  asked,        (* whose request pendingSnapshots holds                    *)
  shot,         (* age of the keyframe each works on                       *)
  aged,         (* snapshotters whose grab began a step of time ago        *)
  next,         (* age by the time stamp of <slug>.haus_live.jpg.next      *)
  last,         (* age by the time stamp of <slug>.haus_live.jpg           *)
  disturbed     (* events and failures so far                              *)

peerVars == <<peer, closed>>
streamVars == <<streaming, peerVars, timer, disturbed>>
rowVars == <<online, saving>>
cardVars == <<card, isRendering, renders>>
grabVars == <<grab, asked, shot, aged>>
fileVars == <<picture, next, last>>
vars == <<streamVars, rowVars, cache, newest, cardVars, on, grabVars, fileVars>>

Limit == 2

Oldest == Limit + 1

None == Oldest + 1

Ages == 0..None

Older(a) == IF a < Oldest THEN a + 1 ELSE a

(* A new peer has yet to connect; one that lost its connection may find it *)
(* again.                                                                  *)
PeerState == {"none", "new", "feeding"}

Grabs == {"none", "asking", "decoding", "writing", "stamping", "renaming",
          "rtspLive", "rtspCard"}

TypeOK ==
  /\ streaming \in BOOLEAN /\ timer \in BOOLEAN
  /\ peer \in PeerState /\ closed \in BOOLEAN
  /\ online \in BOOLEAN /\ saving \in BOOLEAN
  /\ card \in BOOLEAN /\ isRendering \in BOOLEAN
  /\ cache \in Ages /\ newest \in Ages /\ next \in Ages /\ last \in Ages
  /\ renders \in 0..MaxRenders
  /\ picture \in {"none", "card", "live"}
  /\ on \subseteq Snaps /\ asked \subseteq Snaps /\ aged \subseteq Snaps
  /\ Cardinality(on) <= 1 /\ Cardinality(asked) <= 1
  /\ grab \in [Snaps -> Grabs] /\ shot \in [Snaps -> Ages]
  /\ disturbed \in 0..MaxDisturbed

(* The files and the row are those the last run left.                      *)
Init ==
  /\ streaming = FALSE /\ timer = FALSE
  /\ peer = "none" /\ closed = FALSE
  /\ online \in BOOLEAN /\ saving = FALSE
  /\ cache = None /\ last \in {Oldest, None} /\ newest = last /\ next = None
  /\ card = FALSE /\ isRendering = FALSE /\ renders = 0
  /\ picture \in {"none", "card", "live"}
  /\ on = {} /\ asked = {} /\ aged = {}
  /\ grab = [s \in Snaps |-> "none"] /\ shot = [s \in Snaps |-> None]
  /\ disturbed = 0

Disturbs == disturbed < MaxDisturbed /\ disturbed' = disturbed + 1

(***************************************************************************)
(* The offline card.  Every setOffline has a render of its own, begun at   *)
(* once; one in flight is left to end.                                     *)
(***************************************************************************)
InFlight == IF isRendering THEN 1 ELSE 0

SetOffline(times) ==
  /\ renders + InFlight + times - 1 <= MaxRenders
  /\ card' = TRUE /\ isRendering' = TRUE
  /\ renders' = renders + InFlight + times - 1

(* Faulty variant: the interval is not cleared.                            *)
SetOnlineStillTicking ==
  /\ renders + InFlight <= MaxRenders
  /\ renders' = renders + InFlight
  /\ isRendering' = FALSE /\ UNCHANGED card

SetOnline ==
  /\ renders + InFlight <= MaxRenders
  /\ renders' = renders + InFlight
  /\ card' = FALSE /\ isRendering' = FALSE

RenderTimer ==
  /\ card /\ ~isRendering
  /\ isRendering' = TRUE
  /\ UNCHANGED <<streamVars, rowVars, cache, newest, card, renders, on,
                 grabVars, fileVars>>

(* ffmpeg ends well and its file is moved, or it fails or is killed.       *)
Rendered ==
  \/ picture' = "card" /\ UNCHANGED streamVars
  \/ Disturbs /\ UNCHANGED <<streaming, peerVars, timer, picture>>

RenderEnds ==
  /\ isRendering /\ isRendering' = FALSE
  /\ Rendered
  /\ UNCHANGED <<rowVars, cache, newest, card, renders, on, grabVars, next, last>>

OtherRenderEnds ==
  /\ renders > 0 /\ renders' = renders - 1
  /\ Rendered
  /\ UNCHANGED <<rowVars, cache, newest, card, isRendering, on, grabVars, next, last>>

(* A request for a picture that is not there renders a card.               *)
GetSnapshot ==
  /\ picture = "none" /\ renders < MaxRenders
  /\ renders' = renders + 1
  /\ UNCHANGED <<streamVars, rowVars, cache, newest, card, isRendering, on,
                 grabVars, fileVars>>

(***************************************************************************)
(* The map of snapshotters.                                                *)
(***************************************************************************)
Free == {s \in Snaps \ on : grab[s] = "none"}

EnsureSnapshotter ==
  \/ on # {} /\ UNCHANGED on
  \/ on = {} /\ \E s \in Free : on' = {s}

(* stop() kills the ffmpeg of an RTSP grab; a grab that awaits the engine, *)
(* a decoder or a file goes on.                                            *)
Killed(s) == s \in on /\ grab[s] \in {"rtspLive", "rtspCard"}

StopGrab == grab' = [s \in Snaps |-> IF Killed(s) THEN "none" ELSE grab[s]]

StopSnapshotter == StopGrab /\ on' = {}

(***************************************************************************)
(* The stream's events, as the supervision of the cameras handles them.    *)
(***************************************************************************)
(* stop_p2p, alone or by stopCameraSession: the closed peer is reported    *)
(* like any disconnection.                                                 *)
StopP2P ==
  /\ peer' = "none" /\ closed' = (closed \/ peer # "none")
  /\ cache' = None

(* A user's start ends the session there is, and an MQTT client that       *)
(* connects again restarts its peer.                                       *)
Restarts ==
  /\ Disturbs /\ StopP2P
  /\ UNCHANGED <<streaming, timer, rowVars, newest, cardVars, on, grabVars, fileVars>>

(* The session or its peer is new, and said to be started before the       *)
(* camera has answered: its cache is empty.                                *)
SessionStarted ==
  /\ peer = "none" /\ ~closed /\ Disturbs
  /\ streaming' = TRUE /\ peer' = "new" /\ timer' = FALSE /\ online' = TRUE
  /\ cache' = None
  /\ SetOnline /\ EnsureSnapshotter
  /\ UNCHANGED <<closed, saving, newest, grabVars, fileVars>>

(* The camera has answered, and ICE succeeds.                              *)
PeerConnects ==
  /\ peer = "new" /\ peer' = "feeding"
  /\ UNCHANGED <<streaming, closed, timer, disturbed, rowVars, cache, newest,
                 cardVars, on, grabVars, fileVars>>

(* The handler of webrtc_disconnected shows the card, and                  *)
(* scheduleStreamRecovery does so again unless an attempt is due.          *)
OnDisconnected ==
  /\ streaming' = FALSE /\ timer' = TRUE /\ online' = FALSE
  /\ SetOffline(IF timer THEN 1 ELSE 2)
  /\ UNCHANGED <<saving, newest, on, grabVars, fileVars>>

(* The connection is lost, or no packet came for fifteen seconds.          *)
Disconnected ==
  /\ peer # "none" /\ peer' = "new" /\ Disturbs
  /\ cache' = None
  /\ OnDisconnected
  /\ UNCHANGED closed

(* The report of a peer that was closed.                                   *)
ClosedReported ==
  /\ closed /\ closed' = FALSE
  /\ OnDisconnected
  /\ UNCHANGED <<peer, disturbed, cache>>

(* The camera says disconnect.                                             *)
CameraHangsUp ==
  /\ Disturbs /\ StopP2P
  /\ OnDisconnected

Unhealthy ==
  /\ peer = "feeding" /\ Disturbs
  /\ streaming' = FALSE /\ timer' = TRUE
  /\ StopSnapshotter /\ SetOffline(IF timer THEN 1 ELSE 2)
  /\ UNCHANGED <<peerVars, rowVars, cache, newest, asked, shot, aged, fileVars>>

(* logoutProfile, and the loop of session_expired.                         *)
LoginEnds ==
  /\ Disturbs
  /\ streaming' = FALSE /\ timer' = FALSE /\ online' = FALSE
  /\ StopSnapshotter /\ StopP2P /\ SetOffline(1)
  /\ UNCHANGED <<saving, newest, asked, shot, aged, fileVars>>

(* stopStream leaves a pending recovery alone.                             *)
UserStops ==
  /\ Disturbs
  /\ streaming' = FALSE
  /\ StopSnapshotter /\ StopP2P /\ SetOffline(1)
  /\ UNCHANGED <<timer, rowVars, newest, asked, shot, aged, fileVars>>

(* Six failures in a row.                                                  *)
TooManyFailures ==
  /\ on # {} /\ ~timer /\ Disturbs
  /\ streaming' = FALSE /\ timer' = TRUE
  /\ SetOffline(1)
  /\ UNCHANGED <<peerVars, rowVars, cache, newest, on, grabVars, fileVars>>

(* It passes over a camera whose MQTT session is kept, and may go on       *)
(* doing so: the client may never connect.                                 *)
Watchdog ==
  /\ ~streaming /\ ~timer
  /\ timer' = TRUE /\ SetOffline(1)
  /\ UNCHANGED <<streaming, peerVars, disturbed, rowVars, cache, newest, on,
                 grabVars, fileVars>>

(* The attempt stops what there is before it starts a new session.         *)
RecoveryTimer ==
  /\ timer /\ timer' = FALSE
  /\ StopSnapshotter /\ StopP2P
  /\ UNCHANGED <<streaming, disturbed, rowVars, newest, cardVars, asked, shot,
                 aged, fileVars>>

(***************************************************************************)
(* The engine's cache, and time.                                           *)
(***************************************************************************)
Keyframe ==
  /\ peer = "feeding"
  /\ cache' = 0 /\ newest' = 0
  /\ UNCHANGED <<streamVars, rowVars, cardVars, on, grabVars, fileVars>>

(* A grab's timers, four seconds for the engine and eight for the decoder, *)
(* let it last over one step of time, not two.                             *)
AtKeyframe(s) == grab[s] \in {"asking", "decoding", "writing", "stamping", "renaming"}

Tick ==
  /\ aged = {}
  /\ cache' = Older(cache) /\ newest' = Older(newest)
  /\ next' = Older(next) /\ last' = Older(last)
  /\ shot' = [s \in Snaps |-> Older(shot[s])]
  /\ aged' = {s \in Snaps : AtKeyframe(s)}
  /\ UNCHANGED <<streamVars, rowVars, cardVars, on, grab, asked, picture>>

(***************************************************************************)
(* grabOnce.  While the picture of the keyframe fails, the grab goes on    *)
(* with the RTSP stream, stopped or not.                                   *)
(***************************************************************************)
(* The public stream of a camera that counts as streaming may show the     *)
(* card all the same.                                                      *)
Rtsp == IF streaming THEN {"rtspLive", "rtspCard"} ELSE {"rtspCard"}

FallsBack(s) ==
  /\ \E r \in Rtsp : grab' = [grab EXCEPT ![s] = r]
  /\ shot' = [shot EXCEPT ![s] = None] /\ aged' = aged \ {s}

(* The engine keeps one request of a camera: an earlier one is rejected.   *)
GetSnapshotFrame(s) ==
  /\ \E r \in Rtsp : grab' = [t \in Snaps |-> IF t = s THEN "asking"
                                            ELSE IF t \in asked THEN r ELSE grab[t]]
  /\ asked' = {s} /\ aged' = aged \ asked

GrabTimer(s) ==
  /\ s \in on /\ grab[s] = "none"
  /\ GetSnapshotFrame(s)
  /\ UNCHANGED <<streamVars, rowVars, cache, newest, cardVars, on, shot, fileVars>>

(* Faulty variant: the picture is dated when the server gets it.           *)
AnsweredNow(s) ==
  /\ s \in asked /\ asked' = {} /\ cache # None
  /\ grab' = [grab EXCEPT ![s] = "decoding"]
  /\ shot' = [shot EXCEPT ![s] = 0]
  /\ UNCHANGED <<streamVars, rowVars, cache, newest, cardVars, on, aged, fileVars>>

Answered(s) ==
  /\ s \in asked /\ asked' = {} /\ cache # None
  /\ grab' = [grab EXCEPT ![s] = "decoding"]
  /\ shot' = [shot EXCEPT ![s] = cache]
  /\ UNCHANGED <<streamVars, rowVars, cache, newest, cardVars, on, aged, fileVars>>

(* There is no keyframe; or the engine does not answer in time, or answers *)
(* with an error of something else.                                        *)
Refused(s) ==
  /\ s \in asked /\ asked' = {}
  /\ \/ cache = None /\ UNCHANGED disturbed
     \/ Disturbs
  /\ FallsBack(s)
  /\ UNCHANGED <<streaming, peerVars, timer, rowVars, cache, newest, cardVars, on,
                 fileVars>>

(* The picture is replaced at once, and saveLastLive begins.               *)
Decoded(s) ==
  /\ grab[s] = "decoding" /\ grab' = [grab EXCEPT ![s] = "writing"]
  /\ picture' = "live"
  /\ UNCHANGED <<streamVars, rowVars, cache, newest, cardVars, on, asked, shot,
                 aged, next, last>>

DecodeFails(s) ==
  /\ grab[s] = "decoding" /\ Disturbs /\ FallsBack(s)
  /\ UNCHANGED <<streaming, peerVars, timer, rowVars, cache, newest, cardVars, on,
                 asked, fileVars>>

Written(s) ==
  /\ grab[s] = "writing" /\ grab' = [grab EXCEPT ![s] = "stamping"]
  /\ next' = 0
  /\ UNCHANGED <<streamVars, rowVars, cache, newest, cardVars, on, asked, shot,
                 aged, picture, last>>

(* Its directory is removed at the end, and with it the files of a grab    *)
(* that is decoding beside it, which may fail for want of them.            *)
CleanedUp(s, after) ==
  \E lose \in SUBSET {t \in Snaps \ {s} : grab[t] = "decoding"}, end \in after, r \in Rtsp :
    /\ grab' = [t \in Snaps |-> IF t = s THEN end
                                ELSE IF t \in lose THEN r ELSE grab[t]]
    /\ aged' = aged \ (lose \cup {s})
    /\ shot' = [t \in Snaps |-> IF t \in lose \cup {s} THEN None ELSE shot[t]]

Stamped(s) ==
  /\ grab[s] = "stamping"
  /\ \/ /\ next # None /\ next' = shot[s]
        /\ grab' = [grab EXCEPT ![s] = "renaming"] /\ UNCHANGED <<shot, aged>>
     \/ next = None /\ CleanedUp(s, Rtsp) /\ UNCHANGED next
  /\ UNCHANGED <<streamVars, rowVars, cache, newest, cardVars, on, asked, picture,
                 last>>

(* Faulty variant: its listeners were not removed.                         *)
StillHeard(s) == saving' = TRUE /\ SetOnline

(* "frame": a stopped snapshotter has no listener left.                    *)
Frame(s) ==
  \/ s \in on /\ saving' = TRUE /\ SetOnline
  \/ s \notin on /\ UNCHANGED <<saving, cardVars>>

(* The save of the snapshotter's own row comes when it comes: it writes    *)
(* what differs from the row it found, or fails.                           *)
FrameSaved ==
  /\ saving /\ saving' = FALSE /\ online' \in {online, TRUE}
  /\ UNCHANGED <<streamVars, cache, newest, cardVars, on, grabVars, fileVars>>

Renamed(s) ==
  /\ grab[s] = "renaming"
  /\ \/ /\ next # None /\ last' = next /\ next' = None
        /\ Frame(s) /\ CleanedUp(s, {"none"})
     \/ /\ next = None /\ CleanedUp(s, Rtsp)
        /\ UNCHANGED <<next, last, saving, cardVars>>
  /\ UNCHANGED <<streamVars, online, cache, newest, on, asked, picture>>

(* The RTSP stream may show the fallback card: it is not taken for a last  *)
(* live frame, but it is for a picture of the camera.                      *)
Grabbed(s) ==
  /\ grab[s] \in {"rtspLive", "rtspCard"} /\ grab' = [grab EXCEPT ![s] = "none"]
  /\ picture' = IF grab[s] = "rtspLive" THEN "live" ELSE "card"
  /\ Frame(s)
  /\ UNCHANGED <<streamVars, online, cache, newest, on, asked, shot, aged, next, last>>

GrabFails(s) ==
  /\ grab[s] \in {"rtspLive", "rtspCard"} /\ grab' = [grab EXCEPT ![s] = "none"]
  /\ Disturbs
  /\ UNCHANGED <<streaming, peerVars, timer, rowVars, cache, newest, cardVars, on,
                 asked, shot, aged, fileVars>>

(***************************************************************************)
(* The specification.                                                      *)
(***************************************************************************)
SnapStep(s) ==
  \/ Answered(s) \/ Refused(s) \/ Decoded(s) \/ DecodeFails(s) \/ Written(s)
  \/ Stamped(s) \/ Renamed(s) \/ Grabbed(s) \/ GrabFails(s)

Next ==
  \/ Restarts \/ SessionStarted \/ PeerConnects
  \/ Disconnected \/ ClosedReported \/ CameraHangsUp \/ Unhealthy \/ LoginEnds
  \/ UserStops \/ TooManyFailures \/ Watchdog \/ RecoveryTimer \/ FrameSaved
  \/ Keyframe \/ Tick
  \/ RenderTimer \/ RenderEnds \/ OtherRenderEnds \/ GetSnapshot
  \/ \E s \in Snaps : GrabTimer(s) \/ SnapStep(s)

Spec == Init /\ [][Next]_vars

(* Every wait ends by a timer of its own, the intervals of the snapshotter *)
(* and the card go off, a report is read, and a peer that is connected has *)
(* keyframes.  The camera owes no answer, and the watchdog no attempt.     *)
FairSpec ==
  /\ Spec
  /\ WF_vars(ClosedReported) /\ WF_vars(RecoveryTimer) /\ WF_vars(Keyframe)
  /\ WF_vars(RenderTimer) /\ WF_vars(RenderEnds) /\ WF_vars(OtherRenderEnds)
  /\ \A s \in Snaps : WF_vars(GrabTimer(s)) /\ WF_vars(SnapStep(s))

(***************************************************************************)
(* What must hold.                                                         *)
(***************************************************************************)
Available == online /\ last < Limit

(* A camera that is offered as available (haus-native.service.ts:98) has   *)
(* sent a keyframe in the last thirty seconds and the time a grab takes,   *)
(* however long the engine's cached keyframe outlives its video: two       *)
(* snapshotters that save at once through one .next file can put back its  *)
(* stamp by the length of the grab they share, and by no more.             *)
AvailableIsTrue == Available => newest <= Limit

(* A camera goes from offline to online by a session that starts, or by    *)
(* the save of a frame, and a save begins only with a frame of a           *)
(* snapshotter in the map: never by what a stopped one still waited for.   *)
OnlineByRight ==
  [][ /\ ~online /\ online' => saving \/ SessionStarted
      /\ ~saving /\ saving' => on # {} ]_vars

(* The picture follows the camera: when a stream stays and its peer is     *)
(* connected, the card that was still being rendered when it came back is  *)
(* replaced for good; and when it stays away, and attempts to bring it     *)
(* back go on, so is the frame a stopped snapshotter still wrote.          *)
PictureFollows ==
  /\ <>[](streaming /\ peer = "feeding") => <>[](picture = "live")
  /\ <>[](~streaming) /\ []<>timer => <>[](picture = "card")

=============================================================================
