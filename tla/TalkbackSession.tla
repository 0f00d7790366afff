--------------------------- MODULE TalkbackSession ---------------------------
(***************************************************************************)
(* TalkbackSessionService                                                  *)
(* (bridge/apps/server/src/streaming/talkback-session.service.ts): who may *)
(* talk through a camera's speaker.                                        *)
(*                                                                         *)
(* Browsers and RTMP publishers claim and release a camera.  The service   *)
(* keeps one CameraTalk record per camera, derives the holder from the two *)
(* owner sets, and drives the camera's speaker with the MQTT 312 command:  *)
(* on at once when somebody holds the floor, off after a grace period when *)
(* nobody does.  A browser that stops sending packets loses the floor to   *)
(* the idle timer.                                                         *)
(*                                                                         *)
(* Node runs every handler and timer callback to its end, so each is one   *)
(* action.  A handler is a function from a CameraTalk record to a          *)
(* CameraTalk record: a caller that makes two calls in one handler (the    *)
(* gateway's startTalk) composes two of them (module Talkback).            *)
(***************************************************************************)
EXTENDS Naturals, FiniteSets

CONSTANTS
  Cameras,      (* camera ids (did)                                        *)
  Clients,      (* WebSocket connections: the owner ids of browsers        *)
  Names         (* RTMP stream names: the owner ids of publishers          *)

VARIABLES
  talk,         (* the cameras map, total: NoTalk stands for "no entry"    *)
  mqtt,         (* TuyaMqttService has a session for the camera            *)
  speaker       (* the camera's own speaker: the last command delivered    *)

sessionVars == <<talk, mqtt, speaker>>

(***************************************************************************)
(* CameraTalk.  idle is the browser idle timer: "off" when not armed,      *)
(* "fresh" when a packet or a claim reset lastPacketAt within its period,  *)
(* "stale" when the period has passed without one.                         *)
(***************************************************************************)
Holders == {"none", "web", "rtmp"}

CameraTalk == [tracked : BOOLEAN, web : SUBSET Clients, rtmp : SUBSET Names,
               holder : Holders, speakerOn : BOOLEAN, offTimer : BOOLEAN,
               idle : {"off", "fresh", "stale"}]

NoTalk == [tracked |-> FALSE, web |-> {}, rtmp |-> {}, holder |-> "none",
           speakerOn |-> FALSE, offTimer |-> FALSE, idle |-> "off"]

(***************************************************************************)
(* The private helpers.                                                    *)
(***************************************************************************)

(* Faulty variant: the publisher's claim outranks the browser's.           *)
NextHolderRtmpFirst(c) ==
  IF c.rtmp # {} THEN "rtmp" ELSE IF c.web # {} THEN "web" ELSE "none"

(* A browser keeps the floor while one is there; RTMP has it otherwise.    *)
NextHolder(c) ==
  IF c.web # {} THEN "web" ELSE IF c.rtmp # {} THEN "rtmp" ELSE "none"

(* Faulty variant: the timer is never armed.                               *)
ArmedIdleNever(holder) == "off"

(* armIdle: only the browser's floor is watched.                           *)
ArmedIdle(holder) == IF holder = "web" THEN "fresh" ELSE "off"

(* Faulty variants: the grace timer is forgotten; the speaker is switched  *)
(* off at once; the browser's timer survives the browser.                  *)
ApplyNoGrace(c) ==
  LET h == NextHolder(c)
  IN  [c EXCEPT !.holder = h, !.speakerOn = @ \/ h # "none", !.idle = ArmedIdle(h)]

ApplyOffAtOnce(c) ==
  LET h == NextHolder(c)
  IN  [c EXCEPT !.holder = h, !.speakerOn = (h # "none"), !.idle = ArmedIdle(h)]

ApplyKeepsIdle(c) ==
  LET h == NextHolder(c)
  IN  [c EXCEPT !.holder = h, !.speakerOn = @ \/ h # "none",
                !.offTimer = h = "none" /\ c.speakerOn,
                !.idle = IF h # "none" THEN ArmedIdle(h) ELSE @]

(* apply: recompute the holder; speaker on and grace timer cancelled while *)
(* there is one, grace timer (re)started when the speaker is on and there  *)
(* is none.                                                                *)
Apply(c) ==
  LET h == NextHolder(c)
  IN  IF h # "none"
      THEN [c EXCEPT !.holder = h, !.speakerOn = TRUE, !.offTimer = FALSE,
                     !.idle = ArmedIdle(h)]
      ELSE [c EXCEPT !.holder = h, !.offTimer = c.speakerOn, !.idle = "off"]

(* gc: forget a camera nobody uses.                                        *)
Collect(c) ==
  IF c.holder # "none" \/ c.speakerOn \/ c.offTimer \/ c.web # {} \/ c.rtmp # {}
  THEN c
  ELSE NoTalk

(***************************************************************************)
(* The operations, as functions of the camera's record.                    *)
(***************************************************************************)
Ensured(c) == [c EXCEPT !.tracked = TRUE]

(* Faulty variant: only another browser is a reason to refuse a browser.   *)
WebDeniedByBrowser(c, o) == c.web # {} /\ o \notin c.web

WebDenied(c, o) == c.rtmp # {} \/ (c.web # {} /\ o \notin c.web)

WebClaimed(c, o) ==
  IF WebDenied(c, o) THEN Ensured(c)
                     ELSE Apply([Ensured(c) EXCEPT !.web = @ \union {o}])

RtmpClaimed(c, o) == Apply([Ensured(c) EXCEPT !.rtmp = @ \union {o}])

WebReleased(c, o) ==
  IF c.tracked THEN Collect(Apply([c EXCEPT !.web = @ \ {o}])) ELSE c

RtmpReleased(c, o) ==
  IF c.tracked THEN Collect(Apply([c EXCEPT !.rtmp = @ \ {o}])) ELSE c

ShouldSend(d, source) == talk[d].holder = source

Touched(c, source) ==
  IF c.tracked /\ c.holder = source THEN [c EXCEPT !.idle = ArmedIdle(c.holder)]
                                    ELSE c

(* The callback of the idle timer: every browser owner is dropped.         *)
IdledOut(c) == Collect(Apply([c EXCEPT !.web = {}]))

(* The callback of the grace timer.                                        *)
GraceOver(c) ==
  IF c.holder # "none"
  THEN [c EXCEPT !.offTimer = FALSE]
  ELSE Collect([c EXCEPT !.offTimer = FALSE, !.speakerOn = FALSE])

(***************************************************************************)
(* The speaker command of setSpeaker goes out exactly when speakerOn       *)
(* flips; sendSpeaker drops it when the camera has no MQTT session.        *)
(***************************************************************************)
Told(d, enabled) == IF mqtt[d] THEN enabled ELSE speaker[d]

SendSpeaker ==
  speaker' = [d \in Cameras |->
                IF talk'[d].speakerOn # talk[d].speakerOn
                THEN Told(d, talk'[d].speakerOn)
                ELSE speaker[d]]

(* One handler that leaves camera d with record c.                         *)
Handle(d, c) ==
  /\ talk' = [talk EXCEPT ![d] = c]
  /\ SendSpeaker
  /\ UNCHANGED mqtt

(***************************************************************************)
(* The service on its own: any owner may call any operation at any time,   *)
(* timers fire when they are armed, the MQTT session comes and goes.       *)
(***************************************************************************)
SessionInit ==
  /\ talk = [d \in Cameras |-> NoTalk]
  /\ mqtt = [d \in Cameras |-> FALSE]
  /\ speaker = [d \in Cameras |-> FALSE]

ClaimWeb(d, o) == Handle(d, WebClaimed(talk[d], o))

ClaimRtmp(d, o) == Handle(d, RtmpClaimed(talk[d], o))

ReleaseWeb(d, o) == Handle(d, WebReleased(talk[d], o))

ReleaseRtmp(d, o) == Handle(d, RtmpReleased(talk[d], o))

Touch(d, source) == Handle(d, Touched(talk[d], source))

(* WEB_IDLE_MS pass without a packet.                                      *)
IdlePasses(d) ==
  /\ talk[d].idle = "fresh"
  /\ Handle(d, [talk[d] EXCEPT !.idle = "stale"])

IdleFires(d) ==
  /\ talk[d].idle = "stale"
  /\ Handle(d, IdledOut(talk[d]))

GraceFires(d) ==
  /\ talk[d].offTimer
  /\ Handle(d, GraceOver(talk[d]))

(* onModuleDestroy: every speaker that is on is switched off, the map is   *)
(* cleared with its timers.                                                *)
Destroy ==
  /\ talk' = [d \in Cameras |-> NoTalk]
  /\ SendSpeaker
  /\ UNCHANGED mqtt

(* TuyaMqttService starts or stops the camera's session.                   *)
MqttChanges(d) ==
  /\ mqtt' = [mqtt EXCEPT ![d] = ~@]
  /\ UNCHANGED <<talk, speaker>>

SessionNext ==
  \/ \E d \in Cameras, o \in Clients : ClaimWeb(d, o) \/ ReleaseWeb(d, o)
  \/ \E d \in Cameras, o \in Names : ClaimRtmp(d, o) \/ ReleaseRtmp(d, o)
  \/ \E d \in Cameras, s \in {"web", "rtmp"} : Touch(d, s)
  \/ \E d \in Cameras : IdlePasses(d) \/ IdleFires(d) \/ GraceFires(d)
  \/ Destroy
  \/ \E d \in Cameras : MqttChanges(d)

SessionSpec == SessionInit /\ [][SessionNext]_sessionVars

(***************************************************************************)
(* Properties.                                                             *)
(***************************************************************************)

(* Type invariant: the records the map holds.                              *)
SessionTypeOK ==
  /\ talk \in [Cameras -> CameraTalk]
  /\ mqtt \in [Cameras -> BOOLEAN]
  /\ speaker \in [Cameras -> BOOLEAN]

(* The cached holder is the one the owner sets determine, whatever order   *)
(* of claims, releases and timeouts led here: apply is never forgotten.    *)
HolderCurrent == \A d \in Cameras : talk[d].holder = NextHolder(talk[d])

(* "One speaker owner per camera": at most one browser owns a camera.      *)
OneBrowser == \A d \in Cameras : \A o, p \in talk[d].web : o = p

(* The speaker is commanded on only while somebody holds the floor or the  *)
(* grace timer that will switch it off is running; it is on for every      *)
(* holder.  A lost timer would leave the camera's speaker on for good.     *)
SpeakerWatched ==
  \A d \in Cameras :
    talk[d].speakerOn <=> (talk[d].holder # "none" \/ talk[d].offTimer)

(* A browser that holds the floor is watched by the idle timer, and nobody *)
(* else is: a killed tab cannot keep the floor, an RTMP publisher is never *)
(* timed out.                                                              *)
BrowserWatched ==
  \A d \in Cameras : talk[d].holder = "web" <=> talk[d].idle # "off"

(* The browser's claim yields to RTMP and to another browser: a browser    *)
(* becomes an owner only of a camera with no owner at all before the step. *)
WebNeverTakes ==
  [][\A d \in Cameras :
       talk'[d].web \ talk[d].web # {} => talk[d].web = {} /\ talk[d].rtmp = {}]_sessionVars

(* The hand-over from one holder to the next does not click the speaker:   *)
(* an off command leaves only after a step in which nobody held the floor, *)
(* or when the whole service goes down.                                    *)
NoClick ==
  [][\A d \in Cameras :
       talk[d].speakerOn /\ ~talk'[d].speakerOn =>
         \/ talk[d].holder = "none" /\ talk'[d].holder = "none"
         \/ \A e \in Cameras : talk'[e] = NoTalk]_sessionVars

(* The floor as a listener at the camera sees it (module TalkFloor).       *)
Floor == INSTANCE TalkFloor WITH
           floor <- [d \in Cameras |-> talk[d].holder],
           mic   <- [d \in Cameras |-> talk[d].speakerOn]

(* The service implements the floor: who is heard, and when the speaker is *)
(* on, follow the abstract rules.                                          *)
ImplementsFloor == Floor!Spec
=============================================================================
