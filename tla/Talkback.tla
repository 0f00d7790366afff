------------------------------ MODULE Talkback ------------------------------
(***************************************************************************)
(* The actors around TalkbackSessionService, composed with it:             *)
(*   - the WebSocket gateway (ws/ws.gateway.ts), one talk session per      *)
(*     browser connection;                                                 *)
(*   - the RTMP ingest (streaming/rtmp.service.ts): connections publish a  *)
(*     stream name, the publish handler awaits the camera look-up, claims  *)
(*     the floor and starts an ffmpeg relay kept under the stream's name;  *)
(*     unpublish ends the relay's input and the relay's own exit is what   *)
(*     releases the floor.                                                 *)
(*                                                                         *)
(* The await in the publish handler and the life of the ffmpeg processes   *)
(* are where the two sides interleave.                                     *)
(***************************************************************************)
EXTENDS TalkbackSession

CONSTANTS
  Conns,        (* RTMP connections                                        *)
  Match,        (* the cameras the look-up of a name may return            *)
  MaxRelays,    (* bound: ffmpeg relays alive at once                      *)
  MaxResolving, (* bound: publish handlers of one name awaiting at once    *)
  Polite        (* publishers publish once per connection and do not       *)
                (* leave before their publish handler has finished         *)

None == "none"

ASSUME TalkbackAssumption ==
  /\ None \notin Cameras /\ None \notin Names
  /\ Match \in [Names -> SUBSET Cameras]
  /\ MaxRelays \in Nat /\ MaxResolving \in Nat
  /\ Polite \in BOOLEAN

Relays == 1..MaxRelays

VARIABLES
  client,       (* a browser connection: "open", "ghost" (killed without   *)
                (* a close event yet) or "closed"                          *)
  sessions,     (* activeTalkSessions: the camera a client talks to        *)
  conn,         (* the stream a connection publishes                       *)
  resolving,    (* publish handlers inside await resolveCamera, per name   *)
  pending,      (* the keys of pendingAudio                                *)
  relay,        (* activeRelays: name -> relay, 0 when there is none       *)
  proc          (* the ffmpeg processes, stopped ones included; "dud" is   *)
                (* one that could not be spawned                           *)

gatewayVars == <<client, sessions>>
rtmpVars == <<conn, resolving, pending, relay, proc>>
vars == <<talk, mqtt, speaker, client, sessions, conn, resolving, pending, relay, proc>>

NoProc == [phase |-> "gone", name |-> None, did |-> None]

Init ==
  /\ SessionInit
  /\ client = [k \in Clients |-> "closed"]
  /\ sessions = [k \in Clients |-> None]
  /\ conn = [x \in Conns |-> None]
  /\ resolving = [n \in Names |-> 0]
  /\ pending = {}
  /\ relay = [n \in Names |-> 0]
  /\ proc = [r \in Relays |-> NoProc]

(***************************************************************************)
(* The gateway.  The "state" event that apply emits is handled inside the  *)
(* same call: sessions of the camera are dropped unless the browser side   *)
(* holds it.                                                               *)
(***************************************************************************)
AfterStateIgnored(sess, d, c) == sess   (* faulty: nobody listens          *)

AfterState(sess, d, c) ==
  [k \in Clients |-> IF sess[k] = d /\ c.holder # "web" THEN None ELSE sess[k]]

(* The map and the sessions after stopTalk's release by client k of d.     *)
TalkReleased(t, d, k) == [t EXCEPT ![d] = WebReleased(@, k)]

(* The session is deleted before or after the release: no difference, the  *)
(* release's state event may only delete it too.                           *)
SessionsReleased(t, sess, d, k) ==
  [AfterState(sess, d, TalkReleased(t, d, k)[d]) EXCEPT ![k] = None]

Connect(k) ==
  /\ client[k] = "closed"
  /\ client' = [client EXCEPT ![k] = "open"]
  /\ UNCHANGED <<talk, mqtt, speaker, sessions, rtmpVars>>

(* startTalk: an earlier session of the client is released first, whatever *)
(* becomes of the new claim.                                               *)
StartTalk(k, d) ==
  /\ client[k] = "open"
  /\ LET e  == sessions[k]
         t1 == IF e = None THEN talk ELSE TalkReleased(talk, e, k)
         s1 == IF e = None THEN sessions ELSE SessionsReleased(talk, sessions, e, k)
         t2 == [t1 EXCEPT ![d] = WebClaimed(@, k)]
     IN  /\ talk' = t2
         /\ sessions' = IF WebDenied(t1[d], k)
                        THEN s1
                        ELSE [AfterState(s1, d, t2[d]) EXCEPT ![k] = d]
  /\ SendSpeaker
  /\ UNCHANGED <<mqtt, client, rtmpVars>>

StopSession(k) ==
  IF sessions[k] = None
  THEN UNCHANGED <<talk, sessions, speaker>>
  ELSE /\ talk' = TalkReleased(talk, sessions[k], k)
       /\ sessions' = SessionsReleased(talk, sessions, sessions[k], k)
       /\ SendSpeaker

StopTalk(k) ==
  /\ client[k] = "open"
  /\ StopSession(k)
  /\ UNCHANGED <<mqtt, client, rtmpVars>>

(* handleAudioData: a packet of the client that holds the floor keeps the  *)
(* idle timer away.                                                        *)
Audio(k) ==
  /\ client[k] = "open" /\ sessions[k] # None
  /\ ShouldSend(sessions[k], "web")
  /\ Touch(sessions[k], "web")
  /\ UNCHANGED <<gatewayVars, rtmpVars>>

(* The tab is killed or the network goes: no close event yet.              *)
Ghost(k) ==
  /\ client[k] = "open"
  /\ client' = [client EXCEPT ![k] = "ghost"]
  /\ UNCHANGED <<talk, mqtt, speaker, sessions, rtmpVars>>

Disconnect(k) ==
  /\ client[k] \in {"open", "ghost"}
  /\ client' = [client EXCEPT ![k] = "closed"]
  /\ StopSession(k)
  /\ UNCHANGED <<mqtt, rtmpVars>>

(***************************************************************************)
(* The timers of the session service, seen by the gateway too.             *)
(***************************************************************************)
PacketsStop(d) == IdlePasses(d) /\ UNCHANGED <<gatewayVars, rtmpVars>>

BrowserTimesOut(d) ==
  /\ IdleFires(d)
  /\ sessions' = AfterState(sessions, d, talk'[d])
  /\ UNCHANGED <<client, rtmpVars>>

GraceEnds(d) == GraceFires(d) /\ UNCHANGED <<gatewayVars, rtmpVars>>

MqttTurns(d) == MqttChanges(d) /\ UNCHANGED <<gatewayVars, rtmpVars>>

(***************************************************************************)
(* RTMP connections.                                                       *)
(***************************************************************************)
(* The "publish" command and the synchronous part of its handler.          *)
Publish(x, n) ==
  /\ Polite => conn[x] = None
  /\ resolving[n] < MaxResolving
  /\ conn' = [conn EXCEPT ![x] = n]
  /\ pending' = pending \union {n}
  /\ resolving' = [resolving EXCEPT ![n] = @ + 1]
  /\ UNCHANGED <<talk, mqtt, speaker, gatewayVars, relay, proc>>

Writable(r) == proc[r].phase = "live"

(* proc with relay r's input closed and its process asked to end.          *)
Ended(p, r) ==
  IF r # 0 /\ p[r].phase = "live" THEN [p EXCEPT ![r].phase = "ending"] ELSE p

(* Faulty variant: the relay goes without giving the floor back.           *)
StopRelayKeepsFloor(n, p) ==
  /\ relay' = [relay EXCEPT ![n] = 0]
  /\ proc' = Ended(p, relay[n])
  /\ UNCHANGED <<talk, speaker, sessions>>

(* stopRelay with release; nothing when the name has no relay.             *)
StopRelay(n, p) ==
  LET r == relay[n]
      d == proc[r].did
  IN  IF r = 0
      THEN /\ proc' = p
           /\ UNCHANGED <<talk, speaker, sessions, relay>>
      ELSE /\ relay' = [relay EXCEPT ![n] = 0]
           /\ proc' = Ended(p, r)
           /\ talk' = [talk EXCEPT ![d] = RtmpReleased(@, n)]
           /\ sessions' = IF talk[d].tracked THEN AfterState(sessions, d, talk'[d])
                                             ELSE sessions
           /\ SendSpeaker

(* teardown of a connection that publishes, and the unpublish handler: a   *)
(* relay that still takes input only has its input ended.                  *)
Unpublish(x) ==
  LET n == conn[x]
  IN  /\ n # None
      /\ Polite => resolving[n] = 0
      /\ conn' = [conn EXCEPT ![x] = None]
      /\ pending' = pending \ {n}
      /\ IF relay[n] # 0 /\ Writable(relay[n])
         THEN /\ proc' = Ended(proc, relay[n])
              /\ UNCHANGED <<talk, speaker, sessions, relay>>
         ELSE StopRelay(n, proc)
      /\ UNCHANGED <<mqtt, client, resolving>>

(* A number no relay has.  A dud takes it no longer than it is kept.       *)
Free(r) ==
  /\ proc[r].phase \in {"gone", "dud"}
  /\ \A n \in Names : relay[n] # r

(* startRelay: an older relay of the name is stopped without releasing the *)
(* floor, and the new ffmpeg is kept under the name.  One that cannot be   *)
(* spawned is kept as well: its error is logged, it takes no input and it  *)
(* never exits, so it stays until its publisher leaves.                    *)
StartRelay(n, d) ==
  \E r \in Relays, p \in {"live", "dud"} :
    /\ Free(r)
    /\ proc' = [Ended(proc, relay[n]) EXCEPT
                  ![r] = [phase |-> p, name |-> n, did |-> d]]
    /\ relay' = [relay EXCEPT ![n] = r]

(* The publish handler resumes with a camera that has a talkback port: the *)
(* name claims it, and its relay begins.                                   *)
ResolveCamera(n, d) ==
  /\ resolving[n] > 0
  /\ d \in Match[n]
  /\ StartRelay(n, d)
  /\ resolving' = [resolving EXCEPT ![n] = @ - 1]
  /\ pending' = pending \ {n}
  /\ talk' = [talk EXCEPT ![d] = RtmpClaimed(@, n)]
  /\ sessions' = AfterState(sessions, d, talk'[d])
  /\ SendSpeaker
  /\ UNCHANGED <<mqtt, client, conn>>

(* Faulty variant: the early return forgets the buffered audio.            *)
ResolveNothingKeepsAudio(n) ==
  /\ resolving[n] > 0
  /\ resolving' = [resolving EXCEPT ![n] = @ - 1]
  /\ UNCHANGED <<talk, mqtt, speaker, gatewayVars, conn, pending, relay, proc>>

(* ... or with no camera, or a camera without a talkback port.             *)
ResolveNothing(n) ==
  /\ resolving[n] > 0
  /\ resolving' = [resolving EXCEPT ![n] = @ - 1]
  /\ pending' = pending \ {n}
  /\ UNCHANGED <<talk, mqtt, speaker, gatewayVars, conn, relay, proc>>

(* ffmpeg exits: its input ended, it was killed, or it crashed.            *)
Exit(r) ==
  /\ proc[r].phase \in {"live", "ending"}
  /\ proc' = [proc EXCEPT ![r].phase = "exited"]
  /\ UNCHANGED <<talk, mqtt, speaker, gatewayVars, conn, resolving, pending, relay>>

(* The drain interval of the exit handler finds the queue empty: whatever  *)
(* relay the name has by now is stopped.                                   *)
Drain(r) ==
  /\ proc[r].phase = "exited"
  /\ StopRelay(proc[r].name, [proc EXCEPT ![r] = NoProc])
  /\ UNCHANGED <<mqtt, client, conn, resolving, pending>>

Gateway ==
  \E k \in Clients :
    \/ Connect(k) \/ StopTalk(k) \/ Audio(k) \/ Ghost(k) \/ Disconnect(k)
    \/ \E d \in Cameras : StartTalk(k, d)

Timers ==
  \E d \in Cameras : PacketsStop(d) \/ BrowserTimesOut(d) \/ GraceEnds(d) \/ MqttTurns(d)

Ingest ==
  \/ \E x \in Conns : Unpublish(x) \/ \E n \in Names : Publish(x, n)
  \/ \E n \in Names : ResolveNothing(n) \/ \E d \in Cameras : ResolveCamera(n, d)
  \/ \E r \in Relays : Exit(r) \/ Drain(r)

Next == Gateway \/ Timers \/ Ingest

Spec == Init /\ [][Next]_vars

(***************************************************************************)
(* What the event loop and the processes owe: an armed timer fires, a      *)
(* database look-up returns, ffmpeg ends once its input has ended, and the *)
(* paced queue of an exited relay empties.  People and networks owe        *)
(* nothing: a ghost may never be reported closed.                          *)
(***************************************************************************)
Fairness ==
  /\ \A d \in Cameras :
       WF_vars(PacketsStop(d)) /\ WF_vars(BrowserTimesOut(d)) /\ WF_vars(GraceEnds(d))
  /\ \A n \in Names : WF_vars(ResolveNothing(n) \/ \E d \in Cameras : ResolveCamera(n, d))
  /\ \A r \in Relays : WF_vars(proc[r].phase = "ending" /\ Exit(r)) /\ WF_vars(Drain(r))

FairSpec == Spec /\ Fairness

(***************************************************************************)
(* Properties.                                                             *)
(***************************************************************************)

(* Type invariant of the composition.                                      *)
TypeOK ==
  /\ SessionTypeOK
  /\ client \in [Clients -> {"open", "ghost", "closed"}]
  /\ sessions \in [Clients -> Cameras \union {None}]
  /\ conn \in [Conns -> Names \union {None}]
  /\ resolving \in [Names -> 0..MaxResolving]
  /\ pending \in SUBSET Names
  /\ relay \in [Names -> Relays \union {0}]
  /\ proc \in [Relays -> [phase : {"gone", "live", "dud", "ending", "exited"},
                          name : Names \union {None}, did : Cameras \union {None}]]

(* The gateway's sessions and the service's browser owners are the same    *)
(* relation: no browser is left an owner without a session that could      *)
(* release it, and no session sends packets it has no right to.            *)
SessionsOwn ==
  \A k \in Clients, d \in Cameras : sessions[k] = d <=> k \in talk[d].web

(* A stream name owns a camera exactly while a relay is kept under it: a   *)
(* restarted relay keeps the floor, a stopped one gives it back.           *)
RelaysOwn ==
  \A n \in Names, d \in Cameras :
    n \in talk[d].rtmp <=> relay[n] # 0 /\ proc[relay[n]].did = d

(* Audio is buffered only while a publish handler will come and take it.   *)
PendingAudioTaken == \A n \in pending : resolving[n] > 0

(* A tab killed without talk_stop gives the floor back, with no close      *)
(* event, once RTMP publishers stop coming and going: every claim and      *)
(* release of theirs restarts the browser's idle period.                   *)
GhostGone == \A k \in Clients : client[k] = "ghost" ~> (sessions[k] = None \/ client[k] # "ghost")

GhostReleased == <>[][UNCHANGED rtmpVars]_rtmpVars => GhostGone

(* A camera that nobody holds goes quiet, or somebody takes the floor.     *)
GoesQuiet ==
  \A d \in Cameras :
    talk[d].holder = "none" ~> (~talk[d].speakerOn \/ talk[d].holder # "none")

(* The floor comes back from RTMP: once nobody publishes a name, it is     *)
(* released or somebody publishes it again.                                *)
PublisherReleased ==
  \A n \in Names :
    (\A x \in Conns : conn[x] # n) ~>
      (\/ \E x \in Conns : conn[x] = n
       \/ \A d \in Cameras : n \notin talk[d].rtmp)
=============================================================================
