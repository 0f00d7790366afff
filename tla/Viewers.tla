------------------------------- MODULE Viewers -------------------------------
(***************************************************************************)
(* Watching a camera in the browser: the player's effect on the page       *)
(* (bridge/apps/web/src/components/VideoPlayerModal.tsx), the viewer       *)
(* sessions of the bridge server (streaming/browser-webrtc.service.ts),    *)
(* the engine's command queue (engine/native-engine.ts) and the viewer's   *)
(* peer in the engine (native/src/webrtc/browser_peer.cpp).                *)
(*                                                                         *)
(* Every run of the effect is an attempt: it makes an offer, posts it,     *)
(* waits for the answer and retries by a timer that makes the next         *)
(* attempt.  A post creates one session, named here by its attempt.        *)
(* Requests and their answers travel on their own and overtake each other; *)
(* the engine's commands and events keep their order.                      *)
(***************************************************************************)
EXTENDS Naturals, Sequences, FiniteSets

CONSTANTS
  MaxAttempts,  (* bound: runs of the effect                               *)
  MaxLosses,    (* bound: attempts that lose a request or their page       *)
  MaxDeaths     (* bound: deaths of the engine's process                   *)

ASSUME ViewersAssumption ==
  MaxAttempts \in Nat \ {0} /\ MaxLosses \in Nat /\ MaxDeaths \in Nat

Attempts == 1..MaxAttempts

VARIABLES
  isOpen,       (* the player is open                                      *)
  viewerKey,    (* its latest attempt, 0 before the first                  *)
  page,         (* the phase of each attempt                               *)
  retry,        (* the latest attempt's reconnectTimer is set              *)
  strays,       (* attempts with a reconnect timer nothing can clear       *)
  media,        (* the latest attempt's mediaTimer is set                  *)
  wire,         (* requests on their way to the server                     *)
  answers,      (* answers to posts on their way to the page               *)
  lost,         (* attempts that lost a request, an answer or their page   *)
  sessions,     (* the server's sessions                                   *)
  create,       (* how far the handler of each attempt's post is           *)
  ffmpeg,       (* sessions whose ffmpeg runs and was not told to stop     *)
  overtaken,    (* history: sessions stopped while their start was pending *)
  process,      (* the engine's process is not null                        *)
  isReady,      (* isReady                                                 *)
  pending,      (* pendingCommands                                         *)
  child,        (* the process itself: none, booting, serving or dead      *)
  stdin,        (* its unread commands                                     *)
  out,          (* its unread events                                       *)
  deaths,       (* deaths of the process so far                            *)
  peer          (* viewers_: the peer of each session                      *)

pageVars == <<isOpen, viewerKey, page, retry, strays, media>>
netVars == <<wire, answers, lost>>
serverVars == <<sessions, create, ffmpeg, overtaken>>
pipeVars == <<process, isReady, pending, child, stdin, out, deaths>>
vars == <<pageVars, netVars, serverVars, pipeVars, peer>>

Start(a) == [cmd |-> "start_viewer", id |-> a]
StopIt(a) == [cmd |-> "stop_viewer", id |-> a]
Commands == [cmd : {"start_viewer", "stop_viewer"}, id : Attempts]

Offer(a) == [event |-> "viewer_offer", id |-> a]
Closed(a) == [event |-> "viewer_state", id |-> a]
Ready == [event |-> "ready", id |-> 0]
Events == [event : {"viewer_offer", "viewer_state"}, id : Attempts] \cup {Ready}

Post(a) == [op |-> "post", id |-> a]
Delete(a) == [op |-> "delete", id |-> a]
Answer(a, ok) == [id |-> a, ok |-> ok]

Phases == {"unused", "offering", "posted", "watching", "live", "broken", "over"}

TypeOK ==
  /\ isOpen \in BOOLEAN /\ retry \in BOOLEAN /\ media \in BOOLEAN
  /\ viewerKey \in 0..MaxAttempts
  /\ page \in [Attempts -> Phases] /\ strays \subseteq Attempts
  /\ wire \subseteq [op : {"post", "delete"}, id : Attempts]
  /\ answers \subseteq [id : Attempts, ok : BOOLEAN]
  /\ lost \subseteq Attempts /\ sessions \subseteq Attempts
  /\ create \in [Attempts -> {"no", "waiting", "offered", "done"}]
  /\ ffmpeg \subseteq Attempts /\ overtaken \subseteq Attempts
  /\ process \in BOOLEAN /\ isReady \in BOOLEAN
  /\ pending \in Seq(Commands) /\ stdin \in Seq(Commands)
  /\ out \in Seq(Events)
  /\ child \in {"none", "booting", "serving", "dead"}
  /\ deaths \in 0..MaxDeaths
  /\ peer \in [Attempts -> {"none", "gathering", "answered", "failed"}]

Init ==
  /\ isOpen = FALSE /\ retry = FALSE /\ media = FALSE
  /\ viewerKey = 0
  /\ page = [a \in Attempts |-> "unused"] /\ strays = {}
  /\ wire = {} /\ answers = {} /\ lost = {} /\ sessions = {}
  /\ create = [a \in Attempts |-> "no"] /\ ffmpeg = {} /\ overtaken = {}
  /\ process \in BOOLEAN /\ isReady = FALSE
  /\ pending = <<>> /\ stdin = <<>> /\ out = <<>>
  /\ child = (IF process THEN "booting" ELSE "none") /\ deaths = 0
  /\ peer = [a \in Attempts |-> "none"]

(***************************************************************************)
(* The page.  An attempt is disposed when the effect's cleanup ran, or the *)
(* page is gone.                                                           *)
(***************************************************************************)
Current(a) == isOpen /\ a = viewerKey

(* sessionId is set: the answer to the post was taken.                     *)
KnowsSession(a) == page[a] \in {"watching", "live", "broken"}

(* The cleanup closes the peer and stops the session if it knows it: what  *)
(* has been posted goes on.                                                *)
CleanedUp == IF KnowsSession(viewerKey) THEN "over" ELSE page[viewerKey]
CleanupStops == IF KnowsSession(viewerKey) THEN {Delete(viewerKey)} ELSE {}

OpenPlayer ==
  /\ ~isOpen /\ viewerKey < MaxAttempts
  /\ isOpen' = TRUE /\ viewerKey' = viewerKey + 1
  /\ page' = [page EXCEPT ![viewerKey + 1] = "offering"]
  /\ UNCHANGED <<retry, strays, media, netVars, serverVars, pipeVars, peer>>

ClosePlayer ==
  /\ isOpen
  /\ isOpen' = FALSE /\ retry' = FALSE /\ media' = FALSE
  /\ page' = [page EXCEPT ![viewerKey] = CleanedUp]
  /\ wire' = wire \cup CleanupStops
  /\ UNCHANGED <<viewerKey, strays, answers, lost, serverVars, pipeVars, peer>>

(* The page goes away without a cleanup.                                   *)
LosePage ==
  /\ isOpen /\ Cardinality(lost \cup {viewerKey}) <= MaxLosses
  /\ isOpen' = FALSE /\ retry' = FALSE /\ media' = FALSE /\ strays' = {}
  /\ page' = [page EXCEPT ![viewerKey] = "over"]
  /\ lost' = lost \cup {viewerKey}
  /\ UNCHANGED <<viewerKey, wire, answers, serverVars, pipeVars, peer>>

(* viewerKey grows: the cleanup runs, and the effect again.                *)
NextAttempt ==
  /\ isOpen /\ viewerKey < MaxAttempts
  /\ viewerKey' = viewerKey + 1 /\ retry' = FALSE /\ media' = FALSE
  /\ page' = [page EXCEPT ![viewerKey] = CleanedUp, ![viewerKey + 1] = "offering"]
  /\ wire' = wire \cup CleanupStops
  /\ UNCHANGED <<isOpen, answers, lost, serverVars, pipeVars, peer>>

RetryTimer == retry /\ NextAttempt /\ UNCHANGED strays

(* A closed player does not run the effect.                                *)
StrayTimer(a) ==
  /\ a \in strays
  /\ strays' = strays \ {a}
  /\ \/ NextAttempt
     \/ ~isOpen /\ UNCHANGED <<isOpen, viewerKey, page, retry, media, netVars,
                               serverVars, pipeVars, peer>>

(* The attempt failed: unless it is disposed a reconnect timer is set; one *)
(* that was pending stays pending, but reconnectTimer forgets it.          *)
SetRetry(a) ==
  /\ retry' = (retry \/ Current(a))
  /\ strays' = IF retry /\ Current(a) THEN strays \cup {a} ELSE strays

SendPost(a) ==
  /\ page[a] = "offering"
  /\ page' = [page EXCEPT ![a] = "posted"]
  /\ wire' = wire \cup {Post(a)}
  /\ UNCHANGED <<isOpen, viewerKey, retry, strays, media, answers, lost,
                 serverVars, pipeVars, peer>>

(* No offer can be made, or the peer was closed meanwhile.                 *)
NoOffer(a) ==
  /\ page[a] = "offering"
  /\ page' = [page EXCEPT ![a] = "over"] /\ SetRetry(a)
  /\ UNCHANGED <<isOpen, viewerKey, media, netVars, serverVars, pipeVars, peer>>

(* Faulty variant: an answer after the cleanup is taken like any other.    *)
CreatedUnasked(a) ==
  /\ Answer(a, TRUE) \in answers /\ page[a] = "posted"
  /\ answers' = answers \ {Answer(a, TRUE)}
  /\ page' = [page EXCEPT ![a] = "watching"] /\ media' = TRUE
  /\ UNCHANGED <<isOpen, viewerKey, retry, strays, wire, lost, serverVars, pipeVars, peer>>

(* The answer: a disposed attempt stops the session it did not need; the   *)
(* browser may refuse the answer.                                          *)
Created(a) ==
  /\ Answer(a, TRUE) \in answers /\ page[a] = "posted"
  /\ answers' = answers \ {Answer(a, TRUE)}
  /\ \/ /\ ~Current(a)
        /\ page' = [page EXCEPT ![a] = "over"] /\ wire' = wire \cup {Delete(a)}
        /\ UNCHANGED <<retry, strays, media>>
     \/ /\ Current(a)
        /\ page' = [page EXCEPT ![a] = "watching"] /\ media' = TRUE
        /\ UNCHANGED <<retry, strays, wire>>
     \/ /\ Current(a)
        /\ page' = [page EXCEPT ![a] = "broken"] /\ SetRetry(a)
        /\ UNCHANGED <<media, wire>>
  /\ UNCHANGED <<isOpen, viewerKey, lost, serverVars, pipeVars, peer>>

Refused(a) ==
  /\ Answer(a, FALSE) \in answers /\ page[a] = "posted"
  /\ answers' = answers \ {Answer(a, FALSE)}
  /\ page' = [page EXCEPT ![a] = "over"] /\ SetRetry(a)
  /\ UNCHANGED <<isOpen, viewerKey, media, wire, lost, serverVars, pipeVars, peer>>

Connects(a) ==
  /\ page[a] = "watching" /\ peer[a] = "answered"
  /\ page' = [page EXCEPT ![a] = "live"]
  /\ UNCHANGED <<isOpen, viewerKey, retry, strays, media, netVars, serverVars, pipeVars, peer>>

(* The connection failed, or the other end closed it.                      *)
ConnectionFails(a) ==
  /\ page[a] \in {"watching", "live"}
  /\ page' = [page EXCEPT ![a] = "broken"] /\ SetRetry(a)
  /\ UNCHANGED <<isOpen, viewerKey, media, netVars, serverVars, pipeVars, peer>>

(* Nothing after 12 seconds.                                               *)
MediaTimer ==
  /\ media /\ media' = FALSE
  /\ IF page[viewerKey] = "live"
     THEN UNCHANGED <<page, retry, strays>>
     ELSE page' = [page EXCEPT ![viewerKey] = "broken"] /\ SetRetry(viewerKey)
  /\ UNCHANGED <<isOpen, viewerKey, netVars, serverVars, pipeVars, peer>>

(* A request or an answer is lost: the fetch of a post fails, that of a    *)
(* delete is ignored.                                                      *)
Lose(a) ==
  /\ Cardinality(lost \cup {a}) <= MaxLosses
  /\ lost' = lost \cup {a}
  /\ \/ /\ Delete(a) \in wire /\ wire' = wire \ {Delete(a)}
        /\ UNCHANGED <<answers, page, retry, strays>>
     \/ /\ page[a] = "posted" /\ wire' = wire \ {Post(a)}
        /\ page' = [page EXCEPT ![a] = "over"] /\ SetRetry(a) /\ UNCHANGED answers
  /\ UNCHANGED <<isOpen, viewerKey, media, serverVars, pipeVars, peer>>

(***************************************************************************)
(* The server.                                                             *)
(***************************************************************************)
(* sendLine: written to no process, a command is dropped.                  *)
SendLine(c) == stdin' = IF process THEN Append(stdin, c) ELSE stdin

(* start: the process may not come to be.                                  *)
StartEngine ==
  \/ UNCHANGED <<process, child>>
  \/ ~process /\ process' = TRUE /\ child' = "booting"

(* sendWhenReady keeps the command and starts the process if there is none.*)
SendWhenReady(c) ==
  \/ isReady /\ SendLine(c) /\ UNCHANGED <<pending, process, child>>
  \/ ~isReady /\ pending' = Append(pending, c) /\ StartEngine /\ UNCHANGED stdin

IsPending(a) == \E i \in 1..Len(pending) : pending[i] = Start(a)

(* stop(id): the session leaves the map, its timer and its ffmpeg with it. *)
Stop(a) ==
  IF a \notin sessions
  THEN UNCHANGED <<sessions, ffmpeg, overtaken, stdin>>
  ELSE /\ sessions' = sessions \ {a} /\ ffmpeg' = ffmpeg \ {a}
       /\ overtaken' = IF IsPending(a) THEN overtaken \cup {a} ELSE overtaken
       /\ SendLine(StopIt(a))

Create(a) ==
  /\ Post(a) \in wire
  /\ wire' = wire \ {Post(a)}
  /\ sessions' = sessions \cup {a} /\ create' = [create EXCEPT ![a] = "waiting"]
  /\ SendWhenReady(Start(a))
  /\ UNCHANGED <<pageVars, answers, lost, ffmpeg, overtaken, isReady, out, deaths, peer>>

(* The camera is not in the database, or the body is no offer.             *)
Refuse(a) ==
  /\ Post(a) \in wire
  /\ wire' = wire \ {Post(a)} /\ answers' = answers \cup {Answer(a, FALSE)}
  /\ UNCHANGED <<pageVars, lost, serverVars, pipeVars, peer>>

(* No offer within 8 seconds.                                              *)
OfferTimeout(a) ==
  /\ create[a] = "waiting"
  /\ create' = [create EXCEPT ![a] = "done"]
  /\ answers' = answers \cup {Answer(a, FALSE)}
  /\ Stop(a)
  /\ UNCHANGED <<pageVars, wire, lost, process, isReady, pending, child, out, deaths, peer>>

(* Faulty variant: the session is not looked up again.                     *)
StreamAnyway(a) ==
  /\ create[a] = "offered"
  /\ create' = [create EXCEPT ![a] = "done"]
  /\ ffmpeg' = ffmpeg \cup {a}
  /\ answers' = answers \cup {Answer(a, TRUE)}
  /\ UNCHANGED <<pageVars, wire, lost, sessions, overtaken, pipeVars, peer>>

(* create goes on after the offer: the session may be gone by now.         *)
Stream(a) ==
  /\ create[a] = "offered"
  /\ create' = [create EXCEPT ![a] = "done"]
  /\ ffmpeg' = IF a \in sessions THEN ffmpeg \cup {a} ELSE ffmpeg
  /\ answers' = answers \cup {Answer(a, a \in sessions)}
  /\ UNCHANGED <<pageVars, wire, lost, sessions, overtaken, pipeVars, peer>>

StopRequest(a) ==
  /\ Delete(a) \in wire
  /\ wire' = wire \ {Delete(a)}
  /\ Stop(a)
  /\ UNCHANGED <<pageVars, answers, lost, create, process, isReady, pending, child,
                 out, deaths, peer>>

(* Faulty variant: the timer is cleared once ffmpeg streams.               *)
CleanupUnlessStreaming(a) ==
  /\ a \in sessions \ ffmpeg
  /\ Stop(a)
  /\ UNCHANGED <<pageVars, netVars, create, process, isReady, pending, child, out,
                 deaths, peer>>

(* Ten minutes after the session was made.                                 *)
CleanupTimer(a) ==
  /\ a \in sessions
  /\ Stop(a)
  /\ UNCHANGED <<pageVars, netVars, create, process, isReady, pending, child, out,
                 deaths, peer>>

FfmpegEnds(a) ==
  /\ a \in ffmpeg
  /\ Stop(a)
  /\ UNCHANGED <<pageVars, netVars, create, process, isReady, pending, child, out,
                 deaths, peer>>

(* One event of the engine.  An offer nobody waits for is ignored.         *)
HandleReady ==
  /\ out # <<>> /\ Head(out) = Ready
  /\ out' = Tail(out) /\ isReady' = TRUE
  /\ stdin' = stdin \o pending /\ pending' = <<>>
  /\ UNCHANGED <<pageVars, netVars, serverVars, process, child, deaths, peer>>

HandleOffer(a) ==
  /\ out # <<>> /\ Head(out) = Offer(a)
  /\ out' = Tail(out)
  /\ create' = [create EXCEPT ![a] = IF @ = "waiting" THEN "offered" ELSE @]
  /\ UNCHANGED <<pageVars, netVars, sessions, ffmpeg, overtaken, process, isReady,
                 pending, child, stdin, deaths, peer>>

HandleClosed(a) ==
  /\ out # <<>> /\ Head(out) = Closed(a)
  /\ out' = Tail(out)
  /\ Stop(a)
  /\ UNCHANGED <<pageVars, netVars, create, process, isReady, pending, child,
                 deaths, peer>>

(* The exit of the process: what it had still to say is not read.          *)
HandleExit ==
  /\ child = "dead"
  /\ child' = "none" /\ process' = FALSE /\ isReady' = FALSE
  /\ stdin' = <<>> /\ out' = <<>>
  /\ UNCHANGED <<pageVars, netVars, serverVars, pending, deaths, peer>>

(***************************************************************************)
(* The engine's process.                                                   *)
(***************************************************************************)
(* run_stdio says ready before it reads its first command.                 *)
Boot ==
  /\ child = "booting"
  /\ child' = "serving" /\ out' = Append(out, Ready)
  /\ UNCHANGED <<pageVars, netVars, serverVars, process, isReady, pending, stdin,
                 deaths, peer>>

Die ==
  /\ child \in {"booting", "serving"} /\ deaths < MaxDeaths
  /\ child' = "dead" /\ deaths' = deaths + 1
  /\ peer' = [a \in Attempts |-> "none"]
  /\ UNCHANGED <<pageVars, netVars, serverVars, process, isReady, pending, stdin, out>>

(* No socket can be bound, or the offer is rejected: the peer that was     *)
(* made for it is destroyed, and closing it may be reported.               *)
Rejected(a) ==
  /\ peer' = [peer EXCEPT ![a] = "none"]
  /\ out' \in {out, Append(out, Closed(a))}

(* start_viewer.                                                           *)
HandleStart(a) ==
  /\ child = "serving" /\ stdin # <<>> /\ Head(stdin) = Start(a)
  /\ stdin' = Tail(stdin)
  /\ \/ peer' = [peer EXCEPT ![a] = "gathering"] /\ out' = out
     \/ Rejected(a)
  /\ UNCHANGED <<pageVars, netVars, serverVars, process, isReady, pending, child, deaths>>

(* stop_viewer destroys the peer, if there is one.                         *)
HandleStop(a) ==
  /\ child = "serving" /\ stdin # <<>> /\ Head(stdin) = StopIt(a)
  /\ stdin' = Tail(stdin)
  /\ peer' = [peer EXCEPT ![a] = "none"]
  /\ out' \in IF peer[a] = "none" THEN {out} ELSE {out, Append(out, Closed(a))}
  /\ UNCHANGED <<pageVars, netVars, serverVars, process, isReady, pending, child, deaths>>

(* answer_sent_ is taken once, by the end of the gathering or by the timer *)
(* thread.                                                                 *)
PeerAnswers(a) ==
  /\ peer[a] = "gathering"
  /\ peer' = [peer EXCEPT ![a] = "answered"]
  /\ out' = Append(out, Offer(a))
  /\ UNCHANGED <<pageVars, netVars, serverVars, process, isReady, pending, child,
                 stdin, deaths>>

(* The connection failed or was closed by the page.                        *)
PeerFails(a) ==
  /\ peer[a] = "answered"
  /\ peer' = [peer EXCEPT ![a] = "failed"]
  /\ out' = Append(out, Closed(a))
  /\ UNCHANGED <<pageVars, netVars, serverVars, process, isReady, pending, child,
                 stdin, deaths>>

(***************************************************************************)
(* Next, by actors.                                                        *)
(***************************************************************************)
Page ==
  \/ OpenPlayer \/ ClosePlayer \/ LosePage \/ RetryTimer \/ MediaTimer
  \/ \E a \in Attempts :
       \/ StrayTimer(a) \/ SendPost(a) \/ NoOffer(a) \/ Created(a) \/ Refused(a)
       \/ Connects(a) \/ ConnectionFails(a) \/ Lose(a)

Server ==
  \/ HandleReady \/ HandleExit
  \/ \E a \in Attempts :
       \/ Create(a) \/ Refuse(a) \/ OfferTimeout(a) \/ Stream(a) \/ StopRequest(a)
       \/ CleanupTimer(a) \/ FfmpegEnds(a) \/ HandleOffer(a) \/ HandleClosed(a)

Engine ==
  \/ Boot \/ Die
  \/ \E a \in Attempts :
       HandleStart(a) \/ HandleStop(a) \/ PeerAnswers(a) \/ PeerFails(a)

Next == Page \/ Server \/ Engine

Spec == Init /\ [][Next]_vars

(* The server's loop and timers run; the engine boots, reads its commands  *)
(* in order and reports.  Pages and networks owe nothing.                  *)
Fairness ==
  /\ WF_vars(HandleReady) /\ WF_vars(HandleExit) /\ WF_vars(Boot)
  /\ \A a \in Attempts :
       /\ WF_vars(OfferTimeout(a)) /\ WF_vars(Stream(a)) /\ WF_vars(CleanupTimer(a))
       /\ WF_vars(HandleOffer(a)) /\ WF_vars(HandleClosed(a))
       /\ WF_vars(HandleStart(a)) /\ WF_vars(HandleStop(a))

FairSpec == Spec /\ Fairness

(***************************************************************************)
(* Properties.                                                             *)
(***************************************************************************)
StopComing(a) == \E i \in 1..Len(stdin) : stdin[i] = StopIt(a)

(* Whatever the order of timeouts, failures and exits: an ffmpeg that runs *)
(* belongs to a session, and so does a peer in the engine, or its stop is  *)
(* on the way.  The one exception the code leaves is a session stopped     *)
(* while its start was still in pendingCommands: the stop is written at    *)
(* once and overtakes it (browser-webrtc.service.ts:88,                    *)
(* native-engine.ts:384).                                                  *)
Owned ==
  /\ ffmpeg \subseteq sessions
  /\ \A a \in Attempts :
       peer[a] # "none" => a \in sessions \/ StopComing(a) \/ a \in overtaken

(* A page that is through with an attempt leaves no session behind,        *)
(* whenever the cleanup runs between the offer and the answer: the session *)
(* of a disposed attempt is being stopped, or its answer is still out.     *)
(* (VideoPlayerModal.tsx:107, the disposed check after the await.)         *)
LetsGo ==
  \A a \in sessions \ lost :
    ~Current(a) => page[a] = "posted" \/ Delete(a) \in wire

(* No peer stays in the engine for ever, even if the page is lost, the     *)
(* engine dies or the peer never connects: the cleanup timer is the last   *)
(* resort.                                                                 *)
PeersReaped ==
  \A a \in Attempts : peer[a] # "none" ~> peer[a] = "none" \/ a \in overtaken
=============================================================================
