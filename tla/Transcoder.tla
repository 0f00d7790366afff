----------------------------- MODULE Transcoder -----------------------------
(***************************************************************************)
(* The public stream of one camera                                         *)
(* (bridge/apps/server/src/streaming/transcoder.service.ts): one ffmpeg    *)
(* process, live or showing the fallback card, writes to the RTP ports of  *)
(* a relay in the native engine.  Module NativeEngine models the engine    *)
(* and its command queue.                                                  *)
(*                                                                         *)
(* The camera service (cameras.service.ts) calls the transcoder from event *)
(* handlers that read the camera's row first and go on after an await:     *)
(* the row they go on with may be old, and the camera deleted.             *)
(*                                                                         *)
(* A session that left the map has stopped set for good, so the closures   *)
(* of its processes and timers return at once: only the current session is *)
(* modelled.  A process that was killed is not heard any more.             *)
(***************************************************************************)
EXTENDS NativeEngine, FiniteSets

CONSTANT MaxChanges     (* bound: changes of the camera's port             *)

ASSUME TranscoderAssumption == MaxChanges \in Nat

VARIABLES
  sess,         (* the camera's TranscodeSession, or NoSession             *)
  writers,      (* ffmpeg processes running and not killed                 *)
  row,          (* the camera's row: present, going (delete under way), absent *)
  port,         (* its rtspPort                                            *)
  handlers,     (* event handlers that have read the row                   *)
  changes       (* changes of the port so far                              *)

streamVars == <<sess, writers>>
rowVars == <<row, port, changes>>
vars == <<engineVars, streamVars, rowVars, handlers>>

(* target is targetRtspPort, rtp the port the process writes to, opt the   *)
(* port in the options its exit handler has kept; proc is process: null    *)
(* while a start is due, running, or exited; dud is one that is dead and   *)
(* mute is null when the last spawn failed.                                *)
Session == [target : Ports, rtp : Ports, opt : Ports,
            proc : {"null", "running", "exited", "dud", "mute"},
            starting : BOOLEAN, retrying : BOOLEAN, isFallback : BOOLEAN]
NoSession == [isFallback |-> FALSE]

Handler == [wants : {"live", "fallback"}, port : Ports]

TypeOK ==
  /\ EngineTypeOK
  /\ sess \in Session \cup {NoSession}
  /\ writers \in 0..2
  /\ row \in {"present", "going", "absent"} /\ port \in Ports
  /\ handlers \subseteq Handler
  /\ changes \in 0..MaxChanges

Init ==
  /\ EngineInit
  /\ sess = NoSession /\ writers = 0
  /\ row = "present" /\ port \in Ports /\ handlers = {} /\ changes = 0

Exists == sess # NoSession
Running == Exists /\ sess.proc = "running"

(* The processes left when the session's own was killed.                   *)
Spared == IF Running THEN writers - 1 ELSE writers

(* relayAlreadyRunning: the transcoder asks its own record.                *)
RelayRunning(p) == Exists /\ sess.target = p

EnsureRelay(p) ==
  IF RelayRunning(p) THEN UNCHANGED engineVars ELSE SendWhenReady(StartRelay(p))

(***************************************************************************)
(* The transcoder's operations.                                            *)
(***************************************************************************)
StartH264Transcode(p) ==
  /\ EnsureRelay(p)
  /\ writers' = Spared
  /\ sess' = [target |-> p, rtp |-> p, opt |-> p, proc |-> "null",
              starting |-> TRUE, retrying |-> FALSE, isFallback |-> FALSE]

Unstarted == {"null", "mute"}

(* startFallbackTranscode: the exit handler keeps the options p.           *)
OnFallback(s, p) == [s EXCEPT !.opt = p, !.isFallback = TRUE]

(* Its ffmpeg runs beside n others; or spawn throws, which is only logged: *)
(* process is what it was.                                                 *)
PlayCard(s, n) ==
  \/ sess' = [s EXCEPT !.proc = "running"] /\ writers' = n + 1
  \/ /\ sess' = [s EXCEPT !.proc = IF s.proc \in Unstarted THEN "mute" ELSE "dud"]
     /\ writers' = n

NewFallback(p) == [target |-> p, rtp |-> p, opt |-> p, proc |-> "null",
                   starting |-> FALSE, retrying |-> FALSE, isFallback |-> TRUE]

PlaysCard == Exists /\ sess.isFallback /\ sess.proc \notin Unstarted

(* Faulty variant: the timers of the old session are not cleared.          *)
SwitchKeepingTimers(p) ==
  IF PlaysCard THEN UNCHANGED <<engineVars, streamVars>>
  ELSE /\ EnsureRelay(p)
       /\ PlayCard(IF Exists THEN OnFallback(sess, p) ELSE NewFallback(p), Spared)

(* The session without its timers.                                         *)
Untimed == [sess EXCEPT !.starting = FALSE, !.retrying = FALSE]

(* An old session keeps its target and its RTP ports.                      *)
SwitchToFallback(p) ==
  IF PlaysCard THEN UNCHANGED <<engineVars, streamVars>>
  ELSE /\ EnsureRelay(p)
       /\ PlayCard(IF Exists THEN OnFallback(Untimed, p) ELSE NewFallback(p), Spared)

StopTranscode ==
  IF Exists
  THEN sess' = NoSession /\ writers' = Spared /\ SendLine(StopRelay)
  ELSE UNCHANGED <<engineVars, streamVars>>

(* The session once its start timer has fired.                             *)
Started == [sess EXCEPT !.starting = FALSE]

(* The start timer: ffmpeg runs; or it reports an error (and no exit); or  *)
(* spawn throws and the card is streamed instead.                          *)
StartTimer ==
  /\ Exists /\ sess.starting
  /\ \/ sess' = [Started EXCEPT !.proc = "running"] /\ writers' = writers + 1
     \/ sess' = [Started EXCEPT !.proc = "dud"] /\ writers' = writers
     \/ PlayCard(OnFallback(Started, sess.opt), writers)
  /\ UNCHANGED <<engineVars, rowVars, handlers>>

(* Faulty variant: the exit handler leaves the card to somebody else.      *)
LiveExitsForGood ==
  /\ Running /\ ~sess.isFallback
  /\ sess' = [sess EXCEPT !.proc = "exited"]
  /\ writers' = writers - 1
  /\ UNCHANGED <<engineVars, rowVars, handlers>>

(* A live ffmpeg that exits is replaced by the card in its exit handler.   *)
LiveExits ==
  /\ Running /\ ~sess.isFallback
  /\ PlayCard(OnFallback(sess, sess.opt), writers - 1)
  /\ UNCHANGED <<engineVars, rowVars, handlers>>

(* Faulty variant: no retry after the card's process ended.                *)
FallbackExitsForGood ==
  /\ Running /\ sess.isFallback
  /\ sess' = [sess EXCEPT !.proc = "exited"]
  /\ writers' = writers - 1
  /\ UNCHANGED <<engineVars, rowVars, handlers>>

FallbackExits ==
  /\ Running /\ sess.isFallback
  /\ sess' = [sess EXCEPT !.proc = "exited", !.retrying = TRUE]
  /\ writers' = writers - 1
  /\ UNCHANGED <<engineVars, rowVars, handlers>>

RetryTimer ==
  /\ Exists /\ sess.retrying
  /\ StartH264Transcode(sess.opt)
  /\ UNCHANGED <<rowVars, handlers>>

(***************************************************************************)
(* The camera service.                                                     *)
(***************************************************************************)
(* A handler of session_started (live) or of any event that means the      *)
(* camera is lost (fallback) reads the row and awaits.                     *)
ReadRow(wants) ==
  /\ row # "absent"
  /\ handlers' = handlers \cup {[wants |-> wants, port |-> port]}
  /\ UNCHANGED <<engineVars, streamVars, rowVars>>

Resume(h) ==
  /\ h \in handlers /\ Room
  /\ handlers' = handlers \ {h}
  /\ IF h.wants = "live" THEN StartH264Transcode(h.port) ELSE SwitchToFallback(h.port)
  /\ UNCHANGED rowVars

(* Signalling asks for a P2P session, which also revives the engine.       *)
RequestP2P ==
  /\ Room
  /\ SendWhenReady(StartP2P)
  /\ UNCHANGED <<streamVars, rowVars, handlers>>

Update(p) ==
  /\ row = "present" /\ p # port /\ changes < MaxChanges
  /\ port' = p /\ changes' = changes + 1
  /\ UNCHANGED <<engineVars, streamVars, row, handlers>>

(* delete stops the stream and then awaits the removal of the row.         *)
Delete ==
  /\ row = "present" /\ Room
  /\ row' = "going"
  /\ StopTranscode
  /\ UNCHANGED <<port, changes, handlers>>

Removed ==
  /\ row = "going"
  /\ row' = "absent"
  /\ UNCHANGED <<engineVars, streamVars, port, changes, handlers>>

Create ==
  /\ row = "absent"
  /\ row' = "present"
  /\ UNCHANGED <<engineVars, streamVars, port, changes, handlers>>

Engine == EngineStep /\ UNCHANGED <<streamVars, rowVars, handlers>>

Next ==
  \/ Engine
  \/ StartTimer \/ LiveExits \/ FallbackExits \/ RetryTimer
  \/ \E w \in {"live", "fallback"} : ReadRow(w)
  \/ \E h \in handlers : Resume(h)
  \/ RequestP2P
  \/ \E p \in Ports : Update(p)
  \/ Delete \/ Removed \/ Create

Spec == Init /\ [][Next]_vars

(* Timers fire, the engine's process runs and its events are handled.  No  *)
(* fairness for deaths, for exits of ffmpeg, nor for users and cameras.    *)
Fairness ==
  /\ WF_vars(StartTimer) /\ WF_vars(RetryTimer)
  /\ WF_vars(Boot /\ UNCHANGED <<streamVars, rowVars, handlers>>)
  /\ WF_vars(HandleReady /\ UNCHANGED <<streamVars, rowVars, handlers>>)
  /\ WF_vars(HandleCommand /\ UNCHANGED <<streamVars, rowVars, handlers>>)
  /\ WF_vars(HandleExit /\ UNCHANGED <<streamVars, rowVars, handlers>>)

FairSpec == Spec /\ Fairness

-----------------------------------------------------------------------------
(***************************************************************************)
(* Properties.                                                             *)
(***************************************************************************)
(* At most one ffmpeg writes to the relay's RTP ports: every path that     *)
(* starts one has killed or seen the end of the one before, and cancelled  *)
(* the timers that would start another (stopSessionProcess,                *)
(* switchToFallback, the exit handlers).                                   *)
OneWriter == writers <= 1

(* The process could not be started.                                       *)
SpawnFailed == sess.proc \in {"dud", "mute"}

(* A session never goes silent: a process runs or a timer will start one.  *)
(* The exception is a process that could not be started, live or of the    *)
(* card: the error is only logged.                                         *)
NeverSilent ==
  Exists => \/ writers > 0
            \/ sess.starting \/ sess.retrying
            \/ SpawnFailed

(* Nothing has gone wrong that the transcoder does not notice: no death    *)
(* of the engine, no failed relay, no change of the port.                  *)
Calm == deaths = 0 /\ failures = 0 /\ changes = 0

(* While nothing unnoticed goes wrong, a session's relay serves its port   *)
(* once the queue is carried out, and ffmpeg writes to that port, although *)
(* stop commands overtake queued start commands.                           *)
RelayServes ==
  Exists /\ Calm /\ Drained => relay = sess.target /\ sess.rtp = sess.target

(* Commands that wait for the engine are written, unless it dies first.    *)
QueueFlows == (pending # <<>> /\ process) ~> (pending = <<>> \/ ~process)

(* A session comes to have a running ffmpeg, or it is stopped, or its      *)
(* process could not be started.                                           *)
Streams == Exists ~> (writers > 0 \/ ~Exists \/ SpawnFailed)

(* transcoder.service.ts:451, in the fallback's exit handler:              *)
(* "Periodically retry the real live stream".  The retry waits for an exit *)
(* of the card, which loops for ever: only a session_started that comes by *)
(* itself brings the live stream back.                                     *)
LiveIsRetried == (Running /\ sess.isFallback) ~> (~Exists \/ ~sess.isFallback)
=============================================================================
