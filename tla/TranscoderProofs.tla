-------------------------- MODULE TranscoderProofs --------------------------
(***************************************************************************)
(* What holds of the public stream of a camera, for any ports, queues,     *)
(* deaths of the engine and changes of the port.                           *)
(***************************************************************************)
EXTENDS Transcoder, TLAPS, SequenceTheorems

(***************************************************************************)
(* The engine's variables keep their types.                                *)
(***************************************************************************)
LEMMA CommandTypes ==
  /\ StartP2P \in Commands /\ StopRelay \in Commands
  /\ \A p \in Ports : StartRelay(p) \in Commands
  /\ \A c \in Commands : c.port \in Ports \cup {NoPort}
  /\ \A c \in Commands : c.cmd = "start_relay" => c.port \in Ports
BY DEF Commands, StartP2P, StopRelay, StartRelay

LEMMA SendLineType ==
  ASSUME EngineTypeOK, NEW c \in Commands, SendLine(c)
  PROVE  EngineTypeOK'
BY DEF EngineTypeOK, SendLine

LEMMA SendWhenReadyType ==
  ASSUME EngineTypeOK, NEW c \in Commands, SendWhenReady(c)
  PROVE  EngineTypeOK'
<1>1. CASE isReady
  BY <1>1, SendLineType DEF SendWhenReady
<1>2. CASE ~isReady
  <2>1. /\ pending' = Append(pending, c) /\ UNCHANGED <<isReady, stdin, saidReady, relay, deaths>>
        /\ failures' = failures
    BY <1>2 DEF SendWhenReady
  <2>2. process' \in BOOLEAN /\ child' \in {"none", "booting", "serving", "dead"}
    <3>1. \/ process' = process /\ child' = child
          \/ process' = TRUE /\ child' = "booting"
      BY <1>2 DEF SendWhenReady, Start
    <3> QED
      BY <3>1 DEF EngineTypeOK
  <2>3. pending' \in Seq(Commands)
    BY <2>1 DEF EngineTypeOK
  <2> QED
    BY <2>1, <2>2, <2>3 DEF EngineTypeOK
<1> QED
  BY <1>1, <1>2

LEMMA EngineStepType ==
  ASSUME EngineTypeOK, EngineStep
  PROVE  EngineTypeOK'
<1>1. CASE Boot
  BY <1>1 DEF EngineTypeOK, Boot
<1>2. CASE HandleReady
  <2>1. pending' \in Seq(Commands) /\ stdin' \in Seq(Commands)
    BY <1>2, EmptySeq, ConcatProperties DEF EngineTypeOK, HandleReady
  <2> QED
    BY <1>2, <2>1 DEF EngineTypeOK, HandleReady
<1>3. CASE HandleCommand
  <2>1. stdin' \in Seq(Commands) /\ Head(stdin) \in Commands
    BY <1>3 DEF EngineTypeOK, HandleCommand
  <2>2. failures' \in 0..MaxFailures
    BY <1>3, EngineAssumption DEF EngineTypeOK, HandleCommand
  <2>3. relay' \in Ports \cup {NoPort}
    BY <1>3, <2>1, CommandTypes DEF EngineTypeOK, HandleCommand
  <2> QED
    BY <1>3, <2>1, <2>2, <2>3 DEF EngineTypeOK, HandleCommand
<1>4. CASE Die
  BY <1>4, EngineAssumption DEF EngineTypeOK, Die
<1>5. CASE HandleExit
  <2>1. stdin' \in Seq(Commands)
    BY <1>5, EmptySeq DEF HandleExit
  <2> QED
    BY <1>5, <2>1 DEF EngineTypeOK, HandleExit
<1> QED
  BY <1>1, <1>2, <1>3, <1>4, <1>5 DEF EngineStep

(***************************************************************************)
(* The session: a timer is pending exactly when there is no process yet    *)
(* (start) or none any more (retry), and the writers are the session's own *)
(* process.                                                                *)
(***************************************************************************)
Shape ==
  Exists => /\ (sess.proc = "null") = sess.starting
            /\ (sess.proc = "exited") = sess.retrying

Count == writers = IF Running THEN 1 ELSE 0

Stream ==
  /\ sess \in Session \cup {NoSession}
  /\ Shape
  /\ Count

LEMMA SessionIsNotNone == \A s \in Session : s # NoSession
<1> SUFFICES ASSUME NEW s \in Session, s = NoSession PROVE FALSE
  OBVIOUS
<1>1. "target" \in DOMAIN s
  BY DEF Session
<1>2. "target" \notin DOMAIN NoSession
  BY DEF NoSession
<1> QED
  BY <1>1, <1>2

(* What the card's processes and the timers do to a session's fields.      *)
LEMMA OnFallbackSession ==
  ASSUME NEW s \in Session, NEW p \in Ports
  PROVE  LET t == OnFallback(s, p)
         IN  /\ t \in Session /\ t.opt = p /\ t.target = s.target /\ t.rtp = s.rtp
             /\ t.starting = s.starting /\ t.retrying = s.retrying
BY DEF OnFallback, Session

LEMMA NewFallbackSession ==
  ASSUME NEW p \in Ports
  PROVE  LET t == NewFallback(p)
         IN  /\ t \in Session /\ t.opt = p /\ t.target = p /\ t.rtp = p
             /\ t.starting = FALSE /\ t.retrying = FALSE
BY DEF NewFallback, Session

(* The card's process is the only one, or it could not be started.         *)
LEMMA PlayCardSession ==
  ASSUME NEW s \in Session, NEW n, n = 0, PlayCard(s, n)
  PROVE  /\ sess' \in Session /\ sess'.starting = s.starting /\ sess'.retrying = s.retrying
         /\ \/ sess'.proc = "running" /\ writers' = 1
            \/ sess'.proc \in {"dud", "mute"} /\ writers' = 0
         /\ sess'.target = s.target /\ sess'.rtp = s.rtp /\ sess'.opt = s.opt
<1>1. ASSUME NEW x \in {"running", "dud", "mute"}
      PROVE  LET t == [s EXCEPT !.proc = x]
             IN  /\ t \in Session /\ t.proc = x
                 /\ t.starting = s.starting /\ t.retrying = s.retrying
                 /\ t.target = s.target /\ t.rtp = s.rtp /\ t.opt = s.opt
  BY DEF Session
<1>2. CASE sess' = [s EXCEPT !.proc = "running"] /\ writers' = n + 1
  BY <1>1, <1>2
<1>3. ASSUME NEW x \in {"dud", "mute"}, sess' = [s EXCEPT !.proc = x], writers' = n
      PROVE  /\ sess' \in Session /\ sess'.starting = s.starting /\ sess'.retrying = s.retrying
             /\ sess'.proc \in {"dud", "mute"} /\ writers' = 0
             /\ sess'.target = s.target /\ sess'.rtp = s.rtp /\ sess'.opt = s.opt
  BY <1>1, <1>3
<1>4. CASE sess' = [s EXCEPT !.proc = IF s.proc \in Unstarted THEN "mute" ELSE "dud"]
           /\ writers' = n
  BY <1>3, <1>4
<1> QED
  BY <1>2, <1>4 DEF PlayCard

LEMMA UntimedSession ==
  ASSUME sess \in Session
  PROVE  /\ Untimed \in Session /\ Untimed.starting = FALSE /\ Untimed.retrying = FALSE
         /\ Untimed.target = sess.target /\ Untimed.rtp = sess.rtp
BY DEF Untimed, Session

LEMMA StartedSession ==
  ASSUME sess \in Session
  PROVE  /\ Started \in Session /\ Started.starting = FALSE
         /\ Started.retrying = sess.retrying
         /\ Started.target = sess.target /\ Started.rtp = sess.rtp /\ Started.opt = sess.opt
BY DEF Started, Session

LEMMA SparedIsNone == ASSUME Stream PROVE Spared = 0
BY DEF Stream, Count, Spared, Running

LEMMA StartKeepsStream ==
  ASSUME EngineTypeOK, Stream, NEW p \in Ports, StartH264Transcode(p)
  PROVE  EngineTypeOK' /\ Stream'
<1>1. EngineTypeOK'
  <2>1. CASE RelayRunning(p)
    BY <2>1 DEF StartH264Transcode, EnsureRelay, engineVars, EngineTypeOK
  <2>2. CASE ~RelayRunning(p)
    BY <2>2, SendWhenReadyType, CommandTypes DEF StartH264Transcode, EnsureRelay
  <2> QED
    BY <2>1, <2>2
<1>2. sess' \in Session /\ sess'.proc = "null" /\ sess'.starting = TRUE /\ sess'.retrying = FALSE
  BY DEF StartH264Transcode, Session
<1>3. writers' = 0
  BY SparedIsNone DEF StartH264Transcode
<1> QED
  BY <1>1, <1>2, <1>3 DEF Stream, Shape, Count, Running, Exists

LEMMA SwitchKeepsStream ==
  ASSUME EngineTypeOK, Stream, NEW p \in Ports, SwitchToFallback(p)
  PROVE  EngineTypeOK' /\ Stream'
<1>1. CASE PlaysCard
  BY <1>1 DEF SwitchToFallback, engineVars, streamVars, EngineTypeOK, Stream, Shape, Count,
              Running, Exists
<1>2. CASE ~PlaysCard
  <2>1. EngineTypeOK'
    <3>1. CASE RelayRunning(p)
      BY <1>2, <3>1 DEF SwitchToFallback, EnsureRelay, engineVars, EngineTypeOK
    <3>2. CASE ~RelayRunning(p)
      BY <1>2, <3>2, SendWhenReadyType, CommandTypes DEF SwitchToFallback, EnsureRelay
    <3> QED
      BY <3>1, <3>2
  <2>2. PICK t \in Session : /\ t.starting = FALSE /\ t.retrying = FALSE
                            /\ PlayCard(t, Spared)
    <3>1. CASE Exists
      <4>1. sess \in Session
        BY <3>1 DEF Stream, Exists
      <4>2. PlayCard(OnFallback(Untimed, p), Spared)
        BY <1>2, <3>1 DEF SwitchToFallback
      <4> QED
        BY <4>1, <4>2, UntimedSession, OnFallbackSession
    <3>2. CASE ~Exists
      <4>1. PlayCard(NewFallback(p), Spared)
        BY <1>2, <3>2 DEF SwitchToFallback
      <4> QED
        BY <4>1, NewFallbackSession
    <3> QED
      BY <3>1, <3>2
  <2>3. /\ sess' \in Session /\ sess'.starting = FALSE /\ sess'.retrying = FALSE
        /\ \/ sess'.proc = "running" /\ writers' = 1
           \/ sess'.proc \in {"dud", "mute"} /\ writers' = 0
    BY <2>2, SparedIsNone, PlayCardSession, Zenon
  <2>4. Exists'
    BY <2>3, SessionIsNotNone DEF Exists
  <2> QED
    BY <2>1, <2>3, <2>4 DEF Stream, Shape, Count, Running
<1> QED
  BY <1>1, <1>2

LEMMA StopKeepsStream ==
  ASSUME EngineTypeOK, Stream, StopTranscode
  PROVE  EngineTypeOK' /\ Stream'
<1>1. CASE Exists
  BY <1>1, SendLineType, CommandTypes, SparedIsNone
     DEF StopTranscode, Stream, Shape, Count, Running, Exists
<1>2. CASE ~Exists
  BY <1>2 DEF StopTranscode, engineVars, streamVars, EngineTypeOK, Stream, Shape, Count,
              Running, Exists
<1> QED
  BY <1>1, <1>2

(***************************************************************************)
(* Type correctness, one writer, no silence.                               *)
(***************************************************************************)
Base == TypeOK /\ Stream

LEMMA InitBase == Init => Base
<1> SUFFICES ASSUME Init PROVE Base
  OBVIOUS
<1>1. EngineTypeOK
  <2>1. pending \in Seq(Commands) /\ stdin \in Seq(Commands)
    BY EmptySeq DEF Init, EngineInit
  <2>2. deaths \in 0..MaxDeaths /\ failures \in 0..MaxFailures
    BY EngineAssumption DEF Init, EngineInit
  <2>3. /\ process \in BOOLEAN /\ isReady \in BOOLEAN /\ saidReady \in BOOLEAN
        /\ child \in {"none", "booting", "serving", "dead"}
        /\ relay \in Ports \cup {NoPort}
    BY DEF Init, EngineInit
  <2> QED
    BY <2>1, <2>2, <2>3 DEF EngineTypeOK
<1>2. Stream
  BY DEF Init, Stream, Shape, Count, Running, Exists
<1> QED
  BY <1>1, <1>2, TranscoderAssumption DEF Init, Base, TypeOK

LEMMA WritersBounded == ASSUME Count PROVE writers \in 0..2
BY DEF Count

(* What is left to show of a step: the types of the rest are untouched or  *)
(* follow from the action's own bound.                                     *)
LEMMA NextBase ==
  ASSUME Base, [Next]_vars
  PROVE  Base'
<1> USE DEF Base
<1>0. EngineTypeOK /\ Stream /\ row \in {"present", "going", "absent"} /\ port \in Ports
      /\ handlers \subseteq Handler /\ changes \in 0..MaxChanges
  BY DEF TypeOK
<1>a. ASSUME EngineTypeOK', Stream', UNCHANGED rowVars, handlers' \subseteq Handler
      PROVE  Base'
  <2>1. writers' \in 0..2 /\ sess' \in Session \cup {NoSession}
    BY <1>a DEF Stream, Count
  <2> QED
    BY <1>0, <1>a, <2>1 DEF TypeOK, rowVars
<1>b. ASSUME UNCHANGED <<engineVars, streamVars>> PROVE EngineTypeOK' /\ Stream'
  BY <1>0, <1>b DEF engineVars, streamVars, EngineTypeOK, Stream, Shape, Count, Running, Exists
<1>1. CASE Engine
  <2>1. EngineTypeOK'
    BY <1>0, <1>1, EngineStepType DEF Engine
  <2>2. Stream'
    BY <1>0, <1>1 DEF Engine, streamVars, Stream, Shape, Count, Running, Exists
  <2> QED
    BY <1>0, <1>1, <1>a, <2>1, <2>2 DEF Engine
<1>2. CASE StartTimer
  <2>1. sess \in Session /\ sess.proc = "null" /\ sess.starting /\ ~sess.retrying /\ writers = 0
    BY <1>0, <1>2 DEF StartTimer, Stream, Shape, Count, Running, Exists, Session
  <2>2. EngineTypeOK'
    BY <1>0, <1>2 DEF StartTimer, engineVars, EngineTypeOK
  <2>3. /\ sess' \in Session /\ sess'.starting = FALSE /\ sess'.retrying = FALSE
        /\ \/ sess'.proc = "running" /\ writers' = 1
           \/ sess'.proc \in {"dud", "mute"} /\ writers' = 0
    <3>1. Started \in Session /\ Started.starting = FALSE /\ Started.retrying = FALSE
      BY <2>1 DEF Started, Session
    <3>2. sess.opt \in Ports
      BY <2>1 DEF Session
    <3>3. CASE sess' = [Started EXCEPT !.proc = "running"] /\ writers' = writers + 1
      <4>1. sess' \in Session /\ sess'.proc = "running" /\ sess'.starting = Started.starting
            /\ sess'.retrying = Started.retrying
        BY <3>1, <3>3 DEF Session
      <4> QED
        BY <2>1, <3>1, <3>3, <4>1
    <3>4. CASE sess' = [Started EXCEPT !.proc = "dud"] /\ writers' = writers
      <4>1. sess' \in Session /\ sess'.proc = "dud" /\ sess'.starting = Started.starting
            /\ sess'.retrying = Started.retrying
        BY <3>1, <3>4 DEF Session
      <4> QED
        BY <2>1, <3>1, <3>4, <4>1
    <3>5. CASE PlayCard(OnFallback(Started, sess.opt), writers)
      <4>1. PICK t \in Session : /\ t.starting = FALSE /\ t.retrying = FALSE
                                /\ PlayCard(t, writers)
        BY <3>1, <3>2, <3>5, OnFallbackSession
      <4> QED
        BY <2>1, <4>1, PlayCardSession, Zenon
    <3> QED
      BY <1>2, <3>3, <3>4, <3>5 DEF StartTimer
  <2>4. Stream'
    BY <2>3, SessionIsNotNone DEF Stream, Shape, Count, Running, Exists
  <2> QED
    BY <1>0, <1>2, <1>a, <2>2, <2>4 DEF StartTimer
<1>3. CASE LiveExits
  <2>1. sess \in Session /\ ~sess.starting /\ ~sess.retrying /\ writers = 1
    BY <1>0, <1>3 DEF LiveExits, Stream, Shape, Count, Running, Exists, Session
  <2>2. EngineTypeOK'
    BY <1>0, <1>3 DEF LiveExits, engineVars, EngineTypeOK
  <2>3. /\ sess' \in Session /\ sess'.starting = FALSE /\ sess'.retrying = FALSE
        /\ \/ sess'.proc = "running" /\ writers' = 1
           \/ sess'.proc \in {"dud", "mute"} /\ writers' = 0
    <3>1. sess.opt \in Ports /\ writers - 1 = 0
      BY <2>1 DEF Session
    <3>2. PICK t \in Session : /\ t.starting = FALSE /\ t.retrying = FALSE
                              /\ PlayCard(t, writers - 1)
      BY <1>3, <2>1, <3>1, OnFallbackSession DEF LiveExits
    <3> QED
      BY <3>1, <3>2, PlayCardSession, Zenon
  <2>4. Stream'
    BY <2>3, SessionIsNotNone DEF Stream, Shape, Count, Running, Exists
  <2> QED
    BY <1>0, <1>3, <1>a, <2>2, <2>4 DEF LiveExits
<1>4. CASE FallbackExits
  <2>1. sess \in Session /\ ~sess.starting /\ writers = 1
    BY <1>0, <1>4 DEF FallbackExits, Stream, Shape, Count, Running, Exists, Session
  <2>2. EngineTypeOK'
    BY <1>0, <1>4 DEF FallbackExits, engineVars, EngineTypeOK
  <2>3. /\ sess' \in Session /\ sess'.starting = FALSE /\ sess'.retrying = TRUE
        /\ sess'.proc = "exited" /\ writers' = 0
    <3>1. sess' = [sess EXCEPT !.proc = "exited", !.retrying = TRUE] /\ writers' = writers - 1
      BY <1>4 DEF FallbackExits
    <3>2. sess' \in Session /\ sess'.proc = "exited" /\ sess'.retrying = TRUE
          /\ sess'.starting = sess.starting
      BY <2>1, <3>1 DEF Session
    <3> QED
      BY <2>1, <3>1, <3>2
  <2>4. Stream'
    BY <2>3 DEF Stream, Shape, Count, Running, Exists
  <2> QED
    BY <1>0, <1>4, <1>a, <2>2, <2>4 DEF FallbackExits
<1>5. CASE RetryTimer
  <2>1. sess.opt \in Ports
    BY <1>0, <1>5 DEF RetryTimer, Stream, Exists, Session
  <2> QED
    BY <1>0, <1>5, <1>a, <2>1, StartKeepsStream DEF RetryTimer
<1>6. ASSUME NEW w \in {"live", "fallback"}, ReadRow(w) PROVE Base'
  <2>1. handlers' \subseteq Handler
    BY <1>0, <1>6 DEF ReadRow, Handler
  <2> QED
    BY <1>0, <1>6, <1>a, <1>b, <2>1 DEF ReadRow
<1>7. ASSUME NEW h \in handlers, Resume(h) PROVE Base'
  <2>1. h.port \in Ports /\ handlers' \subseteq Handler
    BY <1>0, <1>7 DEF Resume, Handler
  <2>2. EngineTypeOK' /\ Stream'
    BY <1>0, <1>7, <2>1, StartKeepsStream, SwitchKeepsStream DEF Resume
  <2> QED
    BY <1>7, <1>a, <2>1, <2>2 DEF Resume
<1>8. CASE RequestP2P
  <2>1. EngineTypeOK'
    BY <1>0, <1>8, SendWhenReadyType, CommandTypes DEF RequestP2P
  <2>2. Stream'
    BY <1>0, <1>8 DEF RequestP2P, streamVars, Stream, Shape, Count, Running, Exists
  <2> QED
    BY <1>0, <1>8, <1>a, <2>1, <2>2 DEF RequestP2P
<1>c. ASSUME EngineTypeOK', Stream', row' \in {"present", "going", "absent"}, port' \in Ports,
             changes' \in 0..MaxChanges, handlers' = handlers
      PROVE  Base'
  <2>1. writers' \in 0..2 /\ sess' \in Session \cup {NoSession}
    BY <1>c DEF Stream, Count
  <2> QED
    BY <1>0, <1>c, <2>1 DEF TypeOK
<1>9. ASSUME NEW p \in Ports, Update(p) PROVE Base'
  BY <1>0, <1>9, <1>b, <1>c, TranscoderAssumption DEF Update
<1>10. CASE Delete
  BY <1>0, <1>10, <1>c, StopKeepsStream DEF Delete
<1>11. CASE Removed
  BY <1>0, <1>11, <1>b, <1>c DEF Removed
<1>12. CASE Create
  BY <1>0, <1>12, <1>b, <1>c DEF Create
<1>13. CASE UNCHANGED vars
  BY <1>0, <1>13, <1>a, <1>b DEF vars
<1> QED
  BY <1>1, <1>2, <1>3, <1>4, <1>5, <1>6, <1>7, <1>8, <1>9, <1>10, <1>11, <1>12, <1>13 DEF Next

LEMMA AlwaysBase == Spec => []Base
<1>1. Init => Base
  BY InitBase
<1>2. Base /\ [Next]_vars => Base'
  BY NextBase
<1> QED
  BY <1>1, <1>2, PTL DEF Spec

(* Every variable keeps its type: no counter or session grows out of shape *)
(* in any interleaving of handlers, timers and deaths.                     *)
THEOREM StreamTypeCorrect == Spec => []TypeOK
<1>1. Base => TypeOK
  BY DEF Base
<1> QED
  BY <1>1, AlwaysBase, PTL

(* Two ffmpeg processes never write to one relay (transcoder.service.ts:   *)
(* every path kills or has seen the end of the old process and cancelled   *)
(* its timers).                                                            *)
THEOREM OnlyOneWriter == Spec => []OneWriter
<1>1. Base => OneWriter
  BY DEF Base, Stream, Count, OneWriter
<1> QED
  BY <1>1, AlwaysBase, PTL

(* A session is never left without a process or a timer that will start    *)
(* one, unless a process could not be started.                             *)
THEOREM NeverFallsSilent == Spec => []NeverSilent
<1>1. Base => NeverSilent
  BY DEF Base, Stream, Shape, Count, Running, Exists, Session, SpawnFailed, NeverSilent
<1> QED
  BY <1>1, AlwaysBase, PTL

(***************************************************************************)
(* Commands on their way to the engine.                                    *)
(***************************************************************************)
(* A queue without a stop; one with a start; one with a start that no stop *)
(* undoes; one whose starts all name port q.                               *)
NoStop(s) == \A i \in 1..Len(s) : s[i].cmd # "stop_relay"

Starts(s) == \E i \in 1..Len(s) : s[i].cmd = "start_relay"

Written(s) ==
  \E i \in 1..Len(s) : /\ s[i].cmd = "start_relay"
                       /\ \A j \in 1..Len(s) : i < j => s[j].cmd # "stop_relay"

AllAt(s, q) == \A i \in 1..Len(s) : s[i].cmd = "start_relay" => s[i].port = q

LEMMA EmptyQueue ==
  NoStop(<<>>) /\ ~Starts(<<>>) /\ ~Written(<<>>) /\ \A q : AllAt(<<>>, q)
BY DEF NoStop, Starts, Written, AllAt

(* A command that is not a stop is added.                                  *)
LEMMA QueueGrows ==
  ASSUME NEW s \in Seq(Commands), NEW c \in Commands, c.cmd # "stop_relay"
  PROVE  /\ NoStop(s) => NoStop(Append(s, c))
         /\ Starts(s) => Starts(Append(s, c))
         /\ Written(s) => Written(Append(s, c))
         /\ c.cmd = "start_relay" => Starts(Append(s, c)) /\ Written(Append(s, c))
         /\ \A q : AllAt(s, q) /\ (c.cmd = "start_relay" => c.port = q) => AllAt(Append(s, c), q)
<1> DEFINE t == Append(s, c)
<1>1. /\ Len(s) \in Nat /\ Len(t) = Len(s) + 1
      /\ \A i \in 1..Len(s) : t[i] = s[i]
      /\ t[Len(s) + 1] = c
  BY AppendProperties, LenProperties
<1> HIDE DEF t
<1>2. \A i \in 1..Len(t) : i \in 1..Len(s) \/ i = Len(s) + 1
  BY <1>1
<1>3. \A i \in 1..Len(s) : i \in 1..Len(t)
  BY <1>1
<1>4. Len(s) + 1 \in 1..Len(t) /\ \A j \in 1..Len(t) : ~(Len(s) + 1 < j)
  BY <1>1
<1>5. NoStop(s) => NoStop(t)
  BY <1>1, <1>2 DEF NoStop
<1>6. Starts(s) => Starts(t)
  BY <1>1, <1>3 DEF Starts
<1>7. Written(s) => Written(t)
  BY <1>1, <1>2, <1>3 DEF Written
<1>8. c.cmd = "start_relay" => Starts(t) /\ Written(t)
  BY <1>1, <1>4 DEF Starts, Written
<1>9. \A q : AllAt(s, q) /\ (c.cmd = "start_relay" => c.port = q) => AllAt(t, q)
  BY <1>1, <1>2 DEF AllAt
<1> QED
  BY <1>5, <1>6, <1>7, <1>8, <1>9 DEF t

(* The waiting commands are written behind the others.                     *)
LEMMA QueueIsWritten ==
  ASSUME NEW s \in Seq(Commands), NEW p \in Seq(Commands), NoStop(p)
  PROVE  /\ Starts(p) => Written(s \o p)
         /\ Written(s) => Written(s \o p)
         /\ NoStop(s) => NoStop(s \o p)
         /\ \A q : AllAt(s, q) /\ AllAt(p, q) => AllAt(s \o p, q)
<1> DEFINE t == s \o p
<1>1. /\ Len(s) \in Nat /\ Len(p) \in Nat /\ Len(t) = Len(s) + Len(p)
      /\ \A i \in 1..(Len(s) + Len(p)) : t[i] = IF i <= Len(s) THEN s[i] ELSE p[i - Len(s)]
  BY ConcatProperties, LenProperties
<1> HIDE DEF t
<1>2. ASSUME NEW i \in 1..Len(t)
      PROVE  \/ i \in 1..Len(s) /\ t[i] = s[i]
             \/ i > Len(s) /\ i - Len(s) \in 1..Len(p) /\ t[i] = p[i - Len(s)]
  BY <1>1
<1>3. \A i \in 1..Len(s) : i \in 1..Len(t) /\ t[i] = s[i]
  BY <1>1
<1>4. ASSUME NEW i \in 1..Len(p)
      PROVE  /\ Len(s) + i \in 1..Len(t)
             /\ t[Len(s) + i] = p[i]
             /\ \A j \in 1..Len(s) : ~(Len(s) + i < j)
  <2>1. Len(s) + i \in 1..(Len(s) + Len(p)) /\ ~(Len(s) + i <= Len(s)) /\ Len(s) + i - Len(s) = i
    BY <1>1
  <2> QED
    BY <1>1, <2>1
<1>5. Starts(p) => Written(t)
  <2> SUFFICES ASSUME NEW i \in 1..Len(p), p[i].cmd = "start_relay"
               PROVE  Written(t)
    BY DEF Starts
  <2>1. \A j \in 1..Len(t) : Len(s) + i < j => t[j].cmd # "stop_relay"
    BY <1>2, <1>4 DEF NoStop
  <2> QED
    BY <1>4, <2>1 DEF Written
<1>6. Written(s) => Written(t)
  <2> SUFFICES ASSUME NEW i \in 1..Len(s), s[i].cmd = "start_relay",
                      \A j \in 1..Len(s) : i < j => s[j].cmd # "stop_relay"
               PROVE  Written(t)
    BY DEF Written
  <2>1. \A j \in 1..Len(t) : i < j => t[j].cmd # "stop_relay"
    BY <1>2 DEF NoStop
  <2>2. i \in 1..Len(t) /\ t[i] = s[i]
    BY <1>3
  <2> QED
    BY <2>1, <2>2 DEF Written
<1>7. NoStop(s) => NoStop(t)
  BY <1>2 DEF NoStop
<1>8. \A q : AllAt(s, q) /\ AllAt(p, q) => AllAt(t, q)
  BY <1>2 DEF AllAt
<1> QED
  BY <1>5, <1>6, <1>7, <1>8 DEF t

(* The engine takes the first command.                                     *)
LEMMA QueueShrinks ==
  ASSUME NEW s \in Seq(Commands), s # <<>>
  PROVE  /\ NoStop(s) => NoStop(Tail(s)) /\ Head(s).cmd # "stop_relay"
         /\ Written(s) => \/ Written(Tail(s))
                          \/ Head(s).cmd = "start_relay" /\ NoStop(Tail(s))
         /\ \A q : AllAt(s, q) => /\ AllAt(Tail(s), q)
                                  /\ Head(s).cmd = "start_relay" => Head(s).port = q
<1> DEFINE t == Tail(s)
<1>1. /\ Len(s) \in Nat \ {0} /\ Len(t) = Len(s) - 1
      /\ \A i \in 1..Len(t) : t[i] = s[i + 1]
  BY HeadTailProperties, EmptySeq
<1>2. Head(s) = s[1] /\ 1 \in 1..Len(s)
  BY <1>1
<1> HIDE DEF t
<1>3. \A i \in 1..Len(t) : i + 1 \in 1..Len(s) /\ t[i] = s[i + 1]
  BY <1>1
<1>4. NoStop(s) => NoStop(t) /\ Head(s).cmd # "stop_relay"
  BY <1>2, <1>3 DEF NoStop
<1>5. ASSUME Written(s)
      PROVE  Written(t) \/ (Head(s).cmd = "start_relay" /\ NoStop(t))
  <2>1. PICK i \in 1..Len(s) : /\ s[i].cmd = "start_relay"
                               /\ \A j \in 1..Len(s) : i < j => s[j].cmd # "stop_relay"
    BY <1>5 DEF Written
  <2>2. CASE i = 1
    <3>1. \A j \in 1..Len(t) : i < j + 1
      BY <1>1, <2>2
    <3> QED
      BY <1>2, <1>3, <2>1, <2>2, <3>1 DEF NoStop
  <2>3. CASE i # 1
    <3>1. i - 1 \in 1..Len(t) /\ i - 1 + 1 = i
      BY <1>1, <2>3
    <3>2. \A j \in 1..Len(t) : i - 1 < j => i < j + 1
      BY <1>1
    <3> QED
      BY <1>3, <2>1, <3>1, <3>2 DEF Written
  <2> QED
    BY <2>2, <2>3
<1>6. \A q : AllAt(s, q) => AllAt(t, q) /\ (Head(s).cmd = "start_relay" => Head(s).port = q)
  BY <1>2, <1>3 DEF AllAt
<1> QED
  BY <1>4, <1>5, <1>6 DEF t

(* Any command at all is added.                                            *)
LEMMA QueueGrowsAt ==
  ASSUME NEW s \in Seq(Commands), NEW c \in Commands, NEW q,
         AllAt(s, q), c.cmd = "start_relay" => c.port = q
  PROVE  AllAt(Append(s, c), q)
<1> DEFINE t == Append(s, c)
<1>1. /\ Len(s) \in Nat /\ Len(t) = Len(s) + 1
      /\ \A i \in 1..Len(s) : t[i] = s[i]
      /\ t[Len(s) + 1] = c
  BY AppendProperties, LenProperties
<1> HIDE DEF t
<1>2. \A i \in 1..Len(t) : i \in 1..Len(s) \/ i = Len(s) + 1
  BY <1>1
<1>3. AllAt(t, q)
  BY <1>1, <1>2 DEF AllAt
<1> QED
  BY <1>3 DEF t

(***************************************************************************)
(* The relay serves.  Nothing waits behind a ready engine, no stop waits   *)
(* at all, and without a death there is a process to write to; while the   *)
(* port was never changed there is only one port; and a session's start is *)
(* waiting, or written with no stop behind it, or carried out with no stop *)
(* to come.                                                                *)
(***************************************************************************)
Queue ==
  /\ isReady => pending = <<>>
  /\ NoStop(pending)
  /\ deaths = 0 => /\ child # "dead"
                   /\ ~process => child = "none" /\ ~isReady /\ ~saidReady

QueuesAt(q) == AllAt(pending, q) /\ AllAt(stdin, q)

OnePort ==
  changes = 0 =>
    /\ QueuesAt(port)
    /\ Exists => sess.target = port /\ sess.rtp = port /\ sess.opt = port
    /\ \A h \in handlers : h.port = port

Coming == Starts(pending) \/ Written(stdin) \/ (relay = port /\ NoStop(stdin))

Reach == Exists /\ Calm => Coming

Relayed == Base /\ Queue /\ OnePort /\ Reach

LEMMA CommandKinds ==
  /\ StopRelay.cmd # "start_relay"
  /\ StartP2P.cmd # "start_relay" /\ StartP2P.cmd # "stop_relay"
  /\ \A p : StartRelay(p).cmd = "start_relay" /\ StartRelay(p).port = p
BY DEF StopRelay, StartP2P, StartRelay

(* A start or a request for a P2P session is sent.                         *)
LEMMA SendKeepsQueue ==
  ASSUME EngineTypeOK, Queue, NEW c \in Commands, c.cmd # "stop_relay", SendWhenReady(c)
  PROVE  /\ Queue'
         /\ \A q : QueuesAt(q) /\ (c.cmd = "start_relay" => c.port = q) => QueuesAt(q)'
         /\ deaths = 0 /\ c.cmd = "start_relay" => Starts(pending') \/ Written(stdin')
         /\ Starts(pending) => Starts(pending')
         /\ Written(stdin) => Written(stdin')
         /\ NoStop(stdin) => NoStop(stdin')
         /\ relay' = relay /\ deaths' = deaths /\ failures' = failures
<1>1. pending \in Seq(Commands) /\ stdin \in Seq(Commands)
  BY DEF EngineTypeOK
<1>2. CASE isReady
  <2>1. /\ stdin' = IF process THEN Append(stdin, c) ELSE stdin
        /\ UNCHANGED <<process, isReady, saidReady, pending, child, relay, deaths, failures>>
    BY <1>2 DEF SendWhenReady, SendLine
  <2>2. Queue'
    BY <2>1 DEF Queue
  <2>3. CASE process
    <3>1. stdin' = Append(stdin, c)
      BY <2>1, <2>3
    <3>2. \A q : AllAt(stdin, q) /\ (c.cmd = "start_relay" => c.port = q) => AllAt(stdin', q)
      BY <1>1, <3>1, QueueGrows, Zenon
    <3>3. \A q : QueuesAt(q) /\ (c.cmd = "start_relay" => c.port = q) => QueuesAt(q)'
      BY <2>1, <3>2 DEF QueuesAt
    <3>4. /\ c.cmd = "start_relay" => Written(stdin')
          /\ Written(stdin) => Written(stdin')
          /\ NoStop(stdin) => NoStop(stdin')
      BY <1>1, <3>1, QueueGrows, Zenon
    <3> QED
      BY <2>1, <2>2, <3>3, <3>4
  <2>4. CASE ~process
    BY <1>2, <2>1, <2>2, <2>4 DEF Queue, QueuesAt
  <2> QED
    BY <2>3, <2>4
<1>3. CASE ~isReady
  <2>1. /\ pending' = Append(pending, c)
        /\ \/ process' = process /\ child' = child
           \/ ~process /\ process' = TRUE /\ child' = "booting"
        /\ UNCHANGED <<isReady, saidReady, stdin, relay, deaths, failures>>
    BY <1>3 DEF SendWhenReady, Start
  <2>2. \A q : AllAt(pending, q) /\ (c.cmd = "start_relay" => c.port = q) => AllAt(pending', q)
    BY <1>1, <2>1, QueueGrows, Zenon
  <2>3. \A q : QueuesAt(q) /\ (c.cmd = "start_relay" => c.port = q) => QueuesAt(q)'
    BY <2>1, <2>2 DEF QueuesAt
  <2>4. /\ NoStop(pending) => NoStop(pending')
        /\ Starts(pending) => Starts(pending')
        /\ c.cmd = "start_relay" => Starts(pending')
    BY <1>1, <2>1, QueueGrows, Zenon
  <2>5. Queue'
    BY <1>3, <2>1, <2>4 DEF Queue
  <2> QED
    BY <2>1, <2>3, <2>4, <2>5
<1> QED
  BY <1>2, <1>3

(* A stop is written at once.                                              *)
LEMMA StopKeepsQueue ==
  ASSUME EngineTypeOK, Queue, SendLine(StopRelay)
  PROVE  Queue' /\ \A q : QueuesAt(q) => QueuesAt(q)'
<1>1. Queue'
  BY DEF Queue, SendLine
<1>2. ASSUME NEW q, QueuesAt(q) PROVE QueuesAt(q)'
  <2>1. CASE process
    <3>1. stdin' = Append(stdin, StopRelay) /\ pending' = pending
      BY <2>1 DEF SendLine
    <3>2. AllAt(stdin', q)
      BY <1>2, <3>1, QueueGrowsAt, CommandKinds, CommandTypes DEF EngineTypeOK, QueuesAt
    <3> QED
      BY <1>2, <3>1, <3>2 DEF QueuesAt
  <2>2. CASE ~process
    BY <1>2, <2>2 DEF SendLine, QueuesAt
  <2> QED
    BY <2>1, <2>2
<1> QED
  BY <1>1, <1>2

(* The engine's own steps: as long as nothing goes wrong, what is coming   *)
(* keeps coming.                                                           *)
LEMMA EngineKeepsQueue ==
  ASSUME EngineTypeOK, Queue, EngineStep
  PROVE  /\ Queue'
         /\ \A q : QueuesAt(q) => QueuesAt(q)'
         /\ deaths' = 0 => deaths = 0
         /\ failures' = 0 => failures = 0
         /\ QueuesAt(port) /\ deaths' = 0 /\ failures' = 0 /\ Coming /\ port' = port => Coming'
<1>0. pending \in Seq(Commands) /\ stdin \in Seq(Commands) /\ deaths \in Nat /\ failures \in Nat
  BY EngineAssumption DEF EngineTypeOK
<1>1. CASE Boot
  BY <1>1 DEF Boot, Queue, QueuesAt, Coming
<1>2. CASE HandleReady
  <2>1. /\ stdin' = stdin \o pending /\ pending' = <<>>
        /\ UNCHANGED <<process, child, relay, deaths, failures>>
    BY <1>2 DEF HandleReady
  <2>2. NoStop(pending') /\ \A q : AllAt(pending', q)
    BY <2>1, EmptyQueue, Zenon
  <2>3. Queue'
    BY <1>2, <2>1, <2>2 DEF Queue, HandleReady
  <2>4. /\ Starts(pending) => Written(stdin')
        /\ Written(stdin) => Written(stdin')
        /\ NoStop(stdin) => NoStop(stdin')
        /\ \A q : AllAt(stdin, q) /\ AllAt(pending, q) => AllAt(stdin', q)
    <3>1. NoStop(pending)
      BY DEF Queue
    <3> QED
      BY <1>0, <2>1, <3>1, QueueIsWritten, Zenon
  <2>5. \A q : QueuesAt(q) => QueuesAt(q)'
    BY <2>2, <2>4 DEF QueuesAt
  <2>6. Coming /\ port' = port => Coming'
    BY <2>1, <2>4 DEF Coming
  <2> QED
    BY <2>1, <2>3, <2>5, <2>6
<1>3. CASE HandleCommand
  <2>1. /\ stdin # <<>> /\ stdin' = Tail(stdin)
        /\ UNCHANGED <<process, isReady, saidReady, pending, child, deaths>>
    BY <1>3 DEF HandleCommand
  <2>2. Queue'
    BY <2>1 DEF Queue
  <2>3. /\ NoStop(stdin) => NoStop(stdin') /\ Head(stdin).cmd # "stop_relay"
        /\ Written(stdin) => \/ Written(stdin')
                             \/ Head(stdin).cmd = "start_relay" /\ NoStop(stdin')
        /\ \A q : AllAt(stdin, q) =>
             AllAt(stdin', q) /\ (Head(stdin).cmd = "start_relay" => Head(stdin).port = q)
    BY <1>0, <2>1, QueueShrinks, Zenon
  <2>4. \A q : QueuesAt(q) => QueuesAt(q)'
    BY <2>1, <2>3 DEF QueuesAt
  <2>5. failures' = failures \/ failures' = failures + 1
    BY <1>3 DEF HandleCommand
  <2>6. failures' = 0 => failures = 0
    BY <1>0, <2>5
  <2>7. ASSUME QueuesAt(port), failures' = 0, Coming, port' = port PROVE Coming'
    <3>1. /\ Head(stdin).cmd = "start_relay" => relay' = port
          /\ Head(stdin).cmd # "start_relay" /\ Head(stdin).cmd # "stop_relay" => relay' = relay
      <4>1. \/ Head(stdin).cmd = "start_relay" /\ relay' = Head(stdin).port
            \/ failures' = failures + 1
            \/ Head(stdin).cmd = "stop_relay"
            \/ Head(stdin).cmd = "start_p2p" /\ relay' = relay
        BY <1>3 DEF HandleCommand
      <4>2. failures' # failures + 1
        BY <1>0, <2>7
      <4>3. Head(stdin).cmd = "start_relay" => Head(stdin).port = port
        BY <2>3, <2>7 DEF QueuesAt
      <4> QED
        BY <4>1, <4>2, <4>3
    <3>2. CASE Starts(pending)
      BY <2>1, <3>2 DEF Coming
    <3>3. CASE Written(stdin)
      BY <2>3, <2>7, <3>1, <3>3 DEF Coming
    <3>4. CASE relay = port /\ NoStop(stdin)
      BY <2>3, <2>7, <3>1, <3>4 DEF Coming
    <3> QED
      BY <2>7, <3>2, <3>3, <3>4 DEF Coming
  <2> QED
    BY <2>1, <2>2, <2>4, <2>6, <2>7
<1>4. CASE Die
  <2>1. /\ deaths' = deaths + 1 /\ failures' = failures
        /\ UNCHANGED <<isReady, pending, stdin>>
    BY <1>4 DEF Die
  <2>2. deaths' # 0
    BY <1>0, <2>1
  <2> QED
    BY <2>1, <2>2 DEF Queue, QueuesAt
<1>5. CASE HandleExit
  <2>1. /\ child = "dead" /\ isReady' = FALSE /\ stdin' = <<>>
        /\ UNCHANGED <<pending, deaths, failures>>
    BY <1>5 DEF HandleExit
  <2>2. deaths # 0 /\ deaths' # 0
    BY <2>1 DEF Queue
  <2>3. \A q : AllAt(stdin', q)
    BY <2>1, EmptyQueue, Zenon
  <2> QED
    BY <2>1, <2>2, <2>3 DEF Queue, QueuesAt
<1> QED
  BY <1>1, <1>2, <1>3, <1>4, <1>5 DEF EngineStep

(* The relay of port p is made sure of.                                    *)
LEMMA EnsureKeepsRelay ==
  ASSUME Relayed, NEW p \in Ports, changes = 0 => p = port, EnsureRelay(p), UNCHANGED rowVars
  PROVE  /\ Queue'
         /\ changes' = 0 => QueuesAt(port)'
         /\ Calm' => Coming'
<1>0. EngineTypeOK /\ Queue /\ OnePort /\ Reach
  BY DEF Relayed, Base, TypeOK
<1>1. CASE RelayRunning(p)
  <2>1. UNCHANGED <<pending, stdin, isReady, saidReady, process, child, relay, deaths,
                    failures, port, changes>>
    BY <1>1 DEF EnsureRelay, engineVars, rowVars
  <2>2. Queue' /\ (changes' = 0 => QueuesAt(port)')
    BY <1>0, <2>1 DEF Queue, OnePort, QueuesAt
  <2>3. Calm' => Coming'
    BY <1>0, <1>1, <2>1 DEF Reach, Calm, Coming, RelayRunning
  <2> QED
    BY <2>2, <2>3
<1>2. CASE ~RelayRunning(p)
  <2> DEFINE c == StartRelay(p)
  <2>1. c \in Commands /\ c.cmd = "start_relay" /\ c.port = p /\ c.cmd # "stop_relay"
    BY CommandTypes, CommandKinds
  <2>2. SendWhenReady(c)
    BY <1>2 DEF EnsureRelay
  <2>3. UNCHANGED <<port, changes>>
    BY DEF rowVars
  <2> HIDE DEF c
  <2>4. /\ Queue'
        /\ \A q : QueuesAt(q) /\ c.port = q => QueuesAt(q)'
        /\ deaths = 0 => Starts(pending') \/ Written(stdin')
        /\ deaths' = deaths
    BY <1>0, <2>1, <2>2, SendKeepsQueue
  <2>5. changes' = 0 => QueuesAt(port)'
    BY <1>0, <2>1, <2>3, <2>4 DEF OnePort, QueuesAt
  <2>6. Calm' => Coming'
    BY <2>4 DEF Calm, Coming
  <2> QED
    BY <2>4, <2>5, <2>6
<1> QED
  BY <1>1, <1>2

LEMMA StartKeepsRelay ==
  ASSUME Relayed, NEW p \in Ports, changes = 0 => p = port, StartH264Transcode(p),
         UNCHANGED rowVars, handlers' \subseteq handlers
  PROVE  Queue' /\ OnePort' /\ Reach'
<1>1. Queue' /\ (changes' = 0 => QueuesAt(port)') /\ (Calm' => Coming')
  BY EnsureKeepsRelay DEF StartH264Transcode
<1>2. sess'.target = p /\ sess'.rtp = p /\ sess'.opt = p
  BY DEF StartH264Transcode
<1>3. UNCHANGED <<port, changes>>
  BY DEF rowVars
<1>4. OnePort'
  BY <1>1, <1>2, <1>3 DEF OnePort, Relayed
<1> QED
  BY <1>1, <1>4 DEF Reach

LEMMA SwitchKeepsRelay ==
  ASSUME Relayed, NEW p \in Ports, changes = 0 => p = port, SwitchToFallback(p),
         UNCHANGED rowVars, handlers' \subseteq handlers
  PROVE  Queue' /\ OnePort' /\ Reach'
<1>0. UNCHANGED <<port, changes>>
  BY DEF rowVars
<1>1. CASE PlaysCard
  <2>1. UNCHANGED <<pending, stdin, isReady, saidReady, process, child, relay, deaths,
                    failures, sess>>
    BY <1>1 DEF SwitchToFallback, engineVars, streamVars
  <2>2. Queue' /\ Reach'
    BY <1>0, <2>1 DEF Relayed, Queue, Reach, Calm, Coming, Exists
  <2>3. OnePort'
    BY <1>0, <2>1 DEF Relayed, OnePort, QueuesAt, Exists
  <2> QED
    BY <2>2, <2>3
<1>2. CASE ~PlaysCard
  <2>1. Queue' /\ (changes' = 0 => QueuesAt(port)') /\ (Calm' => Coming')
    BY <1>2, EnsureKeepsRelay DEF SwitchToFallback
  <2>2. sess'.opt = p /\ (changes = 0 => sess'.target = p /\ sess'.rtp = p)
    <3>s. Spared = 0
      BY SparedIsNone DEF Relayed, Base
    <3>1. CASE Exists
      <4>1. sess \in Session
        BY <3>1 DEF Relayed, Base, Stream, Exists
      <4>2. PlayCard(OnFallback(Untimed, p), Spared)
        BY <1>2, <3>1 DEF SwitchToFallback
      <4>3. PICK t \in Session : /\ t.opt = p /\ t.target = sess.target /\ t.rtp = sess.rtp
                                /\ PlayCard(t, Spared)
        BY <4>1, <4>2, UntimedSession, OnFallbackSession
      <4>4. sess'.opt = p /\ sess'.target = sess.target /\ sess'.rtp = sess.rtp
        BY <3>s, <4>3, PlayCardSession, Zenon
      <4> QED
        BY <3>1, <4>4 DEF Relayed, OnePort
    <3>2. CASE ~Exists
      <4>1. PlayCard(NewFallback(p), Spared)
        BY <1>2, <3>2 DEF SwitchToFallback
      <4>2. PICK t \in Session : /\ t.opt = p /\ t.target = p /\ t.rtp = p
                                /\ PlayCard(t, Spared)
        BY <4>1, NewFallbackSession
      <4>3. sess'.opt = p /\ sess'.target = p /\ sess'.rtp = p
        BY <3>s, <4>2, PlayCardSession, Zenon
      <4> QED
        BY <4>3 DEF Relayed, OnePort
    <3> QED
      BY <3>1, <3>2
  <2>3. OnePort'
    BY <1>0, <2>1, <2>2 DEF OnePort, Relayed
  <2> QED
    BY <2>1, <2>3 DEF Reach
<1> QED
  BY <1>1, <1>2

(* A timer or an exit that changes nothing but the session and its process *)
(* leaves the ports as they are.                                           *)
LEMMA SessionKeepsRelay ==
  ASSUME Relayed, Exists, UNCHANGED <<engineVars, rowVars, handlers>>,
         sess'.target = sess.target, sess'.rtp = sess.rtp, sess'.opt = sess.opt
  PROVE  Queue' /\ OnePort' /\ Reach'
<1>1. UNCHANGED <<pending, stdin, isReady, saidReady, process, child, relay, deaths, failures,
                  port, changes, handlers>>
  BY DEF engineVars, rowVars
<1>2. Queue' /\ Reach'
  BY <1>1 DEF Relayed, Queue, Reach, Calm, Coming
<1>3. OnePort'
  BY <1>1 DEF Relayed, OnePort, QueuesAt
<1> QED
  BY <1>2, <1>3

(* What the timers and exits do to a session's ports.                      *)
LEMMA PortsStay ==
  ASSUME Relayed, Exists, StartTimer \/ LiveExits \/ FallbackExits
  PROVE  sess'.target = sess.target /\ sess'.rtp = sess.rtp /\ sess'.opt = sess.opt
<1>1. sess \in Session
  BY DEF Relayed, Base, Stream, Exists
<1>2. ASSUME NEW s \in Session, NEW x \in {"running", "dud", "exited"}
      PROVE  LET t == [s EXCEPT !.proc = x]
             IN  t.target = s.target /\ t.rtp = s.rtp /\ t.opt = s.opt
  BY <1>2 DEF Session
<1>3. ASSUME NEW s \in Session, s.target = sess.target, s.rtp = sess.rtp, NEW n, n = 0,
             PlayCard(OnFallback(s, sess.opt), n)
      PROVE  sess'.target = sess.target /\ sess'.rtp = sess.rtp /\ sess'.opt = sess.opt
  <2>1. sess.opt \in Ports
    BY <1>1 DEF Session
  <2>2. PICK t \in Session : /\ t.opt = sess.opt /\ t.target = s.target /\ t.rtp = s.rtp
                            /\ PlayCard(t, n)
    BY <1>3, <2>1, OnFallbackSession
  <2>3. sess'.target = t.target /\ sess'.rtp = t.rtp /\ sess'.opt = t.opt
    BY <1>3, <2>2, PlayCardSession, Zenon
  <2> QED
    BY <1>3, <2>2, <2>3
<1>4. /\ Started \in Session /\ Started.target = sess.target /\ Started.rtp = sess.rtp
      /\ Started.opt = sess.opt
  BY <1>1, StartedSession
<1>5. CASE StartTimer
  <2>1. CASE sess' = [Started EXCEPT !.proc = "running"]
    BY <1>2, <1>4, <2>1
  <2>2. CASE sess' = [Started EXCEPT !.proc = "dud"]
    BY <1>2, <1>4, <2>2
  <2>3. CASE PlayCard(OnFallback(Started, sess.opt), writers)
    <3>1. sess.proc = "null" /\ writers = 0
      BY <1>5 DEF StartTimer, Relayed, Base, Stream, Shape, Count, Running
    <3> QED
      BY <1>3, <1>4, <2>3, <3>1, Zenon
  <2> QED
    BY <1>5, <2>1, <2>2, <2>3 DEF StartTimer
<1>6. CASE LiveExits
  <2>1. PlayCard(OnFallback(sess, sess.opt), writers - 1) /\ writers = 1
    BY <1>6 DEF LiveExits, Relayed, Base, Stream, Count
  <2>2. writers - 1 = 0
    BY <2>1
  <2> QED
    BY <1>1, <1>3, <2>1, <2>2, Zenon
<1>7. CASE FallbackExits
  <2>1. sess' = [sess EXCEPT !.proc = "exited", !.retrying = TRUE]
    BY <1>7 DEF FallbackExits
  <2> QED
    BY <1>1, <2>1 DEF Session
<1> QED
  BY <1>5, <1>6, <1>7

LEMMA NextRelayed ==
  ASSUME Relayed, [Next]_vars
  PROVE  Relayed'
<1>0. /\ EngineTypeOK /\ Queue /\ OnePort /\ Reach /\ Stream
      /\ port \in Ports /\ changes \in Nat /\ handlers \subseteq Handler
  BY TranscoderAssumption DEF Relayed, Base, TypeOK
<1>b. Base'
  BY NextBase DEF Relayed
<1>u. ASSUME UNCHANGED <<engineVars, sess, port, changes>>,
             \A h \in handlers' : h \in handlers \/ h.port = port
      PROVE  Queue' /\ OnePort' /\ Reach'
  <2>1. UNCHANGED <<pending, stdin, isReady, saidReady, process, child, relay, deaths, failures>>
    BY <1>u DEF engineVars
  <2>2. Queue' /\ Reach'
    BY <1>0, <1>u, <2>1 DEF Queue, Reach, Calm, Coming, Exists
  <2>3. OnePort'
    BY <1>0, <1>u, <2>1 DEF OnePort, QueuesAt, Exists
  <2> QED
    BY <2>2, <2>3
<1>1. CASE Engine
  <2>1. EngineStep /\ UNCHANGED <<sess, port, changes, handlers>>
    BY <1>1 DEF Engine, streamVars, rowVars
  <2>2. /\ Queue'
        /\ \A q : QueuesAt(q) => QueuesAt(q)'
        /\ deaths' = 0 => deaths = 0
        /\ failures' = 0 => failures = 0
        /\ QueuesAt(port) /\ deaths' = 0 /\ failures' = 0 /\ Coming => Coming'
    BY <1>0, <2>1, EngineKeepsQueue
  <2>3. OnePort'
    BY <1>0, <2>1, <2>2 DEF OnePort, QueuesAt, Exists
  <2>4. Reach'
    BY <1>0, <2>1, <2>2 DEF Reach, Calm, OnePort, Exists
  <2> QED
    BY <1>b, <2>2, <2>3, <2>4 DEF Relayed
<1>2. CASE StartTimer \/ LiveExits \/ FallbackExits
  <2>1. Exists /\ UNCHANGED <<engineVars, rowVars, handlers>>
    BY <1>2 DEF StartTimer, LiveExits, FallbackExits, Running
  <2> QED
    BY <1>2, <1>b, <2>1, PortsStay, SessionKeepsRelay DEF Relayed
<1>3. CASE RetryTimer
  <2>1. sess.opt \in Ports /\ (changes = 0 => sess.opt = port)
    BY <1>0, <1>3 DEF RetryTimer, Stream, Exists, Session, OnePort
  <2>2. StartH264Transcode(sess.opt) /\ UNCHANGED rowVars /\ handlers' \subseteq handlers
    BY <1>3 DEF RetryTimer
  <2> QED
    BY <1>b, <2>1, <2>2, StartKeepsRelay DEF Relayed
<1>4. ASSUME NEW w \in {"live", "fallback"}, ReadRow(w) PROVE Relayed'
  <2>1. UNCHANGED <<engineVars, sess, port, changes>>
        /\ \A h \in handlers' : h \in handlers \/ h.port = port
    BY <1>4 DEF ReadRow, streamVars, rowVars
  <2> QED
    BY <1>b, <1>u, <2>1 DEF Relayed
<1>5. ASSUME NEW h \in handlers, Resume(h) PROVE Relayed'
  <2>1. h.port \in Ports /\ (changes = 0 => h.port = port)
    BY <1>0 DEF Handler, OnePort
  <2>2. /\ StartH264Transcode(h.port) \/ SwitchToFallback(h.port)
        /\ UNCHANGED rowVars /\ handlers' \subseteq handlers
    BY <1>5 DEF Resume
  <2> QED
    BY <1>b, <2>1, <2>2, StartKeepsRelay, SwitchKeepsRelay DEF Relayed
<1>6. CASE RequestP2P
  <2>1. SendWhenReady(StartP2P) /\ UNCHANGED <<sess, port, changes, handlers>>
    BY <1>6 DEF RequestP2P, streamVars, rowVars
  <2>2. /\ Queue'
        /\ \A q : QueuesAt(q) => QueuesAt(q)'
        /\ Starts(pending) => Starts(pending')
        /\ Written(stdin) => Written(stdin')
        /\ NoStop(stdin) => NoStop(stdin')
        /\ relay' = relay /\ deaths' = deaths /\ failures' = failures
    BY <1>0, <2>1, SendKeepsQueue, CommandTypes, CommandKinds
  <2>3. OnePort'
    BY <1>0, <2>1, <2>2 DEF OnePort, QueuesAt, Exists
  <2>4. Reach'
    BY <1>0, <2>1, <2>2 DEF Reach, Calm, Coming, Exists
  <2> QED
    BY <1>b, <2>2, <2>3, <2>4 DEF Relayed
<1>7. ASSUME NEW p \in Ports, Update(p) PROVE Relayed'
  <2>1. UNCHANGED <<pending, isReady, saidReady, process, child, deaths>> /\ changes' = changes + 1
    BY <1>7 DEF Update, engineVars
  <2>2. changes' # 0
    BY <1>0, <2>1
  <2> QED
    BY <1>0, <1>b, <2>1, <2>2 DEF Relayed, Queue, OnePort, Reach, Calm
<1>8. CASE Delete
  <2>1. UNCHANGED <<port, changes, handlers>> /\ StopTranscode
    BY <1>8 DEF Delete
  <2>2. CASE Exists
    <3>1. sess' = NoSession /\ SendLine(StopRelay)
      BY <2>1, <2>2 DEF StopTranscode
    <3>2. Queue' /\ \A q : QueuesAt(q) => QueuesAt(q)'
      BY <1>0, <3>1, StopKeepsQueue
    <3>3. ~Exists'
      BY <3>1 DEF Exists
    <3>4. OnePort'
      BY <1>0, <2>1, <3>2, <3>3 DEF OnePort, QueuesAt
    <3> QED
      BY <1>b, <3>2, <3>3, <3>4 DEF Relayed, Reach
  <2>3. CASE ~Exists
    BY <1>b, <1>u, <2>1, <2>3 DEF StopTranscode, streamVars, Relayed
  <2> QED
    BY <2>2, <2>3
<1>9. CASE Removed \/ Create \/ UNCHANGED vars
  <2>1. UNCHANGED <<engineVars, sess, port, changes, handlers>>
    BY <1>9 DEF Removed, Create, vars, streamVars, rowVars
  <2> QED
    BY <1>b, <1>u, <2>1 DEF Relayed
<1> QED
  BY <1>1, <1>2, <1>3, <1>4, <1>5, <1>6, <1>7, <1>8, <1>9 DEF Next

(* As long as the engine does not die, no relay fails and the port is not  *)
(* changed, a session's relay serves the session's port whenever the       *)
(* queues are empty, and ffmpeg writes to that port: whatever order stops, *)
(* starts and resumed handlers come in (transcoder.service.ts with         *)
(* native-engine.ts).                                                      *)
THEOREM RelayAlwaysServes == Spec => []RelayServes
<1>1. Init => Relayed
  <2> SUFFICES ASSUME Init PROVE Relayed
    OBVIOUS
  <2>1. pending = <<>> /\ stdin = <<>> /\ ~isReady /\ ~saidReady /\ ~Exists
        /\ child # "dead" /\ (~process => child = "none")
    BY DEF Init, EngineInit, Exists
  <2>2. NoStop(pending) /\ \A q : AllAt(pending, q) /\ AllAt(stdin, q)
    BY <2>1, EmptyQueue, Zenon
  <2>3. handlers = {}
    BY DEF Init
  <2> QED
    BY <2>1, <2>2, <2>3, InitBase DEF Relayed, Queue, OnePort, QueuesAt, Reach
<1>2. Relayed /\ [Next]_vars => Relayed'
  BY NextRelayed
<1>3. Relayed => RelayServes
  <2> SUFFICES ASSUME Relayed, Exists, Calm, Drained
               PROVE  relay = sess.target /\ sess.rtp = sess.target
    BY DEF RelayServes
  <2>1. ~Starts(pending) /\ ~Written(stdin)
    BY EmptyQueue, Zenon DEF Drained
  <2>2. relay = port
    BY <2>1 DEF Relayed, Reach, Coming
  <2> QED
    BY <2>2 DEF Relayed, OnePort, Calm
<1> QED
  BY <1>1, <1>2, <1>3, PTL DEF Spec
=============================================================================
