------------------------ MODULE StreamRecoveryProofs ------------------------
(***************************************************************************)
(* What holds of the supervision of a camera for any number of calls,      *)
(* waiting events, requests and faults.                                    *)
(*                                                                         *)
(* That activeStreams never names a dead camera for good is a fact about   *)
(* the order of the waiting events: when the peer is dead, its             *)
(* disconnection comes after every start that is still to be read, or it   *)
(* has been read and no start waits (Sound).                               *)
(***************************************************************************)
EXTENDS StreamRecovery, TLAPS, SequenceTheorems

NoStart(s) == \A i \in 1..Len(s) : s[i] # "started"

Told(s) == \E i \in 1..Len(s) :
             /\ s[i] = "disconnected"
             /\ \A j \in 1..Len(s) : j > i => s[j] # "started"

Sound == Dead => Told(events) \/ (~active /\ NoStart(events))

(***************************************************************************)
(* Queues of events.                                                       *)
(***************************************************************************)
LEMMA AppendedType ==
  ASSUME NEW s \in Seq(Event), NEW e \in Event
  PROVE  Append(s, e) \in Seq(Event)
BY AppendProperties

LEMMA TailType ==
  ASSUME NEW s \in Seq(Event), s # <<>>
  PROVE  Tail(s) \in Seq(Event)
BY HeadTailProperties

LEMMA ToldByReport ==
  ASSUME NEW s \in Seq(Event)
  PROVE  Told(Append(s, "disconnected"))
<1> DEFINE t == Append(s, "disconnected")
<1>1. "disconnected" \in Event
  BY DEF Event
<1>2. Len(s) \in Nat
  BY LenProperties
<1>3. Len(t) = Len(s) + 1 /\ t[Len(s) + 1] = "disconnected"
  BY <1>1, AppendProperties
<1> HIDE DEF t
<1>4. \A j \in 1..Len(t) : ~(j > Len(s) + 1)
  BY <1>2, <1>3
<1>5. Len(s) + 1 \in 1..Len(t)
  BY <1>2, <1>3
<1>6. Told(t)
  BY <1>3, <1>4, <1>5 DEF Told
<1> QED
  BY <1>6 DEF t

LEMMA AfterHead ==
  ASSUME NEW s \in Seq(Event), s # <<>>
  PROVE  /\ Len(Tail(s)) \in Nat /\ Len(s) = Len(Tail(s)) + 1
         /\ s[1] = Head(s)
         /\ \A i \in 1..Len(Tail(s)) : i + 1 \in 1..Len(s) /\ Tail(s)[i] = s[i + 1]
<1>1. Tail(s) \in Seq(Event) /\ Len(Tail(s)) = Len(s) - 1
  BY HeadTailProperties
<1>2. Len(s) \in Nat /\ Len(Tail(s)) \in Nat
  BY <1>1, LenProperties
<1>3. \A i \in 1..Len(Tail(s)) : Tail(s)[i] = s[i + 1]
  BY HeadTailProperties
<1>4. s[1] = Head(s)
  OBVIOUS
<1> QED
  BY <1>1, <1>2, <1>3, <1>4

LEMMA NoStartTail ==
  ASSUME NEW s \in Seq(Event), s # <<>>, NoStart(s)
  PROVE  Head(s) # "started" /\ NoStart(Tail(s))
<1>1. 1 \in 1..Len(s)
  BY AfterHead
<1>2. Head(s) # "started"
  BY <1>1, AfterHead DEF NoStart
<1>3. NoStart(Tail(s))
  BY AfterHead DEF NoStart
<1> QED
  BY <1>2, <1>3

(* Reading one event leaves the report waiting, or it was the report and   *)
(* nothing that started comes after it.                                    *)
LEMMA ToldTail ==
  ASSUME NEW s \in Seq(Event), s # <<>>, Told(s)
  PROVE  Told(Tail(s)) \/ (Head(s) = "disconnected" /\ NoStart(Tail(s)))
<1> DEFINE t == Tail(s)
<1>1. PICK i \in 1..Len(s) : s[i] = "disconnected" /\ \A j \in 1..Len(s) : j > i => s[j] # "started"
  BY DEF Told
<1>2. Len(t) \in Nat /\ Len(s) = Len(t) + 1 /\ s[1] = Head(s)
  BY AfterHead
<1>3. \A j \in 1..Len(t) : j + 1 \in 1..Len(s) /\ t[j] = s[j + 1]
  BY AfterHead
<1> HIDE DEF t
<1>4. CASE i = 1
  <2>1. \A j \in 1..Len(t) : t[j] # "started"
    BY <1>1, <1>2, <1>3, <1>4
  <2> QED
    BY <1>1, <1>2, <1>4, <2>1 DEF NoStart, t
<1>5. CASE i # 1
  <2>1. i - 1 \in 1..Len(t) /\ t[i - 1] = s[i]
    BY <1>2, <1>3, <1>5
  <2>2. \A j \in 1..Len(t) : j > i - 1 => t[j] # "started"
    BY <1>1, <1>2, <1>3
  <2>3. Told(t)
    BY <1>1, <2>1, <2>2 DEF Told
  <2> QED
    BY <2>3 DEF t
<1> QED
  BY <1>4, <1>5

(***************************************************************************)
(* Type correctness.                                                       *)
(***************************************************************************)
LEMMA Ranges ==
  /\ NoCall \notin Call
  /\ "started" \in Event /\ "disconnected" \in Event /\ "unhealthy" \in Event
  /\ 0 \in 0..SnapLimit /\ 0 \in 0..MaxDisturbed
BY SignalingAssumption, RecoveryAssumption DEF Call, NoCall, Event

LEMMA InitTyped == Init => TypeOK
<1> SUFFICES ASSUME Init PROVE TypeOK
  OBVIOUS
<1>1. SignalTypeOK
  <2>1. <<>> \in Seq(Event)
    BY EmptySeq
  <2> QED
    BY <2>1 DEF Init, SignalInit, SignalTypeOK, Stage, PeerState
<1>2. handlers \subseteq Handler
  BY DEF Init, Handler
<1> QED
  BY <1>1, <1>2, Ranges DEF Init, TypeOK

(* The engine's session and its events, by the kinds of change.            *)
LEMMA ClosedType == SignalTypeOK => Closed \in Seq(Event)
BY AppendedType, Ranges DEF Closed, SignalTypeOK

PeerTyped == peer \in PeerState /\ events \in Seq(Event)

LEMMA StopTyped == SignalTypeOK /\ StopP2P => PeerTyped'
BY ClosedType DEF StopP2P, PeerTyped, PeerState

LEMMA StartTyped == SignalTypeOK /\ (StartP2P \/ StopThenStartP2P) => PeerTyped'
<1> SUFFICES ASSUME SignalTypeOK, StartP2P \/ StopThenStartP2P PROVE PeerTyped'
  OBVIOUS
<1>1. Append(Closed, "started") \in Seq(Event)
  BY ClosedType, AppendedType, Ranges
<1>2. CASE peer' = "new" /\ events' = Append(Closed, "started")
  BY <1>1, <1>2 DEF PeerTyped, PeerState
<1>3. CASE UNCHANGED peerVars
  BY <1>3 DEF PeerTyped, SignalTypeOK, peerVars
<1>4. CASE StopP2P
  BY <1>4, StopTyped
<1> QED
  BY <1>2, <1>3, <1>4 DEF StartP2P, StopThenStartP2P

LEMMA ReportTyped ==
  ASSUME SignalTypeOK, NEW e \in Event, NEW p \in PeerState, Reports(e, p)
  PROVE  PeerTyped'
BY AppendedType DEF Reports, PeerTyped, SignalTypeOK

LEMMA ReadTyped ==
  ASSUME SignalTypeOK, NEW e, Reads(e)
  PROVE  PeerTyped'
BY TailType DEF Reads, PeerTyped, SignalTypeOK

CallTyped == call \in [Call -> Stage] /\ sess \in Call \cup {NoCall}

LEMMA EndedType == SignalTypeOK => Ended \in [Call -> Stage]
BY DEF Ended, SignalTypeOK, Stage

LEMMA StopSessionTyped == SignalTypeOK /\ StopCameraSession => (CallTyped /\ PeerTyped)'
BY EndedType, StopTyped DEF StopCameraSession, CallTyped

LEMMA StartSessionTyped == SignalTypeOK /\ StartCameraSession => (CallTyped /\ PeerTyped)'
<1> SUFFICES ASSUME SignalTypeOK, StartCameraSession PROVE (CallTyped /\ PeerTyped)'
  OBVIOUS
<1>1. PICK c \in Free : call' = [Ended EXCEPT ![c] = "asking"]
  BY DEF StartCameraSession
<1>2. call' \in [Call -> Stage]
  BY <1>1, EndedType DEF Stage
<1> QED
  BY <1>2, StopTyped DEF StartCameraSession, CallTyped

LEMMA StreamTyped == SignalTypeOK /\ StartStream => (CallTyped /\ PeerTyped)'
<1>1. SignalTypeOK /\ UNCHANGED callVars => CallTyped'
  BY DEF callVars, CallTyped, SignalTypeOK
<1> QED
  BY <1>1, StartSessionTyped, StartTyped DEF StartStream

(* Everything else has its type, or is one of the few things assigned.     *)
RestTyped ==
  /\ row \in BOOLEAN /\ loggedIn \in BOOLEAN
  /\ active \in BOOLEAN /\ timer \in BOOLEAN
  /\ snap \in BOOLEAN /\ failures \in 0..SnapLimit
  /\ handlers \subseteq Handler
  /\ disturbed \in 0..MaxDisturbed

LEMMA TypeParts == (CallTyped /\ PeerTyped /\ RestTyped)' => TypeOK'
BY DEF TypeOK, SignalTypeOK, CallTyped, PeerTyped, RestTyped

LEMMA DisturbsTyped == TypeOK /\ Disturbs => disturbed' \in 0..MaxDisturbed
BY RecoveryAssumption DEF TypeOK, Disturbs

LEMMA ScheduleTyped == TypeOK /\ ScheduleStreamRecovery => timer' \in BOOLEAN
BY RecoveryAssumption DEF TypeOK, ScheduleStreamRecovery, CanRecover

LEMMA FailureTyped == TypeOK /\ SnapshotFails => failures' \in 0..SnapLimit
BY RecoveryAssumption DEF TypeOK, SnapshotFails, HandleFailure

LEMMA SameCalls == TypeOK /\ UNCHANGED callVars => CallTyped'
BY DEF TypeOK, SignalTypeOK, CallTyped, callVars

LEMMA SamePeer == TypeOK /\ UNCHANGED peerVars => PeerTyped'
BY DEF TypeOK, SignalTypeOK, PeerTyped, peerVars

LEMMA SameSignals == TypeOK /\ UNCHANGED signalVars => (CallTyped /\ PeerTyped)'
BY DEF TypeOK, SignalTypeOK, CallTyped, PeerTyped, signalVars

LEMMA SteadyTyped == TypeOK /\ Steady /\ (UNCHANGED disturbed \/ Disturbs) => RestTyped'
BY DisturbsTyped DEF TypeOK, Steady, RestTyped, snapVars

LEMMA EventTyped == TypeOK /\ EventRead => TypeOK'
<1> SUFFICES ASSUME TypeOK, EventRead PROVE TypeOK'
  OBVIOUS
<1>1. CallTyped'
  BY SameCalls DEF EventRead, OnSessionStarted, OnDisconnected, OnUnhealthy
<1>2. PeerTyped'
  BY ReadTyped DEF TypeOK, EventRead, OnSessionStarted, OnDisconnected, OnUnhealthy
<1>3. RestTyped'
  BY DEF TypeOK, RestTyped, EventRead, OnSessionStarted, OnDisconnected, OnUnhealthy,
         AwaitsRow, Handler, snapVars
<1> QED
  BY <1>1, <1>2, <1>3, TypeParts

LEMMA HandlerTyped == TypeOK /\ HandlerGoesOn => TypeOK'
<1> SUFFICES ASSUME TypeOK, HandlerGoesOn PROVE TypeOK'
  OBVIOUS
<1>1. CASE StartedSaved
  <2>1. (CallTyped /\ PeerTyped)'
    BY <1>1, SameSignals DEF StartedSaved
  <2>2. RestTyped'
    BY <1>1, Ranges DEF TypeOK, RestTyped, StartedSaved, Ends, Resumes, EnsureSnapshotter
  <2> QED
    BY <2>1, <2>2, TypeParts
<1>2. CASE DisconnectedSaved
  <2>1. (CallTyped /\ PeerTyped)'
    BY <1>2, SameSignals DEF DisconnectedSaved
  <2>2. RestTyped'
    BY <1>2, ScheduleTyped DEF TypeOK, RestTyped, DisconnectedSaved, Ends, Resumes, snapVars
  <2> QED
    BY <2>1, <2>2, TypeParts
<1>3. CASE UnhealthyFound
  <2>1. (CallTyped /\ PeerTyped)'
    BY <1>3, SameSignals DEF UnhealthyFound
  <2>2. RestTyped'
    BY <1>3, ScheduleTyped, Ranges
    DEF TypeOK, RestTyped, UnhealthyFound, Ends, Resumes, StopSnapshotter
  <2> QED
    BY <2>1, <2>2, TypeParts
<1>4. CASE Removed \/ LoginSaved \/ ExpiryTold
  <2>1. (CallTyped /\ PeerTyped)'
    BY <1>4, SameSignals DEF Removed, LoginSaved, ExpiryTold
  <2>2. RestTyped'
    BY <1>4 DEF TypeOK, RestTyped, Removed, LoginSaved, ExpiryTold, Ends, Resumes, Handler, snapVars
  <2> QED
    BY <2>1, <2>2, TypeParts
<1>5. CASE ExpirySaved \/ LogoutSaved
  <2>1. (CallTyped /\ PeerTyped)'
    BY <1>5, StopSessionTyped DEF TypeOK, ExpirySaved, LogoutSaved
  <2>2. RestTyped'
    BY <1>5, Ranges
    DEF TypeOK, RestTyped, ExpirySaved, LogoutSaved, Ends, Resumes, Handler, StopSnapshotter
  <2> QED
    BY <2>1, <2>2, TypeParts
<1>6. ASSUME NEW h \in {"auto", "add"}, SavedThenStarts(h) PROVE TypeOK'
  <2>1. (CallTyped /\ PeerTyped)'
    BY <1>6, StreamTyped DEF TypeOK, SavedThenStarts
  <2>2. RestTyped'
    BY <1>6 DEF TypeOK, RestTyped, SavedThenStarts, Ends, Resumes, snapVars
  <2> QED
    BY <2>1, <2>2, TypeParts
<1>7. CASE UserStarts
  <2>1. RestTyped'
    BY <1>7 DEF TypeOK, RestTyped, UserStarts, Ends, Resumes, snapVars
  <2> QED
    BY <1>7, <2>1, StreamTyped, TypeParts DEF UserStarts, TypeOK
<1>8. CASE UserStops
  <2>1. RestTyped'
    BY <1>8, Ranges DEF TypeOK, RestTyped, UserStops, StopSnapshotter, Ends, Resumes
  <2> QED
    BY <1>8, <2>1, StopSessionTyped, TypeParts DEF UserStops, TypeOK
<1>9. CASE UserDeletes
  <2>1. RestTyped'
    BY <1>9, Ranges DEF TypeOK, RestTyped, UserDeletes, StopSnapshotter, Resumes, Handler
  <2> QED
    BY <1>9, <2>1, StopTyped, SameCalls, TypeParts DEF UserDeletes, TypeOK
<1> QED
  BY <1>1, <1>2, <1>3, <1>4, <1>5, <1>6, <1>7, <1>8, <1>9 DEF HandlerGoesOn

LEMMA RecoveryTyped == TypeOK /\ RecoveryFires => TypeOK'
<1> SUFFICES ASSUME TypeOK, RecoveryFires PROVE TypeOK'
  OBVIOUS
<1>1. (CallTyped /\ PeerTyped)'
  <2>1. CASE loggedIn
    BY <2>1, StartSessionTyped DEF TypeOK, RecoveryFires
  <2>2. CASE ~loggedIn
    <3>1. CallTyped'
      BY <2>2, EndedType DEF TypeOK, RecoveryFires, CallTyped
    <3>2. PeerTyped'
      BY <2>2, StartTyped DEF TypeOK, RecoveryFires
    <3> QED
      BY <3>1, <3>2
  <2> QED
    BY <2>1, <2>2
<1>2. RestTyped'
  BY Ranges DEF TypeOK, RestTyped, RecoveryFires, StopSnapshotter
<1> QED
  BY <1>1, <1>2, TypeParts

LEMMA TimersTyped == TypeOK /\ (Watchdog \/ SnapshotGrabbed) => TypeOK'
<1> SUFFICES ASSUME TypeOK, Watchdog \/ SnapshotGrabbed PROVE TypeOK'
  OBVIOUS
<1>1. (CallTyped /\ PeerTyped)'
  BY SameSignals DEF Watchdog, SnapshotGrabbed, SnapshotTaken, SnapshotFails
<1>2. RestTyped'
  <2>1. CASE Watchdog
    BY <2>1, ScheduleTyped DEF TypeOK, RestTyped, Watchdog, snapVars
  <2>2. CASE SnapshotTaken
    BY <2>2, Ranges DEF TypeOK, RestTyped, SnapshotTaken
  <2>3. CASE SnapshotFails
    BY <2>3, ScheduleTyped, FailureTyped, DisturbsTyped DEF TypeOK, RestTyped, SnapshotFails
  <2> QED
    BY <2>1, <2>2, <2>3 DEF SnapshotGrabbed
<1> QED
  BY <1>1, <1>2, TypeParts

LEMMA SignalsTyped ==
  ASSUME TypeOK,
         \/ \E c \in Call : CallAnswered(c) \/ Connected(c)
         \/ Stalled \/ PeerMends \/ Breaks
  PROVE  TypeOK'
<1>1. RestTyped'
  BY SteadyTyped DEF CallAnswered, Connected, Stalled, PeerMends, Breaks
<1>2. ASSUME NEW c \in Call, CallAnswered(c) \/ MqttDrops(c) PROVE (CallTyped /\ PeerTyped)'
  BY <1>2, SamePeer DEF CallAnswered, CallSucceeds, CallFails, MqttDrops,
                        TypeOK, SignalTypeOK, CallTyped, Stage
<1>3. ASSUME NEW c \in Call, Connected(c) PROVE (CallTyped /\ PeerTyped)'
  <2>1. CallTyped'
    BY <1>3 DEF Connected, MqttConnects, TypeOK, SignalTypeOK, CallTyped, Stage
  <2> QED
    BY <1>3, <2>1, StartTyped DEF Connected, MqttConnects, TypeOK
<1>4. ASSUME StallIsLoss \/ PeerStalls \/ PeerFails PROVE (CallTyped /\ PeerTyped)'
  <2>1. PeerTyped'
    BY <1>4, ReportTyped, Ranges DEF TypeOK, StallIsLoss, PeerStalls, PeerFails, PeerState
  <2> QED
    BY <1>4, <2>1, SameCalls DEF StallIsLoss, PeerStalls, PeerFails
<1>5. ASSUME PeerMends PROVE (CallTyped /\ PeerTyped)'
  <2>1. CallTyped'
    BY <1>5, SameCalls DEF PeerMends, PeerConnects, CanOffer, CanAnswer, PacketsResume
  <2>2. PeerTyped'
    BY <1>5 DEF PeerMends, PeerConnects, CanOffer, CanAnswer, PacketsResume, TypeOK, SignalTypeOK,
        PeerTyped, PeerState
  <2> QED
    BY <2>1, <2>2
<1> QED
  BY <1>1, <1>2, <1>3, <1>4, <1>5, TypeParts DEF Stalled, Breaks

LEMMA RequestTyped == TypeOK /\ (User \/ CameraHangsUp) => TypeOK'
<1> SUFFICES ASSUME TypeOK, User \/ CameraHangsUp PROVE TypeOK'
  OBVIOUS
<1>1. ASSUME NEW h \in {"start", "stop", "delete"}, UserAsks(h) PROVE TypeOK'
  <2>1. RestTyped'
    BY <1>1, DisturbsTyped DEF TypeOK, RestTyped, UserAsks, Awaits, Handler, snapVars
  <2> QED
    BY <1>1, <2>1, SameSignals, TypeParts DEF UserAsks
<1>2. CASE CameraHangsUp
  <2>1. RestTyped'
    BY <1>2, DisturbsTyped DEF TypeOK, RestTyped, CameraHangsUp, AwaitsRow, Handler, snapVars
  <2> QED
    BY <1>2, <2>1, StopSessionTyped, TypeParts DEF CameraHangsUp, TypeOK
<1>3. CASE UserAdds \/ UserLogsOut
  <2>1. RestTyped'
    BY <1>3, DisturbsTyped DEF TypeOK, RestTyped, UserAdds, UserLogsOut, Awaits, Handler, snapVars
  <2> QED
    BY <1>3, <2>1, SameSignals, TypeParts DEF UserAdds, UserLogsOut
<1> QED
  BY <1>1, <1>2, <1>3 DEF User

LEMMA CloudTyped == TypeOK /\ Cloud => TypeOK'
<1> SUFFICES ASSUME TypeOK, Cloud PROVE TypeOK'
  OBVIOUS
<1>1. RestTyped'
  <2>1. disturbed' \in 0..MaxDisturbed
    BY DisturbsTyped DEF Cloud, Login, ChangeRegion, Expires, CallRefused
  <2>2. handlers' \subseteq Handler
    BY DEF TypeOK, Cloud, Login, ChangeRegion, Expires, CallRefused, Awaits, Handler
  <2> QED
    BY <2>1, <2>2 DEF TypeOK, RestTyped, Cloud, Login, ChangeRegion, Expires, CallRefused, snapVars
<1>2. ASSUME NEW c \in Call, CallRefused(c) PROVE (CallTyped /\ PeerTyped)'
  BY <1>2, SamePeer DEF CallRefused, CallFails, TypeOK, SignalTypeOK, CallTyped, Stage
<1>3. ASSUME Login \/ ChangeRegion \/ Expires PROVE (CallTyped /\ PeerTyped)'
  BY <1>3, SameSignals DEF Login, ChangeRegion, Expires
<1> QED
  BY <1>1, <1>2, <1>3, TypeParts DEF Cloud

LEMMA NextTyped == TypeOK /\ [Next]_vars => TypeOK'
<1>1. TypeOK /\ UNCHANGED vars => TypeOK'
  BY DEF TypeOK, SignalTypeOK, vars, signalVars, snapVars
<1> QED
  BY <1>1, EventTyped, HandlerTyped, RecoveryTyped, TimersTyped, SignalsTyped,
     RequestTyped, CloudTyped DEF Next

(* Every variable keeps to its kind, and the counter of failed snapshots   *)
(* is held at its limit, whatever the number of calls, events and faults.  *)
THEOREM TypeCorrect == Spec => []TypeOK
<1> QED
  BY InitTyped, NextTyped, PTL DEF Spec

(***************************************************************************)
(* The order of starts and disconnections.                                 *)
(***************************************************************************)
LEMMA SoundInit == Init => Sound
BY DEF Init, SignalInit, Sound, NoStart

Quiet == active' => active

LEMMA QuietSound == Sound /\ Quiet /\ UNCHANGED peerVars => Sound'
BY DEF Sound, Quiet, Dead, Told, NoStart, peerVars

LEMMA AliveSound == peer' \in {"new", "live", "unhealthy"} => Sound'
BY DEF Sound, Dead

LEMMA ReportSound == TypeOK /\ Reports("disconnected", "lost") => Sound'
<1> SUFFICES ASSUME TypeOK, Reports("disconnected", "lost") PROVE Told(events)'
  BY DEF Sound
<1>1. events \in Seq(Event) /\ events' = Append(events, "disconnected")
  BY DEF TypeOK, SignalTypeOK, Reports
<1>2. Told(Append(events, "disconnected"))
  BY <1>1, ToldByReport
<1> QED
  BY <1>1, <1>2, Zenon DEF Told

LEMMA StopSound == TypeOK /\ Sound /\ Quiet /\ StopP2P => Sound'
<1> SUFFICES ASSUME TypeOK, Sound, Quiet, StopP2P PROVE Sound'
  OBVIOUS
<1>1. CASE peer = "none"
  BY <1>1, QuietSound DEF StopP2P, Closed, peerVars
<1>2. CASE peer # "none"
  <2>1. events \in Seq(Event) /\ events' = Append(events, "disconnected")
    BY <1>2 DEF TypeOK, SignalTypeOK, StopP2P, Closed
  <2>2. Told(Append(events, "disconnected"))
    BY <2>1, ToldByReport
  <2>3. Told(events)'
    BY <2>1, <2>2, Zenon DEF Told
  <2> QED
    BY <2>3 DEF Sound
<1> QED
  BY <1>1, <1>2

LEMMA StartSound == TypeOK /\ Sound /\ Quiet /\ (StartP2P \/ StopThenStartP2P) => Sound'
BY QuietSound, AliveSound, StopSound DEF StartP2P, StopThenStartP2P

LEMMA StreamSound == TypeOK /\ Sound /\ Quiet /\ StartStream => Sound'
BY StartSound, StopSound DEF StartStream, StartCameraSession

(* Reading the report of the loss makes the camera inactive; until then no *)
(* start is read that is not followed by it.                               *)
LEMMA ReadSound == TypeOK /\ Sound /\ EventRead => Sound'
<1> SUFFICES ASSUME TypeOK, Sound, EventRead, Dead' PROVE Sound'
  BY DEF Sound
<1>1. /\ events \in Seq(Event) /\ events # <<>>
      /\ events' = Tail(events) /\ peer' = peer
      /\ Head(events) = "started" \/ active' = FALSE
      /\ Head(events) = "disconnected" => active' = FALSE
  BY DEF TypeOK, SignalTypeOK, EventRead, OnSessionStarted, OnDisconnected, OnUnhealthy, Reads
<1>2. Told(events) \/ (~active /\ NoStart(events))
  BY <1>1 DEF Sound, Dead
<1>3. CASE Told(events)
  <2>1. Told(Tail(events)) \/ (Head(events) = "disconnected" /\ NoStart(Tail(events)))
    BY <1>1, <1>3, ToldTail
  <2>2. Told(events') \/ (active' = FALSE /\ NoStart(events'))
    BY <1>1, <2>1, Zenon
  <2> QED
    BY <2>2 DEF Sound, Told, NoStart
<1>4. CASE NoStart(events)
  <2>1. Head(events) # "started" /\ NoStart(Tail(events))
    BY <1>1, <1>4, NoStartTail
  <2>2. active' = FALSE /\ NoStart(events')
    BY <1>1, <2>1, Zenon
  <2> QED
    BY <2>2 DEF Sound, NoStart
<1> QED
  BY <1>2, <1>3, <1>4

LEMMA NextSound == TypeOK /\ Sound /\ [Next]_vars => Sound'
<1> SUFFICES ASSUME TypeOK, Sound, [Next]_vars PROVE Sound'
  OBVIOUS
<1>1. CASE UNCHANGED vars
  BY <1>1, QuietSound DEF vars, signalVars, peerVars, Quiet
<1>2. CASE HandlerGoesOn
  <2>1. CASE StartedSaved \/ DisconnectedSaved \/ UnhealthyFound
             \/ Removed \/ LoginSaved \/ ExpiryTold
    BY <2>1, QuietSound DEF StartedSaved, DisconnectedSaved, UnhealthyFound, Removed,
                            LoginSaved, ExpiryTold, signalVars, peerVars, Quiet
  <2>2. CASE ExpirySaved \/ LogoutSaved
    BY <2>2, StopSound DEF ExpirySaved, LogoutSaved, StopCameraSession, Quiet
  <2>3. CASE \E h \in {"auto", "add"} : SavedThenStarts(h)
    BY <2>3, StreamSound DEF SavedThenStarts, Quiet
  <2>4. CASE UserStarts \/ UserStops \/ UserDeletes
    BY <2>4, StreamSound, StopSound DEF UserStarts, UserStops, UserDeletes, StopCameraSession, Quiet
  <2> QED
    BY <1>2, <2>1, <2>2, <2>3, <2>4 DEF HandlerGoesOn
<1>3. CASE RecoveryFires
  BY <1>3, StartSound, StopSound DEF RecoveryFires, StartCameraSession, Quiet
<1>4. CASE Watchdog \/ SnapshotGrabbed
  BY <1>4, QuietSound DEF Watchdog, SnapshotGrabbed, SnapshotTaken, SnapshotFails,
                          signalVars, peerVars, Quiet
<1>5. ASSUME NEW c \in Call, CallAnswered(c) \/ Connected(c) PROVE Sound'
  BY <1>5, QuietSound, StartSound DEF CallAnswered, CallSucceeds, CallFails, Connected,
                                      MqttConnects, Steady, Quiet
<1>6. CASE Stalled \/ PeerMends
  BY <1>6, ReportSound, AliveSound DEF Stalled, StallIsLoss, PeerMends, PeerConnects,
        CanOffer, CanAnswer, PacketsResume
<1>7. CASE Breaks
  BY <1>7, ReportSound, AliveSound, QuietSound
  DEF Breaks, PeerStalls, PeerFails, MqttDrops, Reports, Steady, Quiet
<1>8. CASE User \/ CameraHangsUp
  BY <1>8, StopSound, QuietSound
  DEF User, UserAsks, UserAdds, UserLogsOut, CameraHangsUp, StopCameraSession,
      signalVars, peerVars, Quiet
<1>9. CASE Cloud
  BY <1>9, QuietSound DEF Cloud, Login, ChangeRegion, Expires, CallRefused, CallFails,
                          signalVars, peerVars, Quiet
<1> QED
  BY <1>1, <1>2, <1>3, <1>4, <1>5, <1>6, <1>7, <1>8, <1>9, ReadSound DEF Next

LEMMA SoundIsTrue == TypeOK /\ Sound => ActiveIsTrue
<1> SUFFICES ASSUME TypeOK, Sound, active, Dead
             PROVE  \E i \in DOMAIN events : events[i] = "disconnected"
  BY DEF ActiveIsTrue
<1>1. Told(events)
  BY DEF Sound
<1>2. DOMAIN events = 1..Len(events)
  BY DEF TypeOK, SignalTypeOK
<1> QED
  BY <1>1, <1>2 DEF Told

(* A camera is never taken for an active one once its peer is gone and the *)
(* report of it was read, in any order of overlapping starts, stops and    *)
(* losses: the watchdog may trust activeStreams.                           *)
THEOREM ActiveStaysTrue == Spec => []ActiveIsTrue
<1>1. Init => TypeOK /\ Sound
  BY InitTyped, SoundInit
<1>2. TypeOK /\ Sound /\ [Next]_vars => (TypeOK /\ Sound)'
  BY NextTyped, NextSound
<1> QED
  BY <1>1, <1>2, SoundIsTrue, PTL DEF Spec
=============================================================================
