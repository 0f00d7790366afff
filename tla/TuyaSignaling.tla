--------------------------- MODULE TuyaSignaling ---------------------------
(***************************************************************************)
(* The signalling of one camera                                            *)
(* (bridge/apps/server/src/auth/tuya-mqtt.service.ts) and the session the  *)
(* native engine keeps for it (ipc/server.cpp, session.cpp,                *)
(* webrtc/peer.cpp).                                                       *)
(*                                                                         *)
(* startCameraSession awaits two answers of the cloud, with nothing done   *)
(* in between, before it opens an MQTT client and keeps it in its map:     *)
(* calls may overlap, and the client of a call whose entry was overwritten *)
(* stays open with nobody to end it.  A call and its client have one       *)
(* number, the least that is free.                                         *)
(*                                                                         *)
(* A command to the engine is carried out at once; what the engine reports *)
(* waits in events until the server reads it.  The queue of commands and   *)
(* the death of the engine are the subject of NativeEngine; here it runs.  *)
(* An offer is sent again four times; whether the camera ever answers one  *)
(* is up to the camera.                                                    *)
(***************************************************************************)
EXTENDS Naturals, Sequences

CONSTANTS
  MaxCalls,    (* bound: calls of startCameraSession and their clients     *)
  MaxEvents    (* bound: events of the engine that wait                    *)

ASSUME SignalingAssumption == MaxCalls \in Nat /\ MaxEvents \in Nat

Call == 1..MaxCalls
NoCall == 0

VARIABLES
  call,        (* how far each call, or the client it opened, has come     *)
  sess,        (* sessions.get(did): the client kept, or NoCall            *)
  peer,        (* the engine's session of the camera                       *)
  events       (* the engine's events the server has not read              *)

callVars == <<call, sess>>
peerVars == <<peer, events>>
signalVars == <<call, sess, peer, events>>

(* A call asks the cloud for credentials and the camera's configuration;   *)
(* its client is then open, and up while it is connected and subscribed.   *)
Stage == {"idle", "asking", "open", "up"}

(* A peer is new until it connects; an unhealthy one has had no video      *)
(* packet for 5 seconds, a lost one has been reported disconnected.        *)
PeerState == {"none", "new", "live", "unhealthy", "lost"}
Event == {"started", "disconnected", "unhealthy"}

SignalTypeOK ==
  /\ call \in [Call -> Stage]
  /\ sess \in Call \cup {NoCall}
  /\ peer \in PeerState
  /\ events \in Seq(Event)

SignalInit ==
  /\ call = [c \in Call |-> "idle"] /\ sess = NoCall
  /\ peer = "none" /\ events = <<>>

(* Every step that makes the engine report something needs this room.      *)
Room == Len(events) + 2 <= MaxEvents

(***************************************************************************)
(* The engine's session.  Closing a peer changes its state to Closed,      *)
(* which the peer's callback reports like any disconnection.               *)
(***************************************************************************)
Closed == IF peer = "none" THEN events ELSE Append(events, "disconnected")

StopP2P == peer' = "none" /\ events' = Closed

(* start_p2p restarts the peer of a session that exists.  A new session    *)
(* fails when its RTSP port is taken.                                      *)
StartP2P ==
  \/ peer' = "new" /\ events' = Append(Closed, "started")
  \/ peer = "none" /\ UNCHANGED peerVars

(* stop_p2p, then start_p2p of a session that is new again.                *)
StopThenStartP2P ==
  \/ peer' = "new" /\ events' = Append(Closed, "started")
  \/ StopP2P

Reports(e, p) == Room /\ events' = Append(events, e) /\ peer' = p

(* The offer and candidates of the engine go out only through the session. *)
CanOffer == sess # NoCall

(* An answer reaches the engine over any client that is subscribed.        *)
CanAnswer == \E c \in Call : call[c] = "up"

(* The camera has answered an offer and ICE succeeds; or a peer whose      *)
(* connection was lost finds it again.                                     *)
PeerConnects ==
  /\ \/ peer = "new" /\ CanOffer /\ CanAnswer
     \/ peer = "lost"
  /\ peer' = "live"
  /\ UNCHANGED <<callVars, events>>

(* keyframe_loop: 5 seconds without a video packet are reported once.      *)
PeerStalls ==
  /\ peer = "live" /\ Reports("unhealthy", "unhealthy") /\ UNCHANGED callVars

PacketsResume ==
  /\ peer = "unhealthy" /\ peer' = "live" /\ UNCHANGED <<callVars, events>>

(* keyframe_loop: 15 seconds without a video packet.                       *)
StallIsLoss ==
  /\ peer = "unhealthy" /\ Reports("disconnected", "lost") /\ UNCHANGED callVars

(* The connection's own state becomes Disconnected, or then Failed.        *)
PeerFails ==
  /\ peer # "none" /\ Reports("disconnected", "lost")
  /\ UNCHANGED callVars

(***************************************************************************)
(* startCameraSession and stopCameraSession.                               *)
(***************************************************************************)
(* The calls once the kept client was ended.                               *)
Ended == IF sess = NoCall THEN call ELSE [call EXCEPT ![sess] = "idle"]

StopCameraSession == call' = Ended /\ sess' = NoCall /\ StopP2P

Free == {c \in Call : Ended[c] = "idle"}

StartCameraSession ==
  /\ \E c \in Free :
       /\ \A d \in Free : c <= d
       /\ call' = [Ended EXCEPT ![c] = "asking"]
  /\ sess' = NoCall /\ StopP2P

(* The client is opened and kept; the one kept before is forgotten.        *)
CallSucceeds(c) ==
  /\ call[c] = "asking" /\ call' = [call EXCEPT ![c] = "open"]
  /\ sess' = c /\ UNCHANGED peerVars

(* The cloud refuses, or a request times out: the call returns false.      *)
CallFails(c) ==
  /\ call[c] = "asking" /\ call' = [call EXCEPT ![c] = "idle"]
  /\ UNCHANGED <<sess, peerVars>>

(* Connected and subscribed, for the first time or again: the engine is    *)
(* told to start, whether or not the client is still the one kept.         *)
MqttConnects(c) ==
  /\ call[c] = "open" /\ call' = [call EXCEPT ![c] = "up"]
  /\ Room /\ StartP2P /\ UNCHANGED sess

MqttDrops(c) ==
  /\ call[c] = "up" /\ call' = [call EXCEPT ![c] = "open"]
  /\ UNCHANGED <<sess, peerVars>>
=============================================================================
