----------------------------- MODULE TalkFloor -----------------------------
(***************************************************************************)
(* What talkback promises about one camera's speaker, without saying who   *)
(* asked (the class comment of                                             *)
(* bridge/apps/server/src/streaming/talkback-session.service.ts:37-46).    *)
(*                                                                         *)
(* The floor belongs to the browser side, to the RTMP side or to nobody.   *)
(* The speaker is switched on with the floor, stays on through a hand-over *)
(* and through a grace period, and goes off only when nobody has the       *)
(* floor.  A browser never takes the floor from an RTMP publisher.         *)
(***************************************************************************)
CONSTANT Cameras

VARIABLES
  floor,        (* who is heard at the camera                              *)
  mic           (* the speaker is commanded on                             *)

floorVars == <<floor, mic>>

Init ==
  /\ floor = [d \in Cameras |-> "none"]
  /\ mic = [d \in Cameras |-> FALSE]

Stays(d) == floor'[d] = floor[d] /\ mic'[d] = mic[d]

BrowserTakes(d) == floor[d] # "rtmp" /\ floor'[d] = "web" /\ mic'[d]

PublisherTakes(d) == floor'[d] = "rtmp" /\ mic'[d]

Frees(d) == floor'[d] = "none" /\ mic'[d] = mic[d]

GoesOff(d) == floor[d] = "none" /\ floor'[d] = "none" /\ ~mic'[d]

(* One handler may touch two cameras: a browser that moves to another one. *)
Step ==
  \A d \in Cameras :
    Stays(d) \/ BrowserTakes(d) \/ PublisherTakes(d) \/ Frees(d) \/ GoesOff(d)

(* Shutdown silences every camera at once.                                 *)
Close ==
  /\ floor' = [d \in Cameras |-> "none"]
  /\ mic' = [d \in Cameras |-> FALSE]

Next == Step \/ Close

Spec == Init /\ [][Next]_floorVars
=============================================================================
