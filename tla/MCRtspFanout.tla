---------------------------- MODULE MCRtspFanout ----------------------------
(* RtspFanout with one client and a keyframe of few fragments.             *)
EXTENDS RtspFanout
=============================================================================
