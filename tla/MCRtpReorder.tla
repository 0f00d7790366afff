----------------------------- MODULE MCRtpReorder -----------------------------
(* RtpReorder on a small sequence number space.                            *)
EXTENDS RtpReorder
=============================================================================
