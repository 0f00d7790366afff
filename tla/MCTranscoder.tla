---------------------------- MODULE MCTranscoder ----------------------------
(* Transcoder with two ports, one fault and one change of the port.        *)
EXTENDS Transcoder
=============================================================================
