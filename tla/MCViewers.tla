----------------------------- MODULE MCViewers -----------------------------
(* Viewers with two attempts, one loss and one death of the engine.        *)
EXTENDS Viewers
=============================================================================
