------------------------------ MODULE MCPlugin ------------------------------
(* Plugin with two calls of tryLogin and three events.                     *)
EXTENDS Plugin
=============================================================================
