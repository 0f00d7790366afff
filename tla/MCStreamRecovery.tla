-------------------------- MODULE MCStreamRecovery --------------------------
(* StreamRecovery with two overlapping calls and two disturbances of any   *)
(* kind: requests, changes of the login, faults, failing snapshots.        *)
EXTENDS StreamRecovery
=============================================================================
