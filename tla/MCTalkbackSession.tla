------------------------- MODULE MCTalkbackSession -------------------------
(***************************************************************************)
(* One camera, two browsers and two publishers: enough for every pair of   *)
(* owners on the same and on different sides.                              *)
(***************************************************************************)
EXTENDS TalkbackSession, TLC

Symmetry == Permutations(Clients) \union Permutations(Names)
=============================================================================
