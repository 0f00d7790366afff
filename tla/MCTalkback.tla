----------------------------- MODULE MCTalkback -----------------------------
(***************************************************************************)
(* Small instances of Talkback.  Match is given here: a configuration file *)
(* cannot write a function of model values.                                *)
(***************************************************************************)
EXTENDS Talkback, TLC

(* Every name resolves to one camera, always the same.                     *)
OneMatch == [n \in Names |-> {CHOOSE d \in Cameras : TRUE}]

Symmetry == Permutations(Clients) \union Permutations(Conns)
=============================================================================
