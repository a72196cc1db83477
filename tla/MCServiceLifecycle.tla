------------------------- MODULE MCServiceLifecycle -------------------------
(***************************************************************************)
(* Instances of ServiceLifecycle for TLC. Every .cfg of this module fixes  *)
(* an igniter, the triggers users touch and the kinds of outside events;   *)
(* MaxEvents bounds how many of the two happen in a behaviour.             *)
(***************************************************************************)
EXTENDS ServiceLifecycle, TLC

(* Process ids are interchangeable: a hook picks any that is free.         *)
PidSymmetry == Permutations(Pids)
=============================================================================
