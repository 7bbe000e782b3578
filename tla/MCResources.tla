------------------------------- MODULE MCResources -------------------------------
(***************************************************************************)
(* The parts of Resources, each in a small instance (Resources.cfg).       *)
(***************************************************************************)
EXTENDS Resources, TLC

Alike == Permutations(Flow) \cup Permutations(Path)
===============================================================================
