---------------------------- MODULE MCConfigWrites ----------------------------
(* Two writers and a check; a minute of three ticks takes two writes.        *)
EXTENDS ConfigWrites, TLC

Symmetry == Permutations(Writer)
===============================================================================
