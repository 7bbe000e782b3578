----------------------------- MODULE MCStateCache -----------------------------
(* Two entities that change five times in all, over two connections.          *)
EXTENDS StateCache
================================================================================
