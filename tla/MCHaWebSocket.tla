---------------------------- MODULE MCHaWebSocket ----------------------------
(* Two calls over at most two connections: two commands, and every two       *)
(* different ones of the three methods.  The calls are interchangeable, so   *)
(* every pair is taken once.                                                 *)
EXTENDS HaWebSocket

CONSTANTS r1, r2

Pairs == {<<"command", "command">>, <<"command", "oneshot">>, <<"command", "wait">>,
          <<"oneshot", "wait">>}

MCInit == Init /\ <<kind[r1], kind[r2]>> \in Pairs

MCSpec == MCInit /\ [][Next]_vars /\ Fairness
===============================================================================
