--------------------------- MODULE ConfirmedAction ---------------------------
(***************************************************************************)
(* What the two-step confirmation promises, without files, clocks or       *)
(* crashes: a destructive action happens only if that very action was      *)
(* previewed, the run began while the preview was fresh, and it happens at *)
(* most once per preview.                                                  *)
(***************************************************************************)
EXTENDS Naturals

CONSTANTS Token, Action, NoAction

VARIABLES
  granted,  \* granted[t]: the action the client was shown when t was issued
  fresh,    \* the previews still inside their confirmation window
  started,  \* the previews whose one run has begun
  effects   \* effects[t][a]: how often Home Assistant carried a out for t

vars == <<granted, fresh, started, effects>>

Init ==
  /\ granted = [t \in Token |-> NoAction]
  /\ fresh = {}
  /\ started = {}
  /\ effects = [t \in Token |-> [a \in Action |-> 0]]

Grant(t, a) ==
  /\ granted[t] = NoAction
  /\ granted' = [granted EXCEPT ![t] = a]
  /\ fresh' = fresh \cup {t}
  /\ UNCHANGED <<started, effects>>

Lapse ==
  /\ fresh' \in SUBSET fresh
  /\ UNCHANGED <<granted, started, effects>>

Start(t) ==
  /\ t \in fresh \ started
  /\ started' = started \cup {t}
  /\ UNCHANGED <<granted, fresh, effects>>

Happen(t) ==
  /\ t \in started
  /\ \A a \in Action : effects[t][a] = 0
  /\ effects' = [effects EXCEPT ![t][granted[t]] = 1]
  /\ UNCHANGED <<granted, fresh, started>>

Next ==
  \/ \E t \in Token, a \in Action : Grant(t, a)
  \/ Lapse
  \/ \E t \in Token : Start(t) \/ Happen(t)

Spec == Init /\ [][Next]_vars
==============================================================================
