------------------------------ MODULE MCToolCalls ------------------------------
(* Two clients call two tools of the same kind of item; one change from      *)
(* outside.  Of families with the same plans one is enough, and the sessions *)
(* are alike.                                                                *)
EXTENDS ToolCalls, ToolPlans, TLC

MCFamilies ==
  {Automation, Script, Scene, Dashboard, Resource, Registry, Entry, Service, Addon,
   Backup, InputBoolean, InputSelect, Timer, Counter, CounterSteps, Person}

Sessions == Permutations(Session)
===============================================================================
