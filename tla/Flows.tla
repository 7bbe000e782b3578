--------------------------------- MODULE Flows ---------------------------------
(***************************************************************************)
(* Config entry flows and options flows (tools/config_entry_flows.py): a   *)
(* flow is opened in Home Assistant by one request and driven by others;   *)
(* one that needs something outside, a login in a browser say, cannot be   *)
(* driven from here and is aborted at once.  Any request or its answer may *)
(* be lost.                                                                *)
(***************************************************************************)
EXTENDS Naturals, FiniteSets

CONSTANT Flow   \* flows that may be opened

Kind == {"config", "options"}

VARIABLES
  kindOf,   \* kindOf[f]: what kind of flow f is
  flow,     \* flow[f]: what it is in Home Assistant
  tool,     \* tool[f]: where the tool that opened it is
  told,     \* the flows whose id a client was given
  unheard,  \* history: the answer to its opening was lost, or its abort failed
  continued \* history: flows that a client took a step further

flowVars == <<kindOf, flow, tool, told, unheard, continued>>

Open == {"form", "external"}

TypeOK ==
  /\ kindOf \in [Flow -> Kind]
  /\ flow \in [Flow -> Open \cup {"none", "gone"}]
  /\ tool \in [Flow -> {"idle", "opened", "aborting", "ended"}]
  /\ told \subseteq Flow /\ unheard \subseteq Flow /\ continued \subseteq Flow

Init ==
  /\ kindOf = [f \in Flow |-> "config"]
  /\ flow = [f \in Flow |-> "none"]
  /\ tool = [f \in Flow |-> "idle"]
  /\ told = {} /\ unheard = {} /\ continued = {}

-------------------------------------------------------------------------------
(* ha_start_config_entry_flow and ha_start_options_flow: Home Assistant      *)
(* carries out the request.                                                  *)
Start(f, k) ==
  /\ flow[f] = "none"
  /\ kindOf' = [kindOf EXCEPT ![f] = k]
  /\ \E is \in Open \cup {"gone"} : flow' = [flow EXCEPT ![f] = is]
  /\ tool' = [tool EXCEPT ![f] = "opened"]
  /\ UNCHANGED <<told, unheard, continued>>

(* Mutant: an external step of an options flow is answered like a form.      *)
AutomatableConfigOnly(f) == kindOf[f] = "options" \/ flow[f] # "external"

(* _NON_AUTOMATABLE_TYPES.                                                   *)
Automatable(f) == flow[f] # "external"

(* The answer: the id goes to the client, or the flow is to be aborted.  An  *)
(* options flow that is aborted is answered without its id.                  *)
Started(f) ==
  /\ tool[f] = "opened"
  /\ IF Automatable(f)
     THEN tool' = [tool EXCEPT ![f] = "ended"] /\ told' = told \cup {f}
     ELSE tool' = [tool EXCEPT ![f] = "aborting"] /\ UNCHANGED told
  /\ UNCHANGED <<kindOf, flow, unheard, continued>>

StartUnheard(f) ==
  /\ tool[f] = "opened"
  /\ tool' = [tool EXCEPT ![f] = "ended"]
  /\ unheard' = unheard \cup {f}
  /\ UNCHANGED <<kindOf, flow, told, continued>>

(* Mutant: the flow is looked for among the config flows.                    *)
AbortsConfigOnly(f) == IF kindOf[f] = "config" THEN "gone" ELSE flow[f]

(* _flow_path: each kind of flow has a path of its own.                      *)
Aborted(f) == "gone"

(* _abort_flow: an abort that fails is logged, and the answer is the same.   *)
Abort(f) ==
  /\ tool[f] = "aborting"
  /\ tool' = [tool EXCEPT ![f] = "ended"]
  /\ told' = IF kindOf[f] = "config" THEN told \cup {f} ELSE told
  /\ \/ flow' = [flow EXCEPT ![f] = Aborted(f)] /\ UNCHANGED unheard
     \/ unheard' = unheard \cup {f} /\ UNCHANGED flow
  /\ UNCHANGED <<kindOf, continued>>

-------------------------------------------------------------------------------
(* ha_continue_*_flow: what the next step is like is not looked at, and an   *)
(* answer that is lost leaves the client with the id it has.                 *)
Continue(f) ==
  /\ f \in told /\ flow[f] \in Open
  /\ \E is \in Open \cup {"gone"} : flow' = [flow EXCEPT ![f] = is]
  /\ continued' = continued \cup {f}
  /\ UNCHANGED <<kindOf, tool, told, unheard>>

(* ha_abort_config_entry_flow: knows the path of config flows only.          *)
AbortTool(f) ==
  /\ f \in told /\ flow[f] \in Open /\ kindOf[f] = "config"
  /\ flow' = [flow EXCEPT ![f] = "gone"]
  /\ UNCHANGED <<kindOf, tool, told, unheard, continued>>

Next ==
  \E f \in Flow :
    \/ \E k \in Kind : Start(f, k)
    \/ Started(f) \/ StartUnheard(f) \/ Abort(f) \/ Continue(f) \/ AbortTool(f)

-------------------------------------------------------------------------------
(* No flow is left open in Home Assistant that nobody knows of: once the     *)
(* tool that opened it has answered, a client has its id.  None is left at   *)
(* an external step, either, that no client took it to.  Unless the answer   *)
(* to the opening was lost or the abort failed (config_entry_flows.py:24-26, *)
(* 188-216, 415-432).                                                        *)
NoOrphans ==
  \A f \in Flow : tool[f] = "ended" /\ f \notin unheard =>
    /\ flow[f] \in Open => f \in told
    /\ flow[f] = "external" => f \in continued
===============================================================================
