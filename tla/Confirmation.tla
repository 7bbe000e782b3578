----------------------------- MODULE Confirmation -----------------------------
(***************************************************************************)
(* The confirmation tokens of hermes/security.py and the tool handlers     *)
(* that spend them (tools/_common.py and every destructive tool).          *)
(*                                                                         *)
(* A destructive tool called without a token writes one file under         *)
(* /data/confirmations and returns a preview; called again with the token  *)
(* it validates, marks the file "executing", awaits Home Assistant, and    *)
(* marks the file "completed" or "failed".  Each function of security.py   *)
(* runs without an await between its read and its os.replace, so it is one *)
(* step here; the awaits of the handler are where other handlers, the      *)
(* hourly cleanup and a crash of the process come in between.              *)
(*                                                                         *)
(* Wall-clock time appears as what is left of a file's lifetime: left[t]   *)
(* counts down to 0, and left[t] = 0 is `time.time() > expires_at`.        *)
(***************************************************************************)
EXTENDS Naturals

CONSTANTS
  Token,     \* the uuid4 values that may be drawn
  Action,    \* (tool name, canonical arguments) pairs, as compute_action_hash
             \* tells them apart
  Call,      \* concurrent tool calls
  TTL,       \* CONFIRMATION_TTL_SECONDS, in ticks
  NoAction, NoToken

ASSUME ConfirmationAssumption ==
  TTL \in Nat /\ NoAction \notin Action /\ NoToken \notin Token

VARIABLES
  state,     \* state[t]: the "state" field of t's file, "absent" if no file
  bound,     \* bound[t]: the action_hash of t's file
  left,      \* left[t]: ticks until t's file is expired
  stage,     \* stage[c]: where the handler of call c is
  holds,     \* holds[c]: the token call c was validated with
  does,      \* does[c]: the action call c carries out
  sent,      \* sent[t][a]: requests for a under t on their way to HA
  up,        \* the add-on process is running
  issued,    \* history: the action t was issued for
  age,       \* history: ticks since t was issued, up to TTL + 1
  accepted,  \* history: the tokens a call was validated with
  applied    \* history: applied[t][a] is how often HA carried a out for t

fileVars == <<state, bound, left>>
callVars == <<stage, holds, does>>
history  == <<issued, age, accepted, applied>>
vars     == <<fileVars, callVars, sent, up, history>>

States == {"pending", "executing", "completed", "failed"}

TypeOK ==
  /\ state \in [Token -> States \cup {"absent"}]
  /\ bound \in [Token -> Action \cup {NoAction}]
  /\ left \in [Token -> 0 .. TTL + 1]
  /\ stage \in [Call -> {"idle", "validated", "waiting"}]
  /\ holds \in [Call -> Token \cup {NoToken}]
  /\ does \in [Call -> Action \cup {NoAction}]
  /\ sent \in [Token -> [Action -> Nat]]
  /\ up \in BOOLEAN
  /\ issued \in [Token -> Action \cup {NoAction}]
  /\ age \in [Token -> 0 .. TTL + 1]
  /\ accepted \in SUBSET Token
  /\ applied \in [Token -> [Action -> Nat]]

-------------------------------------------------------------------------------
Init ==
  /\ state = [t \in Token |-> "absent"]
  /\ bound = [t \in Token |-> NoAction]
  /\ left = [t \in Token |-> 0]
  /\ stage = [c \in Call |-> "idle"]
  /\ holds = [c \in Call |-> NoToken]
  /\ does = [c \in Call |-> NoAction]
  /\ sent = [t \in Token |-> [a \in Action |-> 0]]
  /\ up = TRUE
  /\ issued = [t \in Token |-> NoAction]
  /\ age = [t \in Token |-> 0]
  /\ accepted = {}
  /\ applied = [t \in Token |-> [a \in Action |-> 0]]

-------------------------------------------------------------------------------
(* Files.  Every write goes to <token>.tmp and is moved over the file, so a  *)
(* crash leaves the old file or the new one.                                 *)

(* Mutant: files marked "executing" are never treated as expired.            *)
ExpiredUnlessExecuting(t) == state[t] \notin {"absent", "executing"} /\ left[t] = 0

Expired(t) == state[t] # "absent" /\ left[t] = 0

UnlinkAll(T) ==
  /\ state' = [t \in Token |-> IF t \in T THEN "absent" ELSE state[t]]
  /\ bound' = [t \in Token |-> IF t \in T THEN NoAction ELSE bound[t]]
  /\ left' = [t \in Token |-> IF t \in T THEN 0 ELSE left[t]]

(* The call without a token: a fresh uuid4, bound to the previewed action.   *)
Preview(t, a) ==
  /\ up /\ issued[t] = NoAction
  /\ state' = [state EXCEPT ![t] = "pending"]
  /\ bound' = [bound EXCEPT ![t] = a]
  /\ left' = [left EXCEPT ![t] = TTL + 1]
  /\ issued' = [issued EXCEPT ![t] = a]
  /\ UNCHANGED <<callVars, sent, up, age, accepted, applied>>

(* Mutant: the file is not marked "executing" before the action.             *)
AcceptWithoutMark(c, t, a) ==
  /\ up /\ stage[c] = "idle"
  /\ ~Expired(t) /\ state[t] = "pending" /\ bound[t] = a
  /\ stage' = [stage EXCEPT ![c] = "validated"]
  /\ holds' = [holds EXCEPT ![c] = t]
  /\ does' = [does EXCEPT ![c] = a]
  /\ accepted' = accepted \cup {t}
  /\ UNCHANGED <<fileVars, sent, up, issued, age, applied>>

(* Mutant: the lifetime of the file is not looked at.                        *)
AcceptExpired(c, t, a) ==
  /\ up /\ stage[c] = "idle"
  /\ state[t] = "pending" /\ bound[t] = a
  /\ state' = [state EXCEPT ![t] = "executing"]
  /\ stage' = [stage EXCEPT ![c] = "validated"]
  /\ holds' = [holds EXCEPT ![c] = t]
  /\ does' = [does EXCEPT ![c] = a]
  /\ accepted' = accepted \cup {t}
  /\ UNCHANGED <<bound, left, sent, up, issued, age, applied>>

(* The call with a token that passes every test of                          *)
(* validate_confirmation_token.  The refusals that change nothing (missing   *)
(* file, wrong state, other action) need no step.                            *)
Accept(c, t, a) ==
  /\ up /\ stage[c] = "idle"
  /\ ~Expired(t)
  /\ state[t] = "pending"
  /\ bound[t] = a
  /\ state' = [state EXCEPT ![t] = "executing"]
  /\ stage' = [stage EXCEPT ![c] = "validated"]
  /\ holds' = [holds EXCEPT ![c] = t]
  /\ does' = [does EXCEPT ![c] = a]
  /\ accepted' = accepted \cup {t}
  /\ UNCHANGED <<bound, left, sent, up, issued, age, applied>>

(* An expired token, whatever its state, is removed as it is refused.        *)
RefuseExpired(t) ==
  /\ up /\ Expired(t)
  /\ UnlinkAll({t})
  /\ UNCHANGED <<callVars, sent, up, history>>

-------------------------------------------------------------------------------
(* The handler between validation and completion.                            *)

Release(c) ==
  /\ stage' = [stage EXCEPT ![c] = "idle"]
  /\ holds' = [holds EXCEPT ![c] = NoToken]
  /\ does' = [does EXCEPT ![c] = NoAction]

Send(c) ==
  /\ up /\ stage[c] = "validated"
  /\ stage' = [stage EXCEPT ![c] = "waiting"]
  /\ sent' = [sent EXCEPT ![holds[c]][does[c]] = @ + 1]
  /\ UNCHANGED <<fileVars, holds, does, up, history>>

(* Mutant: the outcome is written even if the file was removed meanwhile.    *)
FinishBlindly(t, outcome) ==
  /\ state' = [state EXCEPT ![t] = outcome]
  /\ left' = [left EXCEPT ![t] = TTL + 1]
  /\ UNCHANGED bound

(* Mutant: the lifetime is added to what was left instead of set.            *)
FinishExtending(t, outcome) ==
  IF state[t] = "absent"
  THEN UNCHANGED fileVars
  ELSE /\ state' = [state EXCEPT ![t] = outcome]
       /\ left' = [left EXCEPT ![t] = @ + TTL + 1]
       /\ UNCHANGED bound

(* complete_confirmation_token: nothing if the file is gone; otherwise the   *)
(* outcome is stored and the file lives for another TTL.                     *)
Finish(t, outcome) ==
  IF state[t] = "absent"
  THEN UNCHANGED fileVars
  ELSE /\ state' = [state EXCEPT ![t] = outcome]
       /\ left' = [left EXCEPT ![t] = TTL + 1]
       /\ UNCHANGED bound

Complete(c) ==
  /\ up /\ stage[c] = "waiting"
  /\ applied[holds[c]][does[c]] > 0
  /\ Finish(holds[c], "completed")
  /\ Release(c)
  /\ UNCHANGED <<sent, up, history>>

(* HAConnectionError, before the request left or while its answer was        *)
(* awaited: the request may still be carried out later.                      *)
Fail(c) ==
  /\ up /\ stage[c] # "idle"
  /\ Finish(holds[c], "failed")
  /\ Release(c)
  /\ UNCHANGED <<sent, up, history>>

(* An exception that the handler does not catch (guarded_reload and          *)
(* guarded_entity_invoke catch none) or its cancellation: the file stays     *)
(* "executing".                                                              *)
Abandon(c) ==
  /\ up /\ stage[c] # "idle"
  /\ Release(c)
  /\ UNCHANGED <<fileVars, sent, up, history>>

-------------------------------------------------------------------------------
(* Home Assistant, external.                                                 *)

HaApply(t, a) ==
  /\ sent[t][a] > 0
  /\ sent' = [sent EXCEPT ![t][a] = @ - 1]
  /\ applied' = [applied EXCEPT ![t][a] = @ + 1]
  /\ UNCHANGED <<fileVars, callVars, up, issued, age, accepted>>

HaLose(t, a) ==
  /\ sent[t][a] > 0
  /\ sent' = [sent EXCEPT ![t][a] = @ - 1]
  /\ UNCHANGED <<fileVars, callVars, up, history>>

-------------------------------------------------------------------------------
(* cleanup_expired_confirmations, hourly and at every boot.                  *)

Cleanup ==
  /\ up
  /\ UnlinkAll({t \in Token : Expired(t)})
  /\ UNCHANGED <<callVars, sent, up, history>>

Crash ==
  /\ up
  /\ up' = FALSE
  /\ stage' = [c \in Call |-> "idle"]
  /\ holds' = [c \in Call |-> NoToken]
  /\ does' = [c \in Call |-> NoAction]
  /\ UNCHANGED <<fileVars, sent, history>>

Boot ==
  /\ ~up
  /\ up' = TRUE
  /\ UnlinkAll({t \in Token : Expired(t)})
  /\ UNCHANGED <<callVars, sent, history>>

Tick ==
  /\ left' = [t \in Token |-> IF left[t] = 0 THEN 0 ELSE left[t] - 1]
  /\ age' = [t \in Token |-> IF issued[t] = NoAction \/ age[t] = TTL + 1
                              THEN age[t] ELSE age[t] + 1]
  /\ UNCHANGED <<state, bound, callVars, sent, up, issued, accepted, applied>>

Next ==
  \/ \E t \in Token, a \in Action : Preview(t, a)
  \/ \E c \in Call, t \in Token, a \in Action : Accept(c, t, a)
  \/ \E t \in Token : RefuseExpired(t)
  \/ \E c \in Call : Send(c) \/ Complete(c) \/ Fail(c) \/ Abandon(c)
  \/ \E t \in Token, a \in Action : HaApply(t, a) \/ HaLose(t, a)
  \/ Cleanup \/ Crash \/ Boot \/ Tick

(* Time passes; the hourly task runs; the Supervisor restarts the add-on.    *)
Fairness == WF_vars(Tick) /\ WF_vars(Cleanup) /\ WF_vars(Boot)

Spec == Init /\ [][Next]_vars /\ Fairness

-------------------------------------------------------------------------------
(* At most once, and only what was previewed: whatever the calls, retries,   *)
(* crashes and late deliveries, HA carries out at most one action per token, *)
(* and it is the one whose preview created the token                         *)
(* (validate_confirmation_token, complete_confirmation_token).               *)
AtMostOnce ==
  \A t \in Token, a \in Action :
    applied[t][a] > 0 => applied[t][a] = 1 /\ a = issued[t]

(* A token that left the disk never comes back: the completion of a run that *)
(* outlived its file must not write the file again, or an expired token      *)
(* could be kept on disk by a slow handler (complete_confirmation_token's    *)
(* test that the file still exists).                                         *)
NoResurrection ==
  [][\A t \in Token :
       issued[t] # NoAction /\ state[t] = "absent" => state'[t] = "absent"]_vars

(* No file stays for ever: not even that of a run that died with the process *)
(* or left through an exception and is marked "executing" with nobody to     *)
(* complete it.                                                              *)
Drained == \A t \in Token : (state[t] # "absent") ~> (state[t] = "absent")

(* The promise of the two steps: the run starts inside the window that       *)
(* began with its preview, once, and has the previewed effect.               *)
Promise == INSTANCE ConfirmedAction WITH
  granted <- issued,
  fresh   <- {t \in Token : issued[t] # NoAction /\ age[t] <= TTL},
  started <- accepted,
  effects <- applied

ImplementsPromise == Promise!Spec
===============================================================================
