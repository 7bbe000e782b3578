------------------------------- MODULE ToolCalls -------------------------------
(***************************************************************************)
(* The tool handlers that read and change what Home Assistant stores.      *)
(*                                                                         *)
(* A handler is the sequence of the things it awaits (ToolPlans has them,  *)
(* one plan per handler): `ask` when it is called without a token, `run`   *)
(* when it is called with one.  This module runs the plans of a few client *)
(* sessions side by side, one step per await, while others edit the same   *)
(* items in Home Assistant's own interface.  A session asks, gets a        *)
(* preview, and may confirm it; retries and double confirmations of one    *)
(* token are Confirmation's subject.                                       *)
(*                                                                         *)
(* An item is a function from fields to the author of their value.  Tools  *)
(* that address an item by entity id or url path resolve it first:         *)
(* `named` is the item that name stands for now.  An entity id that cannot *)
(* be resolved, because the entity has no state or its state no id, is     *)
(* taken for an id itself: Raw.                                            *)
(***************************************************************************)
EXTENDS Naturals, Sequences

CONSTANTS
  Session,     \* clients, one tool call and its confirmation each
  Families,    \* sets of plans: the tools of one kind of item
  MaxOutside   \* bound: changes made in Home Assistant's interface

Field == {"f", "g"}
Id == {1, 2}
Raw == 3                                \* the entity id, taken for an id
Slot == Id \cup {Raw}
Error == {"status", "other"}           \* HAConnectionError; anything else

Preparing == {"ready", "check", "resolve", "find", "locate", "look", "peek", "read", "fetch",
              "exists", "validate", "issue", "unless"}
Changing  == {"save", "create", "invoke", "change", "replace", "put", "remove"}
Closing   == {"track", "complete", "done"}
AnyStep   == Preparing \cup Changing \cup Closing

(* The order in which a handler awaits, in either of its calls: nothing is   *)
(* looked up or refused once something was changed, success is reported only *)
(* of what was asked of Home Assistant, and what is merged, or found missing,*)
(* was read just before.                                                     *)
Ordered(steps, reads) ==
  \A k \in DOMAIN steps :
    /\ steps[k] \in Changing => \A j \in DOMAIN steps : j > k => steps[j] \in Closing
    /\ steps[k] \in {"complete", "done"} =>
         reads \/ \E j \in DOMAIN steps : j < k /\ steps[j] \in Changing
    /\ steps[k] \in {"put", "unless"} =>
         k > 1 /\ steps[k - 1] \in {"read", "fetch"}

(* The call without a token accepts none, and changes nothing if there is    *)
(* one to be had.                                                            *)
AskOnly(p) ==
  \A k \in DOMAIN p.ask :
    /\ p.ask[k] # "validate"
    /\ p.run # <<>> => p.ask[k] \notin Changing

(* The call with a token changes nothing before it has accepted it; a token  *)
(* that is bound to a resolved id is accepted after the id was resolved.     *)
RunAccepted(p) ==
  \A k \in DOMAIN p.run :
    /\ p.run[k] # "unless"
    /\ p.run[k] \in Changing => \E j \in DOMAIN p.run : j < k /\ p.run[j] = "validate"
    /\ p.binds /\ p.run[k] \in {"resolve", "find", "locate"} =>
         \A j \in DOMAIN p.run : j < k => p.run[j] # "validate"

Plan ==
  [ask : Seq(AnyStep), run : Seq(AnyStep),
   catches : SUBSET Error, binds : BOOLEAN, lenient : BOOLEAN, reads : BOOLEAN]

ASSUME ToolCallsAssumption ==
  /\ MaxOutside \in Nat
  /\ {"before", "outside", "nobody"} \cap Session = {}

ASSUME PlansAssumption ==
  \A F \in Families : \A p \in F :
    /\ p \in Plan
    /\ Ordered(p.ask, p.reads) /\ Ordered(p.run, p.reads)
    /\ AskOnly(p) /\ RunAccepted(p)

Author == Session \cup {"before", "outside", "nobody"}
Gone == [f \in Field |-> "nobody"]      \* no item, and no answer to a read

VARIABLES
  plan,      \* plan[s]: the handler that session s calls
  todo,      \* todo[s]: what is left of it
  answer,    \* answer[s]: what the last call of s answered
  token,     \* token[s]: the state of the confirmation token of s
  target,    \* target[s]: the item the running call of s has resolved to
  seen,      \* seen[s]: the content it has read
  item,      \* item[i]: what Home Assistant stores
  named,     \* the item that the name the clients use stands for
  outside,   \* changes made outside so far
  shown,     \* history: shown[s] is the item that the preview was about
  did,       \* history: did[s] counts what HA carried out for s
  stale      \* history: stale[s], what happened behind the back of s

callVars == <<plan, todo, answer, token, target, seen>>
haVars   == <<item, named, outside>>
history  == <<shown, did, stale>>
vars     == <<callVars, haVars, history>>

Written == [Field -> Author]
Stale   == {"renamed", "edited", "unheard"}
Answers == {"none", "preview", "ok", "not_found", "elsewhere", "refused", "error", "raised"}

TypeOK ==
  /\ plan \in [Session -> UNION Families]
  /\ todo \in [Session -> Seq(AnyStep)]
  /\ answer \in [Session -> Answers]
  /\ token \in [Session -> {"none", "pending", "executing", "completed", "failed"}]
  /\ target \in [Session -> Slot]
  /\ seen \in [Session -> Written]
  /\ item \in [Slot -> Written]
  /\ named \in Id
  /\ outside \in 0 .. MaxOutside
  /\ shown \in [Session -> Slot]
  /\ did \in [Session -> 0 .. 1]
  /\ stale \in [Session -> SUBSET Stale]

Before == [f \in Field |-> "before"]

Init ==
  /\ \E F \in Families : plan \in [Session -> F]
  /\ todo = [s \in Session |-> plan[s].ask]
  /\ answer = [s \in Session |-> "none"]
  /\ token = [s \in Session |-> "none"]
  /\ target = [s \in Session |-> 1]
  /\ seen = [s \in Session |-> Gone]
  /\ item \in [Slot -> {Gone, Before}] /\ item[Raw] = Gone
  /\ named = 1
  /\ outside = 0
  /\ shown = [s \in Session |-> 1]
  /\ did = [s \in Session |-> 0]
  /\ stale = [s \in Session |-> {}]

-------------------------------------------------------------------------------
At(s, step) == todo[s] # <<>> /\ Head(todo[s]) = step

Advance(s) == todo' = [todo EXCEPT ![s] = Tail(@)]

Goes(s) == Advance(s) /\ UNCHANGED <<answer, token, seen>>

(* The call ends with answer a; the token, if the call holds one, is left    *)
(* in state k, and what the call had read is gone with it.                   *)
End(s, a, k) ==
  /\ seen' = [seen EXCEPT ![s] = Gone]
  /\ todo' = [todo EXCEPT ![s] = <<>>]
  /\ answer' = [answer EXCEPT ![s] = a]
  /\ token' = [token EXCEPT ![s] = IF @ = "executing" THEN k ELSE @]

(* Mutant: the error path answers without completing the token.              *)
FailUnsettled(s, e) ==
  IF e \in plan[s].catches
  THEN End(s, "error", "executing")
  ELSE End(s, "raised", "executing")

(* An await of s raised e.  What the handler catches, it reports, and it     *)
(* completes its token as failed; the rest goes through to the server and    *)
(* leaves the token to expire.                                               *)
Fail(s, e) ==
  IF e \in plan[s].catches
  THEN End(s, "error", "failed")
  ELSE End(s, "raised", "executing")

(* What the handler awaits outside its `try` raised: only HAConnectionError  *)
(* is caught there.                                                          *)
Uncaught(s) == End(s, "raised", "executing")

-------------------------------------------------------------------------------
(* Before Home Assistant is asked.                                           *)

(* requires_ready, then the validation of the arguments.                     *)
Checks(s) ==
  /\ At(s, "ready") \/ At(s, "check")
  /\ \/ Goes(s)
     \/ End(s, "refused", "failed")
  /\ UNCHANGED <<plan, target, haVars, history>>

(* The call is about item i from here on; a name given to another item       *)
(* before the preview is made does no harm.                                  *)
Resolved(s, i) ==
  /\ target' = [target EXCEPT ![s] = i]
  /\ stale' = [stale EXCEPT ![s] = IF token[s] = "none" THEN @ \ {"renamed"} ELSE @]

(* _resolve_*_config_id: the id in the state of the entity, or, when there   *)
(* is no state or no id in it, the name itself; Home Assistant is asked for  *)
(* a state that is not cached.                                               *)
Resolve(s) ==
  /\ At(s, "resolve")
  /\ \/ \E i \in {named, Raw} : Goes(s) /\ Resolved(s, i)
     \/ \E e \in Error : Fail(s, e) /\ UNCHANGED <<target, stale>>
  /\ UNCHANGED <<plan, haVars, shown, did>>

(* _get_dashboard_meta_by_url_path: a list that could not be had counts as   *)
(* an empty one; an entry may have no id.  "locate" stands outside the try.  *)
Find(s) ==
  /\ At(s, "find") \/ At(s, "locate")
  /\ \/ item[named] # Gone /\ Goes(s) /\ Resolved(s, named)
     \/ item[named] = Gone /\ End(s, "not_found", "completed") /\ Resolved(s, named)
     \/ /\ End(s, "not_found", "completed")
        /\ stale' = [stale EXCEPT ![s] = @ \cup {"unheard"}]
        /\ UNCHANGED target
     \/ End(s, "error", "failed") /\ UNCHANGED <<target, stale>>
     \/ At(s, "find") /\ Fail(s, "other") /\ UNCHANGED <<target, stale>>
     \/ At(s, "locate") /\ Uncaught(s) /\ UNCHANGED <<target, stale>>
  /\ UNCHANGED <<plan, haVars, shown, did>>

(* The same list, to see whether the dashboard is kept in a YAML file: none  *)
(* found is as good as one that is not.                                      *)
Peek(s) ==
  /\ At(s, "peek")
  /\ Goes(s) \/ Uncaught(s)
  /\ UNCHANGED <<plan, target, haVars, history>>

(* The reads.  "look" is for the preview and shows nothing when Home         *)
(* Assistant does not answer; "read" and "fetch" report that.  What is read  *)
(* is current at this step: from here on `stale` records edits.              *)
Reads(s) ==
  /\ At(s, "look") \/ At(s, "read") \/ At(s, "fetch")
  /\ \/ /\ Advance(s)
        /\ seen' = [seen EXCEPT ![s] = item[target[s]]]
        /\ stale' = [stale EXCEPT ![s] = @ \ {"edited"}]
        /\ UNCHANGED <<answer, token>>
     \/ /\ At(s, "look")
        /\ Advance(s)
        /\ seen' = [seen EXCEPT ![s] = Gone]
        /\ UNCHANGED <<answer, token, stale>>
     \/ \E e \in Error : (At(s, "look") => e = "other") /\ Fail(s, e)
        /\ UNCHANGED stale
  /\ UNCHANGED <<plan, target, haVars, shown, did>>

(* Mutant: an entity whose state cannot be had is not there.                 *)
ExistsIfHeard(s) ==
  /\ At(s, "exists")
  /\ \/ item[target[s]] # Gone /\ Goes(s)
     \/ End(s, "not_found", "completed")
  /\ UNCHANGED <<plan, target, haVars, history>>

(* entity_exists: only a 404 means that the entity is not there.             *)
Exists(s) ==
  /\ At(s, "exists")
  /\ \/ item[target[s]] # Gone /\ Goes(s)
     \/ item[target[s]] = Gone /\ End(s, "not_found", "completed")
     \/ \E e \in Error : Fail(s, e)
  /\ UNCHANGED <<plan, target, haVars, history>>

-------------------------------------------------------------------------------
(* The token.                                                                *)

Issue(s) ==
  /\ At(s, "issue")
  /\ todo' = [todo EXCEPT ![s] = <<>>]
  /\ answer' = [answer EXCEPT ![s] = "preview"]
  /\ seen' = [seen EXCEPT ![s] = Gone]
  /\ token' = [token EXCEPT ![s] = "pending"]
  /\ shown' = [shown EXCEPT ![s] = target[s]]
  /\ UNCHANGED <<plan, target, haVars, did, stale>>

(* The client calls again, with the token and the same arguments.            *)
Confirm(s) ==
  /\ answer[s] = "preview" /\ todo[s] = <<>>
  /\ todo' = [todo EXCEPT ![s] = plan[s].run]
  /\ answer' = [answer EXCEPT ![s] = "none"]
  /\ UNCHANGED <<plan, token, target, seen, haVars, history>>

(* Mutant: dashboard_id is left out of the arguments the token is bound to.  *)
BindsNameOnly(s) == TRUE

(* The id a handler has resolved before validation is among its arguments.   *)
SameArguments(s) == plan[s].binds => target[s] = shown[s]

(* The token may also have expired meanwhile.                                *)
Validate(s) ==
  /\ At(s, "validate")
  /\ \/ /\ SameArguments(s)
        /\ Advance(s)
        /\ token' = [token EXCEPT ![s] = "executing"]
        /\ UNCHANGED <<answer, seen>>
     \/ End(s, "refused", "failed")
  /\ UNCHANGED <<plan, target, haVars, history>>

Complete(s) ==
  /\ At(s, "complete")
  /\ End(s, "ok", "completed")
  /\ UNCHANGED <<plan, target, haVars, history>>

(* A tool that needs no token has run to its end.                            *)
Finish(s) ==
  /\ At(s, "done")
  /\ End(s, "ok", "completed")
  /\ UNCHANGED <<plan, target, haVars, history>>

(* A job is noted in pending_jobs.json; the file may not be writable.        *)
Track(s) ==
  /\ At(s, "track")
  /\ Goes(s) \/ Fail(s, "other")
  /\ UNCHANGED <<plan, target, haVars, history>>

-------------------------------------------------------------------------------
(* The changes, each one request.  Home Assistant carries it out and the     *)
(* answer arrives, or it is lost; or the request never arrives.              *)

(* Mutant: the configuration alone is sent back.                             *)
MergedAlone(s, g) == [f \in Field |-> s]

(* Mutant: the fields that were not given are sent as null.                  *)
MergedNull(s, g) == [f \in Field |-> IF f = g THEN s ELSE "null"]

(* existing | normalized_config, when the configuration gives the field g.   *)
Merged(s, g) == [f \in Field |-> IF f = g THEN s ELSE seen[s][f]]

(* What the item of s becomes.  `save` posts a whole configuration; `change` *)
(* is merged by Home Assistant; `replace` posts the fields that were given,  *)
(* and the Supervisor keeps no other; `put` sends back what was read, merged *)
(* here; `create` and `invoke` touch no item that was there.                 *)
Becomes(s, g) ==
  LET step == Head(todo[s])
      now  == item[target[s]]
  IN CASE step = "save"    -> [f \in Field |-> s]
       [] step = "change"  -> [now EXCEPT ![g] = s]
       [] step = "replace" -> [Gone EXCEPT ![g] = s]
       [] step = "put"     -> Merged(s, g)
       [] step = "remove"  -> Gone
       [] OTHER            -> now

(* `change`, `replace`, `put` and `remove` are refused when the item is not  *)
(* there, and with them `put` after a read that found nothing, which creates *)
(* instead.                                                                  *)
Accepts(s) ==
  \/ At(s, "save") \/ At(s, "create") \/ At(s, "invoke")
  \/ (At(s, "change") \/ At(s, "replace") \/ At(s, "remove")) /\ item[target[s]] # Gone
  \/ At(s, "put") /\ item[target[s]] # Gone /\ seen[s] # Gone

Requests(s) ==
  \/ \E step \in {"save", "create", "invoke", "change", "replace", "remove"} : At(s, step)
  \/ At(s, "put") /\ seen[s] # Gone

(* Whoever has read the item before now holds what it was.                   *)
Outdate(i, who) ==
  [r \in Session |-> IF r # who /\ target[r] = i
                     THEN stale[r] \cup {"edited"} ELSE stale[r]]

Carry(s) ==
  \E g \in Field :
    /\ item' = [item EXCEPT ![target[s]] = Becomes(s, g)]
    /\ did' = [did EXCEPT ![s] = 1]
    /\ stale' = IF item' = item THEN stale ELSE Outdate(target[s], s)

Change(s) ==
  /\ Requests(s)
  /\ \/ /\ Accepts(s) /\ Carry(s)
        /\ Goes(s) \/ \E e \in Error : Fail(s, e)
     \/ /\ \E e \in Error : Fail(s, e)
        /\ UNCHANGED <<item, did, stale>>
  /\ UNCHANGED <<plan, target, named, outside, shown>>

(* A delete of what is not there: "not_found" is a result, not an error.     *)
RemoveNothing(s) ==
  /\ At(s, "remove") /\ plan[s].lenient /\ item[target[s]] = Gone
  /\ End(s, "not_found", "completed")
  /\ UNCHANGED <<plan, target, haVars, history>>

(* collection_update_flow found nothing to update and creates: under the id  *)
(* that Home Assistant derives from the name, which may be another one.      *)
PutNew(s) ==
  /\ At(s, "put") /\ seen[s] = Gone
  /\ \/ \E i \in Id :
          /\ item[i] = Gone
          /\ item' = [item EXCEPT ![i] = [f \in Field |-> s]]
          /\ did' = [did EXCEPT ![s] = 1]
          /\ stale' = Outdate(i, s)
          /\ \/ i = target[s] /\ Goes(s)
             \/ i # target[s] /\ End(s, "elsewhere", "completed")
             \/ \E e \in Error : Fail(s, e)
     \/ /\ \E e \in Error : Fail(s, e)
        /\ UNCHANGED <<item, did, stale>>
  /\ UNCHANGED <<plan, target, named, outside, shown>>

(* ha_create_or_update_scene saves without a token when it has read that     *)
(* there is no such scene.                                                   *)
SaveIfNone(s) ==
  /\ At(s, "unless")
  /\ todo' = [todo EXCEPT ![s] = IF seen[s] = Gone THEN <<"save", "done">> ELSE Tail(@)]
  /\ UNCHANGED <<plan, answer, token, target, seen, haVars, history>>

-------------------------------------------------------------------------------
(* Home Assistant's own interface, external.                                 *)

Rename ==
  /\ outside < MaxOutside
  /\ outside' = outside + 1
  /\ named' = 3 - named
  /\ stale' = [s \in Session |-> stale[s] \cup {"renamed"}]
  /\ UNCHANGED <<callVars, item, shown, did>>

Edit(i) ==
  /\ outside < MaxOutside /\ (i = Raw => item[i] # Gone)
  /\ outside' = outside + 1
  /\ \/ item[i] # Gone /\ item' = [item EXCEPT ![i] = [@ EXCEPT !["f"] = "outside"]]
     \/ item[i] # Gone /\ item' = [item EXCEPT ![i] = Gone]
     \/ item[i] = Gone /\ item' = [item EXCEPT ![i] = [f \in Field |-> "outside"]]
  /\ stale' = Outdate(i, "outside")
  /\ UNCHANGED <<callVars, named, shown, did>>

Step(s) ==
  \/ Checks(s) \/ Resolve(s) \/ Find(s) \/ Peek(s) \/ Reads(s) \/ Exists(s)
  \/ Issue(s) \/ Confirm(s) \/ Validate(s) \/ Complete(s) \/ Finish(s)
  \/ Track(s)
  \/ Change(s) \/ RemoveNothing(s) \/ PutNew(s) \/ SaveIfNone(s)

Next ==
  \/ \E s \in Session : Step(s)
  \/ Rename
  \/ \E i \in Slot : Edit(i)

Spec == Init /\ [][Next]_vars

-------------------------------------------------------------------------------
Over(s) == todo[s] = <<>> /\ answer[s] # "none"

Protected(s) == plan[s].run # <<>>

(* A token is settled by every call that answers, with the outcome that the  *)
(* answer tells: whatever failed, and however many requests the handler had  *)
(* made before.  Only an exception that the handler does not catch leaves it *)
(* "executing" (the complete_confirmation_token calls of all handlers).      *)
TokensSettled ==
  \A s \in Session : Over(s) =>
    /\ token[s] = "executing" => answer[s] = "raised"
    /\ token[s] = "completed" => answer[s] \in {"ok", "not_found", "elsewhere"}
    /\ token[s] = "failed" => answer[s] \in {"error", "refused"}

(* The answer tells what Home Assistant did: "ok" that it did it, and a      *)
(* preview, a refusal or "not_found" that it did nothing; and "not_found" is *)
(* not said of a name whose item was there all along, except by the          *)
(* dashboard tools, which take a list that failed for an empty one, and for  *)
(* an entity id that could not be resolved (entity_exists,                   *)
(* lovelace._list_extra_dashboards, _resolve_automation_config_id, the       *)
(* return statements of all handlers).                                       *)
AnswersTrue ==
  \A s \in Session : Over(s) =>
    /\ answer[s] \in {"ok", "elsewhere"} => did[s] = 1 \/ plan[s].reads
    /\ answer[s] \in {"preview", "refused", "not_found"} => did[s] = 0
    /\ answer[s] = "not_found" /\ item[named] # Gone => stale[s] # {} \/ target[s] = Raw

(* A protected tool changes only the item its preview was about, under a     *)
(* token being executed.  If the name has come to stand for another item     *)
(* since, a handler that resolves it again changes that one, unseen; not so  *)
(* one whose token is bound to the resolved id; and so it does if the name   *)
(* could not be resolved in one of its calls.  The one save without a token, *)
(* of a new scene, overwrites nothing that was there when it looked          *)
(* (automations.py:36-66, 215, scenes.py:181-250, lovelace.py:497-527).      *)
WritesWhatWasShown ==
  [][\A s \in Session : did'[s] # did[s] /\ Protected(s) =>
       IF token[s] = "executing"
       THEN \/ target[s] = shown[s]
            \/ ~plan[s].binds /\ ("renamed" \in stale[s] \/ Raw \in {target[s], shown[s]})
       ELSE /\ At(s, "save") /\ token[s] = "none"
            /\ item[target[s]] = Gone \/ "edited" \in stale[s]]_vars

LeavesRest(i) == \E g \in Field : \A f \in Field \ {g} : item'[i][f] = item[i][f]

(* No update is lost: what a tool writes leaves the fields it was not given  *)
(* as they are, unless the tool replaces the whole configuration or, for all *)
(* that its docstring says (addons.py:257-258), the options of an add-on, or *)
(* the item was edited since the tool read what it merges into               *)
(* (_common.py:134-175).                                                     *)
FieldsKept ==
  [][\A s \in Session, i \in Slot :
       did'[s] # did[s] /\ ~At(s, "save") /\ ~At(s, "replace")
         /\ item[i] # Gone /\ item'[i] # Gone
         => "edited" \in stale[s] \/ LeavesRest(i)]_vars
===============================================================================
