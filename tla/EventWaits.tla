------------------------------- MODULE EventWaits -------------------------------
(***************************************************************************)
(* ha_wait_for_event: a call registers itself, subscribes, and waits for   *)
(* an event, a cancellation by another tool or its time to pass; then it   *)
(* unsubscribes and gives its place back (tools/wait_for_event.py).  The   *)
(* task of a call may be cancelled at any await, more than once: when the  *)
(* client goes away, or the server stops.  What the subscription does in   *)
(* the client of Home Assistant is HaWebSocket's subject.                  *)
(***************************************************************************)
EXTENDS Naturals, Sequences, FiniteSets

CONSTANTS
  Wait,           \* calls of the tool
  MaxConcurrent,  \* wait_for_event_max_concurrent
  MaxEvents       \* bound: events for one call

VARIABLES
  stage,      \* stage[w]: where the call is
  active,     \* _WaitManager._active
  cancelled,  \* the waits whose cancel_event is set
  inbox,      \* inbox[w]: the queue of its subscription
  sent,       \* sent[w]: events put there so far
  reply,      \* reply[w]: what the call answered
  cut         \* history: calls cancelled again while they were cleaning up

waitVars == <<stage, active, cancelled, inbox, sent, reply, cut>>

Running == {"subscribing", "waiting", "closing"}
Replies == {"none", "too_many_waits", "error", "matched", "ws_reconnect", "cancelled",
            "timeout", "gone"}

TypeOK ==
  /\ stage \in [Wait -> Running \cup {"idle", "done"}]
  /\ active \subseteq Wait /\ cancelled \subseteq Wait /\ cut \subseteq Wait
  /\ inbox \in [Wait -> UNION {[1 .. n -> {"match", "other", "closed"}] : n \in 0 .. MaxEvents}]
  /\ sent \in [Wait -> 0 .. MaxEvents]
  /\ reply \in [Wait -> Replies]

Init ==
  /\ stage = [w \in Wait |-> "idle"]
  /\ active = {} /\ cancelled = {} /\ cut = {}
  /\ inbox = [w \in Wait |-> <<>>]
  /\ sent = [w \in Wait |-> 0]
  /\ reply = [w \in Wait |-> "none"]

-------------------------------------------------------------------------------
Register(w) ==
  /\ stage[w] = "idle"
  /\ \/ /\ Cardinality(active) < MaxConcurrent
        /\ active' = active \cup {w}
        /\ stage' = [stage EXCEPT ![w] = "subscribing"]
        /\ UNCHANGED reply
     \/ /\ Cardinality(active) >= MaxConcurrent
        /\ stage' = [stage EXCEPT ![w] = "done"]
        /\ reply' = [reply EXCEPT ![w] = "too_many_waits"]
        /\ UNCHANGED active
  /\ UNCHANGED <<cancelled, inbox, sent, cut>>

Subscribed(w) ==
  /\ stage[w] = "subscribing"
  /\ stage' = [stage EXCEPT ![w] = "waiting"]
  /\ UNCHANGED <<active, cancelled, inbox, sent, reply, cut>>

(* Mutant: the place is given back by the end of the wait only.              *)
UnsubscribedKeepsPlace(w) ==
  /\ stage' = [stage EXCEPT ![w] = "done"]
  /\ inbox' = [inbox EXCEPT ![w] = <<>>]
  /\ UNCHANGED active

(* manager.unregister, the last thing a call does.                           *)
Unregister(w) ==
  /\ stage' = [stage EXCEPT ![w] = "done"]
  /\ inbox' = [inbox EXCEPT ![w] = <<>>]
  /\ active' = active \ {w}

(* The subscription failed, and the client has cleaned up after itself:      *)
(* there is nothing to unsubscribe here.                                     *)
NotSubscribed(w) ==
  /\ stage[w] = "subscribing"
  /\ Unregister(w)
  /\ \E r \in {"error", "gone"} : reply' = [reply EXCEPT ![w] = r]
  /\ UNCHANGED <<cancelled, sent, cut>>

Ends(w, r) ==
  /\ stage' = [stage EXCEPT ![w] = "closing"]
  /\ reply' = [reply EXCEPT ![w] = r]
  /\ UNCHANGED <<active, cancelled, sent, cut>>

(* One turn of the loop.  A cancellation is looked at before the queue at    *)
(* the top of the loop, and after it when both are there at once.            *)
TakesEvent(w) ==
  /\ stage[w] = "waiting" /\ inbox[w] # <<>>
  /\ inbox' = [inbox EXCEPT ![w] = Tail(@)]
  /\ \/ Head(inbox[w]) = "match" /\ Ends(w, "matched")
     \/ Head(inbox[w]) = "closed" /\ Ends(w, "ws_reconnect")
     \/ /\ Head(inbox[w]) = "other"
        /\ UNCHANGED <<stage, active, cancelled, sent, reply, cut>>

SeesCancel(w) ==
  /\ stage[w] = "waiting" /\ w \in cancelled
  /\ Ends(w, "cancelled") /\ UNCHANGED inbox

TimesOut(w) ==
  /\ stage[w] = "waiting"
  /\ Ends(w, "timeout") /\ UNCHANGED inbox

TaskCancelled(w) ==
  /\ stage[w] = "waiting"
  /\ Ends(w, "gone") /\ UNCHANGED inbox

(* ws_unsubscribe_events_queue, then the place is free.                      *)
Close(w) ==
  /\ stage[w] = "closing"
  /\ Unregister(w)
  /\ UNCHANGED <<cancelled, sent, reply, cut>>

(* A cancellation in the middle of the clean-up: it goes through `finally`.  *)
CutShort(w) ==
  /\ stage[w] = "closing"
  /\ stage' = [stage EXCEPT ![w] = "done"]
  /\ inbox' = [inbox EXCEPT ![w] = <<>>]
  /\ reply' = [reply EXCEPT ![w] = "gone"]
  /\ cut' = cut \cup {w}
  /\ UNCHANGED <<active, cancelled, sent>>

(* ha_cancel_wait.                                                           *)
CancelWait(w) ==
  /\ w \in active
  /\ cancelled' = cancelled \cup {w}
  /\ UNCHANGED <<stage, active, inbox, sent, reply, cut>>

(* Home Assistant sends an event, or the connection is lost (external).      *)
Arrives(w) ==
  /\ stage[w] \in {"waiting", "closing"} /\ sent[w] < MaxEvents
  /\ \E e \in {"match", "other", "closed"} : inbox' = [inbox EXCEPT ![w] = Append(@, e)]
  /\ sent' = [sent EXCEPT ![w] = @ + 1]
  /\ UNCHANGED <<stage, active, cancelled, reply, cut>>

Next ==
  \E w \in Wait :
    \/ Register(w) \/ Subscribed(w) \/ NotSubscribed(w)
    \/ TakesEvent(w) \/ SeesCancel(w) \/ TimesOut(w) \/ TaskCancelled(w)
    \/ Close(w) \/ CutShort(w) \/ CancelWait(w) \/ Arrives(w)

-------------------------------------------------------------------------------
(* Every place is held by a call that is still running, whatever ended the   *)
(* others, and there are never more than the limit.  A call that is          *)
(* cancelled once more while it unsubscribes takes its place with it: after  *)
(* as many of these as there are places, the tool refuses every call until   *)
(* the process starts anew (wait_for_event.py:354-357).                      *)
PlacesHeld ==
  /\ active = {w \in Wait : stage[w] \in Running} \cup cut
  /\ Cardinality(active) <= MaxConcurrent
  /\ \A w \in Wait : reply[w] = "cancelled" => w \in cancelled
===============================================================================
