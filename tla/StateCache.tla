------------------------------- MODULE StateCache -------------------------------
(***************************************************************************)
(* The state cache of HAClient (hermes/ha.py).  It is fed from two sides:  *)
(* a snapshot over REST after every (re)connection, and the state_changed  *)
(* events of the WebSocket.  The subscription comes before the snapshot,   *)
(* so events from before the snapshot are read after it.                   *)
(*                                                                         *)
(* A state is known by its last_updated; 0 is an entity that does not      *)
(* exist (in HA) or has no entry (in the cache).  HA stamps every change   *)
(* with a later time, so the branch for states without a usable mark is    *)
(* left out.  _cache_lock is never held across an await: it orders nothing *)
(* that a step does not.  Commands, waits and the details of the handshake *)
(* are in HaWebSocket.                                                     *)
(***************************************************************************)
EXTENDS Naturals, Sequences

CONSTANTS
  Entity,
  MaxTime,    \* bound: changes in HA
  MaxConn     \* bound: connections made

ASSUME StateCacheAssumption == MaxTime \in Nat /\ MaxConn \in Nat

VARIABLES
  task,       \* where _run_background is
  ready,      \* _connected_event
  cache,      \* _state_cache: the last_updated of each entry
  now,        \* HA: the time of the last change
  world,      \* HA: the last_updated of each entity
  link,       \* the connection as the network sees it
  subscribed, \* HA: this connection is subscribed to state_changed
  stream,     \* events HA sent, not yet read
  answered,   \* HA took the snapshot that GET /states asked for
  answer,     \* what it says
  conn,       \* connections made so far
  mistaken    \* history: another command's result was taken for the confirmation

clientVars == <<task, ready, cache>>
haVars     == <<now, world, link, subscribed, stream>>
restVars   == <<answered, answer>>
vars       == <<clientVars, haVars, restVars, conn, mistaken>>

Time   == 0 .. now
Events == [entity : Entity, time : Nat, gone : BOOLEAN]

(* The types; tools are let through only while events are read.              *)
TypeOK ==
  /\ task \in {"asleep", "confirm", "snapshot", "read"}
  /\ ready \in BOOLEAN /\ (task # "read" => ready = FALSE)
  /\ now \in 0 .. MaxTime
  /\ cache \in [Entity -> Time] /\ world \in [Entity -> Time]
  /\ link \in {"up", "lost"} /\ subscribed \in BOOLEAN
  /\ stream \in Seq(Events)
  /\ answered \in BOOLEAN /\ answer \in [Entity -> Time]
  /\ conn \in 0 .. MaxConn /\ mistaken \in BOOLEAN

Init ==
  /\ task = "asleep" /\ ready = FALSE /\ cache = [e \in Entity |-> 0]
  /\ now = 0 /\ world = [e \in Entity |-> 0]
  /\ link = "lost" /\ subscribed = FALSE /\ stream = <<>>
  /\ answered = FALSE /\ answer = [e \in Entity |-> 0]
  /\ conn = 0 /\ mistaken = FALSE

-------------------------------------------------------------------------------
(* What an event does to the cache.                                          *)

(* Mutant: the newest to arrive wins.                                        *)
NewerOnArrival(time, entry) == TRUE

(* _state_is_newer; an entry that is not there is older than anything.       *)
Newer(time, entry) == time >= entry

(* Mutant: every removal is carried out.                                     *)
RemovesAlways(time, entry) == TRUE

(* A removal counts unless the entry is of a later life of the entity.       *)
Removes(time, entry) == time >= entry

(* _handle_ws_message on a state_changed event.                              *)
Applied(event) ==
  LET e == event.entity IN
  IF event.gone
  THEN IF Removes(event.time, cache[e]) THEN [cache EXCEPT ![e] = 0] ELSE cache
  ELSE IF Newer(event.time, cache[e]) THEN [cache EXCEPT ![e] = event.time] ELSE cache

-------------------------------------------------------------------------------
(* The background task.                                                      *)

(* A new socket, authenticated, on which the subscription was sent.          *)
Connect ==
  /\ task = "asleep" /\ conn < MaxConn
  /\ task' = "confirm" /\ conn' = conn + 1
  /\ link' = "up" /\ subscribed' = FALSE /\ stream' = <<>>
  /\ UNCHANGED <<ready, cache, now, world, restVars, mistaken>>

(* Mutant: the snapshot is asked for without waiting for the subscription.   *)
ConfirmEarly ==
  /\ task = "confirm"
  /\ task' = "snapshot" /\ answered' = FALSE
  /\ UNCHANGED <<ready, cache, haVars, answer, conn, mistaken>>

(* The result of the subscription is read; GET /states is sent.              *)
Confirm ==
  /\ task = "confirm" /\ subscribed
  /\ task' = "snapshot" /\ answered' = FALSE
  /\ UNCHANGED <<ready, cache, haVars, answer, conn, mistaken>>

(* A handler sent a command on the new socket and HA answered it first: any  *)
(* successful result is taken for the confirmation.                          *)
Misconfirm ==
  /\ task = "confirm" /\ ~subscribed
  /\ task' = "snapshot" /\ answered' = FALSE
  /\ mistaken' = TRUE
  /\ UNCHANGED <<ready, cache, haVars, answer, conn>>

(* The snapshot replaces the cache.  No await that could suspend parts this  *)
(* from _connected_event.set().                                              *)
Populate ==
  /\ task = "snapshot" /\ answered
  /\ cache' = answer
  /\ task' = "read" /\ ready' = TRUE
  /\ UNCHANGED <<haVars, restVars, conn, mistaken>>

(* Time-out, refusal or a lost connection in the handshake, or GET /states   *)
(* fails: the socket is closed.  The cache stays as it was.                  *)
HandshakeFails ==
  /\ task \in {"confirm", "snapshot"}
  /\ task' = "asleep"
  /\ link' = "lost" /\ subscribed' = FALSE /\ stream' = <<>>
  /\ mistaken' = FALSE
  /\ UNCHANGED <<ready, cache, now, world, restVars, conn>>

Read ==
  /\ task = "read" /\ stream # <<>>
  /\ cache' = Applied(Head(stream)) /\ stream' = Tail(stream)
  /\ UNCHANGED <<task, ready, now, world, link, subscribed, restVars, conn, mistaken>>

(* Mutant: ready is a latch that a drop does not release.                    *)
ReadClosedLatched ==
  /\ task = "read" /\ stream = <<>> /\ link = "lost"
  /\ task' = "asleep" /\ mistaken' = FALSE
  /\ UNCHANGED <<ready, cache, haVars, restVars, conn>>

(* receive() returns CLOSED, at the latest when a heartbeat stays without    *)
(* answer.                                                                   *)
ReadClosed ==
  /\ task = "read" /\ stream = <<>> /\ link = "lost"
  /\ task' = "asleep" /\ ready' = FALSE /\ mistaken' = FALSE
  /\ UNCHANGED <<cache, haVars, restVars, conn>>

-------------------------------------------------------------------------------
(* Home Assistant and the network (external).                                *)

Tell(e, gone) ==
  stream' = IF subscribed THEN Append(stream, [entity |-> e, time |-> now + 1, gone |-> gone])
                          ELSE stream

(* A state is written, for the first time or anew.                           *)
Change(e) ==
  /\ now < MaxTime
  /\ now' = now + 1 /\ world' = [world EXCEPT ![e] = now + 1]
  /\ Tell(e, FALSE)
  /\ UNCHANGED <<clientVars, link, subscribed, restVars, conn, mistaken>>

(* The entity is removed.                                                    *)
Remove(e) ==
  /\ world[e] # 0 /\ now < MaxTime
  /\ now' = now + 1 /\ world' = [world EXCEPT ![e] = 0]
  /\ Tell(e, TRUE)
  /\ UNCHANGED <<clientVars, link, subscribed, restVars, conn, mistaken>>

HaSubscribes ==
  /\ link = "up" /\ ~subscribed /\ task # "asleep"
  /\ subscribed' = TRUE
  /\ UNCHANGED <<clientVars, now, world, link, stream, restVars, conn, mistaken>>

HaSnapshots ==
  /\ task = "snapshot" /\ ~answered
  /\ answered' = TRUE /\ answer' = world
  /\ UNCHANGED <<clientVars, haVars, conn, mistaken>>

(* The connection dies with a part of what HA had sent.                      *)
Lose ==
  /\ link = "up"
  /\ link' = "lost" /\ subscribed' = FALSE
  /\ \E n \in 0 .. Len(stream) : stream' = SubSeq(stream, 1, n)
  /\ UNCHANGED <<clientVars, now, world, restVars, conn, mistaken>>

-------------------------------------------------------------------------------
Task == Connect \/ Confirm \/ Misconfirm \/ Populate \/ HandshakeFails \/ Read \/ ReadClosed

Next ==
  \/ Task
  \/ \E e \in Entity : Change(e) \/ Remove(e)
  \/ HaSubscribes \/ HaSnapshots \/ Lose

(* The event loop runs the reading task; nothing is asked of HA.             *)
Fairness == WF_vars(Read) /\ WF_vars(ReadClosed)

Spec == Init /\ [][Next]_vars /\ Fairness

-------------------------------------------------------------------------------
(* Properties.                                                               *)

OnItsWay(e) == \E k \in DOMAIN stream : stream[k].entity = e

(* While tools are let through and the connection is up, every entry is what *)
(* HA has, or an event that says otherwise has yet to be read: between       *)
(* subscription, snapshot and events nothing falls through, whichever        *)
(* overtakes which (ha.py 407-413).  Excepted is a connection whose          *)
(* confirmation was another command's result.                                *)
Follows ==
  ready /\ link = "up" /\ ~mistaken
    => \A e \in Entity : cache[e] = world[e] \/ OnItsWay(e)

(* No entry is replaced by an older one, not across reconnections either     *)
(* (_state_is_newer, ha.py 145-160).                                         *)
NoEntryGoesBack ==
  [][\A e \in Entity : cache[e] # 0 /\ cache'[e] # 0 => cache'[e] >= cache[e]]_vars

(* An entry that is what HA has stays: not even a removal of an earlier life *)
(* of the entity, read after the snapshot, takes it away (ha.py 583-593).    *)
RightEntryStays ==
  [][\A e \in Entity : cache[e] # 0 /\ cache[e] = world[e] => cache'[e] = cache[e]]_vars

(* ready is no latch: after a loss the cache is not served as live for ever  *)
(* (ha.py 366-373).                                                          *)
LossEndsReady == (ready /\ link = "lost") ~> ~ready
===============================================================================
