------------------------------ MODULE HaWebSocket ------------------------------
(***************************************************************************)
(* The WebSocket half of HAClient (hermes/ha.py): one background task that *)
(* connects, authenticates, subscribes and reads, and any number of tool   *)
(* handlers that send commands, one-shot subscriptions and event waits     *)
(* (tools/wait_for_event.py) over the socket the task currently holds.     *)
(*                                                                         *)
(* A step runs from one await to the next.  Reserving an id, registering   *)
(* the future and writing the frame is one step: no await parts the first  *)
(* two and _ws_request_lock keeps other senders out until the write ended. *)
(* A call may be cancelled at any of its awaits, that write included.      *)
(* Home Assistant and the network (external) answer commands in any order, *)
(* keep subscriptions per connection, and may drop the connection at any   *)
(* moment: what HA had sent before can still be read, what was sent to it  *)
(* is lost.                                                                *)
(***************************************************************************)
EXTENDS Naturals, Sequences, SequencesExt

CONSTANTS
  Req,        \* tool calls, each of which uses the socket once
  MaxConn,    \* bound: connections made
  MaxEvents   \* bound: events HA emits

ASSUME HaWebSocketAssumption == MaxConn \in Nat /\ MaxEvents \in Nat

VARIABLES
  task,     \* where _run_background is
  closed,   \* self._ws is None or self._ws.closed
  ready,    \* _connected_event
  nextId,   \* _next_ws_request_id
  watch,    \* the id of this connection's state_changed subscription, 0 before
  pendR,    \* ids in _pending_ws_responses
  pendE,    \* ids in _pending_ws_subscriptions
  queues,   \* ids in _event_subscription_queues
  at,       \* at[r]: where call r is suspended
  kind,     \* kind[r]: which of the three methods r uses
  id,       \* id[r]: the request id r was given
  fut,      \* fut[r]: its result future
  evfut,    \* evfut[r]: its event future (one-shot)
  queue,    \* queue[r]: its event queue
  cut,      \* history: calls cancelled where nothing undoes what they set up
  link,     \* the connection as the network sees it
  wire,     \* frames on their way to HA
  inbox,    \* frames HA sent, not yet read
  haAuth,   \* HA: this connection is authenticated
  haSubs,   \* HA: subscriptions of this connection
  conn,     \* connections made so far
  events    \* events emitted so far

taskVars == <<task, closed, ready, watch>>
tables   == <<pendR, pendE, queues>>
callVars == <<at, kind, id, fut, evfut, queue, cut>>
haVars   == <<link, wire, inbox, haAuth, haSubs>>
bounds   == <<conn, events>>
vars     == <<taskVars, nextId, tables, callVars, haVars, bounds>>

Kinds    == {"command", "oneshot", "wait"}
Futures  == {"none", "ok", "error"}
Sentinel == "closed"
Frames   == [type: {"auth", "command", "subscribe", "unsubscribe"}, id: Nat, sub: Nat]
Messages == [type: {"auth_required", "auth_ok", "auth_invalid", "result", "event"},
             id: Nat, ok: BOOLEAN]

TypeOK ==
  /\ task \in {"asleep", "hello", "auth", "confirm", "snapshot",
               "read", "stopped"}
  /\ closed \in BOOLEAN /\ ready \in BOOLEAN
  /\ nextId \in Nat /\ watch \in Nat
  /\ pendR \in SUBSET Nat /\ pendE \in SUBSET Nat /\ queues \in SUBSET Nat
  /\ at \in [Req -> {"idle", "gated", "result", "event", "leaving", "done"}]
  /\ kind \in [Req -> Kinds] /\ id \in [Req -> Nat]
  /\ fut \in [Req -> Futures] /\ evfut \in [Req -> Futures]
  /\ queue \in [Req -> Seq({Sentinel, "event"})] /\ cut \in SUBSET Req
  /\ link \in {"up", "lost"} /\ haAuth \in BOOLEAN /\ haSubs \in SUBSET Nat
  /\ wire \in Seq(Frames) /\ inbox \in Seq(Messages)
  /\ conn \in 0 .. MaxConn /\ events \in 0 .. MaxEvents

Init ==
  /\ task = "asleep" /\ closed = TRUE /\ ready = FALSE
  /\ nextId = 1 /\ watch = 0
  /\ pendR = {} /\ pendE = {} /\ queues = {}
  /\ at = [r \in Req |-> "idle"]
  /\ kind \in [Req -> Kinds]
  /\ id = [r \in Req |-> 0]
  /\ fut = [r \in Req |-> "none"] /\ evfut = [r \in Req |-> "none"]
  /\ queue = [r \in Req |-> <<>>] /\ cut = {}
  /\ link = "lost" /\ wire = <<>> /\ inbox = <<>> /\ haAuth = FALSE /\ haSubs = {}
  /\ conn = 0 /\ events = 0

Frame(type, n, sub) == [type |-> type, id |-> n, sub |-> sub]
Message(type, n, ok) == [type |-> type, id |-> n, ok |-> ok]

-------------------------------------------------------------------------------
(* What several handlers share.                                              *)

(* send_json on a socket whose peer is gone loses the frame (or raises, see  *)
(* SendRaises).                                                              *)
Write(frame) == wire' = IF link = "up" THEN Append(wire, frame) ELSE wire

Waits(r) == at[r] \in {"result", "event"}

Owns(r, table) == Waits(r) /\ id[r] \in table

(* Mutant: the reconnection empties the queue table without a sentinel.      *)
TellNobody == queues' = {} /\ UNCHANGED queue

(* Every registered queue gets the sentinel and is forgotten.                *)
Tell ==
  /\ queue' = [r \in Req |-> IF Owns(r, queues) THEN Append(queue[r], Sentinel) ELSE queue[r]]
  /\ queues' = {}

(* Mutant: only the answers to commands are failed, as the docstring says    *)
(* the function once did.                                                    *)
FailAnswersOnly ==
  /\ fut' = [r \in Req |-> IF Owns(r, pendR) /\ fut[r] = "none" THEN "error" ELSE fut[r]]
  /\ pendR' = {}
  /\ UNCHANGED <<evfut, queue, pendE, queues>>

(* Mutant: one-shot futures are handed the sentinel instead of the exception.*)
FailWithSentinel ==
  /\ fut' = [r \in Req |-> IF Owns(r, pendR) /\ fut[r] = "none" THEN "error" ELSE fut[r]]
  /\ evfut' = [r \in Req |-> IF Owns(r, pendE) /\ evfut[r] = "none" THEN Sentinel
                                                                    ELSE evfut[r]]
  /\ Tell
  /\ pendR' = {} /\ pendE' = {}

(* _fail_pending_requests: futures get the exception, queues the sentinel,   *)
(* and the three tables are emptied.                                         *)
FailPending ==
  /\ fut' = [r \in Req |-> IF Owns(r, pendR) /\ fut[r] = "none" THEN "error" ELSE fut[r]]
  /\ evfut' = [r \in Req |-> IF Owns(r, pendE) /\ evfut[r] = "none" THEN "error"
                                                                    ELSE evfut[r]]
  /\ Tell
  /\ pendR' = {} /\ pendE' = {}

(* _connect_and_watch raised: the context manager closes the socket,         *)
(* _run_background fails what is pending, clears `ready` and sleeps.         *)
DropConnection ==
  /\ task' = "asleep" /\ closed' = TRUE /\ ready' = FALSE
  /\ FailPending
  /\ link' = "lost" /\ wire' = <<>> /\ inbox' = <<>> /\ haAuth' = FALSE /\ haSubs' = {}
  /\ UNCHANGED <<nextId, watch, at, kind, id, cut, bounds>>

(* The call is done with its futures and its queue.                          *)
Release(r, place) ==
  /\ at' = [at EXCEPT ![r] = place]
  /\ fut' = [fut EXCEPT ![r] = "none"]
  /\ evfut' = [evfut EXCEPT ![r] = "none"]
  /\ queue' = [queue EXCEPT ![r] = <<>>]

(* _ws_unsubscribe: on a closed socket it returns at once; else there are    *)
(* the lock and the write to wait for.                                       *)
Unsubscribing == IF closed THEN "done" ELSE "leaving"

CutIf(r, cond) == cut' = IF cond THEN cut \cup {r} ELSE cut

-------------------------------------------------------------------------------
(* The background task.                                                      *)

(* A call that has something to run for; _run_background sleeps five seconds,*)
(* long enough for all of these to have run.                                 *)
Runnable(r) ==
  \/ at[r] = "result" /\ fut[r] # "none"
  \/ at[r] = "event" /\ (evfut[r] # "none" \/ queue[r] # <<>>)

(* ws_connect; HA opens with auth_required.                                  *)
Connect ==
  /\ task = "asleep" /\ conn < MaxConn /\ \A r \in Req : ~Runnable(r)
  /\ task' = "hello" /\ closed' = FALSE /\ watch' = 0 /\ link' = "up"
  /\ inbox' = <<Message("auth_required", 0, TRUE)>>
  /\ conn' = conn + 1
  /\ UNCHANGED <<ready, nextId, tables, callVars, wire, haAuth, haSubs, events>>

(* _authenticate_ws: each receive accepts one kind of message.               *)
Hello ==
  /\ task = "hello" /\ inbox # <<>> /\ Head(inbox).type = "auth_required"
  /\ task' = "auth" /\ inbox' = Tail(inbox)
  /\ Write(Frame("auth", 0, 0))
  /\ UNCHANGED <<closed, ready, watch, nextId, tables, callVars, link, haAuth, haSubs, bounds>>

(* auth_ok, and straight on to _subscribe_state_changes: reserve, send.      *)
Authenticated ==
  /\ task = "auth" /\ inbox # <<>> /\ Head(inbox).type = "auth_ok"
  /\ task' = "confirm" /\ inbox' = Tail(inbox)
  /\ watch' = nextId /\ nextId' = nextId + 1
  /\ Write(Frame("subscribe", nextId, 0))
  /\ UNCHANGED <<closed, ready, tables, callVars, link, haAuth, haSubs, bounds>>

(* The next message must be a successful result; its id is not looked at.    *)
Confirmed ==
  /\ task = "confirm" /\ inbox # <<>>
  /\ Head(inbox).type = "result" /\ Head(inbox).ok
  /\ task' = "snapshot" /\ inbox' = Tail(inbox)
  /\ UNCHANGED <<closed, ready, watch, nextId, tables, callVars, link, wire, haAuth, haSubs,
                 bounds>>

(* Anything else, a closed socket, ten silent seconds or a write that raised *)
(* ends the handshake; so does a /states request that fails.                 *)
Expected(m) ==
  CASE task = "hello" -> m.type = "auth_required"
    [] task = "auth" -> m.type = "auth_ok"
    [] task = "confirm" -> m.type = "result" /\ m.ok

(* Mutant: only the reading loop fails what is pending.                      *)
HandshakeFailsSilently ==
  /\ task \in {"hello", "auth", "confirm"}
  /\ link = "up" => IF inbox = <<>> THEN TRUE ELSE ~Expected(Head(inbox))
  /\ task' = "asleep" /\ closed' = TRUE /\ ready' = FALSE
  /\ link' = "lost" /\ wire' = <<>> /\ inbox' = <<>> /\ haAuth' = FALSE /\ haSubs' = {}
  /\ UNCHANGED <<nextId, watch, tables, callVars, bounds>>

HandshakeFails ==
  /\ task \in {"hello", "auth", "confirm"}
  /\ link = "up" => IF inbox = <<>> THEN TRUE ELSE ~Expected(Head(inbox))
  /\ DropConnection

SnapshotFails == task = "snapshot" /\ DropConnection

(* The snapshot is in: waits of before the reconnection get the sentinel.    *)
Connected ==
  /\ task = "snapshot"
  /\ task' = "read" /\ ready' = TRUE
  /\ Tell
  /\ UNCHANGED <<closed, watch, nextId, pendR, pendE, at, kind, id, fut, evfut,
                 cut, haVars, bounds>>

(* _handle_ws_message: a result resolves the future of its id, an event goes *)
(* to the queue of its id or resolves the one-shot future of its id.         *)
Read ==
  /\ task = "read" /\ inbox # <<>>
  /\ LET m == Head(inbox)
         toQueue == m.type = "event" /\ m.id \in queues
         toOneShot == m.type = "event" /\ m.id \notin queues
         mine(r) == Waits(r) /\ id[r] = m.id
     IN /\ fut' = [r \in Req |-> IF m.type = "result" /\ m.id \in pendR /\ mine(r)
                                    /\ fut[r] = "none"
                                 THEN IF m.ok THEN "ok" ELSE "error"
                                 ELSE fut[r]]
        /\ pendR' = IF m.type = "result" THEN pendR \ {m.id} ELSE pendR
        /\ queue' = [r \in Req |-> IF toQueue /\ mine(r) THEN Append(queue[r], "event")
                                                             ELSE queue[r]]
        /\ evfut' = [r \in Req |-> IF toOneShot /\ m.id \in pendE /\ mine(r)
                                      /\ evfut[r] = "none"
                                   THEN "ok" ELSE evfut[r]]
        /\ pendE' = IF toOneShot THEN pendE \ {m.id} ELSE pendE
  /\ inbox' = Tail(inbox)
  /\ UNCHANGED <<taskVars, nextId, queues, at, kind, id, cut, link, wire, haAuth, haSubs,
                 bounds>>

(* receive() returns CLOSED or ERROR: the heartbeat or HA ended it.          *)
ReadClosed ==
  /\ task = "read" /\ inbox = <<>> /\ link = "lost"
  /\ DropConnection

(* stop() cancels the task and closes the socket: nobody is told.            *)
Stop ==
  /\ task # "stopped"
  /\ task' = "stopped" /\ closed' = TRUE
  /\ link' = "lost" /\ wire' = <<>> /\ inbox' = <<>> /\ haAuth' = FALSE /\ haSubs' = {}
  /\ UNCHANGED <<ready, watch, nextId, tables, callVars, bounds>>

Task == Connect \/ Hello \/ Authenticated \/ Confirmed \/ HandshakeFails \/ SnapshotFails
          \/ Connected \/ Read \/ ReadClosed

-------------------------------------------------------------------------------
(* Tool calls.                                                               *)

(* requires_ready let the call in.  What the tool awaits before it gets to   *)
(* the socket lies between this and Send.                                    *)
Gate(r) ==
  /\ at[r] = "idle" /\ ready
  /\ at' = [at EXCEPT ![r] = "gated"]
  /\ UNCHANGED <<taskVars, nextId, tables, kind, id, fut, evfut, queue, cut, haVars, bounds>>

Unavailable(r) ==
  /\ at[r] = "gated" /\ closed
  /\ Release(r, "done")
  /\ UNCHANGED <<taskVars, nextId, tables, kind, id, cut, haVars, bounds>>

(* Cancelled before it holds the lock.                                       *)
GateCancel(r) ==
  /\ at[r] = "gated"
  /\ Release(r, "done")
  /\ UNCHANGED <<taskVars, nextId, tables, kind, id, cut, haVars, bounds>>

(* The three methods register under a fresh id before they write; a write    *)
(* that does not succeed leaves all that but, for a command, its future.     *)
Register(r, stays) ==
  /\ id' = [id EXCEPT ![r] = nextId]
  /\ nextId' = nextId + 1
  /\ pendR' = IF stays THEN pendR \cup {nextId} ELSE pendR
  /\ pendE' = IF kind[r] = "oneshot" THEN pendE \cup {nextId} ELSE pendE
  /\ queues' = IF kind[r] = "wait" THEN queues \cup {nextId} ELSE queues

Request(r) == Frame(IF kind[r] = "command" THEN "command" ELSE "subscribe", nextId, 0)

(* ws_send, ws_one_shot_subscription and ws_subscribe_events_queue up to     *)
(* their first wait.                                                         *)
Send(r) ==
  /\ at[r] = "gated" /\ ~closed
  /\ at' = [at EXCEPT ![r] = "result"]
  /\ Register(r, TRUE)
  /\ Write(Request(r))
  /\ UNCHANGED <<taskVars, kind, fut, evfut, queue, cut, link, inbox, haAuth, haSubs, bounds>>

(* The write raises: ws_send withdraws its future, the others leave theirs.  *)
SendRaises(r) ==
  /\ at[r] = "gated" /\ ~closed /\ link = "lost"
  /\ Release(r, "done")
  /\ Register(r, kind[r] # "command")
  /\ UNCHANGED <<taskVars, kind, cut, haVars, bounds>>

(* Cancelled at the write, with the frame in the socket or not: again only   *)
(* ws_send undoes what it did.                                               *)
SendCancelled(r) ==
  /\ at[r] = "gated" /\ ~closed
  /\ Release(r, "done")
  /\ Register(r, kind[r] # "command")
  /\ CutIf(r, kind[r] # "command")
  /\ Write(Request(r)) \/ UNCHANGED wire
  /\ UNCHANGED <<taskVars, kind, link, inbox, haAuth, haSubs, bounds>>

(* The result arrived: a command returns, a subscription goes on to wait.    *)
Proceed(r) ==
  /\ at[r] = "result" /\ fut[r] = "ok" /\ kind[r] # "command"
  /\ at' = [at EXCEPT ![r] = "event"]
  /\ UNCHANGED <<taskVars, nextId, tables, kind, id, fut, evfut, queue, cut, haVars, bounds>>

(* Mutant: a wait whose confirmation timed out only withdraws its future.    *)
LeaveResultSubscribed(r, outcome) ==
  LET bare == kind[r] # "oneshot" \/ outcome = "cancelled"
  IN /\ at[r] = "result"
     /\ Release(r, IF bare THEN "done" ELSE Unsubscribing)
     /\ CutIf(r, kind[r] = "oneshot" /\ outcome = "cancelled")
     /\ pendR' = pendR \ {id[r]}
     /\ pendE' = IF bare THEN pendE ELSE pendE \ {id[r]}
     /\ UNCHANGED <<taskVars, nextId, queues, kind, id, haVars, bounds>>

(* How a call leaves its wait for the result: with it, by its timeout, or by *)
(* being cancelled.  Each of the three methods undoes what it set up, but    *)
(* for the one-shot that is cancelled.                                       *)
LeaveResult(r, outcome) ==
  LET bare == kind[r] = "command" \/ (kind[r] = "oneshot" /\ outcome = "cancelled")
  IN /\ at[r] = "result"
     /\ Release(r, IF bare THEN "done" ELSE Unsubscribing)
     /\ CutIf(r, bare /\ kind[r] = "oneshot")
     /\ pendR' = pendR \ {id[r]}
     /\ pendE' = IF bare THEN pendE ELSE pendE \ {id[r]}
     /\ queues' = IF bare THEN queues ELSE queues \ {id[r]}
     /\ UNCHANGED <<taskVars, nextId, kind, id, haVars, bounds>>

Answered(r) ==
  /\ fut[r] = "error" \/ (fut[r] = "ok" /\ kind[r] = "command")
  /\ LeaveResult(r, fut[r])

ResultTimeout(r) == fut[r] = "none" /\ LeaveResult(r, "timeout")

ResultCancel(r) == fut[r] = "none" /\ LeaveResult(r, "cancelled")

(* How a subscription ends: the finally clauses unsubscribe.  Only a timeout *)
(* takes a one-shot's entry out of the table.                                *)
LeaveEvent(r, outcome) ==
  /\ at[r] = "event"
  /\ Release(r, Unsubscribing)
  /\ CutIf(r, kind[r] = "oneshot" /\ outcome = "cancelled")
  /\ pendE' = IF outcome = "timeout" THEN pendE \ {id[r]} ELSE pendE
  /\ queues' = queues \ {id[r]}
  /\ UNCHANGED <<taskVars, nextId, pendR, kind, id, haVars, bounds>>

OneShotWakes(r) ==
  /\ evfut[r] # "none"
  /\ LeaveEvent(r, evfut[r])

(* ha_wait_for_event takes the next item: the sentinel and a matching event  *)
(* end the wait, any other event is skipped.                                 *)
TakeSentinel(r) ==
  /\ queue[r] # <<>> /\ Head(queue[r]) = Sentinel
  /\ LeaveEvent(r, "reconnect")

TakeMatch(r) ==
  /\ queue[r] # <<>> /\ Head(queue[r]) = "event"
  /\ LeaveEvent(r, "ok")

TakeOther(r) ==
  /\ at[r] = "event" /\ queue[r] # <<>> /\ Head(queue[r]) = "event"
  /\ queue' = [queue EXCEPT ![r] = Tail(@)]
  /\ UNCHANGED <<taskVars, nextId, tables, at, kind, id, fut, evfut, cut, haVars, bounds>>

(* The deadline of a wait is looked at before its queue.                     *)
EventTimeout(r) ==
  /\ evfut[r] = "none"
  /\ LeaveEvent(r, "timeout")

EventCancel(r) ==
  /\ evfut[r] = "none"
  /\ LeaveEvent(r, "cancelled")

(* A fresh id is spent on the unsubscribe frame, which goes to the socket    *)
(* the client holds by now; a write that fails is swallowed.                 *)
Unsubscribed(r) ==
  /\ at[r] = "leaving"
  /\ at' = [at EXCEPT ![r] = "done"]
  /\ nextId' = nextId + 1
  /\ Write(Frame("unsubscribe", nextId, id[r]))
  /\ UNCHANGED <<taskVars, tables, kind, id, fut, evfut, queue, cut, link, inbox, haAuth, haSubs,
                 bounds>>

(* Cancelled at the lock, or at that write: `except Exception` does not take *)
(* it, and nobody tries again.                                               *)
UnsubscribeCut(r) ==
  /\ at[r] = "leaving"
  /\ at' = [at EXCEPT ![r] = "done"]
  /\ cut' = cut \cup {r}
  /\ \/ UNCHANGED <<nextId, wire>>
     \/ /\ nextId' = nextId + 1
        /\ Write(Frame("unsubscribe", nextId, id[r])) \/ UNCHANGED wire
  /\ UNCHANGED <<taskVars, tables, kind, id, fut, evfut, queue, link, inbox, haAuth, haSubs,
                 bounds>>

Wakes(r) == Unavailable(r) \/ Send(r) \/ Proceed(r) \/ Answered(r) \/ OneShotWakes(r)
              \/ TakeSentinel(r) \/ TakeMatch(r) \/ TakeOther(r)

CallStep(r) == Gate(r) \/ GateCancel(r) \/ SendRaises(r) \/ SendCancelled(r) \/ Wakes(r)
                 \/ ResultTimeout(r) \/ ResultCancel(r) \/ EventTimeout(r) \/ EventCancel(r)
                 \/ Unsubscribed(r) \/ UnsubscribeCut(r)

-------------------------------------------------------------------------------
(* Home Assistant and the network (external).                                *)

(* Subscribing and unsubscribing are handled in order; a command may run for *)
(* longer and be overtaken.                                                  *)
Takes(i) == haAuth /\ \A j \in 1 .. i - 1 : wire[j].type = "command"

(* Before it authenticated HA takes nothing but the auth frame.              *)
HaAuthenticates ==
  /\ ~haAuth /\ wire # <<>> /\ Head(wire).type = "auth"
  /\ haAuth' = TRUE /\ wire' = Tail(wire)
  /\ inbox' = Append(inbox, Message("auth_ok", 0, TRUE))
  /\ UNCHANGED <<taskVars, nextId, tables, callVars, link, haSubs, bounds>>

HaRejects ==
  /\ ~haAuth /\ wire # <<>> /\ Head(wire).type # "auth"
  /\ link' = "lost" /\ wire' = <<>>
  /\ inbox' = Append(inbox, Message("auth_invalid", 0, FALSE))
  /\ UNCHANGED <<taskVars, nextId, tables, callVars, haAuth, haSubs, bounds>>

HaAnswers ==
  \E i \in DOMAIN wire, ok \in BOOLEAN :
    /\ Takes(i)
    /\ wire[i].type = "unsubscribe" => ok = (wire[i].sub \in haSubs)
    /\ haSubs' = CASE wire[i].type = "subscribe" /\ ok -> haSubs \cup {wire[i].id}
                   [] wire[i].type = "unsubscribe" -> haSubs \ {wire[i].sub}
                   [] OTHER -> haSubs
    /\ inbox' = Append(inbox, Message("result", wire[i].id, ok))
    /\ wire' = RemoveAt(wire, i)
    /\ UNCHANGED <<taskVars, nextId, tables, callVars, link, haAuth, bounds>>

(* Events of the state_changed subscription only feed the state cache: they  *)
(* are left out.                                                             *)
HaEmits ==
  \E i \in haSubs \ {watch} :
    /\ events < MaxEvents
    /\ events' = events + 1
    /\ inbox' = Append(inbox, Message("event", i, TRUE))
    /\ UNCHANGED <<taskVars, nextId, tables, callVars, link, wire, haAuth, haSubs, conn>>

(* The connection dies with a part of what HA had sent.                      *)
Lose ==
  /\ link = "up"
  /\ link' = "lost" /\ wire' = <<>> /\ haSubs' = {}
  /\ \E n \in 0 .. Len(inbox) : inbox' = SubSeq(inbox, 1, n)
  /\ UNCHANGED <<taskVars, nextId, tables, callVars, haAuth, bounds>>

Ha == HaAuthenticates \/ HaRejects \/ HaAnswers \/ HaEmits \/ Lose

-------------------------------------------------------------------------------
Next == Task \/ Stop \/ (\E r \in Req : CallStep(r)) \/ Ha

(* The event loop runs what is ready: the task and the calls that were woken.*)
(* No fairness for time-outs, for cancellation, nor for HA.                  *)
Fairness == WF_vars(Task) /\ \A r \in Req : WF_vars(Wakes(r))

Spec == Init /\ [][Next]_vars /\ Fairness

-------------------------------------------------------------------------------
(* Properties.                                                               *)

(* Whoever waits can still be woken: its future is resolved or in its table, *)
(* its queue is registered or holds the sentinel.  A drop that fails two of  *)
(* the three tables, or a reconnection that clears the queues without a word,*)
(* leaves a call hanging until its own timeout (ha.py 417-421, 1154-1175).   *)
NobodyForgotten ==
  \A r \in Req :
    /\ at[r] = "result" => fut[r] # "none" \/ id[r] \in pendR
    /\ at[r] = "event" /\ kind[r] = "oneshot" => evfut[r] # "none" \/ id[r] \in pendE
    /\ at[r] = "event" /\ kind[r] = "wait" =>
         id[r] \in queues \/ \E k \in DOMAIN queue[r] : queue[r][k] = Sentinel

(* A wait that is still registered while the connection is up is subscribed  *)
(* on that connection: none sits on the queue of an earlier connection       *)
(* (ha.py 417-421).                                                          *)
WaitsAreLive ==
  \A r \in Req : at[r] = "event" /\ id[r] \in queues /\ link = "up" => id[r] \in haSubs

Leaves(r) ==
  \/ id[r] \in pendR \cup pendE \cup queues
  \/ /\ \/ id[r] \in haSubs
        \/ \E i \in DOMAIN wire : wire[i].type = "subscribe" /\ wire[i].id = id[r]
     /\ ~\E i \in DOMAIN wire : wire[i].type = "unsubscribe" /\ wire[i].sub = id[r]

(* A call that returned leaves nothing behind on a connection that is up: no *)
(* future, no queue, and no subscription in HA that is not being cancelled,  *)
(* whichever of result, event, timeout, cancellation and reconnection came   *)
(* first (ha.py 661-663, 697-727, 754-775, 786-801).  Excepted is a call cut *)
(* short where nothing is undone: a subscription cancelled while its frame   *)
(* is written, a cancelled one-shot, and one cancelled as it unsubscribes.   *)
NothingLeftBehind ==
  \A r \in Req : at[r] = "done" /\ link = "up" /\ id[r] # 0 /\ Leaves(r)
                   => r \in cut

(* Who waits on a connection that was lost is told without any timeout of    *)
(* its own, unless the client is stopped (ha.py 355-363, 1154-1162).         *)
LossIsTold ==
  \A r \in Req : (Waits(r) /\ link = "lost") ~> (~Waits(r) \/ task = "stopped")

(* "Suscribirse va PRIMERO" (ha.py 407-413): when the snapshot is asked for, *)
(* HA has the state_changed subscription of the connection.                  *)
SubscribedBeforeSnapshot ==
  task = "snapshot" /\ link = "up" => watch \in haSubs
===============================================================================
