--------------------------- MODULE HaWebSocketProofs ---------------------------
(***************************************************************************)
(* What holds of the calls over the WebSocket, for any number of calls,    *)
(* connections and events.                                                 *)
(***************************************************************************)
EXTENDS HaWebSocket, SequenceTheorems, TLAPS

Fresh(r)  == at[r] \in {"idle", "gated"}
Asked(r)  == Waits(r) \/ at[r] = "leaving"
Subscribes(r, i)   == wire[i].type = "subscribe" /\ wire[i].id = id[r]
Unsubscribes(r, i) == wire[i].type = "unsubscribe" /\ wire[i].sub = id[r]
Told(r) == \E k \in DOMAIN queue[r] : queue[r][k] = Sentinel

(* Between two connections nothing is under way, and once one was dropped    *)
(* nothing is registered.                                                    *)
TaskInv ==
  /\ closed <=> task \in {"asleep", "stopped"}
  /\ closed => link = "lost" /\ inbox = <<>> /\ haSubs = {} /\ ~haAuth
  /\ link = "lost" => wire = <<>>
  /\ task = "asleep" => pendR = {} /\ pendE = {} /\ queues = {}

(* Ids are never used twice: what bears an id was given it before.           *)
IdInv ==
  /\ nextId > 0
  /\ \A r \in Req : /\ id[r] < nextId
                    /\ Fresh(r) => id[r] = 0
                    /\ Asked(r) => id[r] # 0
  /\ \A q, r \in Req : id[q] = id[r] /\ id[r] # 0 => q = r
  /\ \A n \in pendR \cup pendE \cup queues \cup haSubs : n < nextId
  /\ \A i \in DOMAIN wire : wire[i].id < nextId /\ wire[i].sub < nextId
  /\ \A k \in DOMAIN inbox : inbox[k].id < nextId

(* A subscription is not cancelled before it was asked for.                  *)
OrderInv ==
  \A i, j \in DOMAIN wire :
    wire[i].type = "unsubscribe" /\ wire[j].type = "subscribe" /\ wire[j].id = wire[i].sub
      => j < i

(* A call's entries in the three tables and its futures belong together.     *)
CallInv(r) ==
  /\ Fresh(r) => fut[r] = "none" /\ evfut[r] = "none" /\ queue[r] = <<>>
  /\ at[r] = "event" => fut[r] = "ok" /\ kind[r] # "command"
  /\ Waits(r) =>
       /\ fut[r] = "none" <=> id[r] \in pendR
       /\ kind[r] = "oneshot" /\ evfut[r] = "none" <=> id[r] \in pendE
       /\ id[r] \in queues => kind[r] = "wait"
       /\ kind[r] = "wait" => id[r] \in queues \/ Told(r)
       /\ queue[r] # <<>> => kind[r] = "wait"

(* What Home Assistant has of a call that waits, and is still to get.        *)
SubInv(r) ==
  Waits(r) =>
    /\ \A i \in DOMAIN wire :
         /\ ~Unsubscribes(r, i)
         /\ wire[i].id = id[r] => (wire[i].type = "subscribe" <=> kind[r] # "command")
    /\ kind[r] = "command" => id[r] \notin haSubs

(* A confirmed subscription is one of the connection that is up.             *)
LiveInv(r) ==
  /\ Waits(r) /\ id[r] \in queues /\ link = "up"
  /\ \/ fut[r] = "ok"
     \/ \E k \in DOMAIN inbox :
          inbox[k].type = "result" /\ inbox[k].id = id[r] /\ inbox[k].ok
  => id[r] \in haSubs

(* A call that unsubscribes has no entry left, unless it was cut short.      *)
LeavingInv(r) ==
  at[r] = "leaving" => r \in cut \/ id[r] \notin pendR \cup pendE \cup queues

IInv ==
  /\ TypeOK /\ TaskInv /\ IdInv /\ OrderInv
  /\ \A r \in Req : CallInv(r) /\ SubInv(r) /\ LiveInv(r) /\ LeavingInv(r)
  /\ NothingLeftBehind

-------------------------------------------------------------------------------
LEMMA WriteFacts ==
  ASSUME TypeOK, NEW f \in Frames, Write(f)
  PROVE  /\ wire' \in Seq(Frames)
         /\ \A i \in DOMAIN wire : i \in DOMAIN wire' /\ wire'[i] = wire[i]
         /\ \A i \in DOMAIN wire' :
              i \notin DOMAIN wire => wire'[i] = f /\ \A j \in DOMAIN wire : j < i
         /\ link = "up" => \E i \in DOMAIN wire' : wire'[i] = f
         /\ link # "up" => wire' = wire
  <1>1. wire \in Seq(Frames) /\ Len(wire) \in Nat /\ DOMAIN wire = 1 .. Len(wire)
    BY LenProperties DEF TypeOK
  <1>2. CASE link = "up"
    <2>1. wire' = Append(wire, f)
      BY <1>2 DEF Write
    <2>2. /\ wire' \in Seq(Frames) /\ Len(wire') = Len(wire) + 1
          /\ \A i \in 1 .. Len(wire) : wire'[i] = wire[i]
          /\ wire'[Len(wire) + 1] = f
      BY <1>1, <2>1, AppendProperties
    <2>3. DOMAIN wire' = 1 .. Len(wire) + 1
      BY <2>2, LenProperties
    <2> QED
      BY <1>1, <1>2, <2>2, <2>3
  <1>3. CASE link # "up"
    BY <1>1, <1>3 DEF Write
  <1> QED
    BY <1>2, <1>3

LEMMA TailFacts ==
  ASSUME NEW S, NEW s \in Seq(S), s # <<>>
  PROVE  /\ Head(s) \in S /\ Tail(s) \in Seq(S) /\ 1 \in DOMAIN s /\ s[1] = Head(s)
         /\ \A i \in DOMAIN Tail(s) : i + 1 \in DOMAIN s /\ Tail(s)[i] = s[i + 1]
         /\ \A i \in DOMAIN s : i # 1 => i - 1 \in DOMAIN Tail(s) /\ Tail(s)[i - 1] = s[i]
         /\ \A i \in DOMAIN Tail(s) : i \in Nat
  <1>1. Len(s) \in Nat \ {0} /\ DOMAIN s = 1 .. Len(s)
    BY EmptySeq, LenProperties
  <1>2. /\ Head(s) \in S /\ Tail(s) \in Seq(S) /\ Len(Tail(s)) = Len(s) - 1
        /\ \A i \in 1 .. Len(Tail(s)) : Tail(s)[i] = s[i + 1]
    BY HeadTailProperties
  <1>3. DOMAIN Tail(s) = 1 .. Len(s) - 1
    BY <1>2, LenProperties
  <1>4. Head(s) = s[1]
    OBVIOUS
  <1> QED
    BY <1>1, <1>2, <1>3, <1>4

LEMMA AppendFacts ==
  ASSUME NEW S, NEW s \in Seq(S), NEW e \in S
  PROVE  /\ Append(s, e) \in Seq(S)
         /\ \A i \in DOMAIN s : i \in DOMAIN Append(s, e) /\ Append(s, e)[i] = s[i]
         /\ \A i \in DOMAIN Append(s, e) :
              \/ i \in DOMAIN s /\ Append(s, e)[i] = s[i]
              \/ Append(s, e)[i] = e
         /\ \E i \in DOMAIN Append(s, e) : Append(s, e)[i] = e
  <1>1. Len(s) \in Nat /\ DOMAIN s = 1 .. Len(s)
    BY LenProperties
  <1>2. /\ Append(s, e) \in Seq(S) /\ Len(Append(s, e)) = Len(s) + 1
        /\ \A i \in 1 .. Len(s) : Append(s, e)[i] = s[i]
        /\ Append(s, e)[Len(s) + 1] = e
    BY AppendProperties
  <1>3. DOMAIN Append(s, e) = 1 .. Len(s) + 1
    BY <1>2, LenProperties
  <1> QED
    BY <1>1, <1>2, <1>3

(* Where the elements of a sequence come from once element i was taken out.  *)
Behind(i, j) == IF j < i THEN j ELSE j + 1

LEMMA RemoveFacts ==
  ASSUME NEW S, NEW s \in Seq(S), NEW i \in DOMAIN s
  PROVE  /\ RemoveAt(s, i) \in Seq(S)
         /\ \A j \in DOMAIN RemoveAt(s, i) :
              /\ j \in Nat /\ Behind(i, j) \in DOMAIN s /\ Behind(i, j) # i
              /\ RemoveAt(s, i)[j] = s[Behind(i, j)]
         /\ \A k \in DOMAIN s : k # i =>
              \E j \in DOMAIN RemoveAt(s, i) : Behind(i, j) = k
  <1> DEFINE a == SubSeq(s, 1, i - 1)
             b == SubSeq(s, i + 1, Len(s))
  <1>1. Len(s) \in Nat /\ DOMAIN s = 1 .. Len(s) /\ i \in 1 .. Len(s)
    BY LenProperties
  <1>2. \A k \in 1 .. Len(s) : s[k] \in S
    BY ElementOfSeq
  <1>3. /\ a \in Seq(S) /\ Len(a) = i - 1
        /\ \A k \in 1 .. i - 1 : a[k] = s[k]
    <2>1. \A k \in 1 .. i - 1 : s[k] \in S
      BY <1>1, <1>2
    <2>2. /\ a \in Seq(S) /\ Len(a) = IF 1 <= i - 1 THEN i - 1 - 1 + 1 ELSE 0
          /\ \A k \in 1 .. i - 1 - 1 + 1 : a[k] = s[1 + k - 1]
      BY <1>1, <2>1, SubSeqProperties
    <2> HIDE DEF a
    <2> QED
      BY <1>1, <2>2
  <1>4. /\ b \in Seq(S) /\ Len(b) = Len(s) - i
        /\ \A k \in 1 .. Len(s) - i : b[k] = s[i + k]
    <2>1. \A k \in i + 1 .. Len(s) : s[k] \in S
      BY <1>1, <1>2
    <2>2. /\ b \in Seq(S) /\ Len(b) = IF i + 1 <= Len(s) THEN Len(s) - (i + 1) + 1 ELSE 0
          /\ \A k \in 1 .. Len(s) - (i + 1) + 1 : b[k] = s[i + 1 + k - 1]
      BY <1>1, <2>1, SubSeqProperties
    <2> HIDE DEF b
    <2>3. Len(b) = Len(s) - i
      BY <1>1, <2>2
    <2>4. \A k \in 1 .. Len(s) - i : i + 1 + k - 1 = i + k /\ k \in 1 .. Len(s) - (i + 1) + 1
      BY <1>1
    <2> QED
      BY <2>2, <2>3, <2>4
  <1>5. RemoveAt(s, i) = a \o b
    BY DEF RemoveAt
  <1> HIDE DEF a, b
  <1>6. /\ a \o b \in Seq(S) /\ Len(a \o b) = Len(s) - 1
        /\ \A j \in 1 .. Len(s) - 1 : (a \o b)[j] = IF j <= i - 1 THEN a[j] ELSE b[j - (i - 1)]
    <2>1. /\ a \o b \in Seq(S) /\ Len(a \o b) = Len(a) + Len(b)
          /\ \A j \in 1 .. Len(a) + Len(b) :
               (a \o b)[j] = IF j <= Len(a) THEN a[j] ELSE b[j - Len(a)]
      BY <1>3, <1>4, ConcatProperties
    <2>2. Len(a) + Len(b) = Len(s) - 1 /\ Len(a) = i - 1
      BY <1>1, <1>3, <1>4
    <2> QED
      BY <2>1, <2>2
  <1>7. DOMAIN (a \o b) = 1 .. Len(s) - 1
    BY <1>6, LenProperties
  <1>8. ASSUME NEW j \in 1 .. Len(s) - 1 PROVE (a \o b)[j] = s[Behind(i, j)]
    <2>1. CASE j < i
      BY <1>1, <1>3, <1>6, <2>1 DEF Behind
    <2>2. CASE ~(j < i)
      <3>1. j - (i - 1) \in 1 .. Len(s) - i /\ i + (j - (i - 1)) = j + 1 /\ ~(j <= i - 1)
        BY <1>1, <2>2
      <3> QED
        BY <1>4, <1>6, <2>2, <3>1 DEF Behind
    <2> QED
      BY <2>1, <2>2
  <1>9. \A j \in 1 .. Len(s) - 1 : Behind(i, j) \in 1 .. Len(s) /\ Behind(i, j) # i
    BY <1>1 DEF Behind
  <1>10. ASSUME NEW k \in 1 .. Len(s), k # i
         PROVE  \E j \in 1 .. Len(s) - 1 : Behind(i, j) = k
    <2>1. CASE k < i
      BY <1>1, <2>1 DEF Behind
    <2>2. CASE ~(k < i)
      <3>1. k - 1 \in 1 .. Len(s) - 1 /\ Behind(i, k - 1) = k
        BY <1>1, <1>10, <2>2 DEF Behind
      <3> QED
        BY <3>1
    <2> QED
      BY <2>1, <2>2
  <1>11. DOMAIN RemoveAt(s, i) = 1 .. Len(s) - 1
    BY <1>5, <1>7
  <1>12. ASSUME NEW j \in DOMAIN RemoveAt(s, i)
         PROVE  /\ j \in Nat /\ Behind(i, j) \in DOMAIN s /\ Behind(i, j) # i
                /\ RemoveAt(s, i)[j] = s[Behind(i, j)]
    <2>1. j \in 1 .. Len(s) - 1
      BY <1>11
    <2>2. j \in Nat
      BY <1>1, <2>1
    <2> QED
      BY <1>1, <1>5, <1>8, <1>9, <2>1, <2>2
  <1>13. RemoveAt(s, i) \in Seq(S)
    BY <1>5, <1>6
  <1> QED
    BY <1>1, <1>10, <1>11, <1>12, <1>13

-------------------------------------------------------------------------------
(* The three steps in which the connection goes.                             *)
Hangup == HandshakeFails \/ SnapshotFails \/ ReadClosed

LEMMA HangupFacts == Hangup => DropConnection
  BY DEF Hangup, HandshakeFails, SnapshotFails, ReadClosed

(* A call that does not get to register, and one whose frame fails.          *)
Refused(r) == Unavailable(r) \/ GateCancel(r)
Aborts(r)  == SendRaises(r) \/ SendCancelled(r)

(* A call that ends, whatever ended it.                                      *)
Ends(r) == \/ Answered(r) \/ ResultTimeout(r) \/ ResultCancel(r) \/ OneShotWakes(r)
           \/ TakeSentinel(r) \/ TakeMatch(r) \/ EventTimeout(r) \/ EventCancel(r)
           \/ Unsubscribed(r) \/ UnsubscribeCut(r)

(* What is left of it, but for one that was cut short.                       *)
Cleared(r) ==
  /\ id[r] \notin pendR' \cup pendE' \cup queues'
  /\ \/ id[r] \notin haSubs /\ \A i \in DOMAIN wire' : ~Subscribes(r, i)'
     \/ \E i \in DOMAIN wire' : Unsubscribes(r, i)'

Leave(r) ==
  /\ Waits(r) \/ at[r] = "leaving"
  /\ \/ at' = [at EXCEPT ![r] = "done"]
     \/ Waits(r) /\ at' = [at EXCEPT ![r] = "leaving"]
  /\ fut' \in {fut, [fut EXCEPT ![r] = "none"]}
  /\ evfut' \in {evfut, [evfut EXCEPT ![r] = "none"]}
  /\ queue' \in {queue, [queue EXCEPT ![r] = <<>>]}
  /\ cut' \in {cut, cut \cup {r}}
  /\ pendR' \in {pendR, pendR \ {id[r]}}
  /\ pendE' \in {pendE, pendE \ {id[r]}} /\ queues' \in {queues, queues \ {id[r]}}
  /\ \/ nextId' \in {nextId, nextId + 1} /\ UNCHANGED wire
     \/ nextId' = nextId + 1 /\ Write(Frame("unsubscribe", nextId, id[r]))
  /\ UNCHANGED <<taskVars, kind, id, link, inbox, haAuth, haSubs, bounds>>
  /\ at'[r] = "leaving" => r \in cut' \/ id[r] \notin pendR' \cup pendE' \cup queues'
  /\ at'[r] = "done" /\ link = "up" => r \in cut' \/ Cleared(r)

Abort(r) ==
  /\ at[r] = "gated" /\ at' = [at EXCEPT ![r] = "done"]
  /\ fut' = [fut EXCEPT ![r] = "none"] /\ evfut' = [evfut EXCEPT ![r] = "none"]
  /\ queue' = [queue EXCEPT ![r] = <<>>]
  /\ cut' \in {cut, cut \cup {r}}
  /\ id' = [id EXCEPT ![r] = nextId] /\ nextId' = nextId + 1
  /\ pendR' \in {pendR, pendR \cup {nextId}} /\ pendE' \in {pendE, pendE \cup {nextId}}
  /\ queues' \in {queues, queues \cup {nextId}}
  /\ wire' = wire \/ Write(Request(r))
  /\ UNCHANGED <<taskVars, kind, link, inbox, haAuth, haSubs, bounds>>
  /\ link = "up" /\ kind[r] # "command" => r \in cut'
  /\ kind[r] = "command" => UNCHANGED tables

LEMMA FrameTypes ==
  ASSUME NEW m \in Nat, NEW n \in Nat
  PROVE  /\ Frame("auth", m, n) \in Frames /\ Frame("command", m, n) \in Frames
         /\ Frame("subscribe", m, n) \in Frames /\ Frame("unsubscribe", m, n) \in Frames
         /\ \A ok \in BOOLEAN : /\ Message("result", m, ok) \in Messages
                                /\ Message("event", m, ok) \in Messages
                                /\ Message("auth_required", m, ok) \in Messages
                                /\ Message("auth_ok", m, ok) \in Messages
                                /\ Message("auth_invalid", m, ok) \in Messages
  BY DEF Frame, Frames, Message, Messages

LEMMA RequestFacts ==
  ASSUME TypeOK, NEW r \in Req
  PROVE  /\ Request(r) \in Frames /\ Request(r).id = nextId /\ Request(r).sub = 0
         /\ Request(r).type = IF kind[r] = "command" THEN "command" ELSE "subscribe"
         /\ Request(r).type # "unsubscribe"
  <1>1. nextId \in Nat /\ 0 \in Nat
    BY DEF TypeOK
  <1> QED
    BY <1>1, FrameTypes DEF Request, Frame

LEMMA AbortFacts ==
  ASSUME IInv, NEW r \in Req, Aborts(r)
  PROVE  Abort(r)
  <1> USE DEF Abort, Release, Register, haVars, tables
  <1>1. CASE SendRaises(r)
    BY <1>1 DEF SendRaises
  <1>2. CASE SendCancelled(r)
    BY <1>2 DEF SendCancelled, CutIf
  <1> QED
    BY <1>1, <1>2 DEF Aborts

LEMMA LeaveFacts ==
  ASSUME IInv, NEW r \in Req, Ends(r)
  PROVE  Leave(r)
  <1>0. /\ TypeOK /\ TaskInv /\ IdInv /\ CallInv(r) /\ SubInv(r) /\ LeavingInv(r)
        /\ id[r] \in Nat /\ nextId \in Nat
    BY DEF IInv, TypeOK
  <1>d. \A place : at' = [at EXCEPT ![r] = place] => at'[r] = place
    BY <1>0 DEF TypeOK
  <1> USE DEF Release, CutIf, Unsubscribing, Waits, taskVars, haVars, bounds
  <1>1. ASSUME NEW outcome, LeaveResult(r, outcome)
        PROVE  Leave(r)
    <2>1. id[r] \notin pendR' /\ id' = id /\ wire' = wire /\ haSubs' = haSubs
      BY <1>1 DEF LeaveResult
    <2>2. CASE kind[r] = "command"
      <3>1. id[r] \notin pendE' \cup queues' /\ id[r] \notin haSubs
        BY <1>0, <1>1, <2>2 DEF LeaveResult, CallInv, SubInv
      <3>2. \A i \in DOMAIN wire : ~(wire[i].type = "subscribe" /\ wire[i].id = id[r])
        BY <1>0, <1>1, <2>2 DEF LeaveResult, SubInv
      <3>3. Cleared(r)
        BY <2>1, <3>1, <3>2 DEF Cleared, Subscribes
      <3> QED
        BY <1>1, <1>d, <2>2, <3>3 DEF LeaveResult, Leave
    <2>3. CASE kind[r] = "oneshot" /\ outcome = "cancelled"
      BY <1>1, <1>d, <2>3 DEF LeaveResult, Leave
    <2>4. CASE kind[r] # "command" /\ ~(kind[r] = "oneshot" /\ outcome = "cancelled")
      <3>1. id[r] \notin pendE' \cup queues'
        BY <1>1, <2>4 DEF LeaveResult
      <3>2. closed => link # "up"
        BY <1>0 DEF TaskInv
      <3> QED
        BY <1>1, <1>d, <2>1, <2>4, <3>1, <3>2 DEF LeaveResult, Leave
    <2> QED
      BY <2>2, <2>3, <2>4
  <1>2. ASSUME NEW outcome, LeaveEvent(r, outcome),
               id[r] \notin pendE' \/ (kind[r] = "oneshot" /\ outcome = "cancelled")
        PROVE  Leave(r)
    <2>1. id[r] \notin pendR /\ pendR' = pendR /\ id[r] \notin queues'
      BY <1>0, <1>2 DEF LeaveEvent, CallInv
    <2>2. closed => link # "up"
      BY <1>0 DEF TaskInv
    <2> QED
      BY <1>2, <1>d, <2>1, <2>2 DEF LeaveEvent, Leave
  <1>3. CASE Answered(r) \/ ResultTimeout(r) \/ ResultCancel(r)
    BY <1>1, <1>3 DEF Answered, ResultTimeout, ResultCancel
  <1>4. CASE OneShotWakes(r)
    BY <1>0, <1>2, <1>4 DEF OneShotWakes, LeaveEvent, CallInv, TypeOK
  <1>5. CASE TakeSentinel(r) \/ TakeMatch(r)
    BY <1>0, <1>2, <1>5 DEF TakeSentinel, TakeMatch, LeaveEvent, CallInv
  <1>6. CASE EventTimeout(r)
    BY <1>0, <1>2, <1>6 DEF EventTimeout, LeaveEvent
  <1>7. CASE EventCancel(r)
    BY <1>0, <1>2, <1>7 DEF EventCancel, LeaveEvent, CallInv, TypeOK
  <1>8. CASE Unsubscribed(r)
    <2>1. /\ UNCHANGED <<tables, id, haSubs, cut>> /\ at[r] = "leaving"
          /\ Write(Frame("unsubscribe", nextId, id[r]))
      BY <1>8 DEF Unsubscribed
    <2>2. link = "up" => \E i \in DOMAIN wire' : wire'[i] = Frame("unsubscribe", nextId, id[r])
      BY <1>0, <2>1, FrameTypes, WriteFacts
    <2>3. link = "up" => r \in cut' \/ Cleared(r)
      BY <1>0, <2>1, <2>2 DEF Cleared, Unsubscribes, Frame, LeavingInv, tables
    <2> QED
      BY <1>8, <1>d, <2>3 DEF Unsubscribed, Leave, tables
  <1>9. CASE UnsubscribeCut(r)
    BY <1>9, <1>d DEF UnsubscribeCut, Leave, tables
  <1> QED
    BY <1>3, <1>4, <1>5, <1>6, <1>7, <1>8, <1>9 DEF Ends

LEMMA NextCases ==
  ASSUME [Next]_vars
  PROVE  \/ Hangup \/ Stop \/ Connect \/ Hello \/ Authenticated \/ Confirmed \/ Connected \/ Read
         \/ \E r \in Req : Gate(r) \/ Refused(r) \/ Send(r) \/ Aborts(r) \/ Proceed(r)
                             \/ TakeOther(r) \/ Ends(r)
         \/ HaAuthenticates \/ HaRejects \/ HaAnswers \/ HaEmits \/ Lose
         \/ UNCHANGED vars
  BY DEF Next, Task, CallStep, Wakes, Ends, Refused, Aborts, Ha, Hangup

LEMMA QueueFacts ==
  ASSUME NEW q \in [Req -> Seq({Sentinel, "event"})], NEW e \in {Sentinel, "event"},
         NEW P \in SUBSET Req, queue' = [r \in Req |-> IF r \in P THEN Append(q[r], e) ELSE q[r]]
  PROVE  queue' \in [Req -> Seq({Sentinel, "event"})]
  <1>1. \A r \in Req : q[r] \in Seq({Sentinel, "event"})
    OBVIOUS
  <1>2. \A r \in Req : Append(q[r], e) \in Seq({Sentinel, "event"})
    BY <1>1, AppendProperties
  <1> QED
    BY <1>1, <1>2

LEMMA TellTyped ==
  ASSUME TypeOK, Tell
  PROVE  /\ queue' \in [Req -> Seq({Sentinel, "event"})] /\ queues' \in SUBSET Nat
  <1>1. queue' = [r \in Req |-> IF r \in {p \in Req : Owns(p, queues)}
                                THEN Append(queue[r], Sentinel) ELSE queue[r]]
    BY DEF Tell
  <1> QED
    BY <1>1, QueueFacts DEF TypeOK, Tell

LEMMA DropTyped == TypeOK /\ DropConnection => TypeOK'
<1> SUFFICES ASSUME TypeOK, DropConnection PROVE TypeOK'
  OBVIOUS
<1>1. queue' \in [Req -> Seq({Sentinel, "event"})] /\ queues' \in SUBSET Nat
  BY TellTyped DEF DropConnection, FailPending
<1>2. <<>> \in Seq(Frames) /\ <<>> \in Seq(Messages)
  OBVIOUS
<1> QED
  BY <1>1, <1>2 DEF TypeOK, DropConnection, FailPending, Futures, bounds

LEMMA Singleton ==
  ASSUME NEW S, NEW m \in S
  PROVE  <<m>> \in Seq(S) /\ DOMAIN <<m>> = {1} /\ <<m>>[1] = m
  OBVIOUS

LEMMA TypeStep == IInv /\ [Next]_vars => TypeOK'
<1> SUFFICES ASSUME IInv, [Next]_vars PROVE TypeOK'
  OBVIOUS
<1> USE DEF taskVars, tables, callVars, haVars, bounds
<1>0. TypeOK /\ nextId \in Nat /\ nextId + 1 \in Nat /\ 0 \in Nat
  BY DEF IInv, TypeOK
<1>e. <<>> \in Seq(Frames) /\ <<>> \in Seq(Messages) /\ <<>> \in Seq({Sentinel, "event"})
  OBVIOUS
<1>1. CASE Hangup
  BY <1>0, <1>1, HangupFacts, DropTyped
<1>2. CASE Stop
  BY <1>0, <1>e, <1>2 DEF TypeOK, Stop
<1>3. CASE Connect
  <2>1. <<Message("auth_required", 0, TRUE)>> \in Seq(Messages)
    <3>1. Message("auth_required", 0, TRUE) \in Messages
      BY <1>0 DEF Message, Messages
    <3> QED
      BY <3>1, Singleton
  <2>2. conn + 1 \in 0 .. MaxConn
    BY <1>0, <1>3, HaWebSocketAssumption DEF Connect, TypeOK
  <2> QED
    BY <1>0, <1>3, <2>1, <2>2 DEF TypeOK, Connect
<1>4. CASE Hello \/ Authenticated \/ Confirmed
  <2>1. inbox' \in Seq(Messages)
    <3>1. inbox \in Seq(Messages) /\ inbox # <<>> /\ inbox' = Tail(inbox)
      BY <1>0, <1>4 DEF TypeOK, Hello, Authenticated, Confirmed
    <3> QED
      BY <3>1, TailFacts
  <2>2. wire' \in Seq(Frames)
    BY <1>0, <1>4, FrameTypes, WriteFacts DEF TypeOK, Hello, Authenticated, Confirmed
  <2> QED
    BY <1>0, <1>4, <2>1, <2>2 DEF TypeOK, Hello, Authenticated, Confirmed
<1>5. CASE Connected
  BY <1>0, <1>5, TellTyped DEF TypeOK, Connected
<1>6. CASE Read
  <2> DEFINE m == Head(inbox)
  <2>1. inbox' \in Seq(Messages)
    BY <1>0, <1>6, TailFacts DEF TypeOK, Read
  <2>2. queue' \in [Req -> Seq({Sentinel, "event"})]
    <3>1. queue' = [r \in Req |-> IF r \in {p \in Req : /\ m.type = "event" /\ m.id \in queues
                                                       /\ Waits(p) /\ id[p] = m.id}
                                  THEN Append(queue[r], "event") ELSE queue[r]]
      BY <1>6 DEF Read
    <3> QED
      BY <1>0, <3>1, QueueFacts DEF TypeOK
  <2>3. fut' \in [Req -> Futures] /\ evfut' \in [Req -> Futures]
    BY <1>0, <1>6 DEF TypeOK, Read, Futures
  <2>4. pendR' \in SUBSET Nat /\ pendE' \in SUBSET Nat
    BY <1>0, <1>6 DEF TypeOK, Read
  <2> QED
    BY <1>0, <1>6, <2>1, <2>2, <2>3, <2>4 DEF TypeOK, Read
<1>7. ASSUME NEW r \in Req, Gate(r) \/ Proceed(r) PROVE TypeOK'
  BY <1>0, <1>7 DEF TypeOK, Gate, Proceed
<1>8. ASSUME NEW r \in Req, Refused(r) PROVE TypeOK'
  <2>1. /\ Release(r, "done")
        /\ UNCHANGED <<taskVars, nextId, tables, kind, id, cut, haVars, bounds>>
    BY <1>8 DEF Refused, Unavailable, GateCancel
  <2>2. /\ at' \in [Req -> {"idle", "gated", "result", "event", "leaving", "done"}]
        /\ queue' \in [Req -> Seq({Sentinel, "event"})]
    BY <1>0, <1>e, <2>1 DEF TypeOK, Release
  <2>3. fut' \in [Req -> Futures] /\ evfut' \in [Req -> Futures]
    BY <1>0, <2>1 DEF TypeOK, Release, Futures
  <2> QED
    BY <1>0, <2>1, <2>2, <2>3 DEF TypeOK
<1>18. ASSUME NEW r \in Req, Aborts(r) PROVE TypeOK'
  <2>1. Abort(r)
    BY <1>18, AbortFacts
  <2>2. wire' \in Seq(Frames)
    BY <1>0, <2>1, RequestFacts, WriteFacts DEF Abort, TypeOK
  <2> QED
    BY <1>0, <1>e, <2>1, <2>2, SMTT(30) DEF TypeOK, Abort, Futures
<1>9. ASSUME NEW r \in Req, Send(r) PROVE TypeOK'
  <2>1. wire' \in Seq(Frames)
    BY <1>0, <1>9, RequestFacts, WriteFacts DEF Send
  <2> QED
    BY <1>0, <1>9, <2>1 DEF TypeOK, Send, Register
<1>10. ASSUME NEW r \in Req, TakeOther(r) PROVE TypeOK'
  <2>1. Tail(queue[r]) \in Seq({Sentinel, "event"})
    BY <1>0, <1>10, TailFacts DEF TypeOK, TakeOther
  <2> QED
    BY <1>0, <1>10, <2>1 DEF TypeOK, TakeOther
<1>11. ASSUME NEW r \in Req, Ends(r) PROVE TypeOK'
  <2>1. Leave(r)
    BY <1>11, LeaveFacts
  <2>2. wire' \in Seq(Frames)
    BY <1>0, <2>1, FrameTypes, WriteFacts DEF Leave, TypeOK
  <2> QED
    <3>1. /\ at' \in [Req -> {"idle", "gated", "result", "event", "leaving", "done"}]
          /\ queue' \in [Req -> Seq({Sentinel, "event"})]
      <4>1. queue' \in {queue, [queue EXCEPT ![r] = <<>>]}
        BY <2>1 DEF Leave
      <4>2. queue \in [Req -> Seq({Sentinel, "event"})]
        BY <1>0 DEF TypeOK
      <4>3. queue' \in [Req -> Seq({Sentinel, "event"})]
        BY <1>e, <4>1, <4>2
      <4> QED
        BY <1>0, <2>1, <4>3 DEF TypeOK, Leave
    <3>2. fut' \in [Req -> Futures] /\ evfut' \in [Req -> Futures]
      BY <1>0, <2>1 DEF TypeOK, Leave, Futures
    <3>3. pendR' \in SUBSET Nat /\ pendE' \in SUBSET Nat /\ queues' \in SUBSET Nat
      BY <1>0, <2>1 DEF TypeOK, Leave
    <3>4. nextId' \in Nat /\ cut' \in SUBSET Req
      BY <1>0, <2>1 DEF TypeOK, Leave
    <3> QED
      BY <1>0, <2>1, <2>2, <3>1, <3>2, <3>3, <3>4 DEF TypeOK, Leave
<1>12. CASE HaAuthenticates
  <2>1. inbox' \in Seq(Messages) /\ wire' \in Seq(Frames)
    BY <1>0, <1>12, FrameTypes, AppendFacts, TailFacts DEF TypeOK, HaAuthenticates
  <2> QED
    BY <1>0, <1>12, <2>1 DEF TypeOK, HaAuthenticates
<1>13. CASE HaRejects
  <2>1. inbox' \in Seq(Messages)
    BY <1>0, <1>13, FrameTypes, AppendFacts DEF TypeOK, HaRejects
  <2> QED
    BY <1>0, <1>e, <1>13, <2>1 DEF TypeOK, HaRejects
<1>14. CASE HaAnswers
  <2>1. PICK i \in DOMAIN wire, ok \in BOOLEAN :
           /\ inbox' = Append(inbox, Message("result", wire[i].id, ok))
           /\ wire' = RemoveAt(wire, i)
           /\ haSubs' = CASE wire[i].type = "subscribe" /\ ok -> haSubs \cup {wire[i].id}
                          [] wire[i].type = "unsubscribe" -> haSubs \ {wire[i].sub}
                          [] OTHER -> haSubs
           /\ UNCHANGED <<taskVars, nextId, tables, callVars, link, haAuth, bounds>>
    BY <1>14 DEF HaAnswers
  <2>2. wire[i] \in Frames /\ wire[i].id \in Nat
    <3>1. i \in 1 .. Len(wire) /\ wire \in Seq(Frames)
      BY <1>0, LenProperties DEF TypeOK
    <3>2. wire[i] \in Frames
      BY <3>1, ElementOfSeq
    <3> QED
      BY <3>2 DEF Frames
  <2>3. wire' \in Seq(Frames)
    BY <1>0, <2>1, RemoveFacts DEF TypeOK
  <2>4. inbox' \in Seq(Messages)
    <3>1. Message("result", wire[i].id, ok) \in Messages
      BY <2>2 DEF Message, Messages
    <3> QED
      BY <1>0, <2>1, <3>1, AppendFacts DEF TypeOK
  <2>5. haSubs' \in SUBSET Nat
    BY <1>0, <2>1, <2>2 DEF TypeOK
  <2> QED
    BY <1>0, <2>1, <2>3, <2>4, <2>5 DEF TypeOK
<1>15. CASE HaEmits
  <2>1. PICK i \in haSubs : inbox' = Append(inbox, Message("event", i, TRUE))
    BY <1>15 DEF HaEmits
  <2>2. inbox' \in Seq(Messages)
    BY <1>0, <2>1, FrameTypes, AppendFacts DEF TypeOK
  <2>3. events' \in 0 .. MaxEvents
    BY <1>0, <1>15, HaWebSocketAssumption DEF TypeOK, HaEmits
  <2> QED
    BY <1>0, <1>15, <2>2, <2>3 DEF TypeOK, HaEmits
<1>16. CASE Lose
  <2>1. inbox' \in Seq(Messages)
    <3>1. PICK n \in 0 .. Len(inbox) : inbox' = SubSeq(inbox, 1, n)
      BY <1>16 DEF Lose
    <3>2. Len(inbox) \in Nat /\ \A k \in 1 .. n : inbox[k] \in Messages
      BY <1>0, <3>1, ElementOfSeq, LenProperties DEF TypeOK
    <3> QED
      BY <3>1, <3>2, SubSeqProperties
  <2> QED
    BY <1>0, <1>e, <1>16, <2>1 DEF TypeOK, Lose
<1>17. CASE UNCHANGED vars
  BY <1>0, <1>17 DEF TypeOK, vars
<1> QED
  BY <1>1, <1>2, <1>3, <1>4, <1>5, <1>6, <1>7, <1>8, <1>9, <1>10, <1>11, <1>12, <1>13, <1>14,
     <1>15, <1>16, <1>17, <1>18, NextCases

-------------------------------------------------------------------------------
(* What the steps of Home Assistant do to the two directions of the wire.    *)
LEMMA NetworkIsUp ==
  ASSUME TaskInv, HaAuthenticates \/ HaRejects \/ HaAnswers \/ HaEmits \/ Lose
  PROVE  ~closed /\ (HaAuthenticates \/ HaRejects \/ HaAnswers \/ Lose => link # "lost")
  <1>1. HaAuthenticates \/ HaRejects => ~closed /\ link # "lost"
    BY DEF TaskInv, HaAuthenticates, HaRejects
  <1>2. HaAnswers => ~closed /\ link # "lost"
    <2>1. HaAnswers => DOMAIN wire # {}
      BY DEF HaAnswers
    <2>2. HaAnswers => wire # <<>>
      BY <2>1
    <2> QED
      BY <2>2 DEF TaskInv
  <1>3. HaEmits => ~closed
    BY DEF TaskInv, HaEmits
  <1>4. Lose => ~closed /\ link # "lost"
    BY DEF TaskInv, Lose
  <1> QED
    BY <1>1, <1>2, <1>3, <1>4

(* Home Assistant took frame i and answered.                                 *)
Took(i, ok) ==
  /\ \A j \in DOMAIN wire : j < i => wire[j].type = "command"
  /\ haSubs' \subseteq haSubs \cup {wire[i].id}
  /\ wire[i].type = "subscribe" /\ ok => wire[i].id \in haSubs'
  /\ wire[i].id \in haSubs' => wire[i].type = "subscribe" \/ wire[i].id \in haSubs
  /\ wire[i].type = "unsubscribe" => haSubs' = haSubs \ {wire[i].sub}
  /\ wire[i].type # "unsubscribe" => haSubs \subseteq haSubs'
  /\ wire' \in Seq(Frames)
  /\ \A j \in DOMAIN wire' :
       j \in Nat /\ Behind(i, j) \in DOMAIN wire /\ wire'[j] = wire[Behind(i, j)]
         /\ Behind(i, j) # i
  /\ \A k \in DOMAIN wire : k # i => \E j \in DOMAIN wire' : wire'[j] = wire[k]
  /\ \A k \in DOMAIN inbox' : \/ k \in DOMAIN inbox /\ inbox'[k] = inbox[k]
                              \/ inbox'[k] = Message("result", wire[i].id, ok)
  /\ UNCHANGED <<taskVars, nextId, tables, callVars, link, haAuth, bounds>>

LEMMA AnswerFacts ==
  ASSUME TypeOK, HaAnswers
  PROVE  \E i \in DOMAIN wire, ok \in BOOLEAN : wire[i] \in Frames /\ Took(i, ok)
  <1>1. PICK i \in DOMAIN wire, ok \in BOOLEAN :
           /\ Takes(i)
           /\ inbox' = Append(inbox, Message("result", wire[i].id, ok))
           /\ wire' = RemoveAt(wire, i)
           /\ haSubs' = CASE wire[i].type = "subscribe" /\ ok -> haSubs \cup {wire[i].id}
                          [] wire[i].type = "unsubscribe" -> haSubs \ {wire[i].sub}
                          [] OTHER -> haSubs
           /\ UNCHANGED <<taskVars, nextId, tables, callVars, link, haAuth, bounds>>
    BY DEF HaAnswers
  <1>2. wire \in Seq(Frames) /\ i \in 1 .. Len(wire) /\ DOMAIN wire = 1 .. Len(wire)
    BY LenProperties DEF TypeOK
  <1>3. wire[i] \in Frames /\ wire[i].id \in Nat
    <2>1. wire[i] \in Frames
      BY <1>2, ElementOfSeq
    <2> QED
      BY <2>1 DEF Frames
  <1>4. Message("result", wire[i].id, ok) \in Messages
    BY <1>3 DEF Message, Messages
  <1>5. \A k \in DOMAIN inbox' : \/ k \in DOMAIN inbox /\ inbox'[k] = inbox[k]
                                 \/ inbox'[k] = Message("result", wire[i].id, ok)
    BY <1>1, <1>4, AppendFacts, SMTT(30) DEF TypeOK
  <1>6. /\ wire' \in Seq(Frames)
        /\ \A j \in DOMAIN wire' :
             j \in Nat /\ Behind(i, j) \in DOMAIN wire /\ wire'[j] = wire[Behind(i, j)]
               /\ Behind(i, j) # i
        /\ \A k \in DOMAIN wire : k # i => \E j \in DOMAIN wire' : Behind(i, j) = k
    <2> DEFINE w == RemoveAt(wire, i)
    <2>1. wire \in Seq(Frames) /\ i \in DOMAIN wire
      BY <1>2
    <2>2. /\ w \in Seq(Frames)
          /\ \A j \in DOMAIN w :
               j \in Nat /\ Behind(i, j) \in DOMAIN wire /\ w[j] = wire[Behind(i, j)]
                 /\ Behind(i, j) # i
          /\ \A k \in DOMAIN wire : k # i => \E j \in DOMAIN w : Behind(i, j) = k
      BY <2>1, RemoveFacts
    <2>3. wire' = w
      BY <1>1
    <2> HIDE DEF w
    <2> QED
      BY <2>2, <2>3
  <1>7. \A k \in DOMAIN wire : k # i => \E j \in DOMAIN wire' : wire'[j] = wire[k]
    BY <1>6
  <1>8. \A j \in DOMAIN wire : j < i => wire[j].type = "command"
    <2>1. \A j \in DOMAIN wire : j < i => j \in 1 .. i - 1
      BY <1>2, LenProperties
    <2> QED
      BY <1>1, <2>1 DEF Takes
  <1>9. /\ haSubs' \subseteq haSubs \cup {wire[i].id}
        /\ wire[i].type = "subscribe" /\ ok => wire[i].id \in haSubs'
        /\ wire[i].id \in haSubs' => wire[i].type = "subscribe" \/ wire[i].id \in haSubs
        /\ wire[i].type = "unsubscribe" => haSubs' = haSubs \ {wire[i].sub}
        /\ wire[i].type # "unsubscribe" => haSubs \subseteq haSubs'
    <2>1. CASE wire[i].type = "subscribe" /\ ok
      <3>1. haSubs' = haSubs \cup {wire[i].id}
        BY <1>1, <2>1
      <3> QED
        BY <2>1, <3>1
    <2>2. CASE wire[i].type = "unsubscribe"
      <3>1. haSubs' = haSubs \ {wire[i].sub}
        BY <1>1, <2>2
      <3> QED
        BY <2>2, <3>1
    <2>3. CASE ~(wire[i].type = "subscribe" /\ ok) /\ wire[i].type # "unsubscribe"
      <3>1. haSubs' = haSubs
        BY <1>1, <2>3
      <3> QED
        BY <2>3, <3>1
    <2> QED
      BY <2>1, <2>2, <2>3
  <1> QED
    BY <1>1, <1>3, <1>5, <1>6, <1>7, <1>8, <1>9 DEF Took

LEMMA TaskStep == IInv /\ TypeOK' /\ [Next]_vars => TaskInv'
<1> SUFFICES ASSUME IInv, TypeOK', [Next]_vars PROVE TaskInv'
  OBVIOUS
<1> USE DEF TaskInv, taskVars, tables, callVars, haVars, bounds
<1>0. TypeOK /\ TaskInv /\ nextId \in Nat /\ 0 \in Nat /\ link \in {"up", "lost"}
  BY DEF IInv, TypeOK
<1>1. CASE Hangup
  BY <1>1, HangupFacts DEF DropConnection, FailPending, Tell
<1>2. CASE Stop
  BY <1>0, <1>2 DEF Stop
<1>3. CASE Connect
  BY <1>0, <1>3 DEF Connect
<1>4. CASE Hello \/ Authenticated
  BY <1>0, <1>4, FrameTypes, WriteFacts DEF Hello, Authenticated
<1>5. CASE Confirmed \/ Connected \/ Read
  BY <1>0, <1>5 DEF Confirmed, Connected, Read
<1>6. ASSUME NEW r \in Req, Gate(r) \/ Refused(r) \/ Proceed(r) \/ TakeOther(r) PROVE TaskInv'
  BY <1>0, <1>6 DEF Gate, Refused, Unavailable, GateCancel, Proceed, TakeOther
<1>7. ASSUME NEW r \in Req, Send(r) PROVE TaskInv'
  <2>1. link # "up" => wire' = wire
    BY <1>0, <1>7, RequestFacts, WriteFacts DEF Send
  <2> QED
    BY <1>0, <1>7, <2>1 DEF Send, Register
<1>8. ASSUME NEW r \in Req, Aborts(r) PROVE TaskInv'
  <2>1. Abort(r)
    BY <1>8, AbortFacts
  <2>2. link # "up" => wire' = wire
    BY <1>0, <2>1, RequestFacts, WriteFacts DEF Abort
  <2>3. task # "asleep"
    BY <1>0, <1>8 DEF Aborts, SendRaises, SendCancelled
  <2> QED
    BY <1>0, <2>1, <2>2, <2>3 DEF Abort
<1>9. ASSUME NEW r \in Req, Ends(r) PROVE TaskInv'
  <2>1. Leave(r)
    BY <1>9, LeaveFacts
  <2>2. link # "up" => wire' = wire
    BY <1>0, <2>1, FrameTypes, WriteFacts DEF Leave, TypeOK
  <2> QED
    BY <1>0, <2>1, <2>2 DEF Leave
<1>10. CASE HaAuthenticates \/ HaRejects \/ HaEmits \/ Lose
  <2>1. ~closed /\ UNCHANGED taskVars
    BY <1>0, <1>10, NetworkIsUp DEF HaAuthenticates, HaRejects, HaEmits, Lose
  <2>2. link' = "lost" => wire' = <<>>
    <3>1. CASE HaAuthenticates
      BY <1>0, <3>1, NetworkIsUp DEF HaAuthenticates
    <3>2. CASE HaEmits
      BY <1>0, <3>2 DEF HaEmits
    <3>3. CASE HaRejects \/ Lose
      BY <3>3 DEF HaRejects, Lose
    <3> QED
      BY <1>10, <3>1, <3>2, <3>3
  <2> QED
    BY <1>0, <2>1, <2>2
<1>11. CASE HaAnswers
  <2>1. ~closed /\ link # "lost"
    BY <1>0, <1>11, NetworkIsUp
  <2>2. UNCHANGED <<taskVars, link>>
    BY <1>0, <1>11, AnswerFacts DEF Took
  <2> QED
    BY <1>0, <2>1, <2>2
<1>12. CASE UNCHANGED vars
  BY <1>0, <1>12 DEF vars
<1> QED
  BY <1>1, <1>2, <1>3, <1>4, <1>5, <1>6, <1>7, <1>8, <1>9, <1>10, <1>11, <1>12, NextCases

-------------------------------------------------------------------------------
LEMMA WireTyped ==
  ASSUME TypeOK
  PROVE  /\ \A i \in DOMAIN wire : i \in Nat /\ wire[i].id \in Nat /\ wire[i].sub \in Nat
         /\ \A k \in DOMAIN inbox : k \in Nat /\ inbox[k].id \in Nat
  <1>1. wire \in Seq(Frames) /\ inbox \in Seq(Messages)
    BY DEF TypeOK
  <1>2. /\ Len(wire) \in Nat /\ DOMAIN wire = 1 .. Len(wire)
        /\ Len(inbox) \in Nat /\ DOMAIN inbox = 1 .. Len(inbox)
    BY <1>1, LenProperties
  <1>3. \A i \in DOMAIN wire : wire[i] \in Frames
    BY <1>1, <1>2, ElementOfSeq
  <1>4. \A k \in DOMAIN inbox : inbox[k] \in Messages
    BY <1>1, <1>2, ElementOfSeq
  <1>5. \A i \in DOMAIN wire : wire[i].id \in Nat /\ wire[i].sub \in Nat
    BY <1>3 DEF Frames
  <1>6. \A k \in DOMAIN inbox : inbox[k].id \in Nat
    BY <1>4 DEF Messages
  <1> QED
    BY <1>2, <1>5, <1>6

(* A step that gives no call an id keeps the ids apart.                      *)
LEMMA IdKept ==
  ASSUME TypeOK, IdInv, nextId' \in {nextId, nextId + 1}, id' = id,
         \A r \in Req : (Fresh(r)' => Fresh(r)) /\ (Asked(r)' => Asked(r)),
         (pendR' \cup pendE' \cup queues') \subseteq (pendR \cup pendE \cup queues),
         \A n \in haSubs' : n \in haSubs \/ \E i \in DOMAIN wire : n = wire[i].id,
         \A i \in DOMAIN wire' :
           \/ \E j \in DOMAIN wire : wire'[i] = wire[j]
           \/ wire'[i].id < nextId' /\ wire'[i].sub < nextId',
         \A k \in DOMAIN inbox' :
           \/ \E j \in DOMAIN inbox : inbox'[k] = inbox[j]
           \/ \E j \in DOMAIN wire : inbox'[k].id = wire[j].id
           \/ inbox'[k].id < nextId'
  PROVE  IdInv'
  <1>1. nextId \in Nat /\ \A r \in Req : id[r] \in Nat
    BY DEF TypeOK
  <1>2. \A n \in Nat : n < nextId => n < nextId'
    BY <1>1
  <1>3. \A n \in pendR \cup pendE \cup queues \cup haSubs : n \in Nat
    BY DEF TypeOK
  <1>4. \A n \in pendR' \cup pendE' \cup queues' \cup haSubs' : n < nextId'
    BY <1>2, <1>3, WireTyped DEF IdInv
  <1>5. \A i \in DOMAIN wire' : wire'[i].id < nextId' /\ wire'[i].sub < nextId'
    BY <1>2, WireTyped DEF IdInv
  <1>6. \A k \in DOMAIN inbox' : inbox'[k].id < nextId'
    <2>1. SUFFICES ASSUME NEW k \in DOMAIN inbox' PROVE inbox'[k].id < nextId'
      OBVIOUS
    <2> QED
      BY <1>2, WireTyped DEF IdInv
  <1>7. nextId' > 0
    BY <1>1 DEF IdInv
  <1>8. \A r \in Req : id[r] < nextId'
    BY <1>1, <1>2 DEF IdInv
  <1>9. \A r \in Req : /\ id'[r] < nextId'
                       /\ Fresh(r)' => id'[r] = 0
                       /\ Asked(r)' => id'[r] # 0
    BY <1>8 DEF IdInv
  <1>10. \A q, r \in Req : id'[q] = id'[r] /\ id'[r] # 0 => q = r
    BY DEF IdInv
  <1> QED
    BY <1>4, <1>5, <1>6, <1>7, <1>9, <1>10 DEF IdInv

(* What else Home Assistant says, and what a lost connection leaves of it.    *)
LEMMA InboxFacts ==
  ASSUME TypeOK, IdInv, HaAuthenticates \/ HaRejects \/ HaEmits \/ Lose
  PROVE  \A k \in DOMAIN inbox' :
           \/ \E j \in DOMAIN inbox : inbox'[k] = inbox[j]
           \/ inbox'[k].id < nextId /\ inbox'[k].type # "result"
  <1>0. /\ TypeOK /\ IdInv /\ nextId \in Nat /\ 0 < nextId /\ inbox \in Seq(Messages)
    BY DEF TypeOK, IdInv
  <1>1. CASE HaAuthenticates \/ HaRejects
    <2> DEFINE Says(m) == m \in Messages /\ m.id = 0 /\ m.type # "result" /\ inbox' = Append(inbox, m)
    <2>1. PICK m : Says(m)
      <3>1. CASE HaAuthenticates
        <4>1. Says(Message("auth_ok", 0, TRUE))
          BY <3>1 DEF HaAuthenticates, Message, Messages
        <4> QED
          BY <4>1
      <3>2. CASE HaRejects
        <4>1. Says(Message("auth_invalid", 0, FALSE))
          BY <3>2 DEF HaRejects, Message, Messages
        <4> QED
          BY <4>1
      <3> QED
        BY <1>1, <3>1, <3>2
    <2>2. \A k \in DOMAIN inbox' : \/ k \in DOMAIN inbox /\ inbox'[k] = inbox[k]
                                   \/ inbox'[k] = m
      BY <1>0, <2>1, AppendFacts
    <2> QED
      BY <1>0, <2>1, <2>2
  <1>2. CASE HaEmits
    <2> DEFINE Says(m) == m \in Messages /\ m.id < nextId /\ m.type # "result" /\ inbox' = Append(inbox, m)
    <2>1. PICK i \in haSubs : inbox' = Append(inbox, Message("event", i, TRUE))
      BY <1>2 DEF HaEmits
    <2>2. i \in Nat /\ i < nextId
      BY <1>0 DEF IdInv, TypeOK
    <2>3. Says(Message("event", i, TRUE))
      BY <2>1, <2>2 DEF Message, Messages
    <2>4. PICK m : Says(m)
      BY <2>3
    <2>5. \A k \in DOMAIN inbox' : \/ k \in DOMAIN inbox /\ inbox'[k] = inbox[k]
                                   \/ inbox'[k] = m
      BY <1>0, <2>4, AppendFacts
    <2> QED
      BY <2>4, <2>5
  <1>3. CASE Lose
    <2>1. PICK n \in 0 .. Len(inbox) : inbox' = SubSeq(inbox, 1, n)
      BY <1>3 DEF Lose
    <2>2. Len(inbox) \in Nat /\ \A k \in 1 .. n : inbox[k] \in Messages
      BY <1>0, <2>1, ElementOfSeq, LenProperties
    <2>3. /\ Len(inbox') = n /\ inbox' \in Seq(Messages)
          /\ \A k \in 1 .. n : inbox'[k] = inbox[k]
      BY <2>1, <2>2, SubSeqProperties
    <2>4. DOMAIN inbox' = 1 .. n /\ DOMAIN inbox = 1 .. Len(inbox)
      BY <1>0, <2>3, LenProperties
    <2> QED
      BY <2>2, <2>3, <2>4
  <1> QED
    BY <1>1, <1>2, <1>3

LEMMA IdStep == IInv /\ TypeOK' /\ [Next]_vars => IdInv'
<1> SUFFICES ASSUME IInv, TypeOK', [Next]_vars PROVE IdInv'
  OBVIOUS
<1> USE DEF taskVars, tables, callVars, haVars, bounds
<1>0. /\ TypeOK /\ TaskInv /\ IdInv /\ nextId \in Nat /\ 0 \in Nat /\ 0 < nextId
      /\ inbox \in Seq(Messages) /\ wire \in Seq(Frames)
      /\ \A r \in Req : id[r] \in Nat
  BY DEF IInv, TypeOK, IdInv
<1>e. DOMAIN <<>> = {}
  OBVIOUS
<1>1. CASE Hangup \/ Stop
  <2>1. /\ inbox' = <<>> /\ wire' = <<>> /\ haSubs' = {} /\ UNCHANGED <<nextId, id, at>>
        /\ pendR' \subseteq pendR /\ pendE' \subseteq pendE /\ queues' \subseteq queues
    BY <1>1, HangupFacts DEF Stop, DropConnection, FailPending, Tell
  <2>2. \A r \in Req : (Fresh(r)' => Fresh(r)) /\ (Asked(r)' => Asked(r))
    BY <2>1 DEF Fresh, Waits, Asked
  <2>3. DOMAIN wire' = {} /\ DOMAIN inbox' = {}
    BY <2>1, <1>e
  <2> QED
    BY <1>0, <2>1, <2>2, <2>3, IdKept
<1>2. CASE Connect
  <2>1. /\ inbox' = <<Message("auth_required", 0, TRUE)>>
        /\ UNCHANGED <<nextId, id, at, pendR, pendE, queues, wire, haSubs>>
    BY <1>2 DEF Connect
  <2>2. \A k \in DOMAIN inbox' : inbox'[k].id < nextId
    BY <1>0, <2>1, Singleton DEF Message
  <2>3. \A r \in Req : (Fresh(r)' => Fresh(r)) /\ (Asked(r)' => Asked(r))
    BY <2>1 DEF Fresh, Waits, Asked
  <2> QED
    BY <1>0, <2>1, <2>2, <2>3, IdKept
<1>3. CASE Hello \/ Authenticated \/ Confirmed
  <2>1. /\ nextId' \in {nextId, nextId + 1} /\ inbox # <<>> /\ inbox' = Tail(inbox)
        /\ UNCHANGED <<id, at, pendR, pendE, queues, haSubs>>
    BY <1>3 DEF Hello, Authenticated, Confirmed
  <2>2. \A k \in DOMAIN inbox' : \E j \in DOMAIN inbox : inbox'[k] = inbox[j]
    BY <1>0, <2>1, TailFacts
  <2>3. \A i \in DOMAIN wire' :
           \/ \E j \in DOMAIN wire : wire'[i] = wire[j]
           \/ wire'[i].id < nextId' /\ wire'[i].sub < nextId'
    <3>1. CASE Confirmed
      BY <3>1 DEF Confirmed
    <3>2. CASE Hello
      <4>1. Frame("auth", 0, 0).id < nextId /\ Frame("auth", 0, 0).sub < nextId
        BY <1>0 DEF Frame
      <4> QED
        BY <1>0, <3>2, <4>1, FrameTypes, WriteFacts DEF Hello
    <3>3. CASE Authenticated
      <4>1. Frame("subscribe", nextId, 0).id < nextId + 1 /\ Frame("subscribe", nextId, 0).sub < nextId + 1
        BY <1>0 DEF Frame
      <4> QED
        BY <1>0, <3>3, <4>1, FrameTypes, WriteFacts DEF Authenticated
    <3> QED
      BY <1>3, <3>1, <3>2, <3>3
  <2>4. \A r \in Req : (Fresh(r)' => Fresh(r)) /\ (Asked(r)' => Asked(r))
    BY <2>1 DEF Fresh, Waits, Asked
  <2> QED
    BY <1>0, <2>1, <2>2, <2>3, <2>4, IdKept
<1>4. CASE Connected \/ Read
  <2>1. /\ UNCHANGED <<nextId, id, at, wire, haSubs>>
        /\ pendR' \subseteq pendR /\ pendE' \subseteq pendE /\ queues' \subseteq queues
    BY <1>4 DEF Connected, Read, Tell
  <2>2. \A k \in DOMAIN inbox' : \E j \in DOMAIN inbox : inbox'[k] = inbox[j]
    BY <1>0, <1>4, TailFacts DEF Connected, Read
  <2>3. \A r \in Req : (Fresh(r)' => Fresh(r)) /\ (Asked(r)' => Asked(r))
    BY <2>1 DEF Fresh, Waits, Asked
  <2> QED
    BY <1>0, <2>1, <2>2, <2>3, IdKept
<1>5. ASSUME NEW r \in Req, Gate(r) \/ Refused(r) \/ Proceed(r) \/ TakeOther(r) PROVE IdInv'
  <2>1. UNCHANGED <<nextId, id, pendR, pendE, queues, wire, inbox, haSubs>>
    BY <1>5 DEF Gate, Refused, Unavailable, GateCancel, Proceed, TakeOther
  <2>2. \A q \in Req : (Fresh(q)' => Fresh(q)) /\ (Asked(q)' => Asked(q))
    BY <1>0, <1>5 DEF Gate, Refused, Unavailable, GateCancel, Release, Proceed, TakeOther,
                      Fresh, Waits, Asked, TypeOK
  <2> QED
    BY <1>0, <2>1, <2>2, IdKept
<1>6. ASSUME NEW r \in Req, Send(r) \/ Aborts(r) PROVE IdInv'
  <2>a. Aborts(r) => Abort(r)
    BY AbortFacts
  <2>1. /\ id' = [id EXCEPT ![r] = nextId] /\ nextId' = nextId + 1
        /\ (pendR' \cup pendE' \cup queues') \subseteq (pendR \cup pendE \cup queues \cup {nextId})
        /\ UNCHANGED <<inbox, haSubs>>
    BY <1>6, <2>a DEF Send, Register, Abort
  <2>2. \A i \in DOMAIN wire' :
           \/ \E j \in DOMAIN wire : wire'[i] = wire[j]
           \/ wire'[i].id < nextId' /\ wire'[i].sub < nextId'
    <3>1. wire' = wire \/ Write(Request(r))
      BY <1>6, <2>a DEF Send, Abort
    <3>2. Request(r).id < nextId + 1 /\ Request(r).sub < nextId + 1
      BY <1>0, RequestFacts
    <3> QED
      BY <1>0, <2>1, <3>1, <3>2, RequestFacts, WriteFacts
  <2>3. \A q \in Req : (Fresh(q)' => q # r /\ Fresh(q)) /\ (Asked(q)' => q = r \/ Asked(q))
    BY <1>0, <1>6, <2>a DEF Send, Abort, Fresh, Waits, Asked, TypeOK
  <2>4. \A n \in Nat : n < nextId => n < nextId'
    BY <1>0, <2>1
  <2>5. \A n \in pendR \cup pendE \cup queues \cup haSubs : n \in Nat
    BY <1>0 DEF TypeOK
  <2>6. \A n \in pendR' \cup pendE' \cup queues' \cup haSubs' : n < nextId'
    BY <1>0, <2>1, <2>4, <2>5 DEF IdInv
  <2>7. \A i \in DOMAIN wire' : wire'[i].id < nextId' /\ wire'[i].sub < nextId'
    BY <1>0, <2>2, <2>4, WireTyped DEF IdInv
  <2>8. \A k \in DOMAIN inbox' : inbox'[k].id < nextId'
    BY <1>0, <2>1, <2>4, WireTyped DEF IdInv
  <2>9. /\ id'[r] = nextId /\ \A q \in Req : q # r => id'[q] = id[q]
        /\ \A q \in Req : id[q] < nextId /\ id[q] # nextId
    BY <1>0, <2>1 DEF IdInv, TypeOK
  <2>10. \A q \in Req : /\ id'[q] < nextId'
                        /\ Fresh(q)' => id'[q] = 0
                        /\ Asked(q)' => id'[q] # 0
    BY <1>0, <2>1, <2>3, <2>4, <2>9 DEF IdInv
  <2>11. \A p, q \in Req : id'[p] = id'[q] /\ id'[q] # 0 => p = q
    BY <1>0, <2>9 DEF IdInv
  <2>12. nextId' > 0
    BY <1>0, <2>1
  <2> QED
    BY <2>6, <2>7, <2>8, <2>10, <2>11, <2>12 DEF IdInv
<1>7. ASSUME NEW r \in Req, Ends(r) PROVE IdInv'
  <2>1. Leave(r)
    BY <1>7, LeaveFacts
  <2>2. /\ nextId' \in {nextId, nextId + 1}
        /\ (pendR' \cup pendE' \cup queues') \subseteq (pendR \cup pendE \cup queues)
        /\ UNCHANGED <<id, inbox, haSubs>>
    BY <2>1 DEF Leave
  <2>3. \A i \in DOMAIN wire' :
           \/ \E j \in DOMAIN wire : wire'[i] = wire[j]
           \/ wire'[i].id < nextId' /\ wire'[i].sub < nextId'
    <3>1. CASE wire' = wire
      BY <3>1
    <3>2. CASE nextId' = nextId + 1 /\ Write(Frame("unsubscribe", nextId, id[r]))
      <4>1. /\ Frame("unsubscribe", nextId, id[r]).id < nextId + 1
            /\ Frame("unsubscribe", nextId, id[r]).sub < nextId + 1
        BY <1>0 DEF Frame, IdInv
      <4> QED
        BY <1>0, <3>2, <4>1, FrameTypes, WriteFacts
    <3> QED
      BY <2>1, <3>1, <3>2 DEF Leave
  <2>4. \A q \in Req : (Fresh(q)' => Fresh(q)) /\ (Asked(q)' => Asked(q))
    BY <1>0, <2>1 DEF Leave, Fresh, Waits, Asked, TypeOK
  <2> QED
    BY <1>0, <2>2, <2>3, <2>4, IdKept
<1>8. CASE HaAuthenticates \/ HaRejects \/ HaEmits \/ Lose
  <2>1. /\ UNCHANGED <<nextId, id, at, pendR, pendE, queues>> /\ haSubs' \subseteq haSubs
    BY <1>8 DEF HaAuthenticates, HaRejects, HaEmits, Lose
  <2>2. \A i \in DOMAIN wire' : \E j \in DOMAIN wire : wire'[i] = wire[j]
    <3>1. CASE HaAuthenticates
      BY <1>0, <3>1, TailFacts DEF HaAuthenticates
    <3>2. CASE HaRejects \/ Lose
      BY <1>e, <3>2 DEF HaRejects, Lose
    <3>3. CASE HaEmits
      BY <3>3 DEF HaEmits
    <3> QED
      BY <1>8, <3>1, <3>2, <3>3
  <2>3. \A k \in DOMAIN inbox' :
           \/ \E j \in DOMAIN inbox : inbox'[k] = inbox[j]
           \/ inbox'[k].id < nextId
    BY <1>0, <1>8, InboxFacts
  <2>4. \A r \in Req : (Fresh(r)' => Fresh(r)) /\ (Asked(r)' => Asked(r))
    BY <2>1 DEF Fresh, Waits, Asked
  <2> QED
    BY <1>0, <2>1, <2>2, <2>3, <2>4, IdKept
<1>9. CASE HaAnswers
  <2>1. PICK i \in DOMAIN wire, ok \in BOOLEAN : Took(i, ok)
    BY <1>0, <1>9, AnswerFacts
  <2>2. /\ UNCHANGED <<nextId, id, at, pendR, pendE, queues>>
        /\ \A n \in haSubs' : n \in haSubs \/ n = wire[i].id
        /\ \A j \in DOMAIN wire' : \E k \in DOMAIN wire : wire'[j] = wire[k]
        /\ \A k \in DOMAIN inbox' : \/ \E j \in DOMAIN inbox : inbox'[k] = inbox[j]
                                    \/ inbox'[k].id = wire[i].id
    BY <2>1 DEF Took, Message
  <2>3. \A r \in Req : (Fresh(r)' => Fresh(r)) /\ (Asked(r)' => Asked(r))
    BY <2>2 DEF Fresh, Waits, Asked
  <2> QED
    BY <1>0, <2>2, <2>3, IdKept
<1>10. CASE UNCHANGED vars
  <2>1. \A r \in Req : (Fresh(r)' => Fresh(r)) /\ (Asked(r)' => Asked(r))
    BY <1>10 DEF vars, Fresh, Waits, Asked
  <2> QED
    BY <1>0, <1>10, <2>1, IdKept DEF vars
<1> QED
  BY <1>1, <1>2, <1>3, <1>4, <1>5, <1>6, <1>7, <1>8, <1>9, <1>10, NextCases

-------------------------------------------------------------------------------
(* Frame f went out, or was lost.                                            *)
Sent(f) ==
  /\ \A i \in DOMAIN wire : i \in DOMAIN wire' /\ wire'[i] = wire[i]
  /\ \A i \in DOMAIN wire' : i \notin DOMAIN wire => wire'[i] = f /\ \A j \in DOMAIN wire : j < i

LEMMA SentFacts ==
  ASSUME IInv
  PROVE  /\ Hello => Sent(Frame("auth", 0, 0))
         /\ Authenticated => Sent(Frame("subscribe", nextId, 0))
         /\ \A r \in Req :
              /\ Send(r) => Sent(Request(r))
              /\ Abort(r) => wire' = wire \/ Sent(Request(r))
              /\ Leave(r) => wire' = wire \/ Sent(Frame("unsubscribe", nextId, id[r]))
  <1>0. TypeOK /\ nextId \in Nat /\ 0 \in Nat /\ \A r \in Req : id[r] \in Nat
    BY DEF IInv, TypeOK
  <1>1. ASSUME NEW f \in Frames, Write(f) PROVE Sent(f)
    BY <1>0, <1>1, WriteFacts DEF Sent
  <1>2. Hello => Sent(Frame("auth", 0, 0))
    BY <1>0, <1>1, FrameTypes DEF Hello
  <1>3. Authenticated => Sent(Frame("subscribe", nextId, 0))
    BY <1>0, <1>1, FrameTypes DEF Authenticated
  <1>4. ASSUME NEW r \in Req, Send(r) PROVE Sent(Request(r))
    BY <1>0, <1>1, <1>4, RequestFacts DEF Send
  <1>6. ASSUME NEW r \in Req, Abort(r) PROVE wire' = wire \/ Sent(Request(r))
    BY <1>0, <1>1, <1>6, RequestFacts DEF Abort
  <1>5. ASSUME NEW r \in Req, Leave(r)
        PROVE  wire' = wire \/ Sent(Frame("unsubscribe", nextId, id[r]))
    BY <1>0, <1>1, <1>5, FrameTypes DEF Leave
  <1> QED
    BY <1>2, <1>3, <1>4, <1>5, <1>6

LEMMA WireSteps ==
  ASSUME IInv, [Next]_vars
  PROVE  \/ wire' = <<>> \/ wire' = wire
         \/ \E f : Sent(f) /\ (f.type = "subscribe" => f.id = nextId)
         \/ HaAuthenticates \/ HaAnswers
<1> USE DEF tables, callVars, haVars
<1>1. CASE Hangup \/ Stop \/ HaRejects \/ Lose
  BY <1>1, HangupFacts DEF DropConnection, Stop, HaRejects, Lose
<1>2. CASE Connect \/ Confirmed \/ Connected \/ Read \/ HaEmits \/ UNCHANGED vars
  BY <1>2 DEF Connect, Confirmed, Connected, Read, HaEmits, vars
<1>3. ASSUME NEW r \in Req, Gate(r) \/ Refused(r) \/ Proceed(r) \/ TakeOther(r)
      PROVE  wire' = wire
  BY <1>3 DEF Gate, Refused, Unavailable, GateCancel, Proceed, TakeOther
<1>7. ASSUME NEW r \in Req, Send(r) \/ Aborts(r)
      PROVE  wire' = wire \/ (Sent(Request(r)) /\ Request(r).id = nextId)
  BY <1>7, SentFacts, AbortFacts, RequestFacts DEF IInv
<1>4. ASSUME NEW r \in Req, Ends(r)
      PROVE  wire' = wire \/ Sent(Frame("unsubscribe", nextId, id[r]))
  BY <1>4, LeaveFacts, SentFacts
<1>5. \A type, sub : Frame(type, nextId, sub).type = type /\ Frame(type, nextId, sub).id = nextId
  BY DEF Frame
<1>6. Frame("auth", 0, 0).type = "auth"
  BY DEF Frame
<1> QED
  BY <1>1, <1>2, <1>3, <1>4, <1>5, <1>6, <1>7, SentFacts, NextCases

LEMMA OrderStep == IInv /\ TypeOK' /\ [Next]_vars => OrderInv'
<1> SUFFICES ASSUME IInv, TypeOK', [Next]_vars PROVE OrderInv'
  OBVIOUS
<1>a. TypeOK /\ IdInv /\ OrderInv /\ nextId \in Nat /\ wire \in Seq(Frames)
  BY DEF IInv, TypeOK
<1>b. \A i \in DOMAIN wire : wire[i].sub # nextId
  BY <1>a, WireTyped DEF IdInv
<1>0. /\ TypeOK /\ IdInv /\ OrderInv /\ nextId \in Nat /\ wire \in Seq(Frames)
      /\ \A i \in DOMAIN wire : wire[i].sub # nextId
  BY <1>a, <1>b
<1>1. CASE wire' = <<>>
  <2>1. DOMAIN wire' = {}
    BY <1>1
  <2> QED
    BY <2>1 DEF OrderInv
<1>2. CASE wire' = wire
  BY <1>0, <1>2 DEF OrderInv
<1>3. ASSUME NEW f, Sent(f), f.type = "subscribe" => f.id = nextId PROVE OrderInv'
  BY <1>0, <1>3 DEF OrderInv, Sent
<1>4. CASE HaAuthenticates
  <2>1. \A i \in DOMAIN wire' : i \in Nat /\ i + 1 \in DOMAIN wire /\ wire'[i] = wire[i + 1]
    BY <1>0, <1>4, TailFacts DEF HaAuthenticates
  <2>2. \A i, j \in DOMAIN wire' : j + 1 < i + 1 => j < i
    BY <2>1
  <2> QED
    BY <1>0, <2>1, <2>2 DEF OrderInv
<1>5. CASE HaAnswers
  <2>1. PICK i \in DOMAIN wire, ok \in BOOLEAN : Took(i, ok)
    BY <1>0, <1>5, AnswerFacts
  <2>2. \A j \in DOMAIN wire' : j \in Nat /\ Behind(i, j) \in DOMAIN wire /\ wire'[j] = wire[Behind(i, j)]
    BY <2>1 DEF Took
  <2>3. i \in Nat
    BY <1>0, WireTyped
  <2>4. \A j, k \in DOMAIN wire' : Behind(i, j) < Behind(i, k) => j < k
    BY <2>2, <2>3 DEF Behind
  <2> QED
    BY <1>0, <2>2, <2>4 DEF OrderInv
<1> QED
  BY <1>1, <1>2, <1>3, <1>4, <1>5, WireSteps

-------------------------------------------------------------------------------
LEMMA TellFacts ==
  ASSUME TypeOK, Tell, NEW r \in Req
  PROVE  /\ queues' = {}
         /\ Owns(r, queues) => \E k \in DOMAIN queue'[r] : queue'[r][k] = Sentinel
         /\ ~Owns(r, queues) => queue'[r] = queue[r]
  <1>1. queue[r] \in Seq({Sentinel, "event"})
    BY DEF TypeOK
  <1>2. \E k \in DOMAIN Append(queue[r], Sentinel) : Append(queue[r], Sentinel)[k] = Sentinel
    <2> DEFINE S == {Sentinel, "event"}
    <2>1. queue[r] \in Seq(S) /\ Sentinel \in S
      BY <1>1
    <2> HIDE DEF S
    <2> QED
      BY <2>1, AppendFacts
  <1> QED
    BY <1>2 DEF Tell

(* The calls do not share ids.                                               *)
LEMMA OthersApart ==
  ASSUME TypeOK, IdInv, NEW q \in Req, NEW r \in Req, q # r
  PROVE  /\ id[q] \in Nat /\ nextId \in Nat /\ id[q] # nextId
         /\ Asked(r) => id[q] # id[r] /\ id[r] # 0
         /\ Waits(r) => id[q] # id[r] /\ id[r] # 0
  BY DEF TypeOK, IdInv, Asked

LEMMA CallKept ==
  ASSUME IInv, TypeOK', [Next]_vars, NEW q \in Req
  PROVE  CallInv(q)'
<1> USE DEF taskVars, tables, callVars, haVars, bounds
<1>0. /\ TypeOK /\ IdInv /\ CallInv(q) /\ id[q] \in Nat /\ nextId \in Nat /\ id[q] # nextId
  <2>1. TypeOK /\ IdInv /\ CallInv(q)
    BY DEF IInv
  <2>2. id[q] \in Nat /\ nextId \in Nat /\ id[q] < nextId
    BY <2>1 DEF TypeOK, IdInv
  <2> QED
    BY <2>1, <2>2
<1>1. ASSUME UNCHANGED <<tables, at, kind, id, fut, evfut, queue>> PROVE CallInv(q)'
  BY <1>0, <1>1 DEF CallInv, Fresh, Waits, Told
<1>2. ASSUME NEW r \in Req, r # q,
             /\ at'[q] = at[q] /\ kind'[q] = kind[q] /\ id'[q] = id[q]
             /\ fut'[q] = fut[q] /\ evfut'[q] = evfut[q] /\ queue'[q] = queue[q],
             Waits(q) => /\ id[q] \in pendR' <=> id[q] \in pendR
                         /\ id[q] \in pendE' <=> id[q] \in pendE
                         /\ id[q] \in queues' <=> id[q] \in queues
      PROVE  CallInv(q)'
  BY <1>0, <1>2 DEF CallInv, Fresh, Waits, Told
<1>3. CASE Hangup
  <2>1. /\ UNCHANGED <<at, kind, id>> /\ FailPending /\ Tell
    BY <1>3, HangupFacts DEF DropConnection, FailPending
  <2>2. /\ fut'[q] = IF Owns(q, pendR) /\ fut[q] = "none" THEN "error" ELSE fut[q]
        /\ evfut'[q] = IF Owns(q, pendE) /\ evfut[q] = "none" THEN "error" ELSE evfut[q]
        /\ pendR' = {} /\ pendE' = {}
    BY <2>1 DEF FailPending
  <2>3. /\ queues' = {}
        /\ Owns(q, queues) => Told(q)'
        /\ ~Owns(q, queues) => queue'[q] = queue[q]
    BY <1>0, <2>1, TellFacts DEF Told
  <2>4. CASE ~Waits(q)
    BY <1>0, <2>1, <2>2, <2>3, <2>4 DEF CallInv, Waits, Fresh, Owns
  <2>5. CASE Waits(q)
    BY <1>0, <2>1, <2>2, <2>3, <2>5 DEF CallInv, Waits, Fresh, Owns, Told
  <2> QED
    BY <2>4, <2>5
<1>4. CASE Connected
  <2>1. /\ UNCHANGED <<at, kind, id, fut, evfut, pendR, pendE>> /\ Tell
    BY <1>4 DEF Connected
  <2>2. /\ queues' = {}
        /\ Owns(q, queues) => Told(q)'
        /\ ~Owns(q, queues) => queue'[q] = queue[q]
    BY <1>0, <2>1, TellFacts DEF Told
  <2> QED
    BY <1>0, <2>1, <2>2 DEF CallInv, Waits, Fresh, Owns, Told
<1>5. CASE Read
  <2> DEFINE m == Head(inbox)
             mine == Waits(q) /\ id[q] = m.id
  <2>1. /\ fut'[q] = IF m.type = "result" /\ m.id \in pendR /\ mine /\ fut[q] = "none"
                     THEN IF m.ok THEN "ok" ELSE "error" ELSE fut[q]
        /\ pendR' = IF m.type = "result" THEN pendR \ {m.id} ELSE pendR
        /\ queue'[q] = IF m.type = "event" /\ m.id \in queues /\ mine
                       THEN Append(queue[q], "event") ELSE queue[q]
        /\ evfut'[q] = IF m.type = "event" /\ m.id \notin queues /\ m.id \in pendE /\ mine
                          /\ evfut[q] = "none"
                       THEN "ok" ELSE evfut[q]
        /\ pendE' = IF m.type = "event" /\ m.id \notin queues THEN pendE \ {m.id} ELSE pendE
        /\ UNCHANGED <<at, kind, id, queues>>
    BY <1>5 DEF Read
  <2>2. Told(q) => Told(q)'
    <3>1. queue[q] \in Seq({Sentinel, "event"})
      BY <1>0 DEF TypeOK
    <3>2. \A k \in DOMAIN queue[q] : k \in DOMAIN queue'[q] /\ queue'[q][k] = queue[q][k]
      <4>1. CASE queue'[q] = queue[q]
        BY <4>1
      <4>2. CASE queue'[q] = Append(queue[q], "event")
        BY <3>1, <4>2, AppendFacts
      <4> QED
        BY <2>1, <4>1, <4>2
    <3> QED
      BY <3>2 DEF Told
  <2> HIDE DEF m
  <2>3. CASE ~Waits(q)
    BY <1>0, <2>1, <2>3 DEF CallInv, Waits, Fresh
  <2>4. CASE Waits(q)
    <3>1. fut'[q] = "none" <=> id[q] \in pendR'
      BY <1>0, <2>1, <2>4 DEF CallInv
    <3>2. kind[q] = "oneshot" /\ evfut'[q] = "none" <=> id[q] \in pendE'
      BY <1>0, <2>1, <2>4 DEF CallInv
    <3>3. queue'[q] # <<>> => kind[q] = "wait"
      BY <1>0, <2>1, <2>4 DEF CallInv
    <3>4. at[q] = "event" => fut'[q] = "ok" /\ kind[q] # "command"
      BY <1>0, <2>1 DEF CallInv
    <3> QED
      BY <1>0, <2>1, <2>2, <2>4, <3>1, <3>2, <3>3, <3>4 DEF CallInv, Waits, Fresh
  <2> QED
    BY <2>3, <2>4
<1>6. ASSUME NEW r \in Req, Gate(r) \/ Proceed(r) PROVE CallInv(q)'
  BY <1>0, <1>6 DEF Gate, Proceed, CallInv, Fresh, Waits, Told, TypeOK
<1>7. ASSUME NEW r \in Req, Refused(r) PROVE CallInv(q)'
  BY <1>0, <1>7, SMTT(30) DEF Refused, Unavailable, GateCancel, Release, CallInv, Fresh, Waits, Told, TypeOK
<1>8. ASSUME NEW r \in Req, TakeOther(r) PROVE CallInv(q)'
  <2>1. CASE q = r
    <3>1. /\ at[q] = "event" /\ queue[q] # <<>> /\ Head(queue[q]) = "event"
          /\ queue'[q] = Tail(queue[q]) /\ queue[q] \in Seq({Sentinel, "event"})
          /\ UNCHANGED <<tables, at, kind, id, fut, evfut>>
      BY <1>0, <1>8, <2>1 DEF TakeOther, TypeOK
    <3>2. Told(q) => Told(q)'
      <4>1. ASSUME NEW k \in DOMAIN queue[q], queue[q][k] = Sentinel
            PROVE  \E j \in DOMAIN Tail(queue[q]) : Tail(queue[q])[j] = Sentinel
        <5>1. k # 1
          BY <3>1, <4>1, TailFacts DEF Sentinel
        <5> QED
          BY <3>1, <4>1, <5>1, TailFacts
      <4> QED
        BY <3>1, <4>1 DEF Told
    <3> QED
      BY <1>0, <3>1, <3>2 DEF CallInv, Waits, Fresh
  <2>2. CASE q # r
    BY <1>0, <1>2, <1>8, <2>2 DEF TakeOther
  <2> QED
    BY <2>1, <2>2
<1>9. ASSUME NEW r \in Req, Send(r) PROVE CallInv(q)'
  <2>1. CASE q = r
    <3>1. nextId \notin pendR \cup pendE \cup queues
      BY <1>0 DEF IdInv
    <3>2. /\ fut[q] = "none" /\ evfut[q] = "none" /\ queue[q] = <<>>
      BY <1>0, <1>9, <2>1 DEF Send, CallInv, Fresh
    <3>3. /\ at'[q] = "result" /\ id'[q] = nextId /\ UNCHANGED <<kind, fut, evfut, queue>>
          /\ pendR' = pendR \cup {nextId}
          /\ pendE' = IF kind[q] = "oneshot" THEN pendE \cup {nextId} ELSE pendE
          /\ queues' = IF kind[q] = "wait" THEN queues \cup {nextId} ELSE queues
      BY <1>0, <1>9, <2>1 DEF Send, Register, TypeOK
    <3> QED
      BY <3>1, <3>2, <3>3 DEF CallInv, Waits, Fresh
  <2>2. CASE q # r
    BY <1>0, <1>2, <1>9, <2>2 DEF Send, Register, TypeOK
  <2> QED
    BY <2>1, <2>2
<1>10. ASSUME NEW r \in Req, Aborts(r) PROVE CallInv(q)'
  <2>a. Abort(r)
    BY <1>10, AbortFacts
  <2>1. CASE q = r
    BY <1>0, <2>a, <2>1 DEF Abort, CallInv, Fresh, Waits, TypeOK
  <2>2. CASE q # r
    BY <1>0, <1>2, <2>a, <2>2 DEF Abort, TypeOK
  <2> QED
    BY <2>1, <2>2
<1>11. ASSUME NEW r \in Req, Ends(r) PROVE CallInv(q)'
  <2>1. Leave(r)
    BY <1>11, LeaveFacts
  <2>2. CASE q = r
    BY <1>0, <2>1, <2>2 DEF Leave, CallInv, Fresh, Waits, TypeOK
  <2>3. CASE q # r
    <3>1. id[q] # id[r]
      BY <1>0, <2>1, <2>3, OthersApart DEF Leave, Asked
    <3>2. /\ at'[q] = at[q] /\ kind'[q] = kind[q] /\ id'[q] = id[q]
          /\ fut'[q] = fut[q] /\ evfut'[q] = evfut[q] /\ queue'[q] = queue[q]
      BY <1>0, <2>1, <2>3 DEF Leave, TypeOK
    <3>3. /\ id[q] \in pendR' <=> id[q] \in pendR
          /\ id[q] \in pendE' <=> id[q] \in pendE
          /\ id[q] \in queues' <=> id[q] \in queues
      BY <2>1, <3>1 DEF Leave
    <3> QED
      BY <1>2, <2>3, <3>2, <3>3
  <2> QED
    BY <2>2, <2>3
<1>12. CASE Stop \/ Connect \/ Hello \/ Authenticated \/ Confirmed
  BY <1>1, <1>12 DEF Stop, Connect, Hello, Authenticated, Confirmed
<1>13. CASE HaAuthenticates \/ HaRejects \/ HaAnswers \/ HaEmits \/ Lose
  BY <1>1, <1>13 DEF HaAuthenticates, HaRejects, HaAnswers, HaEmits, Lose
<1>14. CASE UNCHANGED vars
  BY <1>1, <1>14 DEF vars
<1> QED
  BY <1>3, <1>4, <1>5, <1>6, <1>7, <1>8, <1>9, <1>10, <1>11, <1>12, <1>13, <1>14, NextCases


-------------------------------------------------------------------------------
(* Who moves: every other call stays where it is.                            *)
LEMMA CallMoves ==
  ASSUME IInv, [Next]_vars, NEW q \in Req
  PROVE  /\ kind' = kind /\ cut \subseteq cut'
         /\ \/ at'[q] = at[q] /\ id'[q] = id[q]
            \/ Gate(q) \/ Refused(q) \/ Send(q) \/ Aborts(q) \/ Proceed(q) \/ Ends(q)
<1> DEFINE P == /\ kind' = kind /\ cut \subseteq cut'
                /\ \/ at'[q] = at[q] /\ id'[q] = id[q]
                   \/ Gate(q) \/ Refused(q) \/ Send(q) \/ Aborts(q) \/ Proceed(q) \/ Ends(q)
<1>0. TypeOK
  BY DEF IInv
<1>1. CASE UNCHANGED <<kind, cut, at, id>>
  BY <1>1
<1>2. CASE Hangup
  BY <1>1, <1>2, HangupFacts DEF DropConnection
<1>3. CASE Stop \/ Connect \/ Hello \/ Authenticated \/ Confirmed \/ Connected \/ Read
  BY <1>1, <1>3 DEF Stop, Connect, Hello, Authenticated, Confirmed, Connected, Read, callVars
<1>4. ASSUME NEW r \in Req, Gate(r) \/ Refused(r) \/ Send(r) \/ Aborts(r) \/ Proceed(r)
                            \/ TakeOther(r)
      PROVE  P
  <2>a. Aborts(r) => Abort(r)
    BY AbortFacts
  <2> USE DEF Gate, Refused, Unavailable, GateCancel, Send, Register, Abort, Proceed, TakeOther,
              Release
  <2>1. CASE q # r
    BY <1>0, <1>4, <2>a, <2>1 DEF TypeOK
  <2>2. CASE q = r
    BY <1>0, <1>4, <2>a, <2>2
  <2> QED
    BY <2>1, <2>2
<1>5. ASSUME NEW r \in Req, Ends(r) PROVE P
  <2>1. Leave(r)
    BY <1>5, LeaveFacts
  <2> QED
    BY <1>0, <1>5, <2>1 DEF Leave, TypeOK
<1>6. CASE HaAuthenticates \/ HaRejects \/ HaAnswers \/ HaEmits \/ Lose
  BY <1>1, <1>6 DEF HaAuthenticates, HaRejects, HaAnswers, HaEmits, Lose, callVars
<1>7. CASE UNCHANGED vars
  BY <1>1, <1>7 DEF vars, callVars
<1> QED
  BY <1>2, <1>3, <1>4, <1>5, <1>6, <1>7, NextCases

(* The frames that go out concern a call only if it is the one that ends.    *)
News(q) ==
  \A i \in DOMAIN wire' :
    \/ \E j \in DOMAIN wire : wire'[i] = wire[j]
    \/ wire'[i].id # id[q] /\ (wire'[i].type = "unsubscribe" => wire'[i].sub # id[q])

LEMMA NewsFacts ==
  ASSUME IInv, [Next]_vars, NEW q \in Req, id[q] # 0, ~Ends(q)
  PROVE  News(q)
<1>0. TypeOK /\ IdInv /\ nextId \in Nat /\ wire \in Seq(Frames) /\ id[q] # nextId
  <2>1. TypeOK /\ IdInv
    BY DEF IInv
  <2>2. id[q] \in Nat /\ nextId \in Nat /\ id[q] < nextId /\ wire \in Seq(Frames)
    BY <2>1 DEF TypeOK, IdInv
  <2> QED
    BY <2>1, <2>2
<1>1. CASE wire' = <<>>
  <2>1. DOMAIN wire' = {}
    BY <1>1
  <2> QED
    BY <2>1 DEF News
<1>2. CASE wire' = wire
  BY <1>2 DEF News
<1>3. ASSUME NEW f, Sent(f), f.id # id[q], f.type = "unsubscribe" => f.sub # id[q]
      PROVE  News(q)
  BY <1>3 DEF News, Sent
<1>4. \A type, n, sub : /\ Frame(type, n, sub).type = type /\ Frame(type, n, sub).id = n
                        /\ Frame(type, n, sub).sub = sub
  BY DEF Frame
<1>5. CASE Hangup \/ Stop \/ HaRejects \/ Lose
  BY <1>1, <1>5, HangupFacts DEF DropConnection, Stop, HaRejects, Lose
<1>6. CASE Connect \/ Confirmed \/ Connected \/ Read \/ HaEmits \/ UNCHANGED vars
  BY <1>2, <1>6 DEF Connect, Confirmed, Connected, Read, HaEmits, vars, haVars
<1>7. ASSUME NEW r \in Req, Gate(r) \/ Refused(r) \/ Proceed(r) \/ TakeOther(r)
      PROVE  News(q)
  BY <1>2, <1>7 DEF Gate, Refused, Unavailable, GateCancel, Proceed, TakeOther, haVars
<1>8. CASE Hello
  <2>1. Sent(Frame("auth", 0, 0))
    BY <1>8, SentFacts
  <2> QED
    BY <1>3, <1>4, <2>1
<1>9. CASE Authenticated
  <2>1. Sent(Frame("subscribe", nextId, 0))
    BY <1>9, SentFacts
  <2> QED
    BY <1>0, <1>3, <1>4, <2>1
<1>10. ASSUME NEW r \in Req, Send(r) \/ Aborts(r) PROVE News(q)
  <2>1. wire' = wire \/ Sent(Request(r))
    BY <1>10, SentFacts, AbortFacts
  <2>2. Request(r).id # id[q] /\ Request(r).type # "unsubscribe"
    BY <1>0, RequestFacts
  <2> QED
    BY <1>2, <1>3, <2>1, <2>2
<1>11. ASSUME NEW r \in Req, Ends(r) PROVE News(q)
  <2>1. wire' = wire \/ Sent(Frame("unsubscribe", nextId, id[r]))
    BY <1>11, LeaveFacts, SentFacts
  <2>2. id[r] # id[q]
    BY <1>0, <1>11 DEF IdInv
  <2> QED
    BY <1>0, <1>2, <1>3, <1>4, <2>1, <2>2
<1>12. CASE HaAuthenticates
  BY <1>0, <1>12, TailFacts DEF HaAuthenticates, News
<1>13. CASE HaAnswers
  BY <1>0, <1>13, AnswerFacts DEF Took, News
<1> QED
  BY <1>5, <1>6, <1>7, <1>8, <1>9, <1>10, <1>11, <1>12, <1>13, NextCases

(* Home Assistant only gets a subscription from a frame.                     *)
LEMMA SubsGrow ==
  ASSUME IInv, [Next]_vars
  PROVE  \A n \in haSubs' : n \in haSubs \/ \E i \in DOMAIN wire : wire[i].type = "subscribe" /\ wire[i].id = n
<1>0. TypeOK
  BY DEF IInv
<1>1. CASE haSubs' \subseteq haSubs
  BY <1>1
<1>2. CASE Hangup
  BY <1>1, <1>2, HangupFacts DEF DropConnection
<1>3. CASE Stop \/ Connect \/ Hello \/ Authenticated \/ Confirmed \/ Connected \/ Read
  BY <1>1, <1>3 DEF Stop, Connect, Hello, Authenticated, Confirmed, Connected, Read, haVars
<1>4. ASSUME NEW r \in Req, Gate(r) \/ Refused(r) \/ Send(r) \/ Aborts(r) \/ Proceed(r)
                            \/ TakeOther(r)
      PROVE  haSubs' = haSubs
  BY <1>4, AbortFacts DEF Gate, Refused, Unavailable, GateCancel, Send, Abort, Proceed, TakeOther,
                          haVars
<1>5. ASSUME NEW r \in Req, Ends(r) PROVE haSubs' = haSubs
  BY <1>5, LeaveFacts DEF Leave
<1>6. CASE HaAuthenticates \/ HaRejects \/ HaEmits \/ Lose
  BY <1>1, <1>6 DEF HaAuthenticates, HaRejects, HaEmits, Lose
<1>7. CASE HaAnswers
  BY <1>0, <1>7, AnswerFacts DEF Took
<1>8. CASE UNCHANGED vars
  BY <1>1, <1>8 DEF vars, haVars
<1> QED
  BY <1>1, <1>2, <1>3, <1>4, <1>5, <1>6, <1>7, <1>8, NextCases

LEMMA SubKept ==
  ASSUME IInv, TypeOK', [Next]_vars, NEW q \in Req
  PROVE  SubInv(q)'
<1>0. TypeOK /\ IdInv /\ SubInv(q) /\ id[q] \in Nat /\ nextId \in Nat
  <2>1. TypeOK /\ IdInv /\ SubInv(q)
    BY DEF IInv
  <2> QED
    BY <2>1 DEF TypeOK
<1>1. CASE Waits(q) /\ at'[q] \in {"result", "event"} /\ id'[q] = id[q] /\ ~Ends(q)
  <2>1. News(q) /\ kind' = kind
    BY <1>0, <1>1, NewsFacts, CallMoves DEF IdInv, Asked
  <2>2. kind[q] = "command" => id[q] \notin haSubs'
    BY <1>0, <1>1, SubsGrow DEF SubInv
  <2>3. ASSUME NEW i \in DOMAIN wire'
        PROVE  /\ ~(wire'[i].type = "unsubscribe" /\ wire'[i].sub = id[q])
               /\ wire'[i].id = id[q] => (wire'[i].type = "subscribe" <=> kind[q] # "command")
    BY <1>0, <1>1, <2>1, <2>3 DEF News, SubInv, Unsubscribes
  <2> QED
    BY <1>1, <2>1, <2>2, <2>3 DEF SubInv, Unsubscribes, Waits
<1>2. CASE ~Waits(q)'
  BY <1>2 DEF SubInv
<1>3. CASE Send(q)
  <2>1. Sent(Request(q))
    BY <1>3, SentFacts
  <2>2. id'[q] = nextId /\ kind' = kind /\ haSubs' = haSubs
    BY <1>0, <1>3 DEF Send, Register, TypeOK
  <2>3. /\ \A i \in DOMAIN wire : wire[i].id # nextId /\ wire[i].sub # nextId
        /\ nextId # 0 /\ nextId \notin haSubs
    <3>1. \A n \in haSubs : n \in Nat
      BY <1>0 DEF TypeOK
    <3> QED
      BY <1>0, <3>1, WireTyped DEF IdInv
  <2>5. ASSUME NEW i \in DOMAIN wire'
        PROVE  /\ ~(wire'[i].type = "unsubscribe" /\ wire'[i].sub = nextId)
               /\ wire'[i].id = nextId => (wire'[i].type = "subscribe" <=> kind[q] # "command")
    <3>1. CASE i \in DOMAIN wire
      BY <2>1, <2>3, <3>1 DEF Sent
    <3>2. CASE i \notin DOMAIN wire
      <4>1. wire'[i] = Request(q)
        BY <2>1, <3>2 DEF Sent
      <4> QED
        BY <1>0, <4>1, RequestFacts
    <3> QED
      BY <3>1, <3>2
  <2> QED
    BY <2>2, <2>3, <2>5 DEF SubInv, Unsubscribes
<1>4. CASE Ends(q)
  <2>1. Leave(q)
    BY <1>4, LeaveFacts
  <2> QED
    BY <1>0, <1>2, <2>1 DEF Leave, Waits, TypeOK
<1>5. CASE Gate(q) \/ Refused(q) \/ Aborts(q)
  BY <1>0, <1>2, <1>5, AbortFacts DEF Gate, Refused, Unavailable, GateCancel, Abort, Release, Waits,
                                      TypeOK
<1>6. CASE Proceed(q)
  BY <1>0, <1>1, <1>4, <1>6 DEF Proceed, Waits, TypeOK
<1>7. CASE at'[q] = at[q] /\ id'[q] = id[q]
  BY <1>1, <1>2, <1>4, <1>7 DEF Waits
<1> QED
  BY <1>3, <1>4, <1>5, <1>6, <1>7, CallMoves


-------------------------------------------------------------------------------
LEMMA LiveKept ==
  ASSUME IInv, TypeOK', [Next]_vars, NEW q \in Req
  PROVE  LiveInv(q)'
<1>0. /\ TypeOK /\ IdInv /\ TaskInv /\ CallInv(q) /\ SubInv(q) /\ LiveInv(q)
      /\ id[q] \in Nat /\ nextId \in Nat /\ id[q] # nextId /\ inbox \in Seq(Messages)
  <2>1. TypeOK /\ IdInv /\ TaskInv /\ CallInv(q) /\ SubInv(q) /\ LiveInv(q)
    BY DEF IInv
  <2>2. id[q] \in Nat /\ nextId \in Nat /\ id[q] < nextId /\ inbox \in Seq(Messages)
    BY <2>1 DEF TypeOK, IdInv
  <2> QED
    BY <2>1, <2>2
<1>1. CASE link' # "up" \/ queues' = {} \/ ~Waits(q)'
  BY <1>1 DEF LiveInv
<1> DEFINE Old == \A k \in DOMAIN inbox' :
                    \/ \E j \in DOMAIN inbox : inbox'[k] = inbox[j]
                    \/ inbox'[k].type # "result"
<1>2. ASSUME Waits(q)' => Waits(q) /\ id'[q] = id[q] /\ fut'[q] = fut[q],
             Waits(q)' /\ id[q] \in queues' => id[q] \in queues,
             link' = link, haSubs' = haSubs, Old
      PROVE  LiveInv(q)'
  BY <1>0, <1>2 DEF LiveInv
<1>3. inbox # <<>> /\ inbox' = Tail(inbox) => Old
  BY <1>0, TailFacts
<1>4. inbox' = inbox => Old
  OBVIOUS
<1> HIDE DEF Old
<1> USE DEF taskVars, tables, callVars, haVars, bounds
<1>5. CASE Hangup
  BY <1>1, <1>5, HangupFacts DEF DropConnection
<1>6. CASE Stop \/ HaRejects \/ Lose \/ Connected
  BY <1>1, <1>6 DEF Stop, HaRejects, Lose, Connected, Tell
<1>7. CASE Connect
  BY <1>0, <1>1, <1>7 DEF Connect, TaskInv
<1>8. CASE Hello \/ Authenticated \/ Confirmed
  BY <1>2, <1>3, <1>8 DEF Hello, Authenticated, Confirmed, Waits
<1>9. CASE Read
  <2>1. /\ inbox # <<>> /\ inbox' = Tail(inbox)
        /\ UNCHANGED <<queues, link, haSubs, id, at>>
    BY <1>9 DEF Read
  <2>2. CASE fut'[q] = fut[q]
    BY <1>2, <1>3, <2>1, <2>2 DEF Waits
  <2>3. CASE fut'[q] # fut[q]
    <3>1. 1 \in DOMAIN inbox /\ inbox[1] = Head(inbox)
      BY <1>0, <2>1, TailFacts
    <3>2. fut'[q] = "ok" => /\ Waits(q) /\ Head(inbox).type = "result" /\ Head(inbox).id = id[q]
                            /\ Head(inbox).ok
      BY <1>9, <2>3 DEF Read
    <3>3. fut'[q] # "ok" => Old
      BY <1>3, <2>1
    <3>4. CASE fut'[q] = "ok"
      <4>1. id[q] \in queues /\ link = "up" => id[q] \in haSubs
        BY <1>0, <3>1, <3>2, <3>4 DEF LiveInv
      <4> QED
        BY <2>1, <4>1 DEF LiveInv
    <3>5. CASE fut'[q] # "ok"
      BY <1>0, <2>1, <3>3, <3>5 DEF LiveInv, Waits, Old
    <3> QED
      BY <3>4, <3>5
  <2> QED
    BY <2>2, <2>3
<1>10. ASSUME NEW r \in Req, Gate(r) \/ Refused(r) \/ Proceed(r) \/ TakeOther(r)
       PROVE  LiveInv(q)'
  <2> USE DEF Gate, Refused, Unavailable, GateCancel, Proceed, TakeOther
  <2>1. UNCHANGED <<link, haSubs, inbox, queues>>
    BY <1>10
  <2>2. Waits(q)' => Waits(q) /\ id'[q] = id[q] /\ fut'[q] = fut[q]
    <3>1. CASE q = r
      BY <1>0, <1>10, <3>1 DEF Release, Waits, TypeOK
    <3>2. CASE q # r
      BY <1>0, <1>10, <3>2 DEF Release, Waits, TypeOK
    <3> QED
      BY <3>1, <3>2
  <2> QED
    BY <1>2, <1>4, <2>1, <2>2
<1>16. ASSUME NEW r \in Req, Aborts(r) PROVE LiveInv(q)'
  <2>1. Abort(r)
    BY <1>16, AbortFacts
  <2>2. CASE q = r
    BY <1>0, <1>1, <2>1, <2>2 DEF Abort, Waits, TypeOK
  <2>3. CASE q # r
    <3>1. /\ at'[q] = at[q] /\ id'[q] = id[q] /\ fut'[q] = fut[q]
          /\ queues' \subseteq queues \cup {nextId} /\ UNCHANGED <<link, haSubs, inbox>>
      BY <1>0, <2>1, <2>3 DEF Abort, TypeOK
    <3> QED
      BY <1>0, <1>2, <1>4, <3>1 DEF Waits
  <2> QED
    BY <2>2, <2>3
<1>11. ASSUME NEW r \in Req, Send(r) PROVE LiveInv(q)'
  <2>1. UNCHANGED <<link, haSubs, inbox>>
    BY <1>11 DEF Send
  <2>2. CASE q # r
    <3>1. at'[q] = at[q] /\ id'[q] = id[q] /\ fut' = fut /\ queues' \subseteq queues \cup {nextId}
      BY <1>0, <1>11, <2>2 DEF Send, Register, TypeOK
    <3> QED
      BY <1>0, <1>2, <1>4, <2>1, <3>1 DEF Waits
  <2>3. CASE q = r
    <3>1. id'[q] = nextId /\ fut' = fut /\ fut[q] = "none"
      BY <1>0, <1>11, <2>3 DEF Send, Register, TypeOK, CallInv, Fresh
    <3>2. \A k \in DOMAIN inbox : inbox[k].id # nextId
      BY <1>0, WireTyped DEF IdInv
    <3> QED
      BY <2>1, <3>1, <3>2 DEF LiveInv
  <2> QED
    BY <2>2, <2>3
<1>12. ASSUME NEW r \in Req, Ends(r) PROVE LiveInv(q)'
  <2>1. Leave(r)
    BY <1>12, LeaveFacts
  <2>2. CASE q = r
    BY <1>0, <1>1, <2>1, <2>2 DEF Leave, Waits, TypeOK
  <2>3. CASE q # r
    <3>1. /\ at'[q] = at[q] /\ id'[q] = id[q] /\ fut'[q] = fut[q] /\ queues' \subseteq queues
          /\ UNCHANGED <<link, haSubs, inbox>>
      BY <1>0, <2>1, <2>3 DEF Leave, TypeOK
    <3> QED
      BY <1>2, <1>4, <3>1 DEF Waits
  <2> QED
    BY <2>2, <2>3
<1>13. CASE HaAuthenticates \/ HaEmits
  <2>1. Old
    BY <1>0, <1>13, InboxFacts DEF Old
  <2> QED
    BY <1>2, <1>13, <2>1 DEF HaAuthenticates, HaEmits, Waits
<1>14. CASE HaAnswers
  <2>1. PICK i \in DOMAIN wire, ok \in BOOLEAN : Took(i, ok)
    BY <1>0, <1>14, AnswerFacts
  <2>2. /\ UNCHANGED <<at, id, fut, queues, link>>
        /\ \A k \in DOMAIN inbox' : \/ k \in DOMAIN inbox /\ inbox'[k] = inbox[k]
                                    \/ inbox'[k] = Message("result", wire[i].id, ok)
    BY <2>1 DEF Took
  <2>3. SUFFICES ASSUME Waits(q), id[q] \in queues, link = "up",
                        \/ fut[q] = "ok"
                        \/ \E k \in DOMAIN inbox' :
                             inbox'[k].type = "result" /\ inbox'[k].id = id[q] /\ inbox'[k].ok
                 PROVE  id[q] \in haSubs'
    BY <2>2 DEF LiveInv, Waits
  <2>4. kind[q] = "wait"
    BY <1>0, <2>3 DEF CallInv
  <2>5. CASE wire[i].id = id[q] /\ ok
    <3>1. wire[i].type = "subscribe"
      BY <1>0, <2>3, <2>4, <2>5 DEF SubInv
    <3> QED
      BY <2>1, <2>5, <3>1 DEF Took
  <2>6. CASE ~(wire[i].id = id[q] /\ ok)
    <3>1. /\ Message("result", wire[i].id, ok).id = wire[i].id
          /\ Message("result", wire[i].id, ok).ok = ok
      BY DEF Message
    <3>2. id[q] \in haSubs
      BY <1>0, <2>2, <2>3, <2>6, <3>1 DEF LiveInv
    <3>3. wire[i].type = "unsubscribe" => wire[i].sub # id[q]
      BY <1>0, <2>3 DEF SubInv, Unsubscribes
    <3> QED
      BY <2>1, <3>2, <3>3 DEF Took
  <2> QED
    BY <2>5, <2>6
<1>15. CASE UNCHANGED vars
  BY <1>2, <1>4, <1>15 DEF vars, Waits
<1> QED
  BY <1>5, <1>6, <1>7, <1>8, <1>9, <1>10, <1>11, <1>12, <1>13, <1>14, <1>15,
     <1>16, NextCases


-------------------------------------------------------------------------------
LEMMA TablesGrow ==
  ASSUME IInv, [Next]_vars
  PROVE  pendR' \cup pendE' \cup queues' \subseteq pendR \cup pendE \cup queues \cup {nextId}
<1> USE DEF tables
<1>1. CASE UNCHANGED tables
  BY <1>1
<1>2. CASE Hangup \/ Connected
  BY <1>2, HangupFacts DEF DropConnection, FailPending, Connected, Tell
<1>3. CASE Stop \/ Connect \/ Hello \/ Authenticated \/ Confirmed
  BY <1>1, <1>3 DEF Stop, Connect, Hello, Authenticated, Confirmed
<1>4. CASE Read
  <2>1. pendR' \subseteq pendR /\ pendE' \subseteq pendE /\ queues' = queues
    BY <1>4 DEF Read
  <2> QED
    BY <2>1
<1>5. ASSUME NEW r \in Req, Gate(r) \/ Refused(r) \/ Proceed(r) \/ TakeOther(r)
      PROVE  UNCHANGED tables
  BY <1>5 DEF Gate, Refused, Unavailable, GateCancel, Proceed, TakeOther
<1>6. ASSUME NEW r \in Req, Send(r) \/ Aborts(r)
      PROVE  /\ pendR' \subseteq pendR \cup {nextId} /\ pendE' \subseteq pendE \cup {nextId}
             /\ queues' \subseteq queues \cup {nextId}
  BY <1>6, AbortFacts DEF Send, Register, Abort
<1>7. ASSUME NEW r \in Req, Ends(r)
      PROVE  pendR' \subseteq pendR /\ pendE' \subseteq pendE /\ queues' \subseteq queues
  BY <1>7, LeaveFacts DEF Leave
<1>8. CASE HaAuthenticates \/ HaRejects \/ HaAnswers \/ HaEmits \/ Lose
  BY <1>1, <1>8 DEF HaAuthenticates, HaRejects, HaAnswers, HaEmits, Lose
<1>9. CASE UNCHANGED vars
  BY <1>1, <1>9 DEF vars
<1> QED
  BY <1>1, <1>2, <1>3, <1>4, <1>5, <1>6, <1>7, <1>8, <1>9, NextCases

(* On a connection that stays up a cancellation stays on its way until Home  *)
(* Assistant takes it.                                                       *)
Remains(i) == \E j \in DOMAIN wire' : wire'[j] = wire[i]

LEMMA CancellationStays ==
  ASSUME IInv, [Next]_vars, link' = "up", ~Connect
  PROVE  /\ link = "up"
         /\ \A i \in DOMAIN wire :
              wire[i].type = "unsubscribe" => Remains(i) \/ \E ok \in BOOLEAN : Took(i, ok)
<1> DEFINE P == /\ link = "up"
                /\ \A i \in DOMAIN wire :
                     wire[i].type = "unsubscribe" => Remains(i) \/ \E ok \in BOOLEAN : Took(i, ok)
<1>0. TypeOK /\ TaskInv /\ wire \in Seq(Frames)
  BY DEF IInv, TypeOK
<1>1. CASE UNCHANGED <<link, wire>>
  BY <1>1 DEF Remains
<1>2. ASSUME link' = link, NEW f, Sent(f) PROVE P
  BY <1>2 DEF Remains, Sent
<1> USE DEF haVars
<1>3. ~Hangup /\ ~Stop /\ ~HaRejects /\ ~Lose
  BY HangupFacts DEF DropConnection, Stop, HaRejects, Lose
<1>4. CASE Hello \/ Authenticated
  BY <1>2, <1>4, SentFacts DEF Hello, Authenticated
<1>5. CASE Confirmed \/ Connected \/ Read \/ HaEmits \/ UNCHANGED vars
  BY <1>1, <1>5 DEF Confirmed, Connected, Read, HaEmits, vars
<1>6. ASSUME NEW r \in Req, Gate(r) \/ Refused(r) \/ Proceed(r) \/ TakeOther(r)
      PROVE  UNCHANGED <<link, wire>>
  BY <1>6 DEF Gate, Refused, Unavailable, GateCancel, Proceed, TakeOther
<1>7. ASSUME NEW r \in Req, Send(r) \/ Aborts(r) PROVE P
  <2>1. link' = link /\ (wire' = wire \/ Sent(Request(r)))
    BY <1>7, SentFacts, AbortFacts DEF Send, Abort
  <2> QED
    BY <1>1, <1>2, <2>1
<1>8. ASSUME NEW r \in Req, Ends(r) PROVE P
  <2>1. Leave(r)
    BY <1>8, LeaveFacts
  <2>2. link' = link /\ (wire' = wire \/ Sent(Frame("unsubscribe", nextId, id[r])))
    BY <2>1, SentFacts DEF Leave
  <2> QED
    BY <1>1, <1>2, <2>2
<1>9. CASE HaAuthenticates
  <2>1. link' = link /\ wire # <<>> /\ Head(wire).type = "auth" /\ wire' = Tail(wire)
    BY <1>9 DEF HaAuthenticates
  <2>2. /\ wire[1].type = "auth"
        /\ \A i \in DOMAIN wire : i # 1 => i - 1 \in DOMAIN wire' /\ wire'[i - 1] = wire[i]
    BY <1>0, <2>1, TailFacts
  <2> QED
    BY <2>1, <2>2 DEF Remains
<1>10. CASE HaAnswers
  <2>1. PICK i \in DOMAIN wire, ok \in BOOLEAN : Took(i, ok)
    BY <1>0, <1>10, AnswerFacts
  <2>2. link' = link /\ \A k \in DOMAIN wire : k # i => Remains(k)
    BY <2>1 DEF Took, Remains
  <2> QED
    BY <2>1, <2>2
<1> QED
  BY <1>1, <1>3, <1>4, <1>5, <1>6, <1>7, <1>8, <1>9, <1>10, NextCases

(* NothingLeftBehind, for one call.                                          *)
LeftInv(r) ==
  at[r] = "done" /\ link = "up" /\ id[r] # 0 /\ Leaves(r) => r \in cut

LEMMA LeftKept ==
  ASSUME IInv, TypeOK', [Next]_vars, NEW q \in Req
  PROVE  LeftInv(q)'
<1>0. /\ TypeOK /\ IdInv /\ TaskInv /\ OrderInv /\ CallInv(q) /\ LeftInv(q)
      /\ id[q] \in Nat /\ nextId \in Nat /\ id[q] # nextId
  <2>1. TypeOK /\ IdInv /\ TaskInv /\ OrderInv /\ CallInv(q)
    BY DEF IInv
  <2>2. LeftInv(q)
    BY DEF IInv, NothingLeftBehind, LeftInv
  <2>3. id[q] \in Nat /\ nextId \in Nat /\ id[q] < nextId
    BY <2>1 DEF TypeOK, IdInv
  <2> QED
    BY <2>1, <2>2, <2>3
<1>k. kind' = kind /\ cut \subseteq cut'
  BY CallMoves
<1>1. CASE ~(at'[q] = "done" /\ link' = "up" /\ id'[q] # 0)
  BY <1>1 DEF LeftInv
<1>2. CASE at'[q] = at[q] /\ id'[q] = id[q]
  <2> SUFFICES ASSUME at[q] = "done", link' = "up", id[q] # 0, Leaves(q)'
               PROVE  q \in cut
    BY <1>2, <1>k DEF LeftInv
  <2>1. ~Connect
    <3>1. CASE Connect
      <4>1. /\ pendR' = {} /\ pendE' = {} /\ queues' = {} /\ haSubs' = {} /\ wire' = <<>>
        BY <1>0, <3>1 DEF Connect, TaskInv, tables
      <4>2. DOMAIN wire' = {}
        BY <4>1
      <4> QED
        BY <4>1, <4>2 DEF Leaves
    <3> QED
      BY <3>1
  <2>2. ~Ends(q)
    BY LeaveFacts DEF Leave, Waits
  <2>3. News(q)
    BY <2>2, NewsFacts
  <2>4. link = "up"
    BY <2>1, CancellationStays
  <2>5. CASE id[q] \in pendR' \cup pendE' \cup queues'
    <3>1. Leaves(q)
      BY <1>0, <2>5, TablesGrow DEF Leaves
    <3> QED
      BY <1>0, <2>4, <3>1 DEF LeftInv
  <2>6. CASE id[q] \notin pendR' \cup pendE' \cup queues'
    <3>1. /\ \/ id[q] \in haSubs'
             \/ \E i \in DOMAIN wire' : wire'[i].type = "subscribe" /\ wire'[i].id = id[q]
          /\ ~\E i \in DOMAIN wire' : wire'[i].type = "unsubscribe" /\ wire'[i].sub = id[q]
      BY <1>2, <2>6 DEF Leaves
    <3>2. ASSUME NEW i \in DOMAIN wire', wire'[i].type = "subscribe", wire'[i].id = id[q]
          PROVE  \E j \in DOMAIN wire : wire[j].type = "subscribe" /\ wire[j].id = id[q]
      BY <2>3, <3>2 DEF News
    <3>3. \/ id[q] \in haSubs
          \/ \E i \in DOMAIN wire : wire[i].type = "subscribe" /\ wire[i].id = id[q]
      BY <3>1, <3>2, SubsGrow
    <3>4. ASSUME NEW i \in DOMAIN wire, wire[i].type = "unsubscribe", wire[i].sub = id[q]
          PROVE  FALSE
      <4>1. PICK ok \in BOOLEAN : Took(i, ok)
        BY <2>1, <3>1, <3>4, CancellationStays DEF Remains
      <4>2. id[q] \notin haSubs'
        BY <3>4, <4>1 DEF Took
      <4>3. PICK j \in DOMAIN wire' : wire'[j].type = "subscribe" /\ wire'[j].id = id[q]
        BY <3>1, <4>2
      <4>4. PICK k \in DOMAIN wire : wire[k].type = "subscribe" /\ wire[k].id = id[q]
        BY <3>2, <4>3
      <4>5. k < i
        BY <1>0, <3>4, <4>4 DEF OrderInv
      <4>6. wire[k].type = "command"
        BY <4>1, <4>5 DEF Took
      <4> QED
        BY <4>4, <4>6
    <3>5. Leaves(q)
      BY <3>3, <3>4 DEF Leaves
    <3> QED
      BY <1>0, <2>4, <3>5 DEF LeftInv
  <2> QED
    BY <2>5, <2>6
<1>3. CASE Gate(q) \/ Send(q) \/ Proceed(q)
  BY <1>0, <1>1, <1>3 DEF Gate, Send, Proceed, TypeOK
<1>4. CASE Refused(q)
  BY <1>0, <1>1, <1>4 DEF Refused, Unavailable, GateCancel, IdInv, Fresh
<1>5. CASE Aborts(q)
  <2>1. Abort(q)
    BY <1>5, AbortFacts
  <2>2. CASE kind[q] # "command"
    BY <1>1, <2>1, <2>2 DEF Abort, LeftInv
  <2>3. CASE kind[q] = "command"
    <3>1. /\ id'[q] = nextId /\ UNCHANGED <<pendR, pendE, queues, haSubs>>
          /\ wire' = wire \/ Sent(Request(q))
      BY <1>0, <2>1, <2>3, SentFacts DEF Abort, TypeOK, tables
    <3>2. nextId \notin pendR \cup pendE \cup queues \cup haSubs
      BY <1>0 DEF IdInv
    <3>3. \A i \in DOMAIN wire : wire[i].id # nextId
      BY <1>0, WireTyped DEF IdInv
    <3>4. Request(q).type # "subscribe"
      BY <1>0, <2>3, RequestFacts
    <3>5. \A i \in DOMAIN wire' : ~(wire'[i].type = "subscribe" /\ wire'[i].id = nextId)
      BY <3>1, <3>3, <3>4 DEF Sent
    <3> QED
      BY <3>1, <3>2, <3>5 DEF LeftInv, Leaves
  <2> QED
    BY <2>2, <2>3
<1>6. CASE Ends(q)
  <2>1. Leave(q) /\ link' = link /\ haSubs' = haSubs /\ id' = id
    BY <1>6, LeaveFacts DEF Leave
  <2>2. at'[q] = "done" /\ link = "up" => Cleared(q) \/ q \in cut'
    BY <2>1 DEF Leave
  <2>3. Cleared(q) => ~Leaves(q)'
    BY <2>1 DEF Cleared, Leaves, Subscribes, Unsubscribes
  <2> QED
    BY <1>k, <2>1, <2>2, <2>3 DEF LeftInv
<1> QED
  BY <1>2, <1>3, <1>4, <1>5, <1>6, CallMoves

LEMMA LeavingKept ==
  ASSUME IInv, TypeOK', [Next]_vars, NEW q \in Req
  PROVE  LeavingInv(q)'
<1>0. TypeOK /\ LeavingInv(q) /\ id[q] \in Nat /\ nextId \in Nat /\ id[q] # nextId
  <2>1. TypeOK /\ IdInv /\ LeavingInv(q)
    BY DEF IInv
  <2>2. id[q] \in Nat /\ nextId \in Nat /\ id[q] < nextId
    BY <2>1 DEF TypeOK, IdInv
  <2> QED
    BY <2>1, <2>2
<1>1. CASE at'[q] = at[q] /\ id'[q] = id[q]
  BY <1>0, <1>1, TablesGrow, CallMoves DEF LeavingInv
<1>2. CASE Gate(q) \/ Refused(q) \/ Send(q) \/ Aborts(q) \/ Proceed(q)
  <2>1. at'[q] # "leaving"
    <3>1. CASE Aborts(q)
      BY <1>0, <3>1, AbortFacts DEF Abort, TypeOK
    <3>2. CASE Gate(q) \/ Refused(q)
      BY <1>0, <3>2 DEF Gate, Refused, Unavailable, GateCancel, Release, TypeOK
    <3>3. CASE Send(q) \/ Proceed(q)
      BY <1>0, <3>3 DEF Send, Proceed, TypeOK
    <3> QED BY <1>2, <3>1, <3>2, <3>3
  <2> QED
    BY <2>1 DEF LeavingInv
<1>3. CASE Ends(q)
  BY <1>3, LeaveFacts DEF Leave, LeavingInv
<1> QED
  BY <1>1, <1>2, <1>3, CallMoves


-------------------------------------------------------------------------------
LEMMA InitHolds == Init => IInv
<1> SUFFICES ASSUME Init PROVE IInv
  OBVIOUS
<1> USE DEF Init
<1>1. <<>> \in Seq(Frames) /\ <<>> \in Seq(Messages) /\ <<>> \in Seq({Sentinel, "event"})
  OBVIOUS
<1>2. DOMAIN wire = {} /\ DOMAIN inbox = {}
  <2>1. DOMAIN <<>> = {}
    OBVIOUS
  <2> QED
    BY <2>1
<1>3. 0 \in 0 .. MaxConn /\ 0 \in 0 .. MaxEvents
  BY HaWebSocketAssumption
<1>4. TypeOK
  BY <1>1, <1>3 DEF TypeOK, Futures
<1>5. TaskInv
  BY DEF TaskInv
<1>6. IdInv
  BY <1>2 DEF IdInv, Fresh, Waits, Asked
<1>7. OrderInv
  BY <1>2 DEF OrderInv
<1>8. ASSUME NEW r \in Req PROVE CallInv(r) /\ SubInv(r) /\ LiveInv(r) /\ LeavingInv(r)
  BY DEF CallInv, SubInv, LiveInv, LeavingInv, Fresh, Waits
<1>9. NothingLeftBehind
  BY DEF NothingLeftBehind
<1> QED
  BY <1>4, <1>5, <1>6, <1>7, <1>8, <1>9 DEF IInv

LEMMA NextKeeps == IInv /\ [Next]_vars => IInv'
<1> SUFFICES ASSUME IInv, [Next]_vars PROVE IInv'
  OBVIOUS
<1>1. TypeOK'
  BY TypeStep
<1>2. TaskInv' /\ IdInv' /\ OrderInv'
  BY <1>1, TaskStep, IdStep, OrderStep
<1>3. \A r \in Req : CallInv(r)' /\ SubInv(r)' /\ LiveInv(r)' /\ LeavingInv(r)'
  BY <1>1, CallKept, SubKept, LiveKept, LeavingKept
<1>4. \A r \in Req : LeftInv(r)'
  BY <1>1, LeftKept
<1>5. NothingLeftBehind'
  BY <1>4 DEF NothingLeftBehind, LeftInv
<1> QED
  BY <1>1, <1>2, <1>3, <1>5 DEF IInv

(* The invariant the theorems below are read off: tables, futures, frames    *)
(* and Home Assistant's subscriptions agree, call by call (ha.py 601-810,    *)
(* 1154-1175).                                                               *)
THEOREM Inductive == Spec => []IInv
  BY InitHolds, NextKeeps, PTL DEF Spec

(* Every variable of the client keeps its type.                              *)
THEOREM TypeCorrect == Spec => []TypeOK
<1>1. IInv => TypeOK
  BY DEF IInv
<1> QED
  BY <1>1, Inductive, PTL

(* However many calls, connections and drops: whoever waits has its future   *)
(* in the table or resolved, and its queue registered or told (ha.py         *)
(* 417-421, 1154-1175).                                                      *)
THEOREM NobodyIsForgotten == Spec => []NobodyForgotten
<1>1. IInv => NobodyForgotten
  <2>1. SUFFICES ASSUME IInv, NEW r \in Req
                 PROVE  /\ at[r] = "result" => fut[r] # "none" \/ id[r] \in pendR
                        /\ at[r] = "event" /\ kind[r] = "oneshot"
                             => evfut[r] # "none" \/ id[r] \in pendE
                        /\ at[r] = "event" /\ kind[r] = "wait" =>
                             id[r] \in queues \/ \E k \in DOMAIN queue[r] : queue[r][k] = Sentinel
    BY DEF NobodyForgotten
  <2>2. CallInv(r)
    BY <2>1 DEF IInv
  <2> QED
    BY <2>2 DEF CallInv, Waits, Told
<1> QED
  BY <1>1, Inductive, PTL

(* No wait sits on the queue of an earlier connection: one that is still     *)
(* registered while the socket is up is subscribed on it (ha.py 417-421).    *)
THEOREM WaitsStayLive == Spec => []WaitsAreLive
<1>1. IInv => WaitsAreLive
  <2>1. SUFFICES ASSUME IInv, NEW r \in Req, at[r] = "event", id[r] \in queues, link = "up"
                 PROVE  id[r] \in haSubs
    BY DEF WaitsAreLive
  <2>2. CallInv(r) /\ LiveInv(r)
    BY <2>1 DEF IInv
  <2> QED
    BY <2>1, <2>2 DEF CallInv, LiveInv, Waits
<1> QED
  BY <1>1, Inductive, PTL

(* In whatever order result, event, timeout, cancellation and reconnection   *)
(* come, a call that returned left nothing behind on a connection that is    *)
(* up, unless it was cut short at one of the awaits where nothing is undone  *)
(* (ha.py 661-663, 686, 697-727, 748-775, 786-801).                          *)
THEOREM NothingIsLeftBehind == Spec => []NothingLeftBehind
<1>1. IInv => NothingLeftBehind
  BY DEF IInv
<1> QED
  BY <1>1, Inductive, PTL

===============================================================================
