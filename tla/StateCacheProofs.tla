---------------------------- MODULE StateCacheProofs ----------------------------
(***************************************************************************)
(* What holds of the state cache for every set of entities and any number  *)
(* of changes and connections.                                             *)
(***************************************************************************)
EXTENDS StateCache, TLAPS

Index == 1 .. Len(stream)

IsLast(k) == \A j \in Index : j > k => stream[j].entity # stream[k].entity

(* What is on its way is in the order of its times, and of before the state  *)
(* HA has now; before the subscription nothing is.                           *)
StreamInv ==
  /\ link = "up" /\ ~subscribed => stream = <<>>
  /\ \A k \in Index : stream[k].time \in Time
  /\ \A j, k \in Index : j < k => stream[j].time < stream[k].time
  /\ \A k \in Index : world[stream[k].entity] # 0 =>
       /\ stream[k].time <= world[stream[k].entity]
       /\ stream[k].gone => stream[k].time < world[stream[k].entity]

(* While nothing was lost, the last event of an entity says how it is.       *)
LastInv ==
  link = "up" => \A k \in Index : IsLast(k) =>
    world[stream[k].entity] = IF stream[k].gone THEN 0 ELSE stream[k].time

(* Cache and snapshot are of the past, and the snapshot of the nearer one.   *)
PastInv ==
  /\ \A e \in Entity : world[e] # 0 => cache[e] <= world[e]
  /\ task = "snapshot" /\ answered => \A e \in Entity :
       /\ world[e] # 0 => answer[e] <= world[e]
       /\ answer[e] # 0 => cache[e] <= answer[e]
       /\ cache[e] # 0 /\ cache[e] = world[e] => answer[e] = cache[e]

(* A view differs from the world only by what the events on their way say,   *)
(* and is not ahead of them.                                                 *)
Explained(view) ==
  /\ \A e \in Entity : OnItsWay(e) \/ view[e] = world[e]
  /\ \A k \in Index : IsLast(k) => view[stream[k].entity] <= stream[k].time

ViewInv ==
  link = "up" /\ ~mistaken =>
    /\ task \in {"snapshot", "read"} => subscribed
    /\ task = "snapshot" /\ answered => Explained(answer)
    /\ task = "read" => Explained(cache)

IInv == TypeOK /\ StreamInv /\ LastInv /\ PastInv /\ ViewInv

-------------------------------------------------------------------------------
(* An event changes one entry, to its own time or to none.                   *)
LEMMA AppliedFacts ==
  ASSUME TypeOK, NEW event \in Events
  PROVE  /\ Applied(event) \in [Entity -> Nat]
         /\ \A e \in Entity : e # event.entity => Applied(event)[e] = cache[e]
         /\ event.time < cache[event.entity] =>
              Applied(event)[event.entity] = cache[event.entity]
         /\ event.time >= cache[event.entity] =>
              Applied(event)[event.entity] = IF event.gone THEN 0 ELSE event.time
  BY DEF TypeOK, Time, Events, Applied, Newer, Removes

(* What Tell does to the events on their way.                                *)
LEMMA TellFacts ==
  ASSUME NEW e \in Entity, NEW gone \in BOOLEAN, now \in Nat, stream \in Seq(Events),
         Tell(e, gone)
  PROVE  /\ stream' \in Seq(Events)
         /\ ~subscribed => stream' = stream
         /\ subscribed =>
              /\ Len(stream') = Len(stream) + 1
              /\ \A k \in 1 .. Len(stream) : stream'[k] = stream[k]
              /\ stream'[Len(stream) + 1] = [entity |-> e, time |-> now + 1, gone |-> gone]
  <1> DEFINE event == [entity |-> e, time |-> now + 1, gone |-> gone]
  <1>1. event \in Events
    BY DEF Events
  <1>2. stream' = IF subscribed THEN Append(stream, event) ELSE stream
    BY DEF Tell
  <1> HIDE DEF event
  <1>3. CASE subscribed
    <2>1. stream' = Append(stream, event)
      BY <1>2, <1>3
    <2>2. Append(stream, event) \in Seq(Events) /\ Len(Append(stream, event)) = Len(stream) + 1
          /\ Append(stream, event)[Len(stream) + 1] = event
          /\ \A k \in 1 .. Len(stream) : Append(stream, event)[k] = stream[k]
      BY <1>1
    <2> QED
      BY <1>3, <2>1, <2>2 DEF event
  <1>4. CASE ~subscribed
    BY <1>2, <1>4
  <1> QED
    BY <1>3, <1>4

(* A map of past times stays one when HA's clock goes on.                    *)
LEMMA TimeGrows ==
  ASSUME NEW n \in Nat, NEW f \in [Entity -> 0 .. n]
  PROVE  f \in [Entity -> 0 .. n + 1]
  <1>1. 0 .. n \subseteq 0 .. n + 1
    OBVIOUS
  <1> QED
    BY <1>1

(* Every step keeps the types; that an entry is not of the future comes from *)
(* StreamInv.                                                                *)
LEMMA TypeStep == TypeOK /\ StreamInv /\ [Next]_vars => TypeOK'
<1> SUFFICES ASSUME TypeOK, StreamInv, [Next]_vars PROVE TypeOK'
  OBVIOUS
<1> USE DEF TypeOK, Time
<1>1. CASE Connect
  <2>1. conn + 1 \in 0 .. MaxConn /\ <<>> \in Seq(Events)
    BY <1>1, StateCacheAssumption DEF Connect
  <2>2. ready = FALSE
    BY <1>1 DEF Connect
  <2> QED
  BY <1>1, <2>1, <2>2, StateCacheAssumption DEF Connect, restVars
<1>2. CASE Confirm \/ Misconfirm
  BY <1>2 DEF Confirm, Misconfirm, haVars
<1>3. CASE Populate
  BY <1>3 DEF Populate, haVars, restVars
<1>4. CASE HandshakeFails
  <2>1. <<>> \in Seq(Events) /\ ready = FALSE
    BY <1>4 DEF HandshakeFails
  <2> QED
  BY <1>4, <2>1 DEF HandshakeFails, restVars
<1>5. CASE Read
  <2>1. 1 \in Index /\ Head(stream) = stream[1] /\ Head(stream) \in Events
    BY <1>5 DEF Read, Index
  <2>2. Head(stream).time \in 0 .. now
    BY <2>1 DEF StreamInv
  <2>3. cache' = Applied(Head(stream)) /\ cache' \in [Entity -> Nat]
    <3>1. Applied(Head(stream)) \in [Entity -> Nat]
      BY <2>1, AppliedFacts
    <3> QED
      BY <1>5, <3>1 DEF Read
  <2>4. \A f \in Entity : cache'[f] \in 0 .. now
    <3> DEFINE event == Head(stream)
    <3>1. \A f \in Entity : f # event.entity => Applied(event)[f] = cache[f]
      BY <2>1, AppliedFacts
    <3>2. Applied(event)[event.entity] \in {cache[event.entity], 0, event.time}
      <4>1. event.entity \in Entity /\ cache[event.entity] \in Nat /\ event.time \in Nat
        BY <2>1 DEF Events
      <4>2. event.time < cache[event.entity] \/ event.time >= cache[event.entity]
        BY <4>1
      <4> HIDE DEF TypeOK
      <4>3. CASE event.time < cache[event.entity]
        BY <2>1, <4>3, AppliedFacts
      <4>4. CASE event.time >= cache[event.entity]
        BY <2>1, <4>4, AppliedFacts
      <4> QED
        BY <4>2, <4>3, <4>4
    <3> HIDE DEF event
    <3> TAKE f \in Entity
    <3>3. CASE f = event.entity
      <4>1. event.time \in 0 .. now /\ cache[f] \in 0 .. now /\ 0 \in 0 .. now
        BY <2>2 DEF event
      <4>2. cache'[f] = Applied(event)[event.entity]
        BY <2>3, <3>3 DEF event
      <4> HIDE DEF TypeOK
      <4> QED
        BY <3>2, <3>3, <4>1, <4>2
    <3>4. CASE f # event.entity
      BY <2>3, <3>1, <3>4 DEF event
    <3> QED
      BY <3>3, <3>4
  <2>5. cache' \in [Entity -> 0 .. now] /\ Tail(stream) \in Seq(Events)
    BY <1>5, <2>3, <2>4 DEF Read
  <2> QED
    BY <1>5, <2>5 DEF Read, restVars
<1>6. CASE ReadClosed
  BY <1>6 DEF ReadClosed, haVars, restVars
<1>7. ASSUME NEW e \in Entity, Change(e) PROVE TypeOK'
  <2>1. now + 1 \in 0 .. MaxTime /\ 0 .. now \subseteq 0 .. now + 1
    BY <1>7, StateCacheAssumption DEF Change
  <2>2. stream' \in Seq(Events)
    <3>1. now \in Nat /\ stream \in Seq(Events)
      OBVIOUS
    <3> QED
      BY <1>7, <3>1, TellFacts DEF Change
  <2>3. cache' \in [Entity -> 0 .. now'] /\ answer' \in [Entity -> 0 .. now']
    <3>1. cache' = cache /\ answer' = answer /\ now' = now + 1
      BY <1>7 DEF Change, clientVars, restVars
    <3> QED
      <4>1. now \in Nat
        OBVIOUS
      <4>2. cache \in [Entity -> 0 .. now + 1] /\ answer \in [Entity -> 0 .. now + 1]
        BY <4>1, TimeGrows
      <4> HIDE DEF TypeOK
      <4> QED
        BY <3>1, <4>2
  <2>4. world' \in [Entity -> 0 .. now']
    BY <1>7, <2>1 DEF Change
  <2> QED
    <3>1. UNCHANGED <<task, ready, link, subscribed, answered, conn, mistaken>> /\ now' = now + 1
      BY <1>7 DEF Change, clientVars, restVars
    <3>2. task' \in {"asleep", "confirm", "snapshot", "read"} /\ ready' \in BOOLEAN
          /\ (task' # "read" => ready' = FALSE)
      BY <3>1
    <3>3. link' \in {"up", "lost"} /\ subscribed' \in BOOLEAN /\ answered' \in BOOLEAN
          /\ conn' \in 0 .. MaxConn /\ mistaken' \in BOOLEAN
      BY <3>1
    <3> QED
      BY <2>1, <2>2, <2>3, <2>4, <3>1, <3>2, <3>3
<1>8. ASSUME NEW e \in Entity, Remove(e) PROVE TypeOK'
  <2>1. now + 1 \in 0 .. MaxTime /\ 0 .. now \subseteq 0 .. now + 1
    BY <1>8, StateCacheAssumption DEF Remove
  <2>2. stream' \in Seq(Events)
    <3>1. now \in Nat /\ stream \in Seq(Events)
      OBVIOUS
    <3> QED
      BY <1>8, <3>1, TellFacts DEF Remove
  <2>3. cache' \in [Entity -> 0 .. now'] /\ answer' \in [Entity -> 0 .. now']
    <3>1. cache' = cache /\ answer' = answer /\ now' = now + 1
      BY <1>8 DEF Remove, clientVars, restVars
    <3> QED
      <4>1. now \in Nat
        OBVIOUS
      <4>2. cache \in [Entity -> 0 .. now + 1] /\ answer \in [Entity -> 0 .. now + 1]
        BY <4>1, TimeGrows
      <4> HIDE DEF TypeOK
      <4> QED
        BY <3>1, <4>2
  <2>4. world' \in [Entity -> 0 .. now']
    BY <1>8, <2>1 DEF Remove
  <2> QED
    <3>1. UNCHANGED <<task, ready, link, subscribed, answered, conn, mistaken>> /\ now' = now + 1
      BY <1>8 DEF Remove, clientVars, restVars
    <3>2. task' \in {"asleep", "confirm", "snapshot", "read"} /\ ready' \in BOOLEAN
          /\ (task' # "read" => ready' = FALSE)
      BY <3>1
    <3>3. link' \in {"up", "lost"} /\ subscribed' \in BOOLEAN /\ answered' \in BOOLEAN
          /\ conn' \in 0 .. MaxConn /\ mistaken' \in BOOLEAN
      BY <3>1
    <3> QED
      BY <2>1, <2>2, <2>3, <2>4, <3>1, <3>2, <3>3
<1>9. CASE HaSubscribes \/ HaSnapshots
  BY <1>9 DEF HaSubscribes, HaSnapshots, clientVars, haVars, restVars
<1>10. CASE Lose
  <2>1. stream' \in Seq(Events)
    BY <1>10 DEF Lose
  <2> QED
    BY <1>10, <2>1 DEF Lose, clientVars, restVars
<1>11. CASE UNCHANGED vars
  BY <1>11 DEF vars, clientVars, haVars, restVars
<1> QED
  BY <1>1, <1>2, <1>3, <1>4, <1>5, <1>6, <1>7, <1>8, <1>9, <1>10, <1>11 DEF Next, Task
-------------------------------------------------------------------------------
(* The head is read, a connection is lost: what stays is in the same order.  *)
LEMMA TailFacts ==
  ASSUME NEW S, NEW s \in Seq(S), s # <<>>
  PROVE  /\ Len(Tail(s)) = Len(s) - 1
         /\ \A k \in 1 .. Len(s) - 1 : Tail(s)[k] = s[k + 1] /\ k + 1 \in 1 .. Len(s)
  OBVIOUS

(* What a lost connection leaves is a beginning of what was sent.             *)
LEMMA PrefixFacts ==
  ASSUME NEW S, NEW s \in Seq(S), NEW n \in 0 .. Len(s)
  PROVE  /\ Len(SubSeq(s, 1, n)) = n
         /\ \A k \in 1 .. n : SubSeq(s, 1, n)[k] = s[k] /\ k \in 1 .. Len(s)
  OBVIOUS

(* What HA tells is newer than everything on its way, and everything on its  *)
(* way is older than what HA has.                                            *)
LEMMA StreamStep == TypeOK /\ StreamInv /\ [Next]_vars => StreamInv'
<1> SUFFICES ASSUME TypeOK, StreamInv, [Next]_vars PROVE StreamInv'
  OBVIOUS
<1>0. now \in Nat /\ stream \in Seq(Events) /\ Len(stream) \in Nat
      /\ \A k \in Index : stream[k] \in Events /\ stream[k].entity \in Entity
                            /\ stream[k].time \in Nat /\ stream[k].gone \in BOOLEAN
  <2>1. \A k \in Index : stream[k] \in Events
    BY DEF TypeOK, Index
  <2> QED
    BY <2>1 DEF TypeOK, Events
<1>1. CASE Connect \/ HandshakeFails
  <2>1. stream' = <<>> /\ Len(stream') = 0
    BY <1>1 DEF Connect, HandshakeFails
  <2> QED
    BY <2>1 DEF StreamInv, Index, Time
<1>2. CASE UNCHANGED haVars
  BY <1>2 DEF StreamInv, Index, Time, haVars
<1>3. CASE Read
  <2>1. \A k \in 1 .. Len(stream) - 1 : stream'[k] = stream[k + 1] /\ k + 1 \in Index
    BY <1>0, <1>3, TailFacts DEF Read, Index
  <2>2. Len(stream') = Len(stream) - 1
    BY <1>0, <1>3, TailFacts DEF Read
  <2>3. UNCHANGED <<now, world, link, subscribed>> /\ stream # <<>>
    BY <1>3 DEF Read
  <2>4. \A k \in 1 .. Len(stream') : k \in 1 .. Len(stream) - 1
    BY <1>0, <2>2
  <2>5. link' = "up" /\ ~subscribed' => stream' = <<>>
    BY <2>3 DEF StreamInv
  <2>6. \A k \in 1 .. Len(stream') : stream'[k].time \in 0 .. now'
    BY <2>1, <2>3, <2>4 DEF StreamInv, Time
  <2>7. \A j, k \in 1 .. Len(stream') : j < k => stream'[j].time < stream'[k].time
    <3> SUFFICES ASSUME NEW j \in 1 .. Len(stream'), NEW k \in 1 .. Len(stream'), j < k
                 PROVE  stream'[j].time < stream'[k].time
      OBVIOUS
    <3>1. j + 1 < k + 1 /\ j + 1 \in Index /\ k + 1 \in Index
          /\ stream'[j] = stream[j + 1] /\ stream'[k] = stream[k + 1]
      BY <1>0, <2>1, <2>4
    <3> QED
      BY <3>1 DEF StreamInv
  <2>8. \A k \in 1 .. Len(stream') : world'[stream'[k].entity] # 0 =>
          /\ stream'[k].time <= world'[stream'[k].entity]
          /\ stream'[k].gone => stream'[k].time < world'[stream'[k].entity]
    BY <2>1, <2>3, <2>4 DEF StreamInv
  <2> QED
    BY <2>5, <2>6, <2>7, <2>8 DEF StreamInv, Index, Time
<1>4. ASSUME NEW e \in Entity, NEW gone \in BOOLEAN, Tell(e, gone),
             now' = now + 1, UNCHANGED <<link, subscribed>>,
             world' = [world EXCEPT ![e] = IF gone THEN 0 ELSE now + 1]
      PROVE  StreamInv'
  <2>1. CASE ~subscribed
    <3>1. stream' = stream
      BY <1>0, <1>4, <2>1, TellFacts
    <3>2. \A k \in Index : world'[stream[k].entity] # 0 =>
            \/ stream[k].entity = e /\ world'[e] = now + 1
            \/ stream[k].entity # e /\ world'[stream[k].entity] = world[stream[k].entity]
      BY <1>0, <1>4 DEF TypeOK
    <3> QED
      BY <1>0, <1>4, <3>1, <3>2 DEF StreamInv, Index, Time
  <2>2. CASE subscribed
    <3> DEFINE m == Len(stream) + 1
    <3>0. /\ Len(stream') = Len(stream) + 1
          /\ \A k \in 1 .. Len(stream) : stream'[k] = stream[k]
          /\ stream'[Len(stream) + 1] = [entity |-> e, time |-> now + 1, gone |-> gone]
      BY <1>0, <1>4, <2>2, TellFacts, Zenon
    <3>1. m \in Nat /\ Len(stream') = m /\ (\A k \in Index : stream'[k] = stream[k])
      BY <1>0, <3>0 DEF Index
    <3>2. stream'[m].entity = e /\ stream'[m].time = now + 1 /\ stream'[m].gone = gone
      BY <3>0
    <3> HIDE DEF m
    <3>3. \A k \in 1 .. Len(stream') : k \in Index \/ k = m
      BY <1>0, <3>1 DEF Index, m
    <3>4. \A k \in Index : stream'[k].time <= now /\ stream'[k].time \in Nat
      BY <1>0, <3>1 DEF StreamInv, Time
    <3>5. \A k \in 1 .. Len(stream') : stream'[k].time \in 0 .. now + 1
      BY <1>0, <3>2, <3>3, <3>4
    <3>6. \A j, k \in 1 .. Len(stream') : j < k => stream'[j].time < stream'[k].time
      <4> SUFFICES ASSUME NEW j \in 1 .. Len(stream'), NEW k \in 1 .. Len(stream'), j < k
                   PROVE  stream'[j].time < stream'[k].time
        OBVIOUS
      <4>1. j \in Index
        BY <1>0, <3>1 DEF Index, m
      <4>2. CASE k \in Index
        BY <3>1, <4>1, <4>2 DEF StreamInv
      <4>3. CASE k = m
        BY <1>0, <3>2, <3>4, <4>1, <4>3
      <4> QED
        BY <3>3, <4>2, <4>3
    <3>7. \A k \in 1 .. Len(stream') : world'[stream'[k].entity] # 0 =>
            /\ stream'[k].time <= world'[stream'[k].entity]
            /\ stream'[k].gone => stream'[k].time < world'[stream'[k].entity]
      <4> SUFFICES ASSUME NEW k \in 1 .. Len(stream'), world'[stream'[k].entity] # 0
                   PROVE  /\ stream'[k].time <= world'[stream'[k].entity]
                          /\ stream'[k].gone => stream'[k].time < world'[stream'[k].entity]
        OBVIOUS
      <4>1. CASE k = m
        <5>1. world'[e] = now + 1 /\ ~gone
          BY <1>4, <3>2, <4>1 DEF TypeOK
        <5> QED
          BY <1>0, <3>2, <4>1, <5>1
      <4>2. CASE k \in Index /\ stream[k].entity = e
        <5>1. world'[e] = now + 1
          BY <1>4, <3>1, <4>2 DEF TypeOK
        <5> QED
          BY <1>0, <3>1, <3>4, <4>2, <5>1
      <4>3. CASE k \in Index /\ stream[k].entity # e
        <5>1. world'[stream[k].entity] = world[stream[k].entity]
          BY <1>0, <1>4, <4>3 DEF TypeOK
        <5> QED
          BY <3>1, <4>3, <5>1 DEF StreamInv
      <4> QED
        BY <3>3, <4>1, <4>2, <4>3
    <3> QED
      BY <1>4, <2>2, <3>5, <3>6, <3>7 DEF StreamInv, Index, Time
  <2> QED
    BY <2>1, <2>2
<1>5. ASSUME NEW e \in Entity, Change(e) PROVE StreamInv'
  <2>1. /\ FALSE \in BOOLEAN /\ Tell(e, FALSE) /\ now' = now + 1 /\ UNCHANGED <<link, subscribed>>
        /\ world' = [world EXCEPT ![e] = IF FALSE THEN 0 ELSE now + 1]
    BY <1>5 DEF Change
  <2> QED
    BY <1>4, <2>1
<1>6. ASSUME NEW e \in Entity, Remove(e) PROVE StreamInv'
  <2>1. /\ TRUE \in BOOLEAN /\ Tell(e, TRUE) /\ now' = now + 1 /\ UNCHANGED <<link, subscribed>>
        /\ world' = [world EXCEPT ![e] = IF TRUE THEN 0 ELSE now + 1]
    BY <1>6 DEF Remove
  <2> QED
    BY <1>4, <2>1
<1>7. CASE HaSubscribes
  BY <1>7 DEF HaSubscribes, StreamInv, Index, Time
<1>8. CASE Lose
  <2>1. PICK n \in 0 .. Len(stream) : stream' = SubSeq(stream, 1, n)
    BY <1>8 DEF Lose
  <2>2. Len(stream') = n /\ \A k \in 1 .. n : stream'[k] = stream[k] /\ k \in Index
    BY <1>0, <2>1, PrefixFacts DEF Index
  <2>3. UNCHANGED <<now, world>> /\ link' = "lost"
    BY <1>8 DEF Lose
  <2> QED
    BY <1>0, <2>2, <2>3 DEF StreamInv, Index, Time
<1>9. Confirm \/ Misconfirm \/ Populate \/ ReadClosed \/ HaSnapshots \/ UNCHANGED vars
        => UNCHANGED haVars
  BY DEF Confirm, Misconfirm, Populate, ReadClosed, HaSnapshots, vars
<1> QED
  BY <1>1, <1>2, <1>3, <1>5, <1>6, <1>7, <1>8, <1>9 DEF Next, Task
-------------------------------------------------------------------------------
(* What the events on their way are, without the sequence.                   *)
LEMMA StreamFacts ==
  ASSUME TypeOK
  PROVE  /\ now \in Nat /\ stream \in Seq(Events) /\ Len(stream) \in Nat
         /\ \A k \in Index : /\ stream[k] \in Events /\ stream[k].entity \in Entity
                              /\ stream[k].time \in Nat /\ stream[k].gone \in BOOLEAN
  <1>1. \A k \in Index : stream[k] \in Events
    BY DEF TypeOK, Index
  <1> QED
    BY <1>1 DEF TypeOK, Events

(* After a read the events move up by one; the last ones stay the last.      *)
LEMMA ReadFacts ==
  ASSUME TypeOK, Read
  PROVE  /\ 1 \in Index /\ Head(stream) = stream[1]
         /\ \A k \in Index' : stream'[k] = stream[k + 1] /\ k + 1 \in Index
         /\ \A k \in Index : k # 1 => k - 1 \in Index' /\ stream'[k - 1] = stream[k]
         /\ \A k \in Index' : IsLast(k)' => IsLast(k + 1)
  <1>1. stream # <<>> /\ stream' = Tail(stream)
    BY DEF Read
  <1>2. Len(stream') = Len(stream) - 1 /\ Len(stream) \in Nat /\ Len(stream) > 0
    BY <1>1, StreamFacts, TailFacts
  <1>3. \A k \in Index' : stream'[k] = stream[k + 1] /\ k + 1 \in Index
    BY <1>1, <1>2, StreamFacts, TailFacts DEF Index
  <1>4. \A k \in Index : k # 1 => k - 1 \in Index' /\ stream'[k - 1] = stream[k]
    <2> SUFFICES ASSUME NEW k \in Index, k # 1
                 PROVE  k - 1 \in Index' /\ stream'[k - 1] = stream[k]
      OBVIOUS
    <2>1. k - 1 \in Index' /\ (k - 1) + 1 = k
      BY <1>2 DEF Index
    <2> QED
      BY <1>3, <2>1
  <1>5. \A k \in Index' : IsLast(k)' => IsLast(k + 1)
    <2> SUFFICES ASSUME NEW k \in Index', IsLast(k)', NEW j \in Index, j > k + 1
                 PROVE  stream[j].entity # stream[k + 1].entity
      BY DEF IsLast
    <2>1. j # 1 /\ j - 1 > k
      BY DEF Index
    <2> QED
      BY <1>3, <1>4, <2>1 DEF IsLast
  <1>6. 1 \in Index /\ Head(stream) = stream[1]
    BY <1>1, <1>2 DEF Index
  <1> QED
    BY <1>3, <1>4, <1>5, <1>6

(* A change that is told: its event is the last of its entity, and what was  *)
(* the last of another stays it.                                             *)
LEMMA ToldFacts ==
  ASSUME TypeOK, subscribed = TRUE, NEW e \in Entity, NEW gone \in BOOLEAN, Tell(e, gone)
  PROVE  /\ \A k \in Index : k \in Index' /\ stream'[k] = stream[k]
         /\ \E m \in Index' :
              /\ stream'[m] = [entity |-> e, time |-> now + 1, gone |-> gone]
              /\ \A k \in Index' : k = m \/ (k \in Index /\ k < m)
         /\ \A k \in Index : IsLast(k)' => stream[k].entity # e /\ IsLast(k)
  <1>0. now \in Nat /\ stream \in Seq(Events) /\ Len(stream) \in Nat
    BY StreamFacts
  <1>1. /\ Len(stream') = Len(stream) + 1
        /\ \A k \in 1 .. Len(stream) : stream'[k] = stream[k]
        /\ stream'[Len(stream) + 1] = [entity |-> e, time |-> now + 1, gone |-> gone]
    BY <1>0, TellFacts, Zenon
  <1>2. \A k \in Index : k \in Index' /\ stream'[k] = stream[k] /\ k < Len(stream) + 1
    BY <1>0, <1>1 DEF Index
  <1>3. Len(stream) + 1 \in Index' /\ \A k \in Index' : k = Len(stream) + 1 \/ k \in Index
    BY <1>0, <1>1 DEF Index
  <1>4. \A k \in Index : IsLast(k)' => stream[k].entity # e /\ IsLast(k)
    <2>1. stream'[Len(stream) + 1].entity = e
      BY <1>1
    <2> SUFFICES ASSUME NEW k \in Index, IsLast(k)'
                 PROVE  stream[k].entity # e /\ IsLast(k)
      OBVIOUS
    <2>2. \A j \in Index' : j > k => stream'[j].entity # stream'[k].entity
      BY DEF IsLast
    <2>3. Len(stream) + 1 > k
      BY <1>0 DEF Index
    <2>4. stream[k].entity # e
      BY <1>2, <1>3, <2>1, <2>2, <2>3
    <2>5. ASSUME NEW j \in Index, j > k PROVE stream[j].entity # stream[k].entity
      BY <1>2, <2>2, <2>5
    <2>6. IsLast(k)
      BY <2>5 DEF IsLast
    <2> QED
      BY <2>4, <2>6
  <1> QED
    BY <1>1, <1>2, <1>3, <1>4
-------------------------------------------------------------------------------
(* The last event of an entity keeps saying how it is.                       *)
LEMMA LastStep == TypeOK /\ StreamInv /\ LastInv /\ [Next]_vars => LastInv'
<1> SUFFICES ASSUME TypeOK, StreamInv, LastInv, [Next]_vars PROVE LastInv'
  OBVIOUS
<1>1. CASE Connect \/ HandshakeFails
  <2>1. Len(stream') = 0
    BY <1>1 DEF Connect, HandshakeFails
  <2> QED
    BY <2>1 DEF LastInv, Index
<1>2. CASE UNCHANGED <<stream, world, link>>
  BY <1>2 DEF LastInv, IsLast, Index
<1>3. CASE Read
  <2>1. UNCHANGED <<world, link>>
    BY <1>3 DEF Read
  <2> QED
    BY <1>3, <2>1, ReadFacts DEF LastInv
<1>4. ASSUME NEW e \in Entity, NEW gone \in BOOLEAN, Tell(e, gone), UNCHANGED link,
             world' = [world EXCEPT ![e] = IF gone THEN 0 ELSE now + 1]
      PROVE  LastInv'
  <2> SUFFICES ASSUME link = "up", NEW k \in Index', IsLast(k)'
               PROVE  world'[stream'[k].entity]
                        = IF stream'[k].gone THEN 0 ELSE stream'[k].time
    BY <1>4 DEF LastInv
  <2>1. CASE subscribed = TRUE
    <3>1. PICK m \in Index' :
            /\ stream'[m] = [entity |-> e, time |-> now + 1, gone |-> gone]
            /\ \A i \in Index' : i = m \/ (i \in Index /\ i < m)
      BY <1>4, <2>1, ToldFacts
    <3>2. CASE k = m
      <4>1. world'[e] = IF gone THEN 0 ELSE now + 1
        BY <1>4 DEF TypeOK
      <4> QED
        BY <3>1, <3>2, <4>1
    <3>3. CASE k \in Index
      <4>1. stream'[k] = stream[k] /\ stream[k].entity # e /\ IsLast(k)
        BY <1>4, <2>1, <3>3, ToldFacts
      <4>2. world'[stream[k].entity] = world[stream[k].entity]
        BY <1>4, <3>3, <4>1, StreamFacts DEF TypeOK
      <4> QED
        BY <3>3, <4>1, <4>2 DEF LastInv
    <3> QED
      BY <3>1, <3>2, <3>3
  <2>2. CASE subscribed = FALSE
    <3>1. stream' = <<>> /\ Len(stream') = 0
      BY <1>4, <2>2 DEF StreamInv, Tell
    <3> QED
      BY <3>1 DEF Index
  <2> QED
    BY <2>1, <2>2 DEF TypeOK
<1>5. ASSUME NEW e \in Entity, Change(e) PROVE LastInv'
  <2>1. /\ FALSE \in BOOLEAN /\ Tell(e, FALSE) /\ UNCHANGED link
        /\ world' = [world EXCEPT ![e] = IF FALSE THEN 0 ELSE now + 1]
    BY <1>5 DEF Change
  <2> QED
    BY <1>4, <2>1
<1>6. ASSUME NEW e \in Entity, Remove(e) PROVE LastInv'
  <2>1. /\ TRUE \in BOOLEAN /\ Tell(e, TRUE) /\ UNCHANGED link
        /\ world' = [world EXCEPT ![e] = IF TRUE THEN 0 ELSE now + 1]
    BY <1>6 DEF Remove
  <2> QED
    BY <1>4, <2>1
<1>7. CASE Lose
  BY <1>7 DEF Lose, LastInv
<1>8. Confirm \/ Misconfirm \/ Populate \/ ReadClosed \/ HaSubscribes \/ HaSnapshots
      \/ UNCHANGED vars => UNCHANGED <<stream, world, link>>
  BY DEF Confirm, Misconfirm, Populate, ReadClosed, HaSubscribes, HaSnapshots, vars, haVars
<1> QED
  BY <1>1, <1>2, <1>3, <1>5, <1>6, <1>7, <1>8 DEF Next, Task

-------------------------------------------------------------------------------
(* The entry that a read changes is not of after what HA has, and an entry   *)
(* that is what HA has is left alone.                                        *)
LEMMA ReadEntry ==
  ASSUME TypeOK, StreamInv, Read, NEW e \in Entity
  PROVE  /\ cache[e] # 0 /\ cache'[e] # 0 => cache'[e] >= cache[e]
         /\ world[e] # 0 /\ cache[e] <= world[e] => cache'[e] <= world[e]
         /\ cache[e] # 0 /\ cache[e] = world[e] => cache'[e] = cache[e]
  <1> DEFINE event == Head(stream)
  <1>1. event = stream[1] /\ 1 \in Index
    BY ReadFacts
  <1>2. event \in Events /\ event.entity \in Entity /\ event.time \in Nat
    BY <1>1, StreamFacts
  <1>3. cache' = Applied(event) /\ cache[e] \in Nat /\ world[e] \in Nat
    BY DEF Read, TypeOK, Time
  <1>4. world[event.entity] # 0 => /\ event.time <= world[event.entity]
                                   /\ event.gone => event.time < world[event.entity]
    BY <1>1 DEF StreamInv
  <1> HIDE DEF event
  <1>5. CASE e # event.entity
    <2>1. cache'[e] = cache[e]
      BY <1>2, <1>3, <1>5, AppliedFacts
    <2> QED
      BY <1>3, <2>1
  <1>6. CASE e = event.entity /\ event.time < cache[e]
    <2>1. cache'[e] = cache[e]
      BY <1>2, <1>3, <1>6, AppliedFacts
    <2> QED
      BY <1>3, <2>1
  <1>7. CASE e = event.entity /\ event.time >= cache[e]
    <2>1. cache'[e] = IF event.gone THEN 0 ELSE event.time
      BY <1>2, <1>3, <1>7, AppliedFacts
    <2> QED
      BY <1>2, <1>3, <1>4, <1>7, <2>1
  <1> QED
    BY <1>2, <1>3, <1>5, <1>6, <1>7
-------------------------------------------------------------------------------
(* Cache and snapshot stay of the past.                                      *)
LEMMA PastStep == TypeOK /\ StreamInv /\ PastInv /\ [Next]_vars => PastInv'
<1> SUFFICES ASSUME TypeOK, StreamInv, PastInv, [Next]_vars PROVE PastInv'
  OBVIOUS
<1>0. \A e \in Entity : cache[e] \in 0 .. now /\ answer[e] \in 0 .. now /\ now \in Nat
  BY DEF TypeOK, Time
<1>1. CASE UNCHANGED <<world, cache>> /\ (task' # "snapshot" \/ answered' = FALSE)
  BY <1>1 DEF PastInv
<1>2. CASE Populate
  BY <1>2 DEF Populate, PastInv, haVars
<1>3. CASE Read
  <2>1. UNCHANGED <<world, task>> /\ task = "read"
    BY <1>3 DEF Read
  <2> QED
    BY <1>3, <2>1, ReadEntry DEF PastInv
<1>4. ASSUME NEW e \in Entity, NEW new \in {0, now + 1}, world' = [world EXCEPT ![e] = new],
             UNCHANGED <<task, cache, answered, answer>>
      PROVE  PastInv'
  <2>1. \A f \in Entity : world'[f] = IF f = e THEN new ELSE world[f]
    BY <1>4 DEF TypeOK
  <2>2. \A f \in Entity : world'[f] # 0 => cache'[f] <= world'[f]
    BY <1>0, <1>4, <2>1 DEF PastInv
  <2>3. ASSUME task' = "snapshot", answered', NEW f \in Entity
        PROVE  /\ world'[f] # 0 => answer'[f] <= world'[f]
               /\ answer'[f] # 0 => cache'[f] <= answer'[f]
               /\ cache'[f] # 0 /\ cache'[f] = world'[f] => answer'[f] = cache'[f]
    <3>1. CASE f = e
      BY <1>0, <1>4, <2>1, <2>3, <3>1 DEF PastInv
    <3>2. CASE f # e
      BY <1>4, <2>1, <2>3, <3>2 DEF PastInv
    <3> QED
      BY <3>1, <3>2
  <2> HIDE DEF PastInv
  <2>4. ASSUME task' = "snapshot", answered'
        PROVE  \A f \in Entity :
                 /\ world'[f] # 0 => answer'[f] <= world'[f]
                 /\ answer'[f] # 0 => cache'[f] <= answer'[f]
                 /\ cache'[f] # 0 /\ cache'[f] = world'[f] => answer'[f] = cache'[f]
    BY <2>3, <2>4
  <2> QED
    BY <2>2, <2>4 DEF PastInv
<1>5. ASSUME NEW e \in Entity, Change(e) \/ Remove(e) PROVE PastInv'
  <2>1. UNCHANGED <<task, cache, answered, answer>>
    BY <1>5 DEF Change, Remove, clientVars, restVars
  <2>2. CASE Change(e)
    BY <1>4, <2>1, <2>2 DEF Change
  <2>3. CASE Remove(e)
    BY <1>4, <2>1, <2>3 DEF Remove
  <2> QED
    BY <1>5, <2>2, <2>3
<1>6. CASE HaSnapshots
  <2>1. answer' = world /\ UNCHANGED <<cache, world>>
    BY <1>6 DEF HaSnapshots, clientVars, haVars
  <2>2. \A e \in Entity : world[e] \in Nat
    BY DEF TypeOK, Time
  <2> QED
    BY <2>1, <2>2 DEF PastInv
<1>7. CASE UNCHANGED <<world, cache, task, answered, answer>>
  BY <1>7 DEF PastInv
<1>8. Connect \/ Confirm \/ Misconfirm \/ HandshakeFails \/ ReadClosed
        => UNCHANGED <<world, cache>> /\ (task' # "snapshot" \/ answered' = FALSE)
  BY DEF Connect, Confirm, Misconfirm, HandshakeFails, ReadClosed, haVars
<1>9. HaSubscribes \/ Lose \/ UNCHANGED vars
        => UNCHANGED <<world, cache, task, answered, answer>>
  BY DEF HaSubscribes, Lose, vars, clientVars, haVars, restVars
<1> QED
  BY <1>1, <1>2, <1>3, <1>5, <1>6, <1>7, <1>8, <1>9 DEF Next, Task

-------------------------------------------------------------------------------
(* A view that is explained stays so when HA tells of a change.              *)
LEMMA ExplainedTold ==
  ASSUME TypeOK, subscribed = TRUE, NEW e \in Entity, NEW gone \in BOOLEAN, Tell(e, gone),
         world' = [world EXCEPT ![e] = IF gone THEN 0 ELSE now + 1],
         NEW view \in [Entity -> 0 .. now], Explained(view)
  PROVE  /\ \A f \in Entity : OnItsWay(f)' \/ view[f] = world'[f]
         /\ \A k \in Index' : IsLast(k)' => view[stream'[k].entity] <= stream'[k].time
  <1>1. PICK m \in Index' : /\ stream'[m] = [entity |-> e, time |-> now + 1, gone |-> gone]
                            /\ \A k \in Index' : k = m \/ (k \in Index /\ k < m)
    BY ToldFacts
  <1>2. \A k \in Index : k \in Index' /\ stream'[k] = stream[k]
    BY ToldFacts
  <1>3. DOMAIN stream = Index /\ DOMAIN stream' = Index'
    <2>1. stream' \in Seq(Events)
      BY StreamFacts, TellFacts
    <2> QED
      BY <2>1, StreamFacts DEF Index
  <1>4. ASSUME NEW f \in Entity PROVE OnItsWay(f)' \/ view[f] = world'[f]
    <2>1. CASE f = e
      BY <1>1, <1>3, <2>1 DEF OnItsWay
    <2>2. CASE f # e /\ OnItsWay(f)
      BY <1>2, <1>3, <2>2 DEF OnItsWay
    <2>3. CASE f # e /\ view[f] = world[f]
      BY <2>3 DEF TypeOK
    <2> QED
      BY <2>1, <2>2, <2>3 DEF Explained
  <1>5. ASSUME NEW k \in Index', IsLast(k)'
        PROVE  view[stream'[k].entity] <= stream'[k].time
    <2>1. CASE k = m
      <3>1. view[e] \in 0 .. now /\ now \in Nat
        BY StreamFacts
      <3> QED
        BY <1>1, <2>1, <3>1
    <2>2. CASE k \in Index
      <3>1. IsLast(k)
        BY <1>5, <2>2, ToldFacts
      <3> QED
        BY <1>2, <2>2, <3>1 DEF Explained
    <2> QED
      BY <1>1, <2>1, <2>2
  <1> QED
    BY <1>4, <1>5
(* Reading an event that a view has not seen brings the view nearer.         *)
LEMMA ExplainedRead ==
  ASSUME TypeOK, StreamInv, LastInv, link = "up", Read, Explained(cache)
  PROVE  Explained(cache)'
  <1> DEFINE event == Head(stream)
  <1>1. event = stream[1] /\ 1 \in Index /\ UNCHANGED world
    BY ReadFacts DEF Read
  <1>2. event \in Events /\ event.entity \in Entity /\ event.time \in Nat /\ cache' = Applied(event)
    BY <1>1, StreamFacts DEF Read
  <1>3. DOMAIN stream = Index /\ DOMAIN stream' = Index'
    <2>1. stream' \in Seq(Events)
      BY StreamFacts DEF Read
    <2> QED
      BY <2>1, StreamFacts DEF Index
  <1>4. cache[event.entity] \in Nat
    BY <1>2 DEF TypeOK, Time
  <1> HIDE DEF event
  <1>5. ASSUME NEW f \in Entity PROVE OnItsWay(f)' \/ cache'[f] = world'[f]
    <2>1. CASE f # event.entity
      <3>1. cache'[f] = cache[f]
        BY <1>2, <2>1, AppliedFacts
      <3>2. OnItsWay(f) => OnItsWay(f)'
        <4> SUFFICES ASSUME NEW k \in Index, stream[k].entity = f PROVE OnItsWay(f)'
          BY <1>3 DEF OnItsWay
        <4>1. k # 1
          BY <1>1, <2>1
        <4> QED
          BY <1>3, <4>1, ReadFacts DEF OnItsWay
      <3> QED
        BY <1>1, <3>1, <3>2 DEF Explained
    <2>2. CASE f = event.entity /\ IsLast(1)
      <3>1. world[f] = (IF event.gone THEN 0 ELSE event.time) /\ cache[f] <= event.time
        BY <1>1, <2>2 DEF LastInv, Explained
      <3>2. cache'[f] = IF event.gone THEN 0 ELSE event.time
        BY <1>2, <1>4, <2>2, <3>1, AppliedFacts
      <3> QED
        BY <1>1, <3>1, <3>2
    <2>3. CASE f = event.entity /\ ~IsLast(1)
      <3>1. PICK k \in Index : k > 1 /\ stream[k].entity = f
        BY <1>1, <2>3 DEF IsLast
      <3>2. k # 1
        BY <3>1 DEF Index
      <3> QED
        BY <1>3, <3>1, <3>2, ReadFacts DEF OnItsWay
    <2> QED
      BY <2>1, <2>2, <2>3
  <1>6. ASSUME NEW k \in Index', IsLast(k)' PROVE cache'[stream'[k].entity] <= stream'[k].time
    <2>1. stream'[k] = stream[k + 1] /\ k + 1 \in Index /\ IsLast(k + 1)
      BY <1>6, ReadFacts
    <2>2. stream[k + 1].entity \in Entity /\ stream[k + 1].time \in Nat
          /\ cache[stream[k + 1].entity] <= stream[k + 1].time
      BY <2>1, StreamFacts DEF Explained
    <2>3. event.time < stream[k + 1].time
      <3>1. 1 < k + 1
        BY DEF Index
      <3> QED
        BY <1>1, <2>1, <3>1 DEF StreamInv
    <2>4. CASE stream[k + 1].entity # event.entity
      BY <1>2, <2>1, <2>2, <2>4, AppliedFacts
    <2>5. CASE stream[k + 1].entity = event.entity
      <3>1. cache'[event.entity] \in {cache[event.entity], 0, event.time}
        <4>1. CASE event.time < cache[event.entity]
          BY <1>2, <4>1, AppliedFacts
        <4>2. CASE event.time >= cache[event.entity]
          BY <1>2, <4>2, AppliedFacts
        <4> QED
          BY <1>2, <1>4, <4>1, <4>2
      <3> QED
        BY <1>2, <2>1, <2>2, <2>3, <2>5, <3>1
    <2> QED
      BY <2>4, <2>5
  <1> QED
    BY <1>5, <1>6 DEF Explained
-------------------------------------------------------------------------------
(* Subscription first, then the snapshot, then the events: a view is         *)
(* explained from the moment HA takes it.                                    *)
LEMMA ViewStep == IInv /\ [Next]_vars => ViewInv'
<1> SUFFICES ASSUME TypeOK, StreamInv, LastInv, ViewInv, [Next]_vars PROVE ViewInv'
  BY DEF IInv
<1>1. CASE link' # "up" \/ mistaken' = TRUE
  BY <1>1 DEF ViewInv
<1>2. CASE Connect
  BY <1>2 DEF Connect, ViewInv
<1>3. CASE Confirm
  BY <1>3 DEF Confirm, ViewInv, haVars
<1>4. CASE Populate
  <2>1. /\ UNCHANGED <<link, subscribed, stream, world, mistaken>>
        /\ cache' = answer /\ task' = "read" /\ task = "snapshot" /\ answered
    BY <1>4 DEF Populate, haVars
  <2>2. Explained(answer) => Explained(cache)'
    BY <2>1 DEF Explained, OnItsWay, IsLast, Index
  <2> QED
    BY <2>1, <2>2 DEF ViewInv
<1>5. CASE Read
  <2>1. UNCHANGED <<link, subscribed, mistaken, task>> /\ task = "read"
    BY <1>5 DEF Read
  <2> QED
    BY <1>5, <2>1, ExplainedRead DEF ViewInv
<1>6. ASSUME NEW e \in Entity, NEW gone \in BOOLEAN, Tell(e, gone),
             world' = [world EXCEPT ![e] = IF gone THEN 0 ELSE now + 1],
             UNCHANGED <<task, cache, answered, answer, link, subscribed, mistaken>>
      PROVE  ViewInv'
  <2> SUFFICES ASSUME link = "up", ~mistaken, task \in {"snapshot", "read"}
               PROVE  /\ subscribed
                      /\ task = "snapshot" /\ answered => Explained(answer)'
                      /\ task = "read" => Explained(cache)'
    BY <1>6 DEF ViewInv
  <2>1. subscribed = TRUE
    BY DEF ViewInv, TypeOK
  <2>2. cache \in [Entity -> 0 .. now] /\ answer \in [Entity -> 0 .. now]
    BY DEF TypeOK, Time
  <2>3. Explained(answer) => Explained(answer)'
    BY <1>6, <2>1, <2>2, ExplainedTold DEF Explained
  <2>4. Explained(cache) => Explained(cache)'
    BY <1>6, <2>1, <2>2, ExplainedTold DEF Explained
  <2> QED
    BY <2>1, <2>3, <2>4 DEF ViewInv
<1>7. ASSUME NEW e \in Entity, Change(e) PROVE ViewInv'
  <2>1. /\ FALSE \in BOOLEAN /\ Tell(e, FALSE)
        /\ world' = [world EXCEPT ![e] = IF FALSE THEN 0 ELSE now + 1]
        /\ UNCHANGED <<task, cache, answered, answer, link, subscribed, mistaken>>
    BY <1>7 DEF Change, clientVars, restVars
  <2> QED
    BY <1>6, <2>1
<1>8. ASSUME NEW e \in Entity, Remove(e) PROVE ViewInv'
  <2>1. /\ TRUE \in BOOLEAN /\ Tell(e, TRUE)
        /\ world' = [world EXCEPT ![e] = IF TRUE THEN 0 ELSE now + 1]
        /\ UNCHANGED <<task, cache, answered, answer, link, subscribed, mistaken>>
    BY <1>8 DEF Remove, clientVars, restVars
  <2> QED
    BY <1>6, <2>1
<1>9. CASE HaSubscribes
  <2>1. UNCHANGED <<task, cache, world, link, stream, answered, answer, mistaken>> /\ subscribed' = TRUE
    BY <1>9 DEF HaSubscribes, clientVars, restVars
  <2>2. (Explained(cache) => Explained(cache)') /\ (Explained(answer) => Explained(answer)')
    BY <2>1 DEF Explained, OnItsWay, IsLast, Index
  <2> QED
    BY <2>1, <2>2 DEF ViewInv
<1>10. CASE HaSnapshots
  <2>1. answer' = world /\ task = "snapshot" /\ UNCHANGED <<task, link, subscribed, mistaken, stream, world>>
    BY <1>10 DEF HaSnapshots, clientVars, haVars
  <2>2. link = "up" => Explained(answer)'
    <3> SUFFICES ASSUME link = "up", NEW k \in Index, IsLast(k)
                 PROVE  world[stream[k].entity] <= stream[k].time
      BY <2>1 DEF Explained, IsLast, Index
    <3> QED
      BY StreamFacts DEF LastInv
  <2> QED
    BY <2>1, <2>2 DEF ViewInv
<1>11. CASE UNCHANGED vars
  <2>1. UNCHANGED <<task, cache, world, link, subscribed, stream, answered, answer, mistaken>>
    BY <1>11 DEF vars, clientVars, haVars, restVars
  <2> QED
    BY <2>1 DEF ViewInv, Explained, OnItsWay, IsLast, Index
<1>12. Misconfirm \/ HandshakeFails \/ ReadClosed \/ Lose => link' # "up" \/ mistaken' = TRUE
  BY DEF Misconfirm, HandshakeFails, ReadClosed, Lose, haVars
<1> QED
  BY <1>1, <1>2, <1>3, <1>4, <1>5, <1>7, <1>8, <1>9, <1>10, <1>11, <1>12 DEF Next, Task

-------------------------------------------------------------------------------
(* Nothing is connected and HA has no entity yet.                            *)
LEMMA InductiveInit == Init => IInv
<1> SUFFICES ASSUME Init PROVE IInv
  OBVIOUS
<1>1. Len(stream) = 0 /\ stream \in Seq(Events)
  BY DEF Init
<1>2. TypeOK
  <2>1. [e \in Entity |-> 0] \in [Entity -> 0 .. 0]
    OBVIOUS
  <2>2. 0 \in 0 .. MaxTime /\ 0 \in 0 .. MaxConn
    BY StateCacheAssumption
  <2> QED
    BY <1>1, <2>1, <2>2 DEF Init, TypeOK, Time
<1>3. StreamInv /\ LastInv /\ PastInv /\ ViewInv
  BY <1>1 DEF Init, StreamInv, LastInv, PastInv, ViewInv, Index
<1> QED
  BY <1>2, <1>3 DEF IInv

(* The five parts together are inductive.                                    *)
THEOREM Inductive == Spec => []IInv
<1>1. IInv /\ [Next]_vars => IInv'
  BY TypeStep, StreamStep, LastStep, PastStep, ViewStep DEF IInv
<1> QED
  BY InductiveInit, <1>1, PTL DEF Spec

(* Every variable keeps to its type; tools are let through only while events *)
(* are read.                                                                 *)
THEOREM TypeCorrect == Spec => []TypeOK
<1>1. IInv => TypeOK
  BY DEF IInv
<1> QED
  BY <1>1, Inductive, PTL

(* However changes, snapshots, events, losses and reconnections interleave,  *)
(* the cache of a live connection differs from HA only by events that have   *)
(* yet to be read (ha.py 407-427, 462-473, 564-599).                         *)
THEOREM FollowsHolds == Spec => []Follows
<1>1. IInv => Follows
  BY DEF IInv, TypeOK, ViewInv, Explained, Follows
<1> QED
  BY <1>1, Inductive, PTL

(* No entry is replaced by an older one (_state_is_newer, ha.py 145-160).    *)
THEOREM NoEntryGoesBackHolds == Spec => NoEntryGoesBack
<1> DEFINE Forward == \A e \in Entity : cache[e] # 0 /\ cache'[e] # 0 => cache'[e] >= cache[e]
<1>1. IInv /\ [Next]_vars => [Forward]_vars
  <2> SUFFICES ASSUME IInv, [Next]_vars, NEW e \in Entity, cache[e] # 0, cache'[e] # 0
               PROVE  cache'[e] >= cache[e]
    OBVIOUS
  <2>1. cache[e] \in Nat
    BY DEF IInv, TypeOK, Time
  <2>2. CASE Read
    BY <2>2, ReadEntry DEF IInv
  <2>3. CASE Populate
    BY <2>1, <2>3 DEF IInv, PastInv, Populate, TypeOK, Time
  <2>4. CASE cache' = cache
    BY <2>1, <2>4
  <2>5. Read \/ Populate \/ cache' = cache
    BY DEF Next, Task, Connect, Confirm, Misconfirm, HandshakeFails, ReadClosed, Change, Remove,
           HaSubscribes, HaSnapshots, Lose, vars, clientVars
  <2> QED
    BY <2>2, <2>3, <2>4, <2>5
<1> QED
  BY <1>1, Inductive, PTL DEF Spec, NoEntryGoesBack

(* An entry that is what HA has stays (ha.py 583-593).                       *)
THEOREM RightEntryStaysHolds == Spec => RightEntryStays
<1> DEFINE Stays == \A e \in Entity : cache[e] # 0 /\ cache[e] = world[e] => cache'[e] = cache[e]
<1>1. IInv /\ [Next]_vars => [Stays]_vars
  <2> SUFFICES ASSUME IInv, [Next]_vars, NEW e \in Entity, cache[e] # 0, cache[e] = world[e]
               PROVE  cache'[e] = cache[e]
    OBVIOUS
  <2>1. CASE Read
    BY <2>1, ReadEntry DEF IInv
  <2>2. CASE Populate
    BY <2>2 DEF IInv, PastInv, Populate
  <2>3. Read \/ Populate \/ cache' = cache
    BY DEF Next, Task, Connect, Confirm, Misconfirm, HandshakeFails, ReadClosed, Change, Remove,
           HaSubscribes, HaSnapshots, Lose, vars, clientVars
  <2> QED
    BY <2>1, <2>2, <2>3
<1> QED
  BY <1>1, Inductive, PTL DEF Spec, RightEntryStays
================================================================================
