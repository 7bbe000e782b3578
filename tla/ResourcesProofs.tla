----------------------------- MODULE ResourcesProofs -----------------------------
(***************************************************************************)
(* For any number of waits, flows, jobs, addresses, writers, clients,      *)
(* paths: nothing is stranded in a table, a dangerous script asks before   *)
(* it runs, a file and what it was are kept, every table with a limit      *)
(* holds it and hits only who it is for, and all state has its type.  Each *)
(* part has an inductive invariant of its own and a lemma for its step;    *)
(* the parts share no variable, so that the step of one leaves the others' *)
(* alone.                                                                  *)
(***************************************************************************)
EXTENDS Resources, FiniteSetTheorems, WellFoundedInduction, TLAPS

(* EventWaits: there are finitely many places, and who was cut short is over *)
(* (it will not give its place back, and will not take another).             *)
WaitsInv ==
  /\ stage \in [Wait -> {"subscribing", "waiting", "closing", "idle", "done"}]
  /\ reply \in [Wait -> Waits!Replies]
  /\ IsFiniteSet(active)
  /\ \A w \in cut : w \in Wait /\ stage[w] = "done"
  /\ Waits!PlacesHeld

(* Flows: a flow is in Home Assistant once it was asked for, and a client is *)
(* told of it when the tool that opened it is through with it.               *)
FlowsInv ==
  /\ Openings!TypeOK
  /\ \A f \in Flow : (flow[f] = "none") = (tool[f] = "idle")
  /\ \A f \in told : tool[f] = "ended"
  /\ Openings!NoOrphans

(* Jobs: an entry has the time at which its job was noted, one that was      *)
(* noted stays while it is recent, and a client polls what it was told of.   *)
JobsInv ==
  /\ Ledger!TypeOK
  /\ \A j \in DOMAIN jobs : jobs[j].at = jobSince[j] /\ starter[j] \in {"noted", "over"}
  /\ \A j \in Job \ jobsMissed :
       (starter[j] = "noted" \/ j \in jobTold) /\ jobSince[j] + JobKeep > jobTime => j \in DOMAIN jobs
  /\ \A j \in jobTold : starter[j] = "over"
  /\ \A j \in Job : starter[j] # "idle" => work[j] # "none"
  /\ \A j \in Job : poll[j] # "idle" => j \in jobTold
  /\ sawDone \subseteq jobTold
  /\ \A j \in (sawDone \ jobsMissed) \cap DOMAIN jobs : jobs[j].done

(* AutoRestricted: an answer that is still to come is of what is running.    *)
KindsInv ==
  /\ Kinds!TypeOK
  /\ why = "answer" => save = "applied" /\ running = saving
  /\ Kinds!RestrictedAsks

(* FileEdits.  At work at the same time are only writers that overlap; a     *)
(* writer that does not has its own text under the temporary name.  Whoever  *)
(* is about to rename finds the text of a writer at work, or none.           *)
AloneInv ==
  /\ \A w \in Writer : step[w] = "idle" => w \notin overlapped
  /\ \A u, w \in Secrets!BusyNow : u # w => u \in overlapped /\ w \in overlapped
  /\ \A w \in Writer \ overlapped :
       /\ step[w] \in {"opened", "filled"} => tmpAt = w
       /\ step[w] = "filled" => w \in full
       /\ step[w] = "taken" => tmpAt # "none"
       /\ step[w] = "unlinked" => tmpAt = "none"
       /\ step[w] \in {"failing", "error"} => w \in troubled
  /\ \A w \in Writer : step[w] \in {"opened", "filled"} => tmpAt \in Secrets!BusyNow \cup {"none"}

(* A secret whose write succeeded is in the file and in every text that may  *)
(* replace it; one whose write did not is in no text but its own.            *)
TextInv ==
  \A w \in Writer \ overlapped :
    /\ step[w] = "ok" =>
         /\ w \in Secrets!Secrets(file) \cup unread
         /\ \A u \in Secrets!BusyNow : w \in raw[u] \cup unread
    /\ step[w] # "ok" => file # w /\ \A u \in Writer : w \notin raw[u]

EditsInv ==
  /\ Secrets!TypeOK
  /\ file \in full \cup overlapped \cup {"old"}
  /\ AloneInv /\ TextInv

(* Registrations: of two clients one registered later, and whoever is no     *)
(* longer there has been followed by as many registrations as the limit.     *)
ClientsInv ==
  /\ clients \subseteq Client /\ IsFiniteSet(clients)
  /\ born \in [Client -> Nat] /\ begunRegs \in Nat
  /\ progress \in [Client -> {"none", "registered", "code", "tokens", "unknown"}]
  /\ undeleted \subseteq Client
  /\ \A c \in Client : born[c] <= begunRegs /\ (progress[c] # "none" => born[c] # 0)
  /\ \A c \in clients : born[c] # 0
  /\ \A c, d \in Client : c # d /\ born[c] # 0 => born[c] # born[d]
  /\ \A c \in Client : born[c] # 0 /\ c \notin clients => begunRegs >= born[c] + MaxClients
  /\ Registered!ClientsKept

(* FileBackups.  The copies of a path have the order of their numbers, and   *)
(* the n-th copy of p is there unless it is gone for a reason.               *)
Gone(p, n) == <<p, n>> \in dropped \/ ~Copied!Within(p, n)

NumbersInv ==
  /\ \A c \in copies : c.at <= second /\ c.n \in DOMAIN taken[c.path]
  /\ \A c, d \in copies : c.path = d.path =>
       (c.at < d.at => c.n < d.n) /\ (c.at = d.at => c = d)
  /\ \A p \in Path : \A n \in DOMAIN taken[p] :
       Gone(p, n) \/ \E c \in copies : c.path = p /\ c.n = n /\ c.ver = taken[p][n]

(* What a call was told it may restore; the copy it has just made, whose     *)
(* number is between those of earlier and of later seconds even when it is   *)
(* no longer there; the versions it has copied and nobody changed since.     *)
Offered(p, n, t) == Gone(p, n) \/ \E c \in copies : c.path = p /\ c.n = n /\ c.at = t

Numbered(p, t) ==
  t <= second /\ \E k \in DOMAIN taken[p] : \A c \in copies : c.path = p =>
    (c.at < t => c.n < k) /\ (c.at > t => c.n > k)

WasTaken(p, v) == \E n \in DOMAIN taken[p] : taken[p][n] = v

CallInv(e) ==
  /\ edit[e].step \in {"checked", "copied"} =>
       /\ edit[e].path \in Path /\ edit[e].to \in Path
       /\ \/ edit[e].left \in {<<>>, <<edit[e].to>>}
          \/ edit[e].path # edit[e].to /\ edit[e].left = <<edit[e].path, edit[e].to>>
       /\ \A p \in Copied!Copied(e) \ edit[e].raced : current[p] # 0 => WasTaken(p, current[p])
       /\ edit[e].what = "restore" => Offered(edit[e].path, edit[e].n, edit[e].source)
  /\ edit[e].step = "copied" => edit[e].left # <<>> /\ Numbered(Head(edit[e].left), edit[e].stamp)
  /\ edit[e].step = "missing" => edit[e].path \in Path /\ Gone(edit[e].path, edit[e].n)

Call ==
  [step : {"idle", "checked", "copied", "missing"}, what : Copied!Kinds,
   path : Path \cup {"none"}, to : Path \cup {"none"}, source : Nat, n : Nat,
   ver : Nat, left : Seq(Path), stamp : Nat, raced : SUBSET Path]

CopiesType ==
  /\ current \in [Path -> Nat] /\ taken \in [Path -> Seq(Nat)]
  /\ copies \in SUBSET [at : Nat, path : Path, ver : Nat, n : Nat] /\ IsFiniteSet(copies)
  /\ edit \in [Edit -> Call]
  /\ second \in Nat /\ calls \in Nat

ReplacedInv == \A r \in replaced : r[1] \in Path /\ r[2] \in Nat /\ WasTaken(r[1], r[2])

CopiesInv ==
  /\ CopiesType /\ NumbersInv
  /\ ReplacedInv
  /\ \A e \in Edit : CallInv(e)

(* CrashLoop.  The entries of the log are starts that were let through, and  *)
(* a start that is noted has its entry, unless the log is full of later      *)
(* ones.  While a start is on its way it is not noted, and has none.         *)
Noted == {n \in DOMAIN begun : begun[n].noted}

LoggedAs(f) ==
  /\ \A i, j \in DOMAIN startLog : i # j => f[i] # f[j]
  /\ \A i \in DOMAIN startLog : startLog[i] = begun[f[i]].at /\ (boot = "passed" => f[i] # Len(begun))
  /\ \A n \in Noted : \/ \E i \in DOMAIN startLog : f[i] = n
                      \/ Len(startLog) = RingSize /\ \A i \in DOMAIN startLog : begun[n].at <= startLog[i]

StartsType ==
  /\ startLog \in Seq(Nat) /\ Len(startLog) <= RingSize
  /\ begun \in Seq([at : Nat, noted : BOOLEAN])
  /\ damaged \in BOOLEAN /\ boot \in {"down", "passed", "up", "refused"} /\ bootTime \in Nat

StartsInv ==
  /\ StartsType
  /\ \A n \in DOMAIN begun : begun[n].at <= bootTime
  /\ \A i, j \in DOMAIN startLog : i < j => startLog[i] <= startLog[j]
  /\ \E f \in [DOMAIN startLog -> DOMAIN begun] : LoggedAs(f)
  /\ boot = "passed" =>
       /\ begun # <<>> /\ begun[Len(begun)].at = bootTime /\ ~begun[Len(begun)].noted
       /\ Starts!Lately(Noted) < CrashThreshold /\ (damaged => Noted = {})
  /\ Starts!StartsBounded

(* AuthFailures: lists of failures are not empty, and the table exceeds its  *)
(* limit by the caller at most.                                              *)
FailuresInv ==
  /\ authTime \in Nat
  /\ IsFiniteSet(DOMAIN bucket) /\ Cardinality(DOMAIN bucket) <= MaxIps + 1
  /\ \A b \in DOMAIN bucket : bucket[b] \in Seq(Nat)

(* Logins: the times that the locks of one address are known to take.        *)
Spent == CHOOSE spent \in [0 .. GlobalThreshold - 1 -> 0 .. Window + 1] : Slows(spent)

(* An address never comes to the threshold of all, since it is slowed down;  *)
(* and what only one address is to blame for is its own count and window.    *)
LoginsInv ==
  /\ Passwords!TypeOK /\ fails <= MaxFails
  /\ IsFiniteSet(blame)
  /\ allFails <= fails /\ allFirst <= loginTime
  /\ \A a \in Address :
       /\ failures[a] < GlobalThreshold /\ failures[a] <= fails
       /\ firstFail[a] <= loginTime /\ (failures[a] = 0 <=> firstFail[a] = 0)
       /\ \/ firstFail[a] + Spent[failures[a]] <= loginTime
          \/ firstFail[a] + Spent[failures[a]] <= lockedUntil[a]
       /\ blame = {a} /\ ~midway /\ loginTime <= allFirst + Window =>
            failures[a] = allFails /\ firstFail[a] = allFirst
  /\ blame = {} => allFirst = 0
  /\ Passwords!OneAloneLocksItself

(* PublicLimit: what is noted of an address is the end of what was admitted, *)
(* in the order of its times, and only what is old or was forgiven precedes  *)
(* it.  Between two purges the table grows by an address for each request.   *)
EndOf(s, d) ==
  /\ s \in DOMAIN requests =>
       /\ Len(requests[s]) = Len(admitted[s]) - d
       /\ \A n \in 1 .. Len(requests[s]) : requests[s][n] = admitted[s][d + n]
  /\ s \notin DOMAIN requests => d = Len(admitted[s])
  /\ s \notin forgiven => \A n \in 1 .. d : ~Limited!Recent(admitted[s][n])

Ordered(times) == \A m, n \in DOMAIN times : m < n => times[m] <= times[n]

LimitedInv ==
  /\ Limited!TypeOK
  /\ IsFiniteSet(DOMAIN requests)
  /\ Cardinality(DOMAIN requests) <= MaxTracked + 1 + (dispatches % PurgeInterval)
  /\ admitted \in [Source -> Seq(Nat)] /\ \A s \in DOMAIN requests : requests[s] \in Seq(Nat)
  /\ \A s \in Source : Ordered(admitted[s])
  /\ \A s \in Source : \E d \in 0 .. Len(admitted[s]) : EndOf(s, d)

IInv ==
  /\ WaitsInv /\ FlowsInv /\ JobsInv /\ KindsInv /\ EditsInv /\ ClientsInv /\ CopiesInv
  /\ StartsInv /\ FailuresInv /\ LoginsInv /\ LimitedInv

(* EventWaits: a queue has what was sent and not yet taken.                  *)
Events == {"match", "other", "closed"}

WaitsTypes ==
  /\ active \subseteq Wait /\ cancelled \subseteq Wait
  /\ inbox \in [Wait -> Seq(Events)] /\ sent \in [Wait -> 0 .. MaxEvents]
  /\ \A w \in Wait : Len(inbox[w]) <= sent[w]

(* The bounds of the model, which no number that is kept exceeds.            *)
StartsBounds == bootTime <= MaxBootTime /\ Len(begun) <= MaxStarts

RegsBound == begunRegs <= Registered!MaxRegs

(* FileBackups: versions are those of the calls, the first one and Torn.     *)
CopiesBounds ==
  /\ second <= MaxSecond /\ calls <= MaxCalls
  /\ \A p \in Path : current[p] <= Copied!Torn /\ \A n \in DOMAIN taken[p] : taken[p][n] <= Copied!Torn
  /\ \A c \in copies : c.ver <= Copied!Torn
  /\ \A e \in Edit : edit[e].ver <= Copied!Torn /\ edit[e].stamp <= MaxSecond
  /\ replaced \subseteq Path \X Nat /\ dropped \subseteq Path \X Nat

(* What the types of the parts say and their invariants do not.              *)
TypesInv ==
  /\ part \in Parts
  /\ WaitsTypes /\ StartsBounds /\ RegsBound /\ CopiesBounds /\ Rejected!TypeOK

-------------------------------------------------------------------------------
(* What the parts count with is what the theorems on finite sets are about.  *)
LEMMA Counting ==
  \A S : Waits!Cardinality(S) = Cardinality(S) /\ Registered!Cardinality(S) = Cardinality(S)
         /\ Copied!Cardinality(S) = Cardinality(S) /\ Starts!Cardinality(S) = Cardinality(S)
         /\ Rejected!Cardinality(S) = Cardinality(S) /\ Limited!Cardinality(S) = Cardinality(S)
         /\ Passwords!Cardinality(S) = Cardinality(S)
BY DEF Waits!Cardinality, Registered!Cardinality, Copied!Cardinality, Starts!Cardinality,
   Rejected!Cardinality, Limited!Cardinality, Passwords!Cardinality, Cardinality

(* A place is taken and given back, or its holder is cut short.              *)
LEMMA WaitsStep == ASSUME WaitsInv, Waits!Next \/ UNCHANGED OfWaits PROVE WaitsInv'
<1> USE DEF WaitsInv, Waits!PlacesHeld, Waits!Running
<1>0. MaxConcurrent \in Nat
  BY ResourcesAssumption
<1>a. Cardinality(active) \in Nat
  BY FS_CardinalityType
<1>1. ASSUME NEW w \in Wait, Waits!Register(w) PROVE WaitsInv'
  <2>1. w \notin active /\ w \notin cut /\ UNCHANGED <<cancelled, cut>>
    BY <1>1 DEF Waits!Register
  <2>2. CASE /\ Cardinality(active) < MaxConcurrent
             /\ active' = active \cup {w} /\ stage' = [stage EXCEPT ![w] = "subscribing"]
             /\ UNCHANGED reply
    <3>1. IsFiniteSet(active') /\ Cardinality(active') = Cardinality(active) + 1
      BY <2>1, <2>2, FS_AddElement
    <3>2. Cardinality(active') <= MaxConcurrent
      BY <3>1, <2>2, <1>0, <1>a
    <3>3. active' = {u \in Wait : stage'[u] \in Waits!Running} \cup cut'
      BY <2>1, <2>2
    <3> QED BY <2>1, <2>2, <3>1, <3>2, <3>3, Counting
  <2>3. CASE /\ active' = active /\ stage' = [stage EXCEPT ![w] = "done"]
             /\ reply' = [reply EXCEPT ![w] = "too_many_waits"]
    <3>1. active' = {u \in Wait : stage'[u] \in Waits!Running} \cup cut'
      BY <1>1, <2>1, <2>3 DEF Waits!Register
    <3> QED BY <2>1, <2>3, <3>1 DEF Waits!Replies
  <2> QED BY <1>1, <2>2, <2>3, Counting DEF Waits!Register
<1>2. ASSUME NEW w \in Wait, Waits!Subscribed(w) PROVE WaitsInv'
  BY <1>2 DEF Waits!Subscribed
<1>3. ASSUME NEW w \in Wait, NEW r \in Waits!Replies \ {"cancelled"},
             stage[w] \in {"subscribing", "closing"}, Waits!Unregister(w), UNCHANGED <<cancelled, cut>>,
             reply' = [reply EXCEPT ![w] = r] \/ reply' = reply
      PROVE  WaitsInv'
  <2>1. IsFiniteSet(active') /\ Cardinality(active') \in {Cardinality(active), Cardinality(active) - 1}
    BY <1>3, FS_RemoveElement DEF Waits!Unregister
  <2>2. Cardinality(active') <= MaxConcurrent
    BY <2>1, <1>0, <1>a, Counting
  <2>3. active' = {u \in Wait : stage'[u] \in Waits!Running} \cup cut'
    BY <1>3 DEF Waits!Unregister
  <2> QED BY <2>1, <2>2, <2>3, <1>3, Counting DEF Waits!Unregister
<1>4. ASSUME NEW w \in Wait, Waits!NotSubscribed(w) PROVE WaitsInv'
  <2>1. PICK r \in {"error", "gone"} : reply' = [reply EXCEPT ![w] = r]
    BY <1>4 DEF Waits!NotSubscribed
  <2> QED BY <1>3, <1>4, <2>1 DEF Waits!NotSubscribed, Waits!Replies
<1>5. ASSUME NEW w \in Wait, Waits!Close(w) PROVE WaitsInv'
  BY <1>3, <1>5 DEF Waits!Close, Waits!Replies
<1>6. ASSUME NEW w \in Wait, stage[w] = "waiting", NEW r \in Waits!Replies, Waits!Ends(w, r),
             r = "cancelled" => w \in cancelled
      PROVE  WaitsInv'
  BY <1>6 DEF Waits!Ends
<1>7. ASSUME NEW w \in Wait, Waits!TakesEvent(w) PROVE WaitsInv'
  BY <1>6, <1>7 DEF Waits!TakesEvent, Waits!Replies
<1>8. ASSUME NEW w \in Wait, Waits!SeesCancel(w) \/ Waits!TimesOut(w) \/ Waits!TaskCancelled(w)
      PROVE  WaitsInv'
  BY <1>6, <1>8 DEF Waits!SeesCancel, Waits!TimesOut, Waits!TaskCancelled, Waits!Replies
<1>9. ASSUME NEW w \in Wait, Waits!CutShort(w) PROVE WaitsInv'
  BY <1>9 DEF Waits!CutShort, Waits!Replies
<1>10. ASSUME NEW w \in Wait, Waits!CancelWait(w) \/ Waits!Arrives(w) PROVE WaitsInv'
  BY <1>10 DEF Waits!CancelWait, Waits!Arrives
<1>11. ASSUME UNCHANGED OfWaits PROVE WaitsInv'
  BY <1>11 DEF OfWaits
<1> QED BY <1>1, <1>2, <1>4, <1>5, <1>7, <1>8, <1>9, <1>10, <1>11 DEF Waits!Next

(* Whoever has a flow open sees it through to its end.                       *)
LEMMA FlowsStep == ASSUME FlowsInv, Openings!Next \/ UNCHANGED OfFlows PROVE FlowsInv'
<1> USE DEF FlowsInv, Openings!TypeOK, Openings!NoOrphans, Openings!Open, Openings!Kind
<1>1. ASSUME NEW f \in Flow, NEW k \in Openings!Kind, Openings!Start(f, k) PROVE FlowsInv'
  <2>1. PICK is \in {"form", "external", "gone"} : flow' = [flow EXCEPT ![f] = is]
    BY <1>1 DEF Openings!Start
  <2> QED BY <1>1, <2>1 DEF Openings!Start
<1>2. ASSUME NEW f \in Flow, Openings!Started(f) PROVE FlowsInv'
  BY <1>2 DEF Openings!Started, Openings!Automatable
<1>3. ASSUME NEW f \in Flow, Openings!StartUnheard(f) PROVE FlowsInv'
  BY <1>3 DEF Openings!StartUnheard
<1>4. ASSUME NEW f \in Flow, Openings!Abort(f) PROVE FlowsInv'
  BY <1>4 DEF Openings!Abort, Openings!Aborted
<1>5. ASSUME NEW f \in Flow, Openings!Continue(f) PROVE FlowsInv'
  <2>1. PICK is \in {"form", "external", "gone"} : flow' = [flow EXCEPT ![f] = is]
    BY <1>5 DEF Openings!Continue
  <2> QED BY <1>5, <2>1 DEF Openings!Continue
<1>6. ASSUME NEW f \in Flow, Openings!AbortTool(f) PROVE FlowsInv'
  BY <1>6 DEF Openings!AbortTool
<1>7. ASSUME UNCHANGED OfFlows PROVE FlowsInv'
  BY <1>7 DEF OfFlows
<1> QED BY <1>1, <1>2, <1>3, <1>4, <1>5, <1>6, <1>7 DEF Openings!Next

(* The set is built anew for what is running.                                *)
LEMMA KindsStep == ASSUME KindsInv, Kinds!Next \/ UNCHANGED OfKinds PROVE KindsInv'
<1> USE DEF KindsInv, Kinds!TypeOK, Kinds!RestrictedAsks, Kinds!Content, Kinds!Dangerous,
            Kinds!Scan
<1>1. ASSUME NEW k \in Kinds!Scan, Kinds!ScanReads(k) PROVE KindsInv'
  BY <1>1 DEF Kinds!ScanReads
<1>2. ASSUME NEW k \in Kinds!Scan, Kinds!ScanEnds(k) PROVE KindsInv'
  <2>1. saw[k] \in Kinds!Content \cup {"unread"}
    BY <1>2
  <2>2. /\ why' \in {why, "none", "unread", "raced"}
        /\ why' = "none" => why = "none" \/ saw[k] = running
    BY <1>2 DEF Kinds!ScanEnds, Kinds!Learned
  <2>3. restricted' = (restricted \/ saw[k] \in Kinds!Dangerous)
    BY <1>2 DEF Kinds!ScanEnds, Kinds!Added
  <2>4. running' = running /\ save' = save /\ saving' = saving /\ automations' = automations
    BY <1>2 DEF Kinds!ScanEnds
  <2>5. scan' \in [Kinds!Scan -> {"idle", "started", "read"}] /\ saw' = saw
    BY <1>2 DEF Kinds!ScanEnds
  <2>6. Kinds!TypeOK'
    BY <2>2, <2>3, <2>4, <2>5
  <2>7. ASSUME running \in Kinds!Dangerous, ~restricted' PROVE why' # "none"
    BY <2>2, <2>3, <2>7
  <2> QED BY <2>2, <2>4, <2>6, <2>7
<1>3. ASSUME Kinds!SaveAsks \/ Kinds!SaveApplies \/ Kinds!SaveAnswered PROVE KindsInv'
  BY <1>3 DEF Kinds!SaveAsks, Kinds!SaveApplies, Kinds!SaveAnswered, Kinds!Loads
<1>4. ASSUME Kinds!SaveFails \/ Kinds!SaveForgotten \/ Kinds!FileWritten PROVE KindsInv'
  BY <1>4 DEF Kinds!SaveFails, Kinds!SaveForgotten, Kinds!FileWritten
<1>5. ASSUME Kinds!ServiceReload \/ Kinds!ToolReload \/ Kinds!OutsideSave PROVE KindsInv'
  BY <1>5 DEF Kinds!ServiceReload, Kinds!ToolReload, Kinds!OutsideSave, Kinds!Loads
<1>6. ASSUME Kinds!Restart PROVE KindsInv'
  BY <1>6 DEF Kinds!Restart
<1>7. ASSUME UNCHANGED OfKinds PROVE KindsInv'
  BY <1>7 DEF OfKinds
<1> QED BY <1>1, <1>2, <1>3, <1>4, <1>5, <1>6, <1>7 DEF Kinds!Next

(* A job is noted before its client hears of it; only old ones are dropped.  *)
LEMMA JobsStep == ASSUME JobsInv, Ledger!Next \/ UNCHANGED OfJobs PROVE JobsInv'
<1> USE DEF JobsInv, Ledger!TypeOK, Ledger!Entry
<1>0. JobKeep \in Nat /\ MaxJobTime \in Nat
  BY ResourcesAssumption
<1>a. DOMAIN jobs \in SUBSET Job /\ jobs \in [DOMAIN jobs -> Ledger!Entry]
  OBVIOUS
<1>1. ASSUME NEW j \in Job, Ledger!Launch(j) PROVE JobsInv'
  BY <1>1 DEF Ledger!Launch
<1>2. ASSUME NEW j \in Job, Ledger!Track(j) PROVE JobsInv'
  <2> DEFINE new == [at |-> jobTime, done |-> FALSE]
  <2>0. PICK seen \in Ledger!Loaded :
          jobs' = Ledger!Tracked(j, seen) /\ jobsMissed' = jobsMissed \cup Ledger!Hidden(seen)
    BY <1>2 DEF Ledger!Track
  <2>a. DOMAIN seen \subseteq DOMAIN jobs /\ \A k \in DOMAIN seen : seen[k] = jobs[k]
    BY DEF Ledger!Loaded, Ledger!NoJobs
  <2>b. Ledger!Recent(seen) \subseteq DOMAIN jobs /\ Ledger!Recent(seen) \subseteq DOMAIN seen
    BY <2>a DEF Ledger!Recent
  <2>1. /\ DOMAIN jobs' = {j} \cup Ledger!Recent(seen)
        /\ jobs'[j] = new
        /\ \A k \in Ledger!Recent(seen) \ {j} : jobs'[k] = jobs[k]
        /\ jobs' = [k \in DOMAIN jobs' |-> jobs'[k]]
    BY <2>0, <2>a, <2>b DEF Ledger!Tracked
  <2>2. Ledger!Recent(seen) \subseteq DOMAIN jobs
    BY <2>b
  <2>3. new \in Ledger!Entry
    OBVIOUS
  <2>4. DOMAIN jobs' \in SUBSET Job /\ jobs' \in [DOMAIN jobs' -> Ledger!Entry]
    <3>1. \A k \in DOMAIN jobs' : k \in Job /\ jobs'[k] \in Ledger!Entry
      <4> HIDE DEF JobsInv, Ledger!Entry, new
      <4> QED BY <1>a, <2>1, <2>2, <2>3
    <3> QED BY <2>1, <3>1
  <2>c. jobsMissed' \subseteq Job
    BY <1>a, <2>0 DEF Ledger!Hidden
  <2>5. Ledger!TypeOK'
    BY <1>2, <2>4, <2>c DEF Ledger!Track
  <2>6. j \notin DOMAIN jobs /\ j \notin jobTold /\ j \notin sawDone
    BY <1>2 DEF Ledger!Track
  <2>7. \A k \in DOMAIN jobs' : jobs'[k].at = jobSince'[k] /\ starter'[k] \in {"noted", "over"}
    BY <1>2, <2>1, <2>2, <2>6 DEF Ledger!Track
  <2>8. \A k \in Job \ jobsMissed' :
          (starter'[k] = "noted" \/ k \in jobTold') /\ jobSince'[k] + JobKeep > jobTime' =>
            k \in DOMAIN jobs'
    <3> SUFFICES ASSUME NEW k \in Job \ jobsMissed', starter'[k] = "noted" \/ k \in jobTold',
                        jobSince'[k] + JobKeep > jobTime', k # j
                 PROVE  k \in DOMAIN jobs'
      BY <2>1
    <3>1. k \in DOMAIN jobs /\ jobs[k].at + JobKeep > jobTime
      BY <1>2, <2>0 DEF Ledger!Track
    <3>2. k \in DOMAIN seen /\ seen[k] = jobs[k]
      BY <2>0, <2>a, <3>1 DEF Ledger!Hidden
    <3> QED BY <2>1, <3>1, <3>2 DEF Ledger!Recent
  <2>9. \A k \in (sawDone' \ jobsMissed') \cap DOMAIN jobs' : jobs'[k].done
    <3> SUFFICES ASSUME NEW k \in sawDone \ jobsMissed, k \in DOMAIN jobs' PROVE jobs'[k].done
      BY <1>2, <2>0 DEF Ledger!Track
    <3>1. k # j /\ k \in DOMAIN jobs /\ jobs'[k] = jobs[k]
      BY <2>1, <2>2, <2>6
    <3> QED BY <3>1
  <2>10. (\A k \in jobTold : starter[k] = "over")' /\ (\A k \in Job : poll[k] # "idle" => k \in jobTold)'
         /\ (sawDone \subseteq jobTold)' /\ (\A k \in Job : starter[k] # "idle" => work[k] # "none")'
    BY <1>2, <2>6 DEF Ledger!Track
  <2> QED BY <2>5, <2>7, <2>8, <2>9, <2>10
<1>3. ASSUME NEW j \in Job, Ledger!LosesJob(j) PROVE JobsInv'
  BY <1>3 DEF Ledger!LosesJob
<1>4. ASSUME NEW j \in Job, Ledger!TellJob(j) PROVE JobsInv'
  BY <1>4 DEF Ledger!TellJob
<1>5. ASSUME NEW j \in Job, Ledger!PollJob(j) PROVE JobsInv'
  BY <1>5 DEF Ledger!PollJob
<1>6. ASSUME NEW j \in Job, Ledger!PollAnswered(j) PROVE JobsInv'
  <2>0. poll[j] = "done" =>
          /\ \/ jobs' = Ledger!Marked(j, jobs) /\ jobsMissed' = jobsMissed
             \/ jobs' = jobs /\ (j \in DOMAIN jobs => jobsMissed' = jobsMissed \cup {j})
          /\ jobsMissed \subseteq jobsMissed' /\ jobsMissed' \subseteq Job
    <3> SUFFICES ASSUME poll[j] = "done"
                 PROVE  /\ \/ jobs' = Ledger!Marked(j, jobs) /\ jobsMissed' = jobsMissed
                           \/ jobs' = jobs /\ (j \in DOMAIN jobs => jobsMissed' = jobsMissed \cup {j})
                        /\ jobsMissed \subseteq jobsMissed' /\ jobsMissed' \subseteq Job
      OBVIOUS
    <3>1. PICK seen \in Ledger!Loaded : /\ jobs' = Ledger!Marked(j, seen)
                                        /\ jobsMissed' = jobsMissed \cup ({j} \cap Ledger!Hidden(seen))
      BY <1>6 DEF Ledger!PollAnswered
    <3>2. CASE seen = jobs
      BY <3>1, <3>2 DEF Ledger!Hidden
    <3>3. CASE seen = Ledger!NoJobs
      <4>1. DOMAIN seen = {}
        BY <3>3 DEF Ledger!NoJobs
      <4>2. jobs' = jobs /\ Ledger!Hidden(seen) = DOMAIN jobs
        BY <3>1, <4>1 DEF Ledger!Marked, Ledger!Hidden
      <4> QED BY <3>1, <4>2
    <3> QED BY <3>2, <3>3 DEF Ledger!Loaded
  <2>1. CASE poll[j] = "done" /\ j \in DOMAIN jobs /\ jobs' = Ledger!Marked(j, jobs)
             /\ jobsMissed' = jobsMissed
    <3>1. /\ DOMAIN jobs' = DOMAIN jobs
          /\ jobs'[j] = [jobs[j] EXCEPT !.done = TRUE]
          /\ \A k \in DOMAIN jobs \ {j} : jobs'[k] = jobs[k]
          /\ jobs' = [k \in DOMAIN jobs' |-> jobs'[k]]
      BY <2>1 DEF Ledger!Marked
    <3>2. jobs'[j] \in Ledger!Entry /\ jobs'[j].at = jobs[j].at /\ jobs'[j].done = TRUE
      <4>1. jobs[j] \in [at : 0 .. MaxJobTime, done : BOOLEAN]
        BY <1>a, <2>1
      <4> HIDE DEF JobsInv
      <4> QED BY <3>1, <4>1
    <3>3. DOMAIN jobs' \in SUBSET Job /\ jobs' \in [DOMAIN jobs' -> Ledger!Entry]
      BY <1>a, <3>1, <3>2
    <3>4. \A k \in DOMAIN jobs' : jobs'[k].at = jobs[k].at /\ (k = j \/ jobs'[k].done = jobs[k].done)
      BY <3>1, <3>2
    <3>5. sawDone' = sawDone \cup {j} /\ UNCHANGED <<starter, work, jobTime, jobSince, jobTold>>
          /\ poll' = [poll EXCEPT ![j] = "idle"]
      BY <1>6, <2>1 DEF Ledger!PollAnswered
    <3>6. Ledger!TypeOK'
      BY <2>1, <3>3, <3>5
    <3>7. \A k \in (sawDone' \ jobsMissed') \cap DOMAIN jobs' : jobs'[k].done
      BY <2>1, <3>1, <3>2, <3>4, <3>5
    <3> QED BY <1>6, <2>1, <3>1, <3>4, <3>5, <3>6, <3>7
  <2>2. CASE poll[j] = "done" /\ jobs' = jobs /\ (j \in DOMAIN jobs => j \in jobsMissed')
             /\ jobsMissed \subseteq jobsMissed' /\ jobsMissed' \subseteq Job
    BY <1>6, <2>2 DEF Ledger!PollAnswered
  <2>3. CASE poll[j] # "done"
    BY <1>6, <2>3 DEF Ledger!PollAnswered
  <2> QED
    <3>1. j \notin DOMAIN jobs => Ledger!Marked(j, jobs) = jobs
      BY DEF Ledger!Marked
    <3> QED BY <2>0, <2>1, <2>2, <2>3, <3>1
<1>7. ASSUME NEW j \in Job, Ledger!JobEnds(j) PROVE JobsInv'
  BY <1>7 DEF Ledger!JobEnds
<1>8. ASSUME Ledger!JobCrash PROVE JobsInv'
  BY <1>8 DEF Ledger!JobCrash
<1>9. ASSUME Ledger!JobTick PROVE JobsInv'
  BY <1>0, <1>9 DEF Ledger!JobTick
<1>10. ASSUME UNCHANGED OfJobs PROVE JobsInv'
  BY <1>10 DEF OfJobs
<1> QED BY <1>1, <1>2, <1>3, <1>4, <1>5, <1>6, <1>7, <1>8, <1>9, <1>10 DEF Ledger!Next

(* Who begins while another is at work overlaps with it, and the other too.  *)
LEMMA AloneStep ==
  ASSUME EditsInv, Secrets!Next PROVE Secrets!TypeOK' /\ AloneInv'
<1> USE DEF EditsInv, Secrets!TypeOK, AloneInv, Secrets!BusyNow, Secrets!Busy, Secrets!Goes
<1>0. "none" \notin Writer
  BY ResourcesAssumption
<1>1. ASSUME NEW w \in Writer, Secrets!Begins(w), raw' \in [Writer -> SUBSET Writer],
             unread' \subseteq Writer
      PROVE  Secrets!TypeOK' /\ AloneInv'
  <2>1. CASE Secrets!BusyNow = {}
    BY <1>1, <2>1 DEF Secrets!Begins
  <2>2. CASE Secrets!BusyNow # {}
    <3>1. overlapped' = overlapped \cup Secrets!BusyNow \cup {w} /\ step' = [step EXCEPT ![w] = "read"]
          /\ UNCHANGED <<full, file, tmpAt, troubled>> /\ step[w] = "idle"
      BY <1>1, <2>2 DEF Secrets!Begins
    <3>2. Secrets!BusyNow' = Secrets!BusyNow \cup {w}
      BY <3>1
    <3>3. Secrets!TypeOK'
      BY <1>1, <3>1
    <3> QED BY <3>1, <3>2, <3>3
  <2> QED BY <2>1, <2>2
<1>2. ASSUME NEW w \in Writer, Secrets!ReadFile(w) PROVE Secrets!TypeOK' /\ AloneInv'
  <2>1. PICK text \in Secrets!Readings(file) :
          raw' = [raw EXCEPT ![w] = text] /\ unread' = unread \cup (Secrets!Secrets(file) \ text)
    BY <1>2 DEF Secrets!ReadFile
  <2>2. text \subseteq Writer /\ Secrets!Secrets(file) \subseteq Writer
    BY DEF Secrets!Readings, Secrets!Secrets
  <2> QED BY <1>1, <1>2, <2>1, <2>2 DEF Secrets!ReadFile
<1>3. ASSUME NEW w \in Writer, Secrets!ReadFails(w) PROVE Secrets!TypeOK' /\ AloneInv'
  <2>1. Secrets!Secrets(file) \subseteq Writer
    BY DEF Secrets!Secrets
  <2> QED BY <1>1, <1>3, <2>1 DEF Secrets!ReadFails
<1>4. ASSUME NEW w \in Writer, Secrets!OpenTmp(w) \/ Secrets!OpenAgain(w)
      PROVE  Secrets!TypeOK' /\ AloneInv'
  BY <1>0, <1>4 DEF Secrets!OpenTmp, Secrets!OpenAgain, Secrets!Created
<1>5. ASSUME NEW w \in Writer, Secrets!UnlinkTmp(w) PROVE Secrets!TypeOK' /\ AloneInv'
  BY <1>0, <1>5 DEF Secrets!UnlinkTmp
<1>6. ASSUME NEW w \in Writer, Secrets!Fill(w) PROVE Secrets!TypeOK' /\ AloneInv'
  BY <1>0, <1>6 DEF Secrets!Fill
<1>7. ASSUME NEW w \in Writer, Secrets!Replace(w) PROVE Secrets!TypeOK' /\ AloneInv'
  BY <1>0, <1>7 DEF Secrets!Replace
<1>8. ASSUME NEW w \in Writer, Secrets!DiskFails(w) \/ Secrets!CleansUp(w)
      PROVE  Secrets!TypeOK' /\ AloneInv'
  BY <1>0, <1>8 DEF Secrets!DiskFails, Secrets!CleansUp
<1>9. ASSUME Secrets!EditCrash PROVE Secrets!TypeOK' /\ AloneInv'
  BY <1>0, <1>9 DEF Secrets!EditCrash
<1> QED BY <1>2, <1>3, <1>4, <1>5, <1>6, <1>7, <1>8, <1>9 DEF Secrets!Next

(* A read gives what is in the file, but for what is then unread.            *)
LEMMA TextStep ==
  ASSUME EditsInv, Secrets!Next PROVE (file \in full \cup overlapped \cup {"old"})' /\ TextInv'
<1> USE DEF EditsInv, Secrets!TypeOK, TextInv, Secrets!BusyNow, Secrets!Busy, Secrets!Goes
<1>0. "none" \notin Writer /\ "old" \notin Writer
  BY ResourcesAssumption
<1>1. ASSUME NEW w \in Writer, Secrets!Begins(w), NEW text \in SUBSET Secrets!Secrets(file),
             raw' = [raw EXCEPT ![w] = text], unread' = unread \cup (Secrets!Secrets(file) \ text)
      PROVE  (file \in full \cup overlapped \cup {"old"})' /\ TextInv'
  <2>1. /\ overlapped \subseteq overlapped' /\ step' = [step EXCEPT ![w] = "read"] /\ step[w] = "idle"
        /\ UNCHANGED <<full, file, tmpAt, troubled>> /\ w \notin overlapped
        /\ overlapped' = overlapped \/ overlapped' = overlapped \cup Secrets!BusyNow \cup {w}
    BY <1>1 DEF Secrets!Begins, AloneInv
  <2>2. file # w /\ \A u \in Writer : w \notin raw[u]
    BY <2>1
  <2>3. Secrets!Secrets(file)' = Secrets!Secrets(file)
    BY <1>0, <1>1, <2>1, <2>2 DEF Secrets!Secrets
  <2>4. ASSUME NEW v \in Writer \ overlapped', step'[v] = "ok"
        PROVE  /\ v \in Secrets!Secrets(file)' \cup unread'
               /\ \A u \in Secrets!BusyNow' : v \in raw'[u] \cup unread'
    <3>1. v # w /\ v \notin overlapped /\ step[v] = "ok"
      BY <2>1, <2>4
    <3>2. v \in Secrets!Secrets(file) \cup unread
      BY <3>1
    <3>3. \A u \in Secrets!BusyNow : v \in raw[u] \cup unread
      BY <3>1
    <3>4. ASSUME NEW u \in Secrets!BusyNow' PROVE v \in raw'[u] \cup unread'
      <4>1. CASE u = w
        BY <1>1, <3>2, <4>1
      <4>2. CASE u # w
        BY <1>1, <2>1, <3>3, <4>2
      <4> QED BY <4>1, <4>2
    <3> QED BY <1>1, <2>3, <3>2, <3>4
  <2>5. ASSUME NEW v \in Writer \ overlapped', step'[v] # "ok"
        PROVE  file' # v /\ \A u \in Writer : v \notin raw'[u]
    <3>1. v \notin overlapped /\ step[v] # "ok"
      BY <2>1, <2>5
    <3>2. file # v /\ \A u \in Writer : v \notin raw[u]
      BY <3>1
    <3>3. v \notin Secrets!Secrets(file)
      BY <3>2 DEF Secrets!Secrets
    <3> QED BY <1>1, <2>1, <3>2, <3>3
  <2> QED BY <2>1, <2>4, <2>5
<1>2. ASSUME NEW w \in Writer, Secrets!ReadFile(w)
      PROVE  (file \in full \cup overlapped \cup {"old"})' /\ TextInv'
  <2>1. PICK text \in Secrets!Readings(file) :
          raw' = [raw EXCEPT ![w] = text] /\ unread' = unread \cup (Secrets!Secrets(file) \ text)
    BY <1>2 DEF Secrets!ReadFile
  <2>2. text \in SUBSET Secrets!Secrets(file)
    BY DEF Secrets!Readings
  <2> QED BY <1>1, <1>2, <2>1, <2>2 DEF Secrets!ReadFile
<1>3. ASSUME NEW w \in Writer, Secrets!ReadFails(w)
      PROVE  (file \in full \cup overlapped \cup {"old"})' /\ TextInv'
  <2>1. {} \in SUBSET Secrets!Secrets(file) /\ Secrets!Secrets(file) = Secrets!Secrets(file) \ {}
    OBVIOUS
  <2>2. raw' = [raw EXCEPT ![w] = {}] /\ unread' = unread \cup (Secrets!Secrets(file) \ {})
    BY <1>3, <2>1 DEF Secrets!ReadFails
  <2> QED BY <1>1, <1>3, <2>1, <2>2 DEF Secrets!ReadFails
<1>4. ASSUME UNCHANGED <<raw, file, overlapped, unread>>, full \subseteq full',
             NEW w \in Writer, step[w] \in Secrets!Busy, NEW s \in Secrets!Busy \cup {"error"},
             step' = [step EXCEPT ![w] = s]
      PROVE  (file \in full \cup overlapped \cup {"old"})' /\ TextInv'
  BY <1>4 DEF Secrets!Secrets
<1>5. ASSUME NEW w \in Writer, Secrets!OpenTmp(w) \/ Secrets!OpenAgain(w)
      PROVE  (file \in full \cup overlapped \cup {"old"})' /\ TextInv'
  BY <1>4, <1>5 DEF Secrets!OpenTmp, Secrets!OpenAgain, Secrets!Created
<1>6. ASSUME NEW w \in Writer, Secrets!UnlinkTmp(w) \/ Secrets!Fill(w)
      PROVE  (file \in full \cup overlapped \cup {"old"})' /\ TextInv'
  BY <1>4, <1>6 DEF Secrets!UnlinkTmp, Secrets!Fill
<1>7. ASSUME NEW w \in Writer, Secrets!DiskFails(w) \/ Secrets!CleansUp(w)
      PROVE  (file \in full \cup overlapped \cup {"old"})' /\ TextInv'
  BY <1>4, <1>7 DEF Secrets!DiskFails, Secrets!CleansUp
<1>8. ASSUME NEW w \in Writer, Secrets!Replace(w)
      PROVE  (file \in full \cup overlapped \cup {"old"})' /\ TextInv'
  <2>1. CASE tmpAt = "none"
    BY <1>4, <1>8, <2>1 DEF Secrets!Replace
  <2>2. CASE tmpAt # "none"
    <3>1. /\ step' = [step EXCEPT ![w] = "ok"] /\ file' = tmpAt /\ step[w] = "filled"
          /\ UNCHANGED <<raw, full, overlapped, unread>>
      BY <1>8, <2>2 DEF Secrets!Replace
    <3>2. tmpAt \in Secrets!BusyNow
      BY <2>2, <3>1 DEF AloneInv
    <3>3. tmpAt = w \/ tmpAt \in overlapped
      BY <3>1, <3>2 DEF AloneInv
    <3>4. w \in overlapped \/ (tmpAt = w /\ w \in full)
      BY <3>1 DEF AloneInv
    <3>5. tmpAt \in full \cup overlapped
      BY <3>3, <3>4
    <3>6. Secrets!Secrets(file)' = raw[tmpAt] \cup {tmpAt}
      BY <1>0, <3>1, <3>2 DEF Secrets!Secrets
    <3>7. ASSUME NEW v \in Writer \ overlapped, step'[v] = "ok"
          PROVE  /\ v \in Secrets!Secrets(file)' \cup unread
                 /\ \A u \in Secrets!BusyNow' : v \in raw[u] \cup unread
      <4>1. CASE v = w
        <5>1. Secrets!BusyNow' = {}
          BY <3>1, <3>7, <4>1 DEF AloneInv
        <5> QED BY <3>4, <3>6, <3>7, <4>1, <5>1
      <4>2. CASE v # w
        BY <3>1, <3>2, <3>6, <3>7, <4>2
      <4> QED BY <4>1, <4>2
    <3>8. ASSUME NEW v \in Writer \ overlapped, step'[v] # "ok"
          PROVE  tmpAt # v /\ \A u \in Writer : v \notin raw[u]
      BY <3>1, <3>3, <3>8
    <3> QED BY <3>1, <3>5, <3>7, <3>8
  <2> QED BY <2>1, <2>2
<1>9. ASSUME Secrets!EditCrash PROVE (file \in full \cup overlapped \cup {"old"})' /\ TextInv'
  BY <1>9 DEF Secrets!EditCrash, Secrets!Secrets
<1> QED BY <1>2, <1>3, <1>5, <1>6, <1>7, <1>8, <1>9 DEF Secrets!Next

(* The text and the writers, together.                                       *)
LEMMA EditsStep == ASSUME EditsInv, Secrets!Next \/ UNCHANGED OfSecrets PROVE EditsInv'
<1>1. ASSUME UNCHANGED OfSecrets PROVE EditsInv'
  BY <1>1 DEF EditsInv, Secrets!TypeOK, AloneInv, TextInv, Secrets!BusyNow, Secrets!Busy,
     Secrets!Secrets, OfSecrets
<1> QED BY <1>1, AloneStep, TextStep DEF EditsInv

(* Those that stay leave room for one more, and whoever goes is older than   *)
(* as many registrations as there is room for without one.                   *)
LEMMA PruningKeepsNewest ==
  ASSUME ClientsInv
  PROVE  /\ Registered!Pruned \subseteq clients /\ IsFiniteSet(Registered!Pruned)
         /\ Cardinality(Registered!Pruned) <= MaxClients - 1
         /\ \A c \in clients \ Registered!Pruned : begunRegs + 1 >= born[c] + MaxClients
  <1> DEFINE Newer(c) == {d \in clients : born[d] > born[c]}
             P == Registered!Pruned
  <1>0. MaxClients \in Nat \ {0}
    BY ResourcesAssumption
  <1>1. P = {c \in clients : Cardinality(Newer(c)) < MaxClients - 1}
    BY Counting DEF Registered!Pruned
  <1>2. P \subseteq clients /\ IsFiniteSet(P) /\ Cardinality(P) \in Nat
    BY <1>1, FS_Subset, FS_CardinalityType DEF ClientsInv
  <1>3. ASSUME NEW c \in clients PROVE IsFiniteSet(Newer(c)) /\ Cardinality(Newer(c)) \in Nat
    BY FS_Subset, FS_CardinalityType DEF ClientsInv
  <1>4. Cardinality(P) <= MaxClients - 1
    <2>1. CASE P = {}
      BY <1>0, <2>1, FS_EmptySet
    <2>2. CASE P # {}
      <3> DEFINE Times == {born[c] : c \in P}
      <3>1. Times \subseteq Nat /\ Times # {}
        BY <1>2, <2>2 DEF ClientsInv
      <3>2. PICK t \in Times : \A u \in Times : ~(<<u, t>> \in OpToRel(<, Nat))
        <4> HIDE DEF Times
        <4> QED BY <3>1, NatLessThanWellFounded, WFMin
      <3>3. PICK m \in P : born[m] = t
        OBVIOUS
      <3>4. \A c \in P : born[m] <= born[c]
        <4> SUFFICES ASSUME NEW c \in P, born[c] < born[m] PROVE FALSE
          BY <1>2 DEF ClientsInv
        <4>1. born[c] \in Times /\ born[c] \in Nat /\ t \in Nat /\ born[c] < t
          BY <3>1, <3>3
        <4> QED BY <3>2, <4>1 DEF OpToRel
      <3>5. P \ {m} \subseteq Newer(m)
        <4> SUFFICES ASSUME NEW c \in P, c # m PROVE c \in clients /\ born[c] > born[m]
          OBVIOUS
        <4>1. c \in clients /\ m \in clients /\ born[c] # born[m] /\ born[c] \in Nat /\ born[m] \in Nat
          BY <1>2 DEF ClientsInv
        <4> QED BY <3>4, <4>1
      <3>6. Cardinality(P \ {m}) = Cardinality(P) - 1
        BY <1>2, FS_RemoveElement
      <3>7. Cardinality(P \ {m}) <= Cardinality(Newer(m))
        BY <1>2, <1>3, <3>5, FS_Subset
      <3>8. Cardinality(Newer(m)) < MaxClients - 1 /\ Cardinality(Newer(m)) \in Nat
        BY <1>1, <1>2, <1>3
      <3> QED BY <1>0, <1>2, <3>6, <3>7, <3>8
    <2> QED BY <2>1, <2>2
  <1>5. ASSUME NEW c \in clients \ P PROVE begunRegs + 1 >= born[c] + MaxClients
    <2> DEFINE f == [d \in Newer(c) |-> born[d]]
               T == (born[c] + 1) .. begunRegs
    <2>1. born[c] \in Nat /\ begunRegs \in Nat /\ born[c] <= begunRegs
      BY DEF ClientsInv
    <2>2. IsFiniteSet(T) /\ Cardinality(T) = begunRegs - born[c]
      <3>1. born[c] + 1 \in Int /\ begunRegs \in Int
        BY <2>1
      <3>2. IsFiniteSet(T) /\ Cardinality(T) = IF born[c] + 1 > begunRegs THEN 0
                                              ELSE begunRegs - (born[c] + 1) + 1
        BY <3>1, FS_Interval
      <3> HIDE DEF T
      <3> QED BY <2>1, <3>2
    <2>3. f \in Injection(Newer(c), T)
      <3>1. \A d \in Newer(c) : f[d] \in T
        BY <2>1 DEF ClientsInv
      <3>2. \A d, e \in Newer(c) : d # e => f[d] # f[e]
        BY DEF ClientsInv
      <3> QED BY <3>1, <3>2 DEF Injection, IsInjective
    <2>4. Cardinality(Newer(c)) <= Cardinality(T)
      <3> HIDE DEF f, T, Newer
      <3> QED BY <2>2, <2>3, FS_Injection
    <2>5. ~(Cardinality(Newer(c)) < MaxClients - 1) /\ Cardinality(Newer(c)) \in Nat
      <3> HIDE DEF Newer, P
      <3> QED BY <1>1, <1>3, <1>5
    <2> HIDE DEF T, Newer
    <2> QED BY <1>0, <1>3, <2>1, <2>2, <2>4, <2>5
  <1> QED BY <1>2, <1>4, <1>5

(* Registering drops the oldest clients; the others come no further by it.   *)
LEMMA ClientsStep == ASSUME ClientsInv, Registered!Next \/ UNCHANGED OfClients PROVE ClientsInv'
<1> USE DEF ClientsInv, Registered!ClientsKept
<1> DEFINE P == Registered!Pruned
<1>0. MaxClients \in Nat \ {0}
  BY ResourcesAssumption
<1>a. /\ P \subseteq clients /\ IsFiniteSet(P) /\ Cardinality(P) <= MaxClients - 1 /\ Cardinality(P) \in Nat
      /\ \A c \in clients \ P : begunRegs + 1 >= born[c] + MaxClients
  BY PruningKeepsNewest, FS_CardinalityType
<1> HIDE DEF P
<1>1. ASSUME NEW c \in Client, Registered!RegisterClient(c) PROVE ClientsInv'
  <2>0. PICK kept \in SUBSET (clients \ P) :
          clients' = P \cup kept \cup {c} /\ undeleted' = undeleted \cup kept
    BY <1>1 DEF Registered!RegisterClient, Registered!Prune, P
  <2>1. /\ born' = [born EXCEPT ![c] = begunRegs + 1]
        /\ progress' = [progress EXCEPT ![c] = "registered"] /\ begunRegs' = begunRegs + 1
        /\ born[c] = 0 /\ c \notin clients
    BY <1>1 DEF Registered!RegisterClient, Registered!Registers
  <2>2. IsFiniteSet(clients') /\ Registered!Cardinality(clients' \ undeleted') <= MaxClients
    <3>1. IsFiniteSet(P \cup {c}) /\ Cardinality(P \cup {c}) \in {Cardinality(P), Cardinality(P) + 1}
      BY <1>a, FS_AddElement
    <3>2. IsFiniteSet(kept) /\ IsFiniteSet(clients')
      <4>1. IsFiniteSet(kept)
        BY <2>0, FS_Subset
      <4> DEFINE Q == P \cup {c}
      <4>2. IsFiniteSet(Q)
        BY <3>1
      <4>3. clients' = Q \cup kept
        BY <2>0
      <4> HIDE DEF Q
      <4>4. IsFiniteSet(Q \cup kept)
        BY <4>1, <4>2, FS_Union
      <4> QED BY <4>1, <4>3, <4>4
    <3>3. clients' \ undeleted' \subseteq P \cup {c}
      BY <2>0
    <3>4. /\ Cardinality(clients' \ undeleted') <= Cardinality(P \cup {c})
          /\ Cardinality(clients' \ undeleted') \in Nat
      BY <3>1, <3>3, FS_Subset, FS_CardinalityType
    <3> QED BY <1>0, <1>a, <3>1, <3>2, <3>4, Counting
  <2>3. \A d \in Client : born'[d] = IF d = c THEN begunRegs + 1 ELSE born[d]
    BY <2>1
  <2>4. \A d \in Client : born'[d] # 0 /\ d \notin clients' => begunRegs' >= born'[d] + MaxClients
    <3> SUFFICES ASSUME NEW d \in Client, born[d] # 0, d \notin P, d # c
                 PROVE  begunRegs + 1 >= born[d] + MaxClients
      BY <2>0, <2>1, <2>3
    <3> QED BY <1>0, <1>a
  <2>5. \A d \in Client : progress'[d] = "unknown" => begunRegs' >= born'[d] + MaxClients
    BY <1>0, <2>1, <2>3
  <2>6. \A d, e \in Client : d # e /\ born'[d] # 0 => born'[d] # born'[e]
    BY <2>1, <2>3
  <2>7. \A d \in Client : born'[d] <= begunRegs' /\ (progress'[d] # "none" => born'[d] # 0)
    BY <2>1, <2>3
  <2>8. born' \in [Client -> Nat] /\ \A d \in clients' : born'[d] # 0
    BY <1>a, <2>0, <2>1, <2>3
  <2>9. clients' \subseteq Client /\ undeleted' \subseteq Client /\ begunRegs' \in Nat
    BY <1>a, <2>0, <2>1
  <2> QED BY <2>1, <2>2, <2>4, <2>5, <2>6, <2>7, <2>8, <2>9
<1>2. ASSUME Registered!RegisterCut PROVE ClientsInv'
  <2>0. PICK kept \in SUBSET (clients \ P) :
          clients' = P \cup kept /\ undeleted' = undeleted \cup kept
    BY <1>2 DEF Registered!RegisterCut, Registered!Prune, P
  <2>1. begunRegs' = begunRegs + 1 /\ UNCHANGED <<born, progress>>
    BY <1>2 DEF Registered!RegisterCut, Registered!Registers
  <2>2. IsFiniteSet(clients') /\ Registered!Cardinality(clients' \ undeleted') <= MaxClients
    <3>1. clients' \subseteq clients /\ clients' \ undeleted' \subseteq P
      BY <1>a, <2>0
    <3>2. /\ Cardinality(clients' \ undeleted') <= Cardinality(P)
          /\ Cardinality(clients' \ undeleted') \in Nat /\ IsFiniteSet(clients')
      BY <1>a, <3>1, FS_Subset, FS_CardinalityType
    <3> QED BY <1>0, <1>a, <3>2, Counting
  <2>3. \A d \in Client : born[d] # 0 /\ d \notin P => begunRegs + 1 >= born[d] + MaxClients
    BY <1>0, <1>a
  <2>4. \A d \in Client : progress[d] = "unknown" => begunRegs + 1 >= born[d] + MaxClients
    BY <1>0
  <2> QED BY <1>a, <2>0, <2>1, <2>2, <2>3, <2>4
<1>3. ASSUME NEW c \in Client, Registered!Authorize(c) PROVE ClientsInv'
  BY <1>3, <1>0 DEF Registered!Authorize
<1>4. ASSUME NEW c \in Client, Registered!Exchange(c) PROVE ClientsInv'
  BY <1>4, <1>0 DEF Registered!Exchange
<1>5. ASSUME UNCHANGED OfClients PROVE ClientsInv'
  BY <1>5, Counting DEF OfClients
<1> QED BY <1>1, <1>2, <1>3, <1>4, <1>5 DEF Registered!Next

(* What a list of one or two paths has left, from the first or the second.   *)
LEMMA PathsLeft ==
  ASSUME NEW p, NEW q
  PROVE  /\ {<<>>[n] : n \in 1 .. Len(<<>>)} = {}
         /\ {<<q>>[n] : n \in 1 .. Len(<<q>>)} = {q} /\ {<<q>>[n] : n \in 2 .. Len(<<q>>)} = {}
         /\ {<<p, q>>[n] : n \in 1 .. Len(<<p, q>>)} = {p, q}
         /\ {<<p, q>>[n] : n \in 2 .. Len(<<p, q>>)} = {q}
         /\ Head(<<q>>) = q /\ Tail(<<q>>) = <<>> /\ Head(<<p, q>>) = p /\ Tail(<<p, q>>) = <<q>>
         /\ <<q>> # <<>> /\ <<p, q>> # <<>>
  <1>1. {<<>>[n] : n \in 1 .. Len(<<>>)} = {}
    OBVIOUS
  <1>2. Len(<<q>>) = 1 /\ <<q>>[1] = q /\ Len(<<p, q>>) = 2 /\ <<p, q>>[1] = p /\ <<p, q>>[2] = q
    OBVIOUS
  <1>3. 1 .. 1 = {1} /\ 2 .. 1 = {} /\ 1 .. 2 = {1, 2} /\ 2 .. 2 = {2}
    OBVIOUS
  <1>4. {<<q>>[n] : n \in 1 .. Len(<<q>>)} = {q} /\ {<<q>>[n] : n \in 2 .. Len(<<q>>)} = {}
    BY <1>2, <1>3, Zenon
  <1>5. {<<p, q>>[n] : n \in 1 .. Len(<<p, q>>)} = {p, q} /\ {<<p, q>>[n] : n \in 2 .. Len(<<p, q>>)} = {q}
    BY <1>2, <1>3, Zenon
  <1>6. Head(<<q>>) = q /\ Tail(<<q>>) = <<>> /\ Head(<<p, q>>) = p /\ Tail(<<p, q>>) = <<q>>
    OBVIOUS
  <1> QED BY <1>1, <1>2, <1>4, <1>5, <1>6

(* A step that makes copies or drops them: earlier numbers keep what they    *)
(* stood for, a copy goes for a reason, and a new one is of now.             *)
Grows ==
  /\ second <= second' /\ dropped \subseteq dropped'
  /\ \A p \in Path : Len(taken[p]) <= Len(taken'[p])
  /\ \A p \in Path : \A n \in DOMAIN taken[p] : n \in DOMAIN taken'[p] /\ taken'[p][n] = taken[p][n]
  /\ \A c \in copies : c \in copies' \/ Gone(c.path, c.n)'
  /\ \A c \in copies' : c \in copies \/ (c.at >= second /\ c.n > Len(taken[c.path]))

(* What is known of the copies of a path stays so as its numbers grow.       *)
LEMMA GrowthKeeps ==
  ASSUME CopiesType, CopiesType', Grows, NEW p \in Path
  PROVE  /\ \A n \in Nat : Gone(p, n) => Gone(p, n)'
         /\ \A n \in Nat, t \in Nat : Offered(p, n, t) => Offered(p, n, t)'
         /\ \A t \in Nat : Numbered(p, t) => Numbered(p, t)'
         /\ \A v : WasTaken(p, v) => WasTaken(p, v)'
  <1>0. /\ MaxPerPath \in Nat /\ second \in Nat /\ second' \in Nat
        /\ Len(taken[p]) \in Nat /\ Len(taken'[p]) \in Nat /\ Len(taken[p]) <= Len(taken'[p])
        /\ DOMAIN taken[p] = 1 .. Len(taken[p]) /\ DOMAIN taken'[p] = 1 .. Len(taken'[p])
    <2>1. MaxPerPath \in Nat
      BY ResourcesAssumption
    <2> QED BY <2>1 DEF CopiesType, Grows
  <1>1. \A n \in Nat : Gone(p, n) => Gone(p, n)'
    BY <1>0 DEF Gone, Copied!Within, Grows
  <1>2. ASSUME NEW n \in Nat, NEW t \in Nat, Offered(p, n, t) PROVE Offered(p, n, t)'
    BY <1>1, <1>2 DEF Offered, Grows
  <1>3. ASSUME NEW t \in Nat, Numbered(p, t) PROVE Numbered(p, t)'
    <2>1. PICK k \in DOMAIN taken[p] : \A c \in copies : c.path = p =>
            (c.at < t => c.n < k) /\ (c.at > t => c.n > k)
      BY <1>3 DEF Numbered
    <2>2. k \in DOMAIN taken'[p] /\ t <= second /\ t <= second'
      BY <1>0, <1>3 DEF Grows, Numbered
    <2>3. ASSUME NEW c \in copies', c.path = p
          PROVE  (c.at < t => c.n < k) /\ (c.at > t => c.n > k)
      <3>1. CASE c \in copies
        BY <2>1, <2>3, <3>1
      <3>2. CASE c \notin copies
        <4>1. c.at >= second /\ c.n > Len(taken[p]) /\ c.at \in Nat /\ c.n \in Nat
          BY <2>3, <3>2 DEF Grows, CopiesType
        <4> QED BY <1>0, <2>1, <2>2, <4>1
      <3> QED BY <3>1, <3>2
    <2> QED BY <2>2, <2>3 DEF Numbered
  <1>4. \A v : WasTaken(p, v) => WasTaken(p, v)'
    BY DEF WasTaken, Grows
  <1> QED BY <1>1, <1>2, <1>3, <1>4

(* What a call has copied stays copied, and what it was offered stays there  *)
(* or goes for a reason; files that change under it are raced.               *)
LEMMA CallGrows ==
  ASSUME CopiesType, CopiesType', Grows, NEW e \in Edit, CallInv(e),
         edit[e].step \in {"checked", "copied"}, edit'[e].what = edit[e].what,
         edit'[e].path = edit[e].path, edit'[e].source = edit[e].source, edit'[e].n = edit[e].n,
         edit[e].raced \subseteq edit'[e].raced,
         \A p \in Copied!Copied(e) : current'[p] # current[p] => p \in edit'[e].raced
  PROVE  /\ \A p \in Copied!Copied(e) \ edit'[e].raced : current'[p] # 0 => WasTaken(p, current[p])'
         /\ edit'[e].what = "restore" => Offered(edit[e].path, edit[e].n, edit[e].source)'
  <1>0. edit[e].n \in Nat /\ edit[e].source \in Nat
    BY DEF CopiesType, Call
  <1>1. ASSUME NEW p \in Copied!Copied(e), p \notin edit'[e].raced, current'[p] # 0
        PROVE  WasTaken(p, current[p])'
    <2>1. p \in Path
      BY DEF Copied!Copied, CallInv
    <2>2. current'[p] = current[p] /\ WasTaken(p, current[p])
      BY <1>1 DEF CallInv
    <2>3. \A w : WasTaken(p, w) => \E n \in DOMAIN taken'[p] : taken'[p][n] = w
      BY <2>1, GrowthKeeps DEF WasTaken
    <2> QED BY <2>2, <2>3 DEF WasTaken
  <1>2. ASSUME edit'[e].what = "restore" PROVE Offered(edit[e].path, edit[e].n, edit[e].source)'
    <2> DEFINE p == edit[e].path
               n == edit[e].n
               t == edit[e].source
    <2>1. p \in Path /\ Offered(p, n, t)
      BY <1>2 DEF CallInv
    <2>2. edit'[e].path = p /\ edit'[e].n = n /\ edit'[e].source = t
      OBVIOUS
    <2>3. \/ <<p, n>> \in dropped' \/ ~(n + MaxPerPath > Len(taken'[p]))
          \/ \E c \in copies' : c.path = p /\ c.n = n /\ c.at = t
      BY <1>0, <2>1, GrowthKeeps DEF Offered, Gone, Copied!Within
    <2> QED BY <2>2, <2>3 DEF Offered, Gone, Copied!Within
  <1> QED BY <1>1, <1>2

(* A call to which nothing happens but that files change.                    *)
LEMMA CallKept ==
  ASSUME CopiesType, CopiesType', Grows, NEW e \in Edit, CallInv(e),
         edit'[e].step = edit[e].step, edit'[e].what = edit[e].what,
         edit'[e].path = edit[e].path, edit'[e].to = edit[e].to,
         edit'[e].source = edit[e].source, edit'[e].n = edit[e].n,
         edit'[e].left = edit[e].left, edit'[e].stamp = edit[e].stamp,
         edit[e].raced \subseteq edit'[e].raced,
         \A p \in Copied!Copied(e) : current'[p] # current[p] => p \in edit'[e].raced
  PROVE  CallInv(e)'
  <1>0. edit[e].n \in Nat /\ edit[e].stamp \in Nat /\ edit[e].left \in Seq(Path)
    BY DEF CopiesType, Call
  <1>1. Copied!Copied(e)' = Copied!Copied(e)
    BY DEF Copied!Copied
  <1>2. ASSUME edit[e].step \in {"checked", "copied"}
        PROVE  /\ \A p \in (Copied!Copied(e) \ edit[e].raced)' : current'[p] # 0 => WasTaken(p, current[p])'
               /\ edit'[e].what = "restore" => Offered(edit[e].path, edit[e].n, edit[e].source)'
    BY <1>1, <1>2, CallGrows
  <1>3. edit[e].step = "copied" => Head(edit[e].left) \in Path
    BY <1>0 DEF CallInv
  <1>4. (edit[e].step = "copied" => edit[e].left # <<>> /\ Numbered(Head(edit[e].left), edit[e].stamp))'
    BY <1>0, <1>3, GrowthKeeps DEF CallInv, Numbered
  <1>5. ASSUME edit[e].step = "missing" PROVE edit[e].path \in Path /\ Gone(edit[e].path, edit[e].n)'
    <2> DEFINE p == edit[e].path
               n == edit[e].n
    <2>1. p \in Path /\ Gone(p, n) /\ edit'[e].path = p /\ edit'[e].n = n
      BY <1>5 DEF CallInv
    <2>2. <<p, n>> \in dropped' \/ ~(n + MaxPerPath > Len(taken'[p]))
      BY <1>0, <2>1, GrowthKeeps DEF Gone, Copied!Within
    <2> QED BY <2>1, <2>2 DEF Gone, Copied!Within
  <1> QED BY <1>2, <1>4, <1>5 DEF CallInv

(* A call that goes on with its paths: what it has copied then is what it    *)
(* had, and the first of those that were left.                               *)
LEMMA PathsAdvance ==
  ASSUME NEW e \in Edit, CallInv(e), edit[e].left # <<>>, edit[e].step \in {"checked", "copied"},
         edit'[e].path = edit[e].path, edit'[e].to = edit[e].to,
         \/ edit'[e].step = "copied" /\ edit'[e].left = edit[e].left
         \/ edit'[e].step = "checked" /\ edit'[e].left = Tail(edit[e].left)
  PROVE  /\ Head(edit[e].left) \in Path
         /\ Copied!Copied(e)' \subseteq Copied!Copied(e) \cup {Head(edit[e].left)}
         /\ edit[e].step = "copied" => Copied!Copied(e)' \subseteq Copied!Copied(e)
         /\ \/ edit'[e].left \in {<<>>, <<edit[e].to>>}
            \/ edit[e].path # edit[e].to /\ edit'[e].left = <<edit[e].path, edit[e].to>>
  <1> DEFINE p == edit[e].path
             q == edit[e].to
             Left(s, l) == {l[n] : n \in (IF s = "copied" THEN 2 ELSE 1) .. Len(l)}
  <1>1. Copied!Copied(e) = {p, q} \ Left(edit[e].step, edit[e].left)
    BY DEF Copied!Copied
  <1>2. Copied!Copied(e)' = {p, q} \ Left(edit'[e].step, edit'[e].left)
    BY DEF Copied!Copied
  <1>3. p \in Path /\ q \in Path
    BY DEF CallInv
  <1>4. CASE edit[e].left = <<q>>
    <2>1. Left("checked", edit[e].left) = {q} /\ Left("copied", edit[e].left) = {}
          /\ Head(edit[e].left) = q /\ Tail(edit[e].left) = <<>> /\ Left("checked", <<>>) = {}
      BY <1>4, PathsLeft
    <2> HIDE DEF Left
    <2> QED BY <1>1, <1>2, <1>3, <1>4, <2>1
  <1>5. CASE p # q /\ edit[e].left = <<p, q>>
    <2>1. Left("checked", edit[e].left) = {p, q} /\ Left("copied", edit[e].left) = {q}
          /\ Head(edit[e].left) = p /\ Tail(edit[e].left) = <<q>> /\ Left("checked", <<q>>) = {q}
      BY <1>5, PathsLeft
    <2> HIDE DEF Left
    <2> QED BY <1>1, <1>2, <1>3, <1>5, <2>1
  <1> QED BY <1>4, <1>5 DEF CallInv

(* Such a call keeps its invariant: the first of its paths was copied now or *)
(* before, or there is no such file.                                         *)
LEMMA CallAdvances ==
  ASSUME CopiesType, CopiesType', Grows, NEW e \in Edit, CallInv(e),
         edit[e].left # <<>>, edit[e].step \in {"checked", "copied"},
         edit'[e].path = edit[e].path, edit'[e].to = edit[e].to, edit'[e].what = edit[e].what,
         edit'[e].source = edit[e].source, edit'[e].n = edit[e].n, edit'[e].raced = edit[e].raced,
         current' = current,
         \/ edit'[e].step = "copied" /\ edit'[e].left = edit[e].left
         \/ edit'[e].step = "checked" /\ edit'[e].left = Tail(edit[e].left),
         \/ edit[e].step = "copied"
         \/ current[Head(edit[e].left)] = 0
         \/ \E n \in DOMAIN taken'[Head(edit[e].left)] :
              taken'[Head(edit[e].left)][n] = current[Head(edit[e].left)],
         edit'[e].step = "copied" => Numbered(Head(edit[e].left), edit[e].stamp)'
  PROVE  CallInv(e)'
  <1>1. /\ \A p \in Copied!Copied(e) \ edit'[e].raced : current'[p] # 0 => WasTaken(p, current[p])'
        /\ edit'[e].what = "restore" => Offered(edit[e].path, edit[e].n, edit[e].source)'
    BY CallGrows
  <1>2. ASSUME NEW p \in (Copied!Copied(e) \ edit[e].raced)', current'[p] # 0
        PROVE  WasTaken(p, current[p])'
    <2>1. CASE p \in Copied!Copied(e)
      BY <1>1, <1>2, <2>1
    <2>2. CASE p \notin Copied!Copied(e)
      <3>1. p = Head(edit[e].left) /\ edit[e].step # "copied"
        BY <2>2, PathsAdvance
      <3> QED BY <1>2, <3>1 DEF WasTaken
    <2> QED BY <2>1, <2>2
  <1>3. edit'[e].path \in Path /\ edit'[e].to \in Path
    BY DEF CallInv
  <1> QED BY <1>1, <1>2, <1>3, PathsAdvance DEF CallInv

(* A new copy has the last number of its path; what had its name is dropped. *)
LEMMA CopyMade ==
  ASSUME CopiesType, NumbersInv, NEW p \in Path, NEW v \in Nat, NEW t \in Nat, Copied!Copies(p, v, t)
  PROVE  /\ taken' \in [Path -> Seq(Nat)] /\ second' \in Nat /\ IsFiniteSet(copies')
         /\ copies' \in SUBSET [at : Nat, path : Path, ver : Nat, n : Nat]
         /\ Grows /\ NumbersInv'
         /\ Numbered(p, t)' /\ \E n \in DOMAIN taken'[p] : taken'[p][n] = v
  <1> DEFINE k == Len(taken[p]) + 1
             new == [at |-> t, path |-> p, ver |-> v, n |-> k]
             old == {c \in copies : c.path = p /\ c.at = t}
  <1>1. /\ second \in Nat /\ t >= second /\ second' = t
        /\ copies' = (copies \ old) \cup {new}
        /\ taken' = [taken EXCEPT ![p] = Append(taken[p], v)]
        /\ dropped' = dropped \cup {<<p, c.n>> : c \in old}
    <2>1. second \in Nat /\ t \in second .. MaxSecond
      BY DEF Copied!Copies, CopiesType
    <2> QED BY <2>1 DEF Copied!Copies, Copied!Named
  <1>2. new.at = t /\ new.path = p /\ new.ver = v /\ new.n = k
        /\ new \in [at : Nat, path : Path, ver : Nat, n : Nat]
    BY DEF CopiesType
  <1>3. \A c \in copies : c.at \in Nat /\ c.n \in Nat /\ c.path \in Path
    BY DEF CopiesType
  <1>4. \A q \in Path : Len(taken[q]) \in Nat /\ DOMAIN taken[q] = 1 .. Len(taken[q])
    BY DEF CopiesType
  <1>5. \A q \in Path \ {p} : taken'[q] = taken[q]
    BY <1>1 DEF CopiesType
  <1>6. /\ taken'[p] \in Seq(Nat) /\ Len(taken'[p]) = k /\ DOMAIN taken'[p] = 1 .. k /\ taken'[p][k] = v
        /\ \A n \in 1 .. Len(taken[p]) : taken'[p][n] = taken[p][n]
    <2>1. taken[p] \in Seq(Nat) /\ taken'[p] = Append(taken[p], v)
      BY <1>1 DEF CopiesType
    <2> QED BY <2>1
  <1> HIDE DEF new
  <1>7. \A c \in copies : c.at <= second /\ c.n \in 1 .. Len(taken[c.path])
    BY <1>3, <1>4 DEF NumbersInv
  <1>8. taken' \in [Path -> Seq(Nat)] /\ second' \in Nat
    BY <1>1, <1>5, <1>6 DEF CopiesType
  <1>9. IsFiniteSet(copies') /\ copies' \in SUBSET [at : Nat, path : Path, ver : Nat, n : Nat]
    <2>1. IsFiniteSet(copies \ old) /\ copies \ old \subseteq copies
      BY FS_Subset DEF CopiesType
    <2> QED BY <1>1, <1>2, <2>1, FS_AddElement DEF CopiesType
  <1>10. \A c \in copies : c \in copies' \/ <<c.path, c.n>> \in dropped'
    BY <1>1
  <1>11. Grows
    <2>1. \A q \in Path : Len(taken[q]) <= Len(taken'[q])
      BY <1>4, <1>5, <1>6
    <2>2. \A q \in Path : \A n \in DOMAIN taken[q] : n \in DOMAIN taken'[q] /\ taken'[q][n] = taken[q][n]
      <3>1. \A n \in 1 .. Len(taken[p]) : n \in 1 .. k
        BY <1>4
      <3>2. \A n \in DOMAIN taken[p] : n \in DOMAIN taken'[p] /\ taken'[p][n] = taken[p][n]
        BY <1>4, <1>6, <3>1
      <3> QED BY <1>5, <3>2
    <2>3. \A c \in copies' : c \in copies \/ (c.at >= second /\ c.n > Len(taken[c.path]))
      <3>1. k > Len(taken[p])
        BY <1>4
      <3>2. new.at >= second /\ new.n > Len(taken[new.path])
        BY <1>1, <1>2, <3>1
      <3> QED BY <1>1, <3>2
    <2>4. \A c \in copies : c \in copies' \/ Gone(c.path, c.n)'
      BY <1>10 DEF Gone
    <2> QED BY <1>1, <2>1, <2>2, <2>3, <2>4 DEF Grows
  <1>12. \A c \in copies' : c.at <= second' /\ c.n \in DOMAIN taken'[c.path]
    <2>1. \A c \in copies : c.at <= second' /\ c.n \in DOMAIN taken'[c.path]
      BY <1>1, <1>3, <1>7, <1>11, <1>4 DEF Grows
    <2>2. k \in 1 .. k
      BY <1>4
    <2> QED BY <1>1, <1>2, <1>6, <2>1, <2>2
  <1>13. ASSUME NEW c \in copies', NEW d \in copies', c.path = d.path
         PROVE  (c.at < d.at => c.n < d.n) /\ (c.at = d.at => c = d)
    <2>1. CASE c \in copies \ old /\ d \in copies \ old
      BY <1>13, <2>1 DEF NumbersInv
    <2>2. CASE c \in copies \ old /\ d = new
      <3>1. c.at < t /\ c.n < k
        BY <1>1, <1>2, <1>3, <1>4, <1>7, <1>13, <2>2
      <3> QED BY <1>2, <1>3, <2>2, <3>1
    <2>3. CASE c = new /\ d \in copies \ old
      <3>1. d.at < t
        BY <1>1, <1>2, <1>3, <1>7, <1>13, <2>3
      <3> QED BY <1>2, <1>3, <2>3, <3>1
    <2>4. CASE c = new /\ d = new
      BY <1>2, <2>4
    <2> QED BY <1>1, <2>1, <2>2, <2>3, <2>4
  <1>14. ASSUME NEW q \in Path, NEW n \in DOMAIN taken'[q]
         PROVE  Gone(q, n)' \/ \E c \in copies' : c.path = q /\ c.n = n /\ c.ver = taken'[q][n]
    <2>1. CASE n \in DOMAIN taken[q]
      <3>1. taken'[q][n] = taken[q][n] /\ n \in Nat
        BY <1>4, <1>11, <2>1 DEF Grows
      <3>2. CASE Gone(q, n)
        <4>1. Len(taken[q]) <= Len(taken'[q]) /\ Len(taken'[q]) \in Nat /\ MaxPerPath \in Nat
          BY <1>8, <1>11, ResourcesAssumption DEF Grows
        <4> QED BY <1>1, <1>4, <3>1, <3>2, <4>1 DEF Gone, Copied!Within
      <3>3. CASE \E c \in copies : c.path = q /\ c.n = n /\ c.ver = taken[q][n]
        BY <3>1, <3>3, <1>10 DEF Gone
      <3> QED BY <2>1, <3>2, <3>3 DEF NumbersInv
    <2>2. CASE n \notin DOMAIN taken[q]
      <3>1. q = p /\ n = k
        BY <1>4, <1>5, <1>6, <2>2
      <3> QED BY <1>1, <1>2, <1>6, <3>1
    <2> QED BY <2>1, <2>2
  <1>15. NumbersInv'
    BY <1>12, <1>13, <1>14 DEF NumbersInv
  <1>16. Numbered(p, t)'
    <2>1. k \in DOMAIN taken'[p] /\ t <= second'
      BY <1>1, <1>4, <1>6
    <2>2. \A c \in copies' : c.path = p => (c.at < t => c.n < k) /\ (c.at > t => c.n > k)
      <3>1. \A c \in copies : c.path = p => c.at <= t /\ c.n < k
        BY <1>1, <1>3, <1>4, <1>7
      <3> QED BY <1>1, <1>2, <1>3, <3>1
    <2> QED BY <2>1, <2>2 DEF Numbered
  <1>17. \E n \in DOMAIN taken'[p] : taken'[p][n] = v
    BY <1>4, <1>6
  <1> QED BY <1>8, <1>9, <1>11, <1>15, <1>16, <1>17

(* What goes for the limit of its path, and is older than the copy just      *)
(* made, is behind it and as many others as the limit leaves room for.       *)
LEMMA RotatedIsOld ==
  ASSUME CopiesType, NumbersInv, NEW p \in Path, NEW t \in Nat, Numbered(p, t),
         NEW c \in Copied!Rotated(p, t), ~(c.at > t)
  PROVE  c \in copies /\ c.path = p /\ ~Copied!Within(p, c.n)
  <1> DEFINE L == Len(taken[p])
             Others == {d \in copies : d.path = p /\ d.at # t}
             Newer == {d \in Others : d.at > c.at}
             T == (c.n + 1) .. L
  <1>1. c \in Others /\ Cardinality(Newer) + 1 >= MaxPerPath
    BY Counting DEF Copied!Rotated
  <1>2. PICK k \in DOMAIN taken[p] : \A d \in copies : d.path = p =>
          (d.at < t => d.n < k) /\ (d.at > t => d.n > k)
    BY DEF Numbered
  <1>3. /\ L \in Nat /\ DOMAIN taken[p] = 1 .. L /\ MaxPerPath \in Nat
        /\ \A d \in copies : d.at \in Nat /\ d.n \in Nat
    <2>1. taken[p] \in Seq(Nat)
      BY DEF CopiesType
    <2>2. \A d \in copies : d.at \in Nat /\ d.n \in Nat
      BY DEF CopiesType
    <2>3. MaxPerPath \in Nat
      BY ResourcesAssumption
    <2> QED BY <2>1, <2>2, <2>3
  <1>4. \A d \in Others : d.n \in 1 .. L /\ d.n # k
    BY <1>2, <1>3 DEF NumbersInv
  <1>5. c.n < k /\ k <= L /\ c.n \in Nat /\ k \in Nat
    BY <1>1, <1>2, <1>3
  <1>6. IsFiniteSet(Newer) /\ Cardinality(Newer) \in Nat
    <2>1. IsFiniteSet(copies) /\ Newer \subseteq copies
      BY DEF CopiesType
    <2> QED BY <2>1, FS_Subset, FS_CardinalityType
  <1>7. IsFiniteSet(T \ {k}) /\ Cardinality(T \ {k}) = L - c.n - 1
    <2>1. c.n + 1 \in Int /\ L \in Int /\ k \in T
      BY <1>3, <1>5
    <2>2. IsFiniteSet(T) /\ Cardinality(T) = IF c.n + 1 > L THEN 0 ELSE L - (c.n + 1) + 1
      BY <2>1, FS_Interval
    <2>3. IsFiniteSet(T \ {k}) /\ Cardinality(T \ {k}) = Cardinality(T) - 1
      <3> HIDE DEF T
      <3> QED BY <2>1, <2>2, FS_RemoveElement
    <2> HIDE DEF T, L
    <2> QED BY <1>3, <1>5, <2>2, <2>3
  <1>8. Cardinality(Newer) <= Cardinality(T \ {k})
    <2> DEFINE f == [d \in Newer |-> d.n]
    <2>1. \A d \in Newer : d.n \in T \ {k}
      <3> SUFFICES ASSUME NEW d \in Newer PROVE d.n \in T \ {k}
        OBVIOUS
      <3>1. d \in copies /\ c \in copies /\ d.path = c.path /\ c.at < d.at
        BY <1>1, <1>3
      <3>2. c.n < d.n
        BY <3>1 DEF NumbersInv
      <3>3. d.n \in 1 .. L /\ d.n # k /\ d.n \in Nat /\ c.n \in Nat
        BY <1>4, <1>5, <1>3
      <3> HIDE DEF L
      <3> QED BY <1>3, <3>2, <3>3
    <2>2. \A d, e \in Newer : d.n = e.n => d = e
      <3> SUFFICES ASSUME NEW d \in Newer, NEW e \in Newer, d.n = e.n PROVE d = e
        OBVIOUS
      <3>1. d \in copies /\ e \in copies /\ d.path = e.path /\ d.at \in Nat /\ e.at \in Nat
            /\ d.n \in Nat /\ e.n \in Nat
        BY <1>3
      <3>2. ~(d.at < e.at) /\ ~(e.at < d.at)
        BY <3>1 DEF NumbersInv
      <3>3. d.at = e.at
        BY <3>1, <3>2
      <3> QED BY <3>1, <3>3 DEF NumbersInv
    <2>3. f \in Injection(Newer, T \ {k})
      <3>1. \A d \in Newer : f[d] \in T \ {k}
        BY <2>1
      <3>2. \A d, e \in Newer : f[d] = f[e] => d = e
        BY <2>2
      <3> HIDE DEF Newer, T
      <3> QED BY <3>1, <3>2 DEF Injection, IsInjective
    <2> HIDE DEF f, T, Newer
    <2> QED BY <1>7, <2>3, FS_Injection
  <1>9. ~(c.n + MaxPerPath > L)
    <2> HIDE DEF T, L, Newer
    <2> QED BY <1>1, <1>3, <1>5, <1>6, <1>7, <1>8
  <1> QED BY <1>1, <1>9 DEF Copied!Within

(* Dropping copies: each goes for its reason, and no other changes.          *)
LEMMA CopiesDropped ==
  ASSUME CopiesType, NumbersInv, NEW e \in Edit, CallInv(e), Copied!BackupRotates(e)
  PROVE  copies' \subseteq copies /\ IsFiniteSet(copies') /\ Grows /\ NumbersInv'
  <1> DEFINE p == Head(edit[e].left)
             t == edit[e].stamp
             Kept == copies \ Copied!Rotated(p, t)
  <1>1. p \in Path /\ t \in Nat /\ Numbered(p, t)
    <2>1. edit[e].left \in Seq(Path) /\ edit[e].stamp \in Nat /\ edit[e].step = "copied"
      BY DEF CopiesType, Call, Copied!BackupRotates
    <2> QED BY <2>1 DEF CallInv
  <1>2. PICK now \in Copied!Trimmed(Kept, Copied!Named(p, t)) :
          /\ copies' = now
          /\ dropped' = dropped \cup
               {<<c.path, c.n>> : c \in (Kept \ now) \cup {c \in Copied!Rotated(p, t) : c.at > t}}
    BY DEF Copied!BackupRotates
  <1>3. UNCHANGED <<second, taken>>
    BY DEF Copied!BackupRotates
  <1>4. now \subseteq Kept
    BY DEF Copied!Trimmed
  <1>5. copies' \subseteq copies
    BY <1>2, <1>4
  <1>6. \A c \in copies : c \in copies' \/ Gone(c.path, c.n)'
    <2> SUFFICES ASSUME NEW c \in copies, c \notin copies' PROVE Gone(c.path, c.n)'
      OBVIOUS
    <2>1. CASE <<c.path, c.n>> \in dropped'
      BY <2>1 DEF Gone
    <2>2. CASE c \in Copied!Rotated(p, t) /\ ~(c.at > t)
      <3>1. c.path = p /\ ~(c.n + MaxPerPath > Len(taken[p]))
        BY <1>1, <2>2, RotatedIsOld DEF Copied!Within
      <3> QED BY <1>3, <3>1 DEF Gone, Copied!Within
    <2> QED BY <1>2, <2>1, <2>2
  <1>7. second \in Nat /\ \A q \in Path : Len(taken[q]) \in Nat
    BY DEF CopiesType
  <1>8. Grows
    <2>1. second <= second' /\ dropped \subseteq dropped'
      BY <1>2, <1>3, <1>7
    <2>2. \A q \in Path : Len(taken[q]) <= Len(taken'[q])
      BY <1>3, <1>7
    <2>3. \A q \in Path : \A n \in DOMAIN taken[q] : n \in DOMAIN taken'[q] /\ taken'[q][n] = taken[q][n]
      BY <1>3
    <2> QED BY <1>5, <1>6, <2>1, <2>2, <2>3 DEF Grows
  <1>9. NumbersInv'
    <2>1. \A q \in Path : \A n \in DOMAIN taken[q] : Gone(q, n) => Gone(q, n)'
      BY <1>2, <1>3 DEF Gone, Copied!Within
    <2>2. \A q \in Path : \A n \in DOMAIN taken'[q] :
            Gone(q, n)' \/ \E c \in copies' : c.path = q /\ c.n = n /\ c.ver = taken'[q][n]
      BY <1>3, <1>6, <2>1 DEF NumbersInv
    <2> QED BY <1>3, <1>5, <2>2 DEF NumbersInv
  <1>10. IsFiniteSet(copies')
    BY <1>5, FS_Subset DEF CopiesType
  <1> QED BY <1>5, <1>8, <1>9, <1>10

(* The changes of a call's record.                                           *)
LEMMA CallsMove ==
  ASSUME NEW r \in Call
  PROVE  /\ \A x \in SUBSET Path : [r EXCEPT !.raced = x] \in Call
         /\ \A l \in Seq(Path) : [r EXCEPT !.left = l] \in Call
         /\ \A t \in Nat : [r EXCEPT !.step = "copied", !.stamp = t] \in Call
         /\ \A l \in Seq(Path) : [r EXCEPT !.step = "checked", !.left = l] \in Call
  <1>1. \A x \in SUBSET Path : [r EXCEPT !.raced = x] \in Call
    BY DEF Call
  <1>2. \A l \in Seq(Path) : [r EXCEPT !.left = l] \in Call
    BY DEF Call
  <1>3. \A t \in Nat : [r EXCEPT !.step = "copied", !.stamp = t] \in Call
    BY DEF Call
  <1>4. \A l \in Seq(Path) : [r EXCEPT !.step = "checked", !.left = l] \in Call
    BY DEF Call
  <1> QED BY <1>1, <1>2, <1>3, <1>4

(* Where the copies stay as they are, so does what is known of them.         *)
LEMMA NoCopyGrows ==
  ASSUME CopiesType, UNCHANGED <<copies, second, taken, dropped>>
  PROVE  /\ Grows /\ (NumbersInv => NumbersInv')
         /\ taken' \in [Path -> Seq(Nat)] /\ second' \in Nat /\ IsFiniteSet(copies')
         /\ copies' \in SUBSET [at : Nat, path : Path, ver : Nat, n : Nat]
         /\ \A p, v : WasTaken(p, v) => WasTaken(p, v)'
  <1>1. second \in Nat /\ \A p \in Path : Len(taken[p]) \in Nat
    BY DEF CopiesType
  <1>2. Grows
    BY <1>1 DEF Grows
  <1>3. NumbersInv => NumbersInv'
    BY DEF NumbersInv, Gone, Copied!Within
  <1>4. \A p, v : WasTaken(p, v) => WasTaken(p, v)'
    BY DEF WasTaken
  <1> QED BY <1>2, <1>3, <1>4 DEF CopiesType

(* What was copied once was copied.                                          *)
LEMMA ReplacedKept ==
  ASSUME CopiesType, CopiesType', Grows, ReplacedInv, replaced' = replaced PROVE ReplacedInv'
  <1> SUFFICES ASSUME NEW r \in replaced
               PROVE  r[1] \in Path /\ r[2] \in Nat /\ \E n \in DOMAIN taken'[r[1]] : taken'[r[1]][n] = r[2]
    BY DEF ReplacedInv, WasTaken
  <1>1. r[1] \in Path /\ r[2] \in Nat /\ WasTaken(r[1], r[2])
    BY DEF ReplacedInv
  <1> QED BY <1>1, GrowthKeeps DEF WasTaken

(* The change of files that ends a call: each version that is replaced was   *)
(* copied by that call, but for files that were raced.                       *)
LEMMA ChangesKept ==
  ASSUME CopiesType, NumbersInv, ReplacedInv, \A f \in Edit : CallInv(f),
         NEW e \in Edit, edit[e].step = "checked", edit[e].left = <<>>,
         NEW now \in [Path -> Nat],
         \A p \in Path : now[p] # current[p] => p \in {edit[e].path, edit[e].to},
         NEW s \in {"idle", "missing"}, NEW p0 \in Path \cup {"none"}, NEW n0 \in Nat,
         s = "missing" => p0 \in Path /\ Gone(p0, n0),
         Copied!Changes(e, now, Copied!Rest(s, p0, n0))
  PROVE  CopiesType' /\ NumbersInv' /\ ReplacedInv' /\ \A f \in Edit : CallInv(f)'
  <1> DEFINE rest == Copied!Rest(s, p0, n0)
             changed == {p \in Path : now[p] # current[p]}
  <1>1. /\ current' = now /\ UNCHANGED <<copies, second, calls, taken, dropped>>
        /\ edit' = [f \in Edit |->
             IF f = e THEN rest
             ELSE [edit[f] EXCEPT !.raced = edit[f].raced \cup (Copied!Copied(f) \cap changed)]]
        /\ replaced' = replaced \cup
             {<<p, current[p]>> : p \in {p \in changed \ edit[e].raced : current[p] # 0}}
    BY DEF Copied!Changes
  <1>2. /\ rest.step = s /\ rest.path = p0 /\ rest.n = n0
        /\ rest \in Call
    BY DEF Copied!Rest, Copied!Kinds, Call
  <1>3. Grows /\ NumbersInv' /\ \A p, v : WasTaken(p, v) => WasTaken(p, v)'
    BY <1>1, NoCopyGrows
  <1> HIDE DEF rest
  <1>4. CopiesType'
    <2>1. ASSUME NEW f \in Edit PROVE edit'[f] \in Call
      <3>1. edit'[f] = IF f = e THEN rest
              ELSE [edit[f] EXCEPT !.raced = edit[f].raced \cup (Copied!Copied(f) \cap changed)]
        BY <1>1
      <3>2. edit[f].raced \cup (Copied!Copied(f) \cap changed) \in SUBSET Path
        BY DEF CopiesType, Call
      <3>3. edit[f] \in Call
        BY DEF CopiesType
      <3> HIDE DEF changed
      <3> QED BY <1>2, <3>1, <3>2, <3>3, CallsMove
    <2> QED BY <1>1, <2>1 DEF CopiesType
  <1>5. ASSUME NEW f \in Edit, f # e PROVE CallInv(f)'
    <2>1. edit'[f] = [edit[f] EXCEPT !.raced = edit[f].raced \cup (Copied!Copied(f) \cap changed)]
      BY <1>1, <1>5
    <2>2. /\ edit'[f].step = edit[f].step /\ edit'[f].what = edit[f].what
          /\ edit'[f].path = edit[f].path /\ edit'[f].to = edit[f].to
          /\ edit'[f].source = edit[f].source /\ edit'[f].n = edit[f].n
          /\ edit'[f].left = edit[f].left /\ edit'[f].stamp = edit[f].stamp
          /\ edit'[f].raced = edit[f].raced \cup (Copied!Copied(f) \cap changed)
      BY <2>1 DEF CopiesType, Call
    <2>3. Copied!Copied(f) \subseteq Path
      BY DEF CallInv, Copied!Copied
    <2>4. \A p \in Copied!Copied(f) : current'[p] # current[p] => p \in edit'[f].raced
      BY <1>1, <2>2, <2>3
    <2> QED BY <1>3, <1>4, <2>2, <2>4, CallKept
  <1>6. CallInv(e)'
    <2>1. edit'[e] = rest
      BY <1>1
    <2> QED BY <1>1, <1>2, <2>1 DEF CallInv, Gone, Copied!Within
  <1>7. ReplacedInv'
    <2>1. ASSUME NEW p \in changed \ edit[e].raced, current[p] # 0
          PROVE  p \in Path /\ current[p] \in Nat /\ WasTaken(p, current[p])
      <3>1. {edit[e].path, edit[e].to} \subseteq Copied!Copied(e)
        BY PathsLeft DEF Copied!Copied
      <3>2. p \in Copied!Copied(e) \ edit[e].raced
        BY <2>1, <3>1
      <3> QED BY <2>1, <3>2 DEF CallInv, CopiesType
    <2>2. ASSUME NEW r \in replaced'
          PROVE  r[1] \in Path /\ r[2] \in Nat /\ WasTaken(r[1], r[2])
      <3>1. CASE r \in replaced
        BY <3>1 DEF ReplacedInv
      <3>2. CASE r \notin replaced
        <4>1. PICK p \in changed \ edit[e].raced : current[p] # 0 /\ r = <<p, current[p]>>
          BY <1>1, <2>2, <3>2
        <4>2. r[1] = p /\ r[2] = current[p]
          BY <4>1
        <4> QED BY <2>1, <4>1, <4>2
      <3> QED BY <3>1, <3>2
    <2> QED BY <1>1, <2>2 DEF ReplacedInv, WasTaken
  <1> QED BY <1>3, <1>4, <1>5, <1>6, <1>7

(* The start of a call: nothing is copied yet, and what it may restore is    *)
(* there.                                                                    *)
LEMMA StartsKeeps ==
  ASSUME CopiesInv, NEW e \in Edit, NEW what \in Copied!Kinds, NEW p \in Path, NEW q \in Path,
         NEW c, c.at \in Nat, c.n \in Nat, what = "restore" => Offered(p, c.n, c.at),
         Copied!Starts(e, what, p, q, c)
  PROVE  CopiesInv'
  <1> DEFINE new == [step |-> "checked", what |-> what, path |-> p, to |-> q, source |-> c.at,
                     n |-> c.n, ver |-> IF what = "write" THEN calls + 2 ELSE 0,
                     left |-> IF p = q THEN <<p>> ELSE <<p, q>>, stamp |-> 0, raced |-> {}]
  <1>1. /\ calls' = calls + 1 /\ edit' = [edit EXCEPT ![e] = new]
        /\ UNCHANGED <<current, copies, second, taken, replaced, dropped>>
    BY DEF Copied!Starts
  <1>2. CopiesType /\ NumbersInv /\ ReplacedInv /\ \A f \in Edit : CallInv(f)
    BY DEF CopiesInv
  <1>3. new \in Call
    <2>1. calls \in Nat /\ (IF what = "write" THEN calls + 2 ELSE 0) \in Nat
      BY <1>2 DEF CopiesType
    <2>2. (IF p = q THEN <<p>> ELSE <<p, q>>) \in Seq(Path)
      OBVIOUS
    <2> QED BY <2>1, <2>2 DEF Call
  <1>4. /\ new.step = "checked" /\ new.what = what /\ new.path = p /\ new.to = q
        /\ new.source = c.at /\ new.n = c.n /\ new.raced = {}
        /\ new.left = IF p = q THEN <<p>> ELSE <<p, q>>
    OBVIOUS
  <1> HIDE DEF new
  <1>5. Grows /\ NumbersInv'
    BY <1>1, <1>2, NoCopyGrows
  <1>6. CopiesType'
    BY <1>1, <1>2, <1>3 DEF CopiesType
  <1>7. ASSUME NEW f \in Edit, f # e PROVE CallInv(f)'
    <2>1. edit'[f] = edit[f] /\ current' = current
      BY <1>1, <1>7
    <2> QED BY <1>2, <1>5, <1>6, <2>1, CallKept
  <1>8. CallInv(e)'
    <2>1. edit'[e] = new
      BY <1>1, <1>2 DEF CopiesType
    <2>2. Copied!Copied(e)' = {p, q} \ {new.left[n] : n \in 1 .. Len(new.left)}
      <3>1. edit'[e].step = "checked" /\ edit'[e].path = p /\ edit'[e].to = q /\ edit'[e].left = new.left
        BY <1>4, <2>1
      <3>2. {edit'[e].path, edit'[e].to} = {p, q}
        BY <3>1
      <3> QED BY <3>1, <3>2, Zenon DEF Copied!Copied
    <2>3. Copied!Copied(e)' = {}
      <3>1. CASE p = q
        BY <1>4, <2>2, <3>1, PathsLeft
      <3>2. CASE p # q
        BY <1>4, <2>2, <3>2, PathsLeft
      <3> QED BY <3>1, <3>2
    <2>4. what = "restore" => Offered(edit[e].path, edit[e].n, edit[e].source)'
      BY <1>1, <1>4, <2>1 DEF Offered, Gone, Copied!Within
    <2>5. edit'[e].left \in {<<>>, <<q>>} \/ (p # q /\ edit'[e].left = <<p, q>>)
      BY <1>4, <2>1
    <2> QED BY <1>4, <2>1, <2>3, <2>4, <2>5 DEF CallInv
  <1> QED BY <1>1, <1>2, <1>5, <1>6, <1>7, <1>8, ReplacedKept DEF CopiesInv

(* The copies, on the way to the change.                                     *)
LEMMA CopyingKeeps ==
  ASSUME CopiesInv, NEW e \in Edit, NEW p \in Path,
         \/ \E t \in 0 .. MaxSecond : Copied!BackupCopies(e, p, t) \/ Copied!BackupFails(e, p, t)
         \/ Copied!BackupSkips(e, p)
  PROVE  CopiesInv'
  <1>1. CopiesType /\ NumbersInv /\ ReplacedInv /\ \A f \in Edit : CallInv(f)
    BY DEF CopiesInv
  <1>2. /\ edit[e].step = "checked" /\ edit[e].left # <<>> /\ p = Head(edit[e].left)
        /\ UNCHANGED <<current, calls, replaced>>
    BY DEF Copied!BackupCopies, Copied!BackupFails, Copied!BackupSkips, Copied!Copying
  <1>3. edit[e] \in Call /\ edit[e].left \in Seq(Path) /\ Tail(edit[e].left) \in Seq(Path)
    BY <1>1, <1>2 DEF CopiesType, Call
  <1>4. ASSUME Grows, NumbersInv', CopiesType', CallInv(e)', \A f \in Edit \ {e} : edit'[f] = edit[f]
        PROVE  CopiesInv'
    <2>1. ASSUME NEW f \in Edit, f # e PROVE CallInv(f)'
      <3>1. edit'[f] = edit[f]
        BY <1>4, <2>1
      <3> QED BY <1>1, <1>2, <1>4, <3>1, CallKept
    <2>2. ReplacedInv'
      BY <1>1, <1>2, <1>4, ReplacedKept
    <2> QED BY <1>4, <2>1, <2>2 DEF CopiesInv
  <1>5. ASSUME NEW t \in 0 .. MaxSecond, Copied!BackupCopies(e, p, t) PROVE CopiesInv'
    <2>1. /\ current[p] \in Nat /\ t \in Nat /\ Copied!Copies(p, current[p], t)
          /\ edit' = [edit EXCEPT ![e] = [edit[e] EXCEPT !.step = "copied", !.stamp = t]]
      <3>1. current[p] \in Nat /\ t \in Nat
        BY <1>1 DEF CopiesType
      <3>2. Copied!Copies(p, current[p], t) /\ edit' = [edit EXCEPT ![e].step = "copied", ![e].stamp = t]
        BY <1>5 DEF Copied!BackupCopies
      <3>3. edit \in [Edit -> Call]
        BY <1>1 DEF CopiesType
      <3>4. edit' = [edit EXCEPT ![e] = [edit[e] EXCEPT !.step = "copied", !.stamp = t]]
        BY <3>2, <3>3
      <3> QED BY <3>1, <3>2, <3>4
    <2>2. /\ taken' \in [Path -> Seq(Nat)] /\ second' \in Nat /\ IsFiniteSet(copies')
          /\ copies' \in SUBSET [at : Nat, path : Path, ver : Nat, n : Nat]
          /\ Grows /\ NumbersInv' /\ Numbered(p, t)'
          /\ \E n \in DOMAIN taken'[p] : taken'[p][n] = current[p]
      BY <1>1, <2>1, CopyMade
    <2>3. [edit[e] EXCEPT !.step = "copied", !.stamp = t] \in Call
      BY <1>3, <2>1, CallsMove
    <2>4. CopiesType'
      BY <1>1, <1>2, <2>1, <2>2, <2>3 DEF CopiesType
    <2>5. edit'[e] = [edit[e] EXCEPT !.step = "copied", !.stamp = t]
          /\ \A f \in Edit \ {e} : edit'[f] = edit[f]
      BY <1>1, <2>1 DEF CopiesType
    <2>6. /\ edit'[e].step = "copied" /\ edit'[e].stamp = t /\ edit'[e].left = edit[e].left
          /\ edit'[e].path = edit[e].path /\ edit'[e].to = edit[e].to /\ edit'[e].what = edit[e].what
          /\ edit'[e].source = edit[e].source /\ edit'[e].n = edit[e].n
          /\ edit'[e].raced = edit[e].raced
      BY <1>3, <2>5 DEF Call
    <2>7. Numbered(Head(edit[e].left), edit[e].stamp)'
      BY <1>2, <2>2, <2>6 DEF Numbered
    <2>8. CallInv(e)'
      BY <1>1, <1>2, <2>2, <2>4, <2>6, <2>7, CallAdvances
    <2> QED BY <1>4, <2>2, <2>4, <2>5, <2>8
  <1>6. ASSUME NEW t \in 0 .. MaxSecond, Copied!BackupFails(e, p, t) PROVE CopiesInv'
    <2>1. MaxCalls \in Nat /\ Copied!Torn \in Nat
      BY ResourcesAssumption DEF Copied!Torn
    <2>2. t \in Nat /\ Copied!Copies(p, Copied!Torn, t) /\ edit' = [edit EXCEPT ![e] = Copied!Idle]
      BY <1>6 DEF Copied!BackupFails
    <2>3. /\ taken' \in [Path -> Seq(Nat)] /\ second' \in Nat /\ IsFiniteSet(copies')
          /\ copies' \in SUBSET [at : Nat, path : Path, ver : Nat, n : Nat]
          /\ Grows /\ NumbersInv'
      BY <1>1, <2>1, <2>2, CopyMade
    <2>4. Copied!Idle \in Call /\ Copied!Idle.step = "idle"
      BY DEF Copied!Idle, Copied!Rest, Copied!Kinds, Call
    <2>5. CopiesType'
      BY <1>1, <1>2, <2>2, <2>3, <2>4 DEF CopiesType
    <2>6. edit'[e] = Copied!Idle /\ \A f \in Edit \ {e} : edit'[f] = edit[f]
      BY <1>1, <2>2 DEF CopiesType
    <2>7. CallInv(e)'
      BY <2>4, <2>6 DEF CallInv
    <2> QED BY <1>4, <2>3, <2>5, <2>6, <2>7
  <1>7. ASSUME Copied!BackupSkips(e, p) PROVE CopiesInv'
    <2>1. /\ current[p] = 0 /\ UNCHANGED <<copies, second, taken, dropped>>
          /\ edit' = [edit EXCEPT ![e] = [edit[e] EXCEPT !.left = Tail(edit[e].left)]]
      BY <1>1, <1>7 DEF Copied!BackupSkips, CopiesType
    <2>2. [edit[e] EXCEPT !.left = Tail(edit[e].left)] \in Call
      BY <1>3, CallsMove
    <2>3. Grows /\ NumbersInv'
      BY <1>1, <2>1, NoCopyGrows
    <2>4. CopiesType'
      BY <1>1, <1>2, <2>1, <2>2 DEF CopiesType
    <2>5. edit'[e] = [edit[e] EXCEPT !.left = Tail(edit[e].left)]
          /\ \A f \in Edit \ {e} : edit'[f] = edit[f]
      BY <1>1, <2>1 DEF CopiesType
    <2>6. /\ edit'[e].step = "checked" /\ edit'[e].left = Tail(edit[e].left)
          /\ edit'[e].path = edit[e].path /\ edit'[e].to = edit[e].to /\ edit'[e].what = edit[e].what
          /\ edit'[e].source = edit[e].source /\ edit'[e].n = edit[e].n
          /\ edit'[e].raced = edit[e].raced
      BY <1>2, <1>3, <2>5 DEF Call
    <2>7. CallInv(e)'
      BY <1>1, <1>2, <2>1, <2>3, <2>4, <2>6, CallAdvances
    <2> QED BY <1>4, <2>3, <2>4, <2>5, <2>7
  <1> QED BY <1>5, <1>6, <1>7

(* The limit, after the copy.                                                *)
LEMMA RotatingKeeps == ASSUME CopiesInv, NEW e \in Edit, Copied!BackupRotates(e) PROVE CopiesInv'
  <1>1. CopiesType /\ NumbersInv /\ ReplacedInv /\ \A f \in Edit : CallInv(f)
    BY DEF CopiesInv
  <1>2. copies' \subseteq copies /\ IsFiniteSet(copies') /\ Grows /\ NumbersInv'
    BY <1>1, CopiesDropped
  <1>3. edit[e] \in Call /\ edit[e].step = "copied" /\ edit[e].left # <<>>
        /\ edit[e].left \in Seq(Path) /\ Tail(edit[e].left) \in Seq(Path)
    BY <1>1 DEF CopiesType, Call, CallInv, Copied!BackupRotates
  <1>4. /\ UNCHANGED <<current, second, calls, taken, replaced>>
        /\ edit' = [edit EXCEPT ![e] = [edit[e] EXCEPT !.step = "checked", !.left = Tail(edit[e].left)]]
    BY <1>1 DEF Copied!BackupRotates, CopiesType
  <1>5. [edit[e] EXCEPT !.step = "checked", !.left = Tail(edit[e].left)] \in Call
    BY <1>3, CallsMove
  <1>6. CopiesType'
    BY <1>1, <1>2, <1>4, <1>5 DEF CopiesType
  <1>7. edit'[e] = [edit[e] EXCEPT !.step = "checked", !.left = Tail(edit[e].left)]
        /\ \A f \in Edit \ {e} : edit'[f] = edit[f]
    BY <1>1, <1>4 DEF CopiesType
  <1>8. /\ edit'[e].step = "checked" /\ edit'[e].left = Tail(edit[e].left)
        /\ edit'[e].path = edit[e].path /\ edit'[e].to = edit[e].to /\ edit'[e].what = edit[e].what
        /\ edit'[e].source = edit[e].source /\ edit'[e].n = edit[e].n
        /\ edit'[e].raced = edit[e].raced
    BY <1>3, <1>7 DEF Call
  <1>9. CallInv(e)'
    BY <1>1, <1>2, <1>3, <1>4, <1>6, <1>8, CallAdvances
  <1>10. ASSUME NEW f \in Edit, f # e PROVE CallInv(f)'
    <2>1. edit'[f] = edit[f]
      BY <1>7, <1>10
    <2> QED BY <1>1, <1>2, <1>4, <1>6, <2>1, CallKept
  <1>11. ReplacedInv'
    BY <1>1, <1>2, <1>4, <1>6, ReplacedKept
  <1> QED BY <1>2, <1>6, <1>9, <1>10, <1>11 DEF CopiesInv

(* The ends of a call: the change of the files, or its failure.              *)
LEMMA EndingKeeps ==
  ASSUME CopiesInv, NEW e \in Edit,
         Copied!Writes(e) \/ Copied!Deletes(e) \/ Copied!Moves(e) \/ Copied!Restores(e)
           \/ Copied!ChangeFails(e)
  PROVE  CopiesInv'
  <1> DEFINE p == edit[e].path
             q == edit[e].to
  <1>1. CopiesType /\ NumbersInv /\ ReplacedInv /\ \A f \in Edit : CallInv(f)
    BY DEF CopiesInv
  <1>2. edit[e].step = "checked" /\ edit[e].left = <<>>
    BY DEF Copied!Writes, Copied!Deletes, Copied!Moves, Copied!Restores, Copied!ChangeFails, Copied!Ready
  <1>3. p \in Path /\ q \in Path /\ current \in [Path -> Nat]
    BY <1>1, <1>2 DEF CallInv, CopiesType
  <1>4. edit[e].ver \in Nat /\ edit[e].n \in Nat /\ edit[e].source \in Nat /\ MaxCalls \in Nat
    BY <1>1, ResourcesAssumption DEF CopiesType, Call
  <1>5. ASSUME NEW now \in [Path -> Nat], \A x \in Path : now[x] # current[x] => x \in {p, q},
               Copied!Changes(e, now, Copied!Idle)
        PROVE  CopiesInv'
    <2>1. Copied!Idle = Copied!Rest("idle", "none", 0)
      BY DEF Copied!Idle
    <2> QED BY <1>1, <1>2, <1>5, <2>1, ChangesKept DEF CopiesInv
  <1> HIDE DEF p, q
  <1>6. ASSUME Copied!Writes(e) PROVE CopiesInv'
    <2>1. [current EXCEPT ![p] = edit[e].ver] \in [Path -> Nat]
      BY <1>3, <1>4
    <2>2. Copied!Changes(e, [current EXCEPT ![p] = edit[e].ver], Copied!Idle)
      BY <1>6 DEF Copied!Writes, p
    <2>3. \A x \in Path : [current EXCEPT ![p] = edit[e].ver][x] # current[x] => x \in {p, q}
      BY <1>3
    <2> QED BY <1>5, <2>1, <2>2, <2>3
  <1>7. ASSUME Copied!Deletes(e) PROVE CopiesInv'
    <2>1. [current EXCEPT ![p] = 0] \in [Path -> Nat]
      BY <1>3
    <2>2. Copied!Changes(e, [current EXCEPT ![p] = 0], Copied!Idle)
      BY <1>7 DEF Copied!Deletes, p
    <2>3. \A x \in Path : [current EXCEPT ![p] = 0][x] # current[x] => x \in {p, q}
      BY <1>3
    <2> QED BY <1>5, <2>1, <2>2, <2>3
  <1>8. ASSUME Copied!Changes(e, current, Copied!Idle) PROVE CopiesInv'
    BY <1>3, <1>5, <1>8
  <1>9. ASSUME Copied!Moves(e) PROVE CopiesInv'
    <2> DEFINE now == [current EXCEPT ![q] = current[p], ![p] = 0]
    <2>1. now \in [Path -> Nat]
      BY <1>3
    <2>2. Copied!Changes(e, current, Copied!Idle) \/ Copied!Changes(e, now, Copied!Idle)
      BY <1>9 DEF Copied!Moves, p, q
    <2>3. \A x \in Path : now[x] # current[x] => x \in {p, q}
      BY <1>3
    <2> HIDE DEF now
    <2> QED BY <1>5, <1>8, <2>1, <2>2, <2>3
  <1>10. ASSUME Copied!Restores(e) PROVE CopiesInv'
    <2>1. edit[e].what = "restore"
      BY <1>10 DEF Copied!Restores, Copied!Ready
    <2>2. CASE Copied!Named(p, edit[e].source) = {}
      <3>1. Offered(p, edit[e].n, edit[e].source)
        BY <1>1, <1>2, <2>1 DEF CallInv, p
      <3>2. Gone(p, edit[e].n)
        BY <2>2, <3>1 DEF Offered, Copied!Named
      <3>3. Copied!Changes(e, current, Copied!Rest("missing", p, edit[e].n))
        BY <1>10, <2>2 DEF Copied!Restores, p
      <3>4. \A x \in Path : current[x] # current[x] => x \in {edit[e].path, edit[e].to}
        OBVIOUS
      <3> QED BY <1>1, <1>2, <1>3, <1>4, <3>2, <3>3, <3>4, ChangesKept DEF CopiesInv
    <2>3. CASE Copied!Named(p, edit[e].source) # {}
      <3>1. PICK c \in Copied!Named(p, edit[e].source) :
              Copied!Changes(e, [current EXCEPT ![p] = c.ver], Copied!Idle)
        BY <1>10, <2>3 DEF Copied!Restores, p
      <3>2. c.ver \in Nat
        BY <1>1 DEF Copied!Named, CopiesType
      <3>3. [current EXCEPT ![p] = c.ver] \in [Path -> Nat]
        BY <1>3, <3>2
      <3>4. \A x \in Path : [current EXCEPT ![p] = c.ver][x] # current[x] => x \in {p, q}
        BY <1>3
      <3> QED BY <1>5, <3>1, <3>3, <3>4
    <2> QED BY <2>2, <2>3
  <1>11. ASSUME Copied!ChangeFails(e) PROVE CopiesInv'
    <2>1. CASE Copied!Changes(e, [current EXCEPT ![p] = Copied!Torn], Copied!Idle)
      <3>1. Copied!Torn \in Nat
        BY <1>4 DEF Copied!Torn
      <3>2. [current EXCEPT ![p] = Copied!Torn] \in [Path -> Nat]
        BY <1>3, <3>1
      <3>3. \A x \in Path : [current EXCEPT ![p] = Copied!Torn][x] # current[x] => x \in {p, q}
        BY <1>3
      <3> QED BY <1>5, <2>1, <3>2, <3>3
    <2> QED BY <1>8, <1>11, <2>1 DEF Copied!ChangeFails, p
  <1> QED BY <1>6, <1>7, <1>9, <1>10, <1>11

(* Every step of a call, and of none.                                        *)
LEMMA CopiesStep == ASSUME CopiesInv, Copied!Next \/ UNCHANGED OfCopies PROVE CopiesInv'
<1>1. CopiesType /\ NumbersInv /\ ReplacedInv /\ \A e \in Edit : CallInv(e)
  BY DEF CopiesInv
<1>2. "write" \in Copied!Kinds /\ "delete" \in Copied!Kinds /\ "restore" \in Copied!Kinds
      /\ "move" \in Copied!Kinds /\ "overwrite" \in Copied!Kinds
      /\ Copied!NoCopy.at = 0 /\ Copied!NoCopy.n = 0
  BY DEF Copied!Kinds, Copied!NoCopy
<1>3. ASSUME NEW e \in Edit, NEW p \in Path, Copied!StartWrite(e, p) \/ Copied!StartDelete(e, p)
      PROVE  CopiesInv'
  <2>1. PICK what \in {"write", "delete"} : Copied!Starts(e, what, p, p, Copied!NoCopy)
    BY <1>3 DEF Copied!StartWrite, Copied!StartDelete
  <2> QED BY <1>2, <2>1, StartsKeeps
<1>4. ASSUME NEW e \in Edit, NEW p \in Path, NEW q \in Path, NEW what \in {"move", "overwrite"},
             Copied!StartMove(e, p, q, what)
      PROVE  CopiesInv'
  BY <1>2, <1>4, StartsKeeps DEF Copied!StartMove
<1>5. ASSUME NEW e \in Edit, NEW c \in copies, Copied!StartRestore(e, c) PROVE CopiesInv'
  <2>1. c.path \in Path /\ c.at \in Nat /\ c.n \in Nat
    BY <1>1 DEF CopiesType
  <2>2. Offered(c.path, c.n, c.at)
    BY DEF Offered
  <2>3. Copied!Starts(e, "restore", c.path, c.path, c)
    BY <1>5 DEF Copied!StartRestore
  <2> QED BY <1>2, <2>1, <2>2, <2>3, StartsKeeps
<1>6. ASSUME Copied!BackupCrash PROVE CopiesInv'
  <2>1. /\ edit' = [e \in Edit |-> Copied!Idle]
        /\ UNCHANGED <<current, copies, second, calls, taken, replaced, dropped>>
    BY <1>6 DEF Copied!BackupCrash
  <2>2. Copied!Idle \in Call /\ Copied!Idle.step = "idle"
    BY DEF Copied!Idle, Copied!Rest, Copied!Kinds, Call
  <2>3. CopiesType' /\ \A e \in Edit : edit'[e] = Copied!Idle
    BY <1>1, <2>1, <2>2 DEF CopiesType
  <2>4. Grows /\ NumbersInv'
    BY <1>1, <2>1, NoCopyGrows
  <2>5. \A e \in Edit : CallInv(e)'
    BY <2>2, <2>3 DEF CallInv
  <2> QED BY <1>1, <2>1, <2>3, <2>4, <2>5, ReplacedKept DEF CopiesInv
<1>7. ASSUME UNCHANGED OfCopies PROVE CopiesInv'
  <2>1. UNCHANGED <<current, copies, edit, second, calls, taken, replaced, dropped>>
    BY <1>7 DEF OfCopies
  <2>2. CopiesType' /\ Grows /\ NumbersInv'
    BY <1>1, <2>1, NoCopyGrows DEF CopiesType
  <2>3. \A e \in Edit : CallInv(e)'
    BY <1>1, <2>1, <2>2, CallKept
  <2> QED BY <1>1, <2>1, <2>2, <2>3, ReplacedKept DEF CopiesInv
<1> QED BY <1>3, <1>4, <1>5, <1>6, <1>7, CopyingKeeps, RotatingKeeps, EndingKeeps DEF Copied!Next

(* What was copied has a last copy.                                          *)
LEMMA LastCopy ==
  ASSUME CopiesType, NEW p \in Path, NEW v, WasTaken(p, v)
  PROVE  Copied!LastOf(p, v) \in DOMAIN taken[p] /\ taken[p][Copied!LastOf(p, v)] = v
  <1> DEFINE L == Len(taken[p])
             Left == {L - n : n \in {n \in DOMAIN taken[p] : taken[p][n] = v}}
  <1>1. L \in Nat /\ DOMAIN taken[p] = 1 .. L
    BY DEF CopiesType
  <1>2. Left \subseteq Nat /\ Left # {}
    <2>1. \A n \in 1 .. L : L - n \in Nat
      BY <1>1
    <2>2. PICK n \in DOMAIN taken[p] : taken[p][n] = v
      BY DEF WasTaken
    <2>3. L - n \in Left
      BY <2>2
    <2> QED BY <1>1, <2>1, <2>3
  <1>3. PICK m \in Left : \A u \in Left : ~(<<u, m>> \in OpToRel(<, Nat))
    <2> HIDE DEF Left
    <2> QED BY <1>2, NatLessThanWellFounded, WFMin
  <1>4. PICK n \in DOMAIN taken[p] : taken[p][n] = v /\ m = L - n
    OBVIOUS
  <1>5. ASSUME NEW k \in DOMAIN taken[p], taken[p][k] = v PROVE k <= n
    <2>1. L - k \in Left /\ L - k \in Nat /\ m \in Nat
      BY <1>1, <1>2, <1>5
    <2>2. ~(L - k < m)
      BY <1>3, <2>1 DEF OpToRel
    <2> HIDE DEF L, Left
    <2> QED BY <1>1, <1>4, <2>2
  <1> QED BY <1>4, <1>5 DEF Copied!LastOf

(* The entries of the log are numbers, and so are the times of the starts.   *)
LEMMA StartsTyped ==
  ASSUME StartsType
  PROVE  /\ Len(begun) \in Nat /\ DOMAIN begun = 1 .. Len(begun)
         /\ \A n \in 1 .. Len(begun) : begun[n] \in [at : Nat, noted : BOOLEAN] /\ begun[n].at \in Nat
         /\ Len(startLog) \in Nat /\ DOMAIN startLog = 1 .. Len(startLog)
         /\ \A i \in 1 .. Len(startLog) : startLog[i] \in Nat
  <1>1. begun \in Seq([at : Nat, noted : BOOLEAN]) /\ startLog \in Seq(Nat)
    BY DEF StartsType
  <1>2. \A n \in 1 .. Len(begun) : begun[n] \in [at : Nat, noted : BOOLEAN]
    <2> DEFINE R == [at : Nat, noted : BOOLEAN]
    <2> HIDE DEF R
    <2>1. begun \in Seq(R)
      BY <1>1 DEF R
    <2>2. \A n \in 1 .. Len(begun) : begun[n] \in R
      BY <2>1
    <2> QED BY <2>2 DEF R
  <1> QED BY <1>1, <1>2

(* What the guard counts is starts: no more than there were of late, and,    *)
(* when it lets one through, no fewer than those of late that were noted.    *)
LEMMA GuardCounts ==
  ASSUME StartsInv
  PROVE  /\ Starts!Loops(Starts!Readable) => Starts!Lately(DOMAIN begun) >= CrashThreshold
         /\ ~Starts!Loops(Starts!Readable) =>
              0 < CrashThreshold /\ (~damaged => Starts!Lately(Noted) < CrashThreshold)
  <1> DEFINE W == {i \in DOMAIN startLog : Starts!Within(startLog[i])}
             B == {n \in DOMAIN begun : Starts!Within(begun[n].at)}
             N == {n \in Noted : Starts!Within(begun[n].at)}
  <1>0. /\ CrashThreshold \in Nat /\ CrashWindow \in Nat /\ RingSize \in Nat /\ CrashThreshold <= RingSize
        /\ bootTime \in Nat
    BY ResourcesAssumption DEF StartsInv, StartsType
  <1>1. /\ Len(startLog) \in Nat /\ DOMAIN startLog = 1 .. Len(startLog)
        /\ Len(begun) \in Nat /\ DOMAIN begun = 1 .. Len(begun)
    BY DEF StartsInv, StartsType
  <1>2. IsFiniteSet(DOMAIN startLog) /\ Cardinality(DOMAIN startLog) = Len(startLog)
        /\ IsFiniteSet(DOMAIN begun)
    <2> DEFINE L == Len(startLog)
    <2>1. IsFiniteSet(1 .. L) /\ Cardinality(1 .. L) = IF 1 > L THEN 0 ELSE L - 1 + 1
      <3> HIDE DEF L
      <3>1. L \in Int
        BY <1>1 DEF L
      <3> QED BY <3>1, FS_Interval
    <2>2. IsFiniteSet(DOMAIN begun)
      BY <1>1, FS_Interval
    <2> QED BY <1>1, <2>1, <2>2
  <1>3. IsFiniteSet(W) /\ IsFiniteSet(B) /\ Cardinality(W) \in Nat /\ Cardinality(B) \in Nat
    BY <1>2, FS_Subset, FS_CardinalityType
  <1>4. PICK f \in [DOMAIN startLog -> DOMAIN begun] : LoggedAs(f)
    BY DEF StartsInv
  <1>5. \A i \in W : f[i] \in B
    BY <1>4 DEF LoggedAs
  <1>6. Starts!Lately(DOMAIN begun) = Cardinality(B) /\ Starts!Lately(Noted) = Cardinality(N)
    BY Counting DEF Starts!Lately
  <1>7. CASE damaged
    <2>1. {n \in DOMAIN <<>> : Starts!Within(<<>>[n])} = {}
      OBVIOUS
    <2>2. Starts!Loops(Starts!Readable) <=> 0 >= CrashThreshold
      BY <1>7, <2>1, Counting, FS_EmptySet DEF Starts!Loops, Starts!Readable
    <2> HIDE DEF B, N
    <2> QED BY <1>0, <1>3, <1>6, <1>7, <2>2
  <1>8. CASE ~damaged
    <2>1. Starts!Loops(Starts!Readable) <=> Cardinality(W) >= CrashThreshold
      BY <1>8, Counting DEF Starts!Loops, Starts!Readable
    <2>2. Cardinality(W) <= Cardinality(B)
      <3> DEFINE h == [i \in W |-> f[i]]
      <3>1. h \in Injection(W, B)
        <4>1. \A i \in W : h[i] \in B
          BY <1>5
        <4>2. \A i, j \in W : h[i] = h[j] => i = j
          BY <1>4 DEF LoggedAs
        <4> HIDE DEF W, B
        <4> QED BY <4>1, <4>2 DEF Injection, IsInjective
      <3> HIDE DEF W, B, h
      <3> QED BY <1>3, <3>1, FS_Injection
    <2>3. ASSUME Cardinality(W) < CrashThreshold PROVE Cardinality(N) < CrashThreshold
      <3> DEFINE h == [i \in W |-> f[i]]
                 R == {f[i] : i \in W}
      <3>1. h \in Surjection(W, R)
        <4> HIDE DEF W
        <4> QED BY DEF Surjection
      <3>2. IsFiniteSet(R) /\ Cardinality(R) <= Cardinality(W)
        <4> HIDE DEF W, h, R
        <4> QED BY <1>3, <3>1, FS_Surjection
      <3>3. ASSUME NEW n \in N PROVE n \in R
        <4>1. CASE \E i \in DOMAIN startLog : f[i] = n
          <5>1. PICK i \in DOMAIN startLog : f[i] = n
            BY <4>1
          <5>2. startLog[i] = begun[n].at
            BY <1>4, <5>1 DEF LoggedAs
          <5> QED BY <5>1, <5>2
        <4>2. CASE Len(startLog) = RingSize /\ \A i \in DOMAIN startLog : begun[n].at <= startLog[i]
          <5>1. \A i \in DOMAIN startLog : startLog[i] \in Nat
            BY DEF StartsInv, StartsType
          <5>2. n \in DOMAIN begun /\ begun[n].at \in Nat /\ bootTime < begun[n].at + CrashWindow
            <6>1. n \in DOMAIN begun /\ Starts!Within(begun[n].at)
              BY DEF Noted
            <6>2. begun[n] \in [at : Nat, noted : BOOLEAN]
              BY <6>1, StartsTyped DEF StartsInv
            <6> QED BY <6>1, <6>2 DEF Starts!Within
          <5>3. \A i \in DOMAIN startLog : Starts!Within(startLog[i])
            BY <1>0, <4>2, <5>1, <5>2 DEF Starts!Within
          <5>4. W = DOMAIN startLog
            BY <5>3
          <5> HIDE DEF W, R, N
          <5> QED BY <1>0, <1>2, <2>3, <4>2, <5>4
        <4> QED BY <1>4, <4>1, <4>2 DEF LoggedAs
      <3>4. IsFiniteSet(N) /\ Cardinality(N) <= Cardinality(R)
        <4> HIDE DEF N, R
        <4> QED BY <3>2, <3>3, FS_Subset
      <3> HIDE DEF N, R, W
      <3> QED BY <1>0, <1>3, <2>3, <3>2, <3>4, FS_CardinalityType
    <2> HIDE DEF W, B, N
    <2> QED BY <1>0, <1>3, <1>6, <2>1, <2>2, <2>3
  <1> QED BY <1>7, <1>8 DEF StartsInv, StartsType

(* The step of the guard.                                                    *)
LEMMA StartsStep == ASSUME StartsInv, Starts!Next \/ UNCHANGED OfStarts PROVE StartsInv'
<1> DEFINE Record == [at : Nat, noted : BOOLEAN]
           K == Len(begun)
           L == Len(startLog)
<1>0. /\ CrashThreshold \in Nat /\ CrashWindow \in Nat /\ RingSize \in Nat \ {0}
      /\ CrashThreshold <= RingSize
  BY ResourcesAssumption
<1>1. /\ K \in Nat /\ DOMAIN begun = 1 .. K /\ begun \in Seq(Record)
      /\ L \in Nat /\ DOMAIN startLog = 1 .. L /\ startLog \in Seq(Nat)
      /\ bootTime \in Nat /\ StartsType
  BY DEF StartsInv, StartsType
<1>2. PICK f \in [DOMAIN startLog -> DOMAIN begun] : LoggedAs(f)
  BY DEF StartsInv
<1>3. \A n \in DOMAIN begun : begun[n] \in Record /\ begun[n].at \in Nat
  BY <1>1, StartsTyped
<1>4. Noted \subseteq DOMAIN begun
  BY DEF Noted
<1>5. ASSUME Starts!BootRefused PROVE StartsInv'
  <2>1. boot' = "refused" /\ UNCHANGED <<startLog, damaged, bootTime, begun>>
        /\ Starts!Lately(DOMAIN begun) >= CrashThreshold
    BY <1>5, GuardCounts DEF Starts!BootRefused
  <2>2. Noted' = Noted
    BY <2>1 DEF Noted
  <2>3. LoggedAs(f)'
    BY <1>2, <2>1, <2>2 DEF LoggedAs
  <2>4. Starts!StartsBounded'
    BY <2>1 DEF StartsInv, Starts!StartsBounded, Starts!Lately, Starts!Within
  <2> QED BY <2>1, <2>2, <2>3, <2>4 DEF StartsInv, StartsType
<1>6. ASSUME Starts!BootUnnoted \/ Starts!ProcessEnds \/ Starts!Damage PROVE StartsInv'
  <2>1. boot' \in {"up", "down", boot} /\ (boot' = boot => boot # "passed") /\ damaged' \in BOOLEAN
        /\ UNCHANGED <<startLog, bootTime, begun>>
    BY <1>1, <1>6 DEF Starts!BootUnnoted, Starts!ProcessEnds, Starts!Damage, StartsType
  <2>2. Noted' = Noted
    BY <2>1 DEF Noted
  <2>3. LoggedAs(f)'
    BY <1>2, <2>1, <2>2 DEF LoggedAs
  <2>4. Starts!StartsBounded'
    BY <2>1 DEF StartsInv, Starts!StartsBounded, Starts!Lately, Starts!Within
  <2> QED BY <2>1, <2>2, <2>3, <2>4 DEF StartsInv, StartsType
<1>7. ASSUME UNCHANGED OfStarts PROVE StartsInv'
  <2>1. UNCHANGED <<startLog, damaged, boot, bootTime, begun>>
    BY <1>7 DEF OfStarts
  <2>2. Noted' = Noted
    BY <2>1 DEF Noted
  <2>3. LoggedAs(f)'
    BY <1>2, <2>1, <2>2 DEF LoggedAs
  <2>4. Starts!Lately(Noted)' = Starts!Lately(Noted) /\ Starts!StartsBounded'
    BY <2>1, <2>2 DEF StartsInv, Starts!StartsBounded, Starts!Lately, Starts!Within
  <2> QED BY <2>1, <2>2, <2>3, <2>4 DEF StartsInv, StartsType
(* As time passes, fewer starts are of late.                                 *)
<1>8. ASSUME Starts!BootTick PROVE StartsInv'
  <2>1. boot \in {"down", "up"} /\ bootTime' = bootTime + 1 /\ UNCHANGED <<startLog, damaged, boot, begun>>
    BY <1>8 DEF Starts!BootTick
  <2>2. Noted' = Noted
    BY <2>1 DEF Noted
  <2>3. LoggedAs(f)'
    BY <1>2, <2>1, <2>2 DEF LoggedAs
  <2> DEFINE Old == {n \in Noted : Starts!Within(begun[n].at)}
             New == {n \in Noted : bootTime + 1 < begun[n].at + CrashWindow}
  <2>4. New \subseteq Old
    BY <1>0, <1>1, <1>3, <1>4 DEF Starts!Within
  <2>5. IsFiniteSet(Old)
    <3>1. IsFiniteSet(DOMAIN begun)
      BY <1>1, FS_Interval
    <3>2. Old \subseteq DOMAIN begun
      BY <1>4
    <3> QED BY <3>1, <3>2, FS_Subset
  <2>6. Starts!Lately(Noted) = Cardinality(Old) /\ Starts!Lately(Noted)' = Cardinality(New)
    BY <2>1, <2>2, Counting DEF Starts!Lately, Starts!Within
  <2>7. Cardinality(New) <= CrashThreshold
    <3>1. Cardinality(Old) <= CrashThreshold
      BY <2>6 DEF StartsInv, Starts!StartsBounded, Noted
    <3> HIDE DEF New, Old
    <3> QED BY <1>0, <2>4, <2>5, <3>1, FS_Subset, FS_CardinalityType
  <2>8. Starts!StartsBounded'
    BY <2>1, <2>6, <2>7 DEF Starts!StartsBounded, Noted
  <2>9. \A n \in DOMAIN begun : begun[n].at <= bootTime'
    BY <1>1, <1>3, <2>1 DEF StartsInv
  <2> QED BY <1>1, <2>1, <2>3, <2>8, <2>9 DEF StartsInv, StartsType
(* The start is one more, which is not noted yet.                            *)
<1>9. ASSUME Starts!BootPasses PROVE StartsInv'
  <2> DEFINE Kept == [n \in DOMAIN begun |-> [begun[n] EXCEPT !.noted = begun[n].noted /\ ~damaged]]
             new == [at |-> bootTime, noted |-> FALSE]
  <2>1. /\ boot' = "passed" /\ begun' = Append(Kept, new) /\ UNCHANGED <<startLog, damaged, bootTime>>
        /\ 0 < CrashThreshold /\ (~damaged => Starts!Lately(Noted) < CrashThreshold)
    BY <1>9, GuardCounts DEF Starts!BootPasses
  <2>2. /\ \A n \in 1 .. K : Kept[n] \in Record /\ Kept[n].at = begun[n].at
        /\ \A n \in 1 .. K : Kept[n].noted = (begun[n].noted /\ ~damaged)
        /\ new \in Record /\ new.at = bootTime /\ new.noted = FALSE
    BY <1>1, <1>3
  <2>3. Kept \in Seq(Record) /\ Len(Kept) = K
    BY <1>1, <2>2
  <2> HIDE DEF Kept, new
  <2>4. /\ begun' \in Seq(Record) /\ Len(begun') = K + 1 /\ DOMAIN begun' = 1 .. K + 1
        /\ begun'[K + 1] = new /\ \A n \in 1 .. K : begun'[n] = Kept[n]
    BY <1>1, <2>1, <2>2, <2>3
  <2> HIDE DEF Record
  <2>5. \A n \in 1 .. K : begun'[n].at = begun[n].at /\ begun'[n].noted = (begun[n].noted /\ ~damaged)
    BY <2>2, <2>4
  <2>6. begun'[K + 1].at = bootTime /\ begun'[K + 1].noted = FALSE
    BY <2>2, <2>4
  <2>7. Noted' = IF damaged THEN {} ELSE Noted
    <3>1. \A n \in 1 .. K + 1 : n \in 1 .. K \/ n = K + 1
      BY <1>1
    <3>2. \A n \in 1 .. K : n \in 1 .. K + 1
      BY <1>1
    <3>3. \A n \in 1 .. K + 1 : begun'[n].noted <=> n \in 1 .. K /\ begun[n].noted /\ ~damaged
      <4>1. K + 1 \notin 1 .. K
        BY <1>1
      <4> QED BY <2>5, <2>6, <3>1, <4>1
    <3>4. Noted' = {n \in 1 .. K + 1 : n \in 1 .. K /\ begun[n].noted /\ ~damaged}
      BY <2>4, <3>3 DEF Noted
    <3> QED BY <1>1, <3>2, <3>4 DEF Noted
  <2>8. \A n \in Noted : n \in 1 .. K
    BY <1>1, <1>4
  <2>9. f \in [DOMAIN startLog' -> DOMAIN begun'] /\ LoggedAs(f)'
    <3>1. \A i \in DOMAIN startLog : f[i] \in 1 .. K /\ f[i] # K + 1
      BY <1>1
    <3>2. f \in [DOMAIN startLog -> 1 .. K + 1]
      BY <1>1
    <3>3. \A i \in DOMAIN startLog : startLog[i] = begun'[f[i]].at /\ f[i] # Len(begun')
      BY <1>2, <2>4, <2>5, <3>1 DEF LoggedAs
    <3>4. \A n \in Noted' : \/ \E i \in DOMAIN startLog : f[i] = n
                           \/ /\ Len(startLog) = RingSize
                              /\ \A i \in DOMAIN startLog : begun'[n].at <= startLog[i]
      BY <1>2, <2>5, <2>7, <2>8 DEF LoggedAs
    <3> QED BY <1>2, <2>1, <2>4, <3>2, <3>3, <3>4 DEF LoggedAs
  <2>10. Starts!Lately(Noted)' < CrashThreshold
    <3>1. CASE damaged
      <4>1. {n \in Noted' : Starts!Within(begun[n].at)'} = {}
        BY <2>7, <3>1
      <4> QED BY <2>1, <4>1, Counting, FS_EmptySet DEF Starts!Lately
    <3>2. CASE ~damaged
      <4>1. {n \in Noted' : Starts!Within(begun[n].at)'} = {n \in Noted : Starts!Within(begun[n].at)}
        BY <2>1, <2>5, <2>7, <2>8, <3>2 DEF Starts!Within
      <4> QED BY <2>1, <3>2, <4>1 DEF Starts!Lately
    <3> QED BY <3>1, <3>2
  <2>11. \A n \in DOMAIN begun' : begun'[n].at <= bootTime'
    BY <1>1, <2>1, <2>4, <2>5, <2>6 DEF StartsInv
  <2>12. StartsType'
    BY <1>1, <2>1, <2>4 DEF StartsType, Record
  <2>13. Starts!StartsBounded'
    <3>1. Starts!Lately(Noted)' \in Nat
      <4> DEFINE Late == {n \in Noted' : Starts!Within(begun[n].at)'}
      <4>1. Late \subseteq 1 .. K
        BY <2>7, <2>8
      <4>2. IsFiniteSet(1 .. K)
        BY <1>1, FS_Interval
      <4>3. Cardinality(Late) \in Nat
        <5> HIDE DEF Late
        <5> QED BY <4>1, <4>2, FS_Subset, FS_CardinalityType
      <4> QED BY <4>3, Counting DEF Starts!Lately
    <3>2. Starts!Lately(Noted)' <= CrashThreshold
      BY <1>0, <2>10, <3>1
    <3> QED BY <2>1, <3>2 DEF Starts!StartsBounded, Noted
  <2>14. begun' # <<>> /\ begun'[Len(begun')].at = bootTime' /\ ~begun'[Len(begun')].noted
         /\ (damaged' => Noted' = {})
    BY <1>1, <2>1, <2>4, <2>6, <2>7, SMTT(30)
  <2> QED BY <2>1, <2>9, <2>10, <2>11, <2>12, <2>13, <2>14 DEF StartsInv
(* The start is noted: it comes last, and if the log is full the first goes. *)
<1>10. ASSUME Starts!BootNoted PROVE StartsInv'
  <2> DEFINE all == Append(Starts!Readable, bootTime)
             lost == IF Len(all) > RingSize THEN Len(all) - RingSize ELSE 0
             A == IF damaged THEN 0 ELSE L
             g == [i \in 1 .. (A + 1 - lost) |-> IF i + lost = A + 1 THEN K ELSE f[i + lost]]
  <2>1. /\ boot = "passed" /\ boot' = "up" /\ damaged' = FALSE /\ bootTime' = bootTime
        /\ startLog' = SubSeq(all, lost + 1, Len(all))
        /\ begun' = [begun EXCEPT ![K] = [begun[K] EXCEPT !.noted = TRUE]]
    BY <1>10, <1>1 DEF Starts!BootNoted
  <2>2. /\ begun # <<>> /\ begun[K].at = bootTime /\ ~begun[K].noted
        /\ Starts!Lately(Noted) < CrashThreshold /\ (damaged => Noted = {})
    BY <2>1 DEF StartsInv
  <2>3. K \in 1 .. K
    BY <1>1, <2>2
  <2>4. all \in Seq(Nat) /\ Len(all) = A + 1 /\ A \in Nat /\ A <= RingSize
    <3>1. Starts!Readable \in Seq(Nat) /\ Len(Starts!Readable) = A
      BY <1>1 DEF Starts!Readable
    <3>2. A <= RingSize
      BY <1>0, <1>1 DEF StartsType
    <3> QED BY <1>1, <3>1, <3>2
  <2>5. /\ all[A + 1] = bootTime
        /\ \A i \in 1 .. A : ~damaged /\ i \in DOMAIN startLog /\ all[i] = startLog[i]
    BY <1>1 DEF Starts!Readable
  <2>6. lost \in {0, 1} /\ (lost = 1 <=> A = RingSize) /\ A + 1 - lost \in 1 .. RingSize
    BY <1>0, <2>4
  <2> HIDE DEF all, lost, A
  <2>7. /\ startLog' \in Seq(Nat) /\ Len(startLog') = A + 1 - lost
        /\ DOMAIN startLog' = 1 .. (A + 1 - lost)
        /\ \A i \in 1 .. (A + 1 - lost) : startLog'[i] = all[i + lost]
    <3> DEFINE from == lost + 1
               to == A + 1
    <3>1. from \in Int /\ to \in Int /\ to - from + 1 = A + 1 - lost /\ A + 1 - lost \in Nat
      BY <2>4, <2>6
    <3>2. startLog' = SubSeq(all, from, to)
      BY <2>1, <2>4
    <3>3. \A i \in 1 .. (A + 1 - lost) : i + from - 1 = i + lost /\ i + lost \in 1 .. (A + 1)
      BY <2>4, <2>6
    <3>4. DOMAIN all = 1 .. (A + 1) /\ all \in [1 .. (A + 1) -> Nat]
      BY <2>4
    <3>5. startLog' = [i \in 1 .. (A + 1 - lost) |-> all[i + lost]]
      <4> HIDE DEF from, to
      <4>1. SubSeq(all, from, to) = [i \in 1 .. (to - from + 1) |-> all[i + from - 1]]
        BY <2>4, <3>1
      <4> QED BY <3>1, <3>2, <3>3, <4>1
    <3>6. DOMAIN startLog' = 1 .. (A + 1 - lost)
      BY <3>5
    <3>7. \A i \in 1 .. (A + 1 - lost) : startLog'[i] = all[i + lost]
      BY <3>5
    <3>8. startLog' \in [1 .. (A + 1 - lost) -> Nat]
      BY <3>3, <3>4, <3>5
    <3>9. startLog' \in Seq(Nat)
      BY <3>1, <3>8
    <3>10. Len(startLog') = A + 1 - lost
      BY <3>1, <3>6, <3>9
    <3> QED BY <3>6, <3>7, <3>9, <3>10
  <2>8. \A i \in 1 .. (A + 1 - lost) : i + lost \in 1 .. A \/ i + lost = A + 1
    BY <2>4, <2>6
  <2>9. /\ begun' \in Seq(Record) /\ Len(begun') = K /\ DOMAIN begun' = 1 .. K
        /\ begun'[K].at = bootTime /\ begun'[K].noted = TRUE
        /\ \A n \in 1 .. K : n # K => begun'[n] = begun[n]
    <3>1. begun[K] \in Record
      BY <1>1, <1>3, <2>3
    <3>2. [begun[K] EXCEPT !.noted = TRUE] \in Record /\ [begun[K] EXCEPT !.noted = TRUE].at = bootTime
          /\ [begun[K] EXCEPT !.noted = TRUE].noted = TRUE
      BY <2>2, <3>1
    <3> HIDE DEF Record
    <3> QED BY <1>1, <2>1, <2>3, <3>2
  <2>10. Noted' = Noted \cup {K} /\ K \notin Noted
    <3>1. \A n \in 1 .. K : begun'[n].noted <=> n = K \/ begun[n].noted
      BY <2>9
    <3> QED BY <1>1, <2>2, <2>3, <2>9, <3>1 DEF Noted
  <2>11. \A n \in 1 .. K : begun'[n].at = begun[n].at
    BY <2>2, <2>9
  <2>12. \A i \in DOMAIN startLog : f[i] \in 1 .. K /\ f[i] # K /\ startLog[i] = begun[f[i]].at
    BY <1>1, <1>2, <2>1 DEF LoggedAs
  <2>13. g \in [DOMAIN startLog' -> DOMAIN begun']
    BY <2>3, <2>5, <2>7, <2>8, <2>9, <2>12
  <2>a. PICK h : h = g
    OBVIOUS
  <2>14. LoggedAs(h)'
    <3>1. \A i, j \in DOMAIN startLog' : i # j => g[i] # g[j]
      <4> SUFFICES ASSUME NEW i \in 1 .. (A + 1 - lost), NEW j \in 1 .. (A + 1 - lost), i # j
                   PROVE  g[i] # g[j]
        BY <2>7
      <4>1. i + lost # j + lost
        BY <2>4, <2>6
      <4>2. CASE i + lost \in 1 .. A /\ j + lost \in 1 .. A
        BY <1>2, <2>4, <2>5, <4>1, <4>2 DEF LoggedAs
      <4>3. CASE i + lost = A + 1 \/ j + lost = A + 1
        BY <2>4, <2>5, <2>8, <2>12, <4>1, <4>3
      <4> QED BY <2>8, <4>2, <4>3
    <3>2. \A i \in DOMAIN startLog' : startLog'[i] = begun'[g[i]].at
      <4> SUFFICES ASSUME NEW i \in 1 .. (A + 1 - lost) PROVE all[i + lost] = begun'[g[i]].at
        BY <2>7
      <4>1. CASE i + lost \in 1 .. A
        <5>1. g[i] = f[i + lost]
          BY <2>4, <4>1
        <5> QED BY <2>5, <2>11, <2>12, <4>1, <5>1
      <4>2. CASE i + lost = A + 1
        BY <2>5, <2>9, <4>2
      <4> QED BY <2>8, <4>1, <4>2
    <3>3. ASSUME NEW n \in Noted'
          PROVE  \/ \E i \in DOMAIN startLog' : g[i] = n
                 \/ Len(startLog') = RingSize /\ \A i \in DOMAIN startLog' : begun'[n].at <= startLog'[i]
      <4>1. CASE n = K
        <5>1. A + 1 - lost \in 1 .. (A + 1 - lost) /\ A + 1 - lost + lost = A + 1
          BY <2>4, <2>6
        <5>2. g[A + 1 - lost] = K
          BY <5>1
        <5> QED BY <2>7, <4>1, <5>1, <5>2
      <4>2. CASE n # K
        <5>1. n \in Noted /\ n \in 1 .. K /\ begun'[n].at = begun[n].at /\ ~damaged /\ A = L
          BY <1>1, <1>4, <2>2, <2>10, <2>11, <3>3, <4>2 DEF A
        <5>2. ASSUME A = RingSize, \A i \in DOMAIN startLog : begun[n].at <= startLog[i]
              PROVE  Len(startLog') = RingSize /\ \A i \in DOMAIN startLog' : begun'[n].at <= startLog'[i]
          <6>1. begun[n].at <= bootTime
            BY <1>1, <5>1 DEF StartsInv
          <6>2. \A i \in 1 .. (A + 1 - lost) : begun[n].at <= all[i + lost]
            BY <2>5, <2>8, <5>2, <6>1
          <6>3. A + 1 - lost = RingSize
            BY <2>4, <2>6, <5>1, <5>2
          <6>4. Len(startLog') = RingSize
            BY <2>7, <6>3
          <6>5. \A i \in 1 .. (A + 1 - lost) : begun'[n].at <= startLog'[i]
            BY <2>7, <5>1, <6>2
          <6> QED BY <2>7, <6>4, <6>5
        <5>3. CASE \E i \in DOMAIN startLog : f[i] = n
          <6>1. PICK i \in DOMAIN startLog : f[i] = n
            BY <5>3
          <6>a. i \in 1 .. A /\ i \in Int
            BY <1>1, <5>1
          <6>2. CASE i - lost \in 1 .. (A + 1 - lost)
            <7>1. i - lost + lost = i /\ i # A + 1
              BY <2>4, <2>6, <6>a
            <7>2. g[i - lost] = n
              BY <6>1, <6>2, <7>1
            <7> QED BY <2>7, <6>2, <7>2
          <6>3. CASE i - lost \notin 1 .. (A + 1 - lost)
            <7>1. i = 1 /\ A = RingSize
              BY <2>4, <2>6, <6>a, <6>3
            <7>2. \A j \in DOMAIN startLog : startLog[1] <= startLog[j]
              <8>1. \A j \in 1 .. L : startLog[j] \in Nat /\ (j = 1 \/ 1 < j)
                BY <1>1, StartsTyped
              <8> QED BY <1>1, <6>1, <7>1, <8>1 DEF StartsInv
            <7>3. begun[n].at = startLog[1]
              BY <2>12, <6>1, <7>1
            <7> QED BY <5>2, <7>1, <7>2, <7>3
          <6> QED BY <6>2, <6>3
        <5> QED BY <1>2, <5>1, <5>2, <5>3 DEF LoggedAs
      <4> QED BY <4>1, <4>2
    <3> HIDE DEF g
    <3> QED BY <2>1, <2>a, <3>1, <3>2, <3>3 DEF LoggedAs
  <2>15. StartsType'
    <3>1. Len(startLog') <= RingSize
      BY <1>0, <2>4, <2>6, <2>7
    <3> QED BY <1>1, <2>1, <2>7, <2>9, <3>1 DEF StartsType
  <2>16. \A n \in DOMAIN begun' : begun'[n].at <= bootTime'
    BY <1>1, <2>1, <2>9, <2>11 DEF StartsInv
  <2>17. \A i, j \in DOMAIN startLog' : i < j => startLog'[i] <= startLog'[j]
    <3> SUFFICES ASSUME NEW i \in 1 .. (A + 1 - lost), NEW j \in 1 .. (A + 1 - lost), i < j
                 PROVE  all[i + lost] <= all[j + lost]
      BY <2>7
    <3>1. i + lost \in 1 .. A /\ i + lost < j + lost
      BY <2>4, <2>6
    <3>2. all[i + lost] = startLog[i + lost] /\ i + lost \in DOMAIN startLog /\ all[i + lost] <= bootTime
      <4>1. all[i + lost] = begun[f[i + lost]].at
        BY <2>5, <2>12, <3>1
      <4> QED BY <1>1, <2>5, <2>12, <3>1, <4>1 DEF StartsInv
    <3>3. CASE j + lost \in 1 .. A
      BY <2>5, <3>1, <3>2, <3>3 DEF StartsInv
    <3>4. CASE j + lost = A + 1
      BY <2>5, <3>2, <3>4
    <3> QED BY <2>8, <3>3, <3>4
  <2>18. Starts!StartsBounded'
    <3> DEFINE Late == {n \in Noted : Starts!Within(begun[n].at)}
               Late1 == {n \in Noted' : Starts!Within(begun[n].at)'}
    <3>1. Late1 \subseteq Late \cup {K}
      BY <1>1, <1>4, <2>1, <2>10, <2>11 DEF Starts!Within
    <3>2. IsFiniteSet(Late)
      <4>1. IsFiniteSet(1 .. K) /\ Late \subseteq 1 .. K
        BY <1>1, <1>4, FS_Interval
      <4> QED BY <4>1, FS_Subset
    <3>3. Cardinality(Late) < CrashThreshold
      BY <2>2, Counting DEF Starts!Lately
    <3>4. Cardinality(Late1) <= CrashThreshold
      <4> HIDE DEF Late, Late1
      <4>1. IsFiniteSet(Late \cup {K}) /\ Cardinality(Late \cup {K}) <= Cardinality(Late) + 1
            /\ Cardinality(Late) \in Nat
        <5>1. Cardinality(Late) \in Nat
          BY <3>2, FS_CardinalityType
        <5>2. IsFiniteSet(Late \cup {K})
              /\ Cardinality(Late \cup {K}) = IF K \in Late THEN Cardinality(Late) ELSE Cardinality(Late) + 1
          <6> HIDE DEF K
          <6> QED BY <3>2, FS_AddElement
        <5> QED BY <5>1, <5>2
      <4>2. Cardinality(Late1) <= Cardinality(Late \cup {K}) /\ Cardinality(Late1) \in Nat
            /\ Cardinality(Late \cup {K}) \in Nat
        BY <3>1, <4>1, FS_Subset, FS_CardinalityType
      <4> QED BY <1>0, <3>3, <4>1, <4>2
    <3>5. Starts!Lately(Noted)' = Cardinality(Late1)
      BY Counting DEF Starts!Lately
    <3> QED BY <2>1, <3>4, <3>5 DEF Starts!StartsBounded, Noted
  <2> HIDE DEF g
  <2> QED BY <2>1, <2>a, <2>13, <2>14, <2>15, <2>16, <2>17, <2>18 DEF StartsInv
<1> QED BY <1>5, <1>6, <1>7, <1>8, <1>9, <1>10 DEF Starts!Next

(* Whoever was rejected is in the table with the failure of now, which is    *)
(* recent, and nothing changed for the others.                               *)
LEMMA CountedIsRecent ==
  ASSUME FailuresInv, NEW a \in Ip
  PROVE  LET all == Rejected!Counted(a)
         IN /\ DOMAIN all = DOMAIN bucket \cup {a} /\ IsFiniteSet(DOMAIN all)
            /\ \A b \in DOMAIN all : all[b] \in Seq(Nat)
            /\ \A b \in DOMAIN bucket \ {a} : all[b] = bucket[b]
            /\ Rejected!Fresh(Rejected!LastOf(all[a]))
  <1> DEFINE all == Rejected!Counted(a)
             known == IF a \in DOMAIN bucket THEN bucket[a] ELSE <<>>
             old == Rejected!Cardinality({n \in DOMAIN known : ~Rejected!Fresh(known[n])})
             kept == SubSeq(known, old + 1, Len(known))
  <1>1. all = [b \in DOMAIN bucket \cup {a} |-> IF b = a THEN Append(kept, authTime) ELSE bucket[b]]
    BY DEF Rejected!Counted
  <1>2. known \in Seq(Nat) /\ Len(known) \in Nat /\ DOMAIN known = 1 .. Len(known)
    BY DEF FailuresInv
  <1>3. old \in Nat
    <2> DEFINE O == {n \in DOMAIN known : ~Rejected!Fresh(known[n])}
    <2>1. IsFiniteSet(DOMAIN known) /\ O \subseteq DOMAIN known
      BY <1>2, FS_Interval
    <2>2. Cardinality(O) \in Nat
      <3> HIDE DEF O
      <3> QED BY <2>1, FS_Subset, FS_CardinalityType
    <2> QED BY <2>2, Counting
  <1>4. kept \in Seq(Nat)
    <2> HIDE DEF known, old
    <2> QED BY <1>2, <1>3
  <1> HIDE DEF kept, all
  <1>5. all[a] = Append(kept, authTime) /\ authTime \in Nat
    BY <1>1 DEF FailuresInv
  <1>6. all[a] \in Seq(Nat) /\ Rejected!LastOf(all[a]) = authTime
    BY <1>4, <1>5 DEF Rejected!LastOf
  <1>7. Rejected!Fresh(authTime)
    <2>1. FailureWindow \in Nat /\ FailureWindow # 0
      BY ResourcesAssumption
    <2> QED BY <1>5, <2>1 DEF Rejected!Fresh
  <1>8. IsFiniteSet(DOMAIN all)
    BY <1>1, FS_AddElement DEF FailuresInv
  <1> QED BY <1>1, <1>6, <1>7, <1>8 DEF FailuresInv, all

(* A rejection: who goes had no recent failure, or no more than who stays.   *)
LEMMA RejectEvicts ==
  ASSUME FailuresInv, NEW a \in Ip, Rejected!Reject(a)
  PROVE  FailuresInv' /\ Rejected!FloodEvictsItself
  <1> DEFINE all == Rejected!Counted(a)
             live == Rejected!Without(all, {b \in DOMAIN all : ~Rejected!Fresh(Rejected!LastOf(all[b]))})
             n == Rejected!Cardinality(DOMAIN live)
  <1>1. /\ \/ Cardinality(DOMAIN all) <= MaxIps /\ bucket' = all
           \/ n <= MaxIps /\ bucket' = live
           \/ ~(n <= MaxIps) /\ \E V \in Rejected!Victims(live, n - MaxIps) : bucket' = Rejected!Without(live, V \ {a})
        /\ caller' = a /\ authTime' = authTime
    BY Counting DEF Rejected!Reject
  <1>2. /\ DOMAIN all = DOMAIN bucket \cup {a} /\ IsFiniteSet(DOMAIN all)
        /\ \A b \in DOMAIN all : all[b] \in Seq(Nat)
        /\ \A b \in DOMAIN bucket \ {a} : all[b] = bucket[b]
        /\ Rejected!Fresh(Rejected!LastOf(all[a]))
    BY CountedIsRecent
  <1> HIDE DEF all
  <1>3. /\ DOMAIN live = {b \in DOMAIN all : Rejected!Fresh(Rejected!LastOf(all[b]))}
        /\ \A b \in DOMAIN live : live[b] = all[b]
    BY DEF Rejected!Without
  <1> HIDE DEF live
  <1>4. IsFiniteSet(DOMAIN live) /\ n = Cardinality(DOMAIN live) /\ n \in Nat
    <2>1. IsFiniteSet(DOMAIN live)
      BY <1>2, <1>3, FS_Subset
    <2> QED BY <2>1, Counting, FS_CardinalityType
  <1> DEFINE Recent == {b \in DOMAIN bucket : Rejected!Fresh(Rejected!LastOf(bucket[b]))}
  <1>5. \A b \in Recent : b \in DOMAIN live
    BY <1>2, <1>3
  <1>6. MaxIps \in Nat
    BY ResourcesAssumption
  <1>7. ASSUME IsFiniteSet(DOMAIN bucket'), Cardinality(DOMAIN bucket') <= MaxIps + 1,
               DOMAIN bucket' \subseteq DOMAIN all, \A b \in DOMAIN bucket' : bucket'[b] = all[b],
               \A b \in Recent \ DOMAIN bucket', d \in DOMAIN bucket' \ {a} : Len(bucket'[d]) >= Len(bucket[b])
        PROVE  FailuresInv' /\ Rejected!FloodEvictsItself
    <2>1. FailuresInv'
      BY <1>1, <1>2, <1>7 DEF FailuresInv
    <2>2. {b \in DOMAIN bucket \ DOMAIN bucket' : Rejected!Fresh(Rejected!LastOf(bucket[b]))} = Recent \ DOMAIN bucket'
      OBVIOUS
    <2>3. Rejected!Cardinality(DOMAIN bucket') <= MaxIps + 1
      BY <1>7, Counting
    <2> HIDE DEF Recent
    <2> QED BY <1>1, <1>7, <2>1, <2>2, <2>3 DEF Rejected!FloodEvictsItself
  <1>8. CASE Cardinality(DOMAIN all) <= MaxIps /\ bucket' = all
    <2>1. Cardinality(DOMAIN bucket') <= MaxIps + 1
      <3>1. Cardinality(DOMAIN all) \in Nat
        BY <1>2, FS_CardinalityType
      <3> QED BY <1>6, <1>8, <3>1
    <2> QED BY <1>2, <1>7, <1>8, <2>1
  <1>9. CASE n <= MaxIps /\ bucket' = live
    <2>1. Cardinality(DOMAIN bucket') <= MaxIps + 1
      BY <1>4, <1>6, <1>9
    <2> HIDE DEF n
    <2> QED BY <1>3, <1>4, <1>5, <1>7, <1>9, <2>1
  <1>10. ASSUME ~(n <= MaxIps), NEW V \in Rejected!Victims(live, n - MaxIps),
                bucket' = Rejected!Without(live, V \ {a})
         PROVE  FailuresInv' /\ Rejected!FloodEvictsItself
    <2>1. /\ V \subseteq DOMAIN live /\ Cardinality(V) = n - MaxIps
          /\ \A d \in DOMAIN live \ V, v \in V : ~Rejected!Before(live[d], live[v])
      BY <1>10, Counting DEF Rejected!Victims
    <2>2. DOMAIN bucket' = DOMAIN live \ (V \ {a}) /\ \A b \in DOMAIN bucket' : bucket'[b] = live[b]
      BY <1>10 DEF Rejected!Without
    <2>3. Cardinality(DOMAIN live \ V) = MaxIps /\ IsFiniteSet(DOMAIN live \ V)
      <3>1. DOMAIN live \cap V = V
        BY <2>1
      <3>2. /\ IsFiniteSet(DOMAIN live \ V)
            /\ Cardinality(DOMAIN live \ V) = Cardinality(DOMAIN live) - Cardinality(DOMAIN live \cap V)
        BY <1>4, FS_Difference
      <3> QED BY <1>4, <1>6, <2>1, <3>1, <3>2
    <2>4. IsFiniteSet(DOMAIN bucket') /\ Cardinality(DOMAIN bucket') <= MaxIps + 1
      <3>1. DOMAIN bucket' \subseteq (DOMAIN live \ V) \cup {a}
        BY <2>2
      <3>2. /\ IsFiniteSet((DOMAIN live \ V) \cup {a})
            /\ Cardinality((DOMAIN live \ V) \cup {a}) \in {MaxIps, MaxIps + 1}
        BY <2>3, FS_AddElement
      <3>3. /\ IsFiniteSet(DOMAIN bucket')
            /\ Cardinality(DOMAIN bucket') <= Cardinality((DOMAIN live \ V) \cup {a})
        BY <3>1, <3>2, FS_Subset
      <3>4. Cardinality(DOMAIN bucket') \in Nat
        BY <3>3, FS_CardinalityType
      <3> QED BY <1>6, <3>2, <3>3, <3>4
    <2>5. ASSUME NEW b \in Recent \ DOMAIN bucket', NEW d \in DOMAIN bucket' \ {a}
          PROVE  Len(bucket'[d]) >= Len(bucket[b])
      <3>1. b \in V /\ b # a /\ d \in DOMAIN live \ V
        BY <1>5, <2>2
      <3>2. live[b] = bucket[b] /\ bucket'[d] = live[d]
        BY <1>2, <1>3, <2>2, <2>5, <3>1
      <3>3. live[b] \in Seq(Nat) /\ live[d] \in Seq(Nat)
        BY <1>2, <1>3, <2>1, <3>1
      <3>4. ~(Len(live[d]) < Len(live[b]))
        BY <2>1, <3>1 DEF Rejected!Before
      <3> QED BY <3>2, <3>3, <3>4
    <2> HIDE DEF n, Recent
    <2> QED BY <1>3, <1>7, <2>2, <2>4, <2>5
  <1> QED BY <1>1, <1>8, <1>9, <1>10

(* As time passes nobody is forgotten.                                       *)
LEMMA FailuresStep ==
  ASSUME FailuresInv, Rejected!Next \/ UNCHANGED OfRejected
  PROVE  FailuresInv' /\ Rejected!FloodEvictsItself
<1>1. ASSUME bucket' = bucket, authTime' \in Nat PROVE FailuresInv' /\ Rejected!FloodEvictsItself
  BY <1>1, Counting DEF FailuresInv, Rejected!FloodEvictsItself
<1>2. CASE Rejected!AuthTick
  BY <1>1, <1>2 DEF Rejected!AuthTick, FailuresInv
<1>3. CASE UNCHANGED OfRejected
  BY <1>1, <1>3 DEF OfRejected, FailuresInv
<1> QED BY <1>2, <1>3, RejectEvicts DEF Rejected!Next

(* A lock is a time, no longer than the longest.                             *)
LEMMA LockLasts ==
  ASSUME NEW n \in Nat, NEW t \in Nat, t <= n, n <= MaxFails
  PROVE  /\ Passwords!LockSeconds(n, t) \in 0 .. MaxLock
         /\ Passwords!LockSeconds(n, t) \in {MaxLock, Base * 2 ^ (n - t)}
  <1>1. Base \in Nat /\ MaxLock \in Nat /\ MaxFails \in Nat
    BY LoginsAssumption
  <1>2. n - t \in 0 .. MaxFails
    BY <1>1
  <1>3. 2 ^ (n - t) \in Nat
    BY <1>2, LoginsAssumption
  <1>4. Base * 2 ^ (n - t) \in Nat
    <2> DEFINE power == 2 ^ (n - t)
    <2> HIDE DEF power
    <2>1. power \in Nat
      BY <1>3 DEF power
    <2>2. Base * power \in Nat
      BY <1>1, <2>1
    <2> QED BY <2>2 DEF power
  <1> DEFINE doubled == Base * 2 ^ (n - t)
  <1>5. Passwords!LockSeconds(n, t) = IF doubled < MaxLock THEN doubled ELSE MaxLock
    BY DEF Passwords!LockSeconds
  <1>6. doubled \in Nat
    BY <1>4
  <1> HIDE DEF doubled
  <1>7. Passwords!LockSeconds(n, t) \in 0 .. MaxLock /\ Passwords!LockSeconds(n, t) \in {MaxLock, doubled}
    BY <1>1, <1>5, <1>6
  <1> QED BY <1>7 DEF doubled

(* The assumption gives such times.                                          *)
LEMMA SpentIsThere == Spent \in [0 .. GlobalThreshold - 1 -> 0 .. Window + 1] /\ Slows(Spent)
BY LoginsAssumption DEF Spent

(* One more failure of an address whose lock is over, within its window.     *)
LEMMA SlowedDown ==
  ASSUME NEW k \in 0 .. GlobalThreshold - 1, Spent[k] <= Window, k + 1 <= MaxFails
  PROVE  /\ k + 1 <= GlobalThreshold - 1
         /\ k + 1 < Threshold => Spent[k + 1] <= Spent[k]
         /\ k + 1 >= Threshold => Spent[k + 1] <= Spent[k] + Passwords!LockSeconds(k + 1, Threshold)
  <1>1. GlobalThreshold \in Nat \ {0} /\ Window \in Nat /\ Threshold \in Nat
    BY LoginsAssumption
  <1>2. k # GlobalThreshold - 1
    BY <1>1, SpentIsThere DEF Slows
  <1>3. k + 1 \in 1 .. GlobalThreshold - 1 /\ k + 1 - 1 = k /\ k + 1 \in Nat
    BY <1>1, <1>2
  <1>4. IF k + 1 < Threshold THEN Spent[k + 1] <= Spent[k]
        ELSE /\ Spent[k + 1] <= Spent[k] + Doubled(k + 1)
             /\ Spent[k + 1] <= Spent[k] + MaxLock
    <2> DEFINE S(n, m) == IF n < Threshold THEN Spent[n] <= Spent[m]
                          ELSE /\ Spent[n] <= Spent[m] + Doubled(n)
                               /\ Spent[n] <= Spent[m] + MaxLock
    <2>1. \A n \in 1 .. GlobalThreshold - 1 : S(n, n - 1)
      BY SpentIsThere DEF Slows
    <2>2. S(k + 1, k)
      <3> HIDE DEF S
      <3> QED BY <1>3, <2>1
    <2> QED BY <2>2
  <1>5. CASE k + 1 >= Threshold
    <2>1. Passwords!LockSeconds(k + 1, Threshold) \in {MaxLock, Doubled(k + 1)}
      BY <1>1, <1>3, <1>5, LockLasts DEF Doubled
    <2>2. ~(k + 1 < Threshold)
      BY <1>1, <1>3, <1>5
    <2>3. /\ Spent[k + 1] <= Spent[k] + Doubled(k + 1)
          /\ Spent[k + 1] <= Spent[k] + MaxLock
      BY <1>4, <2>2
    <2>4. Spent[k + 1] <= Spent[k] + Passwords!LockSeconds(k + 1, Threshold)
      BY <2>1, <2>3
    <2> QED BY <1>3, <2>2, <2>4
  <1>6. CASE k + 1 < Threshold
    BY <1>1, <1>3, <1>4, <1>6
  <1> QED BY <1>1, <1>3, <1>5, <1>6

(* A set with one more than none has one.                                    *)
LEMMA OnlyOne ==
  ASSUME NEW S, IsFiniteSet(S), NEW a \in S, ~(Cardinality(S) >= 2)
  PROVE  S = {a}
<1>1. IsFiniteSet(S \ {a}) /\ Cardinality(S \ {a}) = Cardinality(S) - 1
  BY FS_RemoveElement
<1>2. Cardinality(S) \in Nat /\ Cardinality(S \ {a}) \in Nat
  BY <1>1, FS_CardinalityType
<1>3. Cardinality(S \ {a}) = 0
  BY <1>1, <1>2
<1>4. S \ {a} = {}
  BY <1>1, <1>3, FS_EmptySet
<1> QED BY <1>4

(* A failure.  The address's own count stays below the threshold of all, as  *)
(* its locks take longer than the window; so does the count of all as long   *)
(* as it counts the same failures.                                           *)
LEMMA FailureKeeps == ASSUME LoginsInv, NEW a \in Address, Passwords!LoginFails(a) PROVE LoginsInv'
<1> DEFINE late == loginTime - firstFail[a] > Window
           n == IF late THEN 1 ELSE failures[a] + 1
           first == IF n = 1 THEN loginTime ELSE firstFail[a]
           until == IF n >= Threshold THEN loginTime + Passwords!LockSeconds(n, Threshold)
                    ELSE IF n = 1 THEN 0 ELSE lockedUntil[a]
           anew == loginTime - allFirst > Window
           all == IF anew THEN 1 ELSE allFails + 1
           Keep(f, own) == [b \in Address |-> IF b = a THEN own ELSE IF Passwords!Lapsed(b) THEN 0 ELSE f[b]]
<1>1. /\ ~(loginTime < lockedUntil[a]) /\ ~(loginTime < allUntil) /\ fails < MaxFails
      /\ failures' = Keep(failures, n) /\ firstFail' = Keep(firstFail, first)
      /\ lockedUntil' = Keep(lockedUntil, until)
      /\ allFails' = all /\ allFirst' = IF anew THEN loginTime ELSE allFirst
      /\ allUntil' = IF all >= GlobalThreshold
                     THEN loginTime + Passwords!LockSeconds(all, GlobalThreshold) ELSE allUntil
      /\ blame' = IF anew THEN {a} ELSE blame \cup {a}
      /\ midway' = IF anew THEN n > 1 ELSE midway
      /\ fails' = fails + 1 /\ loginTime' = loginTime /\ entries' = entries
  BY DEF Passwords!LoginFails, Passwords!Locked
<1>2. /\ Threshold \in Nat /\ Window \in Nat /\ MaxLock \in Nat /\ MaxFails \in Nat /\ MaxLoginTime \in Nat
      /\ GlobalThreshold \in Nat /\ 1 < GlobalThreshold /\ LoginStart \in Nat /\ Window < LoginStart
      /\ Spent[0] = 0
  BY LoginsAssumption, SpentIsThere DEF Slows
<1>3. /\ loginTime \in Nat /\ LoginStart <= loginTime /\ loginTime <= MaxLoginTime
      /\ fails \in Nat /\ allFails \in Nat /\ allFails <= fails
      /\ allFirst \in 0 .. loginTime /\ allUntil \in Nat /\ allUntil <= MaxLoginTime + MaxLock
      /\ entries \in Nat /\ blame \subseteq Address /\ IsFiniteSet(blame) /\ midway \in BOOLEAN
      /\ (blame = {} => allFirst = 0)
  BY <1>2 DEF LoginsInv, Passwords!TypeOK, Passwords!Times
<1>4. \A b \in Address :
        /\ failures[b] \in 0 .. GlobalThreshold - 1 /\ failures[b] <= fails
        /\ firstFail[b] \in 0 .. loginTime /\ (failures[b] = 0 <=> firstFail[b] = 0)
        /\ lockedUntil[b] \in 0 .. MaxLoginTime + MaxLock
        /\ Spent[failures[b]] \in Nat
        /\ \/ firstFail[b] + Spent[failures[b]] <= loginTime
           \/ firstFail[b] + Spent[failures[b]] <= lockedUntil[b]
  <2>1. \A b \in Address : failures[b] \in 0 .. GlobalThreshold - 1
    BY <1>2 DEF LoginsInv, Passwords!TypeOK
  <2>2. \A b \in Address : Spent[failures[b]] \in Nat
    BY <1>2, <2>1, SpentIsThere
  <2> QED BY <1>2, <1>3, <2>1, <2>2 DEF LoginsInv, Passwords!TypeOK, Passwords!Times
(* Its own count.                                                            *)
<1>5. /\ n \in 1 .. GlobalThreshold - 1 /\ n <= fails + 1 /\ n <= MaxFails /\ n \in Nat
      /\ first \in 1 .. loginTime /\ Spent[n] \in Nat
      /\ n < Threshold => first + Spent[n] <= loginTime
      /\ n >= Threshold => first + Spent[n] <= loginTime + Passwords!LockSeconds(n, Threshold)
  <2>1. fails + 1 <= MaxFails
    BY <1>1, <1>2, <1>3
  <2>2. CASE late
    <3>1. n = 1 /\ first = loginTime
      BY <2>2
    <3>2. /\ 0 + 1 <= GlobalThreshold - 1
          /\ 0 + 1 < Threshold => Spent[0 + 1] <= Spent[0]
          /\ 0 + 1 >= Threshold => Spent[0 + 1] <= Spent[0] + Passwords!LockSeconds(0 + 1, Threshold)
      <4>1. 0 \in 0 .. GlobalThreshold - 1 /\ Spent[0] <= Window /\ 0 + 1 <= MaxFails
        BY <1>2, <1>3, <2>1
      <4> QED BY <4>1, SlowedDown
    <3>3. 0 + 1 = 1
      OBVIOUS
    <3>4. 1 < Threshold => Spent[1] <= 0
      BY <1>2, <3>2, <3>3
    <3>5. 1 >= Threshold => Spent[1] <= Passwords!LockSeconds(1, Threshold)
      <4>1. SUFFICES ASSUME 1 >= Threshold PROVE Spent[1] <= Passwords!LockSeconds(1, Threshold)
        OBVIOUS
      <4>2. Passwords!LockSeconds(1, Threshold) \in Nat
        BY <1>2, <1>3, <2>1, <4>1, LockLasts
      <4> QED BY <1>2, <3>2, <3>3, <4>1, <4>2
    <3>6. Spent[1] \in Nat
      BY <1>2, <3>2, SpentIsThere
    <3>7. 1 >= Threshold => loginTime + Spent[1] <= loginTime + Passwords!LockSeconds(1, Threshold)
      <4>1. SUFFICES ASSUME 1 >= Threshold
                     PROVE  loginTime + Spent[1] <= loginTime + Passwords!LockSeconds(1, Threshold)
        OBVIOUS
      <4>2. Passwords!LockSeconds(1, Threshold) \in Nat
        BY <1>2, <1>3, <2>1, <4>1, LockLasts
      <4> QED BY <1>3, <3>5, <3>6, <4>1, <4>2
    <3> HIDE DEF n, first
    <3> QED BY <1>2, <1>3, <2>1, <3>1, <3>2, <3>4, <3>6, <3>7
  <2>3. CASE ~late
    <3> DEFINE k == failures[a]
    <3>1. firstFail[a] # 0 /\ k # 0 /\ n = k + 1 /\ first = firstFail[a] /\ k \in Nat
      BY <1>2, <1>3, <1>4, <2>3
    <3>2. firstFail[a] + Spent[k] <= loginTime /\ Spent[k] <= Window
      BY <1>1, <1>2, <1>3, <1>4, <2>3
    <3>3. k \in 0 .. GlobalThreshold - 1 /\ k + 1 <= MaxFails /\ k <= fails
      BY <1>2, <1>3, <1>4, <2>1
    <3> HIDE DEF k, n, first
    <3>4. /\ k + 1 <= GlobalThreshold - 1
          /\ k + 1 < Threshold => Spent[k + 1] <= Spent[k]
          /\ k + 1 >= Threshold => Spent[k + 1] <= Spent[k] + Passwords!LockSeconds(k + 1, Threshold)
      BY <3>2, <3>3, SlowedDown
    <3>5. k + 1 \in 1 .. GlobalThreshold - 1 /\ k + 1 \in Nat
      BY <1>2, <3>1, <3>4
    <3>6. Spent[k + 1] \in Nat /\ Spent[k] \in Nat
      BY <1>2, <3>3, <3>5, SpentIsThere
    <3>7. k + 1 >= Threshold => Passwords!LockSeconds(k + 1, Threshold) \in Nat
      BY <1>2, <3>3, <3>5, LockLasts
    <3>8. first \in 1 .. loginTime
      BY <1>3, <1>4, <3>1
    <3> QED BY <1>2, <1>3, <1>4, <3>1, <3>2, <3>3, <3>4, <3>5, <3>6, <3>7, <3>8
  <2> QED BY <2>2, <2>3
<1>6. until \in 0 .. MaxLoginTime + MaxLock
      /\ (first + Spent[n] <= loginTime \/ first + Spent[n] <= until)
  <2> HIDE DEF n, first
  <2>1. CASE n >= Threshold
    BY <1>2, <1>3, <1>5, <2>1, LockLasts
  <2>2. CASE ~(n >= Threshold)
    BY <1>2, <1>3, <1>4, <1>5, <2>2
  <2> QED BY <2>1, <2>2
(* The count of all.                                                         *)
<1>7. all \in 1 .. fails + 1 /\ fails + 1 <= MaxFails
  BY <1>1, <1>2, <1>3
<1>8. allUntil' \in 0 .. MaxLoginTime + MaxLock
  <2> HIDE DEF all
  <2>1. CASE all >= GlobalThreshold
    <3>1. Passwords!LockSeconds(all, GlobalThreshold) \in 0 .. MaxLock
      BY <1>2, <1>3, <1>7, <2>1, LockLasts
    <3> QED BY <1>1, <1>2, <1>3, <2>1, <3>1
  <2>2. CASE ~(all >= GlobalThreshold)
    BY <1>1, <1>2, <1>3, <2>2
  <2> QED BY <2>1, <2>2
<1>9. IsFiniteSet(blame') /\ blame' \subseteq Address /\ a \in blame' /\ midway' \in BOOLEAN
      /\ allFirst' \in 0 .. loginTime
  <2>1. IsFiniteSet({a}) /\ IsFiniteSet(blame \cup {a})
    BY <1>3, FS_Singleton, FS_AddElement
  <2>2. CASE anew
    <3>1. blame' = {a} /\ midway' = (n > 1) /\ allFirst' = loginTime
      BY <1>1, <2>2
    <3>2. (n > 1) \in BOOLEAN
      OBVIOUS
    <3> HIDE DEF n, anew
    <3> QED BY <1>3, <2>1, <3>1, <3>2
  <2>3. CASE ~anew
    <3>1. blame' = blame \cup {a} /\ midway' = midway /\ allFirst' = allFirst
      BY <1>1, <2>3
    <3> QED BY <1>3, <2>1, <3>1
  <2> QED BY <2>2, <2>3
<1>10. \A b \in Address :
         /\ failures'[b] = IF b = a THEN n ELSE IF Passwords!Lapsed(b) THEN 0 ELSE failures[b]
         /\ firstFail'[b] = IF b = a THEN first ELSE IF Passwords!Lapsed(b) THEN 0 ELSE firstFail[b]
         /\ lockedUntil'[b] = IF b = a THEN until ELSE IF Passwords!Lapsed(b) THEN 0 ELSE lockedUntil[b]
  <2> HIDE DEF n, first, until
  <2> QED BY <1>1 DEF Keep
<1>11. DOMAIN failures' = Address /\ DOMAIN firstFail' = Address /\ DOMAIN lockedUntil' = Address
       /\ failures' = [b \in Address |-> failures'[b]] /\ firstFail' = [b \in Address |-> firstFail'[b]]
       /\ lockedUntil' = [b \in Address |-> lockedUntil'[b]]
  <2> HIDE DEF n, first, until
  <2> QED BY <1>1 DEF Keep
<1>12. ASSUME blame' = {a}, ~midway', loginTime <= allFirst' + Window
       PROVE  n = all /\ first = allFirst'
  <2>1. CASE anew
    <3>1. ~(n > 1)
      BY <1>1, <1>12, <2>1
    <3>2. n = 1
      <4> HIDE DEF n
      <4> QED BY <1>2, <1>5, <3>1
    <3> QED BY <1>1, <2>1, <3>2
  <2>2. CASE ~anew
    <3>1. loginTime <= allFirst + Window /\ blame # {} /\ blame \subseteq {a} /\ ~midway /\ allFirst' = allFirst
      BY <1>1, <1>2, <1>3, <1>12, <2>2
    <3>2. failures[a] = allFails /\ firstFail[a] = allFirst
      BY <3>1 DEF LoginsInv
    <3>3. ~late /\ firstFail[a] # 0
      BY <1>2, <1>3, <2>2, <3>1, <3>2
    <3>4. failures[a] # 0 /\ failures[a] \in Nat
      BY <1>2, <1>4, <3>3
    <3> QED BY <1>3, <2>2, <3>1, <3>2, <3>3, <3>4
  <2> QED BY <2>1, <2>2
<1> HIDE DEF n, first, until, all, late, anew
<1>13. Passwords!OneAloneLocksItself'
  <2> SUFFICES ASSUME loginTime' < allUntil', ~(Cardinality(blame') >= 2), ~midway' PROVE FALSE
    BY Counting DEF Passwords!OneAloneLocksItself
  <2>1. all >= GlobalThreshold /\ ~anew /\ loginTime <= allFirst' + Window
    BY <1>1, <1>2, <1>3 DEF all, anew
  <2>2. blame' = {a}
    BY <1>9, OnlyOne
  <2>3. n = all
    BY <1>12, <2>1, <2>2
  <2> QED BY <1>2, <1>5, <2>1, <2>3
<1>14. \A b \in Address :
         /\ failures'[b] \in 0 .. GlobalThreshold - 1 /\ failures'[b] <= fails'
         /\ firstFail'[b] \in 0 .. loginTime /\ (failures'[b] = 0 <=> firstFail'[b] = 0)
         /\ lockedUntil'[b] \in 0 .. MaxLoginTime + MaxLock
         /\ \/ firstFail'[b] + Spent[failures'[b]] <= loginTime
            \/ firstFail'[b] + Spent[failures'[b]] <= lockedUntil'[b]
  <2> SUFFICES ASSUME NEW b \in Address
               PROVE  /\ failures'[b] \in 0 .. GlobalThreshold - 1 /\ failures'[b] <= fails'
                      /\ firstFail'[b] \in 0 .. loginTime /\ (failures'[b] = 0 <=> firstFail'[b] = 0)
                      /\ lockedUntil'[b] \in 0 .. MaxLoginTime + MaxLock
                      /\ \/ firstFail'[b] + Spent[failures'[b]] <= loginTime
                         \/ firstFail'[b] + Spent[failures'[b]] <= lockedUntil'[b]
    OBVIOUS
  <2>1. CASE b = a
    <3>1. failures'[b] = n /\ firstFail'[b] = first /\ lockedUntil'[b] = until
      BY <1>10, <2>1
    <3>2. n \in 0 .. GlobalThreshold - 1 /\ first \in 0 .. loginTime /\ n # 0 /\ first # 0
      BY <1>2, <1>3, <1>5
    <3> QED BY <1>1, <1>5, <1>6, <3>1, <3>2
  <2>2. CASE b # a /\ Passwords!Lapsed(b)
    <3>1. failures'[b] = 0 /\ firstFail'[b] = 0 /\ lockedUntil'[b] = 0
      BY <1>10, <2>2
    <3> QED BY <1>1, <1>2, <1>3, <3>1
  <2>3. CASE b # a /\ ~Passwords!Lapsed(b)
    <3>1. failures'[b] = failures[b] /\ firstFail'[b] = firstFail[b] /\ lockedUntil'[b] = lockedUntil[b]
      BY <1>10, <2>3
    <3> QED BY <1>1, <1>2, <1>3, <1>4, <3>1
  <2> QED BY <2>1, <2>2, <2>3
<1>15. Passwords!TypeOK'
  <2>1. failures' \in [Address -> Nat]
    BY <1>2, <1>11, <1>14
  <2>2. firstFail' \in [Address -> Passwords!Times]
    BY <1>2, <1>3, <1>11, <1>14 DEF Passwords!Times
  <2>3. lockedUntil' \in [Address -> 0 .. MaxLoginTime + MaxLock]
    BY <1>11, <1>14
  <2> QED BY <1>1, <1>2, <1>3, <1>7, <1>8, <1>9, <2>1, <2>2, <2>3 DEF Passwords!TypeOK, Passwords!Times
<1>16. ASSUME NEW b \in Address, blame' = {b}, ~midway', loginTime' <= allFirst' + Window
       PROVE  failures'[b] = allFails' /\ firstFail'[b] = allFirst'
  BY <1>1, <1>9, <1>10, <1>12, <1>16
<1> QED BY <1>1, <1>2, <1>3, <1>7, <1>9, <1>13, <1>14, <1>15, <1>16 DEF LoginsInv

(* A login that succeeds sets the counts back; as time passes, locks end.    *)
LEMMA LoginsStep == ASSUME LoginsInv, Passwords!Next \/ UNCHANGED OfLogins PROVE LoginsInv'
<1>1. /\ Window \in Nat /\ MaxFails \in Nat /\ MaxLoginTime \in Nat /\ LoginStart \in Nat /\ Window < LoginStart
      /\ GlobalThreshold \in Nat /\ 0 < GlobalThreshold /\ Spent[0] = 0 /\ MaxLock \in Nat
  BY LoginsAssumption, SpentIsThere DEF Slows
<1>2. /\ loginTime \in LoginStart .. MaxLoginTime /\ fails \in Nat /\ entries \in Nat /\ allFails \in Nat
      /\ allFirst \in Nat /\ allUntil \in Nat
      /\ \A a \in Address : failures[a] \in Nat /\ firstFail[a] \in Nat /\ lockedUntil[a] \in Nat
  BY <1>1 DEF LoginsInv, Passwords!TypeOK, Passwords!Times
<1>3. \A a \in Address : Spent[failures[a]] \in Nat
  BY <1>1, <1>2, SpentIsThere, SMTT(30) DEF LoginsInv
<1>4. ASSUME NEW a \in Address, Passwords!LogsIn(a) PROVE LoginsInv'
  <2>1. /\ failures' = [failures EXCEPT ![a] = 0] /\ firstFail' = [firstFail EXCEPT ![a] = 0]
        /\ lockedUntil' = [lockedUntil EXCEPT ![a] = 0]
        /\ allFails' = 0 /\ allFirst' = 0 /\ allUntil' = 0 /\ blame' = {} /\ midway' = FALSE
        /\ entries' = entries + 1 /\ UNCHANGED <<loginTime, fails>>
    BY <1>4 DEF Passwords!LogsIn
  <2>2. Passwords!TypeOK'
    <3>1. failures \in [Address -> Nat] /\ firstFail \in [Address -> Passwords!Times]
          /\ lockedUntil \in [Address -> 0 .. MaxLoginTime + MaxLock]
      BY DEF LoginsInv, Passwords!TypeOK
    <3>2. 0 \in Nat /\ 0 \in Passwords!Times /\ 0 \in 0 .. MaxLoginTime + MaxLock
      BY <1>1 DEF Passwords!Times
    <3>3. failures' \in [Address -> Nat] /\ firstFail' \in [Address -> Passwords!Times]
          /\ lockedUntil' \in [Address -> 0 .. MaxLoginTime + MaxLock]
      BY <2>1, <3>1, <3>2
    <3>4. loginTime' \in LoginStart .. MaxLoginTime /\ fails' \in Nat /\ entries' \in Nat
      BY <1>2, <2>1
    <3>5. /\ allFails' \in Nat /\ allFirst' \in Passwords!Times /\ allUntil' \in 0 .. MaxLoginTime + MaxLock
          /\ blame' \subseteq Address /\ midway' \in BOOLEAN
      BY <2>1, <3>2
    <3> QED BY <3>3, <3>4, <3>5 DEF Passwords!TypeOK
  <2>3. \A b \in Address : \/ b = a /\ failures'[b] = 0 /\ firstFail'[b] = 0 /\ lockedUntil'[b] = 0
                           \/ failures'[b] = failures[b] /\ firstFail'[b] = firstFail[b] /\ lockedUntil'[b] = lockedUntil[b]
    BY <2>1 DEF LoginsInv, Passwords!TypeOK
  <2>4. \A b \in Address :
          /\ failures'[b] < GlobalThreshold /\ failures'[b] <= fails'
          /\ firstFail'[b] <= loginTime' /\ (failures'[b] = 0 <=> firstFail'[b] = 0)
          /\ \/ firstFail'[b] + Spent[failures'[b]] <= loginTime'
             \/ firstFail'[b] + Spent[failures'[b]] <= lockedUntil'[b]
    BY <1>1, <1>2, <2>1, <2>3 DEF LoginsInv
  <2>5. Passwords!OneAloneLocksItself'
    BY <1>1, <1>2, <2>1 DEF Passwords!OneAloneLocksItself
  <2> QED BY <1>1, <1>2, <2>1, <2>2, <2>4, <2>5, FS_EmptySet DEF LoginsInv
(* As time passes, locks and windows end.                                    *)
<1>5. ASSUME Passwords!LoginTick PROVE LoginsInv'
  <2>1. /\ loginTime < MaxLoginTime /\ loginTime' = loginTime + 1
        /\ UNCHANGED <<failures, firstFail, lockedUntil, allFails, allFirst, allUntil, fails, entries, blame, midway>>
    BY <1>5 DEF Passwords!LoginTick
  <2>2. Passwords!TypeOK'
    BY <1>1, <1>2, <2>1 DEF LoginsInv, Passwords!TypeOK, Passwords!Times
  <2>3. \A b \in Address : loginTime' <= allFirst + Window => loginTime <= allFirst + Window
    BY <1>1, <1>2, <2>1
  <2>4. Passwords!OneAloneLocksItself'
    BY <1>1, <1>2, <2>1 DEF LoginsInv, Passwords!OneAloneLocksItself
  <2>5. \A b \in Address :
          /\ firstFail[b] <= loginTime'
          /\ \/ firstFail[b] + Spent[failures[b]] <= loginTime'
             \/ firstFail[b] + Spent[failures[b]] <= lockedUntil[b]
    BY <1>1, <1>2, <1>3, <2>1 DEF LoginsInv
  <2> QED BY <1>1, <1>2, <2>1, <2>2, <2>3, <2>4, <2>5 DEF LoginsInv
<1>6. ASSUME UNCHANGED OfLogins PROVE LoginsInv'
  BY <1>6 DEF OfLogins, LoginsInv, Passwords!TypeOK, Passwords!OneAloneLocksItself
<1> QED BY <1>4, <1>5, <1>6, FailureKeeps DEF Passwords!Next

(* The remainder of the next number.                                         *)
LEMMA NextModulo ==
  ASSUME NEW d \in Nat, NEW p \in Nat \ {0}
  PROVE  /\ d % p \in 0 .. p - 1 /\ (d + 1) % p \in 0 .. p - 1
         /\ (d + 1) % p # 0 => (d + 1) % p = (d % p) + 1
<1>1. d % p \in 0 .. p - 1 /\ (d + 1) % p \in 0 .. p - 1
  OBVIOUS
<1>2. PICK q \in Nat, r \in Nat : q = d \div p /\ r = d % p /\ r < p /\ d = p * q + r
  <2>1. d = p * (d \div p) + (d % p) /\ d \div p \in Nat
    OBVIOUS
  <2> QED BY <1>1, <2>1
<1>3. CASE r + 1 < p
  <2>1. d + 1 = p * q + (r + 1)
    BY <1>2
  <2>2. (p * q + (r + 1)) % p = r + 1
    BY <1>3
  <2> QED BY <1>1, <1>2, <2>1, <2>2
<1>4. CASE r + 1 = p
  <2>1. d + 1 = p * (q + 1) + 0
    BY <1>2, <1>4
  <2>2. (p * (q + 1) + 0) % p = 0
    OBVIOUS
  <2> QED BY <1>1, <2>1, <2>2
<1> QED BY <1>2, <1>3, <1>4

(* The recent times are the last ones.                                       *)
LEMMA RecentAreLast ==
  ASSUME NEW times \in Seq(Nat), Ordered(times), publicTime \in Nat
  PROVE  LET c == Limited!Cardinality(Limited!RecentOnes(times))
         IN /\ c \in 0 .. Len(times)
            /\ \A n \in 1 .. Len(times) : Limited!Recent(times[n]) <=> n > Len(times) - c
<1> DEFINE R == Limited!RecentOnes(times)
           c == Limited!Cardinality(R)
           L == Len(times)
<1>1. L \in Nat /\ DOMAIN times = 1 .. L /\ \A n \in 1 .. L : times[n] \in Nat
  OBVIOUS
<1>2. R = {n \in 1 .. L : Limited!Recent(times[n])}
  BY <1>1 DEF Limited!RecentOnes
<1>3. c = Cardinality(R)
  BY Counting
<1>4. \A m, n \in 1 .. L : m < n /\ Limited!Recent(times[m]) => Limited!Recent(times[n])
  <2> SUFFICES ASSUME NEW m \in 1 .. L, NEW n \in 1 .. L, m < n, Limited!Recent(times[m])
               PROVE  Limited!Recent(times[n])
    OBVIOUS
  <2>1. PublicWindow \in Nat
    BY ResourcesAssumption
  <2>2. times[m] <= times[n]
    BY <1>1 DEF Ordered
  <2>3. times[m] \in Nat /\ times[n] \in Nat
    BY <1>1
  <2> QED BY <2>1, <2>2, <2>3 DEF Limited!Recent
<1> HIDE DEF R, c, L
<1>5. CASE R = {}
  <2>1. c = 0
    BY <1>3, <1>5, FS_EmptySet
  <2>2. \A n \in 1 .. L : ~Limited!Recent(times[n]) /\ ~(n > L)
    BY <1>1, <1>2, <1>5
  <2> QED BY <1>1, <2>1, <2>2 DEF R, c, L
<1>6. CASE R # {}
  <2>1. PICK m \in R : \A n \in R : ~(<<n, m>> \in OpToRel(<, Nat))
    <3>1. R \subseteq Nat
      BY <1>1, <1>2
    <3> QED BY <1>6, <3>1, NatLessThanWellFounded, WFMin
  <2>2. m \in 1 .. L /\ Limited!Recent(times[m])
    BY <1>2
  <2>3. \A n \in 1 .. L : Limited!Recent(times[n]) => m <= n
    <3> SUFFICES ASSUME NEW n \in 1 .. L, Limited!Recent(times[n]) PROVE m <= n
      OBVIOUS
    <3>1. n \in R /\ n \in Nat /\ m \in Nat
      BY <1>1, <1>2, <2>2
    <3>2. ~(n < m)
      BY <2>1, <3>1 DEF OpToRel
    <3> QED BY <3>1, <3>2
  <2>4. \A n \in 1 .. L : Limited!Recent(times[n]) <=> m <= n
    BY <1>1, <1>4, <2>2, <2>3
  <2>5. R = m .. L
    BY <1>1, <1>2, <2>2, <2>4
  <2>6. Cardinality(m .. L) = L - m + 1
    <3>1. m \in Int /\ L \in Int /\ ~(m > L)
      BY <1>1, <2>2
    <3>2. Cardinality(m .. L) = IF m > L THEN 0 ELSE L - m + 1
      BY <3>1, FS_Interval
    <3> QED BY <3>1, <3>2
  <2>7. c = L - m + 1
    BY <1>3, <2>5, <2>6
  <2>8. c \in 0 .. L /\ \A n \in 1 .. L : n > L - c <=> m <= n
    BY <1>1, <2>2, <2>7
  <2> QED BY <2>4, <2>8 DEF R, c, L
<1> QED BY <1>5, <1>6

(* What is kept of the times of an address.                                  *)
LEMMA CleanedIsEnd ==
  ASSUME NEW times \in Seq(Nat), Ordered(times), publicTime \in Nat
  PROVE  \E k \in 0 .. Len(times) :
           /\ Limited!Cleaned(times) \in Seq(Nat) /\ Len(Limited!Cleaned(times)) = Len(times) - k
           /\ \A n \in 1 .. Len(times) - k : Limited!Cleaned(times)[n] = times[k + n]
           /\ \A n \in 1 .. k : ~Limited!Recent(times[n])
<1> DEFINE c == Limited!Cardinality(Limited!RecentOnes(times))
           L == Len(times)
           k == L - c
<1>1. c \in 0 .. L /\ \A n \in 1 .. L : Limited!Recent(times[n]) <=> n > L - c
  BY RecentAreLast
<1>2. L = Len(times) /\ L \in Nat /\ k \in 0 .. L
  BY <1>1
<1>3. Limited!Cleaned(times) = SubSeq(times, k + 1, L)
  BY DEF Limited!Cleaned
<1>4. \A n \in 1 .. k : ~Limited!Recent(times[n])
  BY <1>1, <1>2, SMTT(30)
<1> HIDE DEF k, L
<1>5. SubSeq(times, k + 1, L) \in Seq(Nat)
  BY <1>2
<1>6. Len(SubSeq(times, k + 1, L)) = L - k
  BY <1>2
<1>7. \A n \in 1 .. L - k : SubSeq(times, k + 1, L)[n] = times[k + n]
  BY <1>2
<1> QED BY <1>2, <1>3, <1>4, <1>5, <1>6, <1>7

(* The typed state, for the proofs below.                                    *)
LEMMA LimitedTyped ==
  ASSUME LimitedInv
  PROVE  /\ publicTime \in Nat /\ publicTime # 0 /\ PublicWindow \in Nat /\ PublicMax \in Nat
         /\ MaxTracked \in Nat /\ PurgeInterval \in Nat \ {0} /\ dispatches \in Nat
         /\ DOMAIN requests \subseteq Source
         /\ \A s \in Source : /\ admitted[s] \in Seq(Nat) /\ Len(admitted[s]) \in Nat
                              /\ DOMAIN admitted[s] = 1 .. Len(admitted[s])
                              /\ \A n \in 1 .. Len(admitted[s]) : admitted[s][n] \in 1 .. publicTime
         /\ \A s \in DOMAIN requests : /\ requests[s] \in Seq(Nat) /\ Len(requests[s]) \in Nat
                                       /\ DOMAIN requests[s] = 1 .. Len(requests[s])
<1>1. /\ {PublicMax, PublicWindow, MaxTracked, MaxDispatches} \subseteq Nat
      /\ PurgeInterval \in Nat \ {0} /\ MaxPublicTime \in Nat \ {0}
  BY ResourcesAssumption
<1> QED BY <1>1 DEF LimitedInv, Limited!TypeOK

(* Who has no recent time at the end has none.                               *)
LEMMA AllAreOld ==
  ASSUME LimitedInv, NEW s \in DOMAIN requests, s \notin forgiven,
         ~Limited!Recent(Limited!Latest(requests[s]))
  PROVE  \A n \in 1 .. Len(admitted[s]) : ~Limited!Recent(admitted[s][n])
<1>1. PICK d \in 0 .. Len(admitted[s]) : EndOf(s, d)
  BY LimitedTyped DEF LimitedInv
<1>2. s \in Source
  BY LimitedTyped
<1> DEFINE L == Len(requests[s])
           A == Len(admitted[s])
<1>3. /\ L \in Nat /\ A \in Nat /\ d \in Nat /\ L = A - d /\ d <= A
      /\ \A n \in 1 .. L : requests[s][n] = admitted[s][d + n]
      /\ \A n \in 1 .. d : ~Limited!Recent(admitted[s][n])
  BY <1>1, <1>2, LimitedTyped DEF EndOf
<1>4. CASE L = 0
  BY <1>3, <1>4
<1>5. CASE L # 0
  <2>1. requests[s] # <<>>
    BY <1>5
  <2>2. Limited!Latest(requests[s]) = requests[s][L]
    BY <2>1 DEF Limited!Latest
  <2>3. L \in 1 .. L /\ d + L = A
    BY <1>3, <1>5
  <2>4. ~Limited!Recent(admitted[s][A])
    BY <1>3, <2>2, <2>3
  <2> SUFFICES ASSUME NEW n \in 1 .. A PROVE ~Limited!Recent(admitted[s][n])
    OBVIOUS
  <2>5. DOMAIN admitted[s] = 1 .. A /\ Ordered(admitted[s])
        /\ \A m \in 1 .. A : admitted[s][m] \in 1 .. publicTime
    BY <1>2, LimitedTyped DEF LimitedInv
  <2>6. publicTime \in Nat /\ PublicWindow \in Nat
    BY LimitedTyped
  <2> HIDE DEF A, L
  <2>7. A \in 1 .. A /\ (n = A \/ n < A)
    BY <1>3
  <2>8. n < A => admitted[s][n] <= admitted[s][A]
    BY <2>5, <2>7 DEF Ordered
  <2>9. admitted[s][n] \in Nat /\ admitted[s][A] \in Nat
    BY <2>5, <2>6, <2>7
  <2> QED BY <2>4, <2>6, <2>7, <2>8, <2>9 DEF Limited!Recent
<1> QED BY <1>4, <1>5

(* What the purge leaves is within the limit of the table.                   *)
LEMMA PurgedIsSmall ==
  ASSUME LimitedInv, NEW kept \in Limited!Purged
  PROVE  kept \subseteq DOMAIN requests /\ IsFiniteSet(kept) /\ Cardinality(kept) <= MaxTracked
<1> DEFINE live == {s \in DOMAIN requests : requests[s] # <<>> /\ Limited!Recent(Limited!Latest(requests[s]))}
           excess == Limited!Cardinality(live) - MaxTracked
<1>1. /\ Limited!Cardinality(live) = Cardinality(live)
      /\ \/ Limited!Cardinality(live) <= MaxTracked /\ kept = live
         \/ /\ ~(Limited!Cardinality(live) <= MaxTracked)
            /\ \E V \in SUBSET live : Limited!Cardinality(V) = excess /\ kept = live \ V
  BY Counting DEF Limited!Purged
<1>2. live \subseteq DOMAIN requests
  OBVIOUS
<1> HIDE DEF live
<1>3. IsFiniteSet(live) /\ Cardinality(live) \in Nat /\ MaxTracked \in Nat
  BY <1>2, LimitedTyped, FS_Subset, FS_CardinalityType DEF LimitedInv
<1>4. CASE kept = live /\ Cardinality(live) <= MaxTracked
  BY <1>2, <1>3, <1>4
<1>5. ASSUME NEW V \in SUBSET live, Limited!Cardinality(V) = excess, kept = live \ V
      PROVE  IsFiniteSet(kept) /\ Cardinality(kept) = MaxTracked
  <2>1. live \cap V = V /\ Cardinality(V) = Cardinality(live) - MaxTracked
    BY <1>1, <1>5, Counting
  <2>2. IsFiniteSet(live \ V) /\ Cardinality(live \ V) = Cardinality(live) - Cardinality(live \cap V)
    BY <1>3, FS_Difference
  <2> QED BY <1>3, <1>5, <2>1, <2>2
<1>6. CASE ~(Cardinality(live) <= MaxTracked)
  <2>1. PICK V \in SUBSET live : Limited!Cardinality(V) = excess /\ kept = live \ V
    BY <1>1, <1>6
  <2> QED BY <1>2, <1>3, <1>5, <2>1
<1> QED BY <1>1, <1>4, <1>6

(* A request to a public path.                                               *)
LEMMA DispatchKeeps == ASSUME LimitedInv, NEW s \in Source, Limited!Dispatch(s) PROVE LimitedInv'
<1> DEFINE known(kept) == IF s \in kept THEN requests[s] ELSE <<>>
           stamps(kept) == Limited!Cleaned(known(kept))
<1>1. PICK kept \in (IF (dispatches + 1) % PurgeInterval = 0 THEN Limited!Purged ELSE {DOMAIN requests}) :
        /\ requests' = [r \in kept \cup {s} |-> IF r = s THEN Limited!Noted(stamps(kept)) ELSE requests[r]]
        /\ admitted' = [admitted EXCEPT ![s] = IF Len(stamps(kept)) >= PublicMax THEN admitted[s]
                                               ELSE Append(admitted[s], publicTime)]
        /\ forgiven' = forgiven \cup {r \in DOMAIN requests \ kept : Limited!Recent(Limited!Latest(requests[r]))}
  BY DEF Limited!Dispatch
<1>2. dispatches < MaxDispatches /\ dispatches' = dispatches + 1 /\ publicTime' = publicTime
  BY DEF Limited!Dispatch
<1>3. kept \subseteq DOMAIN requests /\ IsFiniteSet(kept)
  BY <1>1, PurgedIsSmall DEF LimitedInv
<1> DEFINE old == known(kept)
           new == stamps(kept)
           A == Len(admitted[s])
<1>4. /\ publicTime \in Nat /\ publicTime # 0 /\ PublicMax \in Nat /\ A \in Nat /\ dispatches \in Nat
      /\ admitted[s] \in Seq(Nat) /\ Ordered(admitted[s]) /\ DOMAIN requests \subseteq Source
      /\ \A n \in 1 .. A : admitted[s][n] \in 1 .. publicTime
  BY LimitedTyped DEF LimitedInv
(* What is noted of s is the end of what was admitted, from e on.            *)
<1>5. \E e \in 0 .. A :
        /\ new \in Seq(Nat) /\ Len(new) = A - e /\ Len(new) <= PublicMax
        /\ \A n \in 1 .. A - e : new[n] = admitted[s][e + n]
        /\ s \notin forgiven' => \A n \in 1 .. e : ~Limited!Recent(admitted[s][n])
  <2>1. CASE s \in kept
    <3>1. PICK d \in 0 .. A : EndOf(s, d)
      BY DEF LimitedInv
    <3>2. /\ old = requests[s] /\ old \in Seq(Nat) /\ Len(old) = A - d
          /\ \A n \in 1 .. Len(old) : old[n] = admitted[s][d + n]
          /\ s \notin forgiven => \A n \in 1 .. d : ~Limited!Recent(admitted[s][n])
      BY <1>3, <2>1, <3>1 DEF EndOf, LimitedInv
    <3> HIDE DEF old
    <3>3. Ordered(old)
      <4>1. DOMAIN old = 1 .. Len(old) /\ Len(old) \in Nat /\ DOMAIN admitted[s] = 1 .. A
        BY <1>4, <3>2
      <4> HIDE DEF A
      <4> SUFFICES ASSUME NEW m \in 1 .. Len(old), NEW n \in 1 .. Len(old), m < n PROVE old[m] <= old[n]
        BY <4>1 DEF Ordered
      <4>2. d + m \in 1 .. A /\ d + n \in 1 .. A /\ d + m < d + n
        BY <1>4, <3>2, <4>1
      <4> QED BY <1>4, <3>2, <4>1, <4>2 DEF Ordered
    <3>4. PICK k \in 0 .. Len(old) :
            /\ new \in Seq(Nat) /\ Len(new) = Len(old) - k
            /\ \A n \in 1 .. Len(old) - k : new[n] = old[k + n]
            /\ \A n \in 1 .. k : ~Limited!Recent(old[n])
      <4>1. new = Limited!Cleaned(old)
        BY DEF old
      <4> HIDE DEF new
      <4> QED BY <1>4, <3>2, <3>3, <4>1, CleanedIsEnd
    <3> HIDE DEF new, A
    <3>5. d + k \in 0 .. A /\ Len(new) = A - (d + k) /\ Len(new) <= PublicMax
      <4>1. Len(old) <= PublicMax /\ Len(old) \in Nat
        BY <1>3, <2>1, <3>2 DEF LimitedInv, Limited!TypeOK
      <4> QED BY <1>4, <3>2, <3>4, <4>1
    <3>6. ASSUME NEW n \in 1 .. A - (d + k) PROVE new[n] = admitted[s][d + k + n]
      <4>1. n \in 1 .. Len(old) - k /\ k + n \in 1 .. Len(old) /\ d + (k + n) = d + k + n
        BY <1>4, <3>2, <3>4
      <4> QED BY <3>2, <3>4, <4>1
    <3>7. ASSUME s \notin forgiven', NEW n \in 1 .. d + k PROVE ~Limited!Recent(admitted[s][n])
      <4>1. s \notin forgiven
        BY <1>1, <3>7
      <4>2. CASE n \in 1 .. d
        BY <3>2, <4>1, <4>2
      <4>3. CASE n \notin 1 .. d
        <5>1. n - d \in 1 .. k /\ n - d \in 1 .. Len(old) /\ d + (n - d) = n
          BY <1>4, <3>2, <3>4, <4>3
        <5>2. old[n - d] = admitted[s][n]
          <6>1. old[n - d] = admitted[s][d + (n - d)]
            BY <3>2, <5>1
          <6> QED BY <5>1, <6>1
        <5> QED BY <3>4, <5>1, <5>2
      <4> QED BY <4>2, <4>3
    <3> QED BY <3>4, <3>5, <3>6, <3>7
  <2>2. CASE s \notin kept
    <3>1. old = <<>>
      BY <2>2
    <3>2. new \in Seq(Nat) /\ Len(new) = 0
      <4>1. Ordered(<<>>)
        BY DEF Ordered
      <4>2. PICK k \in 0 .. Len(<<>>) :
              Limited!Cleaned(<<>>) \in Seq(Nat) /\ Len(Limited!Cleaned(<<>>)) = Len(<<>>) - k
        <5>1. <<>> \in Seq(Nat)
          OBVIOUS
        <5> QED BY <1>4, <4>1, <5>1, CleanedIsEnd
      <4>3. Len(Limited!Cleaned(<<>>)) = 0
        BY <4>2
      <4>4. new = Limited!Cleaned(<<>>)
        BY <3>1
      <4> QED BY <4>2, <4>3, <4>4
    <3>3. ASSUME s \notin forgiven' PROVE \A n \in 1 .. A : ~Limited!Recent(admitted[s][n])
      <4>1. s \notin forgiven /\ (s \in DOMAIN requests => ~Limited!Recent(Limited!Latest(requests[s])))
        BY <1>1, <2>2, <3>3
      <4>2. CASE s \in DOMAIN requests
        BY <4>1, <4>2, AllAreOld
      <4>3. CASE s \notin DOMAIN requests
        <5>1. PICK d \in 0 .. A : EndOf(s, d)
          BY DEF LimitedInv
        <5> QED BY <4>1, <4>3, <5>1 DEF EndOf
      <4> QED BY <4>2, <4>3
    <3> HIDE DEF new, A
    <3>4. A \in 0 .. A /\ Len(new) = A - A /\ Len(new) <= PublicMax /\ 1 .. A - A = {}
      BY <1>4, <3>2
    <3> QED BY <3>2, <3>3, <3>4
  <2> QED BY <2>1, <2>2
<1>6. PICK e \in 0 .. A :
        /\ new \in Seq(Nat) /\ Len(new) = A - e /\ Len(new) <= PublicMax
        /\ \A n \in 1 .. A - e : new[n] = admitted[s][e + n]
        /\ s \notin forgiven' => \A n \in 1 .. e : ~Limited!Recent(admitted[s][n])
  BY <1>5
<1>7. /\ DOMAIN requests' = kept \cup {s} /\ requests'[s] = Limited!Noted(new)
      /\ \A r \in kept \ {s} : requests'[r] = requests[r]
      /\ DOMAIN admitted' = Source /\ \A r \in Source \ {s} : admitted'[r] = admitted[r]
      /\ admitted'[s] = IF Len(new) >= PublicMax THEN admitted[s] ELSE Append(admitted[s], publicTime)
  <2>1. DOMAIN admitted = Source
    BY DEF LimitedInv
  <2> HIDE DEF new, known
  <2> QED BY <1>1, <2>1 DEF new
<1>a. admitted' = [r \in Source |-> admitted'[r]]
  <2>1. admitted = [r \in Source |-> admitted[r]]
    BY DEF LimitedInv
  <2> HIDE DEF stamps
  <2> QED BY <1>1, <2>1
<1> HIDE DEF new, old, known, stamps
<1>8. /\ admitted'[s] \in Seq(Nat) /\ Ordered(admitted'[s]) /\ EndOf(s, e)' /\ e \in 0 .. Len(admitted'[s])
      /\ \A n \in 1 .. Len(admitted'[s]) : admitted'[s][n] \in 1 .. publicTime
      /\ requests'[s] \in Seq(Nat) /\ Len(requests'[s]) <= PublicMax
  <2>2. CASE Len(new) >= PublicMax
    <3>1. admitted'[s] = admitted[s] /\ requests'[s] = new
      BY <1>7, <2>2 DEF Limited!Noted
    <3>2. EndOf(s, e)'
      BY <1>2, <1>4, <1>6, <1>7, <3>1 DEF EndOf, Limited!Recent
    <3> QED BY <1>4, <1>6, <3>1, <3>2
  <2>3. CASE ~(Len(new) >= PublicMax)
    <3>1. admitted'[s] = Append(admitted[s], publicTime) /\ requests'[s] = Append(new, publicTime)
      BY <1>7, <2>3 DEF Limited!Noted
    <3>2. /\ admitted'[s] \in Seq(Nat) /\ Len(admitted'[s]) = A + 1
          /\ \A n \in 1 .. A : admitted'[s][n] = admitted[s][n]
          /\ admitted'[s][A + 1] = publicTime
      BY <1>4, <3>1
    <3> DEFINE L == Len(new)
    <3>3. /\ requests'[s] \in Seq(Nat) /\ Len(requests'[s]) = L + 1
          /\ \A n \in 1 .. L : requests'[s][n] = new[n]
          /\ requests'[s][L + 1] = publicTime
      <4>1. new \in Seq(Nat) /\ publicTime \in Nat
        BY <1>4, <1>6
      <4> QED BY <3>1, <4>1
    <3>4. L \in Nat /\ L = A - e /\ e \in 0 .. A /\ A \in Nat /\ L + 1 <= PublicMax
      BY <1>4, <1>6, <2>3
    <3>5. \A n \in 1 .. L : new[n] = admitted[s][e + n]
      BY <1>6
    <3> HIDE DEF L, A
    <3>6. \A n \in 1 .. A + 1 : admitted'[s][n] \in 1 .. publicTime
      <4>1. \A n \in 1 .. A : admitted[s][n] \in 1 .. publicTime
        BY <1>4 DEF A
      <4>2. \A n \in 1 .. A + 1 : n \in 1 .. A \/ n = A + 1
        BY <3>4
      <4>3. publicTime \in 1 .. publicTime
        BY <1>4
      <4>4. \A n \in 1 .. A : admitted'[s][n] \in 1 .. publicTime
        BY <3>2, <4>1
      <4>5. admitted'[s][A + 1] \in 1 .. publicTime
        BY <3>2, <4>3
      <4> QED BY <4>2, <4>4, <4>5
    <3>7. Ordered(admitted'[s])
      <4>1. DOMAIN admitted'[s] = 1 .. A + 1 /\ DOMAIN admitted[s] = 1 .. A
        BY <1>4, <3>2 DEF A
      <4> SUFFICES ASSUME NEW m \in 1 .. A + 1, NEW n \in 1 .. A + 1, m < n
                   PROVE  admitted'[s][m] <= admitted'[s][n]
        BY <4>1 DEF Ordered
      <4>2. m \in 1 .. A /\ admitted'[s][m] \in 1 .. publicTime
        BY <1>4, <3>6
      <4>3. CASE n = A + 1
        BY <1>4, <3>2, <4>2, <4>3
      <4>4. CASE n \in 1 .. A
        BY <1>4, <3>2, <4>1, <4>2, <4>4 DEF Ordered
      <4> QED BY <3>4, <4>3, <4>4
    <3>8. \A n \in 1 .. L + 1 : requests'[s][n] = admitted'[s][e + n]
      <4> SUFFICES ASSUME NEW n \in 1 .. L + 1 PROVE requests'[s][n] = admitted'[s][e + n]
        OBVIOUS
      <4>1. CASE n = L + 1
        <5>1. e + n = A + 1
          BY <3>4, <4>1
        <5> QED BY <3>2, <3>3, <4>1, <5>1
      <4>2. CASE n \in 1 .. L
        <5>1. e + n \in 1 .. A
          BY <3>4, <4>2
        <5> QED BY <3>2, <3>3, <3>5, <4>2, <5>1
      <4> QED BY <3>4, <4>1, <4>2
    <3>9. s \notin forgiven' => \A n \in 1 .. e : ~Limited!Recent(admitted[s][n])
      BY <1>6
    <3>10. \A n \in 1 .. e : n \in 1 .. A
      BY <3>4
    <3>11. EndOf(s, e)'
      <4>1. Len(requests'[s]) = Len(admitted'[s]) - e
        BY <3>2, <3>3, <3>4
      <4>2. \A n \in 1 .. Len(requests'[s]) : requests'[s][n] = admitted'[s][e + n]
        BY <3>3, <3>8
      <4>3. s \in DOMAIN requests'
        BY <1>7
      <4>4. s \notin forgiven' => \A n \in 1 .. e : ~Limited!Recent(admitted[s][n])'
        BY <1>2, <3>2, <3>9, <3>10 DEF Limited!Recent
      <4> QED BY <4>1, <4>2, <4>3, <4>4 DEF EndOf
    <3> QED BY <3>2, <3>3, <3>4, <3>6, <3>7, <3>11
  <2> QED BY <2>2, <2>3
(* The others keep what is noted of them, or are forgotten.                  *)
<1>9. ASSUME NEW r \in Source \ {s} PROVE \E d \in 0 .. Len(admitted'[r]) : EndOf(r, d)'
  <2>1. admitted'[r] = admitted[r] /\ (r \in DOMAIN requests' <=> r \in kept)
    BY <1>7
  <2>2. PICK d \in 0 .. Len(admitted[r]) : EndOf(r, d)
    BY DEF LimitedInv
  <2>3. r \notin forgiven' => r \notin forgiven
    BY <1>1
  <2>4. CASE r \in kept
    <3>1. requests'[r] = requests[r] /\ r \in DOMAIN requests
      BY <1>3, <1>7, <2>4
    <3>2. EndOf(r, d)'
      BY <1>2, <2>1, <2>2, <2>3, <2>4, <3>1 DEF EndOf, Limited!Recent
    <3> QED BY <2>1, <2>2, <3>2
  <2>5. CASE r \notin kept /\ r \in DOMAIN requests
    <3>1. r \notin forgiven' => ~Limited!Recent(Limited!Latest(requests[r]))
      BY <1>1, <2>5
    <3>2. r \notin forgiven' => \A n \in 1 .. Len(admitted[r]) : ~Limited!Recent(admitted[r][n])
      BY <2>3, <2>5, <3>1, AllAreOld
    <3>3. EndOf(r, Len(admitted[r]))'
      BY <1>2, <2>1, <2>5, <3>2 DEF EndOf, Limited!Recent
    <3>4. Len(admitted[r]) \in 0 .. Len(admitted[r])
      BY LimitedTyped
    <3> QED BY <2>1, <3>3, <3>4
  <2>6. CASE r \notin kept /\ r \notin DOMAIN requests
    <3>1. EndOf(r, d)'
      BY <1>2, <2>1, <2>2, <2>3, <2>6 DEF EndOf, Limited!Recent
    <3> QED BY <2>1, <2>2, <3>1
  <2> QED BY <2>4, <2>5, <2>6
<1>10. /\ IsFiniteSet(DOMAIN requests')
       /\ Cardinality(DOMAIN requests') <= MaxTracked + 1 + (dispatches' % PurgeInterval)
  <2>1. /\ IsFiniteSet(kept \cup {s}) /\ Cardinality(kept \cup {s}) \in Nat
        /\ Cardinality(kept \cup {s}) <= Cardinality(kept) + 1 /\ Cardinality(kept) \in Nat
    <3>1. IsFiniteSet(kept \cup {s}) /\ (Cardinality(kept \cup {s}) = Cardinality(kept)
                                          \/ Cardinality(kept \cup {s}) = Cardinality(kept) + 1)
      BY <1>3, FS_AddElement
    <3>2. Cardinality(kept) \in Nat
      BY <1>3, FS_CardinalityType
    <3> DEFINE c == Cardinality(kept)
    <3> HIDE DEF c
    <3> QED BY <3>1, <3>2 DEF c
  <2>2. /\ MaxTracked \in Nat /\ dispatches % PurgeInterval \in Nat
        /\ (dispatches + 1) % PurgeInterval \in Nat
        /\ (dispatches + 1) % PurgeInterval # 0 =>
             (dispatches + 1) % PurgeInterval = (dispatches % PurgeInterval) + 1
    <3>1. PurgeInterval \in Nat \ {0} /\ MaxTracked \in Nat /\ dispatches \in Nat
      BY LimitedTyped
    <3>2. \A x \in 0 .. PurgeInterval - 1 : x \in Nat
      BY <3>1
    <3> QED BY <3>1, <3>2, NextModulo
  <2> DEFINE next == (dispatches + 1) % PurgeInterval
             this == dispatches % PurgeInterval
  <2>3. next = 0 => Cardinality(kept) <= MaxTracked
    BY <1>1, PurgedIsSmall
  <2>4. next # 0 => Cardinality(kept) <= MaxTracked + 1 + this
    BY <1>1 DEF LimitedInv
  <2>5. next \in Nat /\ this \in Nat /\ (next # 0 => next = this + 1)
    BY <2>2
  <2>6. dispatches' % PurgeInterval = next
    BY <1>2
  <2> HIDE DEF next, this
  <2>7. Cardinality(kept \cup {s}) <= MaxTracked + 1 + next
    BY <2>1, <2>2, <2>3, <2>4, <2>5
  <2> QED BY <1>7, <2>1, <2>6, <2>7
<1>11. /\ admitted' \in [Source -> Seq(Nat)]
       /\ \A r \in Source : Ordered(admitted'[r])
  <2>1. \A r \in Source : admitted'[r] \in Seq(Nat) /\ Ordered(admitted'[r])
    BY <1>7, <1>8 DEF LimitedInv
  <2> QED BY <1>a, <2>1
<1>12. Limited!TypeOK'
  <2>1. DOMAIN requests' \subseteq Source
    BY <1>3, <1>4, <1>7
  <2>2. \A r \in DOMAIN requests' : Len(requests'[r]) <= PublicMax
    BY <1>3, <1>7, <1>8 DEF LimitedInv, Limited!TypeOK
  <2>3. publicTime' \in 1 .. MaxPublicTime /\ dispatches' \in 0 .. MaxDispatches
    <3>1. MaxDispatches \in Nat
      BY ResourcesAssumption
    <3> QED BY <1>2, <1>4, <3>1 DEF LimitedInv, Limited!TypeOK
  <2>4. \A r \in Source : \A n \in DOMAIN admitted'[r] : admitted'[r][n] \in 1 .. publicTime'
    <3> SUFFICES ASSUME NEW r \in Source PROVE \A n \in DOMAIN admitted'[r] : admitted'[r][n] \in 1 .. publicTime'
      OBVIOUS
    <3>1. CASE r = s
      <4>1. DOMAIN admitted'[s] = 1 .. Len(admitted'[s])
        BY <1>8
      <4> QED BY <1>2, <1>8, <3>1, <4>1
    <3>2. CASE r # s
      <4>1. admitted'[r] = admitted[r]
        BY <1>7, <3>2
      <4> QED BY <1>2, <4>1 DEF LimitedInv, Limited!TypeOK
    <3> QED BY <3>1, <3>2
  <2>5. forgiven' \subseteq Source
    BY <1>1, <1>4 DEF LimitedInv, Limited!TypeOK
  <2> QED BY <2>1, <2>2, <2>3, <2>4, <2>5 DEF Limited!TypeOK
<1>13. \A r \in DOMAIN requests' : requests'[r] \in Seq(Nat)
  BY <1>3, <1>7, <1>8 DEF LimitedInv
<1>14. \A r \in Source : \E d \in 0 .. Len(admitted'[r]) : EndOf(r, d)'
  BY <1>8, <1>9
<1> QED BY <1>10, <1>11, <1>12, <1>13, <1>14 DEF LimitedInv

(* As time passes, fewer times are recent.                                   *)
LEMMA LimitedStep == ASSUME LimitedInv, Limited!Next \/ UNCHANGED OfLimited PROVE LimitedInv'
<1>1. ASSUME UNCHANGED <<requests, dispatches, admitted, forgiven>>,
             publicTime' \in publicTime .. MaxPublicTime
      PROVE  LimitedInv'
  <2>1. /\ publicTime \in Nat /\ publicTime' \in Nat /\ publicTime <= publicTime' /\ PublicWindow \in Nat
        /\ MaxPublicTime \in Nat /\ publicTime # 0
    <3>1. publicTime \in Nat /\ PublicWindow \in Nat /\ publicTime # 0
      BY LimitedTyped
    <3>2. MaxPublicTime \in Nat
      BY ResourcesAssumption
    <3> QED BY <1>1, <3>1, <3>2
  <2>2. \A s \in Source : \A n \in DOMAIN admitted[s] : admitted[s][n] \in 1 .. publicTime'
    BY <2>1 DEF LimitedInv, Limited!TypeOK
  <2>3. Limited!TypeOK'
    BY <1>1, <2>1, <2>2 DEF LimitedInv, Limited!TypeOK
  <2>4. ASSUME NEW s \in Source, NEW d \in 0 .. Len(admitted[s]), EndOf(s, d) PROVE EndOf(s, d)'
    <3>1. ASSUME NEW n \in 1 .. d, ~Limited!Recent(admitted[s][n]) PROVE ~Limited!Recent(admitted[s][n])'
      <4>1. admitted[s][n] \in Nat
        <5>1. Len(admitted[s]) \in Nat /\ \A m \in 1 .. Len(admitted[s]) : admitted[s][m] \in 1 .. publicTime
          BY LimitedTyped
        <5>2. n \in 1 .. Len(admitted[s])
          BY <5>1
        <5> QED BY <2>1, <5>1, <5>2
      <4> QED BY <1>1, <2>1, <3>1, <4>1 DEF Limited!Recent
    <3> QED BY <1>1, <2>4, <3>1 DEF EndOf
  <2>5. \A s \in Source : \E d \in 0 .. Len(admitted[s]) : EndOf(s, d)'
    BY <2>4 DEF LimitedInv
  <2> QED BY <1>1, <2>3, <2>5 DEF LimitedInv
<1>2. CASE Limited!PublicTick
  <2>1. publicTime \in Nat /\ MaxPublicTime \in Nat
    BY LimitedTyped, ResourcesAssumption
  <2> QED BY <1>1, <1>2, <2>1 DEF Limited!PublicTick
<1>3. CASE UNCHANGED OfLimited
  BY <1>1, <1>3, LimitedTyped DEF OfLimited, LimitedInv, Limited!TypeOK
<1> QED BY <1>2, <1>3, DispatchKeeps DEF Limited!Next

(* What is recent of an address is noted, and no more of it is noted than    *)
(* was admitted.                                                             *)
LEMMA LimitedBound == LimitedInv => Limited!PublicBounded
<1> SUFFICES ASSUME LimitedInv PROVE Limited!PublicBounded
  OBVIOUS
<1>1. ASSUME NEW s \in Source
      PROVE  /\ s \notin forgiven => Limited!Cardinality(Limited!RecentOnes(admitted[s])) <= PublicMax
             /\ s \in DOMAIN requests => Limited!Cardinality(Limited!RecentOnes(requests[s]))
                                           <= Limited!Cardinality(Limited!RecentOnes(admitted[s]))
  <2>1. PICK d \in 0 .. Len(admitted[s]) : EndOf(s, d)
    BY DEF LimitedInv
  <2> DEFINE A == Len(admitted[s])
             RA == Limited!RecentOnes(admitted[s])
             RR == Limited!RecentOnes(requests[s])
  <2>2. A \in Nat /\ PublicMax \in Nat /\ publicTime \in Nat
    BY LimitedTyped
  <2>3. RA = {n \in 1 .. A : Limited!Recent(admitted[s][n])}
    BY LimitedTyped DEF Limited!RecentOnes
  <2> HIDE DEF A
  <2>4. RA \subseteq 1 .. A /\ IsFiniteSet(RA) /\ Cardinality(RA) \in Nat
    <3>1. RA \subseteq 1 .. A /\ IsFiniteSet(1 .. A)
      BY <2>2, <2>3, FS_Interval
    <3> HIDE DEF RA
    <3> QED BY <3>1, FS_Subset, FS_CardinalityType
  <2>5. s \notin forgiven => Cardinality(RA) <= PublicMax
    <3> SUFFICES ASSUME s \notin forgiven PROVE Cardinality(RA) <= PublicMax
      OBVIOUS
    <3>1. RA \subseteq d + 1 .. A
      BY <2>1, <2>2, <2>3 DEF EndOf, A
    <3>2. IsFiniteSet(d + 1 .. A) /\ Cardinality(d + 1 .. A) = A - d
      <4>1. d + 1 \in Int /\ A \in Int /\ d <= A /\ d \in Nat
        BY <2>1, <2>2 DEF A
      <4>2. IsFiniteSet(d + 1 .. A) /\ Cardinality(d + 1 .. A) = IF d + 1 > A THEN 0 ELSE A - (d + 1) + 1
        BY <4>1, FS_Interval
      <4> QED BY <4>1, <4>2
    <3>3. Cardinality(RA) <= A - d
      <4> HIDE DEF RA
      <4>1. Cardinality(RA) <= Cardinality(d + 1 .. A)
        BY <3>1, <3>2, FS_Subset, ZenonT(30)
      <4> QED BY <3>2, <4>1, ZenonT(30)
    <3>4. A - d <= PublicMax
      <4>1. CASE s \in DOMAIN requests
        <5>1. Len(requests[s]) = A - d
          BY <2>1, <4>1 DEF EndOf, A
        <5> QED BY <4>1, <5>1 DEF LimitedInv, Limited!TypeOK
      <4>2. CASE s \notin DOMAIN requests
        <5>1. d = A
          BY <2>1, <4>2 DEF EndOf, A
        <5> QED BY <2>2, <5>1
      <4> QED BY <4>1, <4>2
    <3>5. A - d \in Int
      BY <2>1, <2>2
    <3> QED BY <2>2, <2>4, <3>3, <3>4, <3>5
  <2>6. s \in DOMAIN requests => Cardinality(RR) <= Cardinality(RA)
    <3> SUFFICES ASSUME s \in DOMAIN requests PROVE Cardinality(RR) <= Cardinality(RA)
      OBVIOUS
    <3> DEFINE L == Len(requests[s])
    <3>1. RR = {n \in 1 .. L : Limited!Recent(requests[s][n])}
      BY LimitedTyped DEF Limited!RecentOnes
    <3>2. L \in Nat /\ d \in Nat /\ L = A - d /\ \A n \in 1 .. L : requests[s][n] = admitted[s][d + n]
      BY <2>1, <2>2, LimitedTyped DEF EndOf, A
    <3> DEFINE f == [n \in RR |-> d + n]
    <3> HIDE DEF L
    <3>3. \A n \in RR : d + n \in RA
      BY <2>2, <2>3, <3>1, <3>2
    <3>4. \A m, n \in RR : d + m = d + n => m = n
      BY <3>1, <3>2
    <3> HIDE DEF RA, RR
    <3>5. f \in Injection(RR, RA)
      BY <3>3, <3>4 DEF Injection, IsInjective
    <3> HIDE DEF f
    <3> QED BY <2>4, <3>5, FS_Injection
  <2> QED BY <2>5, <2>6, Counting
<1>2. Cardinality(DOMAIN requests) <= MaxTracked + PurgeInterval
  <2>1. /\ MaxTracked \in Nat /\ PurgeInterval \in Nat \ {0} /\ dispatches \in Nat
        /\ IsFiniteSet(DOMAIN requests)
        /\ Cardinality(DOMAIN requests) <= MaxTracked + 1 + (dispatches % PurgeInterval)
    BY LimitedTyped DEF LimitedInv
  <2>2. Cardinality(DOMAIN requests) \in Nat
    BY <2>1, FS_CardinalityType
  <2> DEFINE m == dispatches % PurgeInterval
             c == Cardinality(DOMAIN requests)
  <2>3. m \in 0 .. PurgeInterval - 1
    BY <2>1, NextModulo
  <2> HIDE DEF m
  <2>4. c <= MaxTracked + 1 + m
    BY <2>1 DEF m
  <2> HIDE DEF c
  <2>5. c <= MaxTracked + PurgeInterval
    <3>1. c \in Nat
      BY <2>2 DEF c
    <3> QED BY <2>1, <2>3, <2>4, <3>1
  <2> QED BY <2>5 DEF c
<1>3. DOMAIN requests \subseteq Source
  BY LimitedTyped
<1> QED BY <1>1, <1>2, <1>3, Counting DEF Limited!PublicBounded

-------------------------------------------------------------------------------
(* With the invariant of the part, its type.                                 *)
LEMMA WaitsTyped == WaitsInv /\ WaitsTypes => Waits!TypeOK
<1> SUFFICES ASSUME WaitsInv, WaitsTypes PROVE Waits!TypeOK
  OBVIOUS
<1>1. inbox \in [Wait -> UNION {[1 .. n -> Events] : n \in 0 .. MaxEvents}]
  <2> SUFFICES ASSUME NEW w \in Wait PROVE inbox[w] \in UNION {[1 .. n -> Events] : n \in 0 .. MaxEvents}
    BY DEF WaitsTypes
  <2>1. inbox[w] \in Seq(Events) /\ sent[w] \in 0 .. MaxEvents /\ Len(inbox[w]) <= sent[w]
    BY DEF WaitsTypes
  <2>2. MaxEvents \in Nat
    BY ResourcesAssumption
  <2> HIDE DEF Events
  <2>3. Len(inbox[w]) \in 0 .. MaxEvents /\ inbox[w] \in [1 .. Len(inbox[w]) -> Events]
    BY <2>1, <2>2
  <2> QED BY <2>3
<1>2. cut \subseteq Wait
  BY DEF WaitsInv
<1> QED BY <1>1, <1>2 DEF WaitsInv, WaitsTypes, Waits!TypeOK, Waits!Replies, Waits!Running, Events

(* An event is put into the queue or taken from it, or the queue is emptied. *)
LEMMA WaitsTypesStep == ASSUME WaitsTypes, Waits!Next \/ UNCHANGED OfWaits PROVE WaitsTypes'
<1>0. MaxEvents \in Nat
  BY ResourcesAssumption
<1>1. ASSUME NEW w \in Wait, inbox' = [inbox EXCEPT ![w] = <<>>] \/ inbox' = inbox,
             UNCHANGED sent, active' \subseteq Wait, cancelled' \subseteq Wait
      PROVE  WaitsTypes'
  <2>1. <<>> \in Seq(Events) /\ Len(<<>>) = 0
    OBVIOUS
  <2> HIDE DEF Events
  <2>2. inbox' \in [Wait -> Seq(Events)]
    BY <1>1, <2>1 DEF WaitsTypes
  <2>3. \A v \in Wait : inbox'[v] = inbox[v] \/ inbox'[v] = <<>>
    BY <1>1 DEF WaitsTypes
  <2>4. \A v \in Wait : Len(inbox'[v]) <= sent[v]
    BY <1>0, <2>1, <2>3 DEF WaitsTypes
  <2> QED BY <1>1, <2>2, <2>4 DEF WaitsTypes
<1>2. ASSUME NEW w \in Wait, Waits!TakesEvent(w) PROVE WaitsTypes'
  <2>1. /\ inbox[w] # <<>> /\ inbox' = [inbox EXCEPT ![w] = Tail(inbox[w])]
        /\ UNCHANGED <<active, cancelled, sent>>
    BY <1>2 DEF Waits!TakesEvent, Waits!Ends
  <2> HIDE DEF Events
  <2>2. Tail(inbox[w]) \in Seq(Events) /\ Len(Tail(inbox[w])) = Len(inbox[w]) - 1
    <3>1. inbox[w] \in Seq(Events)
      BY DEF WaitsTypes
    <3> QED BY <2>1, <3>1
  <2>3. inbox' \in [Wait -> Seq(Events)]
    BY <2>1, <2>2 DEF WaitsTypes
  <2>4. \A v \in Wait : inbox'[v] = inbox[v] \/ (v = w /\ inbox'[v] = Tail(inbox[w]))
    BY <2>1 DEF WaitsTypes
  <2>5. \A v \in Wait : Len(inbox[v]) \in Nat /\ sent[v] \in 0 .. MaxEvents /\ Len(inbox[v]) <= sent[v]
    BY DEF WaitsTypes
  <2>6. Len(Tail(inbox[w])) <= sent[w]
    BY <1>0, <2>2, <2>5
  <2>7. \A v \in Wait : Len(inbox'[v]) <= sent[v]
    BY <2>4, <2>5, <2>6
  <2> QED BY <2>1, <2>3, <2>7 DEF WaitsTypes
<1>3. ASSUME NEW w \in Wait, Waits!Arrives(w) PROVE WaitsTypes'
  <2>1. PICK e \in Events : inbox' = [inbox EXCEPT ![w] = Append(inbox[w], e)]
    BY <1>3 DEF Waits!Arrives, Events
  <2>2. sent[w] < MaxEvents /\ sent' = [sent EXCEPT ![w] = sent[w] + 1] /\ UNCHANGED <<active, cancelled>>
    BY <1>3 DEF Waits!Arrives
  <2> HIDE DEF Events
  <2>3. Append(inbox[w], e) \in Seq(Events) /\ Len(Append(inbox[w], e)) = Len(inbox[w]) + 1
    <3>1. inbox[w] \in Seq(Events)
      BY DEF WaitsTypes
    <3> QED BY <3>1
  <2>4. inbox' \in [Wait -> Seq(Events)]
    BY <2>1, <2>3 DEF WaitsTypes
  <2>5. \A v \in Wait : Len(inbox[v]) \in Nat /\ sent[v] \in 0 .. MaxEvents /\ Len(inbox[v]) <= sent[v]
    BY DEF WaitsTypes
  <2>6. sent[w] + 1 \in 0 .. MaxEvents
    BY <1>0, <2>2, <2>5
  <2>7. sent' \in [Wait -> 0 .. MaxEvents]
    BY <2>2, <2>6 DEF WaitsTypes
  <2>8. \A v \in Wait : \/ inbox'[v] = inbox[v] /\ sent'[v] = sent[v]
                        \/ v = w /\ inbox'[v] = Append(inbox[w], e) /\ sent'[v] = sent[w] + 1
    BY <2>1, <2>2 DEF WaitsTypes
  <2>9. \A v \in Wait : Len(inbox'[v]) <= sent'[v]
    BY <1>0, <2>3, <2>5, <2>8
  <2> QED BY <2>2, <2>4, <2>7, <2>9 DEF WaitsTypes
<1>4. ASSUME NEW w \in Wait,
             \/ Waits!Register(w) \/ Waits!Subscribed(w) \/ Waits!NotSubscribed(w)
             \/ Waits!SeesCancel(w) \/ Waits!TimesOut(w) \/ Waits!TaskCancelled(w)
             \/ Waits!Close(w) \/ Waits!CutShort(w) \/ Waits!CancelWait(w)
      PROVE  WaitsTypes'
  <2>1. active \subseteq Wait /\ cancelled \subseteq Wait
    BY DEF WaitsTypes
  <2>2. /\ inbox' = [inbox EXCEPT ![w] = <<>>] \/ inbox' = inbox
        /\ UNCHANGED sent
        /\ active' \subseteq active \cup {w} /\ cancelled' \subseteq cancelled \cup {w}
    BY <1>4 DEF Waits!Register, Waits!Subscribed, Waits!NotSubscribed, Waits!SeesCancel,
       Waits!TimesOut, Waits!TaskCancelled, Waits!Close, Waits!CutShort, Waits!CancelWait,
       Waits!Unregister, Waits!Ends
  <2> QED BY <1>1, <2>1, <2>2
<1>5. CASE UNCHANGED OfWaits
  BY <1>5 DEF OfWaits, WaitsTypes
<1> QED BY <1>2, <1>3, <1>4, <1>5 DEF Waits!Next

(* The clock and the starts stay within their bounds.                        *)
LEMMA StartsTypesStep ==
  ASSUME StartsInv, StartsBounds, Starts!Next \/ UNCHANGED OfStarts PROVE StartsBounds'
<1>1. begun \in Seq([at : Nat, noted : BOOLEAN]) /\ bootTime \in Nat /\ MaxStarts \in Nat /\ MaxBootTime \in Nat
  BY ResourcesAssumption DEF StartsInv, StartsType
<1>2. CASE Starts!BootPasses
  <2> DEFINE past == [n \in DOMAIN begun |-> [begun[n] EXCEPT !.noted = begun[n].noted /\ ~damaged]]
             next == [at |-> bootTime, noted |-> FALSE]
  <2>1. begun' = Append(past, next) /\ Len(begun) < MaxStarts /\ bootTime' = bootTime
    BY <1>2 DEF Starts!BootPasses
  <2>2. Len(past) = Len(begun) /\ Len(begun) \in Nat
    <3>1. DOMAIN begun = 1 .. Len(begun) /\ Len(begun) \in Nat
      BY <1>1
    <3>2. DOMAIN past = 1 .. Len(begun)
      BY <3>1
    <3> HIDE DEF past
    <3> QED BY <3>1, <3>2
  <2>3. Len(Append(past, next)) = Len(past) + 1
    <3>1. \E S : past \in Seq(S) /\ next \in S
      <4>1. \A n \in 1 .. Len(begun) : begun[n] \in [at : Nat, noted : BOOLEAN]
        BY StartsTyped DEF StartsInv
      <4>2. \A n \in 1 .. Len(begun) :
              [begun[n] EXCEPT !.noted = begun[n].noted /\ ~damaged] \in [at : Nat, noted : BOOLEAN]
        BY <4>1
      <4>3. next \in [at : Nat, noted : BOOLEAN]
        BY <1>1
      <4> DEFINE R == [at : Nat, noted : BOOLEAN]
      <4>4. past \in [1 .. Len(begun) -> R]
        BY <1>1, <4>2
      <4> HIDE DEF past, next, R
      <4>5. past \in Seq(R)
        BY <2>2, <4>4
      <4>6. next \in R
        BY <4>3 DEF R
      <4> QED BY <4>5, <4>6
    <3> HIDE DEF past, next
    <3> QED BY <3>1
  <2> HIDE DEF past, next
  <2> QED BY <1>1, <2>1, <2>2, <2>3 DEF StartsBounds
<1>3. CASE Starts!BootNoted
  <2>1. begun' = [begun EXCEPT ![Len(begun)].noted = TRUE] /\ bootTime' = bootTime
    BY <1>3 DEF Starts!BootNoted
  <2>2. Len(begun') = Len(begun)
    <3>1. DOMAIN begun' = DOMAIN begun /\ DOMAIN begun = 1 .. Len(begun) /\ Len(begun) \in Nat
      BY <1>1, <2>1
    <3> QED BY <3>1
  <2> QED BY <2>1, <2>2 DEF StartsBounds
<1>4. CASE Starts!BootTick
  BY <1>1, <1>4 DEF Starts!BootTick, StartsBounds
<1>5. CASE Starts!BootRefused \/ Starts!BootUnnoted \/ Starts!ProcessEnds \/ Starts!Damage \/ UNCHANGED OfStarts
  BY <1>5 DEF Starts!BootRefused, Starts!BootUnnoted, Starts!ProcessEnds, Starts!Damage, OfStarts, StartsBounds
<1> QED BY <1>2, <1>3, <1>4, <1>5 DEF Starts!Next

(* The times in the log are those of starts, which are times of the past.    *)
LEMMA StartsInBounds == StartsInv /\ StartsBounds => Starts!TypeOK
<1> SUFFICES ASSUME StartsInv, StartsBounds PROVE Starts!TypeOK
  OBVIOUS
<1>1. bootTime \in Starts!Time
  <2>1. MaxBootTime \in Nat /\ bootTime \in Nat /\ bootTime <= MaxBootTime
    BY ResourcesAssumption DEF StartsInv, StartsType, StartsBounds
  <2> QED BY <2>1 DEF Starts!Time
<1>2. \A n \in DOMAIN begun :
        begun[n] \in [at : Nat, noted : BOOLEAN] /\ begun[n].at \in Nat /\ begun[n].at <= bootTime
  BY StartsTyped DEF StartsInv
<1>3. \A n \in DOMAIN begun : begun[n].at \in Starts!Time /\ begun[n] \in [at : Starts!Time, noted : BOOLEAN]
  <2>1. \A n \in DOMAIN begun : begun[n].at \in Starts!Time
    <3>1. MaxBootTime \in Nat
      BY ResourcesAssumption
    <3> QED BY <1>1, <1>2, <3>1 DEF Starts!Time
  <2> HIDE DEF Starts!Time
  <2> QED BY <1>2, <2>1
<1>4. \A i \in DOMAIN startLog : startLog[i] \in Starts!Time
  <2>1. PICK f \in [DOMAIN startLog -> DOMAIN begun] : LoggedAs(f)
    BY DEF StartsInv
  <2>2. \A i \in DOMAIN startLog : f[i] \in DOMAIN begun /\ startLog[i] = begun[f[i]].at
    BY <2>1 DEF LoggedAs
  <2> QED BY <1>3, <2>2
<1> QED BY <1>1, <1>3, <1>4 DEF StartsInv, StartsType, StartsBounds, Starts!TypeOK

(* One registration more, if the bound allows it.                            *)
LEMMA RegsStep ==
  ASSUME ClientsInv, RegsBound, Registered!Next \/ UNCHANGED OfClients PROVE RegsBound'
<1>1. Registered!MaxRegs = Cardinality(Client) + 1 /\ Cardinality(Client) \in Nat /\ begunRegs \in Nat
  BY Counting, ResourcesAssumption, FS_CardinalityType DEF Registered!MaxRegs, ClientsInv
<1>2. \/ begunRegs < Registered!MaxRegs /\ begunRegs' = begunRegs + 1
      \/ begunRegs' = begunRegs
  BY DEF Registered!Next, Registered!RegisterClient, Registered!RegisterCut, Registered!Registers,
     Registered!Authorize, Registered!Exchange, OfClients
<1>3. Registered!MaxRegs' = Registered!MaxRegs
  BY DEF Registered!MaxRegs, Registered!Cardinality
<1> QED BY <1>1, <1>2, <1>3 DEF RegsBound

(* No client registered after the last registration.                         *)
LEMMA ClientsTyped == ClientsInv /\ RegsBound => Registered!TypeOK
<1> SUFFICES ASSUME ClientsInv, RegsBound PROVE Registered!TypeOK
  OBVIOUS
<1>1. Registered!MaxRegs \in Nat /\ begunRegs \in 0 .. Registered!MaxRegs
  <2>1. Cardinality(Client) \in Nat
    BY ResourcesAssumption, FS_CardinalityType
  <2>2. Registered!MaxRegs = Cardinality(Client) + 1
    BY Counting DEF Registered!MaxRegs
  <2>3. begunRegs \in Nat /\ begunRegs <= Registered!MaxRegs
    BY DEF ClientsInv, RegsBound
  <2> QED BY <2>1, <2>2, <2>3
<1> QED BY <1>1 DEF ClientsInv, Registered!TypeOK

(* The failures that are counted happened, and there is one at least.        *)
LEMMA CountedTyped ==
  ASSUME FailuresInv, Rejected!TypeOK, NEW a \in Ip
  PROVE  LET all == Rejected!Counted(a)
         IN /\ DOMAIN all \subseteq Ip
            /\ \A b \in DOMAIN all : all[b] # <<>> /\ \A n \in DOMAIN all[b] : all[b][n] \in 0 .. authTime
<1> DEFINE all == Rejected!Counted(a)
           T == 0 .. authTime
           known == IF a \in DOMAIN bucket THEN bucket[a] ELSE <<>>
           old == Rejected!Cardinality({n \in DOMAIN known : ~Rejected!Fresh(known[n])})
           kept == SubSeq(known, old + 1, Len(known))
<1>1. all = [b \in DOMAIN bucket \cup {a} |-> IF b = a THEN Append(kept, authTime) ELSE bucket[b]]
  BY DEF Rejected!Counted
<1>2. /\ DOMAIN bucket \subseteq Ip /\ authTime \in T
      /\ \A b \in DOMAIN bucket : /\ bucket[b] \in Seq(Nat) /\ bucket[b] # <<>>
                                  /\ \A n \in DOMAIN bucket[b] : bucket[b][n] \in T
  BY DEF Rejected!TypeOK, FailuresInv
<1> HIDE DEF T
<1>3. known \in Seq(T) /\ Len(known) \in Nat /\ DOMAIN known = 1 .. Len(known)
  <2>1. CASE a \in DOMAIN bucket
    <3> DEFINE mine == bucket[a]
    <3>1. mine \in Seq(Nat) /\ \A n \in DOMAIN mine : mine[n] \in T
      BY <1>2, <2>1
    <3> HIDE DEF mine
    <3>2. DOMAIN mine = 1 .. Len(mine) /\ Len(mine) \in Nat /\ mine = [n \in 1 .. Len(mine) |-> mine[n]]
      BY <3>1
    <3>3. mine \in [1 .. Len(mine) -> T]
      BY <3>1, <3>2
    <3>4. mine \in Seq(T)
      BY <3>2, <3>3
    <3> QED BY <2>1, <3>2, <3>4 DEF mine
  <2>2. CASE a \notin DOMAIN bucket
    BY <2>2
  <2> QED BY <2>1, <2>2
<1>4. old \in Nat
  <2> DEFINE O == {n \in DOMAIN known : ~Rejected!Fresh(known[n])}
  <2>1. IsFiniteSet(DOMAIN known) /\ O \subseteq DOMAIN known
    BY <1>3, FS_Interval
  <2>2. Cardinality(O) \in Nat
    <3> HIDE DEF O
    <3> QED BY <2>1, FS_Subset, FS_CardinalityType
  <2> QED BY <2>2, Counting
<1> HIDE DEF known, old
<1>5. kept \in Seq(T)
  BY <1>3, <1>4
<1> DEFINE mine == Append(kept, authTime)
<1> HIDE DEF kept, all
<1>6. mine \in Seq(T) /\ Len(mine) = Len(kept) + 1 /\ Len(kept) \in Nat
  BY <1>2, <1>5
<1>7. all[a] = mine /\ DOMAIN all = DOMAIN bucket \cup {a} /\ \A b \in DOMAIN all : b # a => all[b] = bucket[b]
  BY <1>1
<1> HIDE DEF mine
<1>8. mine # <<>> /\ \A n \in DOMAIN mine : mine[n] \in T
  <2>1. Len(mine) # 0
    BY <1>6
  <2> QED BY <1>6, <2>1
<1>9. ASSUME NEW b \in DOMAIN all PROVE all[b] # <<>> /\ \A n \in DOMAIN all[b] : all[b][n] \in T
  BY <1>2, <1>7, <1>8
<1> QED BY <1>2, <1>7, <1>9 DEF all, T

(* What is left of the table after a rejection is of what was counted.       *)
LEMMA FailuresTypesStep ==
  ASSUME FailuresInv, Rejected!TypeOK, Rejected!Next \/ UNCHANGED OfRejected
  PROVE  Rejected!TypeOK'
<1>1. authTime \in Nat /\ authTime <= MaxAuthTime /\ MaxAuthTime \in Nat /\ MaxRejections \in Nat
  BY ResourcesAssumption DEF FailuresInv, Rejected!TypeOK
<1>2. ASSUME NEW a \in Ip, Rejected!Reject(a) PROVE Rejected!TypeOK'
  <2> DEFINE all == Rejected!Counted(a)
  <2>1. /\ DOMAIN all \subseteq Ip
        /\ \A b \in DOMAIN all : all[b] # <<>> /\ \A n \in DOMAIN all[b] : all[b][n] \in 0 .. authTime
    BY CountedTyped
  <2> DEFINE live == Rejected!Without(all, {b \in DOMAIN all : ~Rejected!Fresh(Rejected!LastOf(all[b]))})
             excess == Rejected!Cardinality(DOMAIN live) - MaxIps
  <2>2. /\ \/ bucket' = all
           \/ bucket' = live
           \/ \E V \in Rejected!Victims(live, excess) : bucket' = Rejected!Without(live, V \ {a})
        /\ authCut' = (Len(all[a]) > MaxPerMinute)
        /\ caller' = a /\ rejections < MaxRejections /\ rejections' = rejections + 1 /\ authTime' = authTime
    BY <1>2 DEF Rejected!Reject
  <2> HIDE DEF all
  <2>3. DOMAIN live \subseteq DOMAIN all /\ \A b \in DOMAIN live : live[b] = all[b]
    BY DEF Rejected!Without
  <2> HIDE DEF live
  <2>4. DOMAIN bucket' \subseteq DOMAIN all /\ \A b \in DOMAIN bucket' : bucket'[b] = all[b]
    <3>1. CASE bucket' = all
      BY <3>1
    <3>2. CASE bucket' = live
      BY <2>3, <3>2
    <3>3. ASSUME NEW V, bucket' = Rejected!Without(live, V \ {a})
          PROVE  DOMAIN bucket' \subseteq DOMAIN all /\ \A b \in DOMAIN bucket' : bucket'[b] = all[b]
      BY <2>3, <3>3 DEF Rejected!Without
    <3> QED BY <2>2, <3>1, <3>2, <3>3
  <2>5. \E known \in SUBSET Ip : DOMAIN bucket' = known
    BY <2>1, <2>4
  <2>6. \A b \in DOMAIN bucket' : bucket'[b] # <<>> /\ \A n \in DOMAIN bucket'[b] : bucket'[b][n] \in 0 .. authTime'
    BY <2>1, <2>2, <2>4
  <2>7. rejections' \in 0 .. MaxRejections
    BY <1>1, <2>2 DEF Rejected!TypeOK
  <2>8. caller' \in Ip \cup {"nobody"} /\ authCut' \in BOOLEAN /\ authTime' \in 0 .. MaxAuthTime
    BY <1>1, <2>2
  <2> QED BY <2>5, <2>6, <2>7, <2>8 DEF Rejected!TypeOK
<1>3. CASE Rejected!AuthTick
  <2>1. /\ authTime < MaxAuthTime /\ authTime' = authTime + 1
        /\ UNCHANGED <<bucket, caller, authCut, rejections>>
    BY <1>3 DEF Rejected!AuthTick
  <2>2. \A t \in 0 .. authTime : t \in 0 .. authTime'
    BY <1>1, <2>1
  <2>3. authTime' \in 0 .. MaxAuthTime
    BY <1>1, <2>1
  <2> QED BY <2>1, <2>2, <2>3 DEF Rejected!TypeOK
<1>4. CASE UNCHANGED OfRejected
  BY <1>4 DEF OfRejected, Rejected!TypeOK
<1> QED BY <1>2, <1>3, <1>4 DEF Rejected!Next

(* With the invariant of the part, its type.                                 *)
LEMMA CopiesTyped == CopiesInv /\ CopiesBounds => Copied!TypeOK
<1> SUFFICES ASSUME CopiesInv, CopiesBounds PROVE Copied!TypeOK
  OBVIOUS
<1>0. /\ Copied!Torn \in Nat /\ Copied!Version = 0 .. Copied!Torn /\ MaxSecond \in Nat /\ MaxCalls \in Nat
      /\ CopiesType /\ NumbersInv
  BY ResourcesAssumption DEF Copied!Torn, Copied!Version, CopiesInv
<1>1. current \in [Path -> Copied!Version]
  <2>1. \A p \in Path : current[p] \in Copied!Version
    BY <1>0 DEF CopiesType, CopiesBounds
  <2> HIDE DEF Copied!Version
  <2> QED BY <1>0, <2>1 DEF CopiesType
<1>2. copies \subseteq Copied!Copy
  <2> SUFFICES ASSUME NEW c \in copies PROVE c \in Copied!Copy
    OBVIOUS
  <2>1. c \in [at : Nat, path : Path, ver : Nat, n : Nat]
    BY <1>0 DEF CopiesType
  <2>2. c.at \in 0 .. MaxSecond
    <3>1. c.at <= second /\ second <= MaxSecond /\ second \in Nat /\ c.at \in Nat
      BY <1>0, <2>1 DEF NumbersInv, CopiesBounds, CopiesType
    <3> QED BY <1>0, <3>1
  <2>3. c.ver \in Copied!Version
    BY <1>0, <2>1 DEF CopiesBounds
  <2> HIDE DEF Copied!Version
  <2> QED BY <2>1, <2>2, <2>3 DEF Copied!Copy
<1>3. ASSUME NEW e \in Edit
      PROVE  /\ edit[e].step \in {"idle", "checked", "copied", "missing"}
             /\ edit[e].what \in Copied!Kinds
             /\ {edit[e].path, edit[e].to} \subseteq Path \cup {"none"}
             /\ edit[e].left \in Seq(Path)
             /\ edit[e].ver \in Copied!Version /\ edit[e].stamp \in 0 .. MaxSecond
             /\ edit[e].raced \subseteq Path
  <2>1. edit[e] \in Call
    BY <1>0 DEF CopiesType
  <2>2. edit[e].ver \in Nat /\ edit[e].stamp \in Nat
    BY <2>1 DEF Call
  <2>3. edit[e].ver \in Copied!Version /\ edit[e].stamp \in 0 .. MaxSecond
    BY <1>0, <2>2 DEF CopiesBounds
  <2> QED BY <2>1, <2>3 DEF Call
<1>4. second \in 0 .. MaxSecond /\ calls \in 0 .. MaxCalls
  BY <1>0 DEF CopiesType, CopiesBounds
<1>5. taken \in [Path -> Seq(Copied!Version)]
  <2> SUFFICES ASSUME NEW p \in Path PROVE taken[p] \in Seq(Copied!Version)
    BY <1>0 DEF CopiesType
  <2> DEFINE S == taken[p]
  <2>1. S \in Seq(Nat)
    BY <1>0 DEF CopiesType
  <2>2. \A n \in DOMAIN S : S[n] <= Copied!Torn
    BY DEF CopiesBounds
  <2> HIDE DEF S
  <2>3. /\ Len(S) \in Nat /\ DOMAIN S = 1 .. Len(S) /\ S = [n \in 1 .. Len(S) |-> S[n]]
        /\ \A n \in 1 .. Len(S) : S[n] \in Nat
    BY <2>1
  <2>4. \A n \in 1 .. Len(S) : S[n] \in Copied!Version
    BY <1>0, <2>2, <2>3
  <2> HIDE DEF Copied!Version
  <2>5. S \in [1 .. Len(S) -> Copied!Version]
    BY <2>3, <2>4
  <2>6. S \in Seq(Copied!Version)
    BY <2>3, <2>5
  <2> QED BY <2>6 DEF S
<1>6. replaced \subseteq Path \X Copied!Version
  <2> SUFFICES ASSUME NEW r \in replaced PROVE r \in Path \X Copied!Version
    OBVIOUS
  <2>1. PICK p \in Path, v \in Nat : r = <<p, v>>
    BY DEF CopiesBounds
  <2>2. r[1] = p /\ r[2] = v
    BY <2>1
  <2>3. WasTaken(p, v)
    BY <2>2 DEF CopiesInv, ReplacedInv
  <2>4. v <= Copied!Torn
    BY <2>3 DEF WasTaken, CopiesBounds
  <2>5. v \in Copied!Version
    BY <1>0, <2>4
  <2> QED BY <2>1, <2>5
<1>7. dropped \subseteq Path \X Nat
  BY DEF CopiesBounds
<1> QED BY <1>1, <1>2, <1>3, <1>4, <1>5, <1>6, <1>7 DEF Copied!TypeOK

(* A copy is a version that was there, or half of one.                       *)
LEMMA CopyInBounds ==
  ASSUME CopiesInv, CopiesBounds, NEW e \in Edit, NEW p \in Path, NEW t \in 0 .. MaxSecond,
         Copied!BackupCopies(e, p, t) \/ Copied!BackupFails(e, p, t)
  PROVE  CopiesBounds'
<1>0. Copied!Torn \in Nat /\ MaxSecond \in Nat /\ MaxCalls \in Nat /\ CopiesType
  BY ResourcesAssumption DEF Copied!Torn, CopiesInv
<1>1. PICK v \in Nat : v <= Copied!Torn /\ Copied!Copies(p, v, t)
  BY <1>0 DEF Copied!BackupCopies, Copied!BackupFails, CopiesBounds, CopiesType
<1>2. UNCHANGED <<current, calls, replaced>> /\ Copied!Torn' = Copied!Torn
  BY DEF Copied!BackupCopies, Copied!BackupFails, Copied!Copying, Copied!Torn
<1>3. \A f \in Edit : edit'[f].ver <= Copied!Torn /\ edit'[f].stamp <= MaxSecond
  <2>1. CASE Copied!BackupCopies(e, p, t)
    <3>1. edit' = [edit EXCEPT ![e] = [edit[e] EXCEPT !.step = "copied", !.stamp = t]]
      <4>1. edit' = [edit EXCEPT ![e].step = "copied", ![e].stamp = t] /\ edit \in [Edit -> Call]
        BY <1>0, <2>1 DEF Copied!BackupCopies, CopiesType
      <4> QED BY <4>1
    <3>2. edit[e] \in Call
      BY <1>0 DEF CopiesType
    <3>3. edit'[e].ver = edit[e].ver /\ edit'[e].stamp = t
      BY <1>0, <3>1, <3>2 DEF CopiesType, Call
    <3>4. \A f \in Edit \ {e} : edit'[f] = edit[f]
      BY <1>0, <3>1 DEF CopiesType
    <3> QED BY <1>0, <3>3, <3>4 DEF CopiesBounds
  <2>2. CASE Copied!BackupFails(e, p, t)
    <3>1. edit' = [edit EXCEPT ![e] = Copied!Idle] /\ Copied!Idle.ver = 0 /\ Copied!Idle.stamp = 0
      BY <2>2 DEF Copied!BackupFails, Copied!Idle, Copied!Rest
    <3>2. edit'[e] = Copied!Idle /\ \A f \in Edit \ {e} : edit'[f] = edit[f]
      BY <1>0, <3>1 DEF CopiesType
    <3> QED BY <1>0, <3>1, <3>2 DEF CopiesBounds
  <2> QED BY <2>1, <2>2
<1>4. /\ second' = t
      /\ copies' = (copies \ Copied!Named(p, t)) \cup
           {[at |-> t, path |-> p, ver |-> v, n |-> Len(taken[p]) + 1]}
      /\ taken' = [taken EXCEPT ![p] = Append(taken[p], v)]
      /\ dropped' = dropped \cup {<<p, c.n>> : c \in Copied!Named(p, t)}
  BY <1>1 DEF Copied!Copies
<1>5. ASSUME NEW q \in Path, NEW n \in DOMAIN taken'[q] PROVE taken'[q][n] <= Copied!Torn
  <2>1. CASE q = p
    <3> DEFINE S == taken[p]
    <3>1. S \in Seq(Nat) /\ \A m \in DOMAIN S : S[m] <= Copied!Torn
      BY <1>0 DEF CopiesType, CopiesBounds
    <3>2. taken'[p] = Append(S, v)
      BY <1>0, <1>4 DEF CopiesType
    <3> HIDE DEF S
    <3>3. /\ Len(S) \in Nat /\ DOMAIN S = 1 .. Len(S) /\ DOMAIN Append(S, v) = 1 .. Len(S) + 1
          /\ \A m \in 1 .. Len(S) : Append(S, v)[m] = S[m]
          /\ Append(S, v)[Len(S) + 1] = v
      BY <3>1
    <3>4. n \in 1 .. Len(S) \/ n = Len(S) + 1
      BY <1>5, <2>1, <3>2, <3>3
    <3> QED BY <1>1, <2>1, <3>1, <3>2, <3>3, <3>4
  <2>2. CASE q # p
    <3>1. taken'[q] = taken[q]
      BY <1>0, <1>4, <2>2 DEF CopiesType
    <3> QED BY <1>5, <3>1 DEF CopiesBounds
  <2> QED BY <2>1, <2>2
<1>6. \A c \in copies' : c.ver <= Copied!Torn
  BY <1>1, <1>4 DEF CopiesBounds
<1>7. dropped' \subseteq Path \X Nat
  <2>1. \A c \in Copied!Named(p, t) : c.n \in Nat
    BY <1>0 DEF Copied!Named, CopiesType
  <2> QED BY <1>4, <2>1 DEF CopiesBounds
<1>8. second' <= MaxSecond
  BY <1>0, <1>4
<1> QED BY <1>2, <1>3, <1>5, <1>6, <1>7, <1>8 DEF CopiesBounds

(* A call begins: what it writes is a version of its own.                    *)
LEMMA StartInBounds ==
  ASSUME CopiesInv, CopiesBounds, NEW e \in Edit, NEW what, NEW p, NEW q, NEW c,
         Copied!Starts(e, what, p, q, c)
  PROVE  CopiesBounds'
<1>0. Copied!Torn = MaxCalls + 2 /\ MaxSecond \in Nat /\ MaxCalls \in Nat /\ CopiesType /\ calls \in Nat
  BY ResourcesAssumption DEF Copied!Torn, CopiesInv, CopiesType
<1>1. /\ calls < MaxCalls /\ calls' = calls + 1 /\ Copied!Torn' = Copied!Torn
      /\ UNCHANGED <<current, copies, second, taken, replaced, dropped>>
  BY DEF Copied!Starts, Copied!Torn
<1>2. PICK new : /\ edit' = [edit EXCEPT ![e] = new]
                 /\ new.ver = (IF what = "write" THEN calls + 2 ELSE 0) /\ new.stamp = 0
  <2> DEFINE first == [step |-> "checked", what |-> what, path |-> p, to |-> q, source |-> c.at,
                       n |-> c.n, ver |-> IF what = "write" THEN calls + 2 ELSE 0,
                       left |-> IF p = q THEN <<p>> ELSE <<p, q>>, stamp |-> 0, raced |-> {}]
  <2>1. edit' = [edit EXCEPT ![e] = first]
    BY DEF Copied!Starts
  <2>2. first.ver = (IF what = "write" THEN calls + 2 ELSE 0) /\ first.stamp = 0
    OBVIOUS
  <2> HIDE DEF first
  <2> QED BY <2>1, <2>2
<1>3. edit'[e] = new /\ \A f \in Edit \ {e} : edit'[f] = edit[f]
  BY <1>0, <1>2 DEF CopiesType
<1>4. new.ver <= Copied!Torn /\ new.stamp <= MaxSecond
  BY <1>0, <1>1, <1>2
<1>5. \A f \in Edit : edit'[f].ver <= Copied!Torn /\ edit'[f].stamp <= MaxSecond
  BY <1>3, <1>4 DEF CopiesBounds
<1>6. calls' <= MaxCalls
  BY <1>0, <1>1
<1> QED BY <1>1, <1>5, <1>6 DEF CopiesBounds

(* A file becomes a version that is known.                                   *)
LEMMA ChangeInBounds ==
  ASSUME CopiesInv, CopiesBounds, NEW e \in Edit, NEW now, NEW rest,
         \A p \in Path : now[p] <= Copied!Torn, rest.ver = 0, rest.stamp = 0,
         Copied!Changes(e, now, rest)
  PROVE  CopiesBounds'
<1>0. Copied!Torn \in Nat /\ MaxSecond \in Nat /\ CopiesType /\ Copied!Torn' = Copied!Torn
  BY ResourcesAssumption DEF Copied!Torn, CopiesInv
<1>1. /\ current' = now /\ UNCHANGED <<copies, second, calls, taken, dropped>>
      /\ edit' = [f \in Edit |->
           IF f = e THEN rest
           ELSE [edit[f] EXCEPT !.raced = edit[f].raced \cup (Copied!Copied(f) \cap {p \in Path : now[p] # current[p]})]]
      /\ \A r \in replaced' : r \in replaced \/ \E p \in Path : r = <<p, current[p]>>
  BY DEF Copied!Changes
<1>2. ASSUME NEW f \in Edit PROVE edit'[f].ver <= Copied!Torn /\ edit'[f].stamp <= MaxSecond
  <2>1. CASE f = e
    BY <1>0, <1>1, <2>1
  <2>2. CASE f # e
    <3>1. edit[f] \in Call
      BY <1>0 DEF CopiesType
    <3>2. edit'[f].ver = edit[f].ver /\ edit'[f].stamp = edit[f].stamp
      BY <1>1, <2>2, <3>1 DEF Call
    <3> QED BY <3>2 DEF CopiesBounds
  <2> QED BY <2>1, <2>2
<1>3. replaced' \subseteq Path \X Nat
  <2>1. \A p \in Path : current[p] \in Nat
    BY <1>0 DEF CopiesType
  <2> QED BY <1>1, <2>1 DEF CopiesBounds
<1> QED BY <1>0, <1>1, <1>2, <1>3 DEF CopiesBounds

(* The ends of a call.                                                       *)
LEMMA EndInBounds ==
  ASSUME CopiesInv, CopiesBounds, NEW e \in Edit,
         Copied!Writes(e) \/ Copied!Deletes(e) \/ Copied!Moves(e) \/ Copied!Restores(e)
           \/ Copied!ChangeFails(e)
  PROVE  CopiesBounds'
<1>0. Copied!Torn \in Nat /\ CopiesType
  BY ResourcesAssumption DEF Copied!Torn, CopiesInv
<1>1. /\ current \in [Path -> Nat] /\ \A p \in Path : current[p] <= Copied!Torn
      /\ edit[e].ver <= Copied!Torn
      /\ \A c \in copies : c.ver <= Copied!Torn
  BY <1>0 DEF CopiesType, CopiesBounds
<1>2. Copied!Idle.ver = 0 /\ Copied!Idle.stamp = 0
  BY DEF Copied!Idle, Copied!Rest
<1>3. \A p, n : Copied!Rest("missing", p, n).ver = 0 /\ Copied!Rest("missing", p, n).stamp = 0
  BY DEF Copied!Rest
<1>4. ASSUME NEW now, \A p \in Path : now[p] <= Copied!Torn, Copied!Changes(e, now, Copied!Idle)
      PROVE  CopiesBounds'
  BY <1>2, <1>4, ChangeInBounds
<1>5. ASSUME NEW p, NEW v, v <= Copied!Torn, Copied!Changes(e, [current EXCEPT ![p] = v], Copied!Idle)
      PROVE  CopiesBounds'
  <2>1. \A q \in Path : [current EXCEPT ![p] = v][q] <= Copied!Torn
    BY <1>1, <1>5
  <2> QED BY <1>4, <1>5, <2>1
<1>6. CASE Copied!Writes(e)
  BY <1>1, <1>5, <1>6 DEF Copied!Writes
<1>7. CASE Copied!Deletes(e)
  BY <1>0, <1>5, <1>7 DEF Copied!Deletes
<1>8. CASE Copied!Moves(e)
  <2> DEFINE p == edit[e].path
             q == edit[e].to
             now == [current EXCEPT ![q] = current[p], ![p] = 0]
  <2>1. \/ Copied!Changes(e, current, Copied!Idle)
        \/ Copied!Changes(e, now, Copied!Idle)
    BY <1>8 DEF Copied!Moves
  <2>2. p \in Path
    BY <1>8 DEF Copied!Moves, Copied!Ready, CopiesInv, CallInv
  <2>3. \A r \in Path : now[r] <= Copied!Torn
    <3> HIDE DEF p, q
    <3> QED BY <1>0, <1>1, <2>2
  <2> HIDE DEF now
  <2> QED BY <1>1, <1>4, <2>1, <2>3
<1>9. CASE Copied!Restores(e)
  <2> DEFINE p == edit[e].path
  <2>1. \/ Copied!Changes(e, current, Copied!Rest("missing", p, edit[e].n))
        \/ \E c \in copies : Copied!Changes(e, [current EXCEPT ![p] = c.ver], Copied!Idle)
    BY <1>9 DEF Copied!Restores, Copied!Named
  <2> HIDE DEF p
  <2>2. CASE Copied!Changes(e, current, Copied!Rest("missing", p, edit[e].n))
    BY <1>1, <1>3, <2>2, ChangeInBounds
  <2>3. ASSUME NEW c \in copies, Copied!Changes(e, [current EXCEPT ![p] = c.ver], Copied!Idle)
        PROVE  CopiesBounds'
    BY <1>1, <1>5, <2>3
  <2> QED BY <2>1, <2>2, <2>3
<1>10. CASE Copied!ChangeFails(e)
  <2>1. \/ Copied!Changes(e, current, Copied!Idle)
        \/ Copied!Changes(e, [current EXCEPT ![edit[e].path] = Copied!Torn], Copied!Idle)
    BY <1>10 DEF Copied!ChangeFails
  <2>2. Copied!Torn <= Copied!Torn
    BY <1>0
  <2> QED BY <1>1, <1>4, <1>5, <2>1, <2>2
<1> QED BY <1>6, <1>7, <1>8, <1>9, <1>10

(* Limits and crashes make no new version.                                   *)
LEMMA CopiesBoundsStep ==
  ASSUME CopiesInv, CopiesBounds, Copied!Next \/ UNCHANGED OfCopies PROVE CopiesBounds'
<1>0. Copied!Torn' = Copied!Torn /\ Copied!Torn \in Nat /\ MaxSecond \in Nat /\ CopiesType
  BY ResourcesAssumption DEF Copied!Torn, CopiesInv
<1>1. ASSUME NEW e \in Edit, NEW p \in Path, Copied!BackupSkips(e, p) PROVE CopiesBounds'
  <2>1. UNCHANGED <<current, calls, replaced, copies, second, taken, dropped>>
        /\ edit' = [edit EXCEPT ![e] = [edit[e] EXCEPT !.left = Tail(edit[e].left)]]
    BY <1>0, <1>1 DEF Copied!BackupSkips, Copied!Copying, CopiesType
  <2>2. \A f \in Edit : edit'[f].ver = edit[f].ver /\ edit'[f].stamp = edit[f].stamp
    BY <1>0, <2>1 DEF CopiesType, Call
  <2> QED BY <1>0, <2>1, <2>2 DEF CopiesBounds
<1>2. ASSUME NEW e \in Edit, Copied!BackupRotates(e) PROVE CopiesBounds'
  <2>1. /\ UNCHANGED <<current, second, calls, taken, replaced>>
        /\ edit' = [edit EXCEPT ![e] = [edit[e] EXCEPT !.step = "checked", !.left = Tail(edit[e].left)]]
    <3>1. /\ UNCHANGED <<current, second, calls, taken, replaced>>
          /\ edit' = [edit EXCEPT ![e].step = "checked", ![e].left = Tail(edit[e].left)]
      BY <1>2 DEF Copied!BackupRotates
    <3> QED BY <1>0, <3>1 DEF CopiesType
  <2>2. \A f \in Edit : edit'[f].ver = edit[f].ver /\ edit'[f].stamp = edit[f].stamp
    BY <1>0, <2>1 DEF CopiesType, Call
  <2>3. copies' \subseteq copies /\ \A d \in dropped' : d \in dropped \/ \E c \in copies : d = <<c.path, c.n>>
    <3>1. \A kept, new : \A now \in Copied!Trimmed(kept, new) : now \subseteq kept
      BY DEF Copied!Trimmed
    <3> DEFINE p == Head(edit[e].left)
               t == edit[e].stamp
               old == Copied!Rotated(p, t)
               kept == copies \ old
    <3>2. PICK now \in Copied!Trimmed(kept, Copied!Named(p, t)) :
            /\ copies' = now
            /\ dropped' = dropped \cup {<<c.path, c.n>> : c \in (kept \ now) \cup {c \in old : c.at > t}}
      BY <1>2 DEF Copied!BackupRotates
    <3>3. old \subseteq copies
      BY DEF Copied!Rotated
    <3> HIDE DEF p, t, old
    <3> QED BY <3>1, <3>2, <3>3
  <2>4. \A c \in copies : c.path \in Path /\ c.n \in Nat
    BY <1>0 DEF CopiesType
  <2>5. dropped' \subseteq Path \X Nat
    BY <2>3, <2>4 DEF CopiesBounds
  <2> QED BY <1>0, <2>1, <2>2, <2>3, <2>5 DEF CopiesBounds
<1>3. ASSUME Copied!BackupCrash PROVE CopiesBounds'
  <2>1. \A e \in Edit : edit'[e].ver = 0 /\ edit'[e].stamp = 0
    BY <1>3 DEF Copied!BackupCrash, Copied!Idle, Copied!Rest
  <2> QED BY <1>0, <1>3, <2>1 DEF Copied!BackupCrash, CopiesBounds
<1>4. ASSUME UNCHANGED OfCopies PROVE CopiesBounds'
  BY <1>0, <1>4 DEF OfCopies, CopiesBounds
<1>5. ASSUME NEW e \in Edit,
             \/ \E p \in Path : Copied!StartWrite(e, p) \/ Copied!StartDelete(e, p)
             \/ \E p, q \in Path, what \in {"move", "overwrite"} : Copied!StartMove(e, p, q, what)
             \/ \E c \in copies : Copied!StartRestore(e, c)
      PROVE  CopiesBounds'
  <2>1. \E what, p, q, c : Copied!Starts(e, what, p, q, c)
    BY <1>5 DEF Copied!StartWrite, Copied!StartDelete, Copied!StartMove, Copied!StartRestore
  <2> QED BY <2>1, StartInBounds
<1> QED BY <1>1, <1>2, <1>3, <1>4, <1>5, CopyInBounds, EndInBounds DEF Copied!Next

-------------------------------------------------------------------------------
(* The initial states of the parts, and the step of any of them.             *)
LEMMA InitIInv == Init => IInv
<1> SUFFICES ASSUME Init PROVE IInv
  OBVIOUS
<1>0. MaxConcurrent \in Nat /\ MaxJobTime \in Nat /\ JobKeep \in Nat /\ MaxClients \in Nat \ {0}
      /\ "old" \notin Writer /\ "none" \notin Writer
  BY ResourcesAssumption
<1>1. WaitsInv
  BY <1>0, FS_EmptySet, Counting
     DEF Init, Waits!Init, WaitsInv, Waits!PlacesHeld, Waits!Replies, Waits!Running
<1>2. FlowsInv
  BY DEF Init, Openings!Init, FlowsInv, Openings!TypeOK, Openings!NoOrphans, Openings!Open, Openings!Kind
<1>3. JobsInv
  <2>1. jobs = [j \in {} |-> 0] /\ DOMAIN jobs = {}
    BY DEF Init, Ledger!Init, Ledger!NoJobs
  <2>2. \E known \in SUBSET Job : jobs \in [known -> Ledger!Entry]
    <3>1. {} \in SUBSET Job /\ jobs \in [{} -> Ledger!Entry]
      BY <2>1, Zenon
    <3> QED BY <3>1
  <2>3. /\ jobTold = {} /\ sawDone = {} /\ jobsMissed = {} /\ jobTime = 0
        /\ starter = [j \in Job |-> "idle"] /\ work = [j \in Job |-> "none"]
        /\ poll = [j \in Job |-> "idle"] /\ jobSince = [j \in Job |-> 0]
    BY DEF Init, Ledger!Init
  <2>4. Ledger!TypeOK
    BY <1>0, <2>2, <2>3 DEF Ledger!TypeOK
  <2> QED BY <2>1, <2>3, <2>4 DEF JobsInv
<1>4. KindsInv
  BY DEF Init, Kinds!Init, KindsInv, Kinds!TypeOK, Kinds!RestrictedAsks, Kinds!Content,
     Kinds!Dangerous, Kinds!Scan
<1>5. EditsInv
  BY <1>0 DEF Init, Secrets!Init, EditsInv, Secrets!TypeOK, AloneInv, TextInv, Secrets!BusyNow,
     Secrets!Busy
<1>6. ClientsInv
  BY <1>0, FS_EmptySet, Counting DEF Init, Registered!Init, ClientsInv, Registered!ClientsKept
<1>7. CopiesInv
  <2>1. /\ copies = {} /\ replaced = {} /\ second = 0 /\ calls = 0
        /\ current = [p \in Path |-> 1] /\ taken = [p \in Path |-> <<>>]
        /\ edit = [e \in Edit |-> Copied!Idle]
    BY DEF Init, Copied!Init
  <2>2. Copied!Idle \in Call /\ Copied!Idle.step = "idle"
    BY DEF Copied!Idle, Copied!Rest, Copied!Kinds, Call
  <2>3. CopiesType
    BY <2>1, <2>2, FS_EmptySet DEF CopiesType
  <2>4. \A p \in Path : DOMAIN taken[p] = {}
    BY <2>1
  <2>5. NumbersInv
    BY <2>1, <2>4 DEF NumbersInv
  <2>6. \A e \in Edit : CallInv(e)
    BY <2>1, <2>2 DEF CallInv
  <2> QED BY <2>1, <2>3, <2>5, <2>6 DEF CopiesInv, ReplacedInv
<1>8. StartsInv
  <2>1. startLog = <<>> /\ begun = <<>> /\ damaged = FALSE /\ boot = "down" /\ bootTime = 0
    BY DEF Init, Starts!Init
  <2>2. DOMAIN startLog = {} /\ DOMAIN begun = {}
    BY <2>1
  <2>3. StartsType
    <3>1. startLog \in Seq(Nat) /\ Len(startLog) = 0 /\ RingSize \in Nat
      BY <2>1, ResourcesAssumption
    <3>2. begun \in Seq([at : Nat, noted : BOOLEAN])
      <4> DEFINE R == [at : Nat, noted : BOOLEAN]
      <4> HIDE DEF R
      <4>1. begun \in Seq(R)
        BY <2>1
      <4> QED BY <4>1 DEF R
    <3>3. Len(startLog) <= RingSize
      BY <3>1
    <3>4. damaged \in BOOLEAN /\ boot \in {"down", "passed", "up", "refused"} /\ bootTime \in Nat
      BY <2>1
    <3> QED BY <3>1, <3>2, <3>3, <3>4 DEF StartsType
  <2>4. Noted = {}
    BY <2>2 DEF Noted
  <2>5. \E f \in [DOMAIN startLog -> DOMAIN begun] : LoggedAs(f)
    <3>1. [i \in {} |-> 0] \in [{} -> {}]
      BY Zenon
    <3>2. LoggedAs([i \in {} |-> 0])
      BY <2>2, <2>4 DEF LoggedAs
    <3> QED BY <2>2, <3>1, <3>2
  <2>6. Starts!StartsBounded
    <3>1. {n \in {} : Starts!Within(begun[n].at)} = {}
      OBVIOUS
    <3>2. Starts!Lately({}) = 0
      BY <3>1, Counting, FS_EmptySet DEF Starts!Lately
    <3>3. {n \in DOMAIN begun : begun[n].noted} = {}
      BY <2>2
    <3> QED BY <2>1, <3>2, <3>3, ResourcesAssumption DEF Starts!StartsBounded
  <2> QED BY <2>1, <2>2, <2>3, <2>5, <2>6 DEF StartsInv
<1>9. FailuresInv
  <2>1. DOMAIN bucket = {} /\ authTime = 0
    BY DEF Init, Rejected!Init
  <2>2. MaxIps \in Nat
    BY ResourcesAssumption
  <2> QED BY <2>1, <2>2, FS_EmptySet DEF FailuresInv
<1>10. LoginsInv
  <2>1. /\ loginTime = LoginStart /\ failures = [a \in Address |-> 0]
        /\ firstFail = [a \in Address |-> 0] /\ lockedUntil = [a \in Address |-> 0]
        /\ allFails = 0 /\ allFirst = 0 /\ allUntil = 0
        /\ fails = 0 /\ entries = 0 /\ blame = {} /\ midway = FALSE
    BY DEF Init, Passwords!Init
  <2>2. /\ Window \in Nat /\ MaxLock \in Nat /\ MaxFails \in Nat /\ MaxEntries \in Nat
        /\ MaxLoginTime \in Nat /\ GlobalThreshold \in Nat \ {0}
        /\ LoginStart \in Nat /\ LoginStart > Window /\ LoginStart <= MaxLoginTime
    BY LoginsAssumption
  <2>3. Spent[0] = 0
    BY SpentIsThere DEF Slows
  <2>4. Passwords!TypeOK
    <3>1. 0 \in Nat /\ 0 \in Passwords!Times /\ 0 \in 0 .. MaxLoginTime + MaxLock
      BY <2>2 DEF Passwords!Times
    <3>2. /\ failures \in [Address -> Nat] /\ firstFail \in [Address -> Passwords!Times]
          /\ lockedUntil \in [Address -> 0 .. MaxLoginTime + MaxLock]
      BY <2>1, <3>1
    <3>3. loginTime \in LoginStart .. MaxLoginTime
      BY <2>1, <2>2
    <3>4. allFails \in Nat /\ allFirst \in Passwords!Times /\ allUntil \in 0 .. MaxLoginTime + MaxLock
      BY <2>1, <3>1
    <3>5. fails \in Nat /\ entries \in Nat /\ blame \subseteq Address /\ midway \in BOOLEAN
      BY <2>1
    <3> QED BY <3>2, <3>3, <3>4, <3>5 DEF Passwords!TypeOK
  <2>5. Passwords!OneAloneLocksItself
    <3>1. \A a \in Address : failures[a] = 0 /\ lockedUntil[a] = 0
      BY <2>1
    <3> QED BY <2>1, <2>2, <3>1 DEF Passwords!OneAloneLocksItself
  <2>6. IsFiniteSet(blame)
    BY <2>1, FS_EmptySet
  <2> QED BY <2>1, <2>2, <2>3, <2>4, <2>5, <2>6 DEF LoginsInv
<1>11. LimitedInv
  <2>1. /\ DOMAIN requests = {} /\ publicTime = 1 /\ dispatches = 0
        /\ admitted = [s \in Source |-> <<>>] /\ forgiven = {}
    BY DEF Init, Limited!Init
  <2>2. MaxDispatches \in Nat /\ MaxPublicTime \in Nat \ {0} /\ MaxTracked \in Nat
        /\ PurgeInterval \in Nat \ {0}
    BY ResourcesAssumption
  <2>3. /\ admitted \in [Source -> Seq(Nat)]
        /\ \A s \in Source : DOMAIN admitted[s] = {} /\ Len(admitted[s]) = 0
    BY <2>1
  <2>4. Limited!TypeOK
    BY <2>1, <2>2, <2>3 DEF Limited!TypeOK
  <2>5. \A s \in Source : Ordered(admitted[s]) /\ EndOf(s, 0)
    BY <2>1, <2>3 DEF Ordered, EndOf
  <2>6. IsFiniteSet({}) /\ Cardinality({}) = 0 /\ 0 % PurgeInterval \in Nat
    BY <2>2, FS_EmptySet
  <2> QED BY <2>1, <2>2, <2>3, <2>4, <2>5, <2>6 DEF LimitedInv
<1> QED BY <1>1, <1>2, <1>3, <1>4, <1>5, <1>6, <1>7, <1>8, <1>9, <1>10, <1>11 DEF IInv

(* Each part keeps its own, and the others' steps leave it alone.            *)
LEMMA StepIInv == IInv /\ [Next]_allVars => IInv'
<1> SUFFICES ASSUME IInv, [Next]_allVars PROVE IInv'
  OBVIOUS
<1>1. /\ Waits!Next \/ UNCHANGED OfWaits
      /\ Openings!Next \/ UNCHANGED OfFlows
      /\ Ledger!Next \/ UNCHANGED OfJobs
      /\ Kinds!Next \/ UNCHANGED OfKinds
      /\ Secrets!Next \/ UNCHANGED OfSecrets
      /\ Registered!Next \/ UNCHANGED OfClients
      /\ Copied!Next \/ UNCHANGED OfCopies
      /\ Starts!Next \/ UNCHANGED OfStarts
      /\ Rejected!Next \/ UNCHANGED OfRejected
      /\ Passwords!Next \/ UNCHANGED OfLogins
      /\ Limited!Next \/ UNCHANGED OfLimited
  <2>1. CASE Next
    BY <2>1 DEF Next, Still
  <2>2. CASE UNCHANGED allVars
    BY <2>2 DEF allVars
  <2> QED BY <2>1, <2>2
<1> QED BY <1>1, WaitsStep, FlowsStep, JobsStep, KindsStep, EditsStep, ClientsStep, CopiesStep,
   StartsStep, FailuresStep, LoginsStep, LimitedStep DEF IInv

(* They hold at the start.                                                   *)
LEMMA InitTypesInv == Init => TypesInv
<1> SUFFICES ASSUME Init PROVE TypesInv
  OBVIOUS
<1>1. /\ MaxEvents \in Nat /\ MaxBootTime \in Nat /\ MaxStarts \in Nat /\ MaxAuthTime \in Nat
      /\ MaxRejections \in Nat /\ MaxSecond \in Nat /\ MaxCalls \in Nat /\ IsFiniteSet(Client)
  BY ResourcesAssumption
<1>2. WaitsTypes
  <2>1. /\ active = {} /\ cancelled = {} /\ inbox = [w \in Wait |-> <<>>] /\ sent = [w \in Wait |-> 0]
    BY DEF Init, Waits!Init
  <2>2. 0 \in 0 .. MaxEvents /\ Len(<<>>) <= 0 /\ \A S : <<>> \in Seq(S)
    BY <1>1
  <2> QED BY <2>1, <2>2 DEF WaitsTypes
<1>3. StartsBounds
  <2>1. bootTime = 0 /\ Len(begun) = 0
    BY DEF Init, Starts!Init
  <2> QED BY <1>1, <2>1 DEF StartsBounds
<1>4. RegsBound
  <2>1. begunRegs = 0
    BY DEF Init, Registered!Init
  <2>2. Cardinality(Client) \in Nat /\ Registered!MaxRegs = Cardinality(Client) + 1
    BY <1>1, FS_CardinalityType, Counting DEF Registered!MaxRegs
  <2> QED BY <2>1, <2>2 DEF RegsBound
<1>5. CopiesBounds
  <2>1. /\ current = [p \in Path |-> 1] /\ copies = {} /\ edit = [e \in Edit |-> Copied!Idle]
        /\ second = 0 /\ calls = 0 /\ taken = [p \in Path |-> <<>>] /\ replaced = {} /\ dropped = {}
    BY DEF Init, Copied!Init
  <2>2. Copied!Torn = MaxCalls + 2 /\ Copied!Idle.ver = 0 /\ Copied!Idle.stamp = 0
    BY DEF Copied!Torn, Copied!Idle, Copied!Rest
  <2>3. \A p \in Path : DOMAIN taken[p] = {}
    BY <2>1
  <2> QED BY <1>1, <2>1, <2>2, <2>3 DEF CopiesBounds
<1>6. Rejected!TypeOK
  <2>1. DOMAIN bucket = {} /\ authTime = 0 /\ caller = "nobody" /\ authCut = FALSE /\ rejections = 0
    BY DEF Init, Rejected!Init
  <2>2. \E known \in SUBSET Ip : DOMAIN bucket = known
    BY <2>1
  <2>3. authTime \in 0 .. MaxAuthTime /\ rejections \in 0 .. MaxRejections
    BY <1>1, <2>1
  <2>4. \A a \in DOMAIN bucket : bucket[a] # <<>> /\ \A n \in DOMAIN bucket[a] : bucket[a][n] \in 0 .. authTime
    BY <2>1
  <2> QED BY <2>1, <2>2, <2>3, <2>4 DEF Rejected!TypeOK
<1>7. part \in Parts
  BY DEF Init
<1> QED BY <1>2, <1>3, <1>4, <1>5, <1>6, <1>7 DEF TypesInv

(* Each part keeps its own.                                                  *)
LEMMA StepTypesInv == IInv /\ TypesInv /\ [Next]_allVars => TypesInv'
<1> SUFFICES ASSUME IInv, TypesInv, [Next]_allVars PROVE TypesInv'
  OBVIOUS
<1>1. /\ Waits!Next \/ UNCHANGED OfWaits
      /\ Starts!Next \/ UNCHANGED OfStarts
      /\ Registered!Next \/ UNCHANGED OfClients
      /\ Copied!Next \/ UNCHANGED OfCopies
      /\ Rejected!Next \/ UNCHANGED OfRejected
      /\ part' = part
  BY DEF Next, Still, Moves, allVars
<1> QED BY <1>1, WaitsTypesStep, StartsTypesStep, RegsStep, CopiesBoundsStep, FailuresTypesStep
        DEF IInv, TypesInv

(* The parts keep their invariants, for any number of calls, files, clients. *)
THEOREM Inductive == Spec => []IInv
BY InitIInv, StepIInv, PTL DEF Spec

(* The place of a wait is held by a call that runs, or by one that was cut   *)
(* short: wait_for_event.py.                                                 *)
THEOREM PlacesAreHeld == Spec => []Waits!PlacesHeld
<1>1. IInv => Waits!PlacesHeld
  BY DEF IInv, WaitsInv
<1> QED BY <1>1, Inductive, PTL

(* No flow is open that no client knows of, unless the answer to its opening *)
(* was lost or its abort failed: config_entry_flows.py.                      *)
THEOREM NoFlowIsOrphaned == Spec => []Openings!NoOrphans
<1>1. IInv => Openings!NoOrphans
  BY DEF IInv, FlowsInv
<1> QED BY <1>1, Inductive, PTL

(* A job that a client was told of is listed until it is an hour old and no  *)
(* longer, and as done once a client was told so, but for the jobs that a    *)
(* file that could not be read hid: _track_job, addons.py, and backups.py.   *)
THEOREM JobsAreKept == Spec => []Ledger!JobKept
<1>1. IInv => Ledger!JobKept
  <2> SUFFICES ASSUME IInv PROVE Ledger!JobKept
    OBVIOUS
  <2>1. \A j \in jobTold \ jobsMissed : jobSince[j] + JobKeep > jobTime => j \in Ledger!Listed
    <3> SUFFICES ASSUME NEW j \in jobTold \ jobsMissed, jobSince[j] + JobKeep > jobTime
                 PROVE  j \in Ledger!Listed
      OBVIOUS
    <3>1. j \in DOMAIN jobs /\ jobs[j].at = jobSince[j]
      BY DEF IInv, JobsInv, Ledger!TypeOK
    <3> QED BY <3>1 DEF Ledger!Listed, Ledger!Recent
  <2>2. \A j \in Ledger!Listed : jobSince[j] + JobKeep > jobTime
    BY DEF IInv, JobsInv, Ledger!Listed, Ledger!Recent
  <2>3. \A j \in (sawDone \ jobsMissed) \cap Ledger!Listed : jobs[j].done
    BY DEF IInv, JobsInv, Ledger!Listed, Ledger!Recent
  <2> QED BY <2>1, <2>2, <2>3 DEF Ledger!JobKept
<1> QED BY <1>1, Inductive, PTL

(* Places, flows and jobs together are given back or can be found, but for   *)
(* what the three theorems above except: wait_for_event.py,                  *)
(* config_entry_flows.py, addons.py.                                         *)
THEOREM NothingIsStranded == Spec => []NothingStranded
BY PlacesAreHeld, NoFlowIsOrphaned, JobsAreKept, PTL DEF NothingStranded

(* A dangerous script is in the set of those that ask, but for the windows   *)
(* that AutoRestricted names: _common.py, tools/ha.py.                       *)
THEOREM DangerousOnesAsk == Spec => []RestrictedAsks
<1>1. IInv => RestrictedAsks
  BY DEF IInv, KindsInv, RestrictedAsks
<1> QED BY <1>1, Inductive, PTL

(* secrets.yaml is one whole text with every secret whose write succeeded    *)
(* and none whose write failed, but for writes that overlap, whatever fails  *)
(* and whenever the process is killed: filesystem_write.py, fs_write.py.     *)
THEOREM SecretsStayWhole == Spec => []Secrets!FilesWhole
<1>1. IInv => Secrets!FilesWhole
  BY ResourcesAssumption DEF IInv, EditsInv, AloneInv, TextInv, Secrets!TypeOK,
     Secrets!FilesWhole, Secrets!Secrets
<1> QED BY <1>1, Inductive, PTL

(* A version that a tool replaced can be restored while its copy is within   *)
(* the limit, but for what FileBackups excepts: fs_write.py.                 *)
THEOREM CopiesAreKept == Spec => []Copied!CopiesKept
<1>1. IInv => Copied!CopiesKept
  <2> SUFFICES ASSUME IInv PROVE Copied!CopiesKept
    OBVIOUS
  <2>2. CopiesType /\ NumbersInv /\ ReplacedInv /\ \A e \in Edit : CallInv(e)
    BY DEF IInv, CopiesInv
  <2>3. ASSUME NEW r \in replaced
        PROVE  /\ \E n \in DOMAIN taken[r[1]] : taken[r[1]][n] = r[2]
               /\ LET n == Copied!LastOf(r[1], r[2]) IN
                    Copied!Within(r[1], n) /\ <<r[1], n>> \notin dropped =>
                      \E c \in copies : c.path = r[1] /\ c.n = n /\ c.ver = r[2]
    <3> DEFINE n == Copied!LastOf(r[1], r[2])
    <3>1. r[1] \in Path /\ WasTaken(r[1], r[2])
      BY <2>2 DEF ReplacedInv
    <3>2. n \in DOMAIN taken[r[1]] /\ taken[r[1]][n] = r[2]
      BY <2>2, <3>1, LastCopy
    <3> HIDE DEF n
    <3>3. Gone(r[1], n) \/ \E c \in copies : c.path = r[1] /\ c.n = n /\ c.ver = r[2]
      BY <2>2, <3>1, <3>2 DEF NumbersInv
    <3>4. Copied!Within(r[1], n) /\ <<r[1], n>> \notin dropped =>
            \E c \in copies : c.path = r[1] /\ c.n = n /\ c.ver = r[2]
      BY <3>3 DEF Gone
    <3> QED BY <3>2, <3>4 DEF n
  <2>4. \A e \in Edit : edit[e].step = "missing" =>
          <<edit[e].path, edit[e].n>> \in dropped \/ ~Copied!Within(edit[e].path, edit[e].n)
    BY <2>2 DEF CallInv, Gone
  <2> QED BY <2>3, <2>4 DEF Copied!CopiesKept
<1> QED BY <1>1, Inductive, PTL

(* secrets.yaml and the copies of versions survive together, but for what    *)
(* the two theorems above except: filesystem_write.py, fs_write.py.          *)
THEOREM FilesAreKept == Spec => []FilesSurvive
BY SecretsStayWhole, CopiesAreKept, PTL DEF FilesSurvive

(* There are never more clients than the limit, but for those whose file     *)
(* could not be deleted, and a client is told that it is unknown only after  *)
(* as many registrations as the limit: oauth.py.                             *)
THEOREM ClientsStay == Spec => []Registered!ClientsKept
<1>1. IInv => Registered!ClientsKept
  BY DEF IInv, ClientsInv
<1> QED BY <1>1, Inductive, PTL

(* As long as the log of starts is kept, no more starts than the threshold   *)
(* get past the guard within one window, and a start is refused only after   *)
(* as many: crash_loop.py, whatever is damaged and whenever it is killed.    *)
THEOREM StartsAreBounded == Spec => []Starts!StartsBounded
<1>1. IInv => Starts!StartsBounded
  BY DEF IInv, StartsInv
<1> QED BY <1>1, Inductive, PTL

(* The table of failed authentications exceeds its limit by one address at   *)
(* most, and an address with recent failures is forgotten only when nobody   *)
(* who stays, but the caller, has fewer: record_auth_failure, middleware.py. *)
THEOREM FloodsEvictThemselves == Spec => [][Rejected!FloodEvictsItself]_allVars
<1>1. IInv /\ [Next]_allVars => [Rejected!FloodEvictsItself]_allVars
  <2> SUFFICES ASSUME IInv, [Next]_allVars, ~UNCHANGED allVars PROVE Rejected!FloodEvictsItself
    OBVIOUS
  <2>1. Rejected!Next \/ UNCHANGED OfRejected
    BY DEF Next, Still
  <2> QED BY <2>1, FailuresStep DEF IInv
<1> QED BY <1>1, Inductive, PTL DEF Spec

(* Every part keeps the type of its state, and no count or clock passes its  *)
(* bound: EventWaits to FileBackups.                                         *)
THEOREM TypeCorrect == Spec => []TypeOK
<1>1. IInv /\ TypesInv => TypeOK
  <2> SUFFICES ASSUME IInv, TypesInv PROVE TypeOK
    OBVIOUS
  <2>1. Waits!TypeOK /\ Starts!TypeOK /\ Rejected!TypeOK /\ Registered!TypeOK /\ Copied!TypeOK
    BY WaitsTyped, StartsInBounds, ClientsTyped, CopiesTyped DEF IInv, TypesInv
  <2>2. Kinds!TypeOK /\ Openings!TypeOK /\ Ledger!TypeOK /\ Passwords!TypeOK /\ Limited!TypeOK /\ Secrets!TypeOK
    BY DEF IInv, KindsInv, FlowsInv, JobsInv, LoginsInv, LimitedInv, EditsInv
  <2> QED BY <2>1, <2>2 DEF TypeOK, TypesInv
<1> QED BY <1>1, InitTypesInv, StepTypesInv, Inductive, PTL DEF Spec

(* As long as one address alone fails to log in, its own lock holds it back  *)
(* and the one for all stays open, but for a count of all that began in the  *)
(* middle of its window: _lock_seconds, authorize_post, oauth.py.            *)
THEOREM OneAloneIsSlowed == Spec => []Passwords!OneAloneLocksItself
<1>1. IInv => Passwords!OneAloneLocksItself
  BY DEF IInv, LoginsInv
<1> QED BY <1>1, Inductive, PTL

(* Nobody who was not forgotten at the limit of the table is admitted to the *)
(* public paths more often than the limit within a window, or refused for    *)
(* more than was admitted: RateLimitPreAuth.dispatch, middleware.py.         *)
THEOREM PublicIsBounded == Spec => []Limited!PublicBounded
<1>1. IInv => Limited!PublicBounded
  BY LimitedBound DEF IInv
<1> QED BY <1>1, Inductive, PTL

(* The tables with a limit hold it, in every step: what the five theorems    *)
(* above say of each of them.                                                *)
THEOREM LimitsAreHeld == Spec => LimitsHold
BY FloodsEvictThemselves, PublicIsBounded, OneAloneIsSlowed, StartsAreBounded, ClientsStay, PTL
   DEF LimitsHold
===============================================================================
