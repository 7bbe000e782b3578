-------------------------- MODULE ConfigWritesProofs --------------------------
(***************************************************************************)
(* For any number of writers and checks, any limits and any crashes:       *)
(* sv_restart_core restarts only what was validated and the include cache  *)
(* follows the files, both up to the races ConfigWrites names; and the     *)
(* writes let through keep to the interval and the limit per minute.       *)
(*                                                                         *)
(* None is inductive.  The restart guard compares two numbers, so what     *)
(* the numbers mean has to be carried along: whoever records holds the     *)
(* lock and a true copy of the file (LockInv), and checkSeq >= writeSeq    *)
(* with no write on its way to be recorded says that this version passed,  *)
(* and so does a restart that was asked for (GuardInv).  The cache is as   *)
(* old as what a collection under way read (CacheInv).  The slots on disk  *)
(* are those that were let through, and who is about to save one holds     *)
(* the lock it found room under (SlotInv).                                 *)
(***************************************************************************)
EXTENDS ConfigWrites, FiniteSetTheorems, TLAPS

Recording(c) == at[c] \in {"recordingWrite", "recordingCheck"}

Pending == \E w \in Writer : Unrecorded(w) \/ at[w] = "recorded"

LockInv ==
  \A c \in Caller : Recording(c) =>
    stateLock = c /\ loaded[c] = [seq |-> seq, write |-> writeSeq, check |-> checkSeq]

GuardInv ==
  ~raced =>
    /\ restarted \in validated
    /\ (\A w \in Writer : ~Unrecorded(w)) /\ writeSeq <= checkSeq => version \in validated
    /\ \A c \in Checker : Passed(c) => version \in validated
    /\ asked => version \in validated

CacheInv == overtaken \/ {cached, collecting} \subseteq {None, version} \/ Pending

(* The file of slots says what was let through; whoever has the lock to save *)
(* adds one slot, of the time it loaded at, which is later than all others   *)
(* by the interval and finds room in its minute.                             *)
Within(S, t) == {u \in S : u <= t /\ t < u + Window}

Books(w, c) ==
  /\ draft[w] = slots \cup {c} /\ c \in 0 .. clock /\ c \in Time
  /\ \A t \in slots : t + MinInterval <= c
  /\ Cardinality({t \in slots : c < t + Window}) < MaxPerMinute

SlotInv ==
  /\ slots \subseteq 0 .. clock
  /\ \A t \in Time : taken[t] = IF t \in slots THEN 1 ELSE 0
  /\ \A t, u \in slots : t < u => t + MinInterval <= u
  /\ \A t \in Time : Cardinality(Within(slots, t)) <= MaxPerMinute
  /\ \A w \in Writer : at[w] = "reserving" => rateLock = w /\ \E c \in Time : Books(w, c)

IInv == TypeOK /\ LockInv /\ GuardInv /\ CacheInv /\ SlotInv

-------------------------------------------------------------------------------
(* The assumption in the form the steps use it.                              *)
LEMMA Constants ==
  /\ MaxClock \in Nat /\ MaxVersion \in Nat /\ 1 \in Version
  /\ Nobody \notin Caller
  /\ \A w \in Writer, c \in Checker : w # c
BY ConfigWritesAssumption DEF Caller, Version

(* Every step keeps the types; that a record does not set a sequence number  *)
(* ahead of _seq comes from LockInv.                                         *)
LEMMA TypeStep == TypeOK /\ LockInv /\ [Next]_vars => TypeOK'
<1> SUFFICES ASSUME TypeOK, LockInv, [Next]_vars PROVE TypeOK'
  OBVIOUS
<1> USE Constants
    DEF TypeOK, Caller, Time, Version, None, Places, Move, Nothing,
        stateVars, rateVars, cacheVars, history
<1>1. ASSUME NEW w \in Writer, LoadSlots(w) PROVE TypeOK'
  BY <1>1 DEF LoadSlots
<1>2. ASSUME NEW w \in Writer, SaveSlots(w) PROVE TypeOK'
  <2>. draft[w] \subseteq Time
    OBVIOUS
  <2>1. PICK t \in Time : taken' = [taken EXCEPT ![t] = @ + 1]
    BY <1>2 DEF SaveSlots
  <2>2. taken' \in [Time -> Nat]
    BY <2>1, SMTT(30)
  <2>. QED
    BY <1>2, <2>2 DEF SaveSlots
<1>3. ASSUME NEW w \in Writer, GiveUp(w) PROVE TypeOK'
  BY <1>3 DEF GiveUp
<1>4. ASSUME NEW w \in Writer, Write(w) PROVE TypeOK'
  BY <1>4, SMTT(30) DEF Write, Passed
<1>5. ASSUME NEW w \in Writer, BeginRecordWrite(w) PROVE TypeOK'
  BY <1>5 DEF BeginRecordWrite, LoadState
<1>6. ASSUME NEW w \in Writer, RecordWrite(w) PROVE TypeOK'
  <2>1. loaded[w] = [seq |-> seq, write |-> writeSeq, check |-> checkSeq]
    BY <1>6 DEF RecordWrite, LockInv, Recording
  <2>2. /\ seq' = seq + 1 /\ writeSeq' = seq + 1 /\ checkSeq' = checkSeq
    BY <1>6, <2>1 DEF RecordWrite, SaveState, NextSeq
  <2>3. seq' \in Nat /\ writeSeq' \in 0 .. seq' /\ checkSeq' \in 0 .. seq'
    BY <2>2
  <2>. QED
    BY <1>6, <2>3 DEF RecordWrite, SaveState
<1>7. ASSUME NEW w \in Writer, Invalidate(w) PROVE TypeOK'
  BY <1>7 DEF Invalidate
<1>8. ASSUME NEW w \in Writer, Abandon(w) PROVE TypeOK'
  BY <1>8 DEF Abandon
<1>9. ASSUME NEW c \in Checker, BeginCheck(c) PROVE TypeOK'
  BY <1>9 DEF BeginCheck
<1>10. ASSUME NEW c \in Checker, CheckPasses(c) PROVE TypeOK'
  BY <1>10 DEF CheckPasses
<1>11. ASSUME NEW c \in Checker, CheckFails(c) PROVE TypeOK'
  BY <1>11 DEF CheckFails
<1>12. ASSUME NEW c \in Checker, BeginRecordCheck(c) PROVE TypeOK'
  BY <1>12 DEF BeginRecordCheck, LoadState
<1>13. ASSUME NEW c \in Checker, RecordCheck(c) PROVE TypeOK'
  <2>1. loaded[c] = [seq |-> seq, write |-> writeSeq, check |-> checkSeq]
    BY <1>13 DEF RecordCheck, LockInv, Recording
  <2>2. /\ seq' = seq + 1 /\ checkSeq' = seq + 1 /\ writeSeq' = writeSeq
    BY <1>13, <2>1 DEF RecordCheck, SaveState, NextSeq
  <2>3. seq' \in Nat /\ writeSeq' \in 0 .. seq' /\ checkSeq' \in 0 .. seq'
    BY <2>2
  <2>. QED
    BY <1>13, <2>3 DEF RecordCheck, SaveState
<1>14. CASE Restart \/ Reload \/ RestartRefused
  BY <1>14 DEF Restart, Reload, RestartRefused, Unrecorded
<1>15. CASE Collect \/ StoreCollected
  BY <1>15 DEF Collect, StoreCollected
<1>16. CASE Crash
  BY <1>16 DEF Crash, Unrecorded
<1>17. CASE Tick
  BY <1>17 DEF Tick
<1>18. CASE UNCHANGED vars
  BY <1>18 DEF vars
<1> QED
  BY <1>1, <1>2, <1>3, <1>4, <1>5, <1>6, <1>7, <1>8, <1>9, <1>10, <1>11, <1>12, <1>13, <1>14,
     <1>15, <1>16, <1>17, <1>18 DEF Next

-------------------------------------------------------------------------------
(* While one caller records nobody else loads or saves.                      *)
LEMMA LockStep == TypeOK /\ LockInv /\ [Next]_vars => LockInv'
<1> SUFFICES ASSUME TypeOK, LockInv, [Next]_vars PROVE LockInv'
  OBVIOUS
<1>. /\ at \in [Caller -> Places] /\ stateLock \in Caller \cup {Nobody}
     /\ loaded \in [Caller -> [seq : Nat, write : Nat, check : Nat]]
  BY DEF TypeOK
<1> USE Constants
    DEF LockInv, Recording, Caller, Move, stateVars, rateVars, cacheVars, history
<1>1. ASSUME NEW w \in Writer, LoadSlots(w) \/ SaveSlots(w) \/ GiveUp(w) \/ Write(w)
                                \/ Invalidate(w)
      PROVE  LockInv'
  BY <1>1 DEF LoadSlots, SaveSlots, GiveUp, Write, Invalidate
<1>2. ASSUME NEW w \in Writer, BeginRecordWrite(w) PROVE LockInv'
  BY <1>2 DEF BeginRecordWrite, LoadState
<1>3. ASSUME NEW w \in Writer, RecordWrite(w) PROVE LockInv'
  BY <1>3 DEF RecordWrite, SaveState
<1>4. ASSUME NEW w \in Writer, Abandon(w) PROVE LockInv'
  BY <1>4 DEF Abandon
<1>5. ASSUME NEW c \in Checker, BeginCheck(c) \/ CheckPasses(c) \/ CheckFails(c) PROVE LockInv'
  BY <1>5 DEF BeginCheck, CheckPasses, CheckFails
<1>6. ASSUME NEW c \in Checker, BeginRecordCheck(c) PROVE LockInv'
  BY <1>6 DEF BeginRecordCheck, LoadState
<1>7. ASSUME NEW c \in Checker, RecordCheck(c) PROVE LockInv'
  BY <1>7 DEF RecordCheck, SaveState
<1>8. CASE Restart \/ Reload \/ RestartRefused \/ Collect \/ StoreCollected \/ Tick
  BY <1>8 DEF Restart, Reload, RestartRefused, Collect, StoreCollected, Tick
<1>9. CASE Crash
  BY <1>9 DEF Crash
<1>10. CASE UNCHANGED vars
  BY <1>10 DEF vars
<1> QED
  BY <1>1, <1>2, <1>3, <1>4, <1>5, <1>6, <1>7, <1>8, <1>9, <1>10 DEF Next

-------------------------------------------------------------------------------
(* Only a record of a check lets the guard open again, and it comes after a  *)
(* verdict on this version or on a version that a write then changed.        *)
LEMMA GuardStep == TypeOK /\ LockInv /\ GuardInv /\ [Next]_vars => GuardInv'
<1> SUFFICES ASSUME TypeOK, LockInv, GuardInv, [Next]_vars PROVE GuardInv'
  OBVIOUS
<1>. /\ at \in [Caller -> Places] /\ seq \in Nat /\ writeSeq \in 0 .. seq /\ checkSeq \in 0 .. seq
     /\ raced \in BOOLEAN /\ asked \in BOOLEAN
  BY DEF TypeOK
<1> USE Constants
    DEF GuardInv, Unrecorded, Passed, Caller, Move, stateVars, rateVars, cacheVars,
        history
<1>1. ASSUME NEW w \in Writer, LoadSlots(w) \/ SaveSlots(w) \/ GiveUp(w) \/ Invalidate(w)
      PROVE  GuardInv'
  BY <1>1 DEF LoadSlots, SaveSlots, GiveUp, Invalidate
<1>2. ASSUME NEW w \in Writer, Write(w) PROVE GuardInv'
  BY <1>2 DEF Write
<1>3. ASSUME NEW w \in Writer, BeginRecordWrite(w) PROVE GuardInv'
  BY <1>3 DEF BeginRecordWrite, LoadState
<1>4. ASSUME NEW w \in Writer, RecordWrite(w) PROVE GuardInv'
  <2>1. loaded[w] = [seq |-> seq, write |-> writeSeq, check |-> checkSeq]
    BY <1>4 DEF RecordWrite, LockInv, Recording
  <2>2. writeSeq' = seq + 1 /\ checkSeq' = checkSeq
    BY <1>4, <2>1 DEF RecordWrite, NextSeq
  <2>3. ~(writeSeq' <= checkSeq')
    BY <2>2
  <2>. QED
    BY <1>4, <2>3 DEF RecordWrite, SaveState
<1>5. ASSUME NEW w \in Writer, Abandon(w) PROVE GuardInv'
  BY <1>5 DEF Abandon
<1>6. ASSUME NEW c \in Checker, BeginCheck(c) \/ CheckFails(c) PROVE GuardInv'
  BY <1>6 DEF BeginCheck, CheckFails
<1>7. ASSUME NEW c \in Checker, CheckPasses(c) PROVE GuardInv'
  BY <1>7 DEF CheckPasses
<1>8. ASSUME NEW c \in Checker, BeginRecordCheck(c) PROVE GuardInv'
  BY <1>8 DEF BeginRecordCheck, LoadState
<1>9. ASSUME NEW c \in Checker, RecordCheck(c) PROVE GuardInv'
  BY <1>9 DEF RecordCheck, SaveState
<1>10. CASE Restart
  BY <1>10 DEF Restart
<1>11. CASE Reload \/ RestartRefused
  BY <1>11 DEF Reload, RestartRefused
<1>12. CASE Collect \/ StoreCollected \/ Tick
  BY <1>12 DEF Collect, StoreCollected, Tick
<1>13. CASE Crash
  BY <1>13 DEF Crash
<1>14. CASE UNCHANGED vars
  BY <1>14 DEF vars
<1> QED
  BY <1>1, <1>2, <1>3, <1>4, <1>5, <1>6, <1>7, <1>8, <1>9, <1>10, <1>11, <1>12, <1>13, <1>14 DEF Next

-------------------------------------------------------------------------------
(* A write is pending until it invalidates, and then nothing is cached.      *)
LEMMA CacheStep == TypeOK /\ CacheInv /\ [Next]_vars => CacheInv'
<1> SUFFICES ASSUME TypeOK, CacheInv, [Next]_vars PROVE CacheInv'
  OBVIOUS
<1>. at \in [Caller -> Places] /\ overtaken \in BOOLEAN
  BY DEF TypeOK
<1> USE Constants
    DEF CacheInv, Pending, Unrecorded, Caller, Move, stateVars, rateVars, cacheVars,
        history
<1>1. ASSUME NEW w \in Writer, LoadSlots(w) \/ SaveSlots(w) \/ GiveUp(w) PROVE CacheInv'
  BY <1>1 DEF LoadSlots, SaveSlots, GiveUp
<1>2. ASSUME NEW w \in Writer, Write(w) PROVE CacheInv'
  BY <1>2 DEF Write
<1>3. ASSUME NEW w \in Writer, BeginRecordWrite(w) \/ RecordWrite(w) PROVE CacheInv'
  BY <1>3 DEF BeginRecordWrite, RecordWrite, LoadState, SaveState
<1>4. ASSUME NEW w \in Writer, Invalidate(w) PROVE CacheInv'
  BY <1>4 DEF Invalidate
<1>5. ASSUME NEW w \in Writer, Abandon(w) PROVE CacheInv'
  BY <1>5 DEF Abandon
<1>6. ASSUME NEW c \in Checker, BeginCheck(c) \/ CheckPasses(c) \/ CheckFails(c)
                                  \/ BeginRecordCheck(c) \/ RecordCheck(c)
      PROVE  CacheInv'
  BY <1>6 DEF BeginCheck, CheckPasses, CheckFails, BeginRecordCheck, RecordCheck, LoadState,
              SaveState
<1>7. CASE Restart \/ Reload \/ RestartRefused \/ Tick
  BY <1>7 DEF Restart, Reload, RestartRefused, Tick
<1>8. CASE Collect \/ StoreCollected
  BY <1>8 DEF Collect, StoreCollected
<1>9. CASE Crash
  BY <1>9 DEF Crash
<1>10. CASE UNCHANGED vars
  BY <1>10 DEF vars
<1> QED
  BY <1>1, <1>2, <1>3, <1>4, <1>5, <1>6, <1>7, <1>8, <1>9, <1>10 DEF Next

-------------------------------------------------------------------------------
(* The numbers the slots are compared with.                                  *)
LEMMA SlotConstants ==
  /\ MinInterval \in Nat \ {0} /\ Window \in Nat \ {0} /\ MaxPerMinute \in Nat \ {0}
  /\ MinInterval <= Window /\ MaxClock \in Nat
  /\ \A w \in Writer : w # Nobody
BY ConfigWritesAssumption DEF Caller

LEMMA SlotsFinite ==
  ASSUME NEW S \in SUBSET Time
  PROVE  IsFiniteSet(S) /\ Cardinality(S) \in Nat
  <1>1. IsFiniteSet(Time)
    BY SlotConstants, FS_Interval DEF Time
  <1>2. IsFiniteSet(S)
    BY <1>1, FS_Subset
  <1> QED
    BY <1>2, FS_CardinalityType

(* Whoever loads finds the minute not full and the last slot long ago.       *)
LEMMA LoadBooks ==
  ASSUME TypeOK, SlotInv, NEW w \in Writer, LoadSlots(w)
  PROVE  Books(w, clock)'
  <1>1. /\ clock \in Time /\ clock \in Nat /\ slots \subseteq Time /\ \A t \in slots : t \in Nat
        /\ \A t \in slots : t <= clock
    BY SlotConstants DEF TypeOK, Time, SlotInv
  <1>2. ASSUME NEW t \in slots PROVE t + MinInterval <= clock
    <2>1. CASE clock < t + Window
      BY <2>1 DEF LoadSlots, Allowed, Recent
    <2>2. CASE ~(clock < t + Window)
      BY <1>1, <2>2, SlotConstants
    <2> QED
      BY <2>1, <2>2
  <1>3. Cardinality({t \in slots : clock < t + Window}) < MaxPerMinute
    BY DEF LoadSlots, Allowed, Recent
  <1>4. draft'[w] = slots \cup {clock} /\ clock' = clock /\ slots' = slots /\ clock \in 0 .. clock
    BY <1>1 DEF LoadSlots, TypeOK
  <1> QED
    BY <1>1, <1>2, <1>3, <1>4 DEF Books

(* A slot that is added is the last, and those of its minute have room.      *)
LEMMA CountStays ==
  ASSUME NEW S \in SUBSET Time, NEW c \in Time, NEW t \in Time,
         \A u \in S : u + MinInterval <= c,
         Cardinality({u \in S : c < u + Window}) < MaxPerMinute,
         Cardinality(Within(S, t)) <= MaxPerMinute
  PROVE  Cardinality(Within(S \cup {c}, t)) <= MaxPerMinute
  <1>1. t \in Nat /\ c \in Nat /\ \A u \in S : u \in Nat
    BY SlotConstants DEF Time
  <1>2. CASE t < c
    <2>1. Within(S \cup {c}, t) = Within(S, t)
      BY <1>1, <1>2 DEF Within
    <2> QED
      BY <2>1
  <1>3. CASE ~(t < c)
    <2> DEFINE R == {u \in S : c < u + Window}
    <2>1. R \in SUBSET Time /\ R \cup {c} \in SUBSET Time
      OBVIOUS
    <2>2. Within(S \cup {c}, t) \subseteq R \cup {c}
      <3>1. ASSUME NEW u \in Within(S \cup {c}, t), u # c PROVE u \in R
        <4>1. u \in S /\ t < u + Window /\ c <= t /\ u \in Nat
          BY <1>1, <1>3, <3>1 DEF Within
        <4>. QED
          BY <1>1, <4>1, SlotConstants
      <3>. QED
        BY <3>1
    <2>3. c \notin R
      BY <1>1, SlotConstants
    <2> HIDE DEF R
    <2>4. /\ IsFiniteSet(R) /\ Cardinality(R) \in Nat /\ IsFiniteSet(R \cup {c})
          /\ Cardinality(R \cup {c}) \in Nat
      BY <2>1, SlotsFinite
    <2>5. Cardinality(R \cup {c}) = Cardinality(R) + 1
      BY <2>3, <2>4, FS_AddElement
    <2>6. Cardinality(Within(S \cup {c}, t)) <= Cardinality(R \cup {c})
      BY <2>2, <2>4, FS_Subset
    <2>7. Cardinality(Within(S \cup {c}, t)) \in Nat
      BY <2>1, <2>2, SlotsFinite
    <2>8. Cardinality(R) < MaxPerMinute
      BY DEF R
    <2> QED
      BY <2>4, <2>5, <2>6, <2>7, <2>8, SlotConstants
  <1> QED
    BY <1>2, <1>3

LEMMA SlotStep == TypeOK /\ SlotInv /\ [Next]_vars => SlotInv'
<1> SUFFICES ASSUME TypeOK, SlotInv, [Next]_vars PROVE SlotInv'
  OBVIOUS
<1>0. /\ at \in [Caller -> Places] /\ draft \in [Writer -> SUBSET Time]
      /\ Writer \subseteq Caller /\ clock \in Nat /\ slots \in SUBSET Time
      /\ taken \in [Time -> Nat] /\ \A t \in Time : t \in Nat
  BY SlotConstants DEF TypeOK, Caller, Time
<1> USE DEF Caller, Move, stateVars, rateVars, cacheVars, history
<1>1. ASSUME UNCHANGED <<clock, slots, rateLock, draft, taken>>,
             \A w \in Writer : at'[w] = "reserving" => at[w] = "reserving"
      PROVE  SlotInv'
  BY <1>1 DEF SlotInv, Books, Within
<1>2. ASSUME NEW w \in Writer, LoadSlots(w) PROVE SlotInv'
  <2>1. Books(w, clock)' /\ clock \in Time
    BY <1>2, LoadBooks DEF TypeOK
  <2>2. \A v \in Writer : at'[v] = "reserving" => v = w
    BY <1>0, <1>2, SlotConstants DEF LoadSlots, SlotInv
  <2>3. UNCHANGED <<clock, slots, taken>> /\ rateLock' = w
    BY <1>2 DEF LoadSlots
  <2>4. \E c \in Time : Books(w, c)'
    BY <2>1, <2>3 DEF Books
  <2> QED
    BY <2>2, <2>3, <2>4 DEF SlotInv, Within
<1>3. ASSUME NEW w \in Writer, SaveSlots(w) PROVE SlotInv'
  <2>1. PICK c \in Time : Books(w, c) /\ rateLock = w
    BY <1>3 DEF SaveSlots, SlotInv
  <2>2. /\ slots' = slots \cup {c} /\ clock' = clock /\ c \in 0 .. clock /\ c \notin slots
        /\ \A t \in slots : t < c /\ t + MinInterval <= c
    <3>1. \A t \in slots : t + MinInterval <= c /\ t \in Nat
      BY <1>0, <2>1 DEF Books
    <3>2. \A t \in slots : t < c
      BY <1>0, <3>1, SlotConstants
    <3> QED
      BY <1>0, <1>3, <2>1, <3>1, <3>2 DEF SaveSlots, Books
  <2>3. taken' = [taken EXCEPT ![c] = @ + 1]
    <3>1. PICK t \in draft[w] : /\ \A u \in draft[w] : u <= t
                                /\ taken' = [taken EXCEPT ![t] = @ + 1]
      BY <1>3 DEF SaveSlots
    <3>2. t \in slots \cup {c} /\ c <= t
      BY <2>1, <3>1 DEF Books
    <3>3. t = c
      BY <1>0, <2>2, <3>2
    <3> QED
      BY <3>1, <3>3
  <2>4. \A t \in Time : taken'[t] = IF t \in slots' THEN 1 ELSE 0
    BY <1>0, <2>2, <2>3 DEF SlotInv
  <2>5. \A t, u \in slots' : t < u => t + MinInterval <= u
    BY <1>0, <2>2 DEF SlotInv
  <2>6. \A t \in Time : Cardinality(Within(slots', t)) <= MaxPerMinute
    <3>1. \A t \in Time : Cardinality(Within(slots, t)) <= MaxPerMinute
      BY DEF SlotInv
    <3>2. Cardinality({u \in slots : c < u + Window}) < MaxPerMinute
      BY <2>1 DEF Books
    <3>3. \A t \in Time : Cardinality(Within(slots \cup {c}, t)) <= MaxPerMinute
      BY <1>0, <2>2, <3>1, <3>2, CountStays
    <3> QED
      BY <2>2, <3>3
  <2>7. \A v \in Writer : at'[v] # "reserving"
    BY <1>0, <1>3, <2>1 DEF SaveSlots, SlotInv
  <2>8. slots' \subseteq 0 .. clock'
    BY <2>2 DEF SlotInv
  <2> QED
    BY <2>4, <2>5, <2>6, <2>7, <2>8 DEF SlotInv, Within
<1>4. ASSUME NEW w \in Writer, GiveUp(w) \/ Write(w) PROVE SlotInv'
  BY <1>0, <1>1, <1>4 DEF GiveUp, Write
<1>5. ASSUME NEW w \in Writer, BeginRecordWrite(w) \/ RecordWrite(w) PROVE SlotInv'
  BY <1>0, <1>1, <1>5 DEF BeginRecordWrite, RecordWrite, LoadState, SaveState
<1>6. ASSUME NEW w \in Writer, Invalidate(w) \/ Abandon(w) PROVE SlotInv'
  BY <1>0, <1>1, <1>6 DEF Invalidate, Abandon
<1>7. ASSUME NEW c \in Checker, BeginCheck(c) \/ CheckPasses(c) \/ CheckFails(c) PROVE SlotInv'
  BY <1>0, <1>1, <1>7 DEF BeginCheck, CheckPasses, CheckFails
<1>8. ASSUME NEW c \in Checker, BeginRecordCheck(c) \/ RecordCheck(c) PROVE SlotInv'
  BY <1>0, <1>1, <1>8 DEF BeginRecordCheck, RecordCheck, LoadState, SaveState
<1>9. CASE Restart \/ Reload \/ RestartRefused \/ Collect \/ StoreCollected
  BY <1>1, <1>9 DEF Restart, Reload, RestartRefused, Collect, StoreCollected
<1>10. CASE Crash
  <2>1. UNCHANGED <<clock, slots, taken>> /\ \A w \in Writer : at'[w] # "reserving"
    BY <1>10 DEF Crash
  <2> QED
    BY <2>1 DEF SlotInv, Within
<1>11. CASE Tick
  <2>1. clock' = clock + 1 /\ UNCHANGED <<slots, rateLock, draft, taken, at>>
    BY <1>11 DEF Tick
  <2>2. \A n : n \in 0 .. clock => n \in 0 .. clock'
    BY <1>0, <2>1
  <2>3. \A w, c : Books(w, c) => Books(w, c)'
    BY <2>1, <2>2 DEF Books
  <2> QED
    BY <2>1, <2>2, <2>3 DEF SlotInv, Within
<1>12. CASE UNCHANGED vars
  BY <1>1, <1>12 DEF vars
<1> QED
  BY <1>2, <1>3, <1>4, <1>5, <1>6, <1>7, <1>8, <1>9, <1>10, <1>11, <1>12 DEF Next

-------------------------------------------------------------------------------
(* A fresh installation: nothing written, one version, and it is the first.  *)
LEMMA InductiveInit == Init => IInv
<1> SUFFICES ASSUME Init PROVE IInv
  OBVIOUS
<1> USE Constants
    DEF Init
<1>1. TypeOK
  <2>1. clock \in Time
    BY DEF Time
  <2>2. seq \in Nat /\ writeSeq \in 0 .. seq /\ checkSeq \in 0 .. seq
    OBVIOUS
  <2>3. version \in Version /\ restarted \in Version /\ validated \in SUBSET Version
    OBVIOUS
  <2>4. loaded \in [Caller -> [seq : Nat, write : Nat, check : Nat]]
    BY DEF Nothing
  <2>5. at \in [Caller -> Places] /\ draft \in [Writer -> SUBSET Time] /\ taken \in [Time -> Nat]
    BY DEF Places
  <2>. QED
    BY <2>1, <2>2, <2>3, <2>4, <2>5 DEF TypeOK, None
<1>2. LockInv
  BY DEF LockInv, Recording
<1>3. GuardInv
  BY DEF GuardInv, Passed, Caller
<1>4. CacheInv
  BY DEF CacheInv
<1>5. SlotInv
  <2>1. Cardinality({}) = 0
    BY FS_EmptySet
  <2>2. \A t \in Time : Within({}, t) = {}
    BY DEF Within
  <2>3. \A t \in Time : Cardinality(Within({}, t)) <= MaxPerMinute
    BY <2>1, <2>2, SlotConstants
  <2>. QED
    BY <2>3, SlotConstants DEF SlotInv, Caller
<1>. QED
  BY <1>1, <1>2, <1>3, <1>4, <1>5 DEF IInv

(* The five parts together are inductive.                                    *)
THEOREM Inductive == Spec => []IInv
<1>1. IInv /\ [Next]_vars => IInv'
  BY TypeStep, LockStep, GuardStep, CacheStep, SlotStep DEF IInv
<1>. QED
  BY InductiveInit, <1>1, PTL DEF Spec

(* Every variable keeps to its type, and the two sequence numbers of the     *)
(* logical clock never run ahead of it.                                      *)
THEOREM TypeCorrect == Spec => []TypeOK
<1>1. IInv => TypeOK
  BY DEF IInv
<1>. QED
  BY <1>1, Inductive, PTL

(* sv_restart_core restarts only a validated configuration, up to the races  *)
(* RestartGuarded names (fs_write.py 546-658).                               *)
THEOREM RestartGuardedHolds == Spec => []RestartGuarded
<1>1. IInv => RestartGuarded
  BY DEF IInv, GuardInv, RestartGuarded
<1>. QED
  BY <1>1, Inductive, PTL

(* The include cache follows the files, up to the races CacheFollows names   *)
(* (yaml_include.py 59-63, 321-338).                                         *)
THEOREM CacheFollowsHolds == Spec => []CacheFollows
<1>1. IInv => CacheFollows
  BY DEF IInv, CacheInv, Pending, CacheFollows
<1>. QED
  BY <1>1, Inductive, PTL

(* However many writers come at once, and whatever crashed: the writes let   *)
(* through are MinInterval apart, and no sliding minute holds more than      *)
(* MaxPerMinute of them (fs_write.py 454-476).                               *)
THEOREM SlotsAreRespected == Spec => []SlotsRespected
<1>1. IInv => SlotsRespected
  <2> SUFFICES ASSUME IInv PROVE SlotsRespected
    OBVIOUS
  <2>1. SlotInv /\ slots \subseteq Time /\ \A t \in Time : t \in Nat
    BY SlotConstants DEF IInv, TypeOK, Time
  <2>2. \A t \in Time : taken[t] <= 1 /\ (taken[t] > 0 <=> t \in slots)
    BY <2>1 DEF SlotInv
  <2>3. \A t, u \in Time : taken[t] > 0 /\ taken[u] > 0 /\ t < u => t + MinInterval <= u
    BY <2>1, <2>2 DEF SlotInv
  <2>4. ASSUME NEW t \in Time
        PROVE  Cardinality({u \in Time : taken[u] > 0 /\ u <= t /\ t < u + Window}) <= MaxPerMinute
    <3>1. {u \in Time : taken[u] > 0 /\ u <= t /\ t < u + Window} = Within(slots, t)
      BY <2>1, <2>2 DEF Within
    <3>. QED
      BY <2>1, <3>1 DEF SlotInv
  <2>. QED
    BY <2>2, <2>3, <2>4 DEF SlotsRespected
<1>. QED
  BY <1>1, Inductive, PTL
===============================================================================
