-------------------------- MODULE SafetyBackupsProofs --------------------------
(***************************************************************************)
(* What holds of safety backups for any number of calls and writes, every  *)
(* interval, window and deadline.                                          *)
(***************************************************************************)
EXTENDS SafetyBackups, TLAPS

(* A clock that a mark of 0 is old for; what a call did before it asked and  *)
(* before it ended.                                                          *)
CallInv ==
  /\ clock >= Window + MinInterval
  /\ \A c \in Call :
       /\ pc[c] = "new" => asked[c] = 0 /\ sv[c] = "none"
       /\ pc[c] \in {"asked", "polling"} => asked[c] # 0
       /\ recorded[c] # 0 => pc[c] = "over" /\ asked[c] # 0

(* A call that overlapped with none was over before the pending one asked.   *)
LoneInv ==
  \A c \in Call, d \in Pending :
    c # d /\ c \notin overlapped /\ asked[c] # 0 => pc[c] = "over" /\ asked[c] <= asked[d]

(* The mark is not older than any call that overlapped with none.            *)
MarkInv ==
  \A c \in Call : recorded[c] # 0 /\ c \notin overlapped => asked[c] <= mark

(* The mark is the tool's, or of a write whose job has ended or that was     *)
(* answered without one.                                                     *)
CoverInv ==
  mark # 0 => \E d \in Call : recorded[d] = mark /\ (d \in Tool \cup plain \/ Done(d))

IInv == TypeOK /\ CallInv /\ LoneInv /\ MarkInv /\ CoverInv /\ Spaced

--------------------------------------------------------------------------------
(* The steps that change neither clock, mark nor what a call asked for and   *)
(* recorded, and under which a call at most ends.                            *)
Quiet ==
  /\ UNCHANGED <<clock, mark, asked, recorded, overlapped>>
  /\ \A c \in Call : pc'[c] = pc[c] \/ (pc[c] # "over" /\ pc'[c] = "over")
                     \/ (pc[c] = "asked" /\ pc'[c] = "polling")

(* Every step keeps the types.                                               *)
LEMMA TypeStep == TypeOK /\ [Next]_vars => TypeOK'
  <1> SUFFICES ASSUME TypeOK, [Next]_vars PROVE TypeOK'
    OBVIOUS
  <1> USE SafetyBackupsAssumption
  <1>1. CASE UNCHANGED vars
    BY <1>1 DEF TypeOK, vars, callVars, svVars
  <1>2. ASSUME NEW c \in Call, Reuse(c) PROVE TypeOK'
    BY <1>2 DEF TypeOK, Reuse, svVars
  <1>3. ASSUME NEW c \in Call, Ask(c) PROVE TypeOK'
    <2>1. overlapped' \subseteq Call
      BY <1>3 DEF TypeOK, Ask, Pending
    <2> QED
      BY <1>3, <2>1 DEF TypeOK, Ask
  <1>4. ASSUME NEW c \in Call, Answered(c) PROVE TypeOK'
    BY <1>4 DEF TypeOK, Answered, Record, svVars
  <1>5. ASSUME NEW c \in Call, StartPolling(c) PROVE TypeOK'
    <2>1. clock + PollTime \in 0 .. MaxClock
      BY <1>5 DEF TypeOK, StartPolling
    <2> QED
      BY <1>5, <2>1 DEF TypeOK, StartPolling, svVars
  <1>6. ASSUME NEW c \in Call, AnsweredPlain(c) \/ SeenDone(c) PROVE TypeOK'
    BY <1>6 DEF TypeOK, AnsweredPlain, SeenDone, Record, svVars
  <1>7. ASSUME NEW c \in Call, PollTimeout(c) \/ GiveUp(c) PROVE TypeOK'
    BY <1>7 DEF TypeOK, PollTimeout, GiveUp, svVars
  <1>8. ASSUME NEW c \in Call, SvTake(c) \/ SvFinish(c) \/ SvFail(c) PROVE TypeOK'
    BY <1>8 DEF TypeOK, SvTake, SvFinish, SvFail, callVars
  <1>9. CASE Crash
    BY <1>9 DEF TypeOK, Crash, svVars
  <1>10. CASE Tick
    <2>1. clock' \in 0 .. MaxClock /\ 0 .. clock \subseteq 0 .. clock'
      BY <1>10 DEF TypeOK, Tick
    <2> QED
      BY <1>10, <2>1 DEF TypeOK, Tick, callVars, svVars
  <1> QED
    BY <1>1, <1>2, <1>3, <1>4, <1>5, <1>6, <1>7, <1>8, <1>9, <1>10 DEF Next

(* What is not an Ask, a record or a tick is quiet.                          *)
LEMMA QuietSteps ==
  ASSUME TypeOK, [Next]_vars
  PROVE  \/ \E c \in Call : Ask(c) \/ Answered(c) \/ AnsweredPlain(c) \/ SeenDone(c)
         \/ Tick
         \/ Quiet
  <1>1. CASE UNCHANGED vars
    BY <1>1 DEF vars, callVars, Quiet
  <1>2. ASSUME NEW c \in Call, Reuse(c) \/ StartPolling(c) \/ PollTimeout(c) \/ GiveUp(c)
        PROVE  Quiet
    BY <1>2 DEF TypeOK, Quiet, Reuse, StartPolling, PollTimeout, GiveUp, Pending
  <1>3. ASSUME NEW c \in Call, SvTake(c) \/ SvFinish(c) \/ SvFail(c) PROVE Quiet
    BY <1>3 DEF Quiet, SvTake, SvFinish, SvFail, callVars
  <1>4. CASE Crash
    BY <1>4 DEF TypeOK, Quiet, Crash, Pending
  <1> QED
    BY <1>1, <1>2, <1>3, <1>4 DEF Next

(* Every step keeps what a call did before it asked and before it ended.     *)
LEMMA CallStep == TypeOK /\ CallInv /\ [Next]_vars => CallInv'
  <1> SUFFICES ASSUME TypeOK, CallInv, [Next]_vars PROVE CallInv'
    OBVIOUS
  <1> USE SafetyBackupsAssumption
  <1>1. CASE UNCHANGED vars
    BY <1>1 DEF CallInv, vars, callVars, svVars
  <1>2. ASSUME NEW c \in Call, Reuse(c) PROVE CallInv'
    BY <1>2 DEF TypeOK, CallInv, Reuse, svVars
  <1>3. ASSUME NEW c \in Call, Ask(c) PROVE CallInv'
    BY <1>3 DEF TypeOK, CallInv, Ask
  <1>4. ASSUME NEW c \in Call, Answered(c) \/ AnsweredPlain(c) \/ SeenDone(c) PROVE CallInv'
    BY <1>4 DEF TypeOK, CallInv, Answered, AnsweredPlain, SeenDone, Record, svVars
  <1>5. ASSUME NEW c \in Call, StartPolling(c) \/ PollTimeout(c) \/ GiveUp(c) PROVE CallInv'
    BY <1>5 DEF TypeOK, CallInv, StartPolling, PollTimeout, GiveUp, Pending, svVars
  <1>6. ASSUME NEW c \in Call, SvTake(c) \/ SvFinish(c) \/ SvFail(c) PROVE CallInv'
    BY <1>6 DEF TypeOK, CallInv, SvTake, SvFinish, SvFail, callVars
  <1>7. CASE Crash
    BY <1>7 DEF TypeOK, CallInv, Crash, Pending, svVars
  <1>8. CASE Tick
    BY <1>8 DEF TypeOK, CallInv, Tick, callVars, svVars
  <1> QED
    BY <1>1, <1>2, <1>3, <1>4, <1>5, <1>6, <1>7, <1>8 DEF Next

(* Who asks while nobody is pending overlaps with nobody.                    *)
LEMMA LoneStep == TypeOK /\ CallInv /\ LoneInv /\ [Next]_vars => LoneInv'
  <1> SUFFICES ASSUME TypeOK, CallInv, LoneInv, [Next]_vars PROVE LoneInv'
    OBVIOUS
  <1>1. CASE Quiet
    <2>1. Pending' \subseteq Pending
      BY <1>1 DEF TypeOK, Quiet, Pending
    <2> QED
      BY <1>1, <2>1 DEF TypeOK, LoneInv, Quiet
  <1>2. ASSUME NEW a \in Call, Ask(a) PROVE LoneInv'
    <2>1. Pending' = Pending \cup {a} /\ a \notin Pending
      BY <1>2 DEF TypeOK, Ask, Pending
    <2>2. SUFFICES ASSUME NEW c \in Call, NEW d \in Pending', c # d, c \notin overlapped', asked'[c] # 0
                   PROVE  pc'[c] = "over" /\ asked'[c] <= asked'[d]
      BY DEF LoneInv
    <2>3. CASE c = a
      BY <1>2, <2>1, <2>2, <2>3 DEF Ask
    <2>4. CASE c # a /\ d = a
      <3>1. pc[c] = "over" /\ asked[c] \in 0 .. clock
        BY <1>2, <2>2, <2>4 DEF TypeOK, CallInv, Ask, Pending
      <3> QED
        BY <1>2, <2>4, <3>1 DEF TypeOK, Ask
    <2>5. CASE c # a /\ d # a
      BY <1>2, <2>1, <2>2, <2>5 DEF TypeOK, LoneInv, Ask
    <2> QED
      BY <2>3, <2>4, <2>5
  <1>3. ASSUME NEW a \in Call, Answered(a) \/ AnsweredPlain(a) \/ SeenDone(a) PROVE LoneInv'
    <2>1. Pending' \subseteq Pending /\ \A c \in Call : pc[c] = "over" => pc'[c] = "over"
      BY <1>3 DEF TypeOK, Answered, AnsweredPlain, SeenDone, Record, Pending
    <2>2. UNCHANGED <<asked, overlapped>>
      BY <1>3 DEF Answered, AnsweredPlain, SeenDone
    <2> QED
      BY <2>1, <2>2 DEF LoneInv
  <1>4. CASE Tick
    BY <1>4 DEF LoneInv, Tick, callVars, Pending
  <1> QED
    BY <1>1, <1>2, <1>3, <1>4, QuietSteps

(* Marks are set back only past calls that overlapped.                       *)
LEMMA MarkStep == TypeOK /\ CallInv /\ LoneInv /\ MarkInv /\ [Next]_vars => MarkInv'
  <1> SUFFICES ASSUME TypeOK, CallInv, LoneInv, MarkInv, [Next]_vars PROVE MarkInv'
    OBVIOUS
  <1>1. CASE Quiet \/ Tick
    BY <1>1 DEF MarkInv, Quiet, Tick, callVars
  <1>2. ASSUME NEW a \in Call, Ask(a) PROVE MarkInv'
    <2>1. recorded[a] = 0 /\ overlapped \subseteq overlapped'
      BY <1>2 DEF CallInv, Ask
    <2> QED
      BY <1>2, <2>1 DEF TypeOK, MarkInv, Ask
  <1>3. ASSUME NEW a \in Call, NEW time \in 0 .. clock, a \in Pending, asked[a] <= time,
               Record(a, time), UNCHANGED <<asked, overlapped>>
        PROVE  MarkInv'
    <2>1. SUFFICES ASSUME NEW c \in Call, recorded'[c] # 0, c \notin overlapped
                   PROVE  asked[c] <= time
      BY <1>3 DEF MarkInv, Record
    <2>2. CASE c # a
      <3>1. asked[c] # 0
        BY <1>3, <2>1, <2>2 DEF TypeOK, CallInv, Record
      <3>2. asked[c] <= asked[a]
        BY <1>3, <2>1, <2>2, <3>1 DEF LoneInv
      <3> QED
        BY <1>3, <3>2 DEF TypeOK
    <2> QED
      BY <1>3, <2>2
  <1>4. ASSUME NEW a \in Call, Answered(a) PROVE MarkInv'
    BY <1>3, <1>4 DEF TypeOK, Answered, Pending
  <1>5. ASSUME NEW a \in Call, AnsweredPlain(a) \/ SeenDone(a) PROVE MarkInv'
    BY <1>3, <1>5 DEF TypeOK, AnsweredPlain, SeenDone, Pending
  <1> QED
    BY <1>1, <1>2, <1>4, <1>5, QuietSteps

(* A job that has ended stays so, and so does what its call recorded.        *)
LEMMA CoverStep == TypeOK /\ CallInv /\ CoverInv /\ [Next]_vars => CoverInv'
  <1> SUFFICES ASSUME TypeOK, CallInv, CoverInv, [Next]_vars PROVE CoverInv'
    OBVIOUS
  <1>1. plain \subseteq plain' /\ \A d \in Call : Done(d) => Done(d)'
    BY DEF Done, TypeOK, CallInv, Next, vars, callVars, svVars, Reuse, Ask, Answered, StartPolling, AnsweredPlain, SeenDone,
           PollTimeout, GiveUp, SvTake, SvFinish, SvFail, Crash, Tick
  <1>2. CASE UNCHANGED <<mark, recorded>>
    BY <1>1, <1>2 DEF CoverInv
  <1>3. ASSUME NEW a \in Call, Answered(a) \/ AnsweredPlain(a) \/ SeenDone(a) PROVE CoverInv'
    <2>1. recorded'[a] = mark' /\ (a \in Tool \cup plain' \/ Done(a)')
      BY <1>3 DEF TypeOK, Answered, AnsweredPlain, SeenDone, Done, Record, svVars
    <2> QED
      BY <2>1 DEF CoverInv
  <1>4. CASE Quiet
    BY <1>2, <1>4 DEF Quiet
  <1>5. CASE Tick
    BY <1>2, <1>5 DEF Tick
  <1>6. ASSUME NEW a \in Call, Ask(a) PROVE CoverInv'
    BY <1>2, <1>6 DEF Ask
  <1> QED
    BY <1>3, <1>4, <1>5, <1>6, QuietSteps

(* Who is loose stays so.                                                    *)
LEMMA LooseStays ==
  ASSUME TypeOK, [Next]_vars, NEW c \in Call, Loose(c)
  PROVE  Loose(c)'
  <1>1. overlapped \subseteq overlapped'
    BY DEF Next, vars, callVars, Reuse, Ask, Answered, StartPolling, AnsweredPlain, SeenDone,
           PollTimeout, GiveUp, SvTake, SvFinish, SvFail, Crash, Tick
  <1>2. pc[c] = "over" => pc'[c] = "over" /\ recorded'[c] = recorded[c]
    BY DEF TypeOK, Next, vars, callVars, Reuse, Ask, Answered, StartPolling, AnsweredPlain, SeenDone, Record,
           PollTimeout, GiveUp, SvTake, SvFinish, SvFail, Crash, Tick, Pending
  <1> QED
    BY <1>1, <1>2 DEF Loose

(* Who asks sees a mark that no call outside the exceptions is later than.   *)
LEMMA SpacedStep == IInv /\ [Next]_vars => Spaced'
  <1> SUFFICES ASSUME IInv, [Next]_vars PROVE Spaced'
    OBVIOUS
  <1> USE DEF IInv
  <1>1. CASE UNCHANGED asked
    <2>1. SUFFICES ASSUME NEW c \in Call, NEW d \in Call, c # d, asked[c] # 0, asked[d] # 0,
                          Close(asked[c], asked[d])
                   PROVE  Loose(c)' \/ (asked[c] = asked[d] /\ Loose(d)')
      BY <1>1 DEF Spaced, Close
    <2>2. Loose(c) \/ (asked[c] = asked[d] /\ Loose(d))
      BY <2>1 DEF Spaced
    <2> QED
      BY <2>2, LooseStays
  <1>2. ASSUME NEW a \in Call, Ask(a) PROVE Spaced'
    <2>1. /\ asked'[a] = clock /\ ~Recent(mark) /\ clock' = clock
          /\ \A c \in Call : c # a => asked'[c] = asked[c]
      BY <1>2 DEF TypeOK, Ask
    <2>2. ASSUME NEW c \in Call, c # a, asked[c] # 0, Close(asked[c], clock) PROVE Loose(c)'
      <3>1. CASE c \in Pending
        BY <1>2, <3>1 DEF Ask, Loose
      <3>2. CASE pc[c] = "over" /\ recorded[c] # 0 /\ c \notin overlapped
        <4>1. asked[c] <= mark /\ mark \in 0 .. clock /\ asked[c] \in 0 .. clock /\ clock \in Nat
          BY <3>2 DEF MarkInv, TypeOK
        <4>2. clock - mark >= MinInterval /\ clock - mark >= Window
          BY <2>1, <4>1, SafetyBackupsAssumption DEF Recent
        <4> QED
          BY <2>2, <4>1, <4>2, SafetyBackupsAssumption DEF Close
      <3>3. CASE Loose(c)
        BY <3>3, LooseStays
      <3> QED
        BY <2>2, <3>1, <3>2, <3>3 DEF TypeOK, CallInv, Pending, Loose
    <2>3. SUFFICES ASSUME NEW c \in Call, NEW d \in Call, c # d, asked'[c] # 0, asked'[d] # 0,
                          Close(asked'[c], asked'[d])
                   PROVE  Loose(c)' \/ (asked'[c] = asked'[d] /\ Loose(d)')
      BY DEF Spaced, Close
    <2>4. CASE d = a
      BY <2>1, <2>2, <2>3, <2>4
    <2>5. CASE c = a
      <3>1. asked[d] \in 0 .. clock /\ clock \in Nat /\ clock <= asked[d]
        BY <2>1, <2>3, <2>5 DEF TypeOK, Close
      <3>2. asked[d] = clock /\ asked'[d] = clock /\ asked[d] # 0
        BY <2>1, <2>3, <2>5, <3>1
      <3>3. Close(asked[d], clock)
        BY <2>1, <2>3, <2>5, <3>2
      <3> QED
        BY <2>1, <2>2, <2>3, <2>5, <3>2, <3>3
    <2>6. CASE c # a /\ d # a
      <3>1. Loose(c) \/ (asked[c] = asked[d] /\ Loose(d))
        BY <2>1, <2>3, <2>6 DEF Spaced
      <3> QED
        BY <2>1, <2>6, <3>1, LooseStays
    <2> QED
      BY <2>4, <2>5, <2>6
  <1>3. ASSUME NEW a \in Call, Answered(a) \/ AnsweredPlain(a) \/ SeenDone(a) PROVE UNCHANGED asked
    BY <1>3 DEF Answered, AnsweredPlain, SeenDone
  <1>4. CASE Tick \/ Quiet
    BY <1>1, <1>4 DEF Tick, Quiet, callVars
  <1> QED
    BY <1>1, <1>2, <1>3, <1>4, QuietSteps
--------------------------------------------------------------------------------
(* Nothing was asked for yet.                                                *)
LEMMA InductiveInit == Init => IInv
  <1> SUFFICES ASSUME Init PROVE IInv
    OBVIOUS
  <1> USE SafetyBackupsAssumption DEF Init
  <1>1. TypeOK
    BY DEF TypeOK
  <1>2. CallInv /\ MarkInv /\ CoverInv
    BY DEF CallInv, MarkInv, CoverInv
  <1>3. LoneInv /\ Spaced
    BY DEF LoneInv, Spaced, Pending
  <1> QED
    BY <1>1, <1>2, <1>3 DEF IInv

(* The parts together are inductive.                                         *)
THEOREM Inductive == Spec => []IInv
  <1>1. IInv /\ [Next]_vars => IInv'
    BY TypeStep, CallStep, LoneStep, MarkStep, CoverStep, SpacedStep DEF IInv
  <1> QED
    BY <1>1, InductiveInit, PTL DEF Spec

(* Every variable keeps to its type; no time is of the future.               *)
THEOREM TypeCorrect == Spec => []TypeOK
  <1>1. IInv => TypeOK
    BY DEF IInv
  <1> QED
    BY <1>1, Inductive, PTL

(* No backup inside the hard limit or the window of another, but for         *)
(* overlapping calls and calls that gave up (backups.py 21-24, 60-66).       *)
THEOREM SpacedHolds == Spec => []Spaced
  <1>1. IInv => Spaced
    BY DEF IInv
  <1> QED
    BY <1>1, Inductive, PTL

(* A write goes ahead only on a recent mark of a job that has ended, if not  *)
(* well, of the tool, or of an answer without a job (fs_write.py 694-785,    *)
(* backups.py 361-367).                                                      *)
THEOREM WriteCoveredHolds == Spec => WriteCovered
  <1>1. IInv /\ [Next]_vars => (went' # went => Covered')
    <2> SUFFICES ASSUME IInv, [Next]_vars, went' # went PROVE Covered'
      OBVIOUS
    <2> USE SafetyBackupsAssumption DEF IInv
    <2>1. PICK c \in Call : Reuse(c) \/ AnsweredPlain(c) \/ SeenDone(c)
      BY DEF Next, vars, Ask, Answered, StartPolling, PollTimeout, GiveUp,
             SvTake, SvFinish, SvFail, Crash, Tick
    <2>2. CASE Reuse(c)
      <3>1. Recent(mark) /\ UNCHANGED <<clock, mark, recorded, plain, sv>>
        BY <2>2 DEF Reuse, svVars
      <3>2. mark # 0
        BY <3>1 DEF Recent, TypeOK, CallInv
      <3>3. PICK d \in Call : recorded[d] = mark /\ (d \in Tool \cup plain \/ Done(d))
        BY <3>2 DEF CoverInv
      <3> QED
        BY <3>1, <3>2, <3>3 DEF Covered, Recent, Done
    <2>3. CASE AnsweredPlain(c) \/ SeenDone(c)
      <3>1. recorded'[c] = clock /\ clock' = clock /\ (c \in plain' \/ Done(c)')
        BY <2>3 DEF TypeOK, AnsweredPlain, SeenDone, Done, Record, svVars
      <3>2. clock \in Nat /\ clock # 0 /\ clock - clock < Window
        BY DEF TypeOK, CallInv
      <3> QED
        BY <3>1, <3>2 DEF Covered, Recent
    <2> QED
      BY <2>1, <2>2, <2>3
  <1> QED
    BY <1>1, Inductive, PTL DEF Spec, WriteCovered
================================================================================
