------------------------------- MODULE CrashLoop -------------------------------
(***************************************************************************)
(* The guard against crash loops (crash_loop.py), the second step of the   *)
(* boot: starts are counted across processes in startup_log.json.  The     *)
(* process may be killed at any point, and the log damaged or not          *)
(* writable.  The clock of the host is taken to run forwards.              *)
(***************************************************************************)
EXTENDS Naturals, Sequences, FiniteSets

CONSTANTS
  CrashThreshold,  \* CRASH_THRESHOLD
  CrashWindow,     \* CRASH_WINDOW_SECONDS, in ticks
  RingSize,        \* RING_BUFFER_SIZE
  MaxBootTime,     \* bound on the clock
  MaxStarts        \* bound: starts that the guard lets through

VARIABLES
  startLog,   \* startup_log.json: times of starts
  damaged,    \* it is no longer JSON
  boot,       \* where the process is
  bootTime,   \* time.time()
  begun       \* history: begun[n], the n-th start let through: when, and if it is in the log

bootVars == <<startLog, damaged, boot, bootTime, begun>>

Time == 0 .. MaxBootTime

TypeOK ==
  /\ Len(startLog) <= RingSize /\ \A n \in DOMAIN startLog : startLog[n] \in Time
  /\ damaged \in BOOLEAN
  /\ boot \in {"down", "passed", "up", "refused"}
  /\ bootTime \in Time
  /\ Len(begun) <= MaxStarts
  /\ \A n \in DOMAIN begun : begun[n] \in [at : Time, noted : BOOLEAN]

Init ==
  /\ startLog = <<>> /\ damaged = FALSE
  /\ boot = "down" /\ bootTime = 0
  /\ begun = <<>>

-------------------------------------------------------------------------------
Within(t) == bootTime < t + CrashWindow

(* Mutant: the guard acts at the start after the next, as it once did.       *)
LoopsLate(entries) ==
  Cardinality({n \in DOMAIN entries : Within(entries[n])}) > CrashThreshold

(* The start that asks is not counted.                                       *)
Loops(entries) ==
  Cardinality({n \in DOMAIN entries : Within(entries[n])}) >= CrashThreshold

Readable == IF damaged THEN <<>> ELSE startLog

(* Mutant: a start that is refused is noted, too.                            *)
BootRefusedNoted ==
  /\ boot = "down" /\ Loops(Readable)
  /\ boot' = "refused"
  /\ startLog' = Append(Tail(startLog), bootTime)
  /\ UNCHANGED <<damaged, bootTime, begun>>

(* check_crash_loop reads, counts and decides before it writes; a start that *)
(* is refused leaves the log as it is.                                       *)
BootRefused ==
  /\ boot = "down" /\ Loops(Readable)
  /\ boot' = "refused"
  /\ UNCHANGED <<startLog, damaged, bootTime, begun>>

BootPasses ==
  /\ boot = "down" /\ ~Loops(Readable) /\ Len(begun) < MaxStarts
  /\ boot' = "passed"
  /\ begun' = Append([n \in DOMAIN begun |-> [begun[n] EXCEPT !.noted = @ /\ ~damaged]],
                     [at |-> bootTime, noted |-> FALSE])
  /\ UNCHANGED <<startLog, damaged, bootTime>>

(* The last entries are kept, and the file is replaced as a whole.  No time  *)
(* passes between the count and the write.                                   *)
BootNoted ==
  /\ boot = "passed"
  /\ boot' = "up"
  /\ LET all == Append(Readable, bootTime)
         cut == IF Len(all) > RingSize THEN Len(all) - RingSize ELSE 0
     IN startLog' = SubSeq(all, cut + 1, Len(all))
  /\ damaged' = FALSE
  /\ begun' = [begun EXCEPT ![Len(begun)].noted = TRUE]
  /\ UNCHANGED <<bootTime>>

(* The log cannot be written: the boot goes on.                              *)
BootUnnoted ==
  /\ boot = "passed"
  /\ boot' = "up"
  /\ UNCHANGED <<startLog, damaged, bootTime, begun>>

(* External: the process ends in whatever way, and the watchdog starts it    *)
(* again; the log is damaged; time passes, but not in the middle of a start. *)
ProcessEnds ==
  /\ boot # "down"
  /\ boot' = "down"
  /\ UNCHANGED <<startLog, damaged, bootTime, begun>>

Damage ==
  /\ startLog # <<>> /\ ~damaged /\ boot # "passed"
  /\ damaged' = TRUE
  /\ UNCHANGED <<startLog, boot, bootTime, begun>>

BootTick ==
  /\ bootTime < MaxBootTime /\ boot \in {"down", "up"}
  /\ bootTime' = bootTime + 1
  /\ UNCHANGED <<startLog, damaged, boot, begun>>

Next ==
  \/ BootRefused \/ BootPasses \/ BootNoted \/ BootUnnoted
  \/ ProcessEnds \/ Damage \/ BootTick

-------------------------------------------------------------------------------
Lately(S) == Cardinality({n \in S : Within(begun[n].at)})

(* As long as the log is kept, no more starts than the threshold get past    *)
(* the guard within one window, and a start is refused only after as many of *)
(* them: a quiet window opens the guard again.  Starts that could not be     *)
(* noted, and those of before the log was damaged, do not count              *)
(* (crash_loop.py:3-16, 69-92).                                              *)
StartsBounded ==
  /\ Lately({n \in DOMAIN begun : begun[n].noted}) <= CrashThreshold
  /\ boot = "refused" => Lately(DOMAIN begun) >= CrashThreshold
===============================================================================
