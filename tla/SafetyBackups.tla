----------------------------- MODULE SafetyBackups -----------------------------
(***************************************************************************)
(* Safety backups: full backups of the whole system, several gigabytes     *)
(* each.  Two paths make them, the tool sv_create_safety_backup            *)
(* (tools/backups.py) and the trigger in front of every write under        *)
(* /config (fs_write.py, maybe_trigger_safety_backup).  They share one     *)
(* mark on disk, /data/last_safety_backup.json, so that a backup is made   *)
(* at most once per window.                                                *)
(*                                                                         *)
(* A step runs from one await to the next: the mark is read and the        *)
(* request sent in one step, the answer is read and the mark written in    *)
(* another.  The tool marks the time it was called at, once the Supervisor *)
(* has answered; the trigger marks the time it learns that its job has     *)
(* ended, or at once when the answer names no job, and holds its write     *)
(* back until then.  A call is made once; its job has its name.            *)
(***************************************************************************)
EXTENDS Integers

CONSTANTS
  Tool, Writer,  \* calls of the tool; writes under /config
  MinInterval,   \* _SAFETY_BACKUP_MIN_INTERVAL_SECONDS
  Window,        \* safety_backup_window_minutes
  PollTime,      \* the 300 s for which a write waits for its job
  MaxClock       \* bound: the end of time

ASSUME SafetyBackupsAssumption ==
  /\ MinInterval \in Nat /\ Window \in Nat \ {0} /\ PollTime \in Nat /\ MaxClock \in Nat
  /\ Window + MinInterval > 0 /\ Window + MinInterval <= MaxClock

Call == Tool \cup Writer

VARIABLES
  clock,      \* time.time()
  mark,       \* last_safety_backup_at on disk
  pc,         \* where each call is
  asked,      \* `now` of a call that asked for a backup; 0: it did not ask
  deadline,   \* when a write gives up on its job
  sv,         \* the Supervisor: what became of each call's request
  ended,      \* the Supervisor: when it finished the backup
  recorded,   \* history: the mark that a call wrote; 0: none
  overlapped, \* history: calls that asked before another had come to its end
  plain,      \* history: writes whose answer named no job and was taken for a backup
  went        \* history: writes that were let through

svVars   == <<sv, ended>>
callVars == <<pc, asked, deadline>>
vars     == <<clock, mark, callVars, svVars, recorded, overlapped, plain, went>>

(* The types; no time is of the future, and only a write waits for its job.  *)
TypeOK ==
  /\ clock \in 0 .. MaxClock /\ mark \in 0 .. clock
  /\ pc \in [Call -> {"new", "asked", "polling", "over"}]
  /\ \A c \in Call : pc[c] = "polling" => c \in Writer
  /\ asked \in [Call -> 0 .. clock] /\ deadline \in [Call -> 0 .. MaxClock]
  /\ sv \in [Call -> {"none", "sent", "refused", "running", "finished", "failed"}]
  /\ ended \in [Call -> 0 .. clock] /\ recorded \in [Call -> 0 .. clock]
  /\ overlapped \subseteq Call /\ plain \subseteq Writer /\ went \subseteq Writer

(* No backup was ever made, and the clock is far from 1970.                  *)
Init ==
  /\ clock = Window + MinInterval /\ mark = 0
  /\ pc = [c \in Call |-> "new"]
  /\ asked = [c \in Call |-> 0] /\ deadline = [c \in Call |-> 0]
  /\ sv = [c \in Call |-> "none"] /\ ended = [c \in Call |-> 0]
  /\ recorded = [c \in Call |-> 0] /\ overlapped = {}
  /\ plain = {} /\ went = {}

-------------------------------------------------------------------------------
(* The two checks of both paths: the hard limit, then the window.            *)
Recent(time) == clock - time < MinInterval \/ clock - time < Window

Pending == {c \in Call : pc[c] \in {"asked", "polling"}}

Taken(c) == sv[c] \in {"running", "finished", "failed"}

(* A recent mark: the tool refers to that backup, a write goes ahead.        *)
Reuse(c) ==
  /\ pc[c] = "new" /\ Recent(mark)
  /\ pc' = [pc EXCEPT ![c] = "over"]
  /\ went' = IF c \in Writer THEN went \cup {c} ELSE went
  /\ UNCHANGED <<clock, mark, asked, deadline, svVars, recorded, overlapped, plain>>

(* No recent mark: POST /backups/new/full.                                   *)
Ask(c) ==
  /\ pc[c] = "new" /\ ~Recent(mark)
  /\ pc' = [pc EXCEPT ![c] = "asked"]
  /\ asked' = [asked EXCEPT ![c] = clock] /\ sv' = [sv EXCEPT ![c] = "sent"]
  /\ overlapped' = IF Pending = {} THEN overlapped ELSE overlapped \cup Pending \cup {c}
  /\ UNCHANGED <<clock, mark, deadline, ended, recorded, went, plain>>

(* _save_safety_state, and the end of the call.                              *)
Record(c, time) ==
  /\ mark' = time /\ recorded' = [recorded EXCEPT ![c] = time]
  /\ pc' = [pc EXCEPT ![c] = "over"]

(* Mutant: each path keeps its own key and the other does not see it.        *)
AnsweredUnseen(c) ==
  /\ pc[c] = "asked" /\ c \in Tool /\ Taken(c)
  /\ recorded' = [recorded EXCEPT ![c] = asked[c]] /\ pc' = [pc EXCEPT ![c] = "over"]
  /\ UNCHANGED <<clock, mark, asked, deadline, svVars, overlapped, went, plain>>

(* The tool has its answer; the backup may still be running.                 *)
Answered(c) ==
  /\ pc[c] = "asked" /\ c \in Tool /\ Taken(c)
  /\ Record(c, asked[c])
  /\ UNCHANGED <<clock, asked, deadline, svVars, overlapped, went, plain>>

(* A write has a job to wait for; the bound on time leaves it its deadline.   *)
StartPolling(c) ==
  /\ pc[c] = "asked" /\ c \in Writer /\ Taken(c)
  /\ clock + PollTime <= MaxClock
  /\ pc' = [pc EXCEPT ![c] = "polling"]
  /\ deadline' = [deadline EXCEPT ![c] = clock + PollTime]
  /\ UNCHANGED <<clock, mark, asked, svVars, recorded, overlapped, went, plain>>

(* An answer that names no job is taken for a backup that was made at once.  *)
AnsweredPlain(c) ==
  /\ pc[c] = "asked" /\ c \in Writer /\ Taken(c)
  /\ Record(c, clock) /\ went' = went \cup {c} /\ plain' = plain \cup {c}
  /\ UNCHANGED <<clock, asked, deadline, svVars, overlapped>>

(* What a poll calls done: the job has ended, well or not; `done` is looked  *)
(* at before the states that say that it failed.                             *)
Done(c) == sv[c] \in {"finished", "failed"}

(* Mutant: any answer of a poll is taken for the end of the job.             *)
SeenAnswered(c) ==
  /\ pc[c] = "polling" /\ Taken(c)
  /\ Record(c, clock) /\ went' = went \cup {c}
  /\ UNCHANGED <<clock, asked, deadline, svVars, overlapped, plain>>

(* A poll says that the job is done; the write goes ahead.  A poll is sent   *)
(* before the deadline and may be answered after it.                         *)
SeenDone(c) ==
  /\ pc[c] = "polling" /\ Done(c)
  /\ Record(c, clock) /\ went' = went \cup {c}
  /\ UNCHANGED <<clock, asked, deadline, svVars, overlapped, plain>>

(* Mutant: the deadline is put off by every poll that fails.                 *)
PollTimeoutPutOff(c) ==
  /\ pc[c] = "polling" /\ clock >= deadline[c] /\ Done(c)
  /\ pc' = [pc EXCEPT ![c] = "over"]
  /\ UNCHANGED <<clock, mark, asked, deadline, svVars, recorded, overlapped, went, plain>>

(* Nothing was heard of the job in time; the write is called off.            *)
PollTimeout(c) ==
  /\ pc[c] = "polling" /\ clock >= deadline[c]
  /\ pc' = [pc EXCEPT ![c] = "over"]
  /\ UNCHANGED <<clock, mark, asked, deadline, svVars, recorded, overlapped, went, plain>>

(* The request is refused, times out here or has an answer that cannot be    *)
(* used, a poll says that the job failed and not that it is done, or the     *)
(* mark cannot be written.                                                   *)
GiveUp(c) ==
  /\ c \in Pending
  /\ pc' = [pc EXCEPT ![c] = "over"]
  /\ UNCHANGED <<clock, mark, asked, deadline, svVars, recorded, overlapped, went, plain>>

(* Mutant: time.monotonic() for time.time().                                 *)
CrashResettingClock ==
  /\ pc' = [c \in Call |-> IF c \in Pending THEN "over" ELSE pc[c]]
  /\ clock' = 0
  /\ UNCHANGED <<mark, asked, deadline, svVars, recorded, overlapped, went, plain>>

(* The process dies; the mark stays.                                         *)
Crash ==
  /\ pc' = [c \in Call |-> IF c \in Pending THEN "over" ELSE pc[c]]
  /\ UNCHANGED <<clock, mark, asked, deadline, svVars, recorded, overlapped, went, plain>>

-------------------------------------------------------------------------------
(* The Supervisor (external): it takes a request, even one whose caller gave *)
(* up, or does not; a backup comes to an end or fails.                       *)

SvTake(c) ==
  /\ sv[c] = "sent"
  /\ \E answer \in {"running", "refused"} : sv' = [sv EXCEPT ![c] = answer]
  /\ UNCHANGED <<clock, mark, callVars, ended, recorded, overlapped, went, plain>>

SvFinish(c) ==
  /\ sv[c] = "running"
  /\ sv' = [sv EXCEPT ![c] = "finished"] /\ ended' = [ended EXCEPT ![c] = clock]
  /\ UNCHANGED <<clock, mark, callVars, recorded, overlapped, went, plain>>

SvFail(c) ==
  /\ sv[c] = "running"
  /\ sv' = [sv EXCEPT ![c] = "failed"]
  /\ UNCHANGED <<clock, mark, callVars, ended, recorded, overlapped, went, plain>>

Tick ==
  /\ clock < MaxClock /\ clock' = clock + 1
  /\ UNCHANGED <<mark, callVars, svVars, recorded, overlapped, went, plain>>

-------------------------------------------------------------------------------
Next ==
  \/ \E c \in Call :
       \/ Reuse(c) \/ Ask(c) \/ Answered(c) \/ StartPolling(c)
       \/ AnsweredPlain(c) \/ SeenDone(c)
       \/ PollTimeout(c) \/ GiveUp(c)
       \/ SvTake(c) \/ SvFinish(c) \/ SvFail(c)
  \/ Crash \/ Tick

(* Time goes on, and the polling loop looks at it.                           *)
Fairness == WF_vars(Tick) /\ \A c \in Writer : WF_vars(PollTimeout(c))

Spec == Init /\ [][Next]_vars /\ Fairness

-------------------------------------------------------------------------------
(* Properties.                                                               *)

(* Calls whose backup the mark may not tell of: they overlapped with another *)
(* call, or ended without a mark.                                            *)
Loose(c) == c \in overlapped \/ (pc[c] = "over" /\ recorded[c] = 0)

Close(earlier, later) ==
  earlier <= later /\ (later - earlier < MinInterval \/ later - earlier < Window)

(* Whichever path asks, no backup is asked for inside the hard limit or the  *)
(* window of another, but for overlapping calls and calls that gave up: the  *)
(* paths do not hide or set back one another's mark (backups.py 21-24,       *)
(* 60-66).                                                                   *)
Spaced ==
  \A c, d \in Call :
    c # d /\ asked[c] # 0 /\ asked[d] # 0 /\ Close(asked[c], asked[d])
      => Loose(c) \/ (asked[c] = asked[d] /\ Loose(d))

(* A recent mark that somebody had a reason to write: the tool, which asked  *)
(* for a backup, a write that saw its own backup end, or one whose answer    *)
(* named no job.                                                             *)
Covered ==
  \E d \in Call : recorded[d] # 0 /\ Recent(recorded[d]) /\ (d \in Tool \cup plain \/ Done(d))

(* A write that a safety backup holds back goes ahead only when the job of   *)
(* its own or of another's recent backup has ended, if not well; the other   *)
(* exceptions are the tool's mark, which says that a backup was asked for,   *)
(* and an answer without a job (fs_write.py 694-785, backups.py 361-367).    *)
WriteCovered == [][went' # went => Covered']_vars

(* A write does not wait for its backup for ever (fs_write.py 750-792).      *)
PollEnds == \A c \in Writer : pc[c] = "polling" ~> pc[c] = "over"

(* What the documentation says: no backup is asked for while one that is     *)
(* newer than the window exists (README.md:361, backups.py 21-24).           *)
RecentBackupReused ==
  [][\A c \in Call : asked'[c] # asked[c] =>
       \A d \in Call : sv[d] = "finished" => ~Recent(ended[d])]_vars
================================================================================
