---------------------------------- MODULE Jobs ----------------------------------
(***************************************************************************)
(* The jobs of the Supervisor that long operations start: installing,      *)
(* updating or removing an add-on, making or restoring a backup.  Each is  *)
(* noted in pending_jobs.json (tools/addons.py), from where the job tools  *)
(* of tools/backups.py read and mark it.  One hold of _jobs_lock covers    *)
(* reading and rewriting the file, with no await in between: each of these *)
(* is one step here, and the file is replaced as a whole.  A file that     *)
(* cannot be read, or is damaged, is taken for an empty one.               *)
(***************************************************************************)
EXTENDS Naturals, FiniteSets

CONSTANTS
  Job,         \* jobs the Supervisor may start
  Keep,        \* _JOB_CLEANUP_AFTER_SECONDS, in ticks
  MaxJobTime   \* bound on the clock

VARIABLES
  jobs,      \* pending_jobs.json: jobs[j] for each j it knows
  starter,   \* starter[j]: where the tool call that starts j is
  work,      \* work[j]: what the Supervisor makes of it
  poll,      \* poll[j]: where sv_get_job_status is
  jobTime,   \* time.time()
  jobSince,  \* history: jobSince[j], when j was noted
  jobTold,   \* history: the jobs whose id a client was given
  sawDone,   \* history: the jobs a client was told are done
  jobsMissed \* history: the jobs such a file hid from a step that was to keep or mark them

jobVars == <<jobs, starter, work, poll, jobTime, jobSince, jobTold, sawDone, jobsMissed>>

NoJobs == [j \in {} |-> 0]

Entry == [at : 0 .. MaxJobTime, done : BOOLEAN]

TypeOK ==
  /\ \E known \in SUBSET Job : jobs \in [known -> Entry]
  /\ starter \in [Job -> {"idle", "asked", "noted", "over"}]
  /\ work \in [Job -> {"none", "running", "done"}]
  /\ poll \in [Job -> {"idle", "running", "done"}]
  /\ jobTime \in 0 .. MaxJobTime
  /\ jobSince \in [Job -> 0 .. MaxJobTime]
  /\ jobTold \subseteq Job /\ sawDone \subseteq Job /\ jobsMissed \subseteq Job

Init ==
  /\ jobs = NoJobs
  /\ starter = [j \in Job |-> "idle"]
  /\ work = [j \in Job |-> "none"]
  /\ poll = [j \in Job |-> "idle"]
  /\ jobTime = 0
  /\ jobSince = [j \in Job |-> 0]
  /\ jobTold = {} /\ sawDone = {} /\ jobsMissed = {}

-------------------------------------------------------------------------------
(* _load_jobs_sync.                                                          *)
Loaded == {jobs, NoJobs}

Hidden(file) == DOMAIN jobs \ DOMAIN file

Recent(file) == {k \in DOMAIN file : file[k].at + Keep > jobTime}

(* sv_install_addon and the others, past their tokens: the request, which    *)
(* the Supervisor takes.                                                     *)
Launch(j) ==
  /\ starter[j] = "idle"
  /\ starter' = [starter EXCEPT ![j] = "asked"]
  /\ work' = [work EXCEPT ![j] = "running"]
  /\ UNCHANGED <<jobs, poll, jobTime, jobSince, jobTold, sawDone, jobsMissed>>

(* Mutant: the clean-up looks at whether a job is over, too.                 *)
TrackedRunning(j, file) ==
  [k \in {j} \cup {k \in Recent(file) : ~file[k].done} |->
     IF k = j THEN [at |-> jobTime, done |-> FALSE] ELSE file[k]]

(* _track_job: what is an hour old goes, and j is noted whatever the clock.  *)
Tracked(j, file) ==
  [k \in {j} \cup Recent(file) |->
     IF k = j THEN [at |-> jobTime, done |-> FALSE] ELSE file[k]]

Track(j) ==
  /\ starter[j] = "asked"
  /\ starter' = [starter EXCEPT ![j] = "noted"]
  /\ \E seen \in Loaded :
       jobs' = Tracked(j, seen) /\ jobsMissed' = jobsMissed \cup Hidden(seen)
  /\ jobSince' = [jobSince EXCEPT ![j] = jobTime]
  /\ UNCHANGED <<work, poll, jobTime, jobTold, sawDone>>

(* The answer is lost, or the file cannot be written: the tool fails, and    *)
(* the job goes on in the Supervisor without anybody knowing its id.         *)
LosesJob(j) ==
  /\ starter[j] = "asked"
  /\ starter' = [starter EXCEPT ![j] = "over"]
  /\ UNCHANGED <<jobs, work, poll, jobTime, jobSince, jobTold, sawDone, jobsMissed>>

(* The token is completed, and the client gets the id.                       *)
TellJob(j) ==
  /\ starter[j] = "noted"
  /\ starter' = [starter EXCEPT ![j] = "over"]
  /\ jobTold' = jobTold \cup {j}
  /\ UNCHANGED <<jobs, work, poll, jobTime, jobSince, sawDone, jobsMissed>>

-------------------------------------------------------------------------------
(* sv_get_job_status: the Supervisor's answer, and what is done with it when *)
(* it arrives, by when the job may have been cleaned up.                     *)
PollJob(j) ==
  /\ j \in jobTold /\ poll[j] = "idle"
  /\ poll' = [poll EXCEPT ![j] = work[j]]
  /\ UNCHANGED <<jobs, starter, work, jobTime, jobSince, jobTold, sawDone, jobsMissed>>

(* Mutant: the entry is made anew from what the Supervisor says.             *)
MarkedAnew(j, file) ==
  [k \in DOMAIN file \cup {j} |->
     IF k = j THEN [at |-> jobTime, done |-> TRUE] ELSE file[k]]

(* Nothing is written where j is not found.                                  *)
Marked(j, file) ==
  IF j \in DOMAIN file THEN [file EXCEPT ![j].done = TRUE] ELSE jobs

PollAnswered(j) ==
  /\ poll[j] # "idle"
  /\ poll' = [poll EXCEPT ![j] = "idle"]
  /\ IF poll[j] = "done"
     THEN /\ \E seen \in Loaded :
               jobs' = Marked(j, seen) /\ jobsMissed' = jobsMissed \cup ({j} \cap Hidden(seen))
          /\ sawDone' = sawDone \cup {j}
     ELSE UNCHANGED <<jobs, sawDone, jobsMissed>>
  /\ UNCHANGED <<starter, work, jobTime, jobSince, jobTold>>

-------------------------------------------------------------------------------
(* External: the Supervisor ends a job; the process is killed and started    *)
(* anew, by an update of the add-on itself for one; time passes.             *)
JobEnds(j) ==
  /\ work[j] = "running"
  /\ work' = [work EXCEPT ![j] = "done"]
  /\ UNCHANGED <<jobs, starter, poll, jobTime, jobSince, jobTold, sawDone, jobsMissed>>

JobCrash ==
  /\ starter' = [j \in Job |-> IF starter[j] = "idle" THEN "idle" ELSE "over"]
  /\ poll' = [j \in Job |-> "idle"]
  /\ UNCHANGED <<jobs, work, jobTime, jobSince, jobTold, sawDone, jobsMissed>>

JobTick ==
  /\ jobTime < MaxJobTime
  /\ jobTime' = jobTime + 1
  /\ UNCHANGED <<jobs, starter, work, poll, jobSince, jobTold, sawDone, jobsMissed>>

Next ==
  \/ \E j \in Job :
       \/ Launch(j) \/ Track(j) \/ LosesJob(j) \/ TellJob(j)
       \/ PollJob(j) \/ PollAnswered(j) \/ JobEnds(j)
  \/ JobCrash \/ JobTick

-------------------------------------------------------------------------------
(* sv_list_pending_jobs.                                                     *)
Listed == Recent(jobs)

(* A job whose id a client was given is listed until it is an hour old,      *)
(* whatever others are noted and cleaned up meanwhile and however often the  *)
(* process starts anew, but no longer; and it is not listed as running once  *)
(* a client was told that it is done (addons.py:786-800, backups.py:656-701).*)
(* Excepted are the jobs that a file which could not be read hid.            *)
JobKept ==
  /\ \A j \in jobTold \ jobsMissed : jobSince[j] + Keep > jobTime => j \in Listed
  /\ \A j \in Listed : jobSince[j] + Keep > jobTime
  /\ \A j \in (sawDone \ jobsMissed) \cap Listed : jobs[j].done
===============================================================================
