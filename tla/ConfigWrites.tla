------------------------------ MODULE ConfigWrites ------------------------------
(***************************************************************************)
(* Writing under /config: the write slots, the logical clock that keeps    *)
(* sv_restart_core from restarting on an unvalidated configuration         *)
(* (hermes/fs_write.py, tools/filesystem_write.py, tools/supervisor.py),   *)
(* and the cache of the include tree (hermes/yaml_include.py).             *)
(*                                                                         *)
(* The content of /config is a version number.  Both state files are read  *)
(* and replaced in threads while an asyncio.Lock is held, so loading and   *)
(* saving are two steps with the lock between them.  Any step may be the   *)
(* last of the process: Crash keeps the files and loses the rest.          *)
(***************************************************************************)
EXTENDS Naturals, FiniteSets

CONSTANTS
  Writer,       \* calls that write, delete, move or restore, past their token
  Checker,      \* calls of sv_check_core_config
  MinInterval,  \* config_write_min_interval_seconds, in ticks
  MaxPerMinute, \* config_write_max_per_minute
  Window,       \* the sliding minute
  MaxClock,     \* bound: the clock
  MaxVersion,   \* bound: versions of /config
  MaxSeq,       \* bound: records in check_config_state.json
  Nobody

ASSUME ConfigWritesAssumption ==
  /\ {MinInterval, MaxPerMinute, Window, MaxClock, MaxVersion, MaxSeq} \subseteq Nat \ {0}
  /\ MinInterval <= Window
  /\ Nobody \notin Writer \cup Checker /\ Writer \cap Checker = {}

Caller  == Writer \cup Checker
Time    == 0 .. MaxClock
Version == 1 .. MaxVersion
None    == 0

VARIABLES
  clock,      \* time.time()
  slots,      \* write_rate_limit.json: "timestamps"
  rateLock,   \* who holds _rate_lock
  draft,      \* draft[w]: the rate state w is about to save
  seq,        \* check_config_state.json: _seq,
  writeSeq,   \*   _last_write_seq,
  checkSeq,   \*   _last_check_ok_seq
  stateLock,  \* who holds _config_state_lock
  loaded,     \* loaded[c]: the seq, write and check c loaded from it
  at,         \* at[c]: where call c is
  version,    \* the content of /config
  cached,     \* _cached_paths: the version it was collected from
  collecting, \* the version the thread that collects has read, None if none runs
  taken,      \* history: taken[t] counts the writes let through at t
  validated,  \* history: versions that passed /core/check, or were there first
  asked,      \* a restart was asked for, and Home Assistant has yet to read /config
  restarted,  \* history: the version Home Assistant was last restarted on
  raced,      \* history: a write came between a verdict and its record, or
              \*   between the guard of a restart and Home Assistant's reading, or
              \*   a restart, a crash or a failure between a write and its record
  overtaken   \* history: a collection was under way when a write invalidated,
              \*   or a write failed before it did

rateVars  == <<slots, rateLock, draft>>
stateVars == <<seq, writeSeq, checkSeq, stateLock, loaded>>
cacheVars == <<cached, collecting>>
history   == <<taken, validated, restarted, raced, overtaken>>
vars      == <<clock, rateVars, stateVars, at, version, cacheVars, asked, history>>

Places == {"idle", "reserving", "reserved", "written", "recordingWrite", "recorded",
           "checking", "passed", "recordingCheck"}

TypeOK ==
  /\ clock \in Time
  /\ slots \in SUBSET Time
  /\ rateLock \in Writer \cup {Nobody} /\ stateLock \in Caller \cup {Nobody}
  /\ draft \in [Writer -> SUBSET Time]
  /\ seq \in Nat /\ writeSeq \in 0 .. seq /\ checkSeq \in 0 .. seq
  /\ loaded \in [Caller -> [seq : Nat, write : Nat, check : Nat]]
  /\ at \in [Caller -> Places]
  /\ version \in Version
  /\ cached \in Version \cup {None} /\ collecting \in Version \cup {None}
  /\ taken \in [Time -> Nat]
  /\ validated \in SUBSET Version /\ restarted \in Version
  /\ asked \in BOOLEAN /\ raced \in BOOLEAN /\ overtaken \in BOOLEAN

Nothing == [seq |-> 0, write |-> 0, check |-> 0]

Init ==
  /\ clock = 0
  /\ slots = {} /\ rateLock = Nobody /\ draft = [w \in Writer |-> {}]
  /\ seq = 0 /\ writeSeq = 0 /\ checkSeq = 0 /\ stateLock = Nobody
  /\ loaded = [c \in Caller |-> Nothing]
  /\ at = [c \in Caller |-> "idle"]
  /\ version = 1 /\ cached = None /\ collecting = None /\ asked = FALSE
  /\ taken = [t \in Time |-> 0]
  /\ validated = {1} /\ restarted = 1 /\ raced = FALSE /\ overtaken = FALSE

Move(c, from, to) == at[c] = from /\ at' = [at EXCEPT ![c] = to]

-------------------------------------------------------------------------------
(* reserve_write_slot: check and book under one hold of the lock.            *)
Recent == {t \in slots : clock < t + Window}

Allowed ==
  /\ \A t \in Recent : t + MinInterval <= clock
  /\ Cardinality(Recent) < MaxPerMinute

(* Mutant: the state is loaded without waiting for the lock.                 *)
LoadSlotsUnlocked(w) ==
  /\ Allowed
  /\ Move(w, "idle", "reserving")
  /\ rateLock' = w
  /\ draft' = [draft EXCEPT ![w] = slots \cup {clock}]
  /\ UNCHANGED <<clock, slots, stateVars, version, cacheVars, asked, history>>

LoadSlots(w) ==
  /\ rateLock = Nobody /\ Allowed
  /\ Move(w, "idle", "reserving")
  /\ rateLock' = w
  /\ draft' = [draft EXCEPT ![w] = slots \cup {clock}]
  /\ UNCHANGED <<clock, slots, stateVars, version, cacheVars, asked, history>>

SaveSlots(w) ==
  /\ Move(w, "reserving", "reserved")
  /\ slots' = draft[w]
  /\ rateLock' = Nobody
  /\ draft' = [draft EXCEPT ![w] = {}]
  /\ \E t \in draft[w] :
       /\ \A u \in draft[w] : u <= t
       /\ taken' = [taken EXCEPT ![t] = @ + 1]
  /\ UNCHANGED <<clock, stateVars, version, cacheVars, asked, validated, restarted, raced,
                 overtaken>>

-------------------------------------------------------------------------------
(* Between the slot and the write lie the safety backup and the copy of the  *)
(* old file; either of them, or the write itself, may fail.                  *)
GiveUp(w) ==
  /\ Move(w, "reserved", "idle")
  /\ UNCHANGED <<clock, rateVars, stateVars, version, cacheVars, asked, history>>

Passed(c) == at[c] \in {"passed", "recordingCheck"}
Unrecorded(w) == at[w] \in {"written", "recordingWrite"}

(* os.replace or unlink: /config is another one.                             *)
Write(w) ==
  /\ Move(w, "reserved", "written")
  /\ version < MaxVersion
  /\ version' = version + 1
  /\ raced' = (raced \/ asked \/ \E c \in Checker : Passed(c))
  /\ UNCHANGED <<clock, rateVars, stateVars, cacheVars, asked, taken, validated, restarted,
                 overtaken>>

(* record_config_write and record_check_config_ok.                           *)
LoadState(c) ==
  /\ stateLock = Nobody /\ seq < MaxSeq
  /\ stateLock' = c
  /\ loaded' = [loaded EXCEPT ![c] = [seq |-> seq, write |-> writeSeq, check |-> checkSeq]]
  /\ UNCHANGED <<clock, rateVars, seq, writeSeq, checkSeq, version, cacheVars, asked, history>>

NextSeq(c) == loaded[c].seq + 1

SaveState(c) ==
  /\ seq' = NextSeq(c)
  /\ stateLock' = Nobody
  /\ loaded' = [loaded EXCEPT ![c] = Nothing]
  /\ UNCHANGED <<clock, rateVars, version, cacheVars, asked, history>>

BeginRecordWrite(w) == Move(w, "written", "recordingWrite") /\ LoadState(w)

RecordWrite(w) ==
  /\ Move(w, "recordingWrite", "recorded")
  /\ writeSeq' = NextSeq(w) /\ checkSeq' = loaded[w].check
  /\ SaveState(w)

(* invalidate_include_cache, a step of its own: the save ended in a thread.  *)
(* Mutant: what was written is not thought to touch the tree.                *)
InvalidateNothing(w) ==
  /\ Move(w, "recorded", "idle")
  /\ UNCHANGED <<clock, rateVars, stateVars, version, cacheVars, asked, history>>

Invalidate(w) ==
  /\ Move(w, "recorded", "idle")
  /\ cached' = None
  /\ overtaken' = (overtaken \/ collecting # None)
  /\ UNCHANGED <<clock, rateVars, stateVars, version, collecting, asked, taken, validated,
                 restarted, raced>>

(* The record raises (no room in /data, say) or the call is cancelled: the   *)
(* lock is let go, and the write stays.                                      *)
Abandon(w) ==
  /\ at[w] \in {"written", "recordingWrite"}
  /\ at' = [at EXCEPT ![w] = "idle"]
  /\ stateLock' = IF stateLock = w THEN Nobody ELSE stateLock
  /\ loaded' = [loaded EXCEPT ![w] = Nothing]
  /\ raced' = TRUE /\ overtaken' = TRUE
  /\ UNCHANGED <<clock, rateVars, seq, writeSeq, checkSeq, version, cacheVars, asked, taken,
                 validated, restarted>>

-------------------------------------------------------------------------------
(* sv_check_core_config: the request, Home Assistant's verdict on what it    *)
(* finds (external), the record of a verdict that was good.                  *)
BeginCheck(c) ==
  /\ Move(c, "idle", "checking")
  /\ UNCHANGED <<clock, rateVars, stateVars, version, cacheVars, asked, history>>

CheckPasses(c) ==
  /\ Move(c, "checking", "passed")
  /\ validated' = validated \cup {version}
  /\ UNCHANGED <<clock, rateVars, stateVars, version, cacheVars, asked, taken, restarted,
                 raced, overtaken>>

CheckFails(c) ==
  /\ Move(c, "checking", "idle")
  /\ UNCHANGED <<clock, rateVars, stateVars, version, cacheVars, asked, history>>

BeginRecordCheck(c) == Move(c, "passed", "recordingCheck") /\ LoadState(c)

RecordCheck(c) ==
  /\ Move(c, "recordingCheck", "idle")
  /\ checkSeq' = NextSeq(c) /\ writeSeq' = loaded[c].write
  /\ SaveState(c)

(* sv_restart_core: check_restart_allowed_sync and, with no await between,   *)
(* the request, POST /core/restart.                                          *)
Restart ==
  /\ writeSeq <= checkSeq
  /\ asked' = TRUE
  /\ raced' = (raced \/ \E w \in Writer : Unrecorded(w))
  /\ UNCHANGED <<clock, rateVars, stateVars, at, version, cacheVars, taken, validated,
                 restarted, overtaken>>

(* Home Assistant (external) has gone down and reads /config as it comes     *)
(* back up; another request may be on its way.                               *)
Reload ==
  /\ asked /\ asked' \in BOOLEAN
  /\ restarted' = version
  /\ UNCHANGED <<clock, rateVars, stateVars, at, version, cacheVars, taken, validated, raced,
                 overtaken>>

(* The request is refused, or never arrives.                                 *)
RestartRefused ==
  /\ asked /\ asked' = FALSE
  /\ UNCHANGED <<clock, rateVars, stateVars, at, version, cacheVars, history>>

-------------------------------------------------------------------------------
(* get_yaml_executable_paths with nothing cached: _cache_lock is held while  *)
(* a thread reads the tree; the result is stored whatever happened since.    *)
Collect ==
  /\ cached = None /\ collecting = None
  /\ collecting' = version
  /\ UNCHANGED <<clock, rateVars, stateVars, at, version, cached, asked, history>>

StoreCollected ==
  /\ collecting # None
  /\ cached' = collecting /\ collecting' = None
  /\ UNCHANGED <<clock, rateVars, stateVars, at, version, asked, history>>

(* Mutant: the clock starts anew with the process, as time.monotonic() did.  *)
CrashResettingClock ==
  /\ at' = [c \in Caller |-> "idle"]
  /\ rateLock' = Nobody /\ draft' = [w \in Writer |-> {}]
  /\ stateLock' = Nobody /\ loaded' = [c \in Caller |-> Nothing]
  /\ cached' = None /\ collecting' = None
  /\ raced' = (raced \/ \E w \in Writer : Unrecorded(w))
  /\ seq' = 0
  /\ UNCHANGED <<clock, slots, writeSeq, checkSeq, version, asked, taken, validated, restarted,
                 overtaken>>

(* The process is killed and started again.                                  *)
Crash ==
  /\ at' = [c \in Caller |-> "idle"]
  /\ rateLock' = Nobody /\ draft' = [w \in Writer |-> {}]
  /\ stateLock' = Nobody /\ loaded' = [c \in Caller |-> Nothing]
  /\ cached' = None /\ collecting' = None
  /\ raced' = (raced \/ \E w \in Writer : Unrecorded(w))
  /\ UNCHANGED <<clock, slots, seq, writeSeq, checkSeq, version, asked, taken, validated,
                 restarted, overtaken>>

Tick ==
  /\ clock < MaxClock
  /\ clock' = clock + 1
  /\ UNCHANGED <<rateVars, stateVars, at, version, cacheVars, asked, history>>

Next ==
  \/ \E w \in Writer : LoadSlots(w) \/ SaveSlots(w) \/ GiveUp(w) \/ Write(w)
                          \/ BeginRecordWrite(w) \/ RecordWrite(w) \/ Invalidate(w) \/ Abandon(w)
  \/ \E c \in Checker : BeginCheck(c) \/ CheckPasses(c) \/ CheckFails(c)
                           \/ BeginRecordCheck(c) \/ RecordCheck(c)
  \/ Restart \/ Reload \/ RestartRefused \/ Collect \/ StoreCollected \/ Crash \/ Tick

Spec == Init /\ [][Next]_vars

-------------------------------------------------------------------------------
(* Properties.                                                               *)

(* However many writers come at once, and whatever crashed, the writes let   *)
(* through are MinInterval apart and no sliding minute holds more than       *)
(* MaxPerMinute of them (fs_write.py 454-476).                               *)
SlotsRespected ==
  /\ \A t \in Time : taken[t] <= 1
  /\ \A t, u \in Time : taken[t] > 0 /\ taken[u] > 0 /\ t < u => t + MinInterval <= u
  /\ \A t \in Time :
       Cardinality({u \in Time : taken[u] > 0 /\ u <= t /\ t < u + Window}) <= MaxPerMinute

(* Home Assistant comes back up only on a configuration that passed          *)
(* /core/check, unless a write came between a verdict and its record or      *)
(* between the guard and Home Assistant's reading, or a restart, a crash or  *)
(* a failure between a write and its record (fs_write.py 546-554, 610-658,   *)
(* supervisor.py 203-210).  Concurrent records and restarts of the add-on    *)
(* leave the order of writes and checks intact.                              *)
RestartGuarded == raced \/ restarted \in validated

(* "impide reiniciar el core con cambios en /config sin validar"             *)
(* (fs_write.py 13-15).                                                      *)
RestartsValidated == restarted \in validated

(* What the cache says is true of the files as they are, except while the    *)
(* writer of a change has yet to invalidate it, or after an invalidation     *)
(* that came during a collection or never came (yaml_include.py 15-17).      *)
CacheFollows ==
  cached \in {None, version} \/ overtaken
    \/ \E w \in Writer : Unrecorded(w) \/ at[w] = "recorded"

(* The cache is gone after every write (yaml_include.py 15-17,               *)
(* tools/filesystem_write.py 308-316): with no write under way it is never   *)
(* older than the files.                                                     *)
CacheFresh ==
  (\A w \in Writer : at[w] \in {"idle", "reserving", "reserved"}) => cached \in {None, version}
===============================================================================
