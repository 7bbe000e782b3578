# Hermes in TLA+

Formal models of Hermes, the Home Assistant add-on that serves an MCP server
to Claude (`src/hermes/src/hermes`), the TLC runs that check them on small
instances, and the TLAPS proofs of what matters most. Source paths below are
relative to `src/hermes/src/hermes`.

    tlc -workers 2 -config Confirmation.cfg MCConfirmation
    tlapm ConfirmationProofs.tla

## 1. The system

Hermes is one Python process: an asyncio event loop that serves HTTP requests,
one background task that keeps a WebSocket to Home Assistant (HA), one hourly
cleanup task, threads for file access, and files under `/data` and `/config`
that outlive the process. The Supervisor restarts the process when it dies.
What is hard about it is therefore not parallelism of instructions but

- **awaits**: between two of them a handler is alone, across one it is not;
- **files and crashes**: every multi-step operation can stop between two steps;
- **HA at the other end of a wire**: requests that are carried out after their
  timeout, answers in any order, a connection that drops under a waiting caller;
- **the client**, which retries what it believes was lost.

| Component | State | Operations | Interacts with | Correct when |
|---|---|---|---|---|
| Two-step confirmation (`security.py`, `tools/_common.py`) | one file per token in `/data/confirmations` | preview, validate, complete, cleanup at boot and hourly | every destructive tool; HA's REST and WebSocket | a token buys at most one run, of the previewed action, inside its window; no file stays or returns |
| HA WebSocket client (`ha.py`) | the socket, `_connected_event`, `_pending_ws_responses`, `_pending_ws_subscriptions`, `_event_subscription_queues`, the id counter, `_ws_request_lock` | connect, authenticate, subscribe, read loop, `ws_send`, one-shot subscription, `ws_subscribe`, unsubscribe, fail pending | every tool; HA | nobody waits for an answer that cannot come; who left leaves nothing behind; the cache follows HA |
| State cache (`ha.py`) | `_state_cache` | snapshot, `state_changed`, `get_state(s)` | read tools | an entry is never older than what was read before it; nothing falls through between subscription, snapshot and events |
| Event waits (`tools/wait_for_event.py`) | `_WaitManager`: at most five waits | wait, cancel | WebSocket client | a place is given back however the wait ends; the limit holds |
| OAuth server (`oauth.py`) | clients, codes and tokens, a file each, under `/data/oauth`; login counters in memory | register, authorize, token (code, refresh), revoke, validate, cleanup | HTTP middleware, Claude | one session per code; refresh chains survive crashes and retries; revocation reaches the whole chain; limits hold |
| Writes under `/config` (`fs_write.py`, `tools/filesystem_write.py`) | `write_rate_limit.json`, `check_config_state.json`, two locks, per-file backups | write, delete, move, set secret, restore | confirmation, Supervisor | write slots hold; HA is not restarted on an unchecked configuration; backups exist before files change |
| Supervisor tools (`tools/supervisor.py`) | none of their own | check core config, restart core | writes | as above |
| Include tree cache (`yaml_include.py`) | `_cached_paths`, its lock | collect, invalidate | file tools | never older than the files |
| Safety backups (`tools/backups.py`, `fs_write.py`) | the mark in `last_safety_backup.json` | the tool, the trigger in front of every write | writes, Supervisor | one backup per window; no write without one |
| Backups, add-ons and their jobs (`tools/backups.py`, `tools/addons.py`) | `pending_jobs.json` and its lock | create, restore, poll, track, purge | Supervisor | a job somebody was told of is listed for an hour, and no longer |
| Tool handlers (`tools/_common.py`, `automations`, `scripts`, `scenes`, `lovelace`, `registry_*`, `config_entries`, the helpers, `zones`, `persons`, `ha`) | none; the items are HA's | resolve a name, read, preview, merge, change, answer | confirmation, HA, HA's own interface | tokens are settled, answers are true, what was shown is what is changed, no field is lost |
| Config entry flows (`tools/config_entry_flows.py`) | flows open in HA | start, continue, abort | HA | no flow is left open that nobody knows of |
| Service policy (`service_policy.py`, `tools/ha.py`) | `_auto_restricted`, in memory | boot scan, scan after a reload, classification after a save | tool handlers | a dangerous script asks before it runs |
| HTTP middleware (`middleware.py`) | rate limiter tables | admit, evict | everything | a bounded table does not forgive |
| Boot, crash loop, health (`__main__.py`, `crash_loop.py`, `health.py`) | start times on disk, the health answer | start, give up, answer | Supervisor | it gives up when the threshold of starts is reached inside a window, and only then |
| Paths and reading (`fs.py`, `tools/filesystem.py`), configuration, logging, read-only tools | none that changes | pure | | |

The hazards at their lines, with the properties that cover each, are the
`hazards` of `PROJECT.json`.

## 2. Modules

    ConfirmedAction <--(refines)-- Confirmation <-- MCConfirmation
                                       ^-- ConfirmationProofs
    HaWebSocket  <-- MCHaWebSocket
         ^-- HaWebSocketProofs
    StateCache   <-- MCStateCache
         ^-- StateCacheProofs
    OAuthTokens  <-- MCOAuthTokens
         ^-- OAuthTokensProofs
    ConfigWrites <-- MCConfigWrites
         ^-- ConfigWritesProofs
    SafetyBackups <-- MCSafetyBackups
         ^-- SafetyBackupsProofs
    ToolCalls, ToolPlans <-- MCToolCalls
         ^-- ToolCallsProofs
    EventWaits, AutoRestricted, Flows, Jobs, Logins, CrashLoop, AuthFailures,
    PublicLimit, Registrations, FileEdits, FileBackups <-- Resources <-- MCResources
                                                              ^-- ResourcesProofs

Each component has one module that can be read alone. In all of them *a step
runs from one await (or one disk operation, where a crash matters) to the
next*; history variables are marked `history:` where they are declared and no
guard of the code reads them. Operators commented `Mutant:` are deliberately
wrong variants of a definition: with the variant in its place the named
property fails under the same configuration, so that the run is known to look
at the code it is about. No specification uses them.

### Confirmation (`security.py`, `tools/_common.py`, `__main__.py`)

| Model | Code |
|---|---|
| `state`, `bound`, `left` | the fields `state`, `action_hash`, `expires_at` of the token's file |
| `Preview` | `create_confirmation_token` |
| `Accept`, `RefuseExpired` | `validate_confirmation_token`: one step, there is no await between its read and its `os.replace` |
| `Send`, `Complete`, `Fail`, `Abandon` | the handler around its await of HA; `Abandon` is the exception that nobody turns into `complete_confirmation_token` |
| `HaApply`, `HaLose` (external) | a request that was sent is carried out, or never is, before or after its timeout |
| `Cleanup`, `Boot`, `Crash`, `Tick` | the hourly task, boot step 7, the end of the process, `time.time()` |

Time is what is left of a file's life: `left[t] = 0` is
`time.time() > expires_at`. The action hash is modelled as equality of
(tool, canonical arguments).

`ConfirmedAction` is the promise without files, handlers or crashes: grants,
starts while fresh, an effect per start at most. `Confirmation` implements it
(`ImplementsPromise`) with the refinement mapping at its end.

### HaWebSocket (`ha.py`, `tools/wait_for_event.py`)

`task` is where `_run_background` is suspended (`asleep`, the handshake's
`hello`, `auth`, `confirm`, `snapshot`, then `read`); `at[r]` where call `r` is
(behind the readiness gate, waiting for its result, for its event, on its way out
through `_ws_unsubscribe`). The three tables are `pendR`, `pendE`, `queues`; futures and
queues belong to the call.

| Model | Code |
|---|---|
| `Gate`, `GateCancel`, `Unavailable` | `requires_ready`, the wait for `_ws_request_lock`, `self._ws` looked at again |
| `Send`, `SendRaises`, `SendCancelled` | the three methods up to the end of `send_json`: it succeeds, the connection is lost under it, the call is cancelled at it. Only `ws_send` undoes what it set up (`except BaseException`, `ha.py:631`) |
| `Answered`, `ResultTimeout`, `ResultCancel` | the ends of the wait for the `result` |
| `OneShotWakes`, `TakeSentinel`, `TakeMatch`, `EventTimeout`, `EventCancel` | the ends of the wait for an event |
| `Unsubscribed`, `UnsubscribeCut` | `_ws_unsubscribe` around its lock and its `send_json` (`ha.py:790-800`): through, or cancelled at one of them, which `except Exception` does not take |

`cut` is the history of the calls that were cancelled where nothing undoes what they
had set up.
The network (`link`, `wire`, `inbox`) and HA (`haAuth`, `haSubs`) are external:
HA answers commands in any order, handles subscribe and unsubscribe in order,
keeps subscriptions per connection; a lost link loses what was on its way to HA
and any suffix of what was on its way back.

### StateCache (`ha.py`)

The same background task, seen from `_state_cache`. A state is its
`last_updated`, a number that HA gives to every change; 0 is "no entity" in HA
and "no entry" in the cache.

| Model | Code |
|---|---|
| `cache`, `ready` | `_state_cache`, `_connected_event` |
| `Connect` | `ws_connect`, authentication, sending of `subscribe_events` |
| `Confirm`, `Misconfirm` | `_subscribe_state_changes` after its `receive`; the second is the case of `SubscribedBeforeSnapshot` below and sets `mistaken` |
| `HaSnapshots`, `Populate` | HA's answer to `GET /states`, and its arrival; `Populate` reaches `_connected_event.set()` without suspending |
| `Read` (`Applied`, `Newer`, `Removes`) | `_handle_ws_message` on a `state_changed` event |
| `ReadClosed`, `HandshakeFails` | the two ways back to `_run_background`, which clears `ready` |
| `Change`, `Remove`, `HaSubscribes`, `Lose` | HA and the network (external) |

Commands, waits and the steps of the handshake are `HaWebSocket`'s; the two modules
meet in `ready`. An entity that was removed just before a snapshot can come back
for as long as its removal event is behind its last change event in the
stream; `Follows` allows that, since the event is on its way.

### OAuthTokens (`oauth.py`)

Issue `n` writes access token `n` and, unless it answers a retry, refresh token
`n`; the code names the authorization. The handlers of the token endpoint do
not await, so one runs at a time, but a crash or a write that raises ends it
between any two disk operations: one step is one disk operation, `pc` says
which is next, `Abort` is the crash.

- code: `Authorize`, `RefuseCode`, `RedeemCode` (unlink first), session limit
  (`EvictAccess`, `EvictFile`), `GrantAccess`, `GrantRefresh`, `Answer`
- refresh: `Present` (head of a chain), `PresentExpired`, `DropAccess`,
  `NewAccess`, `NewRefresh`, `MarkRotated`, `Answer(arrives)`
- retry inside the grace: `Replay`, `DropAccess`, `NewAccess`, `KeepHead`
- reuse after it, and revocation: `Reuse`, `Revoke`, `RevokeAccess`, `RevokeFile`
  along the successor chain

### ConfigWrites (`fs_write.py`, `tools/filesystem_write.py`, `tools/supervisor.py`, `yaml_include.py`)

The content of `/config` is a version number. `LoadSlots`/`SaveSlots` are the two
awaits of `acquire_write_slot` under `_rate_lock`; `BeginRecordWrite`/`RecordWrite` and
`BeginRecordCheck`/`RecordCheck` are load and save of `check_config_state.json`
under `_config_state_lock`; `Write` is the thread that replaces the file;
`BeginCheck`/`CheckPasses`/`CheckFails` the call of `/core/check`; `Restart` the
guard and the request to the Supervisor, `Reload` (external) Home Assistant reading `/config` as it comes
back up, any time later, and `RestartRefused` the request that failed; `Invalidate`, `Collect`, `StoreCollected` the include cache.
`Crash` may come anywhere.

### SafetyBackups (`tools/backups.py`, `fs_write.py`)

| Model | Code |
|---|---|
| `mark`, `Recent` | `last_safety_backup_at` on disk; the hard limit and the window, which both paths check in this order |
| `Reuse`, `Ask` | both paths up to their await: `sv_create_safety_backup`, and `maybe_trigger_safety_backup` in front of the five tools that change files |
| `Answered` | the tool after its request: it marks the time it was called at |
| `AnsweredPlain` | the trigger on an answer without a `job_id`: it marks it as a backup at once |
| `StartPolling`, `SeenDone`, `PollTimeout` | the trigger's loop: it marks the time it sees the job done, well or not, and only then does the write go ahead |
| `GiveUp`, `Crash` | refusals, time-outs, unusable answers, failing jobs and disks; the end of the process |
| `SvTake`, `SvFinish`, `SvFail` (external) | the Supervisor, which may carry out a request whose caller gave up |

A job that has failed may say `done` with its poll, and the loop then takes it for made
(`Done`), or `fail` only, and the loop gives up; a poll that brings no news is no step. `safety_backup_enabled` is on.
Two things beside the model: the loop polls `/jobs/{id}/info` and
`sv_get_job_status` asks `/jobs/{id}`; the trigger stores its job under a key that the tool does not
read, so that the tool may refer to an older backup than the one the mark tells of.

### ToolCalls and ToolPlans (the handlers in `tools/`)

A handler is the sequence of what it awaits: `ToolPlans` has one plan per
handler, read off its code (`ask` without a token, `run` with one, which exceptions it
catches, whether its token is bound to the resolved id), and `ToolCalls` says what
each step does.

| Model | Code |
|---|---|
| `Checks` | `requires_ready`, validation of arguments |
| `Resolve` | `_resolve_*_config_id`: the id in the state of the entity; the entity id itself, `Raw`, where there is no state or no id in it; or a failure, since a state that is not cached is asked for |
| `Find`, `Peek` | `_get_dashboard_meta_by_url_path`, inside a handler's `try` or, as "locate", before it; "peek" only wants to know whether it is in a YAML file |
| `Reads` | "look" for a preview (a failure shows nothing), "read" and "fetch" (it is reported) |
| `Exists` | `entity_exists` |
| `Issue`, `Validate`, `Complete` | `create_`, `validate_` and `complete_confirmation_token` |
| `Change` | "save" replaces, "change" is merged by HA, "replace" (options of an add-on) sets the given fields and drops the others, "put" sends what was read and merged here, "remove" removes |
| `PutNew`, `RemoveNothing`, `SaveIfNone`, `Track` | the other requests that change something, and the note of a job |
| `Fail` | an await raises: `except HAConnectionError`, `except Exception`, or nobody |
| `Rename`, `Edit` (external) | others change the same item in HA's interface |

An item is a function from two fields to the author of their value: that is what
tells a replacement from a merge and one writer from another. Families with the
same plans (the schedules, zones and registries among themselves) are checked once.

### The parts that keep something for a while

| Module | State in the code | Actions |
|---|---|---|
| `EventWaits` | `_WaitManager._active`, a queue per wait | register, subscribe, event, cancel, time-out, unsubscribe, a cancellation at each await |
| `Flows` | flows in HA | start, answer, abort, continue, with every answer that may be lost |
| `Jobs` | `pending_jobs.json` | launch, note, tell, poll, mark, clean up, a file that cannot be read, crash |
| `AutoRestricted` | `_auto_restricted`; what HA has loaded; `scripts.yaml` | scans in a thread, which may fail to read the file, saves, with a shorter list than the scans', reloads, edits, restarts |
| `FileEdits` | `secrets.yaml` and the entry `secrets.yaml.mcp_tmp` | `fs_set_secret` and `safe_write_file` by system call, failures, kills |
| `FileBackups` | the files, their copies | copy, rotate, trim; write, delete, move, restore |
| `Logins` | `_login_ip_state`, the count of all | failed login, login, time |
| `Registrations` | the files of `_CLIENTS_DIR` | register with pruning, some of whose deletions may fail, authorize, exchange |
| `AuthFailures` | `_AUTH_FAILURE_BUCKET` | `record_auth_failure` with its eviction |
| `PublicLimit` | `RateLimitPreAuth._requests` | `dispatch` with its purge |
| `CrashLoop` | `startup_log.json` | `check_crash_loop` by its read and write, ends of the process, damage |

`Resources` composes them, and `MCResources` checks them in one run. They share no variable, in the code or here, and
none of their properties speaks of two of them: a behaviour of the composition
projected to one part is a behaviour of this part. It is therefore enough to
look at behaviours in which one part moves, which `part` names, and the run has the sum
of their states instead of the product. Each part's property is stated in
its own module, and the run checks their conjunctions by subject: `NothingStranded` is `PlacesHeld`
(`EventWaits`), `NoOrphans` (`Flows`) and `JobKept` (`Jobs`); `FilesSurvive` is `FilesWhole`
(`FileEdits`) and `CopiesKept` (`FileBackups`); `LimitsHold` is `FloodEvictsItself` (`AuthFailures`),
`PublicBounded` (`PublicLimit`), `OneAloneLocksItself` (`Logins`), `StartsBounded` (`CrashLoop`) and
`ClientsKept` (`Registrations`). Every conjunct has a mutant that breaks it and a theorem of its own. The constants of
`Resources` are those of the parts; `Resources.cfg` gives each its small instance.

## 3. Runs

| Run | Instance | Shows |
|---|---|---|
| `confirmation` | 2 tokens, 2 actions, 2 handlers, TTL 2 | `AtMostOnce`, `NoResurrection`, `ImplementsPromise`, `Drained` |
| `ha_websocket` | two commands, and every two different of {command, one-shot, wait}, 2 connections, 1 event | `NobodyForgotten`, `WaitsAreLive`, `NothingLeftBehind`, `LossIsTold` |
| `ha_websocket_order` | the same without events | counterexample to `SubscribedBeforeSnapshot` |
| `state_cache` | 2 entities, 5 changes, 2 connections | `Follows`, `NoEntryGoesBack`, `RightEntryStays`, `LossEndsReady` |
| `oauth_tokens` | 3 codes, 3 clients, 3 issues, clock to 2, 2 sessions | `OneLiveAccess`, `SessionsBounded`, `SessionSurvives`, `RevokedIsGone`, `CodeOnce`, `ExpiryKept` |
| `safety_backups` | 1 tool call, 2 writes, limit 1, window 2, polling 1, clock 3 to 5 | `Spaced`, `WriteCovered`, `PollEnds` |
| `safety_backups_reuse` | the same | counterexample to `RecentBackupReused` |
| `config_writes` | 2 writers, 1 check, minute of 3 ticks with 2 slots, 3 versions, 4 records | `SlotsRespected`, `RestartGuarded`, `CacheFollows` |
| `config_writes_restart` | the same | counterexample to `RestartsValidated` |
| `config_writes_cache` | the same | counterexample to `CacheFresh` |
| `tool_calls` | 2 sessions, every pair of plans of 16 families, 2 items of 2 fields, 1 change from outside | `TokensSettled`, `AnswersTrue`, `WritesWhatWasShown`, `FieldsKept` |
| `resources` | the eleven parts, see below | `NothingStranded`, `RestrictedAsks`, `FilesSurvive`, `LimitsHold` |

Every passing run also checks its module's `TypeOK`.

**Bounds.** Confirmation needs no bound: time saturates and a token is issued
once; a second token is there so that one call's arguments can meet another's
token, a second handler for the double confirmation. `MaxConn = 2` is the
smallest number with a reconnection, one event is what a wait or a one-shot
needs; two calls are the smallest number that can interfere in the tables, and
since calls are interchangeable each unordered pair of methods is taken once. Two calls of different methods share the
socket, its lock and the result table, and each has a table that the other has not; two commands share all they use.
Two one-shots and two waits, which meet only as entries of one more table under ids of their own, are left to the
proofs, which hold for any number of calls: with them the liveness property would take TLC too long.
In `state_cache` five changes are
an entity that is made, removed and made again while another changes twice, so that
events of both lives can be on either side of a snapshot. `MaxIssue = 3` is a session that is rotated twice, or one that is rotated and
another that is opened; three codes against two sessions make an eviction
happen; the grace of 0 ticks still allows a retry in the tick of the rotation, and
`MaxClock > Life` lets authorizations run out. In `safety_backups` three calls
are two that overlap and one that comes after; the clock runs through one whole window and polling
ends inside it. Three versions of
`/config` are the initial one, one that is checked and one that is written
meanwhile; four records allow two writes and two checks in any order.

In `tool_calls` two sessions are one handler and one that is in its way, and one
change from outside is what can come between a preview and its confirmation, or a
read and a write; a second one would only repeat what the first has marked as stale.

In `resources`: three waits for two places; two flows, two jobs with an hour of 2 ticks
and a clock that runs past it twice; two calls on two files with room for two copies,
and a clock slow enough for two copies in one second; three writers of secrets, so that
two can succeed one after the other beside one that fails; four
addresses for a table of two, so that the order of eviction matters; three for a
limiter with room for one and a purge at every second request; three clients and
a limit of two. The numbers of `CrashLoop` (threshold 2, window 3, three entries kept) and
of `Logins` (threshold 2, window 6, locks 1, 2, 4, four failures of one address in a window,
global threshold 5) are the code's scaled down so that every comparison is met from both
sides: a ring larger than the threshold, a lock that reaches its maximum, a window that
ends during a lock. Symmetry
is over sets of interchangeable model values and is not used in the runs with
liveness properties. Deadlock is not checked where the bounds let the system stop.

**Fairness.** `Confirmation`: weak fairness of `Tick`, of the hourly `Cleanup`
(an asyncio task that nothing cancels) and of `Boot` (the Supervisor restarts the
add-on); none for handlers, since a handler may die, so `Drained` does not rest
on them. `HaWebSocket`: weak fairness of the background task and of each call
whose future or queue was filled: the event loop runs what is ready. None for
timeouts and cancellation (so `LossIsTold` does not hide behind a timeout) and
none for HA. `StateCache`: weak fairness of `Read` and `ReadClosed`, the reading
loop; `receive()` returns on a dead connection at the latest when the heartbeat
of `ha.py:398` is not answered. `SafetyBackups`: weak fairness of time and of the
loop that looks at it; none for the Supervisor, so `PollEnds` does not rest on an
answer. The other modules state no liveness and no fairness.

### What the counterexamples say

- **`SubscribedBeforeSnapshot`** (`ha.py:494`). The comment at `ha.py:407-413` wants the
  subscription to be there before the snapshot, lest what changes in between
  be lost. `_subscribe_state_changes` takes the first successful `result` as the
  confirmation, without looking at its id. The socket is already published in
  `self._ws`, and a handler that passed the readiness gate before the drop can send on it:
  the answer to its command, overtaking, is taken for the confirmation.
- **`RestartsValidated`** (`tools/filesystem_write.py:305`). `fs_write.py:13-15` says the logical
  clock keeps HA from being restarted on changes nobody validated. The file is
  replaced, and the write recorded, in two awaits; a restart whose guard is
  evaluated in between goes through. A crash or a failing record between them, and a write between
  HA's verdict and its record, have the same effect. So does a write after the guard: `sv_restart_core`
awaits the Supervisor (`tools/supervisor.py:204-210`), HA goes down, and reads `/config` only as it comes back
up. `RestartGuarded`, which
  holds and is proved, says that these races are all there is.
- **`CacheFresh`** (`yaml_include.py:336`). An invalidation that comes while a thread
  collects the include tree is overwritten when the thread returns; the cache
  then is of before the write until the next write. `CacheFollows`, proved,
  says that this and an invalidation that never came are the only ways.
- **`RecentBackupReused`** (`tools/backups.py:353`). `backups.py:21-24` and `README.md:361` of the
  repository promise no second full backup inside the window. The mark is read
  before the request and written after its answer, by the trigger only when a
  poll sees the job done: a call in between asks again. A backup that outlives the 300 s of
  polling, a lost answer or a crash leave a finished backup unmarked for good.
  `Spaced`, proved, says that these races are all there is.

### Where the words and the code differ, and no run shows it

Four promises of a docstring or of the repository's `README.md` are not kept. The models follow the code, and the properties below
say what holds instead:

- **A backup that failed** (`fs_write.py:778`). The docstring of `maybe_trigger_safety_backup` wants the
  write called off when the backup failed (`fs_write.py:679-680`). The poll looks at `done`, which says
  that the job has ended, before the states that say how (787): a job that failed and is `done`
  lets the write go ahead, and is marked, so that others go ahead on it inside the window. `WriteCovered` therefore
  speaks of jobs that ended.
- **Options of an add-on** (`tools/addons.py:313`). The docstring of `sv_set_addon_options` says that options that are not
  given stay as they are (`addons.py:257-258`). They are read for the preview alone; the given ones are posted as
  the add-on's options, and the Supervisor keeps no other. `FieldsKept` excepts the step "replace".
- **Names that cannot be resolved** (`tools/automations.py:62`). An entity id whose entity has no state, or no id in it, is
  used as an id, and the docstrings say that HA will not know it (`automations.py:42-45`, `scenes.py:39-41`). So it is with a
  read and a delete; a save is stored under any id, and makes an item beside the one the entity stands for.
  `WritesWhatWasShown` and `AnswersTrue` except such names.
- **Scripts marked on save** (`tools/ha.py:329`). `README.md:375-378` of the repository has scripts marked on startup and on
  save, by a denylist that the options add to. `classify_saved_config` knows the shipped denylist only: a script that calls
  an added service is not marked until the next scan. `RestrictedAsks` excepts it.

### What the properties except, and why

Of `tool_calls`:

- `WritesWhatWasShown` excepts a name that comes to stand for another item between the
  preview and the change, where the handler resolves it again after the token was
  accepted (`automations.py:215`, scenes, deleting a dashboard). `ha_update_lovelace_dashboard_metadata` binds
  its token to the resolved id and needs no exception. It also excepts a name that could not be resolved in
  one of the two calls: the change then goes to the item under the raw name, not to the one that was shown, or the
  other way round. The one save
  without a token is that of a scene that was not there when it was looked for.
- `FieldsKept` excepts an item that was edited between the read of
  `collection_update_flow` and its write (`_common.py:134-175`), and says nothing of tools that
  replace a whole configuration, or all options of an add-on.
- `AnswersTrue` excepts "not found" of the dashboard tools, whose list is empty when it could not be had
  (`lovelace.py:112-130`), and of names that could not be resolved: HA does not know the raw name, while the item is there
  (an entity that is disabled has no state).
- `TokensSettled` leaves tokens executing after an exception that nobody catches: most
  registry, add-on and backup tools catch `HAConnectionError` only, so that a full disk or a
  transport that fails under aiohttp goes through. They expire (`Drained`).

Of `resources`:

- `PlacesHeld`: a wait that is cancelled once more while it unsubscribes keeps its place
  until the process ends (`wait_for_event.py:354-357`; after five of them the tool refuses
  every call).
- `NoOrphans`: a flow whose opening was not heard of, or whose abort failed, stays open and is
  answered as aborted all the same. An options flow has no abort tool, and one that was
  taken to an external step by a client stays open; the client has its id.
- `JobKept`: a `pending_jobs.json` that cannot be read, or is damaged, counts as empty when a job is noted or marked
  (`addons.py:759-777`), and the next note replaces it. The jobs that it hid are the history `jobsMissed`.
- `ClientsKept`: a deletion that fails, or a listing that does, leaves the table over its limit by just
  these files (`undeleted`; `oauth.py:133-155`).
- `FilesWhole`: writes that overlap share one temporary name, and one may rename what the
  other is filling; the slots make this possible only behind a safety backup that takes long. If
  the process is killed just then, half a text stays in place, and the next writer keeps what it can read of it. A
  `secrets.yaml` that exists and cannot be read counts as empty and is replaced
  (`filesystem_write.py:807-811`). Secrets lost in these two ways are the history `unread`; outside of
  it every secret that was answered as written by a call that did not overlap is in the file.
- `CopiesKept`: a restore at the limit makes a copy of its own first and may
  rotate away the one it was asked for; it then answers that it is missing, and the file is as it was. Copies
  that go for the total size, two copies of a path in one second, and a rotation by a call
  that was overtaken by others are named in the comment.
- `RestrictedAsks` excepts what the process could not learn of: a lost answer, a change
  made outside, `ha_reload_scripts`, which is not followed by a scan, a file that is changed between a
  reload and its scan, a file that the scan cannot open or parse (`tools/ha.py:273-283`; a tag of HA's own, `!secret`, is
  enough), and a save that calls only what the options of the add-on forbid.
- `OneAloneLocksItself`: `oauth.py:1216-1220` says that the global lock of the login takes failures of
  several addresses. One is enough when the count of all begins in the middle of its own
  window, after somebody logged in, say: the own window then ends inside the count's, and
  its locks start from the shortest again. With the code's own numbers (5, 300 s, 2 s
  doubling to 300 s) nine failures before and eleven after the end of the window
  fit in 300 s, which is exactly the 20 of `LOGIN_GLOBAL_FAIL_THRESHOLD`.
- `PublicBounded`: an address forgotten at the limit of the public limiter's table starts anew.
- `StartsBounded`: starts that could not be noted, or were in a log that
  was damaged, do not count.

Of the others:

`NothingLeftBehind` excepts the calls in `cut`: a subscription cancelled while its frame is written
(`ha.py:686`, `748`), a one-shot cancelled at either of its waits (`691`, `708`: its entry in the table stays), and any
subscription cancelled while it unsubscribes (`791-800`). They do leave their table entry, their queue or HA's
subscription until the reconnection. Whatever else ends a call, time-outs, errors, the sentinel and a cancelled
command or wait among it, leaves nothing.
`RevokedIsGone` excepts a revocation cut short by a crash: it erases link by
link from the presented one, and nothing resumes it. It speaks of revocations
that went through before the authorization ran out: afterwards the cleanup
takes links one by one and an access token may be out of a revocation's reach
until its own expiry. `SessionsBounded` counts sessions somebody can hold; a
crash inside a grant can leave a refresh token nobody knows, which occupies
a place until it expires or is evicted.

`Follows` excepts a connection whose subscription was confirmed by another
command's result, the case that `SubscribedBeforeSnapshot` shows. It speaks of
live connections: what `get_state` answers between a loss and the reconnection is
the cache as it was (`ha.py:253`; `requires_ready` is asked once, before).

`WriteCovered` says that no write goes ahead before its backup has come to an end, not that it came to a good
one: the code does not see to that. It takes the tool's mark for a backup although the tool writes it when
the job starts, so that a write inside that window goes ahead while the backup is running, and
an answer that names no job, which the trigger marks as a backup that was made (`fs_write.py:739-746`).

## 4. Proofs

Assumptions are the modules' own, and every one of them is evaluated by a run:
`ConfirmationAssumption`, `ConfigWritesAssumption`, `StateCacheAssumption`,
`SafetyBackupsAssumption`, `HaWebSocketAssumption` (bounds are numbers),
`OAuthAssumption` (the same, and at least one session is allowed),
`ToolCallsAssumption` (three names of authors are not sessions), `ResourcesAssumption` (limits are
numbers, there may be one client at least, two names of texts are not writers, the log of starts has
room for as many as refuse one — the code's are 20 and 10 —, a failure is recent when it happens, a
purge comes after some requests), `LoginsAssumption` and
`PlansAssumption`, the shape of the handlers' plans, explained below.

`LoginsAssumption` says that the numbers of the login limits fit each other. Its core is `Slows`: added up, the
locks of one address up to its last failure before the global threshold take longer than the window in which
failures are counted. The code's do: with locks from the 5th failure on, of 2 s doubling to 300 s,
the locks of failures 5 to 12 alone take 510 s, the window is 300 s and the threshold 20. The property is false without it.
It also says that the clock (`time.time()`) starts more than a window after 0, since 0 is how the code
says "never", and that 2^k is a natural number, which is arithmetic the provers lack.

**`ConfirmationProofs`**, for every set of tokens, actions and calls and every TTL.
`AtMostOnce` is not inductive: it speaks of what HA did, and nothing in it
forbids a second request from being on its way. `IInv` adds

- `FilesInv`: a file, when there is one, is bound to the action its token was issued for;
- `WindowInv`: a pending file's remaining life and its age add up, so that
  accepting before expiry is accepting inside the window;
- `AcceptedInv`: an accepted token is no longer pending, and only accepted tokens have requests or effects;
- `HandlerInv`: a handler at work holds an accepted token, no two hold the same, and one that has not sent has no request or effect;
- `RequestInv`: requests on their way and effects together are at most one, and of the issued action.

Each part has its step lemma; `Inductive` puts them together. From it
`AtMostOnceHolds`, `NoResurrectionHolds` and `PromiseKept` (the refinement: initial
states map to initial states; `Preview`, `Accept`, `HaApply`, `Tick` are the
promise's steps, every other step stutters).

**`ConfigWritesProofs`**, for every number of writers and checks, every interval and bound.
`RestartGuarded` needs to know what a state that opens the guard means: `GuardInv`
says that when the last recorded check is not older than the last recorded write and no
write is unrecorded, the present version passed a check (or a named race
happened), and carries this through the verdict that is not yet recorded. It
rests on `LockInv`: what a caller loaded under `_config_state_lock` is still what
is on disk when it saves. `CacheInv` does the same for the cache: a collection
under way has read the present version unless it was overtaken. `SlotInv` says that the
slots on disk are exactly the writes let through, one each, and that whoever is about to save under
`_write_rate_lock` adds one that is later than all others by the interval and found room in its
minute; every window that ends at or after the new slot then holds no more than the limit (`CountStays`,
`SlotStep`, by cardinalities). Theorems: `TypeCorrect`, `RestartGuardedHolds`, `CacheFollowsHolds`, `SlotsAreRespected`.

**`StateCacheProofs`**, for every set of entities, and any number of changes and connections.
None of the three properties is inductive, since none says which events are on
their way. `IInv` adds

- `StreamInv`: events on their way are in the order of their times and not of after what HA has;
- `LastInv`: the last event on its way of an entity says how the entity is;
- `PastInv`: the cache, and a snapshot that was answered, are of HA's past;
- `ViewInv`: a view (the snapshot from the moment HA takes it, then the cache) is
  explained: it is what HA has, or the last event of the entity is on its way and
  will be applied.

`ViewInv` is where the order of `_connect_and_watch` enters: a snapshot taken after
HA subscribed is right when it is taken, and every later change is in the
stream. Reading an event brings the view nearer (`ExplainedRead`), a change
that is told keeps it explained (`ExplainedTold`). Theorems: `TypeCorrect`, `FollowsHolds`,
`NoEntryGoesBackHolds`, `RightEntryStaysHolds`.

**`SafetyBackupsProofs`**, for any number of calls and writes, every interval, window and
deadline. `Spaced` compares calls with each other, the code compares a call with the mark;
`MarkInv` joins them: the mark is not older than any recorded call that overlapped with none.
It is kept because whoever sets the mark back asked before (`LoneInv`: a call that
overlapped with none was over before the pending one asked). `CoverInv` says what
the mark stands for. Theorems: `TypeCorrect`, `SpacedHolds`, `WriteCoveredHolds`.

**`ToolCallsProofs`**, for any number of sessions, changes from outside, and *every* set of
plans of the promised shape. TLC runs the 16 families that `ToolPlans` translates from the
handlers; the proofs need of a plan only `PlansAssumption`: nothing is looked up or
refused once something was changed, success is reported only of what was asked
of HA, what is merged was read just before, and nothing is changed before the token was
accepted. TLC evaluates it on the families, so that a handler that broke the order would fail the
run; a handler added later is covered by the theorems if it keeps to it. None of
the properties is inductive: they speak of an answer, the hazards lie before it. `IInv` adds, session by session,

- `Phase` and `Remaining`: what is left of the plan is in the order the plan promises, *given* what the steps
  before have done and the state of the token. This is the plan's shape carried along the run;
- `Current`: what is about to be merged is what HA has, unless the item was edited meanwhile;
- `Names`: the session works on what the name stands for and its preview was of that, unless it was renamed;
- `Settled`, `Truthful`: the answer, the token and what was done agree.

To another session a step is at most a change behind its back (`Frame`, `FrameKeeps`), so
each step is looked at once for its own session and once for all others. Theorems: `TypeCorrect`,
`TokensAlwaysSettled`, `AnswersAlwaysTrue`, `WritesOnlyWhatWasShown`, `FieldsAlwaysKept`.

**`OAuthTokensProofs`**, for every set of codes and clients, every number of issues, life, grace and
limit of sessions. A handler makes up to five disk operations, and a crash may part any two, so
the properties are only true of what *left* the process; `IInv` says what is true in between:

- `CodeInv`, `IssueInv`, `LinkInv`: codes, issues and the `successor_hash` links agree, and a link leads to a later token of the same authorization;
- `HeadInv`: of what left the process an authorization has one head, and no living access token but its;
- `ChainInv`: every rotated token still leads on, or is one a revocation under way has yet to reach;
- `HandlerInv`: what a handler knows before each of its disk operations;
- `AnswerInv`: what is about to be answered will be the one head, and once the victims are
  evicted there is room for it. `SessionsBounded` counts, so this is where cardinalities are.

The properties themselves are conjuncts of `IInv`. Theorems: `TypeCorrect`, `CodesOpenOnce`, `OneAccessAlive`,
`SessionsAlwaysBounded`, `HoldersNeverStranded`, `RevocationIsComplete`, `RotationKeepsExpiry`.

**`HaWebSocketProofs`**, for any number of calls, connections and events. What a call waits for is spread over
three tables, three futures, the frames on their way, HA's subscriptions and the messages on
their way back; `IInv` ties them together:

- `TaskInv`: between two connections nothing is under way, and once one was dropped nothing is registered;
- `IdInv`: ids are never used twice, so an entry, a frame or a message is one call's;
- `OrderInv`: a subscription is not cancelled before it was asked for. HA handles both in order, and only
  commands overtake: without this an unsubscribe could be lost on a subscription yet to come;
- `CallInv`: a call's entries in the tables and its futures belong together;
- `LeavingInv`: a call on its way out has withdrawn what it had registered, unless it was cut, so that only HA's
  subscription is left of it until its unsubscribe frame is written;
- `SubInv`: of a call that waits no cancellation is on its way;
- `LiveInv`: a confirmed subscription, or one whose confirmation is still to be read, is of the connection that is up.

All eight ways in which a call ends come down to one (`LeaveFacts`), all steps that
write to one frame that is appended or lost (`SentFacts`, `NewsFacts`). Theorems: `TypeCorrect`,
`NobodyIsForgotten` (from `CallInv`), `WaitsStayLive` (from `LiveInv`), `NothingIsLeftBehind`.

**`ResourcesProofs`**, for any number of waits and places, flows, jobs, writers, clients, paths, copies and addresses. Each part
has an invariant and a step lemma of its own, and since the parts share no variable a step of one
leaves the invariants of the others as they are (`StepIInv`). What each adds to its property:

- `WaitsInv`: who was cut short is over, so that it will neither return its place nor take another; the places are counted by cardinalities;
- `FlowsInv`: a flow is in Home Assistant once it was asked for, and a client is told only by a tool that is through;
- `JobsInv`: an entry carries the time at which its job was noted, and one that is noted or told stays while it is recent;
- `KindsInv`: while an answer to a save is to come, what runs is what was saved;
- `AloneInv` and `TextInv` (in `EditsInv`): writers at work at the same time all overlap, so one that does not finds its own text under
  the temporary name, and nobody renames what a dead process left; a secret written is in the file *and* in every
  text that may yet replace it. With three writers TLC did not see that a text cut by a crash must count as unread:
  the attempt to prove `TextInv` showed it, and a run with four confirmed it;
- `ClientsInv`: registrations have different times, and whoever is gone was followed by as many as the limit. That pruning keeps
  one less than the limit (`PruningKeepsNewest`) counts the clients newer than the oldest one kept, which exists
  because `<` is well-founded; that who goes is old enough counts the times between;
- `CopiesInv`: the copies of a path are ordered by their numbers as by their seconds, and each number that was given is there with
  its version, or gone for a reason (`NumbersInv`); what a call has copied was given a number (`CallInv`), which is how the
  version it replaces comes to have one, unless the file was raced. A rotation drops by seconds, the property counts numbers:
  `RotatedIsOld` maps the newer copies into the numbers between, one of which is that of the copy just made
  (`Numbered`, which outlives the copy: it may be overwritten in the same second before the rotation comes);
- `StartsInv`: the entries of the log are, one to one, starts that were let through, in the order of their times, and a start that
  was noted has its entry unless the log is full of later ones (`LoggedAs`). So the guard never counts more than there were,
  and what it lets through was counted in full (`GuardCounts`): were the log shorter than the threshold, neither would follow;
- `FailuresInv`: the lists are times and the table exceeds its limit by the caller at most. `RejectEvicts` is the order of eviction:
  whoever goes with recent failures was among the victims, and who stays, but the caller, does not come before a victim;
- `LoginsInv`: an address never comes to the threshold of all, because each failure waits for the lock of the one before:
  `Spent` of its count, the sum of its locks, has gone by since its first failure or will have when its lock is over, and
  who has spent a window starts anew. What a single address is to blame for is its own
  count in its own window, unless the count of all began midway, which is where the property's exception comes from;
- `LimitedInv`: the times noted of an address are the end of the times at which it was admitted, from some place on, and only times
  that are no longer recent come before it, unless the address was forgotten (`EndOf`). Times are noted in their
  order, so the recent ones are the last (`RecentAreLast`), and cleaning a list keeps what the limit counts. Between two
  purges the table grows by one address with each request at most.

The types of the state ask for a little more (`TypesInv`): what the other invariants do not need, such as that a queue
is not longer than what was sent, and the bounds on clocks and versions. `TypeCorrect` joins them to `IInv`.

Theorems, one for each part: `PlacesAreHeld` (`EventWaits`), `NoFlowIsOrphaned` (`Flows`), `JobsAreKept` (`Jobs`), `DangerousOnesAsk`
(`AutoRestricted`), `SecretsStayWhole` (`FileEdits`), `CopiesAreKept` (`FileBackups`), `ClientsStay` (`Registrations`), `StartsAreBounded`
(`CrashLoop`), `OneAloneIsSlowed` (`Logins`), `PublicIsBounded` (`PublicLimit`), `FloodsEvictThemselves` (`AuthFailures`), and
`TypeCorrect` of all. `NothingIsStranded`, `FilesAreKept` and `LimitsAreHeld` join them to the properties that the run checks.

**Only model-checked**: the liveness properties `Drained`, `LossIsTold`, `LossEndsReady` and `PollEnds`, which are out of
the prover's reach. Every invariant and every action property of the passing runs is proved, and so is the
refinement. That the handlers' plans are those of the source is the translation of `ToolPlans`, and that they have the
promised shape is evaluated by TLC.

## 5. Not modelled

- In the modelled components: redaction and canonical JSON of arguments; attributes of states, and states without
  a usable `last_updated` (these are written unseen, `ha.py:158`);
  HTML, metadata and PKCE of OAuth; the walk over YAML includes and over configurations that
  call services; the layout of answers and previews. OAuth handlers
  run with the clock standing still. A config write cancelled while its thread goes on
  is not modelled, nor a `check_config_state.json` that cannot be read (the guard then opens), nor the
  10 000 addresses at which the brake on logins forgets the oldest.
- `middleware.py`: the limiter behind the authentication (one list for everybody, 388-427),
  the limit on the body, headers, the request log, the protocol version: nothing is kept from
  one request to the next but that list, and nothing is evicted from it.
- Boot: the order of the steps and the shutdown (one task, in program order); `health.py` only reads.
- `fs.py`, `tools/filesystem.py`: resolving, reading, listing and searching are functions of the
  files at the moment of the call; nothing is written and no other component depends on what
  was read. Configuration, logging, password policy, identifiers, network: run once at the
  start, or without state. Read-only tools: one request each. Annotations: tables.
  Their correctness is that of string and path handling, which a test reaches and a model
  checker over small sets of names does not help with.

## 6. Plan

1. Done: all modules above, the proofs of section 4.
2. Done: every invariant and action property that the runs check is a theorem; liveness stays with TLC.
   `AuthFailures` and `PublicLimit` drop what is old as a prefix of their lists, where the code filters: times
   are noted in the order of the monotonic clock, so both keep the same, and the provers cannot
   reason about a filter that takes an operator.
3. Possible next: the order of the middleware (the public limiter before the authentication, its
   failures behind it) as one composition, and `fs.py`'s path checks, which are
   not modelled at present.
