# TLA+ models of the background task manager

This directory holds TLA+ models of the background task manager service
(`src/`), the TLC configurations that check them, and `PROJECT.json`. That
file lists the components, the runs, the mutants, the source lines behind
every definition, the findings and the hazards.

## 1. The system

| Part | Source | What it does |
|---|---|---|
| Continuous task manager | `services/continuous_task/src/bg_continuous_task_mgr.cpp`, `.h` | Keeps `continuousTaskInfosMap_`, the long-running tasks. There is one record per uid/ability or per webview mode. It validates start and update requests against the declared modes and publishes and cancels one notification per task. It suspends and resumes tasks. It removes them on app, ability, bundle, account, system-ability and user events. It tells subscribers about every change and writes the table to disk (`RefreshTaskRecord`). On a restart it restores the table from disk. |
| Subscribers | `interfaces/innerkits/include/background_task_subscriber.h`, `continuous_task_callback_info.h` | System abilities and the owning app register a callback. They receive Start, Update, Cancel, Suspend, Active and, when an app's last task goes, OnAppContinuousTaskStop. |
| Transient task quota | `services/transient_task/src/pkg_delay_suspend_info.cpp` | The delay-suspend requests of one package, the timers of the started ones, and the package's remaining daily quota. The quota is charged by elapsed int32 time. |
| Audio detection | `services/continuous_task/task_detection/src/audio_detect.cpp` | Tracks running players, recorders and AVSessions per uid. When an audio-mode task loses the stream that backs it, it reports the uid as unmet. It can write its lists to JSON and read them back. |
| Bluetooth detection | `task_detection/include/bluetooth_detect.h` | Only the header is in the repository. Not modelled (section 5). |
| Efficiency resources | `services/efficiency_resources/src/resource_application_record.cpp` | The record of a resource grant and its JSON form. |
| Service facade and IPC | `services/core/...`, `frameworks/...` | Forwards calls to the managers and marshals parcels. |

### How the parts interact

All public entry points of `BgContinuousTaskMgr` post their body to one event
handler thread, with `PostSyncTask` or `PostTask`. Handlers therefore never
interleave. The concurrency lies in the order in which handlers run. The
handlers come from several sources:
- app requests;
- system events: app stopped, ability died, bundle changed, account switched,
  language changed, SA removed;
- notification dismissals and AVSession updates;
- subscriber registration and death;
- the service's own restart.

`PostTask` handlers (Stop, Suspend and Active from other subsystems) capture
their arguments, so they may run against a later state than the one their
caller saw. `AudioDetect` runs on the audio framework's callbacks and reports
unmet uids to the manager. `PkgDelaySuspendInfo` belongs to the transient task
decision maker and is touched only from that manager's thread.

## 2. Modules

### `ContinuousTaskMgr` (continuous task manager, subscribers, snapshot)

**State.** The `VARIABLES` correspond to the code's state as follows.

| Variable | Code |
|---|---|
| `tasks` | `continuousTaskInfosMap_`. Each record holds the task's modes, its sub-mode flag (car key), the webview flag, the API kind, the system-app flag, the suspended flag, whether it has a notification, and its task id. |
| `idx` | `continuousTaskIdIndex_` |
| `cache` | `cachedBundleInfos_`, abstracted to whether a uid's app name is non-empty |
| `texts` | The notification prompt strings, abstracted to which of them are loaded |
| `avPub` | `avSessionNotification_` |
| `subs` | `bgTaskSubscribers_` |
| `phase` | `isSysReady_`, including the retry and failed outcomes of `InitNecessaryState` |
| `persisted` | The table as the last `RefreshTaskRecord` wrote it to disk |
| `displayed` | The notifications on screen. Each is the `<<key, taskId>>` of the task that published it. |
| `view`, `unseen` | Each system subscriber's picture of the running tasks, folded from the callbacks it received, and the tasks it has not heard of yet |
| `out` | The callbacks of the current step |

**Actions.** Each handler is one action. Its guard comes from the handler's
early returns and its effect from its assignments. The procedures a handler
calls are operators on a handler-local record `[T, D, E, C, A, X, P]`:
tasks, displayed notifications, emitted callbacks, cache, AVSession flags,
texts and snapshot. Examples are `SendContinuousTaskNotification`,
`RemoveContinuousTaskRecord`, `HandleActiveContinuousTask`,
`OnContinuousTaskChanged`, `HandleAppContinuousTaskStop` and `Refresh`
(`RefreshTaskRecord`). They are composed in the code's call order, so every
partial update is visible where the code makes it. In particular, a
`RefreshTaskRecord` call sits exactly where the code places it, and paths
without one (a failed update, AVSession) leave the snapshot stale. The loops
over `continuousTaskInfosMap_` follow a fixed ranking `Rank` of the keys,
which stands for the unordered_map order.

**Startup.** `Init` posts `InitNecessaryState`, and `phase` starts at
`"starting"`. The action has three outcomes:
- a system ability is not up yet, so the step is re-posted after
  `DELAY_TIME` and nothing changes;
- one of the four `Register*` calls is refused, so the step returns for
  good and the service stays not ready (`"failed"`);
- all four are accepted, so `InitRequiredResourceInfo` loads the prompt
  texts, restores the snapshot and sets `isSysReady_` (`"ready"`).

The `Register*` operators are the sets of results each call can return. What
they subscribe delivers nothing while `isSysReady_` is false, so the model
keeps only the result. Every handler starts with the `Ready` guard, as the
code does.

**Restart.** `ServiceRestart` is the service process dying. Everything but
the snapshot and the on-screen notifications is lost. `InitNecessaryState`
then runs again. Its ready branch is `InitRequiredResourceInfo`:
`GetNotificationPrompt`, then `HandlePersistenceData`. That procedure restores
the snapshot and, when `GetAllRunningProcesses` succeeds, runs
`CheckPersistenceData`:
- a record whose pid is dead is erased without a cancel;
- a live record with a notification gets the cache lookup and the
  notification again;
- the id index becomes the largest restored id;
- the result is written back.

When `GetAllRunningProcesses` fails, the loaded table is kept as it is. The
model assumes that a notification stays on screen across the service's
death. That is the assumption under which the code re-sends a restored
notification under its stored id.

**Queries.** `GetContinuousTaskApps(s)` is a system subscriber asking for the
running tasks and taking the answer as its view. `GetContinuousTaskAppsInner`
skips suspended records, which is what keeps `SaViewSound` true after such a
resynchronisation.

**Inputs.** `StopContinuousTask` with `DATA_TRANSFER` or `ALL_MODES` ignores
its key, so those stops are enumerated per uid only.

`PROJECT.json` ("map") gives the lines behind each definition.

### `ContinuousTaskLifecycle` (what the task table promises)

An abstract specification of spec 4.5's per-key state machine, with modes,
notifications and callbacks left out. `ids` maps each live key to its task
id, `suspended` is the set of suspended keys, and `index` is the last id
handed out. Its actions are:
- `Start(k)`: an absent key gets id `index + 1`;
- `Suspend(k)` and `Resume(k)`: an active task is suspended, or a suspended
  one resumed, and its id stays;
- `Remove(S)`: any set of live keys goes at once, as the bulk removal loops
  do;
- `Restart`: the service restarts; the live tasks stay and `index` continues
  from the largest live id.

`ContinuousTaskMgr` instantiates it as `LC`. The mapping reads the live table
`LiveTable`: `tasks` while the service is ready, and the snapshot `persisted`
while it is down or restoring. `ids` goes to the ids in that table,
`suspended` to its suspended keys, and `index` to `idx` while ready (or when
nothing is persisted) and otherwise to the largest persisted id, which is
what the restore will continue from. `TaskLifecycleRefined` is `LC!Spec`,
checked in the `restart` run, so every restore is a step of the lifecycle.
That run has no subscribers (`Subs = {}`), so `SuspendContinuousTask` takes
its stop path and no task is suspended there: the abstract `Suspend` and
`Resume` steps are not exercised by this refinement (the suspend paths are
checked against the subscribers' views by `sa_view`, where the refinement is
too slow to add).

### `DelaySuspendQuota` (one package's transient quota)

**State.** `quota`, `baseTime`, `isCounting` and `requestList` are the
fields of `PkgDelaySuspendInfo`. `timers` holds the request ids with an armed
timer in `timerManager_`. `clock` is abstract time, and `nextId` is the
decision maker's request counter. `cStart` and `qStart` are ghosts: the time
and the quota at the start of the current counting interval.

**Operators.** The member functions are operators on a package record:
- `GetModifiedTime`, `UpdateQuota` and `IsAllowRequest`;
- `AddRequest`, `StartAccounting`, `StopAccounting`, `StopAccountingAll` and
  `RemoveRequest`.

**Actions.** The actions are their callers in the decision maker, which is
not under `src/` and is modelled from spec 4.6:
- request and cancel;
- app to background (start accounting one or all requests) and foreground;
- timer expiry and daily reset;
- a clock tick.

**Time.** `GetCurrentTime()` is `clock + ClockOffset`, truncated to int32.
The model truncates to a reduced width `Width`, and both int32 subtractions
in `GetModifiedTime` wrap at that width. This reproduces the wrap-around of a
32-bit millisecond clock with numbers TLC can enumerate.

### `QuotaAccount` (what a package's quota account promises)

An abstract specification of spec 3 (`PkgQuotaAccount`) and 4.6, with time
and the order of the request list left out. `quota`, `granted` and
`charging` are its variables. It says four things:
- a request is granted only while fewer than `MAX_REQUEST_ID` are held, and
  only if at least `MIN_ALLOW_QUOTA_TIME` is left after charging;
- the quota falls only while the package is counting;
- counting needs a held request;
- only the daily reset gives quota back.

`DelaySuspendQuota` instantiates it as `QA`. The mapping sends `granted` to
the ids in `requestList` and `charging` to `isCounting`.
`QuotaAccountRefined` is `QA!Spec`.

### `AudioDetect`

**State.** `audioPlayerInfos`, `audioRecorderInfos` and `avSessionInfos` are
the three lists. They are bags (`Bags`): a callback adds an entry only when
`find_if` misses, but `ParseAudioRecordFromJson` appends without that check,
so an entry can be held twice, and `erase` removes one copy. `unmet` holds
the `ReportTaskRunningStateUnmet` calls of the last callback. `record` is
the `Json::Value` that `ParseAudioRecordToStr` last filled; before any dump
it lacks the two members (`NoRecord`).

**Actions.** There are five:
- `HandleAudioStreamInfo`, a batch of player or recorder changes, folded
  with a RECURSIVE loop;
- `HandleAVSessionInfo` (create or release);
- `ClearData`;
- `ParseAudioRecordToStr`, which writes every copy of every entry into
  `record`;
- `ParseAudioRecordFromJson`, which returns false without the members, and
  otherwise adds the record's entries to whatever the lists hold.

The callers of `ClearData`, the dump and the restore are not under `src/`,
so each may happen at any time.

`CheckAudioCondition` is the code's test. The properties use their own
definitions, `PlaybackMet` and `RecordingMet`, so that a wrong
`CheckAudioCondition` can fail them.

## 3. Runs

| Run | Expect | Properties | What it shows |
|---|---|---|---|
| `sa_view` (`MC_SaView.cfg`) | pass, 167,804 states, about 2 min | SaViewSound, SaViewComplete, AppStopAfterTaskStops | Every running task is in each system subscriber's view, and every task in a view is running. This holds through suspend/resume, subscriber registration and death, and every removal path. No subscriber hears that an app stopped while it still believes a task of that app runs. The `GetContinuousTaskApps` query resets a subscriber's view to the running tasks. |
| `notify` (`MC_Notify.cfg`) | pass, 166,560 states | TypeOK, NotificationTracked | Under every prompt (none/main/all), app-label, publish, car-sub-mode and API outcome, inner modes stay in range. Every notification on screen for a live task is the one that task records, so a later stop cancels it. |
| `restart` (`MC_Restart.cfg`) | pass, 166,560 states, about 2 min | TaskIdsUnique, SnapshotCurrent, TaskLifecycleRefined | The service may die and restore at any point. Whenever it is ready, the snapshot on disk has exactly the live keys with their ids and suspended flags, and ids stay unique across restores. Every handler and every restore is a step of `ContinuousTaskLifecycle`: a new task's id is above every earlier one, a live task keeps its id, and a restore continues the ids from the largest persisted one. |
| `start_resumes_key` | violation | StartResumesKey | Restarting a suspended task resumes the first suspended task of the uid instead (finding 1). The same key-versus-uid confusion makes `HandleSuspendContinuousTask` suspend the uid's first record. |
| `no_orphan_notification` | violation | NoOrphanNotification | A webview task's notification survives its removal by SA death or ability death. |
| `mode_change_announced` | violation | ModeChangeAnnounced | A failed update leaves new modes in the table and tells no subscriber. |
| `owner_stop_when_last_removed` | violation | OwnerStopWhenLastRemoved | Freeze removals skip the owner-stop callback. |
| `task_ids_after_restore` | violation | TaskIdsUnique | After a restore whose `GetAllRunningProcesses` fails, the id index stays at 0 and a new task reuses a restored id (`bg_continuous_task_mgr.cpp:222`). |
| `quota` (`MC_Quota.cfg`) | pass, 968,625 states, about 2.5 min | TypeOK, NoStrayTimer, QuotaAccountRefined, ChargedOncePerInterval | For a non-exempted package, across the clock's wrap, the account implements `QuotaAccount`. A request is admitted only under the threshold and with enough quota left after the charge. The quota falls only while counting and rises only at a daily reset. Each counting interval is charged exactly its elapsed time, however many recomputations fall inside it. No timer is armed for a request that is gone or not started. |
| `update_accepts_declared_modes` | violation | UpdateAcceptsDeclaredModes | A language change (`OnConfigurationChanged`) clears the bundle cache under a running task. `UpdateBackgroundRunningInner` validates against that cache only, so an update to modes the ability declares is then refused (`bg_continuous_task_mgr.cpp:2071`). |
| `audio` (`MC_Audio.cfg`) | pass, 50,872 states, under 30 s | TypeOK, ReportsSound, RecordingLossReported | Dumps and restores happen at any point, and restores may duplicate entries. Even so, an unmet report is sent only for a uid whose mode really has no running stream, and a uid that loses its last recorder is always reported. |
| `playback_loss_reported` | violation | PlaybackLossReported | A player batch that ends a uid's playback reports the recording mode (`audio_detect.cpp:48`), so the playback task is never flagged. |

The continuous-task violation cfgs are the `sa_view` configuration with one
property, except in these cases:
- `mode_change_announced` lets publishing fail;
- `task_ids_after_restore` is `restart` with `GetAllRunningProcesses`
  allowed to fail.

### Bounds

- **`MaxTaskId = 2`** bounds `continuousTaskIdIndex_`, and only the insert
  branch of a start checks it. With two ids, a task can be stopped and
  replaced under the same key, which gives a stale id and an old notification.
  Restarts reset the index, so restores are never blocked by the bound.
- **Two uids and one ability** give three keys per uid: the ability and the
  webview modes VOIP and 11, where 11 is out of range. That is enough for
  first-record-of-uid effects, for per-mode removals beside other tasks of the
  same uid, and for per-uid effects on another uid.
- **The outcome sets are split** between the runs so that each one finishes
  in five minutes:
  - `sa_view` fixes the notification environment to success;
  - `notify` opens every outcome without subscribers;
  - `restart` keeps prompt "none"/"all" and the two view mode sets;
  - `sa_view` and `restart` take only VOIP as a webview mode
    (`ViewInnerModes`); the out-of-range mode 11, which only the type check
    is about, stays in `notify`, where `TypeOK` is checked.
- **Quota:**
  - `Width = 5` and `ClockOffset = 12` start the clock at 12 and wrap it at
    16, four ticks in.
  - `MaxClock = 8` lets a counting interval cross the wrap.
  - `INIT_QUOTA = 6`, `MIN_ALLOW_QUOTA_TIME = 2` and delays {3, 8} reach a
    refused request, a delay capped by the quota, and quota at 0.
  - `MaxRequests = 4` exceeds `MAX_REQUEST_ID = 3`, so the threshold error
    is reached.
- **Audio:** in `audio`, one uid has two sessions. Batches hold up to two
  changes, and a restore may leave up to two copies of an entry
  (`MaxCopies = 2`). That is enough for two changes of one uid in one batch,
  for a uid with one of two streams left, and for an entry that outlives one
  erase. A second uid would square the state space, because `record` is a
  second copy of the lists: with two uids and one session, the run needed
  more than five minutes. `playback_loss_reported` keeps two uids, and
  there TLC finds its violation within a few hundred states.

### Fairness

The runs check safety only. The code has no retry loop whose progress is
promised. `InitNecessaryState` retries while dependencies are missing, but it
gives up for good when registration fails. "Startup eventually settles"
(ready or failed) would need weak fairness on the re-posted step and on the
system abilities coming up, and the code states neither. Checked under that
assumption in the restart instance, the property holds, but the run then
takes about four CPU minutes, and the property says little beyond the
assumption. The hazard list records this.

Timer expiry of a started request is a different case. It is a liveness
property ("a started request ends") under weak fairness of the timer
callback. With the quota bounds above, TLC's liveness check of it took more
than five minutes even with one delay value. It is also nearly implied by
`NoStrayTimer` together with that fairness. So it is not among the runs.

## 4. Mutants

Each property of a passing run has a mutant in `PROJECT.json`. A mutant is a
plausible code bug, written as an operator placed just before the definition
it replaces. The mutants are:
- a missing upper bound in `CheckBgmodeTypeForInner`;
- the system-subscriber Stop left out of a suspend;
- a silent resume;
- the owner-stop callback sent before the cancel;
- a task id that is not incremented;
- a new record taking the id index before the increment;
- a notification id forgotten without a cancel;
- a removal not written to the snapshot;
- the quota not floored;
- the admission threshold checked against the quota before it is charged;
- counting switched off before the last charge;
- a request erased before its accounting stops;
- the pid/mode swapped in the unmet report;
- a recorder's uid not collected;
- the recording check reading the player list.

TLC finds each one under its run's own cfg.

## 5. Not modelled

| Part | Why |
|---|---|
| Notification id allocation (`NotificationTools`), `DataStorageHelper` file format | Not under `src/`. The notification id is the task id, and the snapshot is a copy of the table. |
| Return codes | Not state. They appear as comments. |
| Query handlers and dump listings (`GetAllContinuousTasks`, `RequestGetContinuousTasksByUidForInner`, `ShellDump`) | Read-only, and no property is about their answers. `GetContinuousTaskApps` is modelled, because a system subscriber takes its answer as its view. The dump's apply, reset and cancel options are the same operations as the inner start/stop and `DumpCancelTask`. They call `PostSyncTask` again from the handler's own thread, and whether that blocks is decided by `EventHandler`, which is not under `src/`. The hazard list records it. |
| `BluetoothDetect` | Only its header is under `src/`, so there is no code to translate. |
| `ResourceApplicationRecord`, `ResourceCallbackInfo` | JSON and parcel conversion of a record. Their caller, the efficiency resource manager, is not under `src/`, so no state changes through them. |
| IPC proxy (`BackgroundTaskMgrProxy`), `IBackgroundTaskMgr`, `BackgroundTaskSubscriber` | Parcel marshalling and declarations. Each proxy call writes its arguments, sends one request and reads the reply. No property is about return codes, so the model starts where a request reaches the service. |
| Service facade (`BackgroundTaskMgrService`) | Each method forwards to `BgTransientTaskMgr`, which is not under `src/`. Its only state of its own is `state_`, which `OnStart` and `OnStop` set. |
| Test mocks | Test doubles, not part of the product. |
