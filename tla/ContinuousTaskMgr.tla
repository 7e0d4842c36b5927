------------------------- MODULE ContinuousTaskMgr -------------------------
(***************************************************************************)
(* The continuous-task manager of the background task service              *)
(* (src/services/continuous_task/src/bg_continuous_task_mgr.cpp).          *)
(*                                                                         *)
(* Every public entry point of BgContinuousTaskMgr posts its body to one   *)
(* event-handler thread (PostSyncTask / PostTask), so each handler runs to *)
(* completion without interleaving with another: one handler is one        *)
(* action here.  An asynchronously posted handler (PostTask) captures only *)
(* its arguments, so running it later is running it with the same          *)
(* arguments on a later state, which the interleaving already covers.      *)
(*                                                                         *)
(* Data abstraction:                                                       *)
(*  - the map key "uid_abilityName_abilityId" is the pair <<uid, ability>>;*)
(*    a webview task (RequestBackgroundRunningForInner) has the ability    *)
(*    <<"Webview", mode>>;                                                 *)
(*  - a background-mode bitmask is the set of mode ids whose bit is set    *)
(*    (bit i-1 stands for mode id i), so "configured & (1 << (id-1))" is   *)
(*    id \in configured and "configured == INVALID_BGMODE" is = {};        *)
(*  - notification text is abstracted to the set of modes that contribute  *)
(*    a line (empty set = empty text); a notification on screen is the    *)
(*    pair <<key, taskId>> of the record that published it (its label is  *)
(*    the key), and notificationId_ != -1 is notif;                        *)
(*  - unordered_map iteration order is a fixed ranking Rank of the keys;   *)
(*  - subscriber callbacks are recorded, in the order the code makes them, *)
(*    in out, the callbacks of the last step; a system subscriber's own    *)
(*    view of the running tasks is the fold of what it was sent.           *)
(*  - the snapshot DataStorageHelper keeps on disk is persisted, the table *)
(*    as of the last RefreshTaskRecord; a service restart loses everything *)
(*    else but the notifications on screen.                                *)
(***************************************************************************)
EXTENDS Integers, FiniteSets, Sequences, SequencesExt, Functions

CONSTANTS
  Uids,            \* application uids (model values)
  Abilities,       \* (abilityName, abilityId) pairs of the apps (model values)
  InnerModes,      \* bgModeId_ values a webview / SA inner request may carry
  RequestModes,    \* mode sets a StartBackgroundRunning request may carry
  UpdateModes,     \* mode sets an UpdateBackgroundRunning request may carry
  Configured,      \* [Uids -> [Abilities -> SUBSET mode ids]]: declared modes
  SystemApps,      \* uids whose token is a system app (IsSystemApp)
  Users,           \* os account ids
  UserOf,          \* [Uids -> Users]: GetOsAccountLocalIdFromUid
  Subs,            \* subscriber remote objects (model values)
  SubHap,          \* [Subs -> BOOLEAN]: SubscriberInfo::isHap_
  SubUid,          \* [Subs -> Uids]: SubscriberInfo::uid_
  SubSuspendFlag,  \* [Subs -> BOOLEAN]: GetFlag() & CONTINUOUS_TASK_SUSPEND
  Rank,            \* [Keys -> Nat], injective: continuousTaskInfosMap_ order
  MaxTaskId,       \* bound on continuousTaskIdIndex_
  NoKey,           \* model value: key field of an OnAppContinuousTaskStop
  PromptOutcomes,  \* what GetNotificationPrompt can leave: "none", "main", "all"
  AppNameOutcomes, \* whether GetMainAbilityLabel can return a non-empty label
  PublishOutcomes, \* whether PublishNotification can succeed / fail
  ApiKinds,        \* isNewApi_ values a start request may carry
  CarParams,       \* whether a start request's want agent names the CAR_KEY sub mode
  Restarts,        \* whether the service process may die and restart
  ProcessOutcomes  \* whether GetAllRunningProcesses can succeed / fail at restore

\* BackgroundMode ids used by the code (background_mode.h).
DATA_TRANSFER == 1
AUDIO_PLAYBACK == 2
AUDIO_RECORDING == 3
BLUETOOTH_INTERACTION == 5
WIFI_INTERACTION == 7
VOIP == 8
TASK_KEEPING == 9
WORKOUT == 10
BGMODE_NUMS == 10
ALL_MODES == 255

\* Cancel reasons (ContinuousTaskCancelReason); DEFAULT is the value a record
\* carries when no SetReason ran before its removal.
DEFAULT_REASON == "DEFAULT"
REMOVE_NOTIFICATION_CANCEL == "REMOVE_NOTIFICATION_CANCEL"
FREEZE_CANCEL == "FREEZE_CANCEL"
SYSTEM_CANCEL == "SYSTEM_CANCEL"

WebAbility(m) == <<"Webview", m>>
Keys == (Uids \X Abilities) \cup {<<u, WebAbility(m)>> : u \in Uids, m \in InnerModes}
ModeIds == 1..BGMODE_NUMS

ASSUME RequestModes \subseteq (SUBSET ModeIds \ {{}})
ASSUME UpdateModes \subseteq SUBSET ModeIds
ASSUME InnerModes \subseteq Nat
ASSUME Rank \in [Keys -> Nat] /\ IsInjective(Rank)
ASSUME MaxTaskId \in Nat
ASSUME PromptOutcomes \subseteq {"none", "main", "all"} /\ PromptOutcomes # {}
ASSUME AppNameOutcomes \subseteq BOOLEAN /\ AppNameOutcomes # {}
ASSUME PublishOutcomes \subseteq BOOLEAN /\ PublishOutcomes # {}
ASSUME ApiKinds \subseteq BOOLEAN /\ CarParams \subseteq BOOLEAN

\* A continuous task record: bgModeIds_ (modes), bgSubModeIds_ holds CAR_KEY
\* (car), isFromWebview_ (web), isNewApi_ (newApi), IsSystem() (sys),
\* suspendState_ (susp), notificationId_ != -1 (notif), continuousTaskId_ (id).
Record == [modes : SUBSET ModeIds, car : BOOLEAN, web : BOOLEAN, newApi : BOOLEAN,
           sys : BOOLEAN, susp : BOOLEAN, notif : BOOLEAN, id : 0..MaxTaskId]

\* A callback sent to subscribers: OnContinuousTaskStart ("Start"), ...Update,
\* ...Stop, ...Suspend, ...Active, OnAppContinuousTaskStop ("AppStop").
Callbacks == {"Start", "Update", "Stop", "Suspend", "Active", "AppStop"}
Event == [cb : Callbacks, key : Keys \cup {NoKey}, uid : Uids, to : SUBSET Subs]

VARIABLES
  phase,      \* isSysReady_ and the outcome of InitNecessaryState
  tasks,      \* continuousTaskInfosMap_: a function from live keys to records
  idx,        \* continuousTaskIdIndex_
  cache,      \* cachedBundleInfos_: uid -> appName_ is non-empty
  texts,      \* continuousTaskText_ / continuousTaskSubText_ loaded: none/main/all
  avPub,      \* avSessionNotification_
  subs,       \* bgTaskSubscribers_
  displayed,  \* notifications on screen: <<label key, task id of the publisher>>
  view,       \* a system subscriber's set of keys it was told are running
  unseen,     \* keys running when it subscribed that it has not heard of since
  out,        \* the subscriber callbacks of the last step, in order
  persisted   \* the task table DataStorageHelper last wrote to disk

vars == <<phase, tasks, idx, cache, texts, avPub, subs, displayed, view, unseen, out, persisted>>

\* The state without out: out is rewritten by every step and read only by the
\* step that writes it, so two states that differ only in out have the same
\* successors (TLC VIEW).
StateView == <<phase, tasks, idx, cache, texts, avPub, subs, displayed, view, unseen, persisted>>

-----------------------------------------------------------------------------
(* Helpers over a "handler state" st = [T |-> table, D |-> shown, E |-> callbacks, *)
(* C |-> bundle cache, A |-> avSessionNotification_],
 so that the functions a handler calls compose in the order it calls them. *)

SysSubs == {s \in subs : ~SubHap[s]}
HapSubsOf(u) == {s \in subs : SubHap[s] /\ SubUid[s] = u}
KeysOf(T, u) == {k \in DOMAIN T : k[1] = u}
FirstByRank(S) == CHOOSE k \in S : \A j \in S : Rank[k] <= Rank[j]
ByRank(S) == SetToSortSeq(S, LAMBDA a, b : Rank[a] < Rank[b])
ActiveKeys == {k \in DOMAIN tasks : ~tasks[k].susp}

EmptyFn == [x \in {} |-> FALSE]

Ev(cb, k, u, to) == [cb |-> cb, key |-> k, uid |-> u, to |-> to]
Emit(st, evs) == [st EXCEPT !.E = @ \o SelectSeq(evs, LAMBDA e : e.to # {})]

\* OnContinuousTaskChanged + NotifySubscribers(TaskSuspend/TaskActive), CanNotifyHap.
\* Mutant: a suspension is announced to the app only, not to the system
\* subscribers.
OnContinuousTaskChangedNoSaStop(st, k, kind, reason) ==
  LET u == k[1] IN
  IF subs = {} THEN st
  ELSE CASE kind = "START"   -> Emit(st, <<Ev("Start", k, u, SysSubs)>>)
         [] kind = "UPDATE"  -> Emit(st, <<Ev("Update", k, u, SysSubs)>>)
         [] kind = "CANCEL"  ->
              Emit(st, <<Ev("Stop", k, u, SysSubs \cup
                      (IF reason \in {REMOVE_NOTIFICATION_CANCEL, FREEZE_CANCEL}
                       THEN HapSubsOf(u) ELSE {}))>>)
         [] kind = "SUSPEND" -> Emit(st, <<Ev("Suspend", k, u, HapSubsOf(u))>>)
         [] kind = "ACTIVE"  -> Emit(st, <<Ev("Start", k, u, SysSubs), Ev("Active", k, u, HapSubsOf(u))>>)

OnContinuousTaskChanged(st, k, kind, reason) ==
  LET u == k[1] IN
  IF subs = {} THEN st
  ELSE CASE kind = "START"   -> Emit(st, <<Ev("Start", k, u, SysSubs)>>)
         [] kind = "UPDATE"  -> Emit(st, <<Ev("Update", k, u, SysSubs)>>)
         [] kind = "CANCEL"  ->
              Emit(st, <<Ev("Stop", k, u, SysSubs \cup
                      (IF reason \in {REMOVE_NOTIFICATION_CANCEL, FREEZE_CANCEL}
                       THEN HapSubsOf(u) ELSE {}))>>)
         [] kind = "SUSPEND" -> Emit(st, <<Ev("Stop", k, u, SysSubs), Ev("Suspend", k, u, HapSubsOf(u))>>)
         [] kind = "ACTIVE"  -> Emit(st, <<Ev("Start", k, u, SysSubs), Ev("Active", k, u, HapSubsOf(u))>>)

\* HandleAppContinuousTaskStop: tell the system subscribers when uid has no task left.
HandleAppContinuousTaskStop(st, u) ==
  IF KeysOf(st.T, u) # {} THEN st ELSE Emit(st, <<Ev("AppStop", NoKey, u, SysSubs)>>)

\* A notification is identified by its label (the key) and the task that
\* published it (the notificationId_ of that record).
Shown(st, k) == <<k, st.T[k].id>>

\* NotificationTools::CancelNotification(label, record's notificationId_): the
\* notification disappears; the record's notificationId_ is left as it is.
CancelNotification(st, k) == [st EXCEPT !.D = @ \ {Shown(st, k)}]
Erase(st, k) == [st EXCEPT !.T = Restrict(@, DOMAIN @ \ {k})]
\* RefreshTaskRecord: DataStorageHelper writes the whole table to disk.
Refresh(st) == [st EXCEPT !.P = st.T]

\* RemoveContinuousTaskRecord (SetReason before it gives the reason).
\* Mutant: the record is erased and the owner checked before the cancel
\* callback goes out.
RemoveContinuousTaskRecordLateCancel(st, k, reason) ==
  IF k \notin DOMAIN st.T THEN st
  ELSE OnContinuousTaskChanged(HandleAppContinuousTaskStop(Erase(st, k), k[1]), k, "CANCEL", reason)

\* Mutant: the erase is not written to the snapshot.
RemoveContinuousTaskRecordNoRefresh(st, k, reason) ==
  IF k \notin DOMAIN st.T THEN st
  ELSE HandleAppContinuousTaskStop(
         Erase(OnContinuousTaskChanged(st, k, "CANCEL", reason), k), k[1])

RemoveContinuousTaskRecord(st, k, reason) ==
  IF k \notin DOMAIN st.T THEN st
  ELSE Refresh(HandleAppContinuousTaskStop(
         Erase(OnContinuousTaskChanged(st, k, "CANCEL", reason), k), k[1]))

\* GetBackgroundModeInfo: the declared modes, known only through the cache.
GetBackgroundModeInfo(c, u, a) == IF u \in DOMAIN c THEN Configured[u][a] ELSE {}

\* AllowUseTaskKeeping with SUPPORT_TASK_KEEPING off and no exemption: the
\* ACL grant is refused to a system app.
AllowUseTaskKeeping(r) == ~r.sys

\* CheckBgmodeType for one requested mode id.
CheckBgmodeType(configured, m, isNewApi, r) ==
  IF ~isNewApi THEN (IF configured = {} THEN "BGMODE_NULL_OR_TYPE_ERR" ELSE "OK")
  ELSE CASE m = WIFI_INTERACTION /\ ~r.sys                 -> "NOT_SYSTEM_APP"
         [] m = TASK_KEEPING /\ ~AllowUseTaskKeeping(r)    -> "KEEPING_TASK_VERIFY_ERR"
         [] m \notin configured                            -> "INVALID_BGMODE"
         [] OTHER                                          -> "OK"

\* The loop over bgModeIds_: the first failing mode's error, or OK.
CheckModes(configured, ms, isNewApi, r) ==
  LET errs == {CheckBgmodeType(configured, m, isNewApi, r) : m \in ms} \ {"OK"}
  IN IF errs = {} THEN "OK" ELSE CHOOSE e \in errs : TRUE

\* Mutant: the upper bound of the inner mode check is missing.
CheckBgmodeTypeForInnerNoMax(m) == IF m = 0 THEN "INVALID_BGMODE" ELSE "OK"

CheckBgmodeTypeForInner(m) == IF m = 0 \/ m > BGMODE_NUMS THEN "INVALID_BGMODE" ELSE "OK"

\* CheckNotificationText: the modes that contribute a line of text.
TextModes(r, u, av) ==
  {m \in r.modes : ~((m = AUDIO_PLAYBACK /\ av[u])
                     \/ (m \in {VOIP, AUDIO_RECORDING} /\ r.sys))}

\* SendContinuousTaskNotification as a plan: the result and what happens to
\* the notification ("publish", "cancel" or "none"); pubOk is whether the
\* notification service accepts PublishNotification.
SendPlan(r, u, pubOk, st) ==
  LET lines == TextModes(r, u, st.A)
      res(e, eff) == [res |-> e, eff |-> eff]
  IN CASE st.X = "none"                                   -> res("NOTIFICATION_VERIFY_FAILED", "none")
       [] u \notin DOMAIN st.C \/ ~st.C[u]                  -> res("NOTIFICATION_VERIFY_FAILED", "none")
       [] BLUETOOTH_INTERACTION \in lines /\ r.car /\ st.X # "all"
                                                            -> res("NOTIFICATION_VERIFY_FAILED", "none")
       [] lines = {}                    -> res("OK", IF r.notif THEN "cancel" ELSE "none")
       [] r.modes = {AUDIO_PLAYBACK} /\ st.A[u]           -> res("OK", "none")
       [] pubOk                                             -> res("OK", "publish")
       [] OTHER                                             -> res("PUBLISH_FAILED", "none")

\* Mutant: the empty-text branch forgets notificationId_ without cancelling.
ApplyPlanNoCancel(st, k, p) ==
  CASE p.eff = "publish" -> [st EXCEPT !.T[k].notif = TRUE, !.D = @ \cup {Shown(st, k)}]
    [] p.eff = "cancel"  -> [st EXCEPT !.T[k].notif = FALSE]
    [] OTHER             -> st

ApplyPlan(st, k, p) ==
  CASE p.eff = "publish" -> [st EXCEPT !.T[k].notif = TRUE, !.D = @ \cup {Shown(st, k)}]
    [] p.eff = "cancel"  -> [CancelNotification(st, k) EXCEPT !.T[k].notif = FALSE]
    [] OTHER             -> st

SendContinuousTaskNotification(st, k, pubOk) ==
  ApplyPlan(st, k, SendPlan(st.T[k], k[1], pubOk, st))

\* HandleActiveContinuousTask: the first suspended record of uid, whatever key
\* the caller meant, is made active, announced and its notification re-sent.
\* Mutant: the resumed record is not announced.
HandleActiveContinuousTaskSilent(st, u, pubOk) ==
  LET S == {k \in KeysOf(st.T, u) : st.T[k].susp} IN
  IF S = {} THEN st
  ELSE LET k == FirstByRank(S)
       IN SendContinuousTaskNotification([st EXCEPT !.T[k].susp = FALSE], k, pubOk)

HandleActiveContinuousTask(st, u, pubOk) ==
  LET S == {k \in KeysOf(st.T, u) : st.T[k].susp} IN
  IF S = {} THEN st
  ELSE LET k == FirstByRank(S)
           st1 == OnContinuousTaskChanged([st EXCEPT !.T[k].susp = FALSE], k, "ACTIVE", DEFAULT_REASON)
       IN Refresh(SendContinuousTaskNotification(st1, k, pubOk))

\* The bulk removal loops (RemoveContinuousTaskRecordByUid[AndMode], OnAppStopped,
\* OnAbilityStateChanged, OnBundleInfoChanged, OnAccountsStateChanged,
\* HandleRemoveTaskByMode): per matched record in map order, the cancel
\* callback, a notification cancel when cancelIf says so, the erase and, when
\* ownerCheck, HandleAppContinuousTaskStop.
CancelsNotification(r, cancelIf) ==
  CASE cancelIf = "always" -> TRUE
    [] cancelIf = "notWeb" -> ~r.web
    [] cancelIf = "ifNotif" -> r.notif
    [] OTHER -> FALSE

RECURSIVE RemoveEach(_, _, _, _, _)
RemoveEach(st, ks, reason, cancelIf, ownerCheck) ==
  IF ks = <<>> THEN st
  ELSE LET k == Head(ks)
           st1 == OnContinuousTaskChanged(st, k, "CANCEL", reason)
           st2 == IF CancelsNotification(st.T[k], cancelIf) THEN CancelNotification(st1, k) ELSE st1
           st3 == Erase(st2, k)
           st4 == IF ownerCheck THEN HandleAppContinuousTaskStop(st3, k[1]) ELSE st3
       IN RemoveEach(Refresh(st4), Tail(ks), reason, cancelIf, ownerCheck)

RemoveMatching(st, ks, reason, cancelIf, ownerCheck) ==
  RemoveEach(st, ByRank(ks), reason, cancelIf, ownerCheck)

Now == [T |-> tasks, D |-> displayed, E |-> <<>>, C |-> cache, A |-> avPub,
        X |-> texts, P |-> persisted]

\* The handler's effect on the table, the notifications, the caches and the
\* callbacks.  The error code a handler returns is not modelled.
Finish(st) ==
  /\ tasks' = st.T
  /\ displayed' = st.D
  /\ out' = st.E
  /\ cache' = st.C
  /\ avPub' = st.A
  /\ persisted' = st.P

Ready == phase = "ready"

\* IsExistCallback(uid, CONTINUOUS_TASK_SUSPEND).
IsExistCallback(u) == \E s \in subs : SubHap[s] /\ SubUid[s] = u /\ SubSuspendFlag[s]

\* The cachedBundleInfos_ a StartBackgroundRunningInner may leave: an app not
\* yet cached is cached by SetCachedBundleInfo unless GetBundleInfo fails or
\* no ability declares a mode (AddAbilityBgModeInfos); the main ability
\* label (appName_) may come back empty.
\* GetMainAbilityLabel: whether the label it reads from the bundle's
\* resources (or the application info) is non-empty; it returns "" when a
\* bundle service call fails.
GetMainAbilityLabel == AppNameOutcomes

CacheAfterLookup(c, u) ==
  IF u \in DOMAIN c \/ \A a \in Abilities : Configured[u][a] = {} THEN {c}
  ELSE {c} \cup {c @@ (u :> named) : named \in GetMainAbilityLabel}

UnchangedEnv == UNCHANGED <<phase, idx, texts, subs>>

-----------------------------------------------------------------------------
\* GetNotificationPrompt: the prompt texts it can leave loaded.  It clears
\* both lists and stops at the first missing string, so the main texts may
\* be loaded without the sub-mode texts ("main").
GetNotificationPrompt == PromptOutcomes

\* checkPidCondition over GetAllRunningProcesses: alive is the set of
\* restored keys whose record's pid is still running.
\* CheckPersistenceData's loop: a record of a dead process is erased (its
\* notification is not cancelled); a live one with a notification has it
\* sent again under its stored id.
RECURSIVE CheckPersistenceData(_, _, _, _)
CheckPersistenceData(st, ks, alive, pub) ==
  IF ks = <<>> THEN st
  ELSE LET k == Head(ks)
           st1 == CASE k \notin alive -> Erase(st, k)
                    [] ~st.T[k].notif -> st
                    [] OTHER -> SendContinuousTaskNotification(st, k, pub[k])
       IN CheckPersistenceData(st1, Tail(ks), alive, pub)

\* The caches CheckPersistenceData's SetCachedBundleInfo calls may leave for
\* the uids U of the live records that have a notification.
CacheAfterLookups(c, U) ==
  LET L == {u \in U : CacheAfterLookup(c, u) # {c}}
  IN {c @@ f : f \in UNION {[S -> GetMainAbilityLabel] : S \in SUBSET L}}

(* HandlePersistenceData: RestoreTaskRecord loads the snapshot into the     *)
(* (empty) table; when GetAllRunningProcesses succeeds, CheckPersistenceData *)
(* prunes and re-notifies, continuousTaskIdIndex_ becomes the largest id     *)
(* seen, and the result is written back.  When it fails the records stay as  *)
(* loaded and the index is left alone.                                       *)
HandlePersistenceData(t) ==
  LET st0 == [Now EXCEPT !.X = t, !.T = persisted]
      ids == {persisted[k].id : k \in DOMAIN persisted}
  IN \/ /\ \E procOk \in ProcessOutcomes : ~procOk
        /\ Finish(st0) /\ UNCHANGED idx
     \/ /\ TRUE \in ProcessOutcomes
        /\ \E alive \in SUBSET DOMAIN persisted,
              pub \in [DOMAIN persisted -> PublishOutcomes] :
             \E c \in CacheAfterLookups(cache, {k[1] : k \in {j \in alive : persisted[j].notif}}) :
               Finish(Refresh(CheckPersistenceData([st0 EXCEPT !.C = c], ByRank(DOMAIN persisted),
                                                   alive, pub)))
        /\ idx' = IF ids = {} THEN idx ELSE Max(ids)

(* InitRequiredResourceInfo: GetNotificationPrompt (a failure is only      *)
(* logged), HandlePersistenceData, then isSysReady_.                        *)
InitRequiredResourceInfo ==
  /\ phase' = "ready"
  /\ \E t \in GetNotificationPrompt : texts' = t /\ HandlePersistenceData(t)

\* The Register* calls of InitNecessaryState: whether the subscription each
\* one makes is accepted (a refused new or a service call returning an error
\* gives false).  What they register delivers nothing while isSysReady_ is
\* false, so only the result is kept.
RegisterNotificationSubscriber == BOOLEAN
RegisterAppStateObserver == BOOLEAN
RegisterConfigurationObserver == BOOLEAN
RegisterSysCommEventListener == BOOLEAN

(* Service start (Init posts it): InitNecessaryState.  A missing dependency *)
(* re-posts the step after DELAY_TIME; otherwise the Register* calls run in *)
(* order and the first refused one returns for good ("failed"); when all    *)
(* succeed InitRequiredResourceInfo makes the service ready.                *)
InitNecessaryState ==
  /\ phase = "starting"
  /\ \/ /\ phase' = "starting"                     \* a dependency is not up yet
        /\ UNCHANGED <<texts, tasks, idx, cache, avPub, displayed, persisted>>
        /\ out' = <<>>
     \/ \E ok1 \in RegisterNotificationSubscriber, ok2 \in RegisterAppStateObserver,
           ok3 \in RegisterSysCommEventListener, ok4 \in RegisterConfigurationObserver :
          IF ok1 /\ ok2 /\ ok3 /\ ok4 THEN InitRequiredResourceInfo
          ELSE /\ phase' = "failed"
               /\ UNCHANGED <<texts, tasks, idx, cache, avPub, displayed, persisted>>
               /\ out' = <<>>
  /\ UNCHANGED subs

(* The service process dies and is started again: everything but the       *)
(* snapshot on disk and the notifications on screen is lost.                 *)
ServiceRestart ==
  /\ Restarts
  /\ phase' = "starting"
  /\ tasks' = EmptyFn /\ idx' = 0 /\ cache' = EmptyFn /\ texts' = "none"
  /\ avPub' = [u \in Uids |-> FALSE] /\ subs' = {} /\ out' = <<>>
  /\ UNCHANGED <<displayed, persisted>>

\* Mutant: the index is read but not incremented.
NextTaskIdNoIncrement == idx

\* continuousTaskId_ = ++continuousTaskIdIndex_
NextTaskId == idx + 1

\* CheckTaskParam: a batch request must carry at least one mode.
CheckTaskParam(modes, newApi) == modes # {}

\* CheckSubMode: a CAR_KEY sub mode is accepted only with bluetooth interaction.
CheckSubMode(modes, carParam) == carParam => BLUETOOTH_INTERACTION \in modes

\* Mutant: the record takes the index before it is incremented
\* (continuousTaskIdIndex_++).
InitRecordParamPostIncrement(u, modes, newApi, carParam) ==
  [modes |-> modes, car |-> carParam, web |-> FALSE, newApi |-> newApi,
   sys |-> u \in SystemApps, susp |-> FALSE, notif |-> FALSE, id |-> idx]

\* The record StartBackgroundRunning builds: the ContinuousTaskRecord
\* constructor and InitRecordParam (isNewApi_, isSystem_).
InitRecordParam(u, modes, newApi, carParam) ==
  [modes |-> modes, car |-> carParam, web |-> FALSE, newApi |-> newApi,
   sys |-> u \in SystemApps, susp |-> FALSE, notif |-> FALSE, id |-> NextTaskId]

(* StartBackgroundRunningInner on the handler thread, for record r of key  *)
(* k: resume a suspended key (through HandleActiveContinuousTask, which    *)
(* takes the uid only), refuse an existing one, look up the bundle cache   *)
(* for an app's task, check the modes, publish the notification of an      *)
(* app's task, then take the next id, insert and fan out START.            *)
StartBackgroundRunningInner(k, r, pubOk) ==
  CASE k \in DOMAIN tasks /\ tasks[k].susp ->
         Finish(HandleActiveContinuousTask(Now, k[1], pubOk)) /\ UNCHANGED idx
    [] k \in DOMAIN tasks ->                                            \* OBJECT_EXISTS
         Finish(Now) /\ UNCHANGED idx
    [] OTHER ->
         /\ idx < MaxTaskId                     \* bound on the task id index
         /\ \E c \in IF r.web THEN {cache} ELSE CacheAfterLookup(cache, k[1]) :
              LET st0 == [Now EXCEPT !.C = c]
                  chk == IF r.web THEN CheckBgmodeTypeForInner(CHOOSE m \in r.modes : TRUE)
                         ELSE CheckModes(GetBackgroundModeInfo(c, k[1], k[2]), r.modes, r.newApi, r)
                  p == SendPlan(r, k[1], pubOk, st0)
                  ins == [st0 EXCEPT !.T = @ @@ (k :> r)]
                  st1 == IF r.web THEN ins ELSE ApplyPlan(ins, k, p)
              IN CASE chk # "OK" -> Finish(st0) /\ UNCHANGED idx        \* the mode error
                   [] ~r.web /\ p.res # "OK" -> Finish(st0) /\ UNCHANGED idx  \* the notification error
                   [] OTHER -> /\ Finish(Refresh(OnContinuousTaskChanged(st1, k, "START", DEFAULT_REASON)))
                               /\ idx' = NextTaskId

(* StartBackgroundRunning: CheckTaskParam, the record, CheckSubMode, then  *)
(* StartBackgroundRunningInner for an app's own ability.                   *)
StartBackgroundRunning(u, a, modes, newApi, carParam, pubOk) ==
  /\ Ready
  /\ newApi \/ Cardinality(modes) = 1          \* the legacy API carries one mode
  /\ IF ~CheckTaskParam(modes, newApi) \/ ~CheckSubMode(modes, carParam)
       THEN Finish(Now) /\ UNCHANGED idx                               \* CHECK_TASK_PARAM
       ELSE StartBackgroundRunningInner(<<u, a>>, InitRecordParam(u, modes, newApi, carParam), pubOk)
  /\ UNCHANGED <<phase, texts, subs>>

(* RequestBackgroundRunningForInner with isStart_: StartBackgroundRunningForInner *)
(* builds the webview / SA record of mode m, then StartBackgroundRunningInner.   *)
StartBackgroundRunningForInner(u, m, pubOk) ==
  /\ Ready
  /\ StartBackgroundRunningInner(<<u, WebAbility(m)>>,
       [modes |-> {m}, car |-> FALSE, web |-> TRUE, newApi |-> TRUE,
        sys |-> u \in SystemApps, susp |-> FALSE, notif |-> FALSE, id |-> NextTaskId], pubOk)
  /\ UNCHANGED <<phase, texts, subs>>

(* UpdateBackgroundRunning + UpdateBackgroundRunningInner.  The record is a *)
(* shared pointer into the table: the sub-mode clear and the new modes stay *)
(* in the table when a later check fails.                                   *)
UpdateBackgroundRunning(u, a, modes, pubOk) ==
  LET k == <<u, a>>
      old == tasks[k]
      r1 == [old EXCEPT !.car = IF BLUETOOTH_INTERACTION \notin modes THEN FALSE ELSE @]
      chk == CheckModes(GetBackgroundModeInfo(cache, u, a), modes, TRUE, r1)
      st1 == [Now EXCEPT !.T[k] = r1]
      st2 == [Now EXCEPT !.T[k] = [r1 EXCEPT !.modes = modes]]
      sendSkipped == DATA_TRANSFER \in old.modes /\ DATA_TRANSFER \in modes
      p == SendPlan(st2.T[k], u, pubOk, st2)
      st3 == IF sendSkipped THEN st2 ELSE ApplyPlan(st2, k, p)
      st4 == IF st3.T[k].susp THEN HandleActiveContinuousTask(st3, u, pubOk) ELSE st3
  IN
  /\ Ready
  /\ CASE k \notin DOMAIN tasks      -> Finish(Now)
       [] old.modes = modes          -> Finish(Now)
       [] chk # "OK"                 -> Finish(st1)
       [] ~sendSkipped /\ p.res # "OK" -> Finish(st2)
       [] OTHER -> Finish(Refresh(OnContinuousTaskChanged(st4, k, "UPDATE", DEFAULT_REASON)))
  /\ UnchangedEnv

\* StopBackgroundRunningInner: cancel a shown notification, then remove.
StopBackgroundRunningInner(k) ==
  /\ CASE k \notin DOMAIN tasks -> Finish(Now)
       [] OTHER ->
            LET st1 == IF tasks[k].notif THEN CancelNotification(Now, k) ELSE Now
            IN Finish(RemoveContinuousTaskRecord(st1, k, DEFAULT_REASON))
  /\ UnchangedEnv

(* StopBackgroundRunning from the app itself.                               *)
StopBackgroundRunning(u, a) == Ready /\ StopBackgroundRunningInner(<<u, a>>)

(* RequestBackgroundRunningForInner without isStart_: StopBackgroundRunningForInner. *)
StopBackgroundRunningForInner(u, m) == Ready /\ StopBackgroundRunningInner(<<u, WebAbility(m)>>)

(* The user removes a continuous-task notification n from the panel: it is  *)
(* gone and TaskNotificationSubscriber::OnCanceled calls                     *)
(* StopContinuousTaskByUser with its label, which removes whatever record    *)
(* has that key now (SetReason REMOVE_NOTIFICATION_CANCEL + remove).         *)
StopContinuousTaskByUser(n) ==
  /\ Ready
  /\ n \in displayed
  /\ Finish(RemoveContinuousTaskRecord([Now EXCEPT !.D = @ \ {n}], n[1], REMOVE_NOTIFICATION_CANCEL))
  /\ UnchangedEnv

\* HandleStopContinuousTask (posted by StopContinuousTask or by a suspend with
\* no suspend-aware app subscriber): DATA_TRANSFER, ALL_MODES or one key.
HandleStopContinuousTask(st, u, taskType, k) ==
  CASE taskType = DATA_TRANSFER ->     \* RemoveContinuousTaskRecordByUidAndMode
         RemoveMatching(st, {j \in DOMAIN st.T : j[1] = u /\ DATA_TRANSFER \in st.T[j].modes},
                        FREEZE_CANCEL, "always", FALSE)
    [] taskType = ALL_MODES ->         \* RemoveContinuousTaskRecordByUid
         RemoveMatching(st, {j \in DOMAIN st.T : j[1] = u}, FREEZE_CANCEL, "always", FALSE)
    [] k \notin DOMAIN st.T -> st
    [] OTHER -> RemoveContinuousTaskRecord(CancelNotification(st, k), k, FREEZE_CANCEL)

(* StopContinuousTask: the freeze / resource module stops an app's tasks.   *)
StopContinuousTask(u, taskType, k) ==
  /\ Ready
  /\ Finish(HandleStopContinuousTask(Now, u, taskType, k))
  /\ UnchangedEnv

\* HandleSuspendContinuousTask: the key must exist, but the first record of
\* uid is suspended and the key's notification is cancelled.
HandleSuspendContinuousTask(st, u, k) ==
  IF k \notin DOMAIN st.T THEN st
  ELSE LET J == KeysOf(st.T, u)
           j == FirstByRank(J)
           st1 == IF J = {} THEN st
                  ELSE Refresh(OnContinuousTaskChanged([st EXCEPT !.T[j].susp = TRUE], j, "SUSPEND", DEFAULT_REASON))
       IN HandleAppContinuousTaskStop(CancelNotification(st1, k), u)

(* SuspendContinuousTask: suspend when the app listens for suspension,      *)
(* otherwise stop the task (HandleStopContinuousTask with taskType 0).      *)
SuspendContinuousTask(u, k) ==
  /\ Ready
  /\ LET st == IF IsExistCallback(u) THEN HandleSuspendContinuousTask(Now, u, k)
               ELSE HandleStopContinuousTask(Now, u, 0, k)
     IN Finish(st)
  /\ UnchangedEnv

(* ActiveContinuousTask -> HandleActiveContinuousTask (the key is unused).  *)
ActiveContinuousTask(u, pubOk) ==
  /\ Ready
  /\ Finish(HandleActiveContinuousTask(Now, u, pubOk))
  /\ UnchangedEnv

(* OnAbilityStateChanged: an ability was destroyed; its tasks go, and only  *)
(* the notifications of non-webview tasks are cancelled.                    *)
OnAbilityStateChanged(u, a) ==
  /\ Ready
  /\ Finish(RemoveMatching(Now, {<<u, a>>} \cap DOMAIN tasks, SYSTEM_CANCEL, "notWeb", TRUE))
  /\ UnchangedEnv

(* OnAppStopped: the app's process died.                                    *)
OnAppStopped(u) ==
  /\ Ready
  /\ Finish(RemoveMatching(Now, {j \in DOMAIN tasks : j[1] = u}, SYSTEM_CANCEL, "ifNotif", TRUE))
  /\ UnchangedEnv

(* OnBundleInfoChanged: a package event drops the app's cached bundle info; *)
(* DATA_CLEARED also removes all its tasks.                                 *)
OnBundleInfoChanged(u, dataCleared) ==
  LET st0 == [Now EXCEPT !.C = Restrict(@, DOMAIN @ \ {u})]
  IN
  /\ Ready
  /\ Finish(IF dataCleared
            THEN RemoveMatching(st0, {j \in DOMAIN st0.T : j[1] = u}, SYSTEM_CANCEL, "always", TRUE)
            ELSE st0)
  /\ UnchangedEnv

(* OnAccountsStateChanged: the tasks of users no longer active go.  It does *)
(* not check isSysReady_.                                                   *)
OnAccountsStateChanged(active) ==
  /\ Finish(RemoveMatching(Now, {j \in DOMAIN tasks : UserOf[j[1]] \notin active}, SYSTEM_CANCEL, "always", TRUE))
  /\ UnchangedEnv

(* OnConfigurationChanged with a language change: the prompts are reloaded  *)
(* (GetNotificationPrompt clears them first and may stop part-way), the    *)
(* bundle cache is cleared, and shown notifications get new text.          *)
OnConfigurationChanged ==
  /\ Ready
  /\ texts' \in GetNotificationPrompt
  /\ Finish([Now EXCEPT !.C = <<>>])
  /\ UNCHANGED <<phase, idx, subs>>

(* OnRemoveSystemAbility: the VoIP call manager or the health-sport SA went *)
(* away; HandleRemoveTaskByMode removes the webview tasks with that mode,   *)
(* without cancelling any notification.                                     *)
HandleRemoveTaskByMode(st, m) ==
  RemoveMatching(st, {j \in DOMAIN st.T : st.T[j].web /\ m \in st.T[j].modes}, SYSTEM_CANCEL, "never", TRUE)

OnRemoveSystemAbility(m) ==
  /\ Ready
  /\ Finish(HandleRemoveTaskByMode(Now, m))
  /\ UnchangedEnv

(* AVSessionNotifyUpdateNotification(Inner): AVSession takes over (or gives *)
(* back) the notification of the app's first task.                          *)
AVSessionNotifyUpdateNotification(u, isPublish, pubOk) ==
  LET J == KeysOf(tasks, u)
      k == FirstByRank(J)
      st0 == [Now EXCEPT !.A[u] = isPublish]
  IN
  /\ Ready
  /\ CASE J = {} -> Finish(st0)
       [] isPublish /\ tasks[k].notif ->
            Finish([CancelNotification(st0, k) EXCEPT !.T[k].notif = FALSE])
       [] isPublish -> Finish(st0)
       [] OTHER ->
            LET p == SendPlan(tasks[k], u, pubOk, st0)
            IN Finish(ApplyPlan(st0, k, p))
  /\ UnchangedEnv

(* DumpCancelTask (hidumper -cancel_all / -cancel key): cancel every task   *)
(* (the table is cleared, then each uid gets OnAppContinuousTaskStop), or   *)
(* cancel one.                                                              *)
DumpCancelAll(st) ==
  LET ks == ByRank(DOMAIN st.T)
      Step(acc, k) == OnContinuousTaskChanged(CancelNotification(acc, k), k, "CANCEL", DEFAULT_REASON)
      st1 == Refresh([FoldLeft(Step, st, ks) EXCEPT !.T = EmptyFn])
  IN Emit(st1, SetToSeq({Ev("AppStop", NoKey, k[1], SysSubs) : k \in DOMAIN st.T}))

DumpCancelTask(cleanAll, k) ==
  /\ Ready
  /\ Finish(CASE cleanAll -> DumpCancelAll(Now)
              [] k \in DOMAIN tasks -> RemoveContinuousTaskRecord(CancelNotification(Now, k), k, DEFAULT_REASON)
              [] OTHER -> Now)
  /\ UnchangedEnv

-----------------------------------------------------------------------------
(* Subscriber registry: AddSubscriber(Inner), RemoveSubscriber(Inner),      *)
(* OnRemoteSubscriberDied(Inner).  A new subscriber has heard of nothing:   *)
(* the tasks running when it subscribes are unseen until a callback names   *)
(* them.                                                                    *)
SubStep(s, subs2) ==
  /\ subs' = subs2
  /\ view' = [view EXCEPT ![s] = IF s \in subs2 \ subs THEN {} ELSE @]
  /\ unseen' = [unseen EXCEPT ![s] = IF s \in subs2 \ subs /\ ~SubHap[s] THEN ActiveKeys ELSE @]
  /\ out' = <<>>
  /\ UNCHANGED <<phase, tasks, idx, cache, texts, avPub, displayed, persisted>>

AddSubscriber(s) ==
  \* OBJECT_EXISTS when the remote object is already registered.
  SubStep(s, subs \cup {s})

RemoveSubscriber(s) ==
  \* INVALID_PARAM when it is not registered.
  SubStep(s, subs \ {s})

OnRemoteSubscriberDied(s) == Ready /\ s \in subs /\ SubStep(s, subs \ {s})

\* GetContinuousTaskAppsInner(list, -1): the tasks of every uid that are not
\* suspended.
GetContinuousTaskAppsInner(T) == {k \in DOMAIN T : ~T[k].susp}

(* GetContinuousTaskApps: a system subscriber asks for the running tasks    *)
(* (spec 6) and takes the answer, produced on the handler thread between    *)
(* two handlers, as its picture of them.                                    *)
GetContinuousTaskApps(s) ==
  /\ Ready
  /\ s \in SysSubs
  /\ view' = [view EXCEPT ![s] = GetContinuousTaskAppsInner(tasks)]
  /\ unseen' = [unseen EXCEPT ![s] = {}]
  /\ out' = <<>>
  /\ UNCHANGED <<phase, tasks, idx, cache, texts, avPub, subs, displayed, persisted>>

-----------------------------------------------------------------------------
(* What a system subscriber learns: Start adds the key, Stop removes it.    *)
ViewStep(v, e, s) ==
  IF s \notin e.to THEN v
  ELSE CASE e.cb = "Start" -> v \cup {e.key}
         [] e.cb = "Stop"  -> v \ {e.key}
         [] OTHER          -> v

ViewAfter(s, v, evs) == FoldLeft(LAMBDA acc, e : ViewStep(acc, e, s), v, evs)

Deliver ==
  /\ view' = [s \in Subs |-> ViewAfter(s, view[s], out')]
  /\ unseen' = [s \in Subs |-> unseen[s] \ {out'[i].key : i \in {i \in DOMAIN out' :
                                 s \in out'[i].to /\ out'[i].cb \in {"Start", "Stop"}}}]

Init ==
  /\ phase = "starting"
  /\ tasks = EmptyFn
  /\ idx = 0
  /\ cache = EmptyFn
  /\ texts = "none"
  /\ avPub = [u \in Uids |-> FALSE]
  /\ subs = {}
  /\ displayed = {}
  /\ view = [s \in Subs |-> {}]
  /\ unseen = [s \in Subs |-> {}]
  /\ out = <<>>
  /\ persisted = EmptyFn

TaskStep ==
  \/ InitNecessaryState
  \/ ServiceRestart
  \/ \E u \in Uids, a \in Abilities, modes \in RequestModes, newApi \in ApiKinds, carParam \in CarParams,
         pubOk \in PublishOutcomes :
       StartBackgroundRunning(u, a, modes, newApi, carParam, pubOk)
  \/ \E u \in Uids, m \in InnerModes, pubOk \in PublishOutcomes : StartBackgroundRunningForInner(u, m, pubOk)
  \/ \E u \in Uids, a \in Abilities, modes \in UpdateModes, pubOk \in PublishOutcomes :
       UpdateBackgroundRunning(u, a, modes, pubOk)
  \/ \E u \in Uids, a \in Abilities : StopBackgroundRunning(u, a)
  \/ \E u \in Uids, m \in InnerModes : StopBackgroundRunningForInner(u, m)
  \/ \E n \in displayed : StopContinuousTaskByUser(n)
  \/ \E k \in Keys : StopContinuousTask(k[1], 0, k)
  \* The by-mode and by-uid stops ignore the key.
  \/ \E u \in Uids, taskType \in {DATA_TRANSFER, ALL_MODES} : StopContinuousTask(u, taskType, NoKey)
  \/ \E k \in Keys : SuspendContinuousTask(k[1], k)
  \/ \E u \in Uids, pubOk \in PublishOutcomes : ActiveContinuousTask(u, pubOk)
  \/ \E u \in Uids, a \in Abilities : OnAbilityStateChanged(u, a)
  \/ \E u \in Uids : OnAppStopped(u)
  \/ \E u \in Uids, dataCleared \in BOOLEAN : OnBundleInfoChanged(u, dataCleared)
  \/ \E active \in SUBSET Users : OnAccountsStateChanged(active)
  \/ OnConfigurationChanged
  \/ \E m \in {VOIP, WORKOUT} : OnRemoveSystemAbility(m)
  \/ \E u \in Uids, isPublish \in BOOLEAN, pubOk \in PublishOutcomes :
       AVSessionNotifyUpdateNotification(u, isPublish, pubOk)
  \/ DumpCancelTask(TRUE, NoKey)
  \/ \E k \in Keys : DumpCancelTask(FALSE, k)

SubscriberStep ==
  \E s \in Subs : AddSubscriber(s) \/ RemoveSubscriber(s) \/ OnRemoteSubscriberDied(s)
                   \/ GetContinuousTaskApps(s)

Next == (TaskStep /\ Deliver) \/ SubscriberStep

Spec == Init /\ [][Next]_vars

-----------------------------------------------------------------------------
TypeOK ==
  /\ phase \in {"starting", "failed", "ready"}
  /\ DOMAIN tasks \subseteq Keys /\ \A k \in DOMAIN tasks : tasks[k] \in Record
  /\ idx \in 0..MaxTaskId
  /\ DOMAIN cache \subseteq Uids /\ \A u \in DOMAIN cache : cache[u] \in BOOLEAN
  /\ texts \in {"none", "main", "all"}
  /\ avPub \in [Uids -> BOOLEAN]
  /\ subs \subseteq Subs
  /\ displayed \subseteq Keys \X (0..MaxTaskId)
  /\ view \in [Subs -> SUBSET Keys] /\ unseen \in [Subs -> SUBSET Keys]
  /\ DOMAIN persisted \subseteq Keys /\ \A k \in DOMAIN persisted : persisted[k] \in Record
  /\ out \in Seq(Event)

(* Every running (not suspended) task a system subscriber believes in is    *)
(* really running: each removal and each suspension of a task reaches the   *)
(* subscribers as OnContinuousTaskStop (NotifySubscribers, TaskSuspend).    *)
SaViewSound == \A s \in SysSubs : view[s] \subseteq ActiveKeys

(* Every running task is known to each system subscriber, or was already    *)
(* running when it subscribed: each start and each resumption is announced  *)
(* by OnContinuousTaskStart (NotifySubscribers, NotifySubscribersTaskActive). *)
SaViewComplete == \A s \in SysSubs : ActiveKeys \subseteq view[s] \cup unseen[s]

(* OnAppContinuousTaskStop(uid) reaches a system subscriber only after the  *)
(* OnContinuousTaskStop of every task of uid it had been told of:           *)
(* RemoveContinuousTaskRecord and the removal loops send the cancel         *)
(* callback before HandleAppContinuousTaskStop looks at the table.          *)
AppStopAfterTaskStops ==
  [][\A i \in DOMAIN out' :
       out'[i].cb = "AppStop" =>
         \A s \in out'[i].to :
           \A k \in ViewAfter(s, view[s], SubSeq(out', 1, i - 1)) : k[1] # out'[i].uid]_vars

(* A notification on screen for a live task is recorded in the task        *)
(* (notificationId_ != -1), so that StopBackgroundRunningInner and          *)
(* OnAppStopped, which cancel only a recorded notification, can take it     *)
(* down: every path that forgets notificationId_ (the empty-text branch of  *)
(* SendContinuousTaskNotification, AVSession taking over) cancels it first. *)
NotificationTracked ==
  \A n \in displayed : n[1] \in DOMAIN tasks /\ tasks[n[1]].id = n[2] => tasks[n[1]].notif

(* Continuous task ids (continuousTaskId_ = ++continuousTaskIdIndex_) are   *)
(* distinct among live tasks and never above the index.                     *)
TaskIdsUnique ==
  /\ \A k \in DOMAIN tasks : 0 < tasks[k].id /\ tasks[k].id <= idx
  /\ \A k, j \in DOMAIN tasks : k # j => tasks[k].id # tasks[j].id

(* Once the service is ready, the snapshot on disk (RefreshTaskRecord) has  *)
(* the live keys with their task ids and suspended flags: every handler     *)
(* path that inserts, erases, suspends or resumes a record refreshes the    *)
(* snapshot, so a restart at any point restores exactly the tasks that were *)
(* running, none that were stopped, and each in its suspend state.          *)
SnapshotCurrent ==
  Ready =>
    /\ DOMAIN persisted = DOMAIN tasks
    /\ \A k \in DOMAIN tasks : persisted[k].id = tasks[k].id /\ persisted[k].susp = tasks[k].susp

-----------------------------------------------------------------------------
(* Statements of spec.md that the code does not keep (violation runs).     *)

(* spec 4.5, Start on a Suspended key: "delegate to Active-transition       *)
(* (resume)".  StartBackgroundRunningInner calls HandleActiveContinuousTask *)
(* with the uid only, which resumes the first suspended record of the app,  *)
(* so the key restarted (by the app or by a webview) may stay suspended.    *)
StartResumesKey ==
  [][\A k \in DOMAIN tasks :
       tasks[k].susp
       /\ \/ \E modes \in RequestModes, newApi \in ApiKinds, pubOk \in PublishOutcomes :
               StartBackgroundRunning(k[1], k[2], modes, newApi, FALSE, pubOk)
          \/ \E m \in InnerModes, pubOk \in PublishOutcomes : k = <<k[1], WebAbility(m)>> /\ StartBackgroundRunningForInner(k[1], m, pubOk)
       => ~tasks'[k].susp]_vars

(* spec 4.5 / 7: every removal (stop or external retraction) cancels the    *)
(* notification.  HandleRemoveTaskByMode and OnAbilityStateChanged never    *)
(* cancel a webview task's notification, which HandleActiveContinuousTask   *)
(* and AVSessionNotifyUpdateNotification do publish.                        *)
NoOrphanNotification == \A n \in displayed : n[1] \in DOMAIN tasks /\ tasks[n[1]].id = n[2]

(* spec 7: "validation errors ... never partially mutate state", and 4.5:   *)
(* an update mutates modes and fans out Update.  UpdateBackgroundRunningInner *)
(* stores the new modes before SendContinuousTaskNotification, and returns   *)
(* its error without the Update callback.                                   *)
ModeChangeAnnounced ==
  [][SysSubs # {} =>
       \A k \in DOMAIN tasks \cap DOMAIN tasks' :
         tasks'[k].modes # tasks[k].modes =>
           \E i \in DOMAIN out' : out'[i].cb = "Update" /\ out'[i].key = k]_vars

(* spec 4.5, Update: "key Active/Suspended; new mode set validates ->       *)
(* mutate modes".  UpdateBackgroundRunningInner validates against            *)
(* GetBackgroundModeInfo, which reads only cachedBundleInfos_; the cache is  *)
(* filled by a start and cleared by OnConfigurationChanged.  Stated here:    *)
(* for every running ability task, an update to modes its ability declares  *)
(* passes that validation.                                                   *)
UpdateAcceptsDeclaredModes ==
  \A k \in DOMAIN tasks, ms \in UpdateModes :
    ~tasks[k].web /\ ms \subseteq Configured[k[1]][k[2]] =>
      CheckModes(GetBackgroundModeInfo(cache, k[1], k[2]), ms, TRUE, tasks[k]) = "OK"

(* spec 8, owner-stop correctness: "after removing the last record for an   *)
(* owner uid, exactly one owner-stop fan-out fires".  The freeze paths       *)
(* RemoveContinuousTaskRecordByUid(AndMode) never call                      *)
(* HandleAppContinuousTaskStop.                                             *)
OwnerStopWhenLastRemoved ==
  [][SysSubs # {} =>
       \A u \in Uids :
         KeysOf(tasks, u) # {} /\ KeysOf(tasks', u) = {} =>
           \E i \in DOMAIN out' : out'[i].cb = "AppStop" /\ out'[i].uid = u]_vars

-----------------------------------------------------------------------------
(* The table implements the lifecycle of ContinuousTaskLifecycle: every    *)
(* handler, bulk removals, the resume that start and update delegate to     *)
(* HandleActiveContinuousTask and the suspend of the first record of the    *)
(* uid included, is a start of an absent key with the next id              *)
(* (OBJECT_EXISTS, ++continuousTaskIdIndex_), a suspend of an active task,  *)
(* a resume of a suspended one, a removal, or leaves the keys, ids and      *)
(* suspend flags alone; a restart followed by the restore                  *)
(* (HandlePersistenceData) is a restart of the lifecycle and the removal of *)
(* the records whose process is gone.  While the service is not ready the  *)
(* lifecycle's tasks are the ones the snapshot will restore, and its index *)
(* the largest id among them.                                              *)
LiveTable == IF Ready THEN tasks ELSE persisted
LC == INSTANCE ContinuousTaskLifecycle
        WITH ids <- [k \in DOMAIN LiveTable |-> LiveTable[k].id],
             suspended <- {k \in DOMAIN LiveTable : LiveTable[k].susp},
             index <- IF Ready \/ DOMAIN persisted = {} THEN idx
                      ELSE Max({persisted[k].id : k \in DOMAIN persisted})
TaskLifecycleRefined == LC!Spec

=============================================================================
