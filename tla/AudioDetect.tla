---------------------------- MODULE AudioDetect ----------------------------
(***************************************************************************)
(* Audio running-state detection                                           *)
(* (src/services/continuous_task/task_detection/src/audio_detect.cpp).     *)
(*                                                                         *)
(* The audio framework reports batches of player or recorder stream        *)
(* changes, and AVSession reports session create/release.  AudioDetect     *)
(* keeps the running players, recorders and AVSessions, and reports to the *)
(* continuous-task manager (ReportTaskRunningStateUnmet, not in src/) a    *)
(* uid whose audio mode is no longer backed by a running stream.  Each     *)
(* callback is one action.  A callback adds an entry only when find_if    *)
(* misses it, but ParseAudioRecordFromJson appends without that check, so  *)
(* a list may hold an entry twice: the lists are bags, and erase removes   *)
(* one copy (the one find_if returns).                                     *)
(***************************************************************************)
EXTENDS Integers, Sequences, FiniteSets, Bags

CONSTANTS
  Uids,              \* application uids
  Sessions,          \* audio stream session ids
  Pids,              \* process ids of AVSession owners
  AvIds,             \* AVSession session ids
  AV_SESSION_PART_ENABLE, \* the build flag of the same name
  MaxBatch,          \* longest streamInfos list of one callback
  MaxCopies          \* bound on the copies of one entry a restore may leave

UNSET_PID == -1
AUDIO_RUNNING_STATE == 2
AUDIO_PLAYBACK_BGMODE_ID == 2
AUDIO_RECORDING_BGMODE_ID == 3

\* A stream state other than running (the audio framework's values are
\* compared to AUDIO_RUNNING_STATE only).
OTHER_STATE == 5

VARIABLES
  audioPlayerInfos,    \* audioPlayerInfos_: <<uid, sessionId>>
  audioRecorderInfos,  \* audioRecorderInfos_: <<uid, sessionId>>
  avSessionInfos,      \* avSessionInfos_: <<uid, pid, sessionId>>
  unmet,               \* the ReportTaskRunningStateUnmet calls of the last step: <<uid, mode>>
  record               \* the Json::Value ParseAudioRecordToStr last filled, or NoRecord

vars == <<audioPlayerInfos, audioRecorderInfos, avSessionInfos, unmet, record>>

\* A value without the "audioPlayer" / "audioRecorder" members (members).
NoRecord == [members |-> FALSE, p |-> EmptyBag, av |-> EmptyBag, r |-> EmptyBag]

\* One copy of e, as emplace_back adds and erase removes.
One(e) == SetToBag({e})

\* find_if over a list for a uid.
HasUid(l, uid) == \E e \in BagToSet(l) : e[1] = uid

StreamInfo == Uids \X Sessions \X {AUDIO_RUNNING_STATE, OTHER_STATE}

\* Mutant: pid and mode swapped in the call.
UnmetSwapped(uid, mode) == <<uid, UNSET_PID>>

\* A ReportTaskRunningStateUnmet(uid, UNSET_PID, mode) call.
Unmet(uid, mode) == <<uid, mode>>

\* The record of the three lists, so that a batch folds over it.
Lists == [p |-> audioPlayerInfos, r |-> audioRecorderInfos, removed |-> {}]

\* HandlePlayerInfos / HandleRecorderInfos on list l: <<list, uid removed?>>.
HandleInfos(l, uid, sessionId, state) ==
  IF ~BagIn(<<uid, sessionId>>, l) /\ state = AUDIO_RUNNING_STATE
    THEN <<l (+) One(<<uid, sessionId>>), FALSE>>
  ELSE IF BagIn(<<uid, sessionId>>, l) /\ state # AUDIO_RUNNING_STATE
    THEN <<l (-) One(<<uid, sessionId>>), TRUE>>
  ELSE <<l, FALSE>>

HandlePlayerInfos(st, uid, sessionId, state) ==
  LET r == HandleInfos(st.p, uid, sessionId, state)
  IN [st EXCEPT !.p = r[1], !.removed = IF r[2] THEN @ \cup {uid} ELSE @]

\* Mutant: the uid of an erased recorder not collected.
HandleRecorderInfosNoRemoved(st, uid, sessionId, state) ==
  LET r == HandleInfos(st.r, uid, sessionId, state)
  IN [st EXCEPT !.r = r[1]]

HandleRecorderInfos(st, uid, sessionId, state) ==
  LET r == HandleInfos(st.r, uid, sessionId, state)
  IN [st EXCEPT !.r = r[1], !.removed = IF r[2] THEN @ \cup {uid} ELSE @]

\* Mutant: the recording check looks at the player list.
CheckAudioConditionPlayersOnly(players, recorders, sessions, uid, taskType) ==
  IF taskType = AUDIO_PLAYBACK_BGMODE_ID
    THEN LET isAudioConditionMet == HasUid(players, uid)
             isAVSessionConditionMet == HasUid(sessions, uid)
         IN IF AV_SESSION_PART_ENABLE THEN isAudioConditionMet /\ isAVSessionConditionMet
            ELSE isAudioConditionMet
    ELSE HasUid(players, uid)

CheckAudioCondition(players, recorders, sessions, uid, taskType) ==
  IF taskType = AUDIO_PLAYBACK_BGMODE_ID
    THEN LET isAudioConditionMet == HasUid(players, uid)
             isAVSessionConditionMet == HasUid(sessions, uid)
         IN IF AV_SESSION_PART_ENABLE THEN isAudioConditionMet /\ isAVSessionConditionMet
            ELSE isAudioConditionMet
    ELSE HasUid(recorders, uid)

HandleAudioStreamInfo(streamInfos, type) ==
  LET RECURSIVE Loop(_, _)
      Loop(st, i) ==
        IF i > Len(streamInfos) THEN st
        ELSE LET v == streamInfos[i]
             IN Loop(IF type = "player" THEN HandlePlayerInfos(st, v[1], v[2], v[3])
                     ELSE HandleRecorderInfos(st, v[1], v[2], v[3]), i + 1)
      st == Loop(Lists, 1)
  IN /\ audioPlayerInfos' = st.p
     /\ audioRecorderInfos' = st.r
     /\ unmet' = {Unmet(u, AUDIO_RECORDING_BGMODE_ID) :
                    u \in {x \in st.removed :
                             ~CheckAudioCondition(st.p, st.r, avSessionInfos, x, AUDIO_RECORDING_BGMODE_ID)}}
     /\ UNCHANGED <<avSessionInfos, record>>

HandleAVSessionInfo(uid, pid, sessionId, action) ==
  /\ AV_SESSION_PART_ENABLE
  /\ LET e == <<uid, pid, sessionId>>
     IN \/ /\ action = "create" /\ ~BagIn(e, avSessionInfos)
           /\ avSessionInfos' = avSessionInfos (+) One(e)
           /\ unmet' = {}
        \/ /\ action = "release" /\ BagIn(e, avSessionInfos)
           /\ avSessionInfos' = avSessionInfos (-) One(e)
           /\ unmet' = IF CheckAudioCondition(audioPlayerInfos, audioRecorderInfos,
                                              avSessionInfos', uid, AUDIO_PLAYBACK_BGMODE_ID)
                        THEN {} ELSE {Unmet(uid, AUDIO_PLAYBACK_BGMODE_ID)}
        \/ /\ ~(action = "create" /\ ~BagIn(e, avSessionInfos))
           /\ ~(action = "release" /\ BagIn(e, avSessionInfos))
           /\ UNCHANGED avSessionInfos /\ unmet' = {}
  /\ UNCHANGED <<audioPlayerInfos, audioRecorderInfos, record>>

(* ParseAudioRecordToStr: the three lists written out, every copy of an    *)
(* entry included; the caller keeps the value.                              *)
ParseAudioRecordToStr ==
  /\ record' = [members |-> TRUE, p |-> audioPlayerInfos, av |-> avSessionInfos, r |-> audioRecorderInfos]
  /\ unmet' = {}
  /\ UNCHANGED <<audioPlayerInfos, audioRecorderInfos, avSessionInfos>>

(* ParseAudioRecordFromJson: a value without both members returns false;   *)
(* otherwise every entry is appended with emplace_back, without the find_if *)
(* check of the callbacks, to whatever the lists hold.                      *)
ParseAudioRecordFromJson ==
  /\ record.members
  /\ \A e \in BagToSet(record.p) : CopiesIn(e, audioPlayerInfos (+) record.p) <= MaxCopies
  /\ \A e \in BagToSet(record.av) : CopiesIn(e, avSessionInfos (+) record.av) <= MaxCopies
  /\ \A e \in BagToSet(record.r) : CopiesIn(e, audioRecorderInfos (+) record.r) <= MaxCopies
  /\ audioPlayerInfos' = audioPlayerInfos (+) record.p
  /\ avSessionInfos' = avSessionInfos (+) record.av
  /\ audioRecorderInfos' = audioRecorderInfos (+) record.r
  /\ unmet' = {}
  /\ UNCHANGED record

ClearData ==
  /\ audioPlayerInfos' = EmptyBag
  /\ audioRecorderInfos' = EmptyBag
  /\ unmet' = {}
  /\ UNCHANGED <<avSessionInfos, record>>

Init ==
  /\ audioPlayerInfos = EmptyBag
  /\ audioRecorderInfos = EmptyBag
  /\ avSessionInfos = EmptyBag
  /\ unmet = {}
  /\ record = NoRecord

Batches == UNION {[1..n -> StreamInfo] : n \in 1..MaxBatch}

Next ==
  \/ \E b \in Batches, type \in {"player", "recorder"} : HandleAudioStreamInfo(b, type)
  \/ \E u \in Uids, p \in Pids, s \in AvIds, a \in {"create", "release"} :
       HandleAVSessionInfo(u, p, s, a)
  \/ ClearData
  \/ ParseAudioRecordToStr
  \/ ParseAudioRecordFromJson

Spec == Init /\ [][Next]_vars

-----------------------------------------------------------------------------
(* Properties *)

\* What the properties mean by a uid's audio running: a running player
\* (and, with AVSession built in, a live AVSession) for playback, a running
\* recorder for recording.
PlaybackMet(u) ==
  /\ \E e \in BagToSet(audioPlayerInfos) : e[1] = u
  /\ AV_SESSION_PART_ENABLE => \E e \in BagToSet(avSessionInfos) : e[1] = u

RecordingMet(u) == \E e \in BagToSet(audioRecorderInfos) : e[1] = u

TypeOK ==
  /\ IsABag(audioPlayerInfos) /\ BagToSet(audioPlayerInfos) \subseteq Uids \X Sessions
  /\ IsABag(audioRecorderInfos) /\ BagToSet(audioRecorderInfos) \subseteq Uids \X Sessions
  /\ IsABag(avSessionInfos) /\ BagToSet(avSessionInfos) \subseteq Uids \X Pids \X AvIds
  /\ unmet \subseteq Uids \X {AUDIO_PLAYBACK_BGMODE_ID, AUDIO_RECORDING_BGMODE_ID}
  /\ record.members \in BOOLEAN

\* Every ReportTaskRunningStateUnmet(uid, mode) from a stream batch or an
\* AVSession release is sent only when, after the callback, uid really has
\* no running stream backing that mode: a task is never stopped while its
\* audio still runs.
ReportsSound ==
  \A r \in unmet :
    \/ r[2] = AUDIO_RECORDING_BGMODE_ID /\ ~RecordingMet(r[1])
    \/ r[2] = AUDIO_PLAYBACK_BGMODE_ID /\ ~PlaybackMet(r[1])

\* When a stream batch ends a uid's last recorder, the manager hears that
\* the uid's recording mode is unmet in the same callback.
RecordingLossReported ==
  [][\A u \in Uids :
       RecordingMet(u) /\ ~RecordingMet(u)' /\ ~ClearData =>
         <<u, AUDIO_RECORDING_BGMODE_ID>> \in unmet']_vars

\* When a callback ends the running playback of a uid (its last player, or
\* its last AVSession when AVSession is built in), the manager hears that the
\* uid's playback mode is unmet in the same callback (spec 1: the service
\* checks that audio is really playing).
PlaybackLossReported ==
  [][\A u \in Uids :
       PlaybackMet(u) /\ ~PlaybackMet(u)' /\ ~ClearData =>
         <<u, AUDIO_PLAYBACK_BGMODE_ID>> \in unmet']_vars

====
