----------------------- MODULE MC_ContinuousTaskMgr -----------------------
(* Model-checking instance of ContinuousTaskMgr: two apps with one ability   *)
(* each plus the webview tasks of each, two os accounts,                    *)
(* one system subscriber and one suspend-aware subscriber of app u1.        *)
EXTENDS ContinuousTaskMgr, TLC

CONSTANTS u1, u2, a1, sSys, sHap, user1, user2

MCUids == {u1, u2}
MCAbilities == {a1}
\* VoIP, and an out-of-range bgModeId_ a webview caller may send.
MCInnerModes == {VOIP, 11}
\* Subscriber-view run: VoIP only (a mode-11 request never enters the table).
ViewInnerModes == {VOIP}
\* u1 declares data transfer, audio playback and bluetooth; u2 audio playback only.
MCConfigured == [u \in MCUids |-> [a \in MCAbilities |-> IF u = u1 THEN {1, 2, 5} ELSE {2}]]
MCUsers == {user1, user2}
MCUserOf == [u \in MCUids |-> IF u = u1 THEN user1 ELSE user2]
MCSubs == {sSys, sHap}
MCSubHap == [s \in MCSubs |-> s = sHap]
MCSubUid == [s \in MCSubs |-> u1]
MCSubSuspendFlag == [s \in MCSubs |-> s = sHap]
KeyOrder == <<<<u1, a1>>, <<u1, WebAbility(VOIP)>>, <<u1, WebAbility(11)>>,
             <<u2, a1>>, <<u2, WebAbility(VOIP)>>, <<u2, WebAbility(11)>>>>
MCRank == [k \in Keys |-> CHOOSE i \in DOMAIN KeyOrder : KeyOrder[i] = k]

\* Subscriber-view runs: the modes only decide which removal loops match.
ViewRequestModes == {{DATA_TRANSFER}, {AUDIO_PLAYBACK}}
ViewUpdateModes == {{DATA_TRANSFER, AUDIO_PLAYBACK}}

\* Notification runs: bluetooth (car key), audio playback (AVSession) and
\* data transfer (update without re-notify); an update may drop a mode.
NotifyRequestModes == {{DATA_TRANSFER}, {AUDIO_PLAYBACK}, {BLUETOOTH_INTERACTION}}
NotifyUpdateModes == {{AUDIO_PLAYBACK}, {DATA_TRANSFER, AUDIO_PLAYBACK}}
=============================================================================
