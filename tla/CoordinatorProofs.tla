-------------------------- MODULE CoordinatorProofs --------------------------
(***************************************************************************)
(* Proofs of the coordinator's invariants for any set of command           *)
(* identities, any deadlines and capacities, and any configuration.        *)
(***************************************************************************)
EXTENDS CoordinatorProperties, TLAPS

PendingDiscord == PendingDiscordCommand \union {None}
PendingVrChat  == PendingVrChatCommand \union {None}
Outbox         == DiscordCommand \union VrChatCommand \union {None}

\* Inverting a known mute state gives the other known one.
LEMMA InverseKnown ==
    ASSUME NEW mute \in KnownMute
    PROVE  Inverse(mute) \in KnownMute /\ Inverse(mute) # mute
BY DEF KnownMute, Inverse

\* set_discord_state leaves a well-formed pending command and outbox.
LEMMA SetDiscordStateType ==
    ASSUME NEW pending \in PendingDiscord, NEW target \in KnownMute,
           SetDiscordState(pending, target)
    PROVE  pending_discord' \in PendingDiscord /\ outbox' \in Outbox
BY TimeoutAssumption DEF SetDiscordState, SendSetMute, PendingDiscord, Outbox,
   PendingDiscordCommand, DiscordCommand

\* toggle_vrchat likewise.
LEMMA ToggleVrchatType ==
    ASSUME NEW pending \in PendingVrChat, NEW expected \in KnownMute,
           ToggleVrchat(pending, expected)
    PROVE  pending_vrchat' \in PendingVrChat /\ outbox' \in Outbox
BY TimeoutAssumption DEF ToggleVrchat, SendToggle, PendingVrChat, Outbox,
   PendingVrChatCommand, VrChatCommand

\* Everything of TypeOK but the snapshot and the send's continuation, which are the
\* business of the tail of each handler.
StateTypeOK ==
    /\ running \in BOOLEAN
    /\ config \in CoordinatorConfig
    /\ vrchat_state \in MuteState  /\ vrchat_connection \in ConnectionState
    /\ discord_state \in MuteState /\ discord_connection \in ConnectionState
    /\ discord_in_voice \in BOOLEAN
    /\ link_mode \in LinkMode      /\ link_state \in LinkState
    /\ initial_sync_done \in BOOLEAN
    /\ pending_discord \in PendingDiscord
    /\ pending_vrchat \in PendingVrChat
    /\ last_error \in LastError
    /\ outbox \in Outbox
    /\ vrchat_tx \in Seq(VrChatCommand)
    /\ discord_tx \in Seq(DiscordCommand)

\* A handler that ends with a plain publish keeps the report well formed.
LEMMA PublishType ==
    ASSUME last_sync_at \in BOOLEAN, StateTypeOK', Publish
    PROVE  last_sync_at' \in BOOLEAN /\ stamp_after_send' \in BOOLEAN /\ snapshot' \in Snapshot
BY DEF Publish, StateTypeOK, Live, Snapshot

\* So does a synchronisation.
LEMMA StampAndPublishType ==
    ASSUME last_sync_at \in BOOLEAN, StateTypeOK', NEW before \in Snapshot, StampAndPublish(before)
    PROVE  last_sync_at' \in BOOLEAN /\ stamp_after_send' \in BOOLEAN /\ snapshot' \in Snapshot
<1>1. CASE outbox' = None
  <2>1. stamp_after_send' = FALSE /\ last_sync_at' = TRUE /\ snapshot' = Live'
    BY <1>1 DEF StampAndPublish
  <2>2. last_sync_at' \in BOOLEAN /\ stamp_after_send' \in BOOLEAN
    BY <2>1
  <2>3. Live' \in Snapshot
    BY <2>2 DEF StateTypeOK, Live, Snapshot
  <2> QED BY <2>1, <2>2, <2>3
<1>2. CASE outbox' # None
  <2>1. stamp_after_send' = TRUE /\ last_sync_at' = last_sync_at /\ snapshot' = before
    BY <1>2 DEF StampAndPublish
  <2> QED BY <2>1
<1> QED BY <1>1, <1>2

\* What try_initial_sync assigns is well formed, and it ends in one of the tails.
LEMMA TryInitialSyncType ==
    ASSUME TypeOK, NEW pv \in PendingVrChat, NEW pd \in PendingDiscord,
           vrchat_state' \in MuteState, discord_state' \in MuteState,
           TryInitialSync(pv, pd)
    PROVE  /\ pending_vrchat' \in PendingVrChat /\ pending_discord' \in PendingDiscord
           /\ outbox' \in Outbox
           /\ link_state' \in LinkState /\ initial_sync_done' \in BOOLEAN
           /\ Publish \/ StampAndPublish([Live' EXCEPT !.link_state = link_state])
<1>1. CASE "Unknown" \in {vrchat_state', discord_state'}
  BY <1>1 DEF TryInitialSync, NoCommand, TypeOK, Outbox
<1>2. CASE "Unknown" \notin {vrchat_state', discord_state'}
  <2>1. /\ initial_sync_done' = TRUE
        /\ link_state' = ActivatedLink
        /\ StampAndPublish([Live' EXCEPT !.link_state = link_state])
    BY <1>2 DEF TryInitialSync
  <2>2. vrchat_state' \in KnownMute /\ discord_state' \in KnownMute
    BY <1>2 DEF MuteState
  <2>3. /\ pending_vrchat' \in PendingVrChat /\ pending_discord' \in PendingDiscord
        /\ outbox' \in Outbox
    <3>1. CASE SetDiscordState(pd, Inverse(vrchat_state')) /\ pending_vrchat' = pv
      BY <2>2, <3>1, InverseKnown, SetDiscordStateType
    <3>2. CASE ToggleVrchat(pv, Inverse(discord_state')) /\ pending_discord' = pd
      BY <2>2, <3>2, InverseKnown, ToggleVrchatType
    <3>3. CASE NoCommand(pv, pd)
      BY <3>3 DEF NoCommand, Outbox
    <3> QED BY <1>2, <3>1, <3>2, <3>3 DEF TryInitialSync
  <2>4. link_state' \in LinkState
    BY <2>1 DEF ActivatedLink, LinkState, TypeOK
  <2> QED BY <2>1, <2>3, <2>4
<1> QED BY <1>1, <1>2

\* What resync_from_vrchat assigns is well formed.
LEMMA ResyncType ==
    ASSUME TypeOK, NEW pd \in PendingDiscord, UNCHANGED discordVars, ResyncFromVrchat(pd)
    PROVE  /\ pending_discord' \in PendingDiscord
           /\ outbox' \in Outbox
           /\ last_error' \in LastError
           /\ Publish \/ StampAndPublish(snapshot)
<1>1. CASE vrchat_state = "Unknown"
  BY <1>1 DEF ResyncFromVrchat, Outbox, LastError
<1>2. CASE vrchat_state # "Unknown"
  <2>1. vrchat_state \in KnownMute
    BY <1>2 DEF TypeOK, MuteState
  <2>2. SetDiscordState(pd, Inverse(vrchat_state)) /\ UNCHANGED last_error
        /\ StampAndPublish(snapshot)
    BY <1>2 DEF ResyncFromVrchat
  <2>3. pending_discord' \in PendingDiscord /\ outbox' \in Outbox
    BY <2>1, <2>2, InverseKnown, SetDiscordStateType
  <2> QED BY <2>2, <2>3 DEF TypeOK
<1> QED BY <1>1, <1>2

\* A handler whose assignments are well formed and that ends in one of the two
\* tails preserves TypeOK.
LEMMA HandlerType ==
    ASSUME TypeOK, StateTypeOK', NEW before \in Snapshot, Publish \/ StampAndPublish(before)
    PROVE  TypeOK'
<1>1. last_sync_at \in BOOLEAN
  BY DEF TypeOK
<1>2. last_sync_at' \in BOOLEAN /\ stamp_after_send' \in BOOLEAN /\ snapshot' \in Snapshot
  BY <1>1, PublishType, StampAndPublishType
<1> QED BY <1>2 DEF TypeOK, StateTypeOK, PendingDiscord, PendingVrChat, Outbox

\* What the UI may be shown during a blocked send is a snapshot.
LEMMA EarlySnapshotType ==
    ASSUME TypeOK, StateTypeOK', last_sync_at' \in BOOLEAN
    PROVE  /\ Live' \in Snapshot
           /\ [Live' EXCEPT !.link_state = link_state] \in Snapshot
BY DEF TypeOK, StateTypeOK, Live, Snapshot

\* A report of VRChat's mute state, the handler with the most outcomes, preserves TypeOK.
LEMMA MuteSelfType ==
    ASSUME TypeOK, NEW state \in KnownMute, HandleVrChatMuteSelf(state)
    PROVE  TypeOK'
<1> DEFINE before == [Live' EXCEPT !.link_state = link_state]
<1>1. state \in MuteState /\ None \in PendingVrChat /\ pending_discord \in PendingDiscord
  BY DEF MuteState, PendingVrChat, PendingDiscord, TypeOK
<1>2. /\ vrchat_state' = state /\ vrchat_connection' = "Connected"
      /\ UNCHANGED <<running, config, discordVars, link_mode, last_error, channelVars>>
  BY DEF HandleVrChatMuteSelf, Ready
<1>3. vrchat_state' \in MuteState /\ discord_state' \in MuteState
  BY <1>1, <1>2 DEF TypeOK, discordVars
<1>4. /\ pending_vrchat' \in PendingVrChat /\ pending_discord' \in PendingDiscord
      /\ outbox' \in Outbox
      /\ link_state' \in LinkState /\ initial_sync_done' \in BOOLEAN
      /\ Publish \/ StampAndPublish([Live' EXCEPT !.link_state = link_state])
  <2>1. CASE ~initial_sync_done
    BY <1>1, <1>3, <2>1, TryInitialSyncType DEF HandleVrChatMuteSelf
  <2>2. CASE initial_sync_done /\ link_state # "Active"
    BY <1>1, <2>2 DEF HandleVrChatMuteSelf, NoCommand, TypeOK, Outbox
  <2>3. CASE initial_sync_done /\ link_state = "Active"
    <3>1. /\ pending_vrchat' = None /\ SetDiscordState(pending_discord, Inverse(state))
          /\ UNCHANGED <<initial_sync_done, link_state>> /\ Publish
      BY <2>3 DEF HandleVrChatMuteSelf
    <3> QED BY <1>1, <3>1, InverseKnown, SetDiscordStateType DEF TypeOK
  <2> QED BY <2>1, <2>2, <2>3
<1>5. StateTypeOK'
  BY <1>2, <1>3, <1>4 DEF StateTypeOK, TypeOK, ConnectionState, discordVars, channelVars
<1>6. CASE Publish
  BY <1>5, <1>6, EarlySnapshotType, HandlerType DEF TypeOK, Publish
<1>7. CASE StampAndPublish([Live' EXCEPT !.link_state = link_state])
  <2>1. last_sync_at' \in BOOLEAN
    BY <1>7 DEF StampAndPublish, TypeOK
  <2>2. [Live' EXCEPT !.link_state = link_state] \in Snapshot
    BY <1>5, <2>1, EarlySnapshotType
  <2> QED BY <1>5, <1>7, <2>2, HandlerType
<1> QED BY <1>4, <1>6, <1>7

\* A report of Discord's mute state, handled likewise, preserves TypeOK.
LEMMA VoiceSettingsUpdateType ==
    ASSUME TypeOK, NEW mute \in KnownMute, HandleDiscordVoiceSettingsUpdate(mute)
    PROVE  TypeOK'
<1>1. mute \in MuteState /\ None \in PendingDiscord /\ pending_vrchat \in PendingVrChat
  BY DEF MuteState, PendingVrChat, PendingDiscord, TypeOK
<1>2. /\ discord_state' = mute /\ discord_connection' = "Connected"
      /\ UNCHANGED <<running, config, vrchatVars, discord_in_voice, link_mode, last_error,
                     channelVars>>
  BY DEF HandleDiscordVoiceSettingsUpdate, Ready
<1>3. vrchat_state' \in MuteState /\ discord_state' \in MuteState
  BY <1>1, <1>2 DEF TypeOK, vrchatVars
<1>4. /\ pending_vrchat' \in PendingVrChat /\ pending_discord' \in PendingDiscord
      /\ outbox' \in Outbox
      /\ link_state' \in LinkState /\ initial_sync_done' \in BOOLEAN
      /\ Publish \/ StampAndPublish([Live' EXCEPT !.link_state = link_state])
  <2>1. CASE ~initial_sync_done
    BY <1>1, <1>3, <2>1, TryInitialSyncType DEF HandleDiscordVoiceSettingsUpdate
  <2>2. CASE initial_sync_done /\ ~ReflectsDiscord
    BY <1>1, <2>2 DEF HandleDiscordVoiceSettingsUpdate, NoCommand, TypeOK, Outbox
  <2>3. CASE initial_sync_done /\ ReflectsDiscord
    <3>1. /\ pending_discord' = None /\ ToggleVrchat(pending_vrchat, Inverse(mute))
          /\ UNCHANGED <<initial_sync_done, link_state>> /\ Publish
      BY <2>3 DEF HandleDiscordVoiceSettingsUpdate
    <3> QED BY <1>1, <3>1, InverseKnown, ToggleVrchatType DEF TypeOK
  <2> QED BY <2>1, <2>2, <2>3
<1>5. StateTypeOK'
  BY <1>2, <1>3, <1>4 DEF StateTypeOK, TypeOK, ConnectionState, vrchatVars, channelVars
<1>6. CASE Publish
  BY <1>5, <1>6, EarlySnapshotType, HandlerType DEF TypeOK, Publish
<1>7. CASE StampAndPublish([Live' EXCEPT !.link_state = link_state])
  <2>1. last_sync_at' \in BOOLEAN
    BY <1>7 DEF StampAndPublish, TypeOK
  <2>2. [Live' EXCEPT !.link_state = link_state] \in Snapshot
    BY <1>5, <2>1, EarlySnapshotType
  <2> QED BY <1>5, <1>7, <2>2, HandlerType
<1> QED BY <1>4, <1>6, <1>7

\* The events that only assign and publish.
LEMMA OtherEventsType ==
    ASSUME TypeOK,
           \/ HandleVrChatAvatarChanged
           \/ \E status \in VrChatStatusSent : HandleVrChatConnectionChanged(status)
           \/ \E in_voice \in BOOLEAN : HandleDiscordVoiceChannelStatus(in_voice)
           \/ \E status \in DiscordStatusSent : HandleDiscordConnectionChanged(status)
           \/ \E nonce \in Nonces : HandleDiscordCommandAck(nonce)
           \/ HandleDiscordVoiceStateUnavailable
           \/ HandlePendingTimeout
    PROVE  TypeOK'
<1> USE DEF Ready, StateTypeOK, TypeOK, PendingDiscord, PendingVrChat, Outbox, MuteState,
            ConnectionState, LinkState, LastError, vrchatVars, discordVars, linkVars,
            pendingVars, channelVars
<1>1. StateTypeOK' /\ Publish
  <2>1. CASE HandleVrChatAvatarChanged
    BY <2>1 DEF HandleVrChatAvatarChanged, NoCommand
  <2>2. CASE \E status \in VrChatStatusSent : HandleVrChatConnectionChanged(status)
    BY <2>2 DEF HandleVrChatConnectionChanged, VrChatStatusSent
  <2>3. CASE \E in_voice \in BOOLEAN : HandleDiscordVoiceChannelStatus(in_voice)
    BY <2>3 DEF HandleDiscordVoiceChannelStatus
  <2>4. CASE \E status \in DiscordStatusSent : HandleDiscordConnectionChanged(status)
    BY <2>4 DEF HandleDiscordConnectionChanged, DiscordStatusSent
  <2>5. CASE \E nonce \in Nonces : HandleDiscordCommandAck(nonce)
    BY <2>5 DEF HandleDiscordCommandAck
  <2>6. CASE HandleDiscordVoiceStateUnavailable
    BY <2>6 DEF HandleDiscordVoiceStateUnavailable
  <2>7. CASE HandlePendingTimeout
    BY <2>7 DEF HandlePendingTimeout
  <2> QED BY <2>1, <2>2, <2>3, <2>4, <2>5, <2>6, <2>7
<1>2. Live' \in Snapshot
  BY <1>1, EarlySnapshotType DEF Publish
<1> QED BY <1>1, <1>2, HandlerType

\* The UI's commands.
LEMMA CommandType ==
    ASSUME TypeOK, HandleCommand
    PROVE  TypeOK'
<1> USE DEF Ready, StateTypeOK, TypeOK, PendingDiscord, PendingVrChat, Outbox, LinkState,
            vrchatVars, discordVars, linkVars, pendingVars, channelVars
<1>1. snapshot \in Snapshot
  OBVIOUS
<1>2. CASE \E mode \in LinkMode : SetLinkMode(mode)
  <2>1. StateTypeOK' /\ Publish
    BY <1>2 DEF SetLinkMode
  <2> QED BY <1>1, <2>1, HandlerType
<1>3. CASE Pause
  <2>1. StateTypeOK' /\ Publish
    BY <1>3 DEF Pause
  <2> QED BY <1>1, <2>1, HandlerType
<1>4. CASE Resume
  <2>1. CASE NeverSyncs
    <3>1. StateTypeOK' /\ Publish
      BY <1>4, <2>1 DEF Resume, NeverSyncs
    <3> QED BY <1>1, <3>1, HandlerType
  <2>2. CASE ResyncFromVrchat(pending_discord)
    <3>1. /\ pending_discord' \in PendingDiscord /\ outbox' \in Outbox
          /\ last_error' \in LastError
          /\ Publish \/ StampAndPublish(snapshot)
      BY <1>4, <2>2, ResyncType DEF Resume
    <3>2. StateTypeOK'
      BY <1>4, <3>1 DEF Resume
    <3> QED BY <1>1, <3>1, <3>2, HandlerType
  <2> QED BY <1>4, <2>1, <2>2 DEF Resume, ResumePolicy, NeverSyncs
<1>5. CASE ManualResync
  <2>1. /\ pending_discord' \in PendingDiscord /\ outbox' \in Outbox
        /\ last_error' \in LastError
        /\ Publish \/ StampAndPublish(snapshot)
    BY <1>5, ResyncType DEF ManualResync
  <2>2. StateTypeOK'
    BY <1>5, <2>1 DEF ManualResync
  <2> QED BY <1>1, <2>1, <2>2, HandlerType
<1>6. CASE Shutdown
  BY <1>6 DEF Shutdown, reportVars, sendVars
<1> QED BY <1>2, <1>3, <1>4, <1>5, <1>6 DEF HandleCommand

\* Sends, time and the adapters.
LEMMA ChannelType ==
    ASSUME TypeOK, CompleteSend \/ Tick \/ Adapters
    PROVE  TypeOK'
<1> USE DEF TypeOK, vrchatVars, discordVars, linkVars, pendingVars, reportVars, sendVars
<1>1. CASE CompleteSend
  <2>1. outbox \in DiscordCommand \union VrChatCommand
    BY <1>1 DEF CompleteSend
  <2>2. discord_tx' \in Seq(DiscordCommand) /\ vrchat_tx' \in Seq(VrChatCommand)
    <3>1. CASE outbox.type = "SetMute" /\ discord_tx' = Append(discord_tx, outbox)
               /\ UNCHANGED vrchat_tx
      BY <2>1, <3>1 DEF DiscordCommand, VrChatCommand
    <3>2. CASE outbox.type = "ToggleVoice" /\ vrchat_tx' = Append(vrchat_tx, outbox)
               /\ UNCHANGED discord_tx
      BY <2>1, <3>2 DEF DiscordCommand, VrChatCommand
    <3> QED BY <1>1, <3>1, <3>2 DEF CompleteSend
  <2>3. last_sync_at' \in BOOLEAN
    BY <1>1 DEF CompleteSend
  <2>4. snapshot' \in Snapshot
    <3>1. CASE stamp_after_send
      BY <1>1, <2>3, <3>1 DEF CompleteSend, Live, Snapshot
    <3>2. CASE ~stamp_after_send
      BY <1>1, <3>2 DEF CompleteSend
    <3> QED BY <3>1, <3>2
  <2> QED BY <1>1, <2>2, <2>3, <2>4 DEF CompleteSend
<1>2. CASE Tick
  <2>1. Age(pending_vrchat) \in PendingVrChat
    BY TimeoutAssumption DEF Age, PendingVrChat, PendingVrChatCommand
  <2>2. Age(pending_discord) \in PendingDiscord
    BY TimeoutAssumption DEF Age, PendingDiscord, PendingDiscordCommand
  <2> QED BY <1>2, <2>1, <2>2 DEF Tick, channelVars, PendingVrChat, PendingDiscord
<1>3. CASE VrChatSenderTakes
  <2>1. vrchat_tx' \in Seq(VrChatCommand)
    BY <1>3 DEF VrChatSenderTakes
  <2> QED BY <1>3, <2>1 DEF VrChatSenderTakes
<1>4. CASE DiscordSessionTakes
  <2>1. discord_tx' \in Seq(DiscordCommand)
    BY <1>4 DEF DiscordSessionTakes
  <2> QED BY <1>4, <2>1 DEF DiscordSessionTakes
<1> QED BY <1>1, <1>2, <1>3, <1>4 DEF Adapters

\* The coordinator built by `new` is well formed.
LEMMA InitType == Init => TypeOK
<1> SUFFICES ASSUME Init PROVE TypeOK
  OBVIOUS
<1>1. config \in CoordinatorConfig
  BY ConfigsAssumption DEF Init
<1>2. link_mode \in LinkMode /\ link_state \in LinkState
  BY <1>1 DEF Init, CoordinatorConfig, LinkState
<1>3. snapshot \in Snapshot
  BY <1>2 DEF Init, Live, Snapshot, MuteState, ConnectionState, LastError
<1>4. vrchat_tx \in Seq(VrChatCommand) /\ discord_tx \in Seq(DiscordCommand)
  BY DEF Init
<1>5. /\ running \in BOOLEAN /\ discord_in_voice \in BOOLEAN /\ initial_sync_done \in BOOLEAN
      /\ last_sync_at \in BOOLEAN /\ stamp_after_send \in BOOLEAN
  BY DEF Init
<1>6. /\ pending_discord \in PendingDiscordCommand \union {None}
      /\ pending_vrchat \in PendingVrChatCommand \union {None}
      /\ outbox \in DiscordCommand \union VrChatCommand \union {None}
  BY DEF Init
<1>7. /\ vrchat_state \in MuteState /\ vrchat_connection \in ConnectionState
      /\ discord_state \in MuteState /\ discord_connection \in ConnectionState
      /\ last_error \in LastError
  BY DEF Init, MuteState, ConnectionState, LastError
<1> QED BY <1>1, <1>2, <1>3, <1>4, <1>5, <1>6, <1>7 DEF TypeOK

\* Every step preserves TypeOK.
LEMMA NextType ==
    ASSUME TypeOK, [Next]_vars
    PROVE  TypeOK'
<1>1. CASE HandleEvent
  <2>1. CASE \E state \in KnownMute : HandleVrChatMuteSelf(state)
    BY <2>1, MuteSelfType
  <2>2. CASE \E mute \in KnownMute : HandleDiscordVoiceSettingsUpdate(mute)
    BY <2>2, VoiceSettingsUpdateType
  <2> QED BY <1>1, <2>1, <2>2, OtherEventsType DEF HandleEvent
<1>2. CASE HandleCommand
  BY <1>2, CommandType
<1>3. CASE HandlePendingTimeout
  BY <1>3, OtherEventsType
<1>4. CASE CompleteSend \/ Tick \/ Adapters
  BY <1>4, ChannelType
<1>5. CASE UNCHANGED vars
  BY <1>5 DEF vars, vrchatVars, discordVars, linkVars, pendingVars, reportVars, sendVars,
     channelVars, TypeOK
<1> QED BY <1>1, <1>2, <1>3, <1>4, <1>5 DEF Next

\* Every field of the coordinator keeps its type, whatever the environment does.
THEOREM TypeCorrect == Spec => []TypeOK
<1>1. Init => TypeOK
  BY InitType
<1>2. TypeOK /\ [Next]_vars => TypeOK'
  BY NextType
<1> QED BY <1>1, <1>2, PTL DEF Spec
=============================================================================
