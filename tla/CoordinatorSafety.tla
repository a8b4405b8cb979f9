-------------------------- MODULE CoordinatorSafety --------------------------
(***************************************************************************)
(* Proofs of the coordinator's safety properties.  Three of them support   *)
(* the others, so they are proved together: a pending command contradicts  *)
(* the belief only because no command exists before the initial            *)
(* synchronisation, which in turn rests on that synchronisation running as *)
(* soon as both sides are known.  The properties of single steps follow.   *)
(***************************************************************************)
EXTENDS CoordinatorProofs

CommandInv == SyncedOnceBothKnown /\ PendingContradictsBelief /\ CommandsOnlyAfterSync

\* What a pending Discord command must look like next to a believed state.
DiscordContradicts(pending, belief) ==
    pending # None => belief \in KnownMute /\ pending.target = Inverse(belief)

VrChatContradicts(pending, belief) ==
    pending # None => belief \in KnownMute /\ pending.expected = Inverse(belief)

\* Among known mute states, what is not the given one is its inverse.
LEMMA OnlyOneOther ==
    ASSUME NEW mute \in KnownMute, NEW other \in KnownMute, mute # other
    PROVE  other = Inverse(mute)
BY DEF KnownMute, Inverse

\* set_discord_state keeps a pending command that contradicts the belief, whatever
\* the target asked for, and otherwise sends one that does.
LEMMA SetDiscordStateEffect ==
    ASSUME NEW pending \in PendingDiscord, NEW target \in KnownMute,
           discord_state' \in MuteState, DiscordContradicts(pending, discord_state'),
           SetDiscordState(pending, target)
    PROVE  /\ DiscordContradicts(pending_discord', discord_state')
           /\ pending # None => pending_discord' = pending
           /\ outbox' # None \/ pending_discord' # pending =>
                 discord_state' # "Unknown" /\ outbox'.type = "SetMute"
<1>1. CASE /\ ~(discord_state' \in {"Unknown", target})
           /\ ~(pending # None /\ pending.target = target)
  <2>1. discord_state' \in KnownMute /\ discord_state' # target
    BY <1>1 DEF MuteState
  <2>2. target = Inverse(discord_state')
    BY <2>1, OnlyOneOther
  <2>3. pending = None
    BY <1>1, <2>2 DEF DiscordContradicts
  <2>4. PICK nonce \in Nonces \ NoncesInUse :
           /\ pending_discord' = [nonce |-> nonce, target |-> target,
                                  left |-> DISCORD_COMMAND_TIMEOUT]
           /\ outbox' = [type |-> "SetMute", target |-> target, nonce |-> nonce]
    BY <1>1 DEF SetDiscordState, SendSetMute
  <2> QED BY <1>1, <2>1, <2>2, <2>3, <2>4 DEF DiscordContradicts
<1>2. CASE ~ (/\ ~(discord_state' \in {"Unknown", target})
              /\ ~(pending # None /\ pending.target = target))
  <2>1. pending_discord' = pending /\ outbox' = None
    BY <1>2 DEF SetDiscordState
  <2> QED BY <2>1 DEF DiscordContradicts
<1> QED BY <1>1, <1>2

\* toggle_vrchat likewise; and it never sends while a command is pending.
LEMMA ToggleVrchatEffect ==
    ASSUME NEW pending \in PendingVrChat, NEW expected \in KnownMute,
           vrchat_state' \in MuteState, VrChatContradicts(pending, vrchat_state'),
           ToggleVrchat(pending, expected)
    PROVE  /\ VrChatContradicts(pending_vrchat', vrchat_state')
           /\ pending # None => pending_vrchat' = pending
           /\ outbox' # None \/ pending_vrchat' # pending =>
                 vrchat_state' # "Unknown" /\ outbox'.type = "ToggleVoice"
<1>1. CASE ~(vrchat_state' \in {"Unknown", expected} \/ pending # None)
  <2>1. vrchat_state' \in KnownMute /\ vrchat_state' # expected
    BY <1>1 DEF MuteState
  <2>2. expected = Inverse(vrchat_state')
    BY <2>1, OnlyOneOther
  <2>3. /\ pending_vrchat' = [expected |-> expected, left |-> VRCHAT_COMMAND_TIMEOUT]
        /\ outbox' = [type |-> "ToggleVoice", expected_after |-> expected]
    BY <1>1 DEF ToggleVrchat, SendToggle
  <2> QED BY <1>1, <2>1, <2>2, <2>3 DEF VrChatContradicts
<1>2. CASE vrchat_state' \in {"Unknown", expected} \/ pending # None
  <2>1. pending_vrchat' = pending /\ outbox' = None
    BY <1>2 DEF ToggleVrchat
  <2> QED BY <2>1 DEF VrChatContradicts
<1> QED BY <1>1, <1>2

\* The initial synchronisation, entered with nothing pending, establishes all that
\* the invariant asks of the state after it.
LEMMA InitialSyncEffect ==
    ASSUME TypeOK, CommandInv, ~initial_sync_done,
           vrchat_state' \in MuteState, discord_state' \in MuteState,
           UNCHANGED last_error,
           TryInitialSync(None, None)
    PROVE  CommandInv'
<1>1. CASE "Unknown" \in {vrchat_state', discord_state'}
  <2>1. /\ pending_vrchat' = None /\ pending_discord' = None /\ outbox' = None
        /\ UNCHANGED <<initial_sync_done, link_state>>
    BY <1>1 DEF TryInitialSync, NoCommand
  <2> QED BY <1>1, <2>1 DEF CommandInv, SyncedOnceBothKnown, PendingContradictsBelief,
                            CommandsOnlyAfterSync, BothKnown
<1>2. CASE "Unknown" \notin {vrchat_state', discord_state'}
  <2>1. vrchat_state' \in KnownMute /\ discord_state' \in KnownMute
    BY <1>2 DEF MuteState
  <2>2. initial_sync_done' = TRUE /\ link_state' = ActivatedLink
    BY <1>2 DEF TryInitialSync
  <2>3. link_state' # "WaitingForState" /\ (link_state' = "Faulted" => link_state = "Faulted")
    BY <2>2 DEF ActivatedLink
  <2>4. /\ VrChatContradicts(pending_vrchat', vrchat_state')
        /\ DiscordContradicts(pending_discord', discord_state')
    <3> USE DEF PendingVrChat, PendingDiscord
    <3>1. VrChatContradicts(None, vrchat_state') /\ DiscordContradicts(None, discord_state')
      BY DEF VrChatContradicts, DiscordContradicts
    <3>2. CASE SetDiscordState(None, Inverse(vrchat_state')) /\ pending_vrchat' = None
      BY <2>1, <3>1, <3>2, InverseKnown, SetDiscordStateEffect DEF MuteState
    <3>3. CASE ToggleVrchat(None, Inverse(discord_state')) /\ pending_discord' = None
      BY <2>1, <3>1, <3>3, InverseKnown, ToggleVrchatEffect DEF MuteState
    <3>4. CASE NoCommand(None, None)
      BY <3>1, <3>4 DEF NoCommand
    <3> QED BY <1>2, <3>2, <3>3, <3>4 DEF TryInitialSync
  <2>5. PendingContradictsBelief'
    BY <2>4 DEF PendingContradictsBelief, VrChatContradicts, DiscordContradicts
  <2> QED BY <2>2, <2>3, <2>5 DEF CommandInv, SyncedOnceBothKnown, CommandsOnlyAfterSync
<1> QED BY <1>1, <1>2

\* A report of VRChat's mute state preserves the invariant.
LEMMA MuteSelfCommands ==
    ASSUME TypeOK, CommandInv, NEW state \in KnownMute, HandleVrChatMuteSelf(state)
    PROVE  CommandInv'
<1>1. /\ vrchat_state' = state
      /\ UNCHANGED <<discord_state, last_error>>
  BY DEF HandleVrChatMuteSelf, discordVars
<1>2. vrchat_state' \in MuteState /\ discord_state' \in MuteState
  BY <1>1 DEF TypeOK, MuteState
<1>3. CASE ~initial_sync_done
  <2>1. pending_discord = None
    BY <1>3 DEF CommandInv, CommandsOnlyAfterSync
  <2>2. TryInitialSync(None, None)
    BY <1>3, <2>1 DEF HandleVrChatMuteSelf
  <2> QED BY <1>1, <1>2, <1>3, <2>2, InitialSyncEffect
<1>4. CASE initial_sync_done /\ link_state # "Active"
  <2>1. /\ pending_vrchat' = None /\ pending_discord' = pending_discord /\ outbox' = None
        /\ UNCHANGED <<initial_sync_done, link_state>>
    BY <1>4 DEF HandleVrChatMuteSelf, NoCommand
  <2> QED BY <1>1, <1>4, <2>1 DEF CommandInv, SyncedOnceBothKnown, PendingContradictsBelief,
                                  CommandsOnlyAfterSync
<1>5. CASE initial_sync_done /\ link_state = "Active"
  <2>1. /\ pending_vrchat' = None /\ SetDiscordState(pending_discord, Inverse(state))
        /\ UNCHANGED <<initial_sync_done, link_state>>
    BY <1>5 DEF HandleVrChatMuteSelf
  <2>2. pending_discord \in PendingDiscord /\ DiscordContradicts(pending_discord, discord_state')
    BY <1>1 DEF CommandInv, PendingContradictsBelief, DiscordContradicts, TypeOK, PendingDiscord
  <2>3. DiscordContradicts(pending_discord', discord_state')
    BY <1>2, <2>1, <2>2, InverseKnown, SetDiscordStateEffect
  <2> QED BY <1>1, <1>5, <2>1, <2>3 DEF CommandInv, SyncedOnceBothKnown, DiscordContradicts,
                                  PendingContradictsBelief, CommandsOnlyAfterSync
<1> QED BY <1>3, <1>4, <1>5

\* So does a report of Discord's.
LEMMA VoiceSettingsUpdateCommands ==
    ASSUME TypeOK, CommandInv, NEW mute \in KnownMute, HandleDiscordVoiceSettingsUpdate(mute)
    PROVE  CommandInv'
<1>1. /\ discord_state' = mute
      /\ UNCHANGED <<vrchat_state, last_error>>
  BY DEF HandleDiscordVoiceSettingsUpdate, vrchatVars
<1>2. vrchat_state' \in MuteState /\ discord_state' \in MuteState
  BY <1>1 DEF TypeOK, MuteState
<1>3. CASE ~initial_sync_done
  <2>1. pending_vrchat = None
    BY <1>3 DEF CommandInv, CommandsOnlyAfterSync
  <2>2. TryInitialSync(None, None)
    BY <1>3, <2>1 DEF HandleDiscordVoiceSettingsUpdate
  <2> QED BY <1>1, <1>2, <1>3, <2>2, InitialSyncEffect
<1>4. CASE initial_sync_done /\ ~ReflectsDiscord
  <2>1. /\ pending_vrchat' = pending_vrchat /\ pending_discord' = None /\ outbox' = None
        /\ UNCHANGED <<initial_sync_done, link_state>>
    BY <1>4 DEF HandleDiscordVoiceSettingsUpdate, NoCommand
  <2> QED BY <1>1, <1>4, <2>1 DEF CommandInv, SyncedOnceBothKnown, PendingContradictsBelief,
                                  CommandsOnlyAfterSync
<1>5. CASE initial_sync_done /\ ReflectsDiscord
  <2>1. /\ pending_discord' = None /\ ToggleVrchat(pending_vrchat, Inverse(mute))
        /\ UNCHANGED <<initial_sync_done, link_state>>
    BY <1>5 DEF HandleDiscordVoiceSettingsUpdate
  <2>2. pending_vrchat \in PendingVrChat /\ VrChatContradicts(pending_vrchat, vrchat_state')
    BY <1>1 DEF CommandInv, PendingContradictsBelief, VrChatContradicts, TypeOK, PendingVrChat
  <2>3. VrChatContradicts(pending_vrchat', vrchat_state')
    BY <1>2, <2>1, <2>2, InverseKnown, ToggleVrchatEffect
  <2> QED BY <1>1, <1>5, <2>1, <2>3 DEF CommandInv, SyncedOnceBothKnown, VrChatContradicts,
                                  PendingContradictsBelief, CommandsOnlyAfterSync
<1> QED BY <1>3, <1>4, <1>5

\* So do the events that send nothing: some forget a state, and with it the command
\* that contradicted it.
LEMMA OtherEventsCommands ==
    ASSUME TypeOK, CommandInv,
           \/ HandleVrChatAvatarChanged
           \/ \E status \in VrChatStatusSent : HandleVrChatConnectionChanged(status)
           \/ \E in_voice \in BOOLEAN : HandleDiscordVoiceChannelStatus(in_voice)
           \/ \E status \in DiscordStatusSent : HandleDiscordConnectionChanged(status)
           \/ \E nonce \in Nonces : HandleDiscordCommandAck(nonce)
           \/ HandleDiscordVoiceStateUnavailable
           \/ HandlePendingTimeout
    PROVE  CommandInv'
<1> USE DEF CommandInv, SyncedOnceBothKnown, PendingContradictsBelief, CommandsOnlyAfterSync,
            BothKnown, Ready, vrchatVars, discordVars, linkVars, pendingVars
<1>1. CASE HandleVrChatAvatarChanged
  BY <1>1 DEF HandleVrChatAvatarChanged, NoCommand
<1>2. CASE \E status \in VrChatStatusSent : HandleVrChatConnectionChanged(status)
  BY <1>2 DEF HandleVrChatConnectionChanged
<1>3. CASE \E in_voice \in BOOLEAN : HandleDiscordVoiceChannelStatus(in_voice)
  BY <1>3 DEF HandleDiscordVoiceChannelStatus
<1>4. CASE \E status \in DiscordStatusSent : HandleDiscordConnectionChanged(status)
  BY <1>4 DEF HandleDiscordConnectionChanged
<1>5. CASE \E nonce \in Nonces : HandleDiscordCommandAck(nonce)
  BY <1>5 DEF HandleDiscordCommandAck
<1>6. CASE HandleDiscordVoiceStateUnavailable
  BY <1>6 DEF HandleDiscordVoiceStateUnavailable
<1>7. CASE HandlePendingTimeout
  BY <1>7 DEF HandlePendingTimeout, TimerDue, Expired
<1> QED BY <1>1, <1>2, <1>3, <1>4, <1>5, <1>6, <1>7

\* A resynchronisation from VRChat sends only when both sides are known, hence only
\* after the initial synchronisation.
LEMMA ResyncCommands ==
    ASSUME TypeOK, CommandInv, NEW pd \in {pending_discord, None},
           UNCHANGED <<vrchat_state, discord_state, initial_sync_done>>,
           link_state' \in {link_state, "Active"},
           pending_vrchat' \in {pending_vrchat, None},
           ResyncFromVrchat(pd)
    PROVE  CommandInv'
<1>1. pd \in PendingDiscord /\ DiscordContradicts(pd, discord_state')
  BY DEF CommandInv, PendingContradictsBelief, DiscordContradicts, TypeOK, PendingDiscord
<1>2. discord_state' \in MuteState
  BY DEF TypeOK
<1>3. /\ DiscordContradicts(pending_discord', discord_state')
      /\ outbox' # None \/ pending_discord' # pd => BothKnown
      /\ last_error' # "None" \/ last_error' = last_error
  <2>1. CASE vrchat_state = "Unknown"
    BY <1>1, <2>1 DEF ResyncFromVrchat
  <2>2. CASE vrchat_state # "Unknown"
    <3>1. SetDiscordState(pd, Inverse(vrchat_state)) /\ UNCHANGED last_error
      BY <2>2 DEF ResyncFromVrchat
    <3>2. Inverse(vrchat_state) \in KnownMute
      BY <2>2, InverseKnown DEF TypeOK, MuteState
    <3> QED BY <1>1, <1>2, <2>2, <3>1, <3>2, SetDiscordStateEffect DEF BothKnown
  <2> QED BY <2>1, <2>2
<1>4. SyncedOnceBothKnown'
  BY DEF CommandInv, SyncedOnceBothKnown, BothKnown
<1>5. PendingContradictsBelief'
  BY <1>3 DEF CommandInv, PendingContradictsBelief, DiscordContradicts
<1>6. CommandsOnlyAfterSync'
  BY <1>3 DEF CommandInv, CommandsOnlyAfterSync, SyncedOnceBothKnown
<1> QED BY <1>4, <1>5, <1>6 DEF CommandInv

\* The commands of the UI preserve the invariant.
LEMMA UICommands ==
    ASSUME TypeOK, CommandInv, HandleCommand
    PROVE  CommandInv'
<1> USE DEF CommandInv, SyncedOnceBothKnown, PendingContradictsBelief, CommandsOnlyAfterSync,
            BothKnown, Ready, vrchatVars, discordVars, linkVars, pendingVars, reportVars, sendVars
<1>1. CASE \E mode \in LinkMode : SetLinkMode(mode)
  BY <1>1 DEF SetLinkMode
<1>2. CASE Pause
  BY <1>2 DEF Pause
<1>3. CASE Resume
  <2>1. CASE NeverSyncs
    BY <1>3, <2>1 DEF Resume, NeverSyncs
  <2>2. CASE ResyncFromVrchat(pending_discord)
    BY <1>3, <2>2, ResyncCommands DEF Resume
  <2> QED BY <1>3, <2>1, <2>2 DEF Resume, ResumePolicy, NeverSyncs
<1>4. CASE ManualResync
  BY <1>4, ResyncCommands DEF ManualResync
<1>5. CASE Shutdown
  BY <1>5 DEF Shutdown
<1> QED BY <1>1, <1>2, <1>3, <1>4, <1>5 DEF HandleCommand

\* Sends, time and the adapters leave beliefs alone and at most age a command.
LEMMA ChannelCommands ==
    ASSUME TypeOK, CommandInv, CompleteSend \/ Tick \/ Adapters
    PROVE  CommandInv'
<1> USE DEF CommandInv, SyncedOnceBothKnown, PendingContradictsBelief, CommandsOnlyAfterSync,
            BothKnown, vrchatVars, discordVars, linkVars, pendingVars, reportVars, sendVars
<1>1. CASE CompleteSend
  BY <1>1 DEF CompleteSend
<1>2. CASE Tick
  <2>1. /\ pending_vrchat' # None =>
              pending_vrchat # None /\ pending_vrchat'.expected = pending_vrchat.expected
        /\ pending_discord' # None =>
              pending_discord # None /\ pending_discord'.target = pending_discord.target
    BY <1>2 DEF Tick, Age, TypeOK, PendingVrChatCommand, PendingDiscordCommand
  <2> QED BY <1>2, <2>1 DEF Tick
<1>3. CASE Adapters
  BY <1>3 DEF Adapters, VrChatSenderTakes, DiscordSessionTakes
<1> QED BY <1>1, <1>2, <1>3

\* Every step preserves the invariant.
LEMMA NextCommands ==
    ASSUME TypeOK, CommandInv, [Next]_vars
    PROVE  CommandInv'
<1>1. CASE HandleEvent
  <2>1. CASE \E state \in KnownMute : HandleVrChatMuteSelf(state)
    BY <2>1, MuteSelfCommands
  <2>2. CASE \E mute \in KnownMute : HandleDiscordVoiceSettingsUpdate(mute)
    BY <2>2, VoiceSettingsUpdateCommands
  <2> QED BY <1>1, <2>1, <2>2, OtherEventsCommands DEF HandleEvent
<1>2. CASE HandleCommand
  BY <1>2, UICommands
<1>3. CASE HandlePendingTimeout
  BY <1>3, OtherEventsCommands
<1>4. CASE CompleteSend \/ Tick \/ Adapters
  BY <1>4, ChannelCommands
<1>5. CASE UNCHANGED vars
  BY <1>5 DEF vars, vrchatVars, discordVars, linkVars, pendingVars, reportVars, sendVars,
     CommandInv, SyncedOnceBothKnown, PendingContradictsBelief, CommandsOnlyAfterSync, BothKnown
<1> QED BY <1>1, <1>2, <1>3, <1>4, <1>5 DEF Next

\* The coordinator starts with nothing known and nothing pending.
LEMMA InitCommands == Init => CommandInv
BY DEF Init, CommandInv, SyncedOnceBothKnown, PendingContradictsBelief, CommandsOnlyAfterSync,
       BothKnown

\* The three invariants of commands and beliefs hold of every behaviour.
THEOREM CommandsSound == Spec => []CommandInv
<1>1. Init => TypeOK /\ CommandInv
  BY InitType, InitCommands
<1>2. TypeOK /\ CommandInv /\ [Next]_vars => (TypeOK /\ CommandInv)'
  BY NextType, NextCommands
<1> QED BY <1>1, <1>2, PTL DEF Spec

\* No command is in flight for a side whose state is unknown or already as asked.
THEOREM PendingContradicts == Spec => []PendingContradictsBelief
<1>1. CommandInv => PendingContradictsBelief
  BY DEF CommandInv
<1> QED BY <1>1, CommandsSound, PTL

\* The initial synchronisation has run whenever both sides are known.
THEOREM InitialSyncNotMissed == Spec => []SyncedOnceBothKnown
<1>1. CommandInv => SyncedOnceBothKnown
  BY DEF CommandInv
<1> QED BY <1>1, CommandsSound, PTL

\* Before it, nothing has been sent and the link is not Faulted.
THEOREM NothingSentBeforeSync == Spec => []CommandsOnlyAfterSync
<1>1. CommandInv => CommandsOnlyAfterSync
  BY DEF CommandInv
<1> QED BY <1>1, CommandsSound, PTL

-----------------------------------------------------------------------------
\* Every step that makes the Discord connection other than Connected also forgets
\* Discord's state.
LEMMA NextDiscordKnown ==
    ASSUME DiscordKnownOnlyWhenConnected, [Next]_vars
    PROVE  DiscordKnownOnlyWhenConnected'
<1> USE DEF DiscordKnownOnlyWhenConnected, Ready, vrchatVars, discordVars, linkVars, pendingVars,
            reportVars, sendVars
<1>1. CASE HandleEvent
  <2>1. CASE \E state \in KnownMute : HandleVrChatMuteSelf(state)
    BY <2>1 DEF HandleVrChatMuteSelf
  <2>2. CASE \E mute \in KnownMute : HandleDiscordVoiceSettingsUpdate(mute)
    BY <2>2 DEF HandleDiscordVoiceSettingsUpdate
  <2>3. CASE \E status \in DiscordStatusSent : HandleDiscordConnectionChanged(status)
    BY <2>3 DEF HandleDiscordConnectionChanged, LosesDiscord
  <2>4. CASE \/ HandleVrChatAvatarChanged
             \/ \E status \in VrChatStatusSent : HandleVrChatConnectionChanged(status)
             \/ \E in_voice \in BOOLEAN : HandleDiscordVoiceChannelStatus(in_voice)
             \/ \E nonce \in Nonces : HandleDiscordCommandAck(nonce)
             \/ HandleDiscordVoiceStateUnavailable
    BY <2>4 DEF HandleVrChatAvatarChanged, HandleVrChatConnectionChanged,
       HandleDiscordVoiceChannelStatus, HandleDiscordCommandAck,
       HandleDiscordVoiceStateUnavailable
  <2> QED BY <1>1, <2>1, <2>2, <2>3, <2>4 DEF HandleEvent
<1>2. CASE HandleCommand
  BY <1>2 DEF HandleCommand, SetLinkMode, Pause, Resume, ManualResync, Shutdown
<1>3. CASE HandlePendingTimeout
  BY <1>3 DEF HandlePendingTimeout
<1>4. CASE CompleteSend \/ Tick \/ Adapters
  BY <1>4 DEF CompleteSend, Tick, Adapters, VrChatSenderTakes, DiscordSessionTakes
<1>5. CASE UNCHANGED vars
  BY <1>5 DEF vars
<1> QED BY <1>1, <1>2, <1>3, <1>4, <1>5 DEF Next

\* Discord's state is believed only over a Connected session.
THEOREM DiscordKnown == Spec => []DiscordKnownOnlyWhenConnected
<1>1. Init => DiscordKnownOnlyWhenConnected
  BY DEF Init, DiscordKnownOnlyWhenConnected
<1>2. DiscordKnownOnlyWhenConnected /\ [Next]_vars => DiscordKnownOnlyWhenConnected'
  BY NextDiscordKnown
<1> QED BY <1>1, <1>2, PTL DEF Spec

-----------------------------------------------------------------------------
\* No step but a resume with SyncFromVrchat comes to have commands pending in both
\* directions: a handler that sends one has just settled the other.
LEMMA StepPends ==
    ASSUME TypeOK, CommandInv, [Next]_vars, ~BothPending, BothPending'
    PROVE  Resume /\ config.resume_policy = "SyncFromVrchat"
<1> USE DEF BothPending, Ready, vrchatVars, discordVars, linkVars, pendingVars, reportVars,
            sendVars
<1>1. CASE HandleEvent
  <2>1. ~TryInitialSync(None, None)
    BY DEF TryInitialSync, NoCommand
  <2>2. ~\E state \in KnownMute : HandleVrChatMuteSelf(state)
    BY <2>1 DEF HandleVrChatMuteSelf, NoCommand, CommandInv, CommandsOnlyAfterSync
  <2>3. ~\E mute \in KnownMute : HandleDiscordVoiceSettingsUpdate(mute)
    BY <2>1 DEF HandleDiscordVoiceSettingsUpdate, NoCommand, CommandInv, CommandsOnlyAfterSync
  <2>4. ~ \/ HandleVrChatAvatarChanged
          \/ \E status \in VrChatStatusSent : HandleVrChatConnectionChanged(status)
          \/ \E in_voice \in BOOLEAN : HandleDiscordVoiceChannelStatus(in_voice)
          \/ \E status \in DiscordStatusSent : HandleDiscordConnectionChanged(status)
          \/ \E nonce \in Nonces : HandleDiscordCommandAck(nonce)
          \/ HandleDiscordVoiceStateUnavailable
    BY DEF HandleVrChatAvatarChanged, HandleVrChatConnectionChanged, NoCommand,
       HandleDiscordVoiceChannelStatus, HandleDiscordConnectionChanged, HandleDiscordCommandAck,
       HandleDiscordVoiceStateUnavailable
  <2> QED BY <1>1, <2>2, <2>3, <2>4 DEF HandleEvent
<1>2. CASE HandleCommand
  <2>1. CASE Resume
    BY <2>1 DEF Resume, ResumePolicy
  <2>2. ~ManualResync
    BY DEF ManualResync
  <2>3. ~((\E mode \in LinkMode : SetLinkMode(mode)) \/ Pause \/ Shutdown)
    BY DEF SetLinkMode, Pause, Shutdown
  <2> QED BY <1>2, <2>1, <2>2, <2>3 DEF HandleCommand
<1>3. ~HandlePendingTimeout
  BY DEF HandlePendingTimeout
<1>4. ~(CompleteSend \/ Tick \/ Adapters)
  BY DEF CompleteSend, Tick, Age, Adapters, VrChatSenderTakes, DiscordSessionTakes
<1>5. ~UNCHANGED vars
  BY DEF vars
<1> QED BY <1>1, <1>2, <1>3, <1>4, <1>5 DEF Next

\* Both markers come to be set only by resuming with SyncFromVrchat.
THEOREM PendingOneWay == Spec => BothPendingOnlyByResume
<1>1. TypeOK /\ CommandInv /\ [Next]_vars =>
         [~BothPending /\ BothPending' =>
             Resume /\ config.resume_policy = "SyncFromVrchat"]_vars
  BY StepPends
<1> QED BY <1>1, TypeCorrect, CommandsSound, PTL DEF Spec, BothPendingOnlyByResume

-----------------------------------------------------------------------------
\* set_discord_state, asked for the opposite of VRChat's known state, never replaces
\* the pending command: that one already asks for all it could.
LEMMA NotReplaced ==
    ASSUME TypeOK, CommandInv, UNCHANGED discord_state, NEW target \in KnownMute,
           SetDiscordState(pending_discord, target), pending_discord # None
    PROVE  pending_discord' = pending_discord
<1>1. pending_discord \in PendingDiscord /\ DiscordContradicts(pending_discord, discord_state')
  BY DEF CommandInv, PendingContradictsBelief, DiscordContradicts, TypeOK, PendingDiscord
<1> QED BY <1>1, SetDiscordStateEffect DEF TypeOK

\* A step that leaves a Discord command pending leaves the same one, unless it is a
\* manual resync.
LEMMA StepKeepsNonce ==
    ASSUME TypeOK, CommandInv, [Next]_vars, pending_discord # None, pending_discord' # None
    PROVE  pending_discord'.nonce = pending_discord.nonce \/ ManualResync
<1> USE DEF Ready, vrchatVars, discordVars, linkVars, pendingVars, reportVars, sendVars
<1>0. initial_sync_done
  BY DEF CommandInv, CommandsOnlyAfterSync
<1>1. CASE HandleEvent
  <2>1. CASE \E state \in KnownMute : HandleVrChatMuteSelf(state)
    BY <1>0, <2>1, InverseKnown, NotReplaced DEF HandleVrChatMuteSelf, NoCommand
  <2>2. CASE \E mute \in KnownMute : HandleDiscordVoiceSettingsUpdate(mute)
    BY <1>0, <2>2 DEF HandleDiscordVoiceSettingsUpdate, NoCommand
  <2>3. CASE \/ HandleVrChatAvatarChanged
             \/ \E status \in VrChatStatusSent : HandleVrChatConnectionChanged(status)
             \/ \E in_voice \in BOOLEAN : HandleDiscordVoiceChannelStatus(in_voice)
             \/ \E status \in DiscordStatusSent : HandleDiscordConnectionChanged(status)
             \/ \E nonce \in Nonces : HandleDiscordCommandAck(nonce)
             \/ HandleDiscordVoiceStateUnavailable
    BY <2>3 DEF HandleVrChatAvatarChanged, HandleVrChatConnectionChanged, NoCommand,
       HandleDiscordVoiceChannelStatus, HandleDiscordConnectionChanged, HandleDiscordCommandAck,
       HandleDiscordVoiceStateUnavailable
  <2> QED BY <1>1, <2>1, <2>2, <2>3 DEF HandleEvent
<1>2. CASE HandleCommand
  <2>1. CASE Resume
    <3>1. CASE ResyncFromVrchat(pending_discord)
      <4>1. CASE vrchat_state = "Unknown"
        BY <3>1, <4>1 DEF ResyncFromVrchat
      <4>2. CASE vrchat_state # "Unknown"
        <5>1. Inverse(vrchat_state) \in KnownMute
          BY <4>2, InverseKnown DEF TypeOK, MuteState
        <5>2. SetDiscordState(pending_discord, Inverse(vrchat_state)) /\ UNCHANGED discord_state
          BY <2>1, <3>1, <4>2 DEF Resume, ResyncFromVrchat
        <5> QED BY <5>1, <5>2, NotReplaced
      <4> QED BY <4>1, <4>2
    <3>2. CASE UNCHANGED pending_discord
      BY <3>2
    <3> QED BY <2>1, <3>1, <3>2 DEF Resume, ResumePolicy
  <2>2. CASE (\E mode \in LinkMode : SetLinkMode(mode)) \/ Pause \/ Shutdown
    BY <2>2 DEF SetLinkMode, Pause, Shutdown
  <2> QED BY <1>2, <2>1, <2>2 DEF HandleCommand
<1>3. CASE HandlePendingTimeout
  BY <1>3 DEF HandlePendingTimeout
<1>4. CASE Tick
  <2>1. pending_discord \in PendingDiscordCommand
    BY DEF TypeOK
  <2> QED BY <1>4, <2>1 DEF Tick, Age, PendingDiscordCommand
<1>5. CASE CompleteSend \/ Adapters
  BY <1>5 DEF CompleteSend, Adapters, VrChatSenderTakes, DiscordSessionTakes
<1>6. CASE UNCHANGED vars
  BY <1>6 DEF vars
<1> QED BY <1>1, <1>2, <1>3, <1>4, <1>5, <1>6 DEF Next

\* Only a manual resync replaces a Discord command in flight.
THEOREM ReplacedOnlyByResync == Spec => PendingDiscordReplacedOnlyByResync
<1>1. TypeOK /\ CommandInv /\ [Next]_vars =>
         [pending_discord # None /\ pending_discord' # None =>
             pending_discord'.nonce = pending_discord.nonce \/ ManualResync]_vars
  BY StepKeepsNonce
<1> QED BY <1>1, TypeCorrect, CommandsSound, PTL DEF Spec, PendingDiscordReplacedOnlyByResync

-----------------------------------------------------------------------------
\* set_discord_state never puts a toggle in the outbox, resync_from_vrchat neither.
LEMMA DiscordSendsSetMute ==
    ASSUME NEW pending, NEW target, SetDiscordState(pending, target)
    PROVE  ~Issued("ToggleVoice")
BY DEF SetDiscordState, SendSetMute, Issued

\* A step that puts a toggle in the outbox is a report of Discord's mute state in
\* bidirectional mode, or the initial synchronisation in that mode.
LEMMA StepToggles ==
    ASSUME TypeOK, CommandInv, [Next]_vars, Issued("ToggleVoice")
    PROVE  /\ link_mode = "InverseBidirectional"
           /\ link_state = "Active" \/ ~initial_sync_done
<1> USE DEF Ready, vrchatVars, discordVars, linkVars, pendingVars, reportVars, sendVars
<1>1. ASSUME TryInitialSync(None, None)
      PROVE  link_mode = "InverseBidirectional"
  <2>1. CASE SetDiscordState(None, Inverse(vrchat_state'))
    BY <2>1, DiscordSendsSetMute
  <2>2. CASE EffectiveAuthority = "Discord"
    BY <2>2 DEF EffectiveAuthority, TypeOK, LinkMode
  <2>3. CASE outbox' = None
    BY <2>3 DEF Issued
  <2> QED BY <1>1, <2>1, <2>2, <2>3 DEF TryInitialSync, NoCommand
<1>2. ASSUME NEW pd, ResyncFromVrchat(pd)
      PROVE  FALSE
  BY <1>2, DiscordSendsSetMute DEF ResyncFromVrchat, Issued
<1>3. CASE HandleEvent
  <2>1. CASE \E state \in KnownMute : HandleVrChatMuteSelf(state)
    BY <1>1, <2>1, DiscordSendsSetMute DEF HandleVrChatMuteSelf, NoCommand, Issued, CommandInv,
       CommandsOnlyAfterSync
  <2>2. CASE \E mute \in KnownMute : HandleDiscordVoiceSettingsUpdate(mute)
    BY <1>1, <2>2 DEF HandleDiscordVoiceSettingsUpdate, NoCommand, Issued, CommandInv,
       CommandsOnlyAfterSync, ReflectsDiscord, TypeOK, LinkMode
  <2>3. CASE \/ HandleVrChatAvatarChanged
             \/ \E status \in VrChatStatusSent : HandleVrChatConnectionChanged(status)
             \/ \E in_voice \in BOOLEAN : HandleDiscordVoiceChannelStatus(in_voice)
             \/ \E status \in DiscordStatusSent : HandleDiscordConnectionChanged(status)
             \/ \E nonce \in Nonces : HandleDiscordCommandAck(nonce)
             \/ HandleDiscordVoiceStateUnavailable
    BY <2>3 DEF HandleVrChatAvatarChanged, HandleVrChatConnectionChanged, NoCommand, Issued,
       HandleDiscordVoiceChannelStatus, HandleDiscordConnectionChanged, HandleDiscordCommandAck,
       HandleDiscordVoiceStateUnavailable
  <2> QED BY <1>3, <2>1, <2>2, <2>3 DEF HandleEvent
<1>4. CASE HandleCommand
  BY <1>2, <1>4 DEF HandleCommand, SetLinkMode, Pause, Resume, ResumePolicy, ManualResync,
     Shutdown, Issued
<1>5. CASE CompleteSend \/ HandlePendingTimeout \/ Tick \/ Adapters \/ UNCHANGED vars
  BY <1>5 DEF CompleteSend, HandlePendingTimeout, Tick, Adapters, VrChatSenderTakes,
     DiscordSessionTakes, vars, Issued
<1> QED BY <1>3, <1>4, <1>5 DEF Next

\* The microphone is toggled only in bidirectional mode, by an Active link or by the
\* initial synchronisation.
THEOREM ToggledOnlyWhenLinked == Spec => ToggleOnlyWhenLinked
<1>1. TypeOK /\ CommandInv /\ [Next]_vars =>
         [Issued("ToggleVoice") =>
             /\ link_mode = "InverseBidirectional"
             /\ link_state = "Active" \/ ~initial_sync_done]_vars
  BY StepToggles
<1> QED BY <1>1, TypeCorrect, CommandsSound, PTL DEF Spec, ToggleOnlyWhenLinked

-----------------------------------------------------------------------------
\* A handler that ends with a publish leaves the snapshot current.
LEMMA PublishCurrent ==
    ASSUME Publish
    PROVE  SnapshotCurrent'
BY DEF Publish, SnapshotCurrent

\* A synchronisation does, provided that what is shown during its send differs from
\* the new state in the link state at most.
LEMMA StampCurrent ==
    ASSUME NEW before, StampAndPublish(before),
           UNCHANGED last_sync_at => before = [Live' EXCEPT !.link_state = before.link_state]
    PROVE  SnapshotCurrent'
BY DEF StampAndPublish, SnapshotCurrent

\* What the initial synchronisation shows during its send is such a snapshot.
LEMMA InitialSyncCurrent ==
    ASSUME NEW pv, NEW pd, TryInitialSync(pv, pd)
    PROVE  SnapshotCurrent'
<1>1. CASE Publish
  BY <1>1, PublishCurrent
<1>2. CASE StampAndPublish([Live' EXCEPT !.link_state = link_state])
  <2> DEFINE before == [Live' EXCEPT !.link_state = link_state]
  <2>1. before = [Live' EXCEPT !.link_state = before.link_state]
    BY DEF Live
  <2> QED BY <1>2, <2>1, StampCurrent
<1> QED BY <1>1, <1>2 DEF TryInitialSync

\* So is what the UI already sees when a resynchronisation starts.
LEMMA ResyncCurrent ==
    ASSUME SnapshotCurrent, outbox = None, NEW pd, ResyncFromVrchat(pd),
           UNCHANGED <<vrchatVars, discordVars, link_mode>>
    PROVE  SnapshotCurrent'
<1>1. CASE vrchat_state = "Unknown"
  BY <1>1, PublishCurrent DEF ResyncFromVrchat
<1>2. CASE vrchat_state # "Unknown"
  <2>1. StampAndPublish(snapshot) /\ UNCHANGED last_error
    BY <1>2 DEF ResyncFromVrchat
  <2>2. snapshot = Live
    BY DEF SnapshotCurrent
  <2>3. ASSUME UNCHANGED last_sync_at
        PROVE  snapshot = [Live' EXCEPT !.link_state = snapshot.link_state]
    BY <2>1, <2>2, <2>3 DEF Live, vrchatVars, discordVars
  <2> QED BY <2>1, <2>3, StampCurrent
<1> QED BY <1>1, <1>2

\* Every step leaves the snapshot current.
LEMMA NextCurrent ==
    ASSUME TypeOK, SnapshotCurrent, [Next]_vars
    PROVE  SnapshotCurrent'
<1>1. CASE HandleEvent
  <2>1. CASE \E state \in KnownMute : HandleVrChatMuteSelf(state)
    BY <2>1, PublishCurrent, InitialSyncCurrent DEF HandleVrChatMuteSelf
  <2>2. CASE \E mute \in KnownMute : HandleDiscordVoiceSettingsUpdate(mute)
    BY <2>2, PublishCurrent, InitialSyncCurrent DEF HandleDiscordVoiceSettingsUpdate
  <2>3. CASE \/ HandleVrChatAvatarChanged
             \/ \E status \in VrChatStatusSent : HandleVrChatConnectionChanged(status)
             \/ \E in_voice \in BOOLEAN : HandleDiscordVoiceChannelStatus(in_voice)
             \/ \E status \in DiscordStatusSent : HandleDiscordConnectionChanged(status)
             \/ \E nonce \in Nonces : HandleDiscordCommandAck(nonce)
             \/ HandleDiscordVoiceStateUnavailable
    BY <2>3, PublishCurrent DEF HandleVrChatAvatarChanged, HandleVrChatConnectionChanged,
       HandleDiscordVoiceChannelStatus, HandleDiscordConnectionChanged, HandleDiscordCommandAck,
       HandleDiscordVoiceStateUnavailable
  <2> QED BY <1>1, <2>1, <2>2, <2>3 DEF HandleEvent
<1>2. CASE HandleCommand
  <2>1. CASE (\E mode \in LinkMode : SetLinkMode(mode)) \/ Pause
    BY <2>1, PublishCurrent DEF SetLinkMode, Pause
  <2>2. CASE Resume
    BY <2>2, PublishCurrent, ResyncCurrent DEF Resume, ResumePolicy, Ready
  <2>3. CASE ManualResync
    BY <2>3, ResyncCurrent DEF ManualResync, Ready, linkVars
  <2>4. CASE Shutdown
    BY <2>4 DEF Shutdown, SnapshotCurrent, Live, vrchatVars, discordVars, linkVars, reportVars,
       sendVars
  <2> QED BY <1>2, <2>1, <2>2, <2>3, <2>4 DEF HandleCommand
<1>3. CASE HandlePendingTimeout
  BY <1>3, PublishCurrent DEF HandlePendingTimeout
<1>4. CASE CompleteSend
  <2>1. CASE stamp_after_send
    BY <1>4, <2>1 DEF CompleteSend, SnapshotCurrent
  <2>2. CASE ~stamp_after_send
    <3>1. UNCHANGED last_sync_at
      BY <1>4, <2>2 DEF CompleteSend, TypeOK
    <3>2. Live' = Live
      BY <1>4, <3>1 DEF CompleteSend, Live, vrchatVars, discordVars, linkVars
    <3> QED BY <1>4, <2>2, <3>2 DEF CompleteSend, SnapshotCurrent
  <2> QED BY <2>1, <2>2
<1>5. CASE Tick \/ Adapters \/ UNCHANGED vars
  BY <1>5 DEF Tick, Adapters, VrChatSenderTakes, DiscordSessionTakes, vars, SnapshotCurrent, Live,
     vrchatVars, discordVars, linkVars, reportVars, sendVars
<1> QED BY <1>1, <1>2, <1>3, <1>4, <1>5 DEF Next

\* The UI is never shown anything but the coordinator's state, save the link state and
\* the time of a synchronisation whose command is waiting to be sent.
THEOREM SnapshotIsCurrent == Spec => []SnapshotCurrent
<1>1. Init => TypeOK /\ SnapshotCurrent
  BY InitType DEF Init, SnapshotCurrent
<1>2. TypeOK /\ SnapshotCurrent /\ [Next]_vars => (TypeOK /\ SnapshotCurrent)'
  BY NextType, NextCurrent
<1> QED BY <1>1, <1>2, PTL DEF Spec

-----------------------------------------------------------------------------
\* set_discord_state, asked for a side that is known, sends exactly when it is not yet
\* there; and it sends no toggle.
LEMMA SetDiscordSends ==
    ASSUME outbox = None, NEW target \in KnownMute, discord_state' \in KnownMute,
           SetDiscordState(None, target)
    PROVE  (Issued("SetMute") <=> discord_state' # target) /\ ~Issued("ToggleVoice")
<1>1. CASE discord_state' = target
  BY <1>1 DEF SetDiscordState, Issued
<1>2. CASE discord_state' # target
  <2>1. PICK nonce \in Nonces :
           outbox' = [type |-> "SetMute", target |-> target, nonce |-> nonce]
    BY <1>2 DEF SetDiscordState, SendSetMute, KnownMute
  <2>2. outbox' \in DiscordCommand
    BY <2>1 DEF DiscordCommand
  <2> QED BY <1>2, <2>1, <2>2, NoneAssumption DEF Issued
<1> QED BY <1>1, <1>2

\* toggle_vrchat likewise.
LEMMA ToggleSends ==
    ASSUME outbox = None, NEW expected \in KnownMute, vrchat_state' \in KnownMute,
           ToggleVrchat(None, expected)
    PROVE  (Issued("ToggleVoice") <=> vrchat_state' # expected) /\ ~Issued("SetMute")
<1>1. CASE vrchat_state' = expected
  BY <1>1 DEF ToggleVrchat, Issued
<1>2. CASE vrchat_state' # expected
  <2>1. outbox' = [type |-> "ToggleVoice", expected_after |-> expected]
    BY <1>2 DEF ToggleVrchat, SendToggle, KnownMute
  <2>2. outbox' \in VrChatCommand
    BY <2>1 DEF VrChatCommand
  <2> QED BY <1>2, <2>1, <2>2, NoneAssumption DEF Issued
<1> QED BY <1>1, <1>2

VrChatLeads  == link_mode = "VrchatMaster" \/ config.startup_authority = "Vrchat"
DiscordLeads == ~VrChatLeads /\ config.startup_authority = "Discord"

\* What the initial synchronisation sends, when it takes place.
SyncSent == /\ Issued("SetMute")     <=> VrChatLeads /\ discord_state' = vrchat_state'
            /\ Issued("ToggleVoice") <=> DiscordLeads /\ discord_state' = vrchat_state'

\* try_initial_sync, entered with nothing pending, sends what the authority asks for.
LEMMA InitialSyncSends ==
    ASSUME TypeOK, outbox = None, ~initial_sync_done, initial_sync_done',
           vrchat_state' \in MuteState, discord_state' \in MuteState,
           TryInitialSync(None, None)
    PROVE  SyncSent
<1>1. vrchat_state' \in KnownMute /\ discord_state' \in KnownMute
  BY DEF TryInitialSync, MuteState
<1>2. /\ Inverse(vrchat_state') \in KnownMute /\ Inverse(discord_state') \in KnownMute
      /\ discord_state' # Inverse(vrchat_state') <=> discord_state' = vrchat_state'
      /\ vrchat_state' # Inverse(discord_state') <=> discord_state' = vrchat_state'
  BY <1>1, InverseKnown, OnlyOneOther
<1>3. /\ EffectiveAuthority = "Vrchat"  <=> VrChatLeads
      /\ EffectiveAuthority = "Discord" <=> DiscordLeads
  BY DEF EffectiveAuthority, VrChatLeads, DiscordLeads
<1>4. CASE EffectiveAuthority = "Vrchat" /\ SetDiscordState(None, Inverse(vrchat_state'))
  BY <1>1, <1>2, <1>3, <1>4, SetDiscordSends DEF SyncSent
<1>5. CASE EffectiveAuthority = "Discord" /\ ToggleVrchat(None, Inverse(discord_state'))
  BY <1>1, <1>2, <1>3, <1>5, ToggleSends DEF SyncSent
<1>6. CASE EffectiveAuthority = "None" /\ NoCommand(None, None)
  BY <1>3, <1>6 DEF SyncSent, NoCommand, Issued
<1> QED BY <1>1, <1>4, <1>5, <1>6 DEF TryInitialSync, KnownMute

\* The synchronisation takes place in a report of either side's state, and in no other
\* step; nothing is pending when it does.
LEMMA StepSyncs ==
    ASSUME TypeOK, CommandInv, [Next]_vars, ~initial_sync_done, initial_sync_done'
    PROVE  SyncSent
<1> USE DEF Ready, vrchatVars, discordVars, linkVars
<1>1. pending_vrchat = None /\ pending_discord = None
  BY DEF CommandInv, CommandsOnlyAfterSync
<1>2. CASE \E state \in KnownMute : HandleVrChatMuteSelf(state)
  BY <1>1, <1>2, InitialSyncSends DEF HandleVrChatMuteSelf, MuteState, TypeOK
<1>3. CASE \E mute \in KnownMute : HandleDiscordVoiceSettingsUpdate(mute)
  BY <1>1, <1>3, InitialSyncSends DEF HandleDiscordVoiceSettingsUpdate, MuteState, TypeOK
<1>4. CASE \/ HandleVrChatAvatarChanged
           \/ \E status \in VrChatStatusSent : HandleVrChatConnectionChanged(status)
           \/ \E in_voice \in BOOLEAN : HandleDiscordVoiceChannelStatus(in_voice)
           \/ \E status \in DiscordStatusSent : HandleDiscordConnectionChanged(status)
           \/ \E nonce \in Nonces : HandleDiscordCommandAck(nonce)
           \/ HandleDiscordVoiceStateUnavailable
  BY <1>4 DEF HandleVrChatAvatarChanged, HandleVrChatConnectionChanged,
     HandleDiscordVoiceChannelStatus, HandleDiscordConnectionChanged, HandleDiscordCommandAck,
     HandleDiscordVoiceStateUnavailable
<1>5. CASE HandleCommand
  BY <1>5 DEF HandleCommand, SetLinkMode, Pause, Resume, ManualResync, Shutdown
<1>6. CASE CompleteSend \/ HandlePendingTimeout \/ Tick \/ Adapters \/ UNCHANGED vars
  BY <1>6 DEF CompleteSend, HandlePendingTimeout, Tick, Adapters, VrChatSenderTakes,
     DiscordSessionTakes, vars
<1> QED BY <1>2, <1>3, <1>4, <1>5, <1>6 DEF Next, HandleEvent

\* The initial synchronisation corrects the side that does not lead, only if the two
\* agree and, unless the link is Paused, whenever they do; it never corrects the other.
THEOREM SyncObeysAuthority == Spec => InitialSyncRespectsAuthority
<1>1. TypeOK /\ CommandInv /\ [Next]_vars =>
         [~initial_sync_done /\ initial_sync_done' =>
             LET equal == discord_state' = vrchat_state'
                 vrchatLeads == \/ link_mode = "VrchatMaster"
                                \/ config.startup_authority = "Vrchat"
                 discordLeads == ~vrchatLeads /\ config.startup_authority = "Discord"
             IN  /\ Issued("SetMute")     => vrchatLeads /\ equal
                 /\ Issued("ToggleVoice") => discordLeads /\ equal
                 /\ link_state # "Paused" /\ equal =>
                       /\ vrchatLeads  => Issued("SetMute")
                       /\ discordLeads => Issued("ToggleVoice")]_vars
  BY StepSyncs DEF SyncSent, VrChatLeads, DiscordLeads
<1> QED BY <1>1, TypeCorrect, CommandsSound, PTL DEF Spec, InitialSyncRespectsAuthority

=============================================================================
