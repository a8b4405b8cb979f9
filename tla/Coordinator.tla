----------------------------- MODULE Coordinator -----------------------------
(***************************************************************************)
(* The voice coordinator (crates/voxshift-core/src/coordinator.rs): the    *)
(* one task that decides when VRChat's mic is toggled and when Discord's   *)
(* self-mute is set.  Adapters feed it events, the UI feeds it commands,   *)
(* and it writes two bounded command channels and one watch channel.       *)
(*                                                                         *)
(* A handler runs up to its only `.await`, the send on a command channel.  *)
(* A send that has not completed is `outbox`; `CompleteSend` is the rest   *)
(* of the handler.  No other handler runs in between: run() awaits each    *)
(* handler, so a full channel stalls events, commands and the timer alike. *)
(***************************************************************************)
EXTENDS Naturals, Sequences, FiniteSets

CONSTANTS
    Nonces,                   \* identities of Discord commands (Uuid::new_v4)
    None,                     \* Option::None
    Configs,                  \* the CoordinatorConfig values a run may start from
    VRCHAT_COMMAND_TIMEOUT,   \* deadlines in ticks of 500 ms
    DISCORD_COMMAND_TIMEOUT,
    VRCHAT_TX_CAPACITY,       \* capacities of the adapters' command channels
    DISCORD_TX_CAPACITY

KnownMute       == {"Muted", "Unmuted"}
MuteState       == KnownMute \union {"Unknown"}
ConnectionState == {"Disconnected", "Connecting", "Authorizing", "Connected", "Degraded"}
LinkMode        == {"InverseBidirectional", "VrchatMaster"}
LinkState       == {"Active", "Paused", "WaitingForState", "Faulted"}

CoordinatorConfig ==
    [ link_mode         : LinkMode,
      link_enabled      : BOOLEAN,
      startup_authority : {"Vrchat", "Discord", "None"},
      resume_policy     : {"KeepState", "SyncFromVrchat"} ]

\* "ToggleNotConfirmed" is the text that asks for a manual resync.
LastError == {"None", "ToggleNotConfirmed", "Other"}

PendingDiscordCommand == [nonce: Nonces, target: KnownMute, left: 0 .. DISCORD_COMMAND_TIMEOUT]
PendingVrChatCommand  == [expected: KnownMute, left: 0 .. VRCHAT_COMMAND_TIMEOUT]

DiscordCommand == [type: {"SetMute"}, target: KnownMute, nonce: Nonces]
VrChatCommand  == [type: {"ToggleVoice"}, expected_after: KnownMute]

\* The statuses the adapters really send: osc_sender.rs only ever reports
\* Degraded, the Discord supervisor Connecting/Disconnected, the client Connected.
VrChatStatusSent  == {"Degraded"}
DiscordStatusSent == {"Connecting", "Connected", "Disconnected"}

ASSUME ConfigsAssumption  == Configs \subseteq CoordinatorConfig /\ Configs # {}
ASSUME TimeoutAssumption  == /\ VRCHAT_COMMAND_TIMEOUT \in Nat \ {0}
                             /\ DISCORD_COMMAND_TIMEOUT \in Nat \ {0}
ASSUME CapacityAssumption == /\ VRCHAT_TX_CAPACITY \in Nat \ {0}
                             /\ DISCORD_TX_CAPACITY \in Nat \ {0}
\* Uuids never run out: one is free while the channel and a pending command hold theirs.
ASSUME NonceAssumption    == Cardinality(Nonces) > DISCORD_TX_CAPACITY + 1
ASSUME NoneAssumption     == /\ None \notin PendingDiscordCommand \union PendingVrChatCommand
                             /\ None \notin DiscordCommand \union VrChatCommand

VARIABLES
    running,             \* FALSE once run() has returned
    config,              \* the configuration run() was started with
    vrchat_state, vrchat_connection,
    discord_state, discord_connection, discord_in_voice,
    link_mode, link_state, initial_sync_done,
    pending_discord, pending_vrchat,
    last_sync_at,        \* whether last_sync_at is Some
    last_error,          \* which kind of text last_error holds, if any
    outbox,              \* the command whose send().await has not completed
    stamp_after_send,    \* whether last_sync_at and a publish follow that send
    snapshot,            \* the watch channel: what the UI reads
    vrchat_tx, discord_tx

vrchatVars  == <<vrchat_state, vrchat_connection>>
discordVars == <<discord_state, discord_connection, discord_in_voice>>
linkVars    == <<link_mode, link_state, initial_sync_done>>
pendingVars == <<pending_discord, pending_vrchat>>
reportVars  == <<last_sync_at, last_error, snapshot>>
sendVars    == <<outbox, stamp_after_send>>
channelVars == <<vrchat_tx, discord_tx>>
vars == <<running, config, vrchatVars, discordVars, linkVars, pendingVars, reportVars, sendVars,
          channelVars>>

-----------------------------------------------------------------------------
Inverse(mute) == IF mute = "Muted" THEN "Unmuted" ELSE IF mute = "Unmuted" THEN "Muted" ELSE "Unknown"

\* AppSnapshot as publish_snapshot would build it from the present state.
Live == [ vrchat_mute |-> vrchat_state,   vrchat_connection |-> vrchat_connection,
          discord_mute |-> discord_state, discord_connection |-> discord_connection,
          discord_in_voice_channel |-> discord_in_voice,
          link_mode |-> link_mode,        link_state |-> link_state,
          last_sync_at |-> last_sync_at,  last_error |-> last_error ]

Snapshot ==
    [ vrchat_mute : MuteState,  vrchat_connection : ConnectionState,
      discord_mute : MuteState, discord_connection : ConnectionState,
      discord_in_voice_channel : BOOLEAN,
      link_mode : LinkMode,     link_state : LinkState,
      last_sync_at : BOOLEAN,   last_error : LastError ]

Init ==
    /\ config \in Configs
    /\ running = TRUE
    /\ vrchat_state = "Unknown"  /\ vrchat_connection = "Disconnected"
    /\ discord_state = "Unknown" /\ discord_connection = "Disconnected"
    /\ discord_in_voice = FALSE
    /\ link_mode = config.link_mode
    /\ link_state = IF config.link_enabled THEN "WaitingForState" ELSE "Paused"
    /\ initial_sync_done = FALSE
    /\ pending_discord = None /\ pending_vrchat = None
    /\ last_sync_at = FALSE   /\ last_error = "None"
    /\ outbox = None          /\ stamp_after_send = FALSE
    /\ snapshot = Live
    /\ vrchat_tx = <<>>       /\ discord_tx = <<>>

\* run() is in its select!, takes the next event, command or deadline, and its
\* handler runs to the end or to a send.
Ready == running /\ outbox = None /\ UNCHANGED <<running, config, channelVars>>

-----------------------------------------------------------------------------
(* Pieces of handlers.  They read the state the handler has already        *)
(* assigned, hence the primes.                                             *)

NoncesInUse == {discord_tx[i].nonce : i \in DOMAIN discord_tx}
               \union {p.nonce : p \in {pending_discord} \ {None}}

NoCommand(pendingVrchat, pendingDiscord) ==
    /\ pending_vrchat' = pendingVrchat
    /\ pending_discord' = pendingDiscord
    /\ outbox' = None

SendSetMute(target) ==
    \E nonce \in Nonces \ NoncesInUse :
       /\ pending_discord' = [nonce |-> nonce, target |-> target,
                              left |-> DISCORD_COMMAND_TIMEOUT]
       /\ outbox' = [type |-> "SetMute", target |-> target, nonce |-> nonce]

(* Beside some definitions stands a faulty form of them, which nothing here *)
(* uses: one for each property, to see that the property notices.           *)

SetDiscordUnknown(pending, target) ==
    IF discord_state' = target \/ (pending # None /\ pending.target = target)
    THEN pending_discord' = pending /\ outbox' = None
    ELSE SendSetMute(target)

SetDiscordAgain(pending, target) ==
    IF discord_state' \in {"Unknown", target}
    THEN pending_discord' = pending /\ outbox' = None
    ELSE SendSetMute(target)

SetDiscordState(pending, target) ==
    IF \/ discord_state' \in {"Unknown", target}
       \/ pending # None /\ pending.target = target
    THEN pending_discord' = pending /\ outbox' = None
    ELSE SendSetMute(target)

SendToggle(expected) ==
    /\ pending_vrchat' = [expected |-> expected, left |-> VRCHAT_COMMAND_TIMEOUT]
    /\ outbox' = [type |-> "ToggleVoice", expected_after |-> expected]

ToggleUnknown(pending, expected) ==
    IF vrchat_state' = expected \/ pending # None
    THEN pending_vrchat' = pending /\ outbox' = None
    ELSE SendToggle(expected)

ToggleBlindly(pending, expected) ==
    IF vrchat_state' = "Unknown" \/ pending # None
    THEN pending_vrchat' = pending /\ outbox' = None
    ELSE SendToggle(expected)

ToggleVrchat(pending, expected) ==
    IF vrchat_state' \in {"Unknown", expected} \/ pending # None
    THEN pending_vrchat' = pending /\ outbox' = None
    ELSE SendToggle(expected)

\* The tail of a handler that publishes and is not a synchronisation.
Publish == /\ stamp_after_send' = FALSE
           /\ UNCHANGED last_sync_at
           /\ snapshot' = Live'

\* The tail of a synchronisation: last_sync_at and the final publish come after
\* the send; `before` is what the UI sees while the send is blocked.
StampAfterPublishing(before) ==
    /\ stamp_after_send' = (outbox' # None)
    /\ last_sync_at' = (last_sync_at \/ outbox' = None)
    /\ snapshot' = IF outbox' = None THEN [Live' EXCEPT !.last_sync_at = last_sync_at] ELSE before

StampAndPublish(before) ==
    IF outbox' = None
    THEN /\ stamp_after_send' = FALSE
         /\ last_sync_at' = TRUE
         /\ snapshot' = Live'
    ELSE /\ stamp_after_send' = TRUE
         /\ UNCHANGED last_sync_at
         /\ snapshot' = before

ConfiguredAuthority == config.startup_authority

EffectiveAuthority ==
    IF link_mode = "VrchatMaster" THEN "Vrchat" ELSE config.startup_authority

NotActivated == link_state

ActivatedLink == IF link_state = "WaitingForState" THEN "Active" ELSE link_state

\* try_initial_sync, called by a handler that has published the new state and
\* is left with the given pending commands.
TryInitialSync(pendingVrchat, pendingDiscord) ==
    \/ /\ "Unknown" \in {vrchat_state', discord_state'}
       /\ NoCommand(pendingVrchat, pendingDiscord)
       /\ UNCHANGED <<initial_sync_done, link_state>>
       /\ Publish
    \/ /\ "Unknown" \notin {vrchat_state', discord_state'}
       /\ initial_sync_done' = TRUE
       /\ link_state' = ActivatedLink
       /\ \/ /\ EffectiveAuthority = "Vrchat"
             /\ SetDiscordState(pendingDiscord, Inverse(vrchat_state'))
             /\ pending_vrchat' = pendingVrchat
          \/ /\ EffectiveAuthority = "Discord"
             /\ ToggleVrchat(pendingVrchat, Inverse(discord_state'))
             /\ pending_discord' = pendingDiscord
          \/ /\ EffectiveAuthority = "None"
             /\ NoCommand(pendingVrchat, pendingDiscord)
       /\ StampAndPublish([Live' EXCEPT !.link_state = link_state])

ResyncFromVrchat(pendingDiscord) ==
    \/ /\ vrchat_state = "Unknown"
       /\ last_error' = "Other"
       /\ pending_discord' = pendingDiscord
       /\ outbox' = None
       /\ Publish
    \/ /\ vrchat_state # "Unknown"
       /\ SetDiscordState(pendingDiscord, Inverse(vrchat_state))
       /\ UNCHANGED last_error
       /\ StampAndPublish(snapshot)

-----------------------------------------------------------------------------
(* Events: handle_event and the handlers it calls.                         *)

HandleVrChatMuteSelf(state) ==
    /\ Ready
    /\ vrchat_state' = state
    /\ vrchat_connection' = "Connected"
    /\ UNCHANGED <<discordVars, link_mode, last_error>>
    /\ \/ /\ ~initial_sync_done
          /\ TryInitialSync(None, pending_discord)
       \/ /\ initial_sync_done
          /\ link_state # "Active"
          /\ NoCommand(None, pending_discord)
          /\ UNCHANGED <<initial_sync_done, link_state>>
          /\ Publish
       \/ /\ initial_sync_done
          /\ link_state = "Active"
          /\ pending_vrchat' = None
          /\ SetDiscordState(pending_discord, Inverse(state))
          /\ UNCHANGED <<initial_sync_done, link_state>>
          /\ Publish

HandleVrChatAvatarChanged ==
    /\ Ready
    /\ vrchat_state' = "Unknown"
    /\ NoCommand(None, pending_discord)
    /\ UNCHANGED <<vrchat_connection, discordVars, linkVars, last_error>>
    /\ Publish

HandleVrChatConnectionChanged(status) ==
    /\ Ready
    /\ vrchat_connection' = status
    /\ UNCHANGED <<vrchat_state, discordVars, linkVars, pendingVars, outbox, last_error>>
    /\ Publish

LinkActive == link_state = "Active"

\* Whether a change of Discord's is passed on to VRChat.
ReflectsDiscord == link_state = "Active" /\ link_mode # "VrchatMaster"

HandleDiscordVoiceSettingsUpdate(mute) ==
    /\ Ready
    /\ discord_state' = mute
    /\ discord_connection' = "Connected"
    /\ UNCHANGED <<vrchatVars, discord_in_voice, link_mode, last_error>>
    /\ \/ /\ ~initial_sync_done
          /\ TryInitialSync(pending_vrchat, None)
       \/ /\ initial_sync_done
          /\ ~ReflectsDiscord
          /\ NoCommand(pending_vrchat, None)
          /\ UNCHANGED <<initial_sync_done, link_state>>
          /\ Publish
       \/ /\ initial_sync_done
          /\ ReflectsDiscord
          /\ pending_discord' = None
          /\ ToggleVrchat(pending_vrchat, Inverse(mute))
          /\ UNCHANGED <<initial_sync_done, link_state>>
          /\ Publish

HandleDiscordVoiceChannelStatus(in_voice) ==
    /\ Ready
    /\ discord_in_voice' = in_voice
    /\ UNCHANGED <<vrchatVars, discord_state, discord_connection, linkVars, pendingVars, outbox,
                   last_error>>
    /\ Publish

LostOnlyWhenDown(status) == status = "Disconnected"

LostOnlyOnRetry(status) == status = "Connecting"

\* Whether a connection status means that Discord's state is no longer known.
LosesDiscord(status) == status # "Connected"

HandleDiscordConnectionChanged(status) ==
    /\ Ready
    /\ discord_connection' = status
    /\ IF LosesDiscord(status)
       THEN discord_state' = "Unknown" /\ pending_discord' = None
       ELSE UNCHANGED <<discord_state, pending_discord>>
    /\ UNCHANGED <<vrchatVars, discord_in_voice, linkVars, pending_vrchat, outbox, last_error>>
    /\ Publish

\* An ERROR frame for `nonce`; it can only answer a command that has been taken
\* from the channel.  An ack of any other nonce changes nothing, and the client
\* never sends Ok acks.
HandleDiscordCommandAck(nonce) ==
    /\ Ready
    /\ pending_discord # None
    /\ pending_discord.nonce = nonce
    /\ nonce \notin {discord_tx[i].nonce : i \in DOMAIN discord_tx}
    /\ pending_discord' = None
    /\ link_state' = "Faulted"
    /\ last_error' = "Other"
    /\ UNCHANGED <<vrchatVars, discordVars, link_mode, initial_sync_done, pending_vrchat, outbox>>
    /\ Publish

HandleDiscordVoiceStateUnavailable ==
    /\ Ready
    /\ last_error' = "Other"
    /\ UNCHANGED <<vrchatVars, discordVars, linkVars, pendingVars, outbox>>
    /\ Publish

-----------------------------------------------------------------------------
(* Commands from the UI and the tray: handle_command.                      *)

SetLinkMode(mode) ==
    /\ Ready
    /\ link_mode' = mode
    /\ UNCHANGED <<vrchatVars, discordVars, link_state, initial_sync_done, pendingVars, outbox,
                   last_error>>
    /\ Publish

Pause ==
    /\ Ready
    /\ link_state' = "Paused"
    /\ UNCHANGED <<vrchatVars, discordVars, link_mode, initial_sync_done, pendingVars, outbox,
                   last_error>>
    /\ Publish

AlwaysSyncs == ResyncFromVrchat(pending_discord)

NeverSyncs == UNCHANGED <<pending_discord, outbox, last_error>> /\ Publish

\* What the configured policy does once the link is Active again.
ResumePolicy ==
    \/ /\ config.resume_policy = "KeepState"
       /\ UNCHANGED <<pending_discord, outbox, last_error>>
       /\ Publish
    \/ /\ config.resume_policy = "SyncFromVrchat"
       /\ ResyncFromVrchat(pending_discord)

Resume ==
    /\ Ready
    /\ link_state' = "Active"
    /\ UNCHANGED <<vrchatVars, discordVars, link_mode, initial_sync_done, pending_vrchat>>
    /\ ResumePolicy

ManualResync ==
    /\ Ready
    /\ pending_vrchat' = None
    /\ UNCHANGED <<vrchatVars, discordVars, linkVars>>
    /\ ResyncFromVrchat(None)

Shutdown ==
    /\ running /\ outbox = None
    /\ running' = FALSE
    /\ UNCHANGED <<config, vrchatVars, discordVars, linkVars, pendingVars, reportVars, sendVars,
                   channelVars>>

-----------------------------------------------------------------------------
(* The send, the passage of time and the timer.                            *)

CompleteSend ==
    /\ outbox # None
    /\ \/ /\ outbox.type = "SetMute"
          /\ Len(discord_tx) < DISCORD_TX_CAPACITY
          /\ discord_tx' = Append(discord_tx, outbox)
          /\ UNCHANGED vrchat_tx
       \/ /\ outbox.type = "ToggleVoice"
          /\ Len(vrchat_tx) < VRCHAT_TX_CAPACITY
          /\ vrchat_tx' = Append(vrchat_tx, outbox)
          /\ UNCHANGED discord_tx
    /\ outbox' = None
    /\ stamp_after_send' = FALSE
    /\ last_sync_at' = (last_sync_at \/ stamp_after_send)
    /\ UNCHANGED <<running, config, vrchatVars, discordVars, linkVars, pendingVars, last_error>>
    /\ snapshot' = IF stamp_after_send THEN Live' ELSE snapshot

AgePastDeadline(p) == IF p = None THEN None ELSE [p EXCEPT !.left = @ - 1]

Age(p) == IF p = None THEN None ELSE [p EXCEPT !.left = IF @ = 0 THEN 0 ELSE @ - 1]

\* 500 ms pass; only pending deadlines can tell.
Tick ==
    /\ running
    /\ \/ pending_vrchat # None /\ pending_vrchat.left > 0
       \/ pending_discord # None /\ pending_discord.left > 0
    /\ pending_vrchat' = Age(pending_vrchat)
    /\ pending_discord' = Age(pending_discord)
    /\ UNCHANGED <<running, config, vrchatVars, discordVars, linkVars, reportVars, sendVars,
                   channelVars>>

Expired(p) == p # None /\ p.left = 0

TimerForToggles == Expired(pending_vrchat)

TimerDue == Expired(pending_vrchat) \/ Expired(pending_discord)

\* The timer is armed with the earlier of the two deadlines (next_deadline), and
\* handle_pending_timeout then examines both.
HandlePendingTimeout ==
    /\ Ready
    /\ TimerDue
    /\ IF Expired(pending_vrchat)
       THEN pending_vrchat' = None /\ vrchat_state' = "Unknown" /\ link_state' = "Faulted"
       ELSE UNCHANGED <<pending_vrchat, vrchat_state, link_state>>
    /\ IF Expired(pending_discord)
       THEN /\ pending_discord' = None
            /\ discord_state' = "Unknown"
            /\ discord_connection' = "Degraded"
       ELSE UNCHANGED <<pending_discord, discord_state, discord_connection>>
    /\ last_error' = IF Expired(pending_discord) THEN "Other" ELSE "ToggleNotConfirmed"
    /\ UNCHANGED <<vrchat_connection, discord_in_voice, link_mode, initial_sync_done, outbox>>
    /\ Publish

-----------------------------------------------------------------------------
(* The adapters' side of the command channels.                             *)

VrChatSenderTakes ==
    /\ vrchat_tx # <<>>
    /\ vrchat_tx' = Tail(vrchat_tx)
    /\ UNCHANGED <<running, config, vrchatVars, discordVars, linkVars, pendingVars, reportVars,
                   sendVars, discord_tx>>

DiscordSessionTakes ==
    /\ discord_tx # <<>>
    /\ discord_tx' = Tail(discord_tx)
    /\ UNCHANGED <<running, config, vrchatVars, discordVars, linkVars, pendingVars, reportVars,
                   sendVars, vrchat_tx>>

HandleEvent ==
    \/ \E state \in KnownMute : HandleVrChatMuteSelf(state)
    \/ HandleVrChatAvatarChanged
    \/ \E status \in VrChatStatusSent : HandleVrChatConnectionChanged(status)
    \/ \E mute \in KnownMute : HandleDiscordVoiceSettingsUpdate(mute)
    \/ \E in_voice \in BOOLEAN : HandleDiscordVoiceChannelStatus(in_voice)
    \/ \E status \in DiscordStatusSent : HandleDiscordConnectionChanged(status)
    \/ \E nonce \in Nonces : HandleDiscordCommandAck(nonce)
    \/ HandleDiscordVoiceStateUnavailable

HandleCommand ==
    \/ \E mode \in LinkMode : SetLinkMode(mode)
    \/ Pause
    \/ Resume
    \/ ManualResync
    \/ Shutdown

Adapters == VrChatSenderTakes \/ DiscordSessionTakes

Next ==
    \/ HandleEvent
    \/ HandleCommand
    \/ CompleteSend
    \/ HandlePendingTimeout
    \/ Tick
    \/ Adapters

Spec == Init /\ [][Next]_vars

-----------------------------------------------------------------------------
\* The value of every variable has the type of its field in struct Coordinator.
TypeOK ==
    /\ running \in BOOLEAN
    /\ config \in CoordinatorConfig
    /\ vrchat_state \in MuteState  /\ vrchat_connection \in ConnectionState
    /\ discord_state \in MuteState /\ discord_connection \in ConnectionState
    /\ discord_in_voice \in BOOLEAN
    /\ link_mode \in LinkMode      /\ link_state \in LinkState
    /\ initial_sync_done \in BOOLEAN
    /\ pending_discord \in PendingDiscordCommand \union {None}
    /\ pending_vrchat \in PendingVrChatCommand \union {None}
    /\ last_sync_at \in BOOLEAN    /\ last_error \in LastError
    /\ outbox \in DiscordCommand \union VrChatCommand \union {None}
    /\ stamp_after_send \in BOOLEAN
    /\ snapshot \in Snapshot
    /\ vrchat_tx \in Seq(VrChatCommand)
    /\ discord_tx \in Seq(DiscordCommand)
=============================================================================
