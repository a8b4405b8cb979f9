------------------------ MODULE CoordinatorProperties ------------------------
(***************************************************************************)
(* What the coordinator promises, whatever events, commands, delays and    *)
(* full channels come its way; and what its documents promise that it does *)
(* not keep.                                                               *)
(***************************************************************************)
EXTENDS Coordinator

(* Safety.                                                                 *)

BothKnown == "Unknown" \notin {vrchat_state, discord_state}

\* As soon as both sides have reported a state the initial synchronisation has
\* run, whatever disconnects, avatar changes, pauses and resumes came before, and
\* the link no longer waits for it (try_initial_sync).
SyncedOnceBothKnown ==
    /\ BothKnown => initial_sync_done
    /\ link_state = "WaitingForState" => ~initial_sync_done

\* A command in flight always asks for the opposite of what its side is believed
\* to be: never a toggle or a SET_VOICE_SETTINGS out of an Unknown state, never one
\* for a state already reached, and no belief changes under a pending command
\* without the command being settled (toggle_vrchat, set_discord_state and every
\* handler that assigns a state).
PendingContradictsBelief ==
    /\ pending_vrchat # None =>
          vrchat_state \in KnownMute /\ pending_vrchat.expected = Inverse(vrchat_state)
    /\ pending_discord # None =>
          discord_state \in KnownMute /\ pending_discord.target = Inverse(discord_state)

\* Nothing is pending before both sides have been seen once, and the link can only
\* be Faulted after that, with an error to show for it.
CommandsOnlyAfterSync ==
    /\ pending_vrchat # None \/ pending_discord # None \/ outbox # None => initial_sync_done
    /\ link_state = "Faulted" => initial_sync_done /\ last_error # "None"

\* A Discord mute state is believed only while the connection is Connected: every
\* path that loses the session or its answers also forgets the state.
DiscordKnownOnlyWhenConnected ==
    discord_state # "Unknown" => discord_connection = "Connected"

\* What the UI reads is the coordinator's state, except that the link state and the
\* time of a synchronisation may lag while its command waits for the channel.
SnapshotCurrent ==
    IF stamp_after_send
    THEN outbox # None /\ snapshot = [Live EXCEPT !.link_state = snapshot.link_state]
    ELSE snapshot = Live

(* Steps.                                                                  *)

Issued(type) == outbox = None /\ outbox' # None /\ outbox'.type = type

\* The microphone is never toggled in VRChat-priority mode, not even by an initial
\* synchronisation configured for Discord, and otherwise only while the link is
\* Active or in that one initial synchronisation.
ToggleOnlyWhenLinked ==
    [][Issued("ToggleVoice") =>
          /\ link_mode = "InverseBidirectional"
          /\ link_state = "Active" \/ ~initial_sync_done]_vars

BothPending == pending_vrchat # None /\ pending_discord # None

\* VoxShift comes to await a confirmation from both applications at once, each of
\* which would undo what the other confirms, only by resuming with SyncFromVrchat
\* while a toggle is pending: every other handler that sends one command settles or
\* refuses the other marker (11.2, 11.3).  A command whose marker was dropped may
\* still be on its way and cross a later one; the markers know nothing of it.
BothPendingOnlyByResume ==
    [][~BothPending /\ BothPending' =>
          Resume /\ config.resume_policy = "SyncFromVrchat"]_vars

\* The initial synchronisation never touches the leading side, corrects the other
\* only if the two agree, and sends nothing with authority None (12.2); and unless
\* the link is Paused it does send that correction.
InitialSyncRespectsAuthority ==
    [][~initial_sync_done /\ initial_sync_done' =>
          LET equal == discord_state' = vrchat_state'
              vrchatLeads == \/ link_mode = "VrchatMaster"
                             \/ config.startup_authority = "Vrchat"
              discordLeads == ~vrchatLeads /\ config.startup_authority = "Discord"
          IN  /\ Issued("SetMute")     => vrchatLeads /\ equal
              /\ Issued("ToggleVoice") => discordLeads /\ equal
              /\ link_state # "Paused" /\ equal =>
                    /\ vrchatLeads  => Issued("SetMute")
                    /\ discordLeads => Issued("ToggleVoice")]_vars

\* A Discord command in flight is never overwritten by another one, which would
\* make its own reply look like a user's action; only a manual resync may do so.
PendingDiscordReplacedOnlyByResync ==
    [][pending_discord # None /\ pending_discord' # None =>
          pending_discord'.nonce = pending_discord.nonce \/ ManualResync]_vars

(* Liveness.                                                               *)

\* run() executes whenever it can: select! picks among ready branches at random, so a
\* deadline that stays due is not passed over for ever, and the adapters' loops keep
\* draining their channels (osc_sender.rs run_command_loop, client.rs run).
Fairness ==
    /\ WF_vars(Tick)
    /\ WF_vars(CompleteSend)
    /\ WF_vars(VrChatSenderTakes)
    /\ WF_vars(DiscordSessionTakes)
    /\ SF_vars(HandlePendingTimeout)

FairSpec == Spec /\ Fairness

\* No command stays pending for ever: it is confirmed, superseded, refused or timed
\* out, whatever the other side does meanwhile (next_deadline covers both).
PendingCommandsResolve ==
    /\ pending_vrchat # None ~> pending_vrchat = None \/ ~running
    /\ \A n \in Nonces :
          pending_discord # None /\ pending_discord.nonce = n
             ~> pending_discord = None \/ pending_discord.nonce # n \/ ~running
=============================================================================
