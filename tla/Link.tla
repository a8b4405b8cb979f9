--------------------------------- MODULE Link ---------------------------------
(***************************************************************************)
(* The coordinator together with the two applications it links: what       *)
(* VRChat and Discord really do with its commands, the notifications that  *)
(* come back, and the people pressing the two mute buttons.                *)
(*                                                                         *)
(* `vrchat_tx` and `discord_tx` stand for the whole way out (channel, OSC  *)
(* datagrams or named pipe) and `vrchat_rx` and `discord_rx` for the whole *)
(* way back.  Each way is first in, first out; nothing orders one against  *)
(* the other, and that is what the shared event channel of the program     *)
(* amounts to.                                                             *)
(***************************************************************************)
EXTENDS Coordinator

CONSTANTS
    Worlds          \* the surroundings a run starts in

\* The two mute buttons, a change of avatar, and VoxShift's own controls.
OpKinds == {"VRChat", "Discord", "Avatar", "UI"}

\* ops: how often people act, by kind of action; patient: whether they wait for the
\* link to settle first; timely: whether every command takes effect and is answered
\* in time; echoes: the numbers of notifications a changed Discord may send;
\* disconnects: how often the Discord session may break.
World == [ ops : [OpKinds -> Nat], patient : BOOLEAN, timely : BOOLEAN,
           echoes : SUBSET {1, 2}, disconnects : Nat ]

ASSUME LinkAssumption ==
    /\ Worlds \subseteq World
    /\ \A w \in Worlds : w.echoes # {}

VARIABLES
    world,          \* one of Worlds
    mic,            \* VRChat's microphone
    voice,          \* Discord's self-mute
    vrchat_rx,      \* MuteSelf values and avatar changes on their way
    discord_rx,     \* voice settings and connection statuses on their way
    session,        \* whether the Discord session is up
    ops_left,       \* what is left of world.ops
    breaks_left     \* what is left of world.disconnects

\* Three variables only record what people asked for; no step depends on them.
VARIABLES
    wanted,         \* the microphone state the last action asks for
    wanted_voice,   \* the self-mute it asks for
    overtaken       \* the toggles under way when VRChat's priority was last chosen

wishes == <<wanted, wanted_voice, overtaken>>
peerVars == <<world, mic, voice, vrchat_rx, discord_rx, session, ops_left, breaks_left, wishes>>
systemVars == <<vars, peerVars>>

Voice(mute)    == [type |-> "VoiceSettings", mute |-> mute]
Status(status) == [type |-> "Connection", status |-> status]

\* What the coordinator hears of a new session: discord_supervisor sets out, run()
\* subscribes and fetches the settings (subscribe_and_seed_state).
Seeded(mute) == <<Status("Connecting"), Voice(mute), Status("Connected")>>

\* People ask for a state of the microphone and for one of Discord.
Wish(forMic, forVoice) ==
    /\ wanted' = forMic
    /\ wanted_voice' = forVoice
    /\ UNCHANGED overtaken

InitLink ==
    /\ Init
    /\ world \in Worlds
    /\ mic \in KnownMute
    /\ voice \in KnownMute
    /\ vrchat_rx = <<mic>>           \* an avatar is loaded
    /\ discord_rx = Seeded(voice)
    /\ session = TRUE
    /\ ops_left = world.ops
    /\ breaks_left = world.disconnects
    /\ wanted = IF EffectiveAuthority = "Discord" THEN Inverse(voice) ELSE mic
    /\ wanted_voice = IF EffectiveAuthority = "Vrchat" THEN Inverse(mic) ELSE voice
    /\ overtaken = 0

\* Nothing is on its way anywhere.
Settled == /\ outbox = None
           /\ vrchat_tx = <<>> /\ discord_tx = <<>>
           /\ vrchat_rx = <<>> /\ discord_rx = <<>>

\* One of the people's actions of this kind is spent, when they may act.
Acts(kind) == /\ ops_left[kind] > 0
              /\ world.patient => Settled
              /\ ops_left' = [ops_left EXCEPT ![kind] = @ - 1]

-----------------------------------------------------------------------------
(* The coordinator's steps, fed from the two ways back.                    *)

ReceiveFromVrchat ==
    /\ vrchat_rx # <<>>
    /\ LET event == Head(vrchat_rx) IN
          \/ event = "AvatarChanged"    /\ HandleVrChatAvatarChanged
          \/ event \in VrChatStatusSent /\ HandleVrChatConnectionChanged(event)
          \/ event \in KnownMute        /\ HandleVrChatMuteSelf(event)
    /\ vrchat_rx' = Tail(vrchat_rx)
    /\ UNCHANGED <<world, mic, voice, discord_rx, session, ops_left, breaks_left, wishes>>

ReceiveFromDiscord ==
    /\ discord_rx # <<>>
    /\ LET event == Head(discord_rx) IN
          IF event.type = "VoiceSettings"
          THEN HandleDiscordVoiceSettingsUpdate(event.mute)
          ELSE HandleDiscordConnectionChanged(event.status)
    /\ discord_rx' = Tail(discord_rx)
    /\ UNCHANGED <<world, mic, voice, vrchat_rx, session, ops_left, breaks_left, wishes>>

Send    == CompleteSend /\ UNCHANGED peerVars
Timeout == HandlePendingTimeout /\ UNCHANGED peerVars
Pass    == ~world.timely /\ Tick /\ UNCHANGED peerVars

-----------------------------------------------------------------------------
(* VRChat: a press of /input/Voice inverts the microphone, and every       *)
(* change of it is reported as MuteSelf.                                   *)

\* run_command_loop reports a send that failed; a datagram dropped goes unnoticed.
SendReported == {<<>>, <<"Degraded">>}

VrchatToggles ==
    /\ VrChatSenderTakes
    /\ mic' = Inverse(mic)
    /\ \E report \in (IF world.timely THEN {<<>>} ELSE SendReported) :
          vrchat_rx' = vrchat_rx \o <<mic'>> \o report
    /\ UNCHANGED <<world, voice, discord_rx, session, ops_left, breaks_left, wishes>>

\* A press that VRChat does not notice: its datagram is lost, or the release of the
\* press before was.
VrchatMissesToggle ==
    /\ ~world.timely
    /\ VrChatSenderTakes
    /\ \E report \in SendReported : vrchat_rx' = vrchat_rx \o report
    /\ UNCHANGED <<world, mic, voice, discord_rx, session, ops_left, breaks_left, wishes>>

VrchatUserActs ==
    /\ Acts("VRChat")
    /\ mic' = Inverse(mic)
    /\ Wish(mic', Inverse(mic'))
    /\ vrchat_rx' = Append(vrchat_rx, mic')
    /\ UNCHANGED <<vars, world, voice, discord_rx, session, breaks_left>>

\* Loading another avatar is announced, and its parameters are sent anew: VRChat has
\* the last word, in either mode.
VrchatAvatarChanges ==
    /\ Acts("Avatar")
    /\ Wish(wanted, Inverse(mic))
    /\ vrchat_rx' = vrchat_rx \o <<"AvatarChanged", mic>>
    /\ UNCHANGED <<vars, world, mic, voice, discord_rx, session, breaks_left>>

-----------------------------------------------------------------------------
(* Discord: SET_VOICE_SETTINGS is answered with the resulting settings,    *)
(* and a change is also dispatched as VOICE_SETTINGS_UPDATE; the client    *)
(* forwards both (handle_incoming_frame).                                  *)

DiscordSets ==
    /\ session
    /\ DiscordSessionTakes
    /\ voice' = Head(discord_tx).target
    /\ \E n \in (IF voice' = voice THEN {1} ELSE world.echoes) :
          discord_rx' = discord_rx \o [i \in 1 .. n |-> Voice(voice')]
    /\ UNCHANGED <<world, mic, vrchat_rx, session, ops_left, breaks_left, wishes>>

DiscordUserActs ==
    /\ Acts("Discord")
    /\ voice' = Inverse(voice)
    /\ Wish(IF link_mode = "VrchatMaster" THEN wanted ELSE Inverse(voice'), voice')
    /\ discord_rx' = IF session THEN Append(discord_rx, Voice(voice')) ELSE discord_rx
    /\ UNCHANGED <<vars, world, mic, vrchat_rx, session, breaks_left>>

\* The pipe breaks: frames not read yet are lost, and so is a command the client
\* was about to write; commands still in the channel wait for the next session.
DiscordSessionBreaks ==
    /\ session
    /\ breaks_left > 0
    /\ breaks_left' = breaks_left - 1
    /\ session' = FALSE
    /\ \E k \in 0 .. Len(discord_rx) :
          discord_rx' = SubSeq(discord_rx, 1, k) \o <<Status("Disconnected")>>
    /\ DiscordSessionTakes \/ UNCHANGED vars
    /\ UNCHANGED <<world, mic, voice, vrchat_rx, ops_left, wishes>>

\* discord_supervisor connects again.
DiscordSessionRestored ==
    /\ ~session
    /\ session' = TRUE
    /\ discord_rx' = discord_rx \o Seeded(voice)
    /\ UNCHANGED <<vars, world, mic, voice, vrchat_rx, ops_left, breaks_left, wishes>>

\* Commands that will press VRChat's button unless they are lost.
TogglesUnderWay ==
    Len(vrchat_tx) + (IF outbox # None /\ outbox.type = "ToggleVoice" THEN 1 ELSE 0)

\* Choosing VRChat's priority leaves the microphone to its user from here on.
ChooseMode(mode) ==
    /\ SetLinkMode(mode)
    /\ \/ /\ mode = "VrchatMaster" /\ link_mode # mode
          /\ wanted' = mic
          /\ overtaken' = TogglesUnderWay
          /\ UNCHANGED wanted_voice
       \/ /\ mode = link_mode \/ mode # "VrchatMaster"
          /\ UNCHANGED wishes

\* The link's controls in the window and the tray.  A resync, manual or by resuming,
\* makes VRChat the side to follow (12.3, 4.3); resuming with KeepState leaves both
\* sides as they are.
UserControls ==
    /\ Acts("UI")
    /\ \/ \E mode \in LinkMode : ChooseMode(mode)
       \/ Pause /\ UNCHANGED wishes
       \/ Resume /\ Wish(mic, IF config.resume_policy = "KeepState" THEN voice ELSE Inverse(mic))
       \/ ManualResync /\ Wish(mic, Inverse(mic))
    /\ UNCHANGED <<world, mic, voice, vrchat_rx, discord_rx, session, breaks_left>>

NextLink ==
    \/ ReceiveFromVrchat \/ ReceiveFromDiscord
    \/ Send \/ Timeout \/ Pass
    \/ VrchatToggles \/ VrchatMissesToggle \/ VrchatUserActs \/ VrchatAvatarChanges
    \/ DiscordSets \/ DiscordUserActs
    \/ DiscordSessionBreaks \/ DiscordSessionRestored
    \/ UserControls

\* Messages arrive and the program runs; nobody has to press a button.
LinkFairness ==
    /\ WF_systemVars(ReceiveFromVrchat) /\ WF_systemVars(ReceiveFromDiscord)
    /\ WF_systemVars(Send) /\ WF_systemVars(Timeout) /\ WF_systemVars(Pass)
    /\ WF_systemVars(VrchatToggles) /\ WF_systemVars(DiscordSets)
    /\ WF_systemVars(DiscordSessionRestored)

LinkSpec == InitLink /\ [][NextLink]_systemVars /\ LinkFairness

-----------------------------------------------------------------------------
\* Mic and self-mute are opposite (DiscordMuted = !VrChatMuted, design 4.1).
Inverted == voice = Inverse(mic)

\* The link is on, in both directions, and starts by making the two sides opposite.
LinkedBothWays == /\ config.link_enabled
                  /\ config.link_mode = "InverseBidirectional"
                  /\ config.startup_authority # "None"
                  /\ world.ops["UI"] = 0

\* Once people stop pressing buttons, and nobody turns the link off or its mode over,
\* the two sides become opposite and stay so, after any interleaving of those actions
\* with the link's own corrections.
EventuallyInverted == LinkedBothWays => <>[]Inverted

\* The corrections come to an end: no endless inversion (design 11.1).
EventuallySettled == <>[]Settled

\* When people have waited for the link between their actions, everything has
\* settled and the link is working, both sides are as the last person to act asked,
\* in either mode: no correction of the link's own has been taken for a person's
\* action, and none has been lost (11.6).
LastActionWins ==
    world.patient /\ Settled /\ link_state = "Active" => mic = wanted /\ voice = wanted_voice

\* In VRChat-priority mode the microphone belongs to its user (design 4.2), whatever
\* is lost, delayed or reconnected: VoxShift moves it at most by toggles that were
\* under way when the mode was chosen, and each of them is used up by doing so.
MicBelongsToUser ==
    link_mode = "VrchatMaster" => /\ TogglesUnderWay <= overtaken
                                  /\ mic # wanted => TogglesUnderWay < overtaken

\* When everything has settled, what the coordinator believes of each side is so,
\* whatever crossed, timed out, or was lost with a session before.
BeliefsRight ==
    Settled => /\ vrchat_state \in {mic, "Unknown"}
               /\ discord_state \in {voice, "Unknown"}
=============================================================================
