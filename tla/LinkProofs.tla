------------------------------ MODULE LinkProofs ------------------------------
(* The link as a whole is an environment in which everything proved of the    *)
(* coordinator alone holds; in VRChat-priority mode it leaves the microphone  *)
(* to its user, but for toggles already under way when the mode was chosen;   *)
(* and when it settles it believes what is so. All this for any people,       *)
(* losses and disconnections.  With people who wait, the last action wins,    *)
(* and the corrections between two actions come to an end.                    *)
EXTENDS Link, CoordinatorSafety

\* What may be on its way from Discord: nothing that the coordinator alone is not
\* prepared for.
DiscordReport == [type : {"VoiceSettings"}, mute : KnownMute]
                    \union [type : {"Connection"}, status : DiscordStatusSent]

PeersOK == /\ world \in Worlds
           /\ voice \in KnownMute
           /\ discord_rx \in Seq(DiscordReport)

-----------------------------------------------------------------------------
(* The reports on their way.                                                 *)

LEMMA Reports ==
    ASSUME NEW mute \in KnownMute
    PROVE  /\ Voice(mute) \in DiscordReport
           /\ \A status \in DiscordStatusSent : Status(status) \in DiscordReport
           /\ Seeded(mute) \in Seq(DiscordReport)
<1>1. Voice(mute) \in DiscordReport
  BY DEF Voice, DiscordReport
<1>2. \A status \in DiscordStatusSent : Status(status) \in DiscordReport
  BY DEF Status, DiscordReport
<1>3. Status("Connecting") \in DiscordReport /\ Status("Connected") \in DiscordReport
  BY <1>2 DEF DiscordStatusSent
<1> QED BY <1>1, <1>2, <1>3 DEF Seeded

LEMMA InitPeers == InitLink => PeersOK
BY Reports DEF InitLink, PeersOK

LEMMA OtherMute == ASSUME NEW mute \in KnownMute PROVE Inverse(mute) \in KnownMute
BY DEF Inverse, KnownMute

\* Commands ask for a mute state there is, so Discord's state and reports are ones.
LEMMA NextPeers ==
    ASSUME PeersOK, TypeOK, [NextLink]_systemVars
    PROVE  PeersOK'
<1> USE DEF PeersOK
<1>1. CASE DiscordSets
  <2>1. discord_tx # <<>> /\ discord_tx \in Seq(DiscordCommand)
    BY <1>1 DEF DiscordSets, DiscordSessionTakes, TypeOK
  <2>2. Head(discord_tx) \in DiscordCommand
    BY <2>1
  <2>3. voice' \in KnownMute
    BY <1>1, <2>2 DEF DiscordSets, DiscordCommand
  <2>4. PICK n \in {1} \union world.echoes :
           discord_rx' = discord_rx \o [i \in 1 .. n |-> Voice(voice')]
    BY <1>1 DEF DiscordSets
  <2>5. n \in Nat
    BY <2>4, LinkAssumption DEF World
  <2>6. [i \in 1 .. n |-> Voice(voice')] \in Seq(DiscordReport)
    BY <2>3, <2>5, Reports
  <2> DEFINE more == [i \in 1 .. n |-> Voice(voice')]
  <2>7. more \in Seq(DiscordReport) /\ discord_rx \in Seq(DiscordReport)
    BY <2>6
  <2> HIDE DEF more
  <2>8. discord_rx \o more \in Seq(DiscordReport)
    BY <2>7
  <2>9. discord_rx' \in Seq(DiscordReport)
    BY <2>4, <2>8 DEF more
  <2> QED BY <1>1, <2>3, <2>9 DEF DiscordSets
<1>2. CASE DiscordUserActs
  BY <1>2, Reports, OtherMute DEF DiscordUserActs
<1>3. CASE DiscordSessionBreaks
  <2>1. PICK k \in 0 .. Len(discord_rx) :
           discord_rx' = SubSeq(discord_rx, 1, k) \o <<Status("Disconnected")>>
    BY <1>3 DEF DiscordSessionBreaks
  <2>2. SubSeq(discord_rx, 1, k) \in Seq(DiscordReport)
    OBVIOUS
  <2>3. Status("Disconnected") \in DiscordReport
    BY Reports DEF DiscordStatusSent
  <2> QED BY <1>3, <2>1, <2>2, <2>3 DEF DiscordSessionBreaks
<1>4. CASE DiscordSessionRestored
  BY <1>4, Reports DEF DiscordSessionRestored
<1>5. CASE ReceiveFromDiscord
  BY <1>5 DEF ReceiveFromDiscord
<1>6. CASE \/ ReceiveFromVrchat \/ Send \/ Timeout \/ Pass
           \/ VrchatToggles \/ VrchatMissesToggle \/ VrchatUserActs \/ VrchatAvatarChanges
           \/ UserControls \/ UNCHANGED systemVars
  BY <1>6 DEF ReceiveFromVrchat, Send, Timeout, Pass, VrchatToggles, VrchatMissesToggle,
     VrchatUserActs, VrchatAvatarChanges, UserControls, systemVars, peerVars
<1> QED BY <1>1, <1>2, <1>3, <1>4, <1>5, <1>6 DEF NextLink

-----------------------------------------------------------------------------
(* What the coordinator does in the link, it does alone.                     *)

\* Every step of the link is one of the coordinator's, or leaves it alone.
LEMMA StepOfCoordinator ==
    ASSUME PeersOK, [NextLink]_systemVars
    PROVE  [Next]_vars
<1>1. CASE ReceiveFromVrchat
  BY <1>1 DEF ReceiveFromVrchat, Next, HandleEvent
<1>2. CASE ReceiveFromDiscord
  <2>1. Head(discord_rx) \in DiscordReport
    BY <1>2 DEF ReceiveFromDiscord, PeersOK
  <2>2. CASE Head(discord_rx).type = "VoiceSettings"
    <3>1. Head(discord_rx).mute \in KnownMute
      BY <2>1, <2>2 DEF DiscordReport
    <3> QED BY <1>2, <2>2, <3>1 DEF ReceiveFromDiscord, Next, HandleEvent
  <2>3. CASE Head(discord_rx).type # "VoiceSettings"
    <3>1. Head(discord_rx).status \in DiscordStatusSent
      BY <2>1, <2>3 DEF DiscordReport
    <3> QED BY <1>2, <2>3, <3>1 DEF ReceiveFromDiscord, Next, HandleEvent
  <2> QED BY <2>2, <2>3
<1>3. CASE Send \/ Timeout \/ Pass
  BY <1>3 DEF Send, Timeout, Pass, Next
<1>4. CASE VrchatToggles \/ VrchatMissesToggle \/ DiscordSets
  BY <1>4 DEF VrchatToggles, VrchatMissesToggle, DiscordSets, Next, Adapters
<1>5. CASE DiscordSessionBreaks
  BY <1>5 DEF DiscordSessionBreaks, Next, Adapters
<1>6. CASE UserControls
  BY <1>6 DEF UserControls, ChooseMode, Next, HandleCommand
<1>7. CASE \/ VrchatUserActs \/ VrchatAvatarChanges
           \/ DiscordUserActs \/ DiscordSessionRestored \/ UNCHANGED systemVars
  BY <1>7 DEF VrchatUserActs, VrchatAvatarChanges, DiscordUserActs, DiscordSessionRestored,
     systemVars
<1> QED BY <1>1, <1>2, <1>3, <1>4, <1>5, <1>6, <1>7 DEF NextLink

\* The link is a behaviour of the coordinator's specification: the two applications
\* and the adapters send it nothing that it is not prepared for alone.
THEOREM LinkImplementsCoordinator == LinkSpec => Spec
<1>1. InitLink => Init /\ TypeOK /\ PeersOK
  BY InitType, InitPeers DEF InitLink
<1>2. TypeOK /\ PeersOK /\ [NextLink]_systemVars => TypeOK' /\ PeersOK' /\ [Next]_vars
  BY NextType, NextPeers, StepOfCoordinator
<1> QED BY <1>1, <1>2, PTL DEF LinkSpec, Spec

\* So a pending command contradicts the belief about its side in the link, too, with
\* all that CommandInv says.
THEOREM CommandsSoundInLink == LinkSpec => []CommandInv
BY LinkImplementsCoordinator, CommandsSound, PTL

-----------------------------------------------------------------------------
(* VRChat-priority mode.                                                     *)

LEMMA InitMic == InitLink => MicBelongsToUser
BY DEF InitLink, Init, MicBelongsToUser, TogglesUnderWay, EffectiveAuthority

\* How many toggles are under way, by what becomes of the channel and the outbox.
LEMMA Counted ==
    ASSUME TypeOK
    PROVE  /\ TogglesUnderWay \in Nat
           /\ UNCHANGED <<vrchat_tx, outbox>> => TogglesUnderWay' = TogglesUnderWay
           /\ VrChatSenderTakes => TogglesUnderWay' = TogglesUnderWay - 1
           /\ CompleteSend => TogglesUnderWay' = TogglesUnderWay
<1>1. vrchat_tx \in Seq(VrChatCommand)
  BY DEF TypeOK
<1>2. Len(vrchat_tx) \in Nat
  BY <1>1
<1>3. ASSUME VrChatSenderTakes PROVE TogglesUnderWay' = TogglesUnderWay - 1
  <2>1. Len(vrchat_tx') = Len(vrchat_tx) - 1 /\ outbox' = outbox
    BY <1>1, <1>3 DEF VrChatSenderTakes, sendVars
  <2> QED BY <1>2, <2>1 DEF TogglesUnderWay
<1>4. ASSUME CompleteSend PROVE TogglesUnderWay' = TogglesUnderWay
  <2>1. CASE outbox.type = "ToggleVoice"
    <3>1. vrchat_tx' = Append(vrchat_tx, outbox) /\ outbox' = None /\ outbox # None
      BY <1>4, <2>1 DEF CompleteSend
    <3>2. outbox \in VrChatCommand
      BY <2>1, <3>1 DEF TypeOK, DiscordCommand
    <3>3. Len(vrchat_tx') = Len(vrchat_tx) + 1
      BY <1>1, <3>1, <3>2
    <3> QED BY <1>2, <2>1, <3>1, <3>3 DEF TogglesUnderWay
  <2>2. CASE outbox.type # "ToggleVoice"
    <3>1. vrchat_tx' = vrchat_tx /\ outbox' = None
      BY <1>4, <2>2 DEF CompleteSend
    <3> QED BY <2>2, <3>1 DEF TogglesUnderWay
  <2> QED BY <2>1, <2>2
<1> QED BY <1>2, <1>3, <1>4 DEF TogglesUnderWay

\* A command that waits to be sent is not replaced.
LEMMA OutboxStays ==
    ASSUME [Next]_vars, outbox # None
    PROVE  outbox' \in {None, outbox}
BY DEF Next, vars, HandleEvent, HandleCommand, Adapters, Ready, HandleVrChatMuteSelf,
   HandleVrChatAvatarChanged, HandleVrChatConnectionChanged, HandleDiscordVoiceSettingsUpdate,
   HandleDiscordVoiceChannelStatus, HandleDiscordConnectionChanged, HandleDiscordCommandAck,
   HandleDiscordVoiceStateUnavailable, SetLinkMode, Pause, Resume, ManualResync, Shutdown,
   CompleteSend, HandlePendingTimeout, Tick, VrChatSenderTakes, DiscordSessionTakes, sendVars

\* While VRChat has the priority no handler adds to the toggles under way.
LEMMA NoToggle ==
    ASSUME TypeOK, CommandInv, [Next]_vars, link_mode = "VrchatMaster", UNCHANGED vrchat_tx
    PROVE  TogglesUnderWay' <= TogglesUnderWay
<1>1. Len(vrchat_tx) \in Nat /\ Len(vrchat_tx') = Len(vrchat_tx)
  BY DEF TypeOK
<1>2. CASE outbox = None
  <2>1. ~(outbox' # None /\ outbox'.type = "ToggleVoice")
    BY <1>2, StepToggles DEF Issued
  <2> QED BY <1>1, <1>2, <2>1 DEF TogglesUnderWay
<1>3. CASE outbox # None
  <2>1. outbox' = None \/ outbox' = outbox
    BY <1>3, OutboxStays
  <2> QED BY <1>1, <2>1 DEF TogglesUnderWay
<1> QED BY <1>2, <1>3

\* A step adds no toggle, and moves the microphone away from what its user wants only
\* by using one up.
LEMMA KeepsPriority ==
    ASSUME TypeOK, MicBelongsToUser, overtaken \in Nat,
           link_mode = "VrchatMaster", UNCHANGED overtaken,
           TogglesUnderWay' \in Nat, TogglesUnderWay' <= TogglesUnderWay,
           mic' # wanted' => mic # wanted \/ TogglesUnderWay' < TogglesUnderWay
    PROVE  MicBelongsToUser'
<1>1. TogglesUnderWay \in Nat
  BY Counted
<1>2. TogglesUnderWay' <= overtaken
  BY <1>1 DEF MicBelongsToUser
<1>3. mic' # wanted' => TogglesUnderWay' < overtaken
  BY <1>1 DEF MicBelongsToUser
<1> QED BY <1>2, <1>3 DEF MicBelongsToUser

\* Toggles are only used up once VRChat has the priority; the choice of it finds the
\* microphone as its user wants it, and counts those that may still move it.
LEMMA NextMic ==
    ASSUME PeersOK, TypeOK, CommandInv, MicBelongsToUser, overtaken \in Nat,
           [NextLink]_systemVars
    PROVE  MicBelongsToUser' /\ overtaken' \in Nat
<1>0. [Next]_vars /\ TogglesUnderWay \in Nat /\ TogglesUnderWay' \in Nat
  <2>1. TogglesUnderWay' \in Nat
    <3>1. vrchat_tx' \in Seq(VrChatCommand)
      BY NextType, StepOfCoordinator DEF TypeOK
    <3>2. Len(vrchat_tx') \in Nat
      BY <3>1
    <3> QED BY <3>2 DEF TogglesUnderWay
  <2> QED BY <2>1, StepOfCoordinator, Counted
<1>1. ASSUME link_mode' # link_mode \/ overtaken' # overtaken
      PROVE  MicBelongsToUser' /\ overtaken' \in Nat
  <2>1. PICK mode \in LinkMode : ChooseMode(mode) /\ mic' = mic
    BY <1>1 DEF NextLink, ReceiveFromVrchat, ReceiveFromDiscord, Send, Timeout, Pass,
       VrchatToggles, VrchatMissesToggle, VrchatUserActs, VrchatAvatarChanges, DiscordSets,
       DiscordUserActs, DiscordSessionBreaks, DiscordSessionRestored, UserControls, Wish,
       HandleVrChatMuteSelf, HandleVrChatAvatarChanged, HandleVrChatConnectionChanged,
       HandleDiscordVoiceSettingsUpdate, HandleDiscordConnectionChanged, CompleteSend,
       HandlePendingTimeout, Tick, VrChatSenderTakes, DiscordSessionTakes, Pause, Resume,
       ManualResync, linkVars, wishes, peerVars, systemVars, vars
  <2>2. link_mode' = mode /\ UNCHANGED <<vrchat_tx, outbox>>
    BY <2>1 DEF ChooseMode, SetLinkMode, Ready, channelVars
  <2>3. CASE mode = "VrchatMaster"
    <3>1. mic' = wanted' /\ overtaken' = TogglesUnderWay
      BY <1>1, <2>1, <2>2, <2>3 DEF ChooseMode, wishes
    <3> QED BY <1>0, <2>2, <3>1, Counted DEF MicBelongsToUser
  <2>4. CASE mode # "VrchatMaster"
    BY <2>1, <2>2, <2>4 DEF ChooseMode, wishes, MicBelongsToUser
  <2> QED BY <2>3, <2>4
<1>2. CASE link_mode' # "VrchatMaster"
  BY <1>1, <1>2 DEF MicBelongsToUser
<1> SUFFICES ASSUME link_mode = "VrchatMaster", UNCHANGED overtaken
             PROVE  MicBelongsToUser'
  BY <1>1, <1>2
<1>3. CASE \/ ReceiveFromVrchat \/ ReceiveFromDiscord \/ Timeout \/ Pass \/ UserControls
  <2>1. UNCHANGED <<vrchat_tx, mic>> /\ wanted' \in {wanted, mic}
    BY <1>3 DEF ReceiveFromVrchat, ReceiveFromDiscord, Timeout, Pass, UserControls, ChooseMode,
       Wish, HandleVrChatMuteSelf, HandleVrChatAvatarChanged, HandleVrChatConnectionChanged,
       HandleDiscordVoiceSettingsUpdate, HandleDiscordConnectionChanged, HandlePendingTimeout,
       Tick, SetLinkMode, Pause, Resume, ManualResync, Ready, channelVars, wishes, peerVars
  <2>2. TogglesUnderWay' <= TogglesUnderWay
    BY <1>0, <2>1, NoToggle
  <2> QED BY <1>0, <2>1, <2>2, KeepsPriority
<1>4. CASE Send
  <2>1. CompleteSend /\ UNCHANGED <<mic, wanted>>
    BY <1>4 DEF Send, peerVars, wishes
  <2>2. TogglesUnderWay' = TogglesUnderWay
    BY <2>1, Counted
  <2> QED BY <1>0, <2>1, <2>2, KeepsPriority
<1>5. CASE VrchatToggles \/ VrchatMissesToggle
  <2>1. VrChatSenderTakes
    BY <1>5 DEF VrchatToggles, VrchatMissesToggle
  <2>2. TogglesUnderWay' = TogglesUnderWay - 1
    BY <2>1, Counted
  <2>3. TogglesUnderWay' <= TogglesUnderWay /\ TogglesUnderWay' < TogglesUnderWay
    BY <1>0, <2>2
  <2> QED BY <1>0, <2>3, KeepsPriority
<1>6. CASE \/ DiscordSets \/ DiscordSessionBreaks \/ VrchatUserActs \/ VrchatAvatarChanges
           \/ DiscordUserActs \/ DiscordSessionRestored \/ UNCHANGED systemVars
  <2>1. UNCHANGED <<vrchat_tx, outbox>> /\ (mic = wanted => mic' = wanted')
    BY <1>6 DEF DiscordSets, DiscordSessionBreaks, DiscordSessionTakes, VrchatUserActs,
       VrchatAvatarChanges, DiscordUserActs, DiscordSessionRestored, Wish, systemVars, peerVars,
       wishes, vars, sendVars, channelVars
  <2>2. TogglesUnderWay' = TogglesUnderWay
    BY <2>1, Counted
  <2> QED BY <1>0, <2>1, <2>2, KeepsPriority
<1> QED BY <1>3, <1>4, <1>5, <1>6 DEF NextLink

\* In VRChat-priority mode VoxShift moves the microphone at most by toggles that were
\* under way when the mode was chosen, whatever is lost, late, repeated or reconnected,
\* and however often the mode is changed (design 4.2).
THEOREM MicIsTheUsers == LinkSpec => []MicBelongsToUser
<1>1. InitLink => /\ Init /\ TypeOK /\ CommandInv /\ PeersOK
                  /\ MicBelongsToUser /\ overtaken \in Nat
  BY InitType, InitCommands, InitPeers, InitMic DEF InitLink
<1>2. TypeOK /\ CommandInv /\ PeersOK /\ MicBelongsToUser /\ overtaken \in Nat
      /\ [NextLink]_systemVars
         => (TypeOK /\ CommandInv /\ PeersOK /\ MicBelongsToUser /\ overtaken \in Nat)'
  BY NextType, NextCommands, NextPeers, NextMic, StepOfCoordinator
<1> QED BY <1>1, <1>2, PTL DEF LinkSpec

-----------------------------------------------------------------------------
(* What the coordinator believes when nothing is on its way.                 *)

VrchatReport == KnownMute \union {"AvatarChanged"} \union VrChatStatusSent

\* The last report of the microphone on its way is of its present state; with none on
\* its way, the belief is.
VrchatTold ==
    /\ mic \in KnownMute
    /\ vrchat_rx \in Seq(VrchatReport)
    /\ \E k \in 0 .. Len(vrchat_rx) :
          /\ k = 0 => vrchat_state \in {mic, "Unknown"}
          /\ k > 0 => vrchat_rx[k] = mic
          /\ \A j \in k + 1 .. Len(vrchat_rx) : vrchat_rx[j] \notin KnownMute

Losing == {Status("Connecting"), Status("Disconnected")}

\* The last that is on its way from Discord tells the present state or makes the
\* coordinator forget; while there is no session, only the latter.
DiscordTold ==
    \E k \in 0 .. Len(discord_rx) :
       /\ k = 0 => discord_state = "Unknown" \/ (session /\ discord_state = voice)
       /\ k > 0 => discord_rx[k] \in Losing \/ (session /\ discord_rx[k] = Voice(voice))
       /\ \A j \in k + 1 .. Len(discord_rx) : discord_rx[j] = Status("Connected")

Told == VrchatTold /\ DiscordTold

LEMMA InitTold == InitLink => Told
<1> SUFFICES ASSUME InitLink PROVE Told
  OBVIOUS
<1>1. VrchatTold
  <2>1. vrchat_rx = <<mic>> /\ mic \in KnownMute
    BY DEF InitLink
  <2>2. <<mic>> \in Seq(VrchatReport) /\ Len(<<mic>>) = 1 /\ <<mic>>[1] = mic
    BY <2>1 DEF VrchatReport
  <2> QED BY <2>1, <2>2 DEF VrchatTold
<1>2. DiscordTold
  BY DEF InitLink, Seeded, DiscordTold
<1> QED BY <1>1, <1>2 DEF Told

\* Where the elements of two sequences are when one follows the other.
LEMMA Joined ==
    ASSUME NEW S, NEW first \in Seq(S), NEW second \in Seq(S)
    PROVE  /\ Len(first) \in Nat /\ Len(second) \in Nat
           /\ first \o second \in Seq(S)
           /\ Len(first \o second) = Len(first) + Len(second)
           /\ \A j \in 1 .. Len(first) : (first \o second)[j] = first[j]
           /\ \A j \in 1 .. Len(second) : (first \o second)[Len(first) + j] = second[j]
OBVIOUS

\* A report of the microphone's state, whatever else is said before it.
LEMMA MicReported ==
    ASSUME VrchatTold, mic' \in KnownMute,
           NEW said \in Seq(VrchatReport), NEW n \in 1 .. Len(said), said[n] = mic',
           \A j \in n + 1 .. Len(said) : said[j] \notin KnownMute,
           vrchat_rx' = vrchat_rx \o said
    PROVE  VrchatTold'
<1>1. vrchat_rx \in Seq(VrchatReport) /\ vrchat_rx' \in Seq(VrchatReport)
  BY Joined DEF VrchatTold
<1>2. /\ Len(vrchat_rx) \in Nat /\ Len(vrchat_rx') = Len(vrchat_rx) + Len(said)
      /\ \A j \in 1 .. Len(said) : vrchat_rx'[Len(vrchat_rx) + j] = said[j]
  BY <1>1, Joined
<1> DEFINE k == Len(vrchat_rx) + n
<1>3. k \in 0 .. Len(vrchat_rx') /\ k > 0 /\ vrchat_rx'[k] = mic'
  BY <1>2
<1>4. ASSUME NEW j \in k + 1 .. Len(vrchat_rx') PROVE vrchat_rx'[j] \notin KnownMute
  <2>1. j - Len(vrchat_rx) \in n + 1 .. Len(said)
        /\ j - Len(vrchat_rx) \in 1 .. Len(said) /\ Len(vrchat_rx) + (j - Len(vrchat_rx)) = j
    BY <1>2
  <2> QED BY <1>2, <2>1
<1> QED BY <1>1, <1>3, <1>4 DEF VrchatTold

\* Nothing about the microphone is said, and nothing new is believed of it.
LEMMA MicUnsaid ==
    ASSUME VrchatTold, UNCHANGED mic, vrchat_state' \in {vrchat_state, "Unknown"},
           NEW said \in {<<>>, <<"Degraded">>}, vrchat_rx' = vrchat_rx \o said
    PROVE  VrchatTold'
<1>1. vrchat_rx \in Seq(VrchatReport) /\ mic \in KnownMute
  BY DEF VrchatTold
<1>2. said \in Seq(VrchatReport) /\ \A j \in 1 .. Len(said) : said[j] \notin KnownMute
  <2>1. CASE said = <<>>
    BY <2>1
  <2>2. CASE said = <<"Degraded">>
    <3>1. "Degraded" \in VrchatReport /\ "Degraded" \notin KnownMute
      BY DEF VrchatReport, VrChatStatusSent, KnownMute
    <3> QED BY <2>2, <3>1
  <2> QED BY <2>1, <2>2
<1>3. PICK k \in 0 .. Len(vrchat_rx) :
          /\ k = 0 => vrchat_state \in {mic, "Unknown"}
          /\ k > 0 => vrchat_rx[k] = mic
          /\ \A j \in k + 1 .. Len(vrchat_rx) : vrchat_rx[j] \notin KnownMute
  BY DEF VrchatTold
<1>4. /\ Len(vrchat_rx) \in Nat /\ Len(vrchat_rx') = Len(vrchat_rx) + Len(said)
      /\ \A j \in 1 .. Len(vrchat_rx) : vrchat_rx'[j] = vrchat_rx[j]
      /\ \A j \in 1 .. Len(said) : vrchat_rx'[Len(vrchat_rx) + j] = said[j]
      /\ vrchat_rx' \in Seq(VrchatReport) /\ Len(said) \in Nat
  BY <1>1, <1>2, Joined
<1>5. ASSUME NEW j \in k + 1 .. Len(vrchat_rx') PROVE vrchat_rx'[j] \notin KnownMute
  <2>1. CASE j <= Len(vrchat_rx)
    BY <1>3, <1>4, <2>1
  <2>2. CASE j > Len(vrchat_rx)
    <3>1. j - Len(vrchat_rx) \in 1 .. Len(said) /\ Len(vrchat_rx) + (j - Len(vrchat_rx)) = j
      BY <1>4, <2>2
    <3> QED BY <1>2, <1>4, <3>1
  <2> QED BY <1>4, <2>1, <2>2
<1>6. k \in 0 .. Len(vrchat_rx') /\ (k > 0 => vrchat_rx'[k] = mic')
  BY <1>3, <1>4
<1>7. k = 0 => vrchat_state' \in {mic', "Unknown"}
  BY <1>3
<1> QED BY <1>1, <1>4, <1>5, <1>6, <1>7 DEF VrchatTold

\* Each report is heard before those behind it.
LEMMA MicHeardOf ==
    ASSUME VrchatTold, ReceiveFromVrchat
    PROVE  VrchatTold'
<1>1. /\ vrchat_rx \in Seq(VrchatReport) /\ vrchat_rx # <<>> /\ mic \in KnownMute
      /\ vrchat_rx' = Tail(vrchat_rx) /\ mic' = mic
  BY DEF VrchatTold, ReceiveFromVrchat
<1>2. /\ Head(vrchat_rx) \in KnownMute => vrchat_state' = Head(vrchat_rx)
      /\ Head(vrchat_rx) \notin KnownMute => vrchat_state' \in {vrchat_state, "Unknown"}
  BY DEF ReceiveFromVrchat, HandleVrChatAvatarChanged, HandleVrChatConnectionChanged,
     HandleVrChatMuteSelf, KnownMute, VrChatStatusSent
<1>3. PICK k \in 0 .. Len(vrchat_rx) :
          /\ k = 0 => vrchat_state \in {mic, "Unknown"}
          /\ k > 0 => vrchat_rx[k] = mic
          /\ \A j \in k + 1 .. Len(vrchat_rx) : vrchat_rx[j] \notin KnownMute
  BY DEF VrchatTold
<1>4. /\ Len(vrchat_rx) \in Nat \ {0} /\ Len(vrchat_rx') = Len(vrchat_rx) - 1
      /\ Head(vrchat_rx) = vrchat_rx[1] /\ vrchat_rx' \in Seq(VrchatReport)
      /\ \A j \in 1 .. Len(vrchat_rx') : vrchat_rx'[j] = vrchat_rx[j + 1]
  BY <1>1
<1>5. CASE k <= 1
  <2>1. vrchat_state' \in {mic, "Unknown"}
    <3>1. CASE k = 0
      <4>1. Head(vrchat_rx) \notin KnownMute
        BY <1>3, <1>4, <3>1
      <4> QED BY <4>1, <1>2, <1>3, <3>1
    <3>2. CASE k = 1
      BY <1>1, <1>2, <1>3, <1>4, <3>2
    <3> QED BY <1>5, <3>1, <3>2
  <2>2. \A j \in 1 .. Len(vrchat_rx') : vrchat_rx'[j] \notin KnownMute
    BY <1>3, <1>4, <1>5
  <2>3. \E m \in 0 .. Len(vrchat_rx') :
           m = 0 /\ \A j \in m + 1 .. Len(vrchat_rx') : vrchat_rx'[j] \notin KnownMute
    BY <1>4, <2>2
  <2> QED BY <1>1, <1>4, <2>1, <2>3 DEF VrchatTold
<1>6. CASE k > 1
  <2> DEFINE m == k - 1
  <2>1. m \in 0 .. Len(vrchat_rx') /\ m > 0 /\ vrchat_rx'[m] = mic'
    BY <1>1, <1>3, <1>4, <1>6
  <2>2. \A j \in m + 1 .. Len(vrchat_rx') : vrchat_rx'[j] \notin KnownMute
    BY <1>3, <1>4, <1>6
  <2> QED BY <1>1, <1>4, <2>1, <2>2 DEF VrchatTold
<1> QED BY <1>5, <1>6

-----------------------------------------------------------------------------
LEMMA DiscordReports ==
    /\ Status("Connecting") \in DiscordReport /\ Status("Connected") \in DiscordReport
    /\ Status("Disconnected") \in DiscordReport /\ Losing \subseteq DiscordReport
BY DEF Status, DiscordReport, DiscordStatusSent, Losing

\* What is said of Discord ends with a word that is right, and connections after it.
LEMMA DiscordSaid ==
    ASSUME PeersOK, NEW said \in Seq(DiscordReport), NEW n \in 1 .. Len(said),
           said[n] \in Losing \/ (session' /\ said[n] = Voice(voice')),
           \A j \in n + 1 .. Len(said) : said[j] = Status("Connected"),
           NEW before \in Seq(DiscordReport), discord_rx' = before \o said
    PROVE  DiscordTold'
<1>1. /\ Len(before) \in Nat /\ Len(discord_rx') = Len(before) + Len(said)
      /\ \A j \in 1 .. Len(said) : discord_rx'[Len(before) + j] = said[j]
  BY Joined
<1> DEFINE k == Len(before) + n
<1>2. k \in 0 .. Len(discord_rx') /\ k > 0 /\ discord_rx'[k] = said[n]
  BY <1>1
<1>3. ASSUME NEW j \in k + 1 .. Len(discord_rx') PROVE discord_rx'[j] = Status("Connected")
  <2>1. j - Len(before) \in n + 1 .. Len(said)
        /\ j - Len(before) \in 1 .. Len(said) /\ Len(before) + (j - Len(before)) = j
    BY <1>1
  <2> QED BY <1>1, <2>1
<1>4. discord_rx'[k] \in Losing \/ (session' /\ discord_rx'[k] = Voice(voice'))
  BY <1>2
<1>5. DiscordTold' <=>
         \E m \in 0 .. Len(discord_rx') :
            /\ m = 0 => discord_state' = "Unknown" \/ (session' /\ discord_state' = voice')
            /\ m > 0 => discord_rx'[m] \in Losing
                        \/ (session' /\ discord_rx'[m] = Voice(voice'))
            /\ \A j \in m + 1 .. Len(discord_rx') : discord_rx'[j] = Status("Connected")
  BY DEF DiscordTold, Losing, Voice, Status
<1> HIDE DEF k
<1>6. \A j \in k + 1 .. Len(discord_rx') : discord_rx'[j] = Status("Connected")
  BY <1>3
<1>7. \E m \in 0 .. Len(discord_rx') :
         /\ m > 0 /\ m # 0
         /\ discord_rx'[m] \in Losing \/ (session' /\ discord_rx'[m] = Voice(voice'))
         /\ \A j \in m + 1 .. Len(discord_rx') : discord_rx'[j] = Status("Connected")
  <2>1. k # 0
    BY <1>1, <1>2 DEF k
  <2> QED BY <1>2, <1>4, <1>6, <2>1, Zenon
<1> QED BY <1>5, <1>7, Zenon

\* Nothing is said of Discord, and nothing new is believed of it.
LEMMA DiscordUnsaid ==
    ASSUME DiscordTold, discord_state' \in {discord_state, "Unknown"}, UNCHANGED discord_rx,
           UNCHANGED session, session => UNCHANGED voice
    PROVE  DiscordTold'
BY DEF DiscordTold, Losing, Voice, Status

\* Each report is heard before those behind it.
LEMMA DiscordHeardOf ==
    ASSUME PeersOK, DiscordTold, ReceiveFromDiscord
    PROVE  DiscordTold'
<1>1. /\ discord_rx \in Seq(DiscordReport) /\ discord_rx # <<>>
      /\ discord_rx' = Tail(discord_rx) /\ UNCHANGED <<voice, session>>
  BY DEF PeersOK, ReceiveFromDiscord
<1>2. PICK k \in 0 .. Len(discord_rx) :
         /\ k = 0 => discord_state = "Unknown" \/ (session /\ discord_state = voice)
         /\ k > 0 => discord_rx[k] \in Losing \/ (session /\ discord_rx[k] = Voice(voice))
         /\ \A j \in k + 1 .. Len(discord_rx) : discord_rx[j] = Status("Connected")
  BY DEF DiscordTold
<1>3. /\ Len(discord_rx) \in Nat \ {0} /\ Len(discord_rx') = Len(discord_rx) - 1
      /\ Head(discord_rx) = discord_rx[1]
      /\ \A j \in 1 .. Len(discord_rx') : discord_rx'[j] = discord_rx[j + 1]
  BY <1>1
<1>4. /\ Head(discord_rx) = Voice(voice) => discord_state' = voice
      /\ Head(discord_rx) \in Losing => discord_state' = "Unknown"
      /\ Head(discord_rx) = Status("Connected") => discord_state' = discord_state
  BY DEF ReceiveFromDiscord, HandleDiscordVoiceSettingsUpdate, HandleDiscordConnectionChanged,
     LosesDiscord, Losing, Voice, Status
<1>5. CASE k <= 1
  <2>1. discord_state' = "Unknown" \/ (session' /\ discord_state' = voice')
    <3>1. CASE k = 0
      <4>1. Head(discord_rx) = Status("Connected")
        BY <1>2, <1>3, <3>1
      <4> QED BY <4>1, <1>1, <1>2, <1>4, <3>1
    <3>2. CASE k = 1
      BY <1>1, <1>2, <1>3, <1>4, <3>2
    <3> QED BY <1>5, <3>1, <3>2
  <2>2. \A j \in 1 .. Len(discord_rx') : discord_rx'[j] = Status("Connected")
    BY <1>2, <1>3, <1>5
  <2>3. \E m \in 0 .. Len(discord_rx') :
           m = 0 /\ \A j \in m + 1 .. Len(discord_rx') : discord_rx'[j] = Status("Connected")
    BY <1>3, <2>2
  <2> QED BY <2>1, <2>3 DEF DiscordTold, Status, Voice, Losing
<1>6. CASE k > 1
  <2> DEFINE m == k - 1
  <2>1. /\ m \in 0 .. Len(discord_rx') /\ m > 0
        /\ discord_rx'[m] \in Losing \/ (session' /\ discord_rx'[m] = Voice(voice'))
    BY <1>1, <1>2, <1>3, <1>6
  <2>2. \A j \in m + 1 .. Len(discord_rx') : discord_rx'[j] = Status("Connected")
    BY <1>2, <1>3, <1>6
  <2> QED BY <2>1, <2>2 DEF DiscordTold, Status, Voice, Losing
<1> QED BY <1>5, <1>6

\* The microphone and its reports are not touched.
LEMMA MicLeftAlone ==
    ASSUME VrchatTold, UNCHANGED <<mic, vrchat_rx>>, vrchat_state' \in {vrchat_state, "Unknown"}
    PROVE  VrchatTold'
BY DEF VrchatTold

\* Handlers of what the window, the timer and Discord's events say, and the sends: they
\* may forget a state, and never make one up.
LEMMA StatesOnlyForgotten ==
    ASSUME Send \/ Timeout \/ Pass \/ UserControls
    PROVE  /\ vrchat_state' \in {vrchat_state, "Unknown"}
           /\ discord_state' \in {discord_state, "Unknown"}
           /\ UNCHANGED <<mic, vrchat_rx, voice, discord_rx, session>>
BY DEF Send, Timeout, Pass, UserControls, CompleteSend, HandlePendingTimeout, Tick, Pause, Resume,
   ManualResync, ChooseMode, SetLinkMode, vrchatVars, discordVars, peerVars

\* A report and one more behind it.
LEMMA TwoReports ==
    ASSUME NEW x \in VrchatReport, NEW y \in VrchatReport
    PROVE  /\ <<x>> \o <<y>> \in Seq(VrchatReport) /\ Len(<<x>> \o <<y>>) = 2
           /\ (<<x>> \o <<y>>)[1] = x /\ (<<x>> \o <<y>>)[2] = y
<1>1. <<x>> \in Seq(VrchatReport) /\ Len(<<x>>) = 1 /\ <<x>>[1] = x
  OBVIOUS
<1>2. <<y>> \in Seq(VrchatReport) /\ Len(<<y>>) = 1 /\ <<y>>[1] = y
  OBVIOUS
<1> QED BY <1>1, <1>2

LEMMA NextTold ==
    ASSUME PeersOK, TypeOK, Told, [NextLink]_systemVars
    PROVE  Told'
<1>0. VrchatTold /\ DiscordTold
  BY DEF Told
<1>1. CASE ReceiveFromVrchat
  <2>1. discord_state' = discord_state /\ UNCHANGED <<discord_rx, session, voice>>
    BY <1>1 DEF ReceiveFromVrchat, HandleVrChatAvatarChanged, HandleVrChatConnectionChanged,
       HandleVrChatMuteSelf, discordVars
  <2> QED BY <1>0, <1>1, <2>1, MicHeardOf, DiscordUnsaid DEF Told
<1>2. CASE ReceiveFromDiscord
  <2>1. UNCHANGED <<vrchat_state, mic, vrchat_rx>>
    BY <1>2 DEF ReceiveFromDiscord, HandleDiscordVoiceSettingsUpdate,
       HandleDiscordConnectionChanged, vrchatVars
  <2> QED BY <1>0, <1>2, <2>1, DiscordHeardOf, MicLeftAlone DEF Told
<1>3. CASE Send \/ Timeout \/ Pass \/ UserControls
  BY <1>0, <1>3, StatesOnlyForgotten, MicLeftAlone, DiscordUnsaid DEF Told
<1>4. CASE VrchatToggles \/ VrchatUserActs
  <2>1. mic' = Inverse(mic) /\ UNCHANGED <<discord_rx, session, voice, discord_state>>
    BY <1>4 DEF VrchatToggles, VrchatUserActs, VrChatSenderTakes, discordVars, vars
  <2>2. mic' \in KnownMute
    BY <1>0, <2>1, OtherMute DEF VrchatTold
  <2>3. PICK report \in {<<>>, <<"Degraded">>} : vrchat_rx' = vrchat_rx \o (<<mic'>> \o report)
    <3>1. vrchat_rx \in Seq(VrchatReport) /\ <<mic'>> \in Seq(VrchatReport)
          /\ <<"Degraded">> \in Seq(VrchatReport)
      BY <1>0, <2>2 DEF VrchatTold, VrchatReport, VrChatStatusSent
    <3>2. CASE VrchatToggles
      <4>1. PICK report \in {<<>>, <<"Degraded">>} : vrchat_rx' = vrchat_rx \o <<mic'>> \o report
        BY <3>2 DEF VrchatToggles, SendReported
      <4>2. vrchat_rx \o <<mic'>> \o report = vrchat_rx \o (<<mic'>> \o report)
        BY <3>1
      <4> QED BY <4>1, <4>2
    <3>3. CASE VrchatUserActs
      <4>1. vrchat_rx' = vrchat_rx \o (<<mic'>> \o <<>>)
        BY <3>1, <3>3 DEF VrchatUserActs
      <4> QED BY <4>1
    <3> QED BY <1>4, <3>2, <3>3
  <2> DEFINE said == <<mic'>> \o report
  <2>4. /\ said \in Seq(VrchatReport) /\ Len(said) >= 1 /\ said[1] = mic'
        /\ \A j \in 2 .. Len(said) : said[j] \notin KnownMute
    <3>1. mic' \in VrchatReport /\ "Degraded" \in VrchatReport /\ "Degraded" \notin KnownMute
      BY <2>2 DEF VrchatReport, VrChatStatusSent, KnownMute
    <3>2. CASE report = <<>>
      <4>1. said = <<mic'>>
        BY <3>2
      <4> HIDE DEF said
      <4> QED BY <3>1, <4>1
    <3>3. CASE report = <<"Degraded">>
      <4>1. said = <<mic'>> \o <<"Degraded">>
        BY <3>3
      <4> HIDE DEF said
      <4>2. Len(said) = 2 /\ said[1] = mic' /\ said[2] = "Degraded"
        BY <3>1, <4>1, TwoReports
      <4>3. said \in Seq(VrchatReport)
        BY <3>1, <4>1, TwoReports
      <4>4. \A j \in 2 .. Len(said) : j = 2
        BY <4>2
      <4>5. \A j \in 2 .. Len(said) : said[j] \notin KnownMute
        BY <3>1, <4>2, <4>4
      <4> QED BY <4>2, <4>3, <4>5
    <3> QED BY <2>3, <3>2, <3>3
  <2>5. VrchatTold'
    <3> HIDE DEF said
    <3>1. 1 \in 1 .. Len(said) /\ \A j \in 1 + 1 .. Len(said) : said[j] \notin KnownMute
      BY <2>4
    <3>2. vrchat_rx' = vrchat_rx \o said
      BY <2>3 DEF said
    <3> QED BY <1>0, <2>2, <2>4, <3>1, <3>2, MicReported
  <2> QED BY <1>0, <2>1, <2>5, DiscordUnsaid DEF Told
<1>5. CASE VrchatMissesToggle
  <2>1. PICK report \in {<<>>, <<"Degraded">>} : vrchat_rx' = vrchat_rx \o report
    BY <1>5 DEF VrchatMissesToggle, SendReported
  <2>2. UNCHANGED <<mic, vrchat_state, discord_state, discord_rx, session, voice>>
    BY <1>5 DEF VrchatMissesToggle, VrChatSenderTakes, vrchatVars, discordVars
  <2> QED BY <1>0, <2>1, <2>2, MicUnsaid, DiscordUnsaid DEF Told
<1>6. CASE VrchatAvatarChanges
  <2> DEFINE said == <<"AvatarChanged", mic>>
  <2>1. /\ vrchat_rx' = vrchat_rx \o said /\ mic' = mic /\ mic \in KnownMute
        /\ UNCHANGED <<discord_rx, session, voice, discord_state>>
    BY <1>0, <1>6 DEF VrchatAvatarChanges, vars, discordVars, VrchatTold
  <2>2. said \in Seq(VrchatReport) /\ 2 \in 1 .. Len(said) /\ said[2] = mic'
        /\ \A j \in 2 + 1 .. Len(said) : said[j] \notin KnownMute
    BY <2>1 DEF VrchatReport
  <2>3. VrchatTold'
    <3> HIDE DEF said
    <3> QED BY <1>0, <2>1, <2>2, MicReported
  <2> QED BY <1>0, <2>1, <2>3, DiscordUnsaid DEF Told
<1>7. CASE DiscordSets
  <2>1. UNCHANGED <<vrchat_state, mic, vrchat_rx, session>> /\ session
    BY <1>7 DEF DiscordSets, DiscordSessionTakes, vrchatVars
  <2>2. PICK n \in {1} \union world.echoes :
           discord_rx' = discord_rx \o [i \in 1 .. n |-> Voice(voice')]
    BY <1>7 DEF DiscordSets
  <2>3. n \in Nat \ {0}
    BY <2>2, LinkAssumption DEF World, PeersOK
  <2>4. voice' \in KnownMute /\ Voice(voice') \in DiscordReport
    BY <1>7, NextPeers, Reports DEF NextLink, PeersOK
  <2> DEFINE said == [i \in 1 .. n |-> Voice(voice')]
  <2>5. /\ said \in Seq(DiscordReport) /\ n \in 1 .. Len(said) /\ said[n] = Voice(voice')
        /\ \A j \in n + 1 .. Len(said) : said[j] = Status("Connected")
    BY <2>3, <2>4
  <2>6. DiscordTold'
    <3> HIDE DEF said
    <3>1. discord_rx' = discord_rx \o said /\ discord_rx \in Seq(DiscordReport)
      BY <2>2 DEF said, PeersOK
    <3> QED BY <2>1, <2>5, <3>1, DiscordSaid
  <2> QED BY <1>0, <2>1, <2>6, MicLeftAlone DEF Told
<1>8. CASE DiscordUserActs
  <2>1. UNCHANGED <<vrchat_state, mic, vrchat_rx, session, discord_state>>
    BY <1>8 DEF DiscordUserActs, vars, vrchatVars, discordVars
  <2>2. CASE session
    <3> DEFINE said == <<Voice(voice')>>
    <3>1. Voice(voice') \in DiscordReport
      BY <1>8, NextPeers, Reports DEF NextLink, PeersOK
    <3>2. /\ said \in Seq(DiscordReport) /\ 1 \in 1 .. Len(said) /\ said[1] = Voice(voice')
          /\ \A j \in 1 + 1 .. Len(said) : said[j] = Status("Connected")
      BY <3>1
    <3>3. discord_rx' = discord_rx \o said /\ discord_rx \in Seq(DiscordReport)
      BY <1>8, <2>2, <3>1 DEF DiscordUserActs, PeersOK
    <3>4. DiscordTold'
      <4> HIDE DEF said
      <4> QED BY <2>1, <2>2, <3>2, <3>3, DiscordSaid
    <3> QED BY <1>0, <2>1, <3>4, MicLeftAlone DEF Told
  <2>3. CASE ~session
    BY <1>0, <1>8, <2>1, <2>3, MicLeftAlone, DiscordUnsaid DEF DiscordUserActs, Told
  <2> QED BY <2>2, <2>3
<1>9. CASE DiscordSessionBreaks
  <2>1. UNCHANGED <<vrchat_state, mic, vrchat_rx>>
    BY <1>9 DEF DiscordSessionBreaks, DiscordSessionTakes, vrchatVars, vars
  <2>2. PICK k \in 0 .. Len(discord_rx) :
           discord_rx' = SubSeq(discord_rx, 1, k) \o <<Status("Disconnected")>>
    BY <1>9 DEF DiscordSessionBreaks
  <2> DEFINE before == SubSeq(discord_rx, 1, k)
             said   == <<Status("Disconnected")>>
  <2>3. before \in Seq(DiscordReport)
    BY DEF PeersOK
  <2>4. /\ said \in Seq(DiscordReport) /\ 1 \in 1 .. Len(said) /\ said[1] \in Losing
        /\ \A j \in 1 + 1 .. Len(said) : said[j] = Status("Connected")
    BY DiscordReports DEF Losing
  <2>5. DiscordTold'
    <3>1. discord_rx' = before \o said
      BY <2>2
    <3> HIDE DEF said, before
    <3> QED BY <2>3, <2>4, <3>1, DiscordSaid
  <2> QED BY <1>0, <2>1, <2>5, MicLeftAlone DEF Told
<1>10. CASE DiscordSessionRestored
  <2>1. /\ UNCHANGED <<vrchat_state, mic, vrchat_rx, voice>> /\ session'
        /\ discord_rx' = discord_rx \o Seeded(voice)
    BY <1>10 DEF DiscordSessionRestored, vars, vrchatVars
  <2> DEFINE said == Seeded(voice)
  <2>2. said \in Seq(DiscordReport) /\ discord_rx \in Seq(DiscordReport)
    BY Reports DEF PeersOK
  <2>3. /\ 2 \in 1 .. Len(said) /\ said[2] = Voice(voice')
        /\ \A j \in 2 + 1 .. Len(said) : said[j] = Status("Connected")
    BY <2>1 DEF Seeded
  <2>4. DiscordTold'
    <3> HIDE DEF said
    <3>1. discord_rx' = discord_rx \o said
      BY <2>1 DEF said
    <3> QED BY <2>1, <2>2, <2>3, <3>1, DiscordSaid
  <2> QED BY <1>0, <2>1, <2>4, MicLeftAlone DEF Told
<1>11. CASE UNCHANGED systemVars
  BY <1>0, <1>11, MicLeftAlone, DiscordUnsaid DEF systemVars, peerVars, vars, vrchatVars,
     discordVars, Told
<1> QED BY <1>1, <1>2, <1>3, <1>4, <1>5, <1>6, <1>7, <1>8, <1>9, <1>10, <1>11 DEF NextLink

\* When everything has settled the coordinator believes nothing wrong of either side,
\* after any delays, losses, repetitions and sessions.
THEOREM BeliefsAreRight == LinkSpec => []BeliefsRight
<1>1. InitLink => TypeOK /\ PeersOK /\ Told
  BY InitType, InitPeers, InitTold DEF InitLink
<1>2. TypeOK /\ PeersOK /\ Told /\ [NextLink]_systemVars => (TypeOK /\ PeersOK /\ Told)'
  BY NextType, NextPeers, NextTold, StepOfCoordinator
<1>3. Told => BeliefsRight
  BY DEF Told, VrchatTold, DiscordTold, BeliefsRight, Settled
<1> QED BY <1>1, <1>2, <1>3, PTL DEF LinkSpec

-----------------------------------------------------------------------------
(* The last action wins.  Between two actions of people who wait, the link   *)
(* is in one of a few episodes, and each leads to the next.                  *)

\* People wait, and nothing is late or lost; whatever the mode, the authority and the
\* policy are.
Orderly == world.patient /\ world.timely /\ world.disconnects = 0

\* What stays so in such surroundings: the session is up, and no deadline passes.
Steady == /\ world.patient /\ world.timely /\ breaks_left = 0 /\ session
          /\ mic \in KnownMute

Unexpired == /\ pending_vrchat # None => pending_vrchat.left > 0
             /\ pending_discord # None => pending_discord.left > 0

\* The last word of subscribe_and_seed_state may be late; it changes no belief.
Greeting == {<<>>, <<Status("Connected")>>}

NothingOut == outbox = None /\ vrchat_tx = <<>> /\ discord_tx = <<>>

\* Before the initial synchronisation: at least one side is still to be heard of.
Starting ==
    /\ ~initial_sync_done /\ NothingOut
    /\ pending_vrchat = None /\ pending_discord = None
    /\ link_state \in {"WaitingForState", "Paused"}
    /\ wanted = IF EffectiveAuthority = "Discord" THEN Inverse(voice) ELSE mic
    /\ wanted_voice = IF EffectiveAuthority = "Vrchat" THEN Inverse(mic) ELSE voice
    /\ \/ vrchat_rx = <<mic>> /\ vrchat_state = "Unknown"
       \/ vrchat_rx = <<>> /\ vrchat_state = mic /\ discord_state = "Unknown"
    /\ \/ /\ discord_rx = Seeded(voice) \/ discord_rx = <<Voice(voice), Status("Connected")>>
          /\ discord_state = "Unknown"
       \/ discord_rx \in Greeting /\ discord_state = voice

\* Nobody says anything, and the sides are as wanted.
Quiet ==
    /\ NothingOut /\ vrchat_rx = <<>> /\ discord_rx \in Greeting
    /\ pending_vrchat = None /\ pending_discord = None
    /\ vrchat_state = mic /\ discord_state = voice
    /\ link_state = "Active" => mic = wanted /\ voice = wanted_voice

\* VRChat leads, and Discord is wanted to follow.
MicLeads == link_state = "Active" => mic = wanted /\ wanted_voice = Inverse(mic)

\* VRChat reports the microphone as it is wanted.
VrchatSpeaks ==
    /\ NothingOut /\ discord_rx \in Greeting
    /\ vrchat_rx = <<mic>> \/ vrchat_rx = <<"AvatarChanged", mic>>
    /\ pending_discord = None /\ discord_state = voice
    /\ MicLeads

\* Discord's voice is as it is wanted, and so is the microphone where it need not follow.
VoiceLeads ==
    link_state = "Active" =>
       /\ voice = wanted_voice
       /\ wanted = IF link_mode = "VrchatMaster" THEN mic ELSE Inverse(voice)

\* Discord reports its voice as it is wanted, and twice only what VoxShift has set.
DiscordSpeaks ==
    /\ NothingOut /\ vrchat_rx = <<>>
    /\ pending_vrchat = None /\ vrchat_state = mic
    /\ \/ discord_rx = <<Voice(voice)>> \/ discord_rx = <<Status("Connected"), Voice(voice)>>
       \/ /\ \/ discord_rx = <<Voice(voice), Voice(voice)>>
             \/ discord_rx = <<Status("Connected"), Voice(voice), Voice(voice)>>
          /\ link_state = "Active" => mic = wanted
    /\ VoiceLeads

\* A SetMute is under way that makes Discord's side follow the microphone.
SetUnderWay ==
    /\ \/ outbox \in DiscordCommand /\ outbox.target = Inverse(mic) /\ discord_tx = <<>>
       \/ /\ outbox = None
          /\ \E command \in DiscordCommand :
                command.target = Inverse(mic) /\ discord_tx = <<command>>
    /\ vrchat_tx = <<>> /\ vrchat_rx = <<>> /\ discord_rx \in Greeting
    /\ pending_vrchat = None /\ vrchat_state = mic /\ voice = mic
    /\ MicLeads

\* A toggle is under way that makes the microphone follow Discord's side.
ToggleUnderWay ==
    /\ \/ outbox \in VrChatCommand /\ vrchat_tx = <<>>
       \/ outbox = None /\ \E command \in VrChatCommand : vrchat_tx = <<command>>
    /\ discord_tx = <<>> /\ vrchat_rx = <<>> /\ discord_rx \in Greeting
    /\ pending_discord = None /\ discord_state = voice /\ voice = mic
    /\ link_state = "Active" => Inverse(mic) = wanted /\ voice = wanted_voice

Linked == /\ initial_sync_done /\ link_state \in {"Active", "Paused"}
          /\ Quiet \/ VrchatSpeaks \/ DiscordSpeaks \/ SetUnderWay \/ ToggleUnderWay

Episode == Starting \/ Linked

\* set_discord_state with nothing pending: Discord's side is as it should be, or a
\* command sees to it.
Follows(target) ==
    \/ pending_discord' = None /\ outbox' = None /\ discord_state' = target
    \/ /\ outbox' \in DiscordCommand /\ outbox'.target = target /\ discord_state' # target
       /\ pending_discord'.left > 0

LEMMA SetFollows ==
    ASSUME NEW target \in KnownMute, discord_state' \in KnownMute, SetDiscordState(None, target)
    PROVE  Follows(target)
<1>1. CASE discord_state' = target
  BY <1>1 DEF SetDiscordState, Follows
<1>2. CASE discord_state' # target
  <2>1. SendSetMute(target)
    BY <1>2 DEF SetDiscordState, KnownMute
  <2>2. PICK nonce \in Nonces :
           /\ pending_discord' = [nonce |-> nonce, target |-> target,
                                  left |-> DISCORD_COMMAND_TIMEOUT]
           /\ outbox' = [type |-> "SetMute", target |-> target, nonce |-> nonce]
    BY <2>1 DEF SendSetMute
  <2> QED BY <1>2, <2>2, TimeoutAssumption DEF Follows, DiscordCommand
<1> QED BY <1>1, <1>2

\* toggle_vrchat likewise.
Toggles(expected) ==
    \/ pending_vrchat' = None /\ outbox' = None /\ vrchat_state' = expected
    \/ /\ outbox' \in VrChatCommand /\ vrchat_state' # expected
       /\ pending_vrchat'.left > 0

LEMMA ToggleFollows ==
    ASSUME NEW expected \in KnownMute, vrchat_state' \in KnownMute, ToggleVrchat(None, expected)
    PROVE  Toggles(expected)
<1>1. CASE vrchat_state' = expected
  BY <1>1 DEF ToggleVrchat, Toggles
<1>2. CASE vrchat_state' # expected
  <2>1. SendToggle(expected)
    BY <1>2 DEF ToggleVrchat, KnownMute
  <2> QED BY <1>2, <2>1, TimeoutAssumption DEF SendToggle, Toggles, VrChatCommand
<1> QED BY <1>1, <1>2

LEMMA TwiceInverse ==
    ASSUME NEW mute \in KnownMute
    PROVE  Inverse(mute) \in KnownMute /\ Inverse(Inverse(mute)) = mute /\ Inverse(mute) # mute
BY DEF Inverse, KnownMute

\* Only the channels' ends and the window are between two episodes.
NothingElse ==
    /\ vrchat_tx' = <<>> /\ discord_tx' = <<>> /\ vrchat_rx' = <<>> /\ discord_rx' \in Greeting
    /\ vrchat_state' = mic' /\ discord_state' = voice'
    /\ initial_sync_done' /\ link_state' \in {"Active", "Paused"}

\* Once VRChat's side leads, all is quiet or Discord's side is being set.
LEMMA AfterVrchat ==
    ASSUME NothingElse, Follows(Inverse(mic')), pending_vrchat' = None,
           mic' \in KnownMute, voice' \in KnownMute, MicLeads'
    PROVE  Linked' /\ Unexpired'
<1>1. CASE pending_discord' = None /\ outbox' = None /\ discord_state' = Inverse(mic')
  <2>1. Quiet'
    BY <1>1 DEF NothingElse, Quiet, NothingOut, Greeting, Status, MicLeads, Inverse
  <2> QED BY <1>1, <2>1 DEF NothingElse, Linked, Unexpired
<1>2. CASE /\ outbox' \in DiscordCommand /\ outbox'.target = Inverse(mic')
           /\ discord_state' # Inverse(mic') /\ pending_discord'.left > 0
  <2>1. voice' = mic'
    BY <1>2 DEF NothingElse, Inverse, KnownMute
  <2>2. SetUnderWay'
    BY <1>2, <2>1
       DEF NothingElse, SetUnderWay, DiscordCommand, KnownMute, Greeting, Status, MicLeads, Inverse
  <2> QED BY <1>2, <2>2 DEF NothingElse, Linked, Unexpired
<1> QED BY <1>1, <1>2 DEF Follows

\* Once Discord's side leads, all is quiet or the microphone is being toggled.
LEMMA AfterDiscord ==
    ASSUME NothingElse, Toggles(Inverse(voice')), pending_discord' = None,
           mic' \in KnownMute, voice' \in KnownMute,
           link_state' = "Active" => voice' = wanted_voice' /\ wanted' = Inverse(voice')
    PROVE  Linked' /\ Unexpired'
<1>1. CASE pending_vrchat' = None /\ outbox' = None /\ vrchat_state' = Inverse(voice')
  <2>1. Quiet'
    BY <1>1 DEF NothingElse, Quiet, NothingOut, Greeting, Status, Inverse
  <2> QED BY <1>1, <2>1 DEF NothingElse, Linked, Unexpired
<1>2. CASE /\ outbox' \in VrChatCommand /\ vrchat_state' # Inverse(voice')
           /\ pending_vrchat'.left > 0
  <2>1. voice' = mic'
    <3>1. mic' # Inverse(voice')
      BY <1>2 DEF NothingElse
    <3> QED BY <3>1 DEF Inverse, KnownMute
  <2>2. ToggleUnderWay'
    BY <1>2, <2>1 DEF NothingElse, ToggleUnderWay, VrChatCommand, KnownMute, Greeting, Status,
       Inverse
  <2> QED BY <1>2, <2>2 DEF NothingElse, Linked, Unexpired
<1> QED BY <1>1, <1>2 DEF Toggles

\* What stays so does.
LEMMA NextSteady ==
    ASSUME Steady, [NextLink]_systemVars
    PROVE  Steady'
<1>1. mic' \in {mic, Inverse(mic)}
  BY DEF NextLink, systemVars, peerVars, ReceiveFromVrchat, ReceiveFromDiscord, Send, Timeout,
     Pass, VrchatToggles, VrchatMissesToggle, VrchatUserActs, VrchatAvatarChanges, DiscordSets,
     DiscordUserActs, DiscordSessionBreaks, DiscordSessionRestored, UserControls
<1>2. mic' \in KnownMute
  BY <1>1, TwiceInverse DEF Steady
<1>3. UNCHANGED <<world, breaks_left, session>>
  <2>1. ~DiscordSessionBreaks /\ ~DiscordSessionRestored
    BY DEF DiscordSessionBreaks, DiscordSessionRestored, Steady
  <2> QED BY <2>1 DEF NextLink, systemVars, peerVars, ReceiveFromVrchat, ReceiveFromDiscord,
     Send, Timeout, Pass, VrchatToggles, VrchatMissesToggle, VrchatUserActs, VrchatAvatarChanges,
     DiscordSets, DiscordUserActs, UserControls
<1> QED BY <1>2, <1>3 DEF Steady

\* The initial synchronisation follows the side that the authority names.
LEMMA FirstSync ==
    ASSUME TypeOK, PeersOK, Steady, Starting, TryInitialSync(None, None),
           vrchat_tx' = <<>>, discord_tx' = <<>>, vrchat_rx' = <<>>, discord_rx' \in Greeting,
           vrchat_state' = mic', discord_state' = voice',
           mic' = mic, voice' = voice, wanted' = wanted, wanted_voice' = wanted_voice
    PROVE  Linked' /\ Unexpired'
<1>1. /\ mic \in KnownMute /\ voice \in KnownMute
      /\ vrchat_state' \in KnownMute /\ discord_state' \in KnownMute
      /\ "Unknown" \notin {vrchat_state', discord_state'}
      /\ Inverse(mic) \in KnownMute /\ Inverse(voice) \in KnownMute
  BY TwiceInverse DEF Steady, PeersOK, KnownMute
<1>2. /\ initial_sync_done' = TRUE /\ link_state' = ActivatedLink
      /\ \/ /\ EffectiveAuthority = "Vrchat"
            /\ SetDiscordState(None, Inverse(vrchat_state'))
            /\ pending_vrchat' = None
         \/ /\ EffectiveAuthority = "Discord"
            /\ ToggleVrchat(None, Inverse(discord_state'))
            /\ pending_discord' = None
         \/ /\ EffectiveAuthority = "None"
            /\ NoCommand(None, None)
  BY <1>1 DEF TryInitialSync
<1>3. link_state' \in {"Active", "Paused"}
  BY <1>2 DEF Starting, ActivatedLink
<1>4. NothingElse
  BY <1>2, <1>3 DEF NothingElse
<1>5. CASE EffectiveAuthority = "Vrchat"
  <2>1. Follows(Inverse(mic')) /\ pending_vrchat' = None
    BY <1>1, <1>2, <1>5, SetFollows
  <2>2. MicLeads'
    BY <1>5 DEF Starting, MicLeads, Inverse
  <2> QED BY <1>1, <1>4, <2>1, <2>2, AfterVrchat
<1>6. CASE EffectiveAuthority = "Discord"
  <2>1. Toggles(Inverse(voice')) /\ pending_discord' = None
    BY <1>1, <1>2, <1>6, ToggleFollows
  <2>2. voice' = wanted_voice' /\ wanted' = Inverse(voice')
    BY <1>6 DEF Starting, Inverse
  <2> QED BY <1>1, <1>4, <2>1, <2>2, AfterDiscord
<1>7. CASE EffectiveAuthority = "None"
  <2>1. NoCommand(None, None) /\ mic' = wanted' /\ voice' = wanted_voice'
    BY <1>2, <1>7 DEF Starting
  <2>2. Quiet' /\ Unexpired'
    BY <1>4, <2>1 DEF NothingElse, Quiet, NothingOut, NoCommand, Unexpired, Greeting, Status
  <2> QED BY <1>4, <2>2 DEF NothingElse, Linked
<1> QED BY <1>2, <1>5, <1>6, <1>7

\* VRChat is heard.
LEMMA VrchatHeard ==
    ASSUME TypeOK, PeersOK, Steady, Unexpired, Episode, ReceiveFromVrchat
    PROVE  Episode' /\ Unexpired'
<1> DEFINE event == Head(vrchat_rx)
<1>1. /\ vrchat_rx # <<>> /\ vrchat_rx' = Tail(vrchat_rx)
      /\ mic' = mic /\ voice' = voice /\ discord_rx' = discord_rx
      /\ wanted' = wanted /\ wanted_voice' = wanted_voice
      /\ mic \in KnownMute /\ voice \in KnownMute
  BY DEF ReceiveFromVrchat, Steady, PeersOK, wishes
<1>2. outbox = None /\ UNCHANGED <<config, link_mode, vrchat_tx, discord_tx, discord_state>>
  BY DEF ReceiveFromVrchat, HandleVrChatMuteSelf, HandleVrChatAvatarChanged,
     HandleVrChatConnectionChanged, Ready, channelVars, discordVars, linkVars
<1>3. /\ event = mic => HandleVrChatMuteSelf(mic)
      /\ event = "AvatarChanged" => HandleVrChatAvatarChanged
  BY <1>1 DEF ReceiveFromVrchat, KnownMute, VrChatStatusSent
<1>4. CASE Starting
  <2>1. vrchat_rx = <<mic>> /\ vrchat_rx' = <<>> /\ HandleVrChatMuteSelf(mic)
    <3>1. vrchat_rx = <<mic>>
      BY <1>1, <1>4 DEF Starting
    <3> QED BY <1>1, <1>3, <3>1
  <2>2. vrchat_state' = mic' /\ TryInitialSync(None, None)
    BY <1>1, <1>4, <2>1 DEF HandleVrChatMuteSelf, Starting
  <2>3. vrchat_tx' = <<>> /\ discord_tx' = <<>>
    BY <1>2, <1>4 DEF Starting, NothingOut
  <2>4. CASE discord_state = "Unknown"
    <3>1. NoCommand(None, None) /\ UNCHANGED <<initial_sync_done, link_state>>
      BY <1>1, <1>2, <2>2, <2>4 DEF TryInitialSync, KnownMute
    <3>3. \/ discord_rx = Seeded(voice) \/ discord_rx = <<Voice(voice), Status("Connected")>>
      BY <1>1, <1>4, <2>4 DEF Starting, KnownMute
    <3>4. Starting'
      BY <1>1, <1>2, <1>4, <2>1, <2>2, <2>3, <2>4, <3>1, <3>3
         DEF Starting, NothingOut, NoCommand, EffectiveAuthority, Seeded, Voice, Status, Inverse,
             Greeting
    <3>5. Unexpired'
      BY <3>1 DEF NoCommand, Unexpired
    <3> QED BY <3>4, <3>5 DEF Episode
  <2>5. CASE discord_state # "Unknown"
    <3>1. discord_rx' \in Greeting /\ discord_state' = voice'
      BY <1>1, <1>2, <1>4, <2>5 DEF Starting
    <3> QED BY <1>1, <1>4, <2>1, <2>2, <2>3, <3>1, FirstSync DEF Episode
  <2> QED BY <2>4, <2>5
<1>5. CASE Linked
  <2>1. /\ VrchatSpeaks /\ initial_sync_done /\ link_state \in {"Active", "Paused"}
    BY <1>1, <1>5 DEF Linked, Quiet, DiscordSpeaks, SetUnderWay, ToggleUnderWay
  <2>2. vrchat_tx' = <<>> /\ discord_tx' = <<>> /\ discord_rx' \in Greeting
        /\ discord_state' = voice' /\ pending_discord = None
    BY <1>1, <1>2, <2>1 DEF VrchatSpeaks, NothingOut
  <2>3. CASE vrchat_rx = <<mic>>
    <3>1. vrchat_rx' = <<>> /\ HandleVrChatMuteSelf(mic)
      BY <1>1, <1>3, <2>3
    <3>2. /\ vrchat_state' = mic' /\ pending_vrchat' = None
          /\ UNCHANGED <<initial_sync_done, link_state>>
      BY <1>1, <2>1, <3>1 DEF HandleVrChatMuteSelf, NoCommand
    <3>3. NothingElse
      BY <2>1, <2>2, <3>1, <3>2 DEF NothingElse
    <3>4. CASE link_state = "Active"
      <4>1. SetDiscordState(None, Inverse(mic))
        BY <2>1, <2>2, <3>1, <3>4 DEF HandleVrChatMuteSelf
      <4>2. Follows(Inverse(mic'))
        BY <1>1, <2>2, <4>1, SetFollows, TwiceInverse
      <4>3. MicLeads'
        BY <1>1, <2>1, <3>4 DEF VrchatSpeaks, MicLeads, Inverse
      <4> QED BY <1>1, <3>2, <3>3, <4>2, <4>3, AfterVrchat DEF Episode
    <3>5. CASE link_state # "Active"
      <4>1. NoCommand(None, None)
        BY <2>1, <2>2, <3>1, <3>5 DEF HandleVrChatMuteSelf
      <4>2. Quiet' /\ Unexpired'
        BY <3>2, <3>3, <3>5, <4>1
           DEF NothingElse, Quiet, NothingOut, NoCommand, Unexpired, Greeting, Status, Inverse
      <4> QED BY <3>3, <4>2 DEF NothingElse, Linked, Episode
    <3> QED BY <3>4, <3>5
  <2>4. CASE vrchat_rx = <<"AvatarChanged", mic>>
    <3>1. vrchat_rx' = <<mic>> /\ HandleVrChatAvatarChanged
      BY <1>1, <1>3, <2>4
    <3>2. NoCommand(None, None) /\ UNCHANGED <<initial_sync_done, link_state>>
      BY <2>2, <3>1 DEF HandleVrChatAvatarChanged, linkVars
    <3>3. VrchatSpeaks' /\ Unexpired'
      BY <1>1, <2>1, <2>2, <3>1, <3>2
         DEF VrchatSpeaks, NothingOut, NoCommand, Unexpired, Greeting, Status, MicLeads, Inverse
    <3> QED BY <2>1, <3>2, <3>3 DEF Linked, Episode
  <2> QED BY <2>1, <2>3, <2>4 DEF VrchatSpeaks
<1> QED BY <1>4, <1>5 DEF Episode

\* Discord is heard.
LEMMA DiscordHeard ==
    ASSUME TypeOK, PeersOK, Steady, Unexpired, Episode, ReceiveFromDiscord
    PROVE  Episode' /\ Unexpired'
<1> DEFINE event == Head(discord_rx)
<1>1. /\ discord_rx # <<>> /\ discord_rx' = Tail(discord_rx)
      /\ mic' = mic /\ voice' = voice /\ vrchat_rx' = vrchat_rx
      /\ wanted' = wanted /\ wanted_voice' = wanted_voice
      /\ mic \in KnownMute /\ voice \in KnownMute
  BY DEF ReceiveFromDiscord, Steady, PeersOK, wishes
<1>2. outbox = None /\ UNCHANGED <<config, link_mode, vrchat_tx, discord_tx, vrchat_state>>
  BY DEF ReceiveFromDiscord, HandleDiscordVoiceSettingsUpdate, HandleDiscordConnectionChanged,
     Ready, channelVars, vrchatVars, linkVars
<1>3. event = Voice(voice) => HandleDiscordVoiceSettingsUpdate(voice)
  BY DEF ReceiveFromDiscord, Voice
<1>4. ASSUME event = Status("Connecting") \/ event = Status("Connected")
      PROVE  /\ UNCHANGED <<linkVars, pending_vrchat, outbox>>
             /\ event = Status("Connected") => UNCHANGED <<discord_state, pending_discord>>
             /\ event = Status("Connecting") => discord_state' = "Unknown" /\ pending_discord' = None
  BY <1>4 DEF ReceiveFromDiscord, HandleDiscordConnectionChanged, Status, LosesDiscord
<1>5. CASE Starting
  <2>1. vrchat_tx' = <<>> /\ discord_tx' = <<>>
    BY <1>2, <1>5 DEF Starting, NothingOut
  <2>2. CASE discord_rx = Seeded(voice)
    <3>1. event = Status("Connecting") /\ discord_rx' = <<Voice(voice), Status("Connected")>>
      BY <1>1, <2>2 DEF Seeded
    <3>2. /\ UNCHANGED <<link_state, initial_sync_done, pending_vrchat, outbox>>
          /\ discord_state' = "Unknown" /\ pending_discord' = None
      BY <1>4, <3>1 DEF linkVars
    <3>3. Starting' /\ Unexpired'
      BY <1>1, <1>2, <1>5, <2>1, <3>1, <3>2
         DEF Starting, NothingOut, EffectiveAuthority, Unexpired, Seeded, Voice, Status, Inverse
    <3> QED BY <3>3 DEF Episode
  <2>3. CASE discord_rx = <<Voice(voice), Status("Connected")>>
    <3>1. event = Voice(voice) /\ discord_rx' = <<Status("Connected")>>
      BY <1>1, <2>3
    <3>2. HandleDiscordVoiceSettingsUpdate(voice)
      BY <1>3, <3>1
    <3>3. discord_state' = voice' /\ TryInitialSync(None, None)
      BY <1>1, <1>5, <3>2 DEF HandleDiscordVoiceSettingsUpdate, Starting
    <3>4. discord_rx' \in Greeting
      BY <3>1 DEF Greeting
    <3>5. CASE vrchat_state = "Unknown"
      <4>1. NoCommand(None, None) /\ UNCHANGED <<initial_sync_done, link_state>>
        BY <1>1, <1>2, <3>3, <3>5 DEF TryInitialSync, KnownMute
      <4>2. vrchat_rx = <<mic>>
        BY <1>1, <1>5, <3>5 DEF Starting, KnownMute
      <4>3. discord_rx' = <<Status("Connected")>> /\ vrchat_rx' = <<mic'>>
        BY <1>1, <3>1, <4>2
      <4>4. Starting' /\ Unexpired'
        BY <1>1, <1>2, <1>5, <2>1, <3>3, <3>5, <4>1, <4>3
           DEF Starting, NothingOut, NoCommand, EffectiveAuthority, Unexpired, Seeded, Voice,
               Status, Inverse, Greeting
      <4> QED BY <4>4 DEF Episode
    <3>6. CASE vrchat_state # "Unknown"
      <4>1. vrchat_rx' = <<>> /\ vrchat_state' = mic'
        BY <1>1, <1>2, <1>5, <3>6 DEF Starting
      <4> QED BY <1>1, <1>5, <2>1, <3>3, <3>4, <4>1, FirstSync DEF Episode
    <3> QED BY <3>5, <3>6
  <2>4. CASE discord_rx \in Greeting /\ discord_state = voice
    <3>1. event = Status("Connected") /\ discord_rx' = <<>>
      <4>1. discord_rx = <<Status("Connected")>>
        BY <1>1, <2>4 DEF Greeting
      <4> QED BY <1>1, <4>1
    <3>2. UNCHANGED <<link_state, initial_sync_done, pending_vrchat, outbox, discord_state,
                      pending_discord>>
      BY <1>4, <3>1 DEF linkVars
    <3>3. discord_rx' \in Greeting
      BY <3>1 DEF Greeting
    <3>4. Starting' /\ Unexpired'
      BY <1>1, <1>2, <1>5, <2>1, <2>4, <3>2, <3>3
         DEF Starting, NothingOut, EffectiveAuthority, Unexpired, Inverse, Greeting, Status,
             Seeded, Voice
    <3> QED BY <3>4 DEF Episode
  <2> QED BY <1>5, <2>2, <2>3, <2>4 DEF Starting
<1>6. CASE Linked /\ event = Status("Connected")
  <2>1. UNCHANGED <<link_state, initial_sync_done, pending_vrchat, outbox, discord_state,
                    pending_discord>>
    BY <1>4, <1>6 DEF linkVars
  <2>2. discord_rx \in Greeting => discord_rx' = <<>>
    BY <1>1 DEF Greeting
  <2>3. CASE Quiet \/ VrchatSpeaks
    BY <1>1, <1>2, <1>6, <2>1, <2>2, <2>3
       DEF Quiet, VrchatSpeaks, MicLeads, NothingOut, Greeting, Status, Inverse, Linked, Episode,
           Unexpired
  <2>4. CASE DiscordSpeaks
    <3>1. \/ discord_rx = <<Status("Connected"), Voice(voice)>>
             /\ discord_rx' = <<Voice(voice)>>
          \/ discord_rx = <<Status("Connected"), Voice(voice), Voice(voice)>>
             /\ discord_rx' = <<Voice(voice), Voice(voice)>>
             /\ (link_state = "Active" => mic = wanted)
      <4>1. Voice(voice) # Status("Connected")
        BY DEF Voice, Status
      <4>2. discord_rx # <<Voice(voice)>> /\ discord_rx # <<Voice(voice), Voice(voice)>>
        BY <1>6, <4>1
      <4>3. CASE discord_rx = <<Status("Connected"), Voice(voice)>>
        BY <1>1, <4>3
      <4>4. CASE /\ discord_rx = <<Status("Connected"), Voice(voice), Voice(voice)>>
                 /\ link_state = "Active" => mic = wanted
        BY <1>1, <4>4
      <4> QED BY <2>4, <4>2, <4>3, <4>4 DEF DiscordSpeaks
    <3>2. DiscordSpeaks'
      BY <1>1, <1>2, <2>1, <2>4, <3>1
         DEF DiscordSpeaks, VoiceLeads, NothingOut, Voice, Status, Inverse
    <3> QED BY <1>6, <2>1, <3>2 DEF Linked, Episode, Unexpired
  <2>5. CASE SetUnderWay
    <3>1. SetUnderWay'
      BY <1>1, <1>2, <2>1, <2>2, <2>5 DEF SetUnderWay, MicLeads, Greeting, Status, Inverse
    <3> QED BY <1>6, <2>1, <3>1 DEF Linked, Episode, Unexpired
  <2>6. CASE ToggleUnderWay
    <3>1. ToggleUnderWay'
      BY <1>1, <1>2, <2>1, <2>2, <2>6 DEF ToggleUnderWay, Greeting, Status, Inverse
    <3> QED BY <1>6, <2>1, <3>1 DEF Linked, Episode, Unexpired
  <2> QED BY <1>6, <2>3, <2>4, <2>5, <2>6 DEF Linked
<1>7. CASE Linked /\ event # Status("Connected")
  <2>1. DiscordSpeaks
    BY <1>1, <1>7 DEF Linked, Quiet, VrchatSpeaks, SetUnderWay, ToggleUnderWay, Greeting
  <2>2. event = Voice(voice) /\ (discord_rx' = <<>> \/ discord_rx' = <<Voice(voice)>>)
        /\ (discord_rx' # <<>> /\ link_state = "Active" => mic = wanted)
    <3>1. CASE discord_rx = <<Voice(voice)>>
      BY <1>1, <3>1
    <3>2. CASE /\ discord_rx = <<Voice(voice), Voice(voice)>>
               /\ link_state = "Active" => mic = wanted
      BY <1>1, <3>2
    <3> QED BY <1>7, <2>1, <3>1, <3>2 DEF DiscordSpeaks
  <2>3. HandleDiscordVoiceSettingsUpdate(voice)
    BY <1>3, <2>2
  <2>4. /\ discord_state' = voice' /\ pending_discord' = None
        /\ UNCHANGED <<initial_sync_done, link_state>>
    BY <1>1, <1>7, <2>3 DEF HandleDiscordVoiceSettingsUpdate, NoCommand, Linked
  <2>5. /\ vrchat_tx' = <<>> /\ discord_tx' = <<>> /\ vrchat_rx' = <<>>
        /\ vrchat_state' = mic' /\ pending_vrchat = None
        /\ initial_sync_done' /\ link_state' \in {"Active", "Paused"}
    BY <1>1, <1>2, <1>7, <2>1, <2>4 DEF DiscordSpeaks, NothingOut, Linked
  <2>6. CASE ~ReflectsDiscord
    <3>1. NoCommand(None, None)
      BY <1>7, <2>3, <2>5, <2>6 DEF HandleDiscordVoiceSettingsUpdate, Linked
    <3>2. /\ VoiceLeads'
          /\ link_state' = "Active" => mic' = wanted' /\ voice' = wanted_voice'
      BY <1>1, <1>2, <2>1, <2>4, <2>6 DEF DiscordSpeaks, VoiceLeads, ReflectsDiscord, Inverse
    <3>3. Quiet' \/ DiscordSpeaks'
      BY <1>1, <2>2, <2>4, <2>5, <3>1, <3>2
         DEF Quiet, DiscordSpeaks, NothingOut, NoCommand, Greeting, Status, Voice
    <3> QED BY <2>5, <3>1, <3>3 DEF Linked, Episode, NoCommand, Unexpired
  <2>7. CASE ReflectsDiscord
    <3>1. ToggleVrchat(None, Inverse(voice))
      BY <1>7, <2>3, <2>5, <2>7 DEF HandleDiscordVoiceSettingsUpdate, Linked
    <3>2. Toggles(Inverse(voice'))
      BY <1>1, <2>5, <3>1, ToggleFollows, TwiceInverse
    <3>3. voice' = wanted_voice' /\ wanted' = Inverse(voice') /\ VoiceLeads'
      BY <1>1, <1>2, <2>1, <2>4, <2>7 DEF DiscordSpeaks, VoiceLeads, ReflectsDiscord, Inverse
    <3>4. CASE discord_rx' = <<>>
      <4>1. NothingElse
        BY <2>4, <2>5, <3>4 DEF NothingElse, Greeting
      <4> QED BY <1>1, <2>4, <3>2, <3>3, <4>1, AfterDiscord DEF Episode
    <3>5. CASE discord_rx' = <<Voice(voice)>>
      <4>1. mic = wanted
        BY <2>2, <2>7, <3>5 DEF ReflectsDiscord
      <4>2. vrchat_state' = Inverse(voice')
        BY <1>1, <2>5, <3>3, <4>1
      <4>3. pending_vrchat' = None /\ outbox' = None
        BY <3>2, <4>2 DEF Toggles
      <4>4. DiscordSpeaks'
        BY <1>1, <2>4, <2>5, <3>3, <3>5, <4>3 DEF DiscordSpeaks, NothingOut, Voice
      <4> QED BY <2>4, <2>5, <4>3, <4>4 DEF Linked, Episode, Unexpired
    <3> QED BY <2>2, <3>4, <3>5
  <2> QED BY <2>6, <2>7
<1> QED BY <1>5, <1>6, <1>7 DEF Episode

\* Nothing is on its way only when all is quiet, and then people may act.
LEMMA SettledIsQuiet ==
    ASSUME PeersOK, Steady, Episode, Settled
    PROVE  /\ Quiet /\ initial_sync_done /\ link_state \in {"Active", "Paused"}
           /\ NothingOut /\ vrchat_rx = <<>> /\ discord_rx = <<>>
<1>1. /\ outbox = None /\ vrchat_tx = <<>> /\ discord_tx = <<>>
      /\ vrchat_rx = <<>> /\ discord_rx = <<>>
  BY DEF Settled
<1>2. voice # "Unknown" /\ None \notin DiscordCommand /\ None \notin VrChatCommand
  BY NoneAssumption DEF PeersOK, KnownMute
<1>3. ~Starting
  BY <1>1, <1>2 DEF Starting, Seeded
<1>4. ~VrchatSpeaks /\ ~DiscordSpeaks
  BY <1>1 DEF VrchatSpeaks, DiscordSpeaks
<1>5. ~SetUnderWay /\ ~ToggleUnderWay
  BY <1>1, <1>2 DEF SetUnderWay, ToggleUnderWay
<1> QED BY <1>1, <1>3, <1>4, <1>5 DEF Episode, Linked, NothingOut

\* People act when all is quiet: one of the sides then speaks.
LEMMA PeopleAct ==
    ASSUME PeersOK, Steady, Unexpired, Episode,
           VrchatUserActs \/ VrchatAvatarChanges \/ DiscordUserActs
    PROVE  Episode' /\ Unexpired'
<1>1. Settled /\ UNCHANGED vars /\ session
  BY DEF VrchatUserActs, VrchatAvatarChanges, DiscordUserActs, Acts, Steady
<1>2. /\ Quiet /\ initial_sync_done /\ link_state \in {"Active", "Paused"}
      /\ vrchat_rx = <<>> /\ discord_rx = <<>>
  BY <1>1, SettledIsQuiet
<1>3. /\ UNCHANGED <<outbox, vrchat_tx, discord_tx, pending_vrchat, pending_discord, vrchat_state,
                     discord_state, link_mode, link_state, initial_sync_done>>
      /\ Unexpired'
  BY <1>1 DEF vars, sendVars, channelVars, pendingVars, vrchatVars, discordVars, linkVars, Unexpired
<1>4. CASE VrchatUserActs \/ VrchatAvatarChanges
  <2>1. /\ vrchat_rx' = <<mic'>> \/ vrchat_rx' = <<"AvatarChanged", mic'>>
        /\ MicLeads' /\ UNCHANGED <<voice, discord_rx>>
    <3>1. vrchat_rx' = <<mic'>> \/ vrchat_rx' = <<"AvatarChanged", mic'>>
      BY <1>2, <1>4 DEF VrchatUserActs, VrchatAvatarChanges
    <3>2. CASE VrchatUserActs
      BY <3>1, <3>2 DEF VrchatUserActs, Wish, MicLeads, Inverse
    <3>3. CASE VrchatAvatarChanges
      BY <1>2, <1>3, <3>1, <3>3 DEF VrchatAvatarChanges, Wish, MicLeads, Quiet, Inverse
    <3> QED BY <1>4, <3>2, <3>3
  <2>2. VrchatSpeaks'
    BY <1>2, <1>3, <2>1 DEF VrchatSpeaks, Quiet, NothingOut, Greeting, Status
  <2> QED BY <1>2, <1>3, <2>2 DEF Linked, Episode
<1>5. CASE DiscordUserActs
  <2>1. /\ discord_rx' = <<Voice(voice')>> /\ wanted_voice' = voice'
        /\ wanted' = IF link_mode = "VrchatMaster" THEN wanted ELSE Inverse(voice')
        /\ UNCHANGED <<mic, vrchat_rx>>
    BY <1>1, <1>2, <1>5 DEF DiscordUserActs, Wish
  <2>2. VoiceLeads'
    BY <1>2, <1>3, <2>1 DEF VoiceLeads, Quiet, Inverse
  <2>3. DiscordSpeaks'
    BY <1>2, <1>3, <2>1, <2>2 DEF DiscordSpeaks, Quiet, NothingOut, Voice
  <2> QED BY <1>2, <1>3, <2>3 DEF Linked, Episode
<1> QED BY <1>4, <1>5

\* So are the window's buttons pressed: Discord's side then follows, or nothing does.
LEMMA WindowActs ==
    ASSUME TypeOK, PeersOK, Steady, Unexpired, Episode, UserControls
    PROVE  Episode' /\ Unexpired'
<1>1. Settled /\ UNCHANGED <<mic, voice, vrchat_rx, discord_rx>>
  BY DEF UserControls, Acts, Steady
<1>2. /\ Quiet /\ initial_sync_done /\ link_state \in {"Active", "Paused"}
      /\ NothingOut /\ vrchat_rx = <<>> /\ discord_rx = <<>>
  BY <1>1, SettledIsQuiet
<1>3. /\ vrchat_state = mic /\ discord_state = voice
      /\ pending_vrchat = None /\ pending_discord = None
      /\ mic \in KnownMute /\ voice \in KnownMute /\ mic # "Unknown"
  BY <1>2 DEF Quiet, Steady, PeersOK, KnownMute
<1>4. UNCHANGED <<vrchat_tx, discord_tx, vrchat_state, discord_state, initial_sync_done>>
  BY DEF UserControls, ChooseMode, SetLinkMode, Pause, Resume, ManualResync, Ready, channelVars,
     vrchatVars, discordVars, linkVars
<1>5. ASSUME UNCHANGED <<outbox, pending_vrchat, pending_discord>>,
             link_state' \in {"Active", "Paused"},
             link_state' = "Active" => mic = wanted' /\ voice = wanted_voice'
      PROVE  Episode' /\ Unexpired'
  <2>1. Quiet' /\ Unexpired'
    BY <1>1, <1>2, <1>4, <1>5 DEF Quiet, NothingOut, Unexpired, Greeting, Status
  <2> QED BY <1>2, <1>4, <1>5, <2>1 DEF Linked, Episode
<1>6. CASE \E mode \in LinkMode : ChooseMode(mode)
  <2>1. UNCHANGED <<outbox, pending_vrchat, pending_discord, link_state>>
    BY <1>6 DEF ChooseMode, SetLinkMode, pendingVars
  <2>2. wanted' \in {wanted, mic} /\ wanted_voice' = wanted_voice
    BY <1>6 DEF ChooseMode, wishes
  <2>3. link_state' = "Active" => mic = wanted' /\ voice = wanted_voice'
    BY <1>2, <2>1, <2>2 DEF Quiet
  <2> QED BY <1>2, <1>5, <2>1, <2>3
<1>7. CASE Pause
  BY <1>5, <1>7 DEF Pause, pendingVars
<1>8. CASE Resume /\ config.resume_policy = "KeepState" /\ wanted' = mic /\ wanted_voice' = voice
  BY <1>5, <1>8 DEF Resume, ResumePolicy
<1>9. CASE /\ (Resume /\ config.resume_policy # "KeepState") \/ ManualResync
           /\ wanted' = mic /\ wanted_voice' = Inverse(mic)
  <2>1. /\ ResyncFromVrchat(None) /\ pending_vrchat' = None
        /\ link_state' \in {"Active", "Paused"}
    BY <1>2, <1>3, <1>9 DEF Resume, ManualResync, ResumePolicy, linkVars
  <2>2. SetDiscordState(None, Inverse(mic))
    BY <1>3, <2>1 DEF ResyncFromVrchat
  <2>3. Follows(Inverse(mic'))
    BY <1>1, <1>3, <1>4, <2>2, SetFollows, TwiceInverse
  <2>4. NothingElse
    BY <1>1, <1>2, <1>3, <1>4, <2>1 DEF NothingElse, NothingOut, Greeting
  <2>5. MicLeads'
    BY <1>1, <1>9 DEF MicLeads, Inverse
  <2> QED BY <1>1, <1>3, <2>1, <2>3, <2>4, <2>5, AfterVrchat DEF Episode
<1> QED BY <1>6, <1>7, <1>8, <1>9 DEF UserControls, Wish

\* A command goes its way.
LEMMA CommandGoes ==
    ASSUME TypeOK, PeersOK, Steady, Unexpired, Episode, Send
    PROVE  Episode' /\ Unexpired'
<1>1. /\ outbox # None /\ outbox' = None
      /\ UNCHANGED <<mic, voice, wanted, wanted_voice, vrchat_rx, discord_rx, pending_vrchat,
                     pending_discord, vrchat_state, discord_state, link_state, initial_sync_done>>
  BY DEF Send, CompleteSend, peerVars, wishes, pendingVars, vrchatVars, discordVars, linkVars
<1>2. Linked /\ (SetUnderWay \/ ToggleUnderWay) /\ Unexpired'
  BY <1>1 DEF Episode, Starting, Linked, Quiet, VrchatSpeaks, DiscordSpeaks, NothingOut, Unexpired
<1>3. CASE SetUnderWay
  <2>1. outbox \in DiscordCommand /\ outbox.target = Inverse(mic) /\ outbox.type = "SetMute"
    BY <1>1, <1>3 DEF SetUnderWay, DiscordCommand
  <2>2. discord_tx' = <<outbox>> /\ UNCHANGED vrchat_tx
    BY <1>1, <1>3, <2>1 DEF SetUnderWay, Send, CompleteSend
  <2>3. \E command \in DiscordCommand :
           command.target = Inverse(mic') /\ discord_tx' = <<command>>
    BY <1>1, <2>1, <2>2
  <2>4. SetUnderWay'
    BY <1>1, <1>3, <2>2, <2>3 DEF SetUnderWay, MicLeads, Greeting, Status,
       DiscordCommand, KnownMute, Inverse
  <2> QED BY <1>1, <1>2, <2>4 DEF Linked, Episode
<1>4. CASE ToggleUnderWay
  <2>1. outbox \in VrChatCommand /\ outbox.type = "ToggleVoice"
    BY <1>1, <1>4 DEF ToggleUnderWay, VrChatCommand
  <2>2. vrchat_tx' = <<outbox>> /\ UNCHANGED discord_tx
    BY <1>1, <1>4, <2>1 DEF ToggleUnderWay, Send, CompleteSend
  <2>3. ToggleUnderWay'
    BY <1>1, <1>4, <2>1, <2>2 DEF ToggleUnderWay, Greeting, Status, VrChatCommand, KnownMute,
       Inverse
  <2> QED BY <1>1, <1>2, <2>3 DEF Linked, Episode
<1> QED BY <1>2, <1>3, <1>4

\* VRChat inverts its microphone, and says so.
LEMMA ToggleDone ==
    ASSUME TypeOK, PeersOK, Steady, Unexpired, Episode, VrchatToggles
    PROVE  Episode' /\ Unexpired'
<1>1. /\ vrchat_tx # <<>> /\ vrchat_tx' = Tail(vrchat_tx) /\ mic' = Inverse(mic)
      /\ UNCHANGED <<voice, wanted, wanted_voice, discord_rx, discord_tx, outbox, pending_vrchat,
                     pending_discord, discord_state, link_state, initial_sync_done>>
  BY DEF VrchatToggles, VrChatSenderTakes, wishes, sendVars, pendingVars, discordVars, linkVars
<1>2. Linked /\ ToggleUnderWay /\ outbox = None /\ vrchat_tx' = <<>> /\ Unexpired'
  <2>1. Linked /\ ToggleUnderWay /\ outbox = None
    BY <1>1 DEF Episode, Starting, Linked, Quiet, VrchatSpeaks, DiscordSpeaks, SetUnderWay,
       ToggleUnderWay, NothingOut
  <2>2. vrchat_tx' = <<>>
    <3>1. PICK command \in VrChatCommand : vrchat_tx = <<command>>
      BY <1>1, <2>1 DEF ToggleUnderWay
    <3> QED BY <1>1, <3>1
  <2>3. Unexpired'
    BY <1>1 DEF Unexpired
  <2> QED BY <2>1, <2>2, <2>3
<1>3. vrchat_rx' = <<mic'>>
  <2>1. vrchat_rx' = <<>> \o <<mic'>> \o <<>>
    BY <1>2 DEF VrchatToggles, ToggleUnderWay, Steady
  <2> QED BY <2>1
<1>4. MicLeads'
  <2>1. Inverse(mic') = mic
    BY <1>1, TwiceInverse DEF Steady
  <2>2. MicLeads' <=> (link_state' = "Active" => mic' = wanted' /\ wanted_voice' = Inverse(mic'))
    BY DEF MicLeads, Inverse
  <2> QED BY <1>1, <1>2, <2>1, <2>2 DEF ToggleUnderWay
<1>5. VrchatSpeaks'
  BY <1>1, <1>2, <1>3, <1>4 DEF ToggleUnderWay, VrchatSpeaks, NothingOut, Greeting, Status
<1> QED BY <1>1, <1>2, <1>5 DEF Linked, Episode

\* Sequences are equal when their elements are.
LEMMA AsTuple ==
    ASSUME NEW S, NEW seq \in Seq(S)
    PROVE  /\ Len(seq) = 2 => seq = <<seq[1], seq[2]>>
           /\ Len(seq) = 3 => seq = <<seq[1], seq[2], seq[3]>>
OBVIOUS

\* One element, and one or two after it.
LEMMA OneBefore ==
    ASSUME NEW S, NEW one \in Seq(S), NEW more \in Seq(S), NEW seq, seq = one \o more
    PROVE  /\ Len(one) = 1 /\ Len(more) = 1 => seq = <<one[1], more[1]>>
           /\ Len(one) = 1 /\ Len(more) = 2 => seq = <<one[1], more[1], more[2]>>
<1>1. /\ seq \in Seq(S) /\ Len(seq) = Len(one) + Len(more)
      /\ \A j \in 1 .. Len(one) : seq[j] = one[j]
      /\ \A j \in 1 .. Len(more) : seq[Len(one) + j] = more[j]
  OBVIOUS
<1>2. seq \in Seq(S)
  BY <1>1
<1>3. CASE Len(one) = 1 /\ Len(more) = 1
  <2>1. seq[1] = one[1] /\ seq[2] = more[1] /\ Len(seq) = 2
    BY <1>1, <1>3
  <2> QED BY <1>2, <1>3, <2>1, AsTuple
<1>4. CASE Len(one) = 1 /\ Len(more) = 2
  <2>1. seq[1] = one[1] /\ seq[2] = more[1] /\ seq[3] = more[2] /\ Len(seq) = 3
    BY <1>1, <1>4
  <2> QED BY <1>2, <1>4, <2>1, AsTuple
<1> QED BY <1>3, <1>4

LEMMA OneOrTwo ==
    ASSUME NEW c, NEW v
    PROVE  /\ <<>> \o <<v>> = <<v>> /\ <<>> \o <<v, v>> = <<v, v>>
           /\ <<c>> \o <<v>> = <<c, v>> /\ <<c>> \o <<v, v>> = <<c, v, v>>
<1>1. <<>> \o <<v>> = <<v>> /\ <<>> \o <<v, v>> = <<v, v>>
  OBVIOUS
<1>2. /\ <<c>> \in Seq({c, v}) /\ Len(<<c>>) = 1 /\ <<c>>[1] = c
      /\ <<v>> \in Seq({c, v}) /\ Len(<<v>>) = 1 /\ <<v>>[1] = v
      /\ <<v, v>> \in Seq({c, v}) /\ Len(<<v, v>>) = 2 /\ <<v, v>>[1] = v /\ <<v, v>>[2] = v
  OBVIOUS
<1>3. <<c>> \o <<v>> = << <<c>>[1], <<v>>[1]>>
  BY <1>2, OneBefore
<1>4. <<c>> \o <<v, v>> = << <<c>>[1], <<v, v>>[1], <<v, v>>[2]>>
  BY <1>2, OneBefore
<1> QED BY <1>1, <1>2, <1>3, <1>4

\* Discord sets its voice, and says so, perhaps twice.
LEMMA SetDone ==
    ASSUME TypeOK, PeersOK, Steady, Unexpired, Episode, DiscordSets
    PROVE  Episode' /\ Unexpired'
<1>1. /\ discord_tx # <<>> /\ discord_tx' = Tail(discord_tx) /\ voice' = Head(discord_tx).target
      /\ UNCHANGED <<mic, wanted, wanted_voice, vrchat_rx, vrchat_tx, outbox, pending_vrchat,
                     pending_discord, vrchat_state, link_mode, link_state, initial_sync_done>>
  BY DEF DiscordSets, DiscordSessionTakes, wishes, sendVars, pendingVars, vrchatVars, linkVars
<1>10. Linked /\ SetUnderWay
  BY <1>1 DEF Episode, Starting, Linked, Quiet, VrchatSpeaks, DiscordSpeaks, ToggleUnderWay,
     NothingOut
<1>11. /\ outbox = None
       /\ \E command \in DiscordCommand : command.target = Inverse(mic) /\ discord_tx = <<command>>
  BY <1>1, <1>10 DEF SetUnderWay
<1>12. discord_tx' = <<>> /\ voice' = Inverse(mic)
  <2>1. PICK command \in DiscordCommand :
           command.target = Inverse(mic) /\ discord_tx = <<command>>
    BY <1>11
  <2>2. Head(discord_tx) = command /\ Tail(discord_tx) = <<>>
    BY <2>1
  <2> QED BY <1>1, <2>1, <2>2
<1>13. Unexpired'
  BY <1>1 DEF Unexpired
<1>2. Linked /\ SetUnderWay /\ outbox = None /\ discord_tx' = <<>> /\ voice' = Inverse(mic')
      /\ Unexpired'
  BY <1>1, <1>10, <1>11, <1>12, <1>13 DEF Inverse
<1>3. PICK n \in {1} \union world.echoes :
         discord_rx' = discord_rx \o [i \in 1 .. n |-> Voice(voice')]
  BY DEF DiscordSets
<1>4. n \in {1, 2}
  BY <1>3, LinkAssumption DEF PeersOK, World
<1>5. [i \in 1 .. n |-> Voice(voice')] \in {<<Voice(voice')>>, <<Voice(voice'), Voice(voice')>>}
  BY <1>4
<1>6. discord_rx \in Greeting
  BY <1>2 DEF SetUnderWay
<1>7. \/ discord_rx' = <<Voice(voice')>> \/ discord_rx' = <<Status("Connected"), Voice(voice')>>
      \/ discord_rx' = <<Voice(voice'), Voice(voice')>>
      \/ discord_rx' = <<Status("Connected"), Voice(voice'), Voice(voice')>>
  <2> DEFINE said == Voice(voice')
             told == [i \in 1 .. n |-> said]
             up   == Status("Connected")
  <2>1. told \in {<<said>>, <<said, said>>} /\ discord_rx' = discord_rx \o told
    BY <1>3, <1>5
  <2>2. discord_rx \in {<<>>, <<up>>}
    BY <1>6 DEF Greeting
  <2> HIDE DEF said, told, up
  <2>3. discord_rx' \in {<<said>>, <<said, said>>, <<up, said>>, <<up, said, said>>}
    <3>1. CASE discord_rx = <<>>
      <4>1. <<>> \o <<said>> = <<said>> /\ <<>> \o <<said, said>> = <<said, said>>
        BY OneOrTwo
      <4> QED BY <2>1, <3>1, <4>1
    <3>2. CASE discord_rx = <<up>>
      <4>1. <<up>> \o <<said>> = <<up, said>> /\ <<up>> \o <<said, said>> = <<up, said, said>>
        BY OneOrTwo
      <4> QED BY <2>1, <3>2, <4>1
    <3> QED BY <2>2, <3>1, <3>2
  <2> QED BY <2>3 DEF said, up
<1>8. VoiceLeads' /\ (link_state' = "Active" => mic' = wanted')
  <2>1. Inverse(voice') = mic
    BY <1>1, <1>2, TwiceInverse DEF Steady
  <2>2. VoiceLeads' <=>
           (link_state' = "Active" =>
               /\ voice' = wanted_voice'
               /\ wanted' = IF link_mode' = "VrchatMaster" THEN mic' ELSE Inverse(voice'))
    BY DEF VoiceLeads, Inverse
  <2> QED BY <1>1, <1>2, <2>1, <2>2 DEF SetUnderWay, MicLeads
<1>9. DiscordSpeaks'
  BY <1>1, <1>2, <1>7, <1>8 DEF SetUnderWay, DiscordSpeaks, NothingOut, Voice, Status
<1> QED BY <1>1, <1>2, <1>9 DEF Linked, Episode

LEMMA NextEpisode ==
    ASSUME TypeOK, PeersOK, Steady, Unexpired, Episode, [NextLink]_systemVars
    PROVE  Episode' /\ Unexpired'
<1>1. CASE ReceiveFromVrchat \/ ReceiveFromDiscord
  BY <1>1, VrchatHeard, DiscordHeard
<1>2. CASE Send \/ VrchatToggles \/ DiscordSets
  BY <1>2, CommandGoes, ToggleDone, SetDone
<1>3. CASE VrchatUserActs \/ VrchatAvatarChanges \/ DiscordUserActs \/ UserControls
  BY <1>3, PeopleAct, WindowActs
<1>4. ~Timeout
  <2>1. \A n : n > 0 => n # 0
    OBVIOUS
  <2> QED BY <2>1 DEF Timeout, HandlePendingTimeout, TimerDue, Expired, Unexpired
<1>5. ~Pass /\ ~VrchatMissesToggle /\ ~DiscordSessionBreaks /\ ~DiscordSessionRestored
  BY DEF Pass, VrchatMissesToggle, DiscordSessionBreaks, DiscordSessionRestored, Steady
<1>6. CASE UNCHANGED systemVars
  <2>1. UNCHANGED <<world, mic, voice, wanted, wanted_voice, vrchat_rx, discord_rx, vrchat_tx,
                    discord_tx, outbox, pending_vrchat, pending_discord, vrchat_state,
                    discord_state, link_mode, link_state, initial_sync_done, config>>
    BY <1>6 DEF systemVars, peerVars, wishes, vars, sendVars, channelVars, pendingVars, vrchatVars,
       discordVars, linkVars
  <2> QED BY <2>1 DEF Episode, Starting, Linked, Quiet, VrchatSpeaks, DiscordSpeaks, SetUnderWay,
     ToggleUnderWay, NothingOut, Unexpired, Greeting, Seeded, Status, Voice, Inverse, MicLeads,
     VoiceLeads, EffectiveAuthority, DiscordCommand, VrChatCommand, KnownMute
<1> QED BY <1>1, <1>2, <1>3, <1>4, <1>5, <1>6 DEF NextLink

LEMMA InitEpisode ==
    ASSUME InitLink, Orderly, TypeOK, PeersOK
    PROVE  Steady /\ Unexpired /\ Episode
<1>1. Steady
  BY DEF InitLink, Orderly, Steady
<1>2. Starting
  BY DEF InitLink, Init, Starting, NothingOut
<1> QED BY <1>1, <1>2 DEF Episode, Unexpired, Starting

\* When people wait for the link between their actions, and nothing is late or lost,
\* both sides come to be as the last person to act asked, for any number of actions,
\* capacities and deadlines: no correction of the link's own is ever taken for a person's
\* action (design 11.6; set_discord_state, toggle_vrchat and the handlers of both reports).
THEOREM TheLastActionWins == LinkSpec /\ Orderly => []LastActionWins
<1>1. InitLink /\ Orderly => TypeOK /\ PeersOK /\ Steady /\ Unexpired /\ Episode
  BY InitType, InitPeers, InitEpisode DEF InitLink
<1>2. TypeOK /\ PeersOK /\ Steady /\ Unexpired /\ Episode /\ [NextLink]_systemVars
         => (TypeOK /\ PeersOK /\ Steady /\ Unexpired /\ Episode)'
  BY NextType, NextPeers, NextSteady, NextEpisode, StepOfCoordinator
<1>3. PeersOK /\ Steady /\ Episode => LastActionWins
  <2>1. Settled /\ PeersOK /\ Steady /\ Episode => Quiet
    BY SettledIsQuiet
  <2> QED BY <2>1 DEF Quiet, LastActionWins
<1> QED BY <1>1, <1>2, <1>3, PTL DEF LinkSpec

-----------------------------------------------------------------------------
(* And the link's corrections come to an end.                                *)

Wrong == IF voice = Inverse(mic) THEN 0 ELSE 8

ToSend == IF outbox # None THEN 1 ELSE IF vrchat_tx = <<>> /\ discord_tx = <<>> THEN 2 ELSE 0

\* How much the link has still to do: correct a side that is not opposite to the other,
\* send the command for that, and hear what has been said.
Remaining == Wrong + ToSend + Len(vrchat_rx) + Len(discord_rx)

PersonActs == VrchatUserActs \/ VrchatAvatarChanges \/ DiscordUserActs \/ UserControls

LEMMA RemainingKnown ==
    ASSUME PeersOK, Told
    PROVE  /\ Wrong \in {0, 8} /\ ToSend \in {0, 1, 2}
           /\ Len(vrchat_rx) \in Nat /\ Len(discord_rx) \in Nat
BY DEF Wrong, ToSend, PeersOK, Told, VrchatTold

LEMMA AddedUp ==
    ASSUME NEW a \in {0, 8}, NEW b \in {0, 1, 2}, NEW c \in {0, 1, 2},
           NEW d \in {0, 1, 2, 3}, c \in {0, 1} \/ d \in {0, 1}
    PROVE  a + b + c + d \in 0 .. 14
OBVIOUS

LEMMA LessRemains ==
    ASSUME NEW a \in Nat, NEW b \in Nat, NEW bb \in Nat, bb <= b,
           NEW c \in Nat, NEW cc \in Nat, NEW d \in Nat, NEW dd \in Nat, cc + dd = c + d - 1
    PROVE  a + bb + cc + dd < a + b + c + d
OBVIOUS

\* There is never much to do.
LEMMA RemainingBounded ==
    ASSUME PeersOK, Told, Episode
    PROVE  Remaining \in 0 .. 14
<1>1. Len(<<>>) = 0 /\ \A x : Len(<<x>>) = 1
  OBVIOUS
<1>2. \A x, y : Len(<<x, y>>) = 2
  OBVIOUS
<1>3. \A x, y, z : Len(<<x, y, z>>) = 3
  OBVIOUS
<1>4. discord_rx \in Greeting => Len(discord_rx) \in {0, 1}
  BY <1>1 DEF Greeting
<1>5. Wrong \in {0, 8} /\ ToSend \in {0, 1, 2}
  BY RemainingKnown
<1>6. CASE Starting
  <2>1. Len(vrchat_rx) \in {0, 1, 2} /\ Len(vrchat_rx) \in {0, 1}
    BY <1>1, <1>6 DEF Starting
  <2>2. Len(discord_rx) \in {0, 1, 2, 3}
    BY <1>2, <1>3, <1>4, <1>6 DEF Starting, Seeded
  <2> QED BY <2>1, <2>2, <1>5, AddedUp DEF Remaining
<1>7. CASE Linked
  <2>1. CASE DiscordSpeaks
    <3>1. Len(vrchat_rx) \in {0, 1, 2} /\ Len(discord_rx) \in {0, 1, 2, 3}
          /\ Len(vrchat_rx) \in {0, 1}
      BY <1>1, <1>2, <1>3, <2>1 DEF DiscordSpeaks
    <3> QED BY <3>1, <1>5, AddedUp DEF Remaining
  <2>2. CASE ~DiscordSpeaks
    <3>1. Len(vrchat_rx) \in {0, 1, 2} /\ Len(discord_rx) \in {0, 1, 2, 3}
          /\ Len(discord_rx) \in {0, 1}
      BY <1>1, <1>2, <1>4, <1>7, <2>2
         DEF Linked, Quiet, VrchatSpeaks, SetUnderWay, ToggleUnderWay
    <3> QED BY <3>1, <1>5, AddedUp DEF Remaining
  <2> QED BY <2>1, <2>2
<1> QED BY <1>6, <1>7 DEF Episode

LEMMA HeardIsGone ==
    ASSUME NEW S, NEW seq \in Seq(S), seq # <<>>
    PROVE  Len(Tail(seq)) = Len(seq) - 1 /\ Len(Tail(seq)) \in Nat
OBVIOUS

\* What is heard need not be heard again; a command that it calls for was to be sent.
LEMMA HearingEnds ==
    ASSUME PeersOK, Told, Episode', ReceiveFromVrchat \/ ReceiveFromDiscord
    PROVE  Remaining' < Remaining
<1>1. /\ outbox = None /\ UNCHANGED <<mic, voice, vrchat_tx, discord_tx>>
  BY DEF ReceiveFromVrchat, ReceiveFromDiscord, HandleVrChatMuteSelf, HandleVrChatAvatarChanged,
     HandleVrChatConnectionChanged, HandleDiscordVoiceSettingsUpdate,
     HandleDiscordConnectionChanged, Ready, channelVars
<1>2. Wrong' = Wrong
  BY <1>1 DEF Wrong, Inverse
<1>5. ToSend' \in {0, 1, 2} /\ ToSend' <= ToSend
  <2>1. CASE outbox' = None
    BY <1>1, <2>1 DEF ToSend
  <2>2. CASE outbox' # None
    <3>1. ToSend' = 1
      BY <2>2 DEF ToSend
    <3>4. ~NothingOut'
      BY <2>2 DEF NothingOut
    <3>2. Linked' /\ (SetUnderWay' \/ ToggleUnderWay')
      BY <3>4 DEF Episode, Starting, Linked, Quiet, VrchatSpeaks, DiscordSpeaks
    <3>3. vrchat_tx' = <<>> /\ discord_tx' = <<>>
      BY <2>2, <3>2 DEF SetUnderWay, ToggleUnderWay
    <3> QED BY <1>1, <3>1, <3>3 DEF ToSend
  <2> QED BY <2>1, <2>2
<1>3. vrchat_rx \in Seq(VrchatReport) /\ discord_rx \in Seq(DiscordReport)
  BY DEF Told, VrchatTold, PeersOK
<1>4. Len(vrchat_rx') + Len(discord_rx') = Len(vrchat_rx) + Len(discord_rx) - 1
      /\ Len(vrchat_rx') \in Nat /\ Len(discord_rx') \in Nat
  <2>1. CASE ReceiveFromVrchat
    <3>1. vrchat_rx # <<>> /\ vrchat_rx' = Tail(vrchat_rx) /\ discord_rx' = discord_rx
      BY <2>1 DEF ReceiveFromVrchat
    <3> QED BY <1>3, <3>1, HeardIsGone, RemainingKnown
  <2>2. CASE ReceiveFromDiscord
    <3>1. discord_rx # <<>> /\ discord_rx' = Tail(discord_rx) /\ vrchat_rx' = vrchat_rx
      BY <2>2 DEF ReceiveFromDiscord
    <3> QED BY <1>3, <3>1, HeardIsGone, RemainingKnown
  <2> QED BY <2>1, <2>2
<1>6. Wrong \in Nat /\ ToSend \in Nat /\ ToSend' \in Nat
      /\ Len(vrchat_rx) \in Nat /\ Len(discord_rx) \in Nat
  BY <1>5, RemainingKnown
<1>7. Wrong + ToSend' + Len(vrchat_rx') + Len(discord_rx')
         < Wrong + ToSend + Len(vrchat_rx) + Len(discord_rx)
  BY <1>4, <1>5, <1>6, LessRemains
<1> QED BY <1>2, <1>7 DEF Remaining

\* A command is sent once, and it puts its side right.
LEMMA SendingEnds ==
    ASSUME TypeOK, PeersOK, Told, Send
    PROVE  Remaining' < Remaining
<1>1. /\ outbox # None /\ outbox' = None /\ UNCHANGED <<mic, voice, vrchat_rx, discord_rx>>
      /\ vrchat_tx' # <<>> \/ discord_tx' # <<>>
  <2>1. \/ vrchat_tx' = Append(vrchat_tx, outbox) /\ outbox \in VrChatCommand
        \/ discord_tx' = Append(discord_tx, outbox) /\ outbox \in DiscordCommand
    BY DEF Send, CompleteSend, TypeOK, VrChatCommand, DiscordCommand
  <2>2. vrchat_tx' # <<>> \/ discord_tx' # <<>>
    BY <2>1 DEF TypeOK
  <2> QED BY <2>2 DEF Send, CompleteSend, peerVars
<1>2. Wrong' = Wrong /\ ToSend = 1 /\ ToSend' = 0
  BY <1>1 DEF Wrong, ToSend, Inverse
<1> QED BY <1>1, <1>2, RemainingKnown DEF Remaining

LEMMA CarryingOutEnds ==
    ASSUME TypeOK, PeersOK, Told, PeersOK', Told', Steady, Unexpired, Episode,
           VrchatToggles \/ DiscordSets
    PROVE  Remaining' < Remaining
<1>1. CASE VrchatToggles
  <2>1. /\ vrchat_tx # <<>> /\ mic' = Inverse(mic) /\ UNCHANGED <<voice, discord_rx, outbox>>
    BY <1>1 DEF VrchatToggles, VrChatSenderTakes, sendVars
  <2>2. ToggleUnderWay /\ outbox = None
    BY <2>1 DEF Episode, Starting, Linked, Quiet, VrchatSpeaks, DiscordSpeaks, SetUnderWay,
       ToggleUnderWay, NothingOut
  <2>3. Len(vrchat_rx) = 0 /\ Len(vrchat_rx') = 1
    <3>1. vrchat_rx = <<>> /\ vrchat_rx' = <<>> \o <<mic'>> \o <<>>
      BY <1>1, <2>2 DEF VrchatToggles, ToggleUnderWay, Steady
    <3> QED BY <3>1
  <2>4. Wrong = 8 /\ Wrong' = 0
    BY <2>1, <2>2, TwiceInverse DEF ToggleUnderWay, Wrong, PeersOK
  <2>5. ToSend = 0 /\ ToSend' \in {0, 1, 2}
    BY <2>1, <2>2, RemainingKnown DEF ToSend
  <2> QED BY <2>1, <2>3, <2>4, <2>5, RemainingKnown DEF Remaining
<1>2. CASE DiscordSets
  <2>1. /\ discord_tx # <<>> /\ voice' = Head(discord_tx).target
        /\ UNCHANGED <<mic, vrchat_rx, outbox>>
    BY <1>2 DEF DiscordSets, DiscordSessionTakes, sendVars
  <2>2. SetUnderWay /\ outbox = None /\ voice' = Inverse(mic')
    BY <2>1 DEF Episode, Starting, Linked, Quiet, VrchatSpeaks, DiscordSpeaks, SetUnderWay,
       ToggleUnderWay, NothingOut
  <2>3. Len(discord_rx') \in {Len(discord_rx) + 1, Len(discord_rx) + 2}
    <3>1. PICK n \in {1} \union world.echoes :
             discord_rx' = discord_rx \o [i \in 1 .. n |-> Voice(voice')]
      BY <1>2 DEF DiscordSets
    <3>2. n \in {1, 2}
      BY <3>1, LinkAssumption DEF PeersOK, World
    <3>3. Voice(voice') \in DiscordReport
      BY Reports DEF PeersOK
    <3>4. /\ [i \in 1 .. n |-> Voice(voice')] \in Seq(DiscordReport)
          /\ Len([i \in 1 .. n |-> Voice(voice')]) = n
      BY <3>2, <3>3
    <3> QED BY <3>1, <3>2, <3>4, Joined DEF PeersOK
  <2>4. Wrong = 8 /\ Wrong' = 0
    BY <2>1, <2>2, TwiceInverse DEF SetUnderWay, Wrong, Steady
  <2>5. ToSend = 0 /\ ToSend' \in {0, 1, 2}
    BY <2>1, <2>2, RemainingKnown DEF ToSend
  <2> QED BY <2>1, <2>3, <2>4, <2>5, RemainingKnown DEF Remaining
<1> QED BY <1>1, <1>2

\* Between two actions of people who wait for it the link takes at most fourteen steps,
\* each of which leaves less to do: no endless inversion (design 11.1), for any
\* capacities, deadlines and numbers of actions.
THEOREM CorrectionsEnd ==
    LinkSpec /\ Orderly => /\ [](Remaining \in 0 .. 14)
                           /\ [][PersonActs \/ Remaining' < Remaining]_systemVars
<1> DEFINE Inv == TypeOK /\ PeersOK /\ Told /\ Steady /\ Unexpired /\ Episode
<1>1. InitLink /\ Orderly => Inv
  BY InitType, InitPeers, InitTold, InitEpisode DEF InitLink
<1>2. Inv /\ [NextLink]_systemVars => Inv'
  BY NextType, NextPeers, NextTold, NextSteady, NextEpisode, StepOfCoordinator
<1>3. Inv => Remaining \in 0 .. 14
  BY RemainingBounded
<1>4. Inv /\ Inv' /\ [NextLink]_systemVars
         => [PersonActs \/ Remaining' < Remaining]_systemVars
  <2> SUFFICES ASSUME Inv, Inv', NextLink PROVE PersonActs \/ Remaining' < Remaining
    OBVIOUS
  <2>1. CASE PersonActs
    BY <2>1
  <2>2. CASE ReceiveFromVrchat \/ ReceiveFromDiscord
    BY <2>2, HearingEnds
  <2>3. CASE Send
    BY <2>3, SendingEnds
  <2>4. CASE VrchatToggles \/ DiscordSets
    BY <2>4, CarryingOutEnds
  <2>5. ~Timeout
    BY DEF Timeout, HandlePendingTimeout, TimerDue, Expired, Unexpired
  <2>6. ~Pass /\ ~VrchatMissesToggle /\ ~DiscordSessionBreaks /\ ~DiscordSessionRestored
    BY DEF Pass, VrchatMissesToggle, DiscordSessionBreaks, DiscordSessionRestored, Steady
  <2> QED BY <2>1, <2>2, <2>3, <2>4, <2>5, <2>6 DEF NextLink, PersonActs
<1> QED BY <1>1, <1>2, <1>3, <1>4, PTL DEF LinkSpec

=============================================================================
