---------------------------- MODULE DiscordSession ----------------------------
(***************************************************************************)
(* The Discord session: discord_supervisor, which connects for ever        *)
(* (crates/voxshift-app/src/worker.rs), the RPC client it runs             *)
(* (crates/voxshift-discord/src/client.rs), and authorize_now as far as it *)
(* talks on the pipe (auth.rs; the tokens are TokenRefresh's).             *)
(*                                                                         *)
(* The client shares two bounded channels with the coordinator, and one    *)
(* task reads the pipe, writes it and waits for room in the event channel. *)
(* The coordinator is kept to what it needs the session for: a belief, and *)
(* commands that contradict it (Coordinator.tla has the rest).             *)
(***************************************************************************)
EXTENDS Sequences, Integers

CONSTANTS
    None,
    EVENT_CAPACITY, \* of the event channel; 64
    CMD_CAPACITY,   \* of the Discord command channel; 16
    Worlds          \* the surroundings a run starts in

\* authorized: whether a token set is stored that Discord accepts; declines: whether
\* an authorization may fail; and how often the voice changes in Discord, VRChat
\* reports something, the coordinator issues a command, the user presses Authorize,
\* and Discord stops.
World == [ authorized : BOOLEAN, declines : BOOLEAN, changes : Nat, reports : Nat,
           sets : Nat, presses : Nat, stops : Nat ]

Kinds == {"changes", "reports", "sets", "presses", "stops"}

ASSUME SessionAssumption ==
    /\ EVENT_CAPACITY \in Nat \ {0} /\ CMD_CAPACITY \in Nat \ {0}
    /\ Worlds \subseteq World
    /\ None \notin Nat

VARIABLES
    world,          \* one of Worlds
    left,           \* what is left of the bounds in it
    up, pipe,       \* whether Discord runs, and the connection to it
    to_discord, to_client,      \* the two directions of the pipe
    version,        \* Discord's voice: the number of its state, odd when muted
    authed, subscribed, dialog, \* Discord's side of the connection
    stored,         \* whether a token set is stored
    client,         \* where the supervisor and the client are
    todo, asked,    \* setup requests left, and whether the first awaits its reply
    saying,         \* events the client is sending, one after the other
    events, commands, requests, \* the three channels
    heard, latest,  \* what the coordinator believes of Discord, and ever heard
    sending         \* the command it is waiting to send, or None

channelVars == <<events, commands, requests>>
discordVars == <<up, pipe, to_discord, to_client, version, authed, subscribed, dialog>>
clientVars  == <<stored, client, todo, asked, saying>>
coordVars   == <<heard, latest, sending>>
vars == <<world, left, discordVars, clientVars, channelVars, coordVars>>

\* What is written to the pipe and what comes back.
Ask(cmd)            == [cmd |-> cmd, mute |-> 0]
SetVoice(mute)      == [cmd |-> "SET_VOICE_SETTINGS", mute |-> mute]
Reply(ok)           == [kind |-> "Reply", ok |-> ok, version |-> version]
SetReply(ok, value) == [kind |-> "SetReply", ok |-> ok, version |-> value]
Update(value)       == [kind |-> "VOICE_SETTINGS_UPDATE", ok |-> TRUE, version |-> value]

Frame == [kind : {"Reply", "SetReply", "VOICE_SETTINGS_UPDATE"}, ok : BOOLEAN, version : Nat]

Says(type)   == [type |-> type, version |-> 0]
Voice(value) == [type |-> "VoiceSettings", version |-> value]

Event == [type : {"Connecting", "Disconnected", "Connected", "Unavailable", "CommandAck",
                  "VRChat", "VoiceSettings"}, version : Nat]

SUBSCRIBED_EVENTS == << "VOICE_SETTINGS_UPDATE", "VOICE_CHANNEL_SELECT",
                        "VOICE_CONNECTION_STATUS" >>

Requests == {"HANDSHAKE", "AUTHENTICATE", "AUTHORIZE", "GET_VOICE_SETTINGS"}
               \union {SUBSCRIBED_EVENTS[i] : i \in 1 .. Len(SUBSCRIBED_EVENTS)}

GetFirst == <<"GET_VOICE_SETTINGS">> \o SUBSCRIBED_EVENTS

\* subscribe_and_seed_state, in its order.
SetupRequests == Append(SUBSCRIBED_EVENTS, "GET_VOICE_SETTINGS")

Phases == { "Sleeping", "Discovering", "Handshake", "Restoring", "Setup", "Running",
            "Authorizing", "Reseeding" }

TypeOK ==
    /\ world \in Worlds
    /\ left \in [Kinds -> Nat]
    /\ up \in BOOLEAN /\ pipe \in {"None", "Open", "Broken"}
    /\ to_client \in Seq(Frame) /\ version \in Nat
    /\ stored \in BOOLEAN /\ authed \in BOOLEAN /\ subscribed \in BOOLEAN /\ dialog \in BOOLEAN
    /\ client \in Phases /\ asked \in BOOLEAN /\ todo \in Seq(Requests)
    /\ saying \in Seq(Event) /\ events \in Seq(Event) /\ commands \in Seq({0, 1})
    /\ Len(events) <= EVENT_CAPACITY /\ Len(commands) <= CMD_CAPACITY
    /\ requests \in 0 .. 1
    /\ heard \in 0 .. latest \union {None} /\ latest \in 0 .. version
    /\ sending \in {0, 1, None}
    /\ asked => todo # <<>> /\ saying = <<>>
    /\ client \in {"Sleeping", "Discovering", "Running"} => todo = <<>>
    /\ client \in {"Sleeping", "Discovering"} <=> pipe = "None"

Init ==
    /\ world \in Worlds
    /\ left = [kind \in Kinds |-> world[kind]]
    /\ up = TRUE /\ pipe = "None" /\ to_discord = <<>> /\ to_client = <<>>
    /\ version = 0 /\ authed = FALSE /\ subscribed = FALSE /\ dialog = FALSE
    /\ stored = world.authorized
    /\ client = "Discovering" /\ todo = <<>> /\ asked = FALSE
    /\ saying = <<Says("Connecting")>>
    /\ events = <<>> /\ commands = <<>> /\ requests = 0
    /\ heard = None /\ latest = 0 /\ sending = None

RoomForEvent == Len(events) < EVENT_CAPACITY

Spend(kind) == left[kind] > 0 /\ left' = [left EXCEPT ![kind] = @ - 1]

-----------------------------------------------------------------------------
(* The supervisor and the client: one task, which does nothing else while  *)
(* it waits for room in the event channel.                                 *)

\* Goes on in this phase, with these requests to make and these events to send first.
GoesOn(phase, asks, says) ==
    /\ client' = phase /\ todo' = asks /\ asked' = FALSE /\ saying' = says

\* The connection is given up; Discord forgets its side.
HangsUp ==
    /\ pipe' = "None" /\ to_discord' = <<>> /\ to_client' = <<>>
    /\ authed' = FALSE /\ subscribed' = FALSE /\ dialog' = FALSE
    /\ UNCHANGED <<up, version>>

EndsQuietly == GoesOn("Sleeping", <<>>, <<>>) /\ HangsUp

\* run() or handshake() has returned an error.
SessionEnds == GoesOn("Sleeping", <<>>, <<Says("Disconnected")>>) /\ HangsUp

ClientSays ==
    /\ saying # <<>>
    /\ RoomForEvent
    /\ events' = Append(events, Head(saying))
    /\ saying' = Tail(saying)
    /\ UNCHANGED <<world, left, discordVars, stored, client, todo, asked, commands, requests,
                   coordVars>>

\* The backoff has passed.
SupervisorWakes ==
    /\ client = "Sleeping" /\ saying = <<>>
    /\ GoesOn("Discovering", <<>>, <<Says("Connecting")>>)
    /\ UNCHANGED <<world, left, stored, discordVars, channelVars, coordVars>>

\* discover_and_connect.
SupervisorConnects ==
    /\ client = "Discovering" /\ saying = <<>>
    /\ \/ /\ up
          /\ pipe' = "Open"
          /\ GoesOn("Handshake", <<"HANDSHAKE">>, <<>>)
          /\ UNCHANGED <<up, to_discord, to_client, version, authed, subscribed, dialog>>
       \/ /\ ~up
          /\ SessionEnds
    /\ UNCHANGED <<world, left, stored, channelVars, coordVars>>

\* A request of the setup cannot be written, or the pipe ends before its reply.
RequestFails ==
    CASE client = "Authorizing" -> GoesOn("Running", <<>>, <<Says("Unavailable")>>)
                                   /\ UNCHANGED <<discordVars, stored>>
      [] client = "Restoring"   -> GoesOn("Setup", SetupRequests, <<>>)
                                   /\ UNCHANGED <<discordVars, stored>>
      [] OTHER                  -> SessionEnds /\ UNCHANGED stored

\* send_command writes; nothing is read before.
ClientAsks ==
    /\ todo # <<>> /\ ~asked /\ saying = <<>>
    /\ \/ /\ pipe = "Open"
          /\ to_discord' = Append(to_discord, Ask(Head(todo)))
          /\ asked' = TRUE
          /\ UNCHANGED <<up, pipe, to_client, version, authed, subscribed, dialog,
                         client, todo, saying, stored>>
       \/ pipe = "Broken" /\ RequestFails
    /\ UNCHANGED <<world, left, channelVars, coordVars>>

\* ... and reads on until the reply, whatever comes before it.
UnrelatedError(frame) == frame.kind # "Reply" /\ ~frame.ok

Unrelated(frame) == frame.kind # "Reply"

ClientDropsFrame ==
    /\ asked /\ to_client # <<>>
    /\ Unrelated(Head(to_client))
    /\ to_client' = Tail(to_client)
    /\ UNCHANGED <<world, left, up, pipe, to_discord, version, authed, subscribed, dialog,
                   clientVars, channelVars, coordVars>>

\* What the reply to a request of the setup makes the client say.
SaysOf(request, reply) ==
    IF ~reply.ok THEN <<Says("Unavailable")>>
    ELSE IF request = "GET_VOICE_SETTINGS" THEN <<Voice(reply.version)>> ELSE <<>>

\* subscribe_and_seed_state goes on to the next request, and ends after the last.
SetupGoesOn(reply) ==
    GoesOn(IF Len(todo) > 1 THEN client ELSE "Running",
           Tail(todo),
           SaysOf(Head(todo), reply)
              \o IF Len(todo) = 1 /\ client = "Setup" THEN <<Says("Connected")>> ELSE <<>>)

\* authorize_now: AUTHORIZE, the exchange of the code, AUTHENTICATE, save.
AuthorizationGoesOn(reply) ==
    \/ /\ reply.ok /\ Head(todo) = "AUTHORIZE"
       /\ GoesOn("Authorizing", <<"AUTHENTICATE">>, <<>>)
       /\ UNCHANGED stored
    \/ /\ reply.ok /\ Head(todo) = "AUTHENTICATE"
       /\ GoesOn("Reseeding", SetupRequests, <<>>)
       /\ stored' = TRUE
    \/ /\ ~reply.ok \/ (world.declines /\ Head(todo) = "AUTHENTICATE")
       /\ GoesOn("Running", <<>>, <<Says("Unavailable")>>)
       /\ UNCHANGED stored

ClientIsAnswered ==
    /\ asked /\ to_client # <<>>
    /\ Head(to_client).kind = "Reply"
    /\ LET reply == Head(to_client) IN
          CASE client = "Handshake" ->
                 /\ IF stored THEN GoesOn("Restoring", <<"AUTHENTICATE">>, <<>>)
                              ELSE GoesOn("Setup", SetupRequests, <<>>)
                 /\ UNCHANGED stored
            [] client = "Restoring" -> GoesOn("Setup", SetupRequests, <<>>) /\ UNCHANGED stored
            [] client = "Authorizing" -> AuthorizationGoesOn(reply)
            [] OTHER -> SetupGoesOn(reply) /\ UNCHANGED stored
    /\ to_client' = Tail(to_client)
    /\ UNCHANGED <<world, left, up, pipe, to_discord, version, authed, subscribed, dialog,
                   channelVars, coordVars>>

ClientReadsEnd ==
    /\ asked /\ to_client = <<>> /\ pipe = "Broken"
    /\ RequestFails
    /\ UNCHANGED <<world, left, channelVars, coordVars>>

\* The token endpoint does not exchange the code.
ExchangeFails ==
    /\ world.declines
    /\ client = "Authorizing" /\ ~asked /\ todo = <<"AUTHENTICATE">>
    /\ GoesOn("Running", <<>>, <<Says("Unavailable")>>)
    /\ UNCHANGED <<world, left, stored, discordVars, channelVars, coordVars>>

-----------------------------------------------------------------------------
(* run()'s select!.                                                        *)

SelectsOnceAuthenticated == client = "Running" /\ saying = <<>> /\ authed

Selects == client = "Running" /\ saying = <<>>

\* handle_incoming_frame.
RunHandlesFrame ==
    /\ Selects /\ to_client # <<>>
    /\ saying' = IF Head(to_client).ok THEN <<Voice(Head(to_client).version)>>
                 ELSE <<Says("CommandAck")>>
    /\ to_client' = Tail(to_client)
    /\ UNCHANGED <<world, left, up, pipe, to_discord, version, authed, subscribed, dialog,
                   client, todo, asked, stored, channelVars, coordVars>>

TellsAtOnce(mute) == <<Voice(version + 1)>>

\* What is said of a command when it is written: nothing, its reply will tell.
SaidOnWriting(mute) == <<>>

\* handle_discord_command; a command that cannot be written is lost.
RunTakesCommand ==
    /\ Selects /\ commands # <<>>
    /\ commands' = Tail(commands)
    /\ \/ /\ pipe = "Open"
          /\ to_discord' = Append(to_discord, SetVoice(Head(commands)))
          /\ saying' = SaidOnWriting(Head(commands))
          /\ UNCHANGED <<up, pipe, to_client, version, authed, subscribed, dialog,
                         client, todo, asked>>
       \/ pipe = "Broken" /\ SessionEnds
    /\ UNCHANGED <<world, left, stored, events, requests, coordVars>>

RunTakesRequest ==
    /\ Selects /\ requests = 1
    /\ requests' = 0
    /\ GoesOn("Authorizing", <<"AUTHORIZE">>, <<>>)
    /\ UNCHANGED <<world, left, stored, discordVars, events, commands, coordVars>>

RunReadsEnd ==
    /\ Selects /\ to_client = <<>> /\ pipe = "Broken"
    /\ SessionEnds
    /\ UNCHANGED <<world, left, stored, channelVars, coordVars>>

-----------------------------------------------------------------------------
(* Discord.                                                                *)

\* What this request may be answered with.
Outcomes(request) ==
    IF request = "HANDSHAKE" THEN {TRUE}
    ELSE IF request = "AUTHENTICATE" THEN {TRUE} \union (IF world.declines THEN {FALSE} ELSE {})
    ELSE {authed}

DiscordAnswers ==
    /\ pipe = "Open" /\ to_discord # <<>> /\ ~dialog
    /\ Head(to_discord).cmd \notin {"AUTHORIZE", "SET_VOICE_SETTINGS"}
    /\ to_discord' = Tail(to_discord)
    /\ \E ok \in Outcomes(Head(to_discord).cmd) :
          /\ to_client' = Append(to_client, Reply(ok))
          /\ authed' = IF Head(to_discord).cmd = "AUTHENTICATE" THEN ok ELSE authed
          /\ subscribed' = (subscribed \/ (ok /\ Head(to_discord).cmd = "VOICE_SETTINGS_UPDATE"))
    /\ UNCHANGED <<world, left, up, pipe, version, dialog, clientVars, channelVars, coordVars>>

\* A change is answered and notified.
DiscordSets ==
    /\ pipe = "Open" /\ to_discord # <<>>
    /\ Head(to_discord).cmd = "SET_VOICE_SETTINGS"
    /\ to_discord' = Tail(to_discord)
    /\ IF authed
       THEN /\ version' = IF Head(to_discord).mute = version % 2 THEN version ELSE version + 1
            /\ to_client' = to_client \o <<SetReply(TRUE, version')>>
                   \o IF subscribed /\ version' # version THEN <<Update(version')>> ELSE <<>>
       ELSE /\ to_client' = Append(to_client, SetReply(FALSE, 0))
            /\ UNCHANGED version
    /\ UNCHANGED <<world, left, up, pipe, authed, subscribed, dialog, clientVars, channelVars,
                   coordVars>>

DiscordAsksUser ==
    /\ pipe = "Open" /\ to_discord # <<>>
    /\ Head(to_discord).cmd = "AUTHORIZE"
    /\ to_discord' = Tail(to_discord)
    /\ dialog' = TRUE
    /\ UNCHANGED <<world, left, up, pipe, to_client, version, authed, subscribed, clientVars,
                   channelVars, coordVars>>

\* The user consents or declines; nothing makes them.
UserAnswers ==
    /\ dialog /\ dialog' = FALSE
    /\ \E ok \in {TRUE} \union (IF world.declines THEN {FALSE} ELSE {}) :
          to_client' = Append(to_client, Reply(ok))
    /\ UNCHANGED <<world, left, up, pipe, to_discord, version, authed, subscribed, clientVars,
                   channelVars, coordVars>>

UserChangesVoice ==
    /\ Spend("changes")
    /\ version' = version + 1
    /\ to_client' = IF subscribed THEN Append(to_client, Update(version')) ELSE to_client
    /\ UNCHANGED <<world, up, pipe, to_discord, authed, subscribed, dialog, clientVars,
                   channelVars, coordVars>>

\* Discord exits: what it has not read is lost, and the last of what it wrote.
DiscordStops ==
    /\ up /\ Spend("stops")
    /\ up' = FALSE
    /\ pipe' = IF pipe = "Open" THEN "Broken" ELSE pipe
    /\ to_discord' = <<>>
    /\ \E k \in 0 .. Len(to_client) : to_client' = SubSeq(to_client, 1, k)
    /\ authed' = FALSE /\ subscribed' = FALSE /\ dialog' = FALSE
    /\ UNCHANGED <<world, version, clientVars, channelVars, coordVars>>

DiscordStarts ==
    /\ ~up /\ up' = TRUE
    /\ UNCHANGED <<world, left, pipe, to_discord, to_client, version, authed, subscribed, dialog,
                   clientVars, channelVars, coordVars>>

-----------------------------------------------------------------------------
(* The other ends of the channels.                                         *)

LosesDiscord(type) == type \in {"Connecting", "Disconnected"}

\* The coordinator handles an event, and may decide on a command against its belief.
CoordinatorHears ==
    /\ sending = None /\ events # <<>>
    /\ events' = Tail(events)
    /\ LET event == Head(events) IN
          /\ heard' = IF event.type = "VoiceSettings" THEN event.version
                      ELSE IF LosesDiscord(event.type) THEN None ELSE heard
          /\ latest' = IF event.type = "VoiceSettings" THEN event.version ELSE latest
          /\ \/ UNCHANGED <<left, sending>>
             \/ /\ heard' # None /\ event.type \in {"VoiceSettings", "Connected", "VRChat"}
                /\ Spend("sets")
                /\ sending' = 1 - (heard' % 2)
    /\ UNCHANGED <<world, discordVars, clientVars, commands, requests>>

\* It waits for room, and handles nothing else meanwhile.
CoordinatorSends ==
    /\ sending # None
    /\ Len(commands) < CMD_CAPACITY
    /\ commands' = Append(commands, sending)
    /\ sending' = None
    /\ UNCHANGED <<world, left, discordVars, clientVars, events, requests, heard, latest>>

VRChatReports ==
    /\ RoomForEvent
    /\ Spend("reports")
    /\ events' = Append(events, Says("VRChat"))
    /\ UNCHANGED <<world, discordVars, clientVars, commands, requests, coordVars>>

\* on_reauthorize_discord: try_send into a channel of one.
AuthorizePressed ==
    /\ Spend("presses")
    /\ requests' = 1
    /\ UNCHANGED <<world, discordVars, clientVars, events, commands, coordVars>>

Client == \/ ClientSays \/ SupervisorWakes \/ SupervisorConnects
          \/ ClientAsks \/ ClientDropsFrame \/ ClientIsAnswered \/ ClientReadsEnd
          \/ RunHandlesFrame \/ RunTakesCommand \/ RunTakesRequest \/ RunReadsEnd

Discord == DiscordAnswers \/ DiscordSets \/ DiscordAsksUser

Coordinator == CoordinatorHears \/ CoordinatorSends

People == UserAnswers \/ UserChangesVoice \/ VRChatReports \/ AuthorizePressed

Next == Client \/ ExchangeFails \/ Discord \/ DiscordStops \/ DiscordStarts
        \/ Coordinator \/ People

\* The worker's tasks run, Discord answers what it reads and is started again; nobody
\* has to press a button, nor to answer the dialog.
Fairness == /\ WF_vars(Client) /\ WF_vars(Coordinator)
            /\ WF_vars(Discord) /\ WF_vars(DiscordStarts)

Spec     == Init /\ [][Next]_vars
FairSpec == Spec /\ Fairness

-----------------------------------------------------------------------------
\* Nothing is on its way between Discord and the coordinator.
Quiet == to_discord = <<>> /\ to_client = <<>> /\ saying = <<>> /\ events = <<>>

\* Once run()'s loop is active, nothing that Discord says is silently dropped
\* (client.rs:117): when all is quiet in a session that is subscribed, the coordinator
\* knows the state Discord is in.
NothingDropped == client = "Running" /\ subscribed /\ Quiet => heard = version

\* That is so as long as no authorization fails: neither the frames dropped by
\* send_command, nor changes between the subscription and the seed, nor commands whose
\* replies cross them leave the coordinator with an outdated belief.
BeliefCurrent == ~world.declines => NothingDropped

\* A belief does not outlive its session: with no session and nothing on its way the
\* coordinator knows that it does not know.
ForgottenWithoutSession ==
    client = "Sleeping" /\ saying = <<>> /\ events = <<>> => heard = None

\* The session implements the feed: the coordinator never hears of an older state
\* than it has heard of, in this session or one before, nor of one that never was.
Feed == INSTANCE StateFeed WITH
           version <- version, heard <- heard, latest <- latest, None <- None
ImplementsFeed == Feed!FeedSpec

\* A dialog that nobody answers keeps the client for itself.
Kept == client = "Authorizing" /\ dialog

\* The coordinator waits for the client to take a command and the client for the
\* coordinator to take an event.
CircularWait == /\ sending # None /\ Len(commands) = CMD_CAPACITY
                /\ saying # <<>> /\ Len(events) = EVENT_CAPACITY

\* However sessions break, there is always one again, unless an open dialog or the
\* circular wait holds the client up.
SessionComesBack == []<>(client = "Running" \/ Kept \/ CircularWait)

\* Nothing else makes the coordinator wait for ever with a command, and its events
\* with it.
CoordinatorGoesOn == sending # None ~> sending = None \/ Kept \/ CircularWait

\* A press of Authorize is taken up, in this session or the next, with no other
\* exceptions.
RequestServed == requests = 1 ~> requests = 0 \/ Kept \/ CircularWait
=============================================================================
