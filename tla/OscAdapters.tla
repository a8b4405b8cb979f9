------------------------------ MODULE OscAdapters ------------------------------
(***************************************************************************)
(* The two VRChat adapters: the sender, which presses and releases         *)
(* /input/Voice for a toggle (crates/voxshift-vrchat/src/osc_sender.rs),   *)
(* and the receiver, which unpacks what VRChat reports (osc_receiver.rs).  *)
(*                                                                         *)
(* Datagrams may be lost, or refused when they are sent; the socket holds  *)
(* so many that were not received yet.  Both adapters share the bounded    *)
(* event channel; the coordinator is kept to hearing MuteSelf and issuing  *)
(* toggles (Coordinator.tla has the rest).                                 *)
(***************************************************************************)
EXTENDS Sequences, Integers

CONSTANTS
    None,
    EVENT_CAPACITY, \* of the event channel; 64
    CMD_CAPACITY,   \* of the VRChat command channel; 16
    SOCKET_CAPACITY,    \* datagrams the system keeps for the receiver
    Worlds          \* the surroundings a run starts in

Kinds == {"toggles", "changes", "avatars", "losses", "restarts"}

\* sender, receiver: whether the sockets could be opened; and how often the coordinator
\* issues a toggle, the user changes the microphone or the avatar, a datagram is lost
\* or refused, and the program is started again.
World == [ sender : BOOLEAN, receiver : BOOLEAN, bounds : [Kinds -> Nat] ]

ASSUME OscAssumption ==
    /\ EVENT_CAPACITY \in Nat \ {0} /\ CMD_CAPACITY \in Nat \ {0}
    /\ SOCKET_CAPACITY \in Nat \ {0}
    /\ Worlds \subseteq World
    /\ None \notin Nat

VARIABLES
    world, left,    \* one of Worlds, and what is left of its bounds
    to_vrchat,      \* values of /input/Voice on their way
    held,           \* whether VRChat takes the button for pressed
    version,        \* VRChat's microphone: the number of its state
    to_us,          \* datagrams in the receiver's socket, each known by the messages
                    \* it holds, in their order, however deep in bundles
    unpacked,       \* messages of the one the receiver has in hand
    sender,         \* where run_command_loop is
    commands,       \* the number of toggles in the VRChat command channel
    sending,        \* whether the coordinator waits for room in it
    events,         \* the event channel
    heard, latest,  \* what the coordinator believes of VRChat, and ever heard
    taken, inverted, lost,  \* toggles begun, those VRChat has followed, and datagrams
                            \* of them that have not arrived
    missed          \* the last datagram of VRChat's has not been received

vrchatVars == <<to_vrchat, held, version>>
coordVars  == <<commands, sending, events, heard, latest>>
tallyVars  == <<taken, inverted, lost, missed>>
vars == <<world, left, vrchatVars, to_us, unpacked, sender, coordVars, tallyVars>>

\* Messages of a datagram, and events.
MuteSelf(value) == [type |-> "MuteSelf", version |-> value]
AvatarChange    == [type |-> "AvatarChange", version |-> 0]
OtherParameter  == [type |-> "Other", version |-> 0]
Degraded        == [type |-> "Degraded", version |-> 0]

Message == [type : {"MuteSelf", "AvatarChange", "Other"}, version : Nat]
Event   == [type : {"MuteSelf", "AvatarChange", "Degraded"}, version : Nat]

TypeOK ==
    /\ world \in Worlds /\ left \in [Kinds -> Nat]
    /\ to_vrchat \in Seq({0, 1}) /\ held \in BOOLEAN /\ version \in Nat
    /\ to_us \in Seq(Seq(Message)) /\ Len(to_us) <= SOCKET_CAPACITY
    /\ unpacked \in Seq(Message)
    /\ sender \in {"Idle", "Holding", "Reporting"}
    /\ commands \in 0 .. CMD_CAPACITY /\ sending \in BOOLEAN
    /\ events \in Seq(Event) /\ Len(events) <= EVENT_CAPACITY
    /\ heard \in 0 .. latest \union {None} /\ latest \in 0 .. version
    /\ taken \in Nat /\ inverted \in Nat /\ lost \in Nat /\ missed \in BOOLEAN

Init ==
    /\ world \in Worlds /\ left = world.bounds
    /\ to_vrchat = <<>> /\ held = FALSE /\ version = 0
    /\ to_us = <<>> /\ unpacked = <<>> /\ sender = "Idle"
    /\ commands = 0 /\ sending = FALSE /\ events = <<>>
    /\ heard = None /\ latest = 0
    /\ taken = 0 /\ inverted = 0 /\ lost = 0 /\ missed = FALSE

Spends(kind) == left[kind] > 0 /\ left' = [left EXCEPT ![kind] = @ - 1]

RoomForEvent == Len(events) < EVENT_CAPACITY

-----------------------------------------------------------------------------
(* run_command_loop and send_toggle_voice.                                 *)

\* A datagram is sent, or sent and lost, or refused by the socket.
Sends(value)  == to_vrchat' = Append(to_vrchat, value) /\ UNCHANGED <<left, lost>>
Loses         == Spends("losses") /\ lost' = lost + 1 /\ UNCHANGED to_vrchat

SenderPresses ==
    /\ world.sender
    /\ sender = "Idle" /\ commands > 0
    /\ commands' = commands - 1 /\ taken' = taken + 1
    /\ \/ (Sends(1) \/ Loses) /\ sender' = "Holding"
       \/ Loses /\ sender' = "Reporting"
    /\ UNCHANGED <<world, held, version, to_us, unpacked, sending, events, heard, latest,
                   inverted, missed>>

HeldOn == 1

ReleasedWith == 0

\* TOGGLE_HOLD has passed.
SenderReleases ==
    /\ sender = "Holding"
    /\ \/ (Sends(ReleasedWith) \/ Loses) /\ sender' = "Idle"
       \/ Loses /\ sender' = "Reporting"
    /\ UNCHANGED <<world, held, version, to_us, unpacked, coordVars, taken, inverted, missed>>

SenderReports ==
    /\ sender = "Reporting" /\ RoomForEvent
    /\ events' = Append(events, Degraded)
    /\ sender' = "Idle"
    /\ UNCHANGED <<world, left, vrchatVars, to_us, unpacked, commands, sending, heard, latest,
                   tallyVars>>

NobodyDrains == FALSE /\ UNCHANGED vars

\* drain_vrchat_commands, when there is no sender (worker.rs).
CommandDropped ==
    /\ ~world.sender
    /\ commands > 0 /\ commands' = commands - 1
    /\ taken' = taken + 1 /\ lost' = lost + 1
    /\ UNCHANGED <<world, left, vrchatVars, to_us, unpacked, sender, sending, events, heard,
                   latest, inverted, missed>>

-----------------------------------------------------------------------------
(* VRChat: the microphone is inverted when the button goes down.           *)

\* A datagram with these messages for the receiver; with no room, or no socket, it is
\* dropped unnoticed.
Reports(messages) ==
    IF world.receiver /\ Len(to_us) < SOCKET_CAPACITY
    THEN to_us' = Append(to_us, messages) /\ missed' = FALSE
    ELSE missed' = TRUE /\ UNCHANGED to_us

\* What changes is reported, by itself or in a bundle with other parameters, and with
\* what was so before.
ReportsMic ==
    \E bundle \in {<<MuteSelf(version')>>,
                   <<OtherParameter, MuteSelf(version), MuteSelf(version')>>} :
       Reports(bundle)

VRChatTakes ==
    /\ to_vrchat # <<>> /\ to_vrchat' = Tail(to_vrchat)
    /\ held' = (Head(to_vrchat) = 1)
    /\ IF held' /\ ~held
       THEN version' = version + 1 /\ inverted' = inverted + 1 /\ ReportsMic
       ELSE UNCHANGED <<version, inverted, to_us, missed>>
    /\ UNCHANGED <<world, left, unpacked, sender, coordVars, taken, lost>>

UserChangesMic ==
    /\ Spends("changes")
    /\ version' = version + 1 /\ ReportsMic
    /\ UNCHANGED <<world, to_vrchat, held, unpacked, sender, coordVars, taken, inverted, lost>>

UserChangesAvatar ==
    /\ Spends("avatars")
    /\ Reports(<<AvatarChange, MuteSelf(version)>>)
    /\ UNCHANGED <<world, vrchatVars, unpacked, sender, coordVars, taken, inverted, lost>>

-----------------------------------------------------------------------------
(* receive_loop: nothing is received while an event waits for room.        *)

MessagesFromTheEnd(packet) == [i \in 1 .. Len(packet) |-> packet[Len(packet) + 1 - i]]

FirstMessage(packet) == <<Head(packet)>>

\* What the loop goes through of a packet: all its messages, in their order.
Messages(packet) == packet

\* A packet that cannot be decoded, or an address other than loopback, has no messages.
ReceiverReceives ==
    /\ unpacked = <<>> /\ to_us # <<>>
    /\ to_us' = Tail(to_us)
    /\ unpacked' = Messages(Head(to_us))
    /\ UNCHANGED <<world, left, vrchatVars, sender, coordVars, tallyVars>>

\* interpret_message.
ReceiverForwards ==
    /\ unpacked # <<>>
    /\ IF Head(unpacked).type = "Other" THEN UNCHANGED events
       ELSE RoomForEvent /\ events' = Append(events, Head(unpacked))
    /\ unpacked' = Tail(unpacked)
    /\ UNCHANGED <<world, left, vrchatVars, to_us, sender, commands, sending, heard, latest,
                   tallyVars>>

-----------------------------------------------------------------------------
(* The coordinator, and the program as a whole.                            *)

\* It handles an event, and may decide on a toggle.
CoordinatorHears ==
    /\ ~sending /\ events # <<>>
    /\ events' = Tail(events)
    /\ LET event == Head(events) IN
          /\ heard' = CASE event.type = "MuteSelf"     -> event.version
                        [] event.type = "AvatarChange" -> None
                        [] event.type = "Degraded"     -> heard
          /\ latest' = IF event.type = "MuteSelf" THEN event.version ELSE latest
    /\ UNCHANGED <<world, left, vrchatVars, to_us, unpacked, sender, commands, sending,
                   tallyVars>>

\* For reasons of its own, as Discord's voice.
CoordinatorDecides ==
    /\ ~sending /\ sending' = TRUE
    /\ Spends("toggles")
    /\ UNCHANGED <<world, vrchatVars, to_us, unpacked, sender, commands, events, heard, latest,
                   tallyVars>>

CoordinatorSends ==
    /\ sending /\ commands < CMD_CAPACITY
    /\ commands' = commands + 1 /\ sending' = FALSE
    /\ UNCHANGED <<world, left, vrchatVars, to_us, unpacked, sender, events, heard, latest,
                   tallyVars>>

\* The program is quit, in the middle of anything, and started again: a button held
\* down stays so.
Restart ==
    /\ Spends("restarts")
    /\ lost' = lost + (IF sender = "Holding" THEN 1 ELSE 0)
    /\ to_us' = <<>> /\ unpacked' = <<>> /\ sender' = "Idle"
    /\ commands' = 0 /\ sending' = FALSE /\ events' = <<>> /\ heard' = None
    /\ missed' = (missed \/ to_us # <<>> \/ unpacked # <<>> \/ events # <<>>)
    /\ UNCHANGED <<world, vrchatVars, latest, taken, inverted>>

Adapters == \/ SenderPresses \/ SenderReleases \/ SenderReports \/ CommandDropped
            \/ ReceiverReceives \/ ReceiverForwards

Next == \/ Adapters \/ VRChatTakes
        \/ UserChangesMic \/ UserChangesAvatar
        \/ CoordinatorHears \/ CoordinatorDecides \/ CoordinatorSends
        \/ Restart

\* The worker's tasks run, and VRChat does.
Fairness ==
    /\ WF_vars(SenderPresses \/ SenderReleases \/ SenderReports \/ CommandDropped)
    /\ WF_vars(ReceiverReceives \/ ReceiverForwards)
    /\ WF_vars(CoordinatorHears \/ CoordinatorSends) /\ WF_vars(VRChatTakes)

Spec     == Init /\ [][Next]_vars
FairSpec == Spec /\ Fairness

-----------------------------------------------------------------------------
\* The sender has nothing under way.
Still == sender = "Idle" /\ to_vrchat = <<>>

\* A toggle inverts the microphone at most once, and each datagram that is lost, or
\* refused, costs at most one toggle: a lost release makes the next press unnoticed,
\* and no more.
LossesBounded == /\ inverted <= taken
                 /\ Still => taken - inverted <= lost

\* The button is never left pressed, unless a datagram was lost or the program quit
\* while it held it.
ButtonReleased == Still /\ held => lost > 0

\* The adapters implement the feed: the coordinator never hears of a microphone state
\* older than one it has heard of, nor of one that never was.
Feed == INSTANCE StateFeed WITH
           version <- version, heard <- heard, latest <- latest, None <- None
ImplementsFeed == Feed!FeedSpec

\* When nothing is on its way and the last report was not missed, the coordinator
\* knows the state of the microphone, whatever bundles it came in; or it was started
\* since.
MicHeard ==
    to_us = <<>> /\ unpacked = <<>> /\ events = <<>> /\ ~missed =>
       \/ heard = version
       \/ heard = None /\ (version = 0 \/ left.restarts < world.bounds.restarts)

\* The coordinator waits for the sender to take a toggle and the sender for the
\* coordinator to take an event.
CircularWait == /\ sending /\ commands = CMD_CAPACITY
                /\ sender = "Reporting" /\ ~RoomForEvent

\* With that exception every toggle is taken up, and the coordinator goes on.
TogglesTaken == sending ~> ~sending \/ CircularWait
=============================================================================
