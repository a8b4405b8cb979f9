# VoxShift in TLA+

VoxShift keeps VRChat's microphone and Discord's self-mute opposite to each
other: it hears of the microphone over OSC (UDP), of Discord over its RPC named
pipe, and corrects one side when the other changes. This directory holds the
specifications of its concurrent parts, the TLC models that check them and the
TLAPS proofs of their safety. Paths are relative to `src/`; `coordinator.rs` is
`crates/voxshift-core/src/coordinator.rs`, and so on for the other crates.
"Design" is `設計書.md`.

## 1. The system

One worker thread runs a current-thread tokio runtime with all the tasks below;
the Slint window and the tray run on the main thread. Tasks interleave only at
their awaits, and meet in bounded channels: commands to the coordinator (64),
events to it (64), its commands to VRChat (16) and to Discord (16),
authorization requests (1), and a `watch` channel that holds the latest snapshot.

| Component | State it keeps | Operations | Makes it correct |
| --- | --- | --- | --- |
| **Voice coordinator** `coordinator.rs` | beliefs about both sides and their connections, link mode and state, whether the initial synchronisation is done, one pending command per side, last error and synchronisation | eight events, four commands and shutdown, one timer, publishing a snapshot | no command from an unknown belief, none that is redundant; corrections end; the last action wins; pending commands resolve |
| **OSC adapters** `osc_sender.rs`, `osc_receiver.rs` | a socket each | press and release `/input/Voice`; unpack `MuteSelf` and `/avatar/change` | one inversion per command; the button is released; reports are heard in order |
| **Discord client** `client.rs`, `voice.rs` | pipe, pending request | subscribe and seed, forward replies and dispatches, execute `SetMute`, authorize | every reported state reaches the coordinator, in order |
| **Supervisor** `worker.rs` | backoff attempt | connect, restore, run, wait, again | a lost session is reported and restored |
| **Authentication** `auth.rs`, `credentials.rs` | the stored token set, the refresh timer | restore, refresh, authorize, background refresh | the stored set can be refreshed and is renewed in time |
| **Frame codec** `frame.rs`, `read_frame` | bytes not decoded yet | push, decode, encode | frames come out as sent, however split |
| **Configuration** `config.rs` | `config.json`, `.tmp`, `.bak` | load, save, back up | never half-written, never lost |
| **Window, tray** `application.rs`, `tray.rs` | none of the link's | pause, resume, resync, mode, authorize, language, quit | a button's command is carried out |
| Log ring, single instance, view model, themes, languages, process and avatar queries, window style | none of the link's, or the system's | conversions and single system calls | (not modelled, section 8) |

How they interact: adapters `send().await` events to the coordinator and take its
commands from their channels; the coordinator `send().await`s commands, in the
middle of a handler, so a full channel holds up the whole coordinator; the UI
`try_send`s commands and watches snapshots; the session and the refresh loop
share the credential store and the token endpoint and know nothing of one another.

What is hard here: a report from Discord carries no trace of who caused it, so an
echo of VoxShift's own command can only be told from a person's action by the
pending marker of the moment; a change may be reported twice (the reply to
SET_VOICE_SETTINGS and the dispatched VOICE_SETTINGS_UPDATE); both directions have
corrections under way at once; a toggle can be lost without anyone knowing; a
session can end with commands and reports in transit, and reads nothing else while
it waits for a reply, or for the user; two tasks rotate one refresh token; a read
of the pipe is abandoned half way whenever another branch of `select!` is ready; two
tasks may wait for room in one another's channels. `PROJECT.json` lists each
hazard at its line.

## 2. Modules

| Module | Models | Extends |
| --- | --- | --- |
| `Coordinator` | `coordinator.rs`: one action per event, command, timer and send | |
| `CoordinatorProperties` | what it promises, and its fairness | `Coordinator` |
| `Link` | the coordinator with VRChat, Discord, the ways to and from them, and people | `Coordinator` |
| `StateFeed` | abstract: what the coordinator may hear of an application | |
| `DiscordSession` | supervisor and RPC client between Discord and the coordinator's channels; implements `StateFeed` | |
| `OscAdapters` | OSC sender and receiver between VRChat and those channels; implements `StateFeed` | |
| `TokenRefresh` | the session's and the refresh loop's use of the stored token set | |
| `FrameStream` | abstract: a stream of whole frames | |
| `FrameReader` | the frame codec and `read_frame` over bytes in chunks; implements `FrameStream` | |
| `ConfigStore` | load, back up and save, one call of the file system at a time | |
| `MC...` | the instances TLC checks: configurations, surroundings, symmetry | their module |
| `CoordinatorProofs`, `CoordinatorSafety`, `FrameProofs`, `SessionProofs`, `OscProofs`, `ConfigProofs`, `LinkProofs`, `TokenProofs` | the proofs | their module and `TLAPS` |

Most modules take a set `Worlds`: records that say what the surroundings of a
behaviour are like (which faults happen, how often people act, Discord stops or the
program restarts). `Init` picks one, so that one run covers several
surroundings, and a property can speak of some of them.

### Coordinator

The variables are the fields of `struct Coordinator` under their own names, the
snapshot in the `watch` channel and the two command channels. The sequence
counters (`next_sequence`, `last_command_sequence`) are written and never read,
and are left out. A handler runs to the end or to its only await, the send on a
command channel: the command then stands in `outbox`, no other handler runs
(`Ready`), and `CompleteSend` is the rest of the handler, including the stamp of
`last_sync_at` and the second publish of a synchronisation (`stamp_after_send`).
While an outbox waits, `Tick` still lets deadlines pass.

A deadline is a number of ticks left. `HandlePendingTimeout` may run at any time
after it has passed, as in `select!`, and examines both commands. `last_error` is
reduced to the kinds a property tells apart. The events' values are those the
adapters can send (`VrChatStatusSent`, `DiscordStatusSent`); an ERROR reply can
only answer a command that has been taken from the channel. In `Coordinator`
alone the events come in any order: that is the environment the proofs hold for.

### Link

`Link` replaces that environment by the two applications. `mic` and `voice` are
the real states. `vrchat_rx` and `discord_rx` are the ways back, each first in
first out (which `StateFeed` justifies); the event channel merges the two in any
order. VRChat inverts its microphone at each press and reports every change;
Discord answers SET_VOICE_SETTINGS and may also dispatch the change (`echoes`: how
many reports a change makes; both forms are forwarded at `client.rs:329` and
`client.rs:348`). A session may break, losing what was on its way back and a command
being written, but not the commands still in the channel (`cmd_rx` outlives it); a
new one begins with `Connecting`, the fetched settings, `Connected`. A world that is
not `timely` lets deadlines pass at any point, presses go unnoticed, and sends be
reported as failed; in a `patient` one people act only when all is quiet. A press
and its release are one step here; `OscAdapters` takes them apart. Receiving,
sending and the timer are the actions of `Coordinator`.

`UserControls` are the window and the tray: `ChooseMode` (`SetLinkMode`), `Pause`,
`Resume`, `ManualResync`; to quit is `Coordinator`'s `Shutdown`, after which nothing
happens. Three variables record what people asked for, and no step depends on
them: `wanted` and `wanted_voice`, the states the last action asks of the two sides, and
`overtaken`, the number of toggles on their way to VRChat (`TogglesUnderWay`) when
VRChat-priority mode was last chosen. An action in VRChat asks Discord to follow; one in
Discord asks VRChat to follow in bidirectional mode only; a resync asks Discord to
follow; to resume with `KeepState` asks both sides to stay as they are. ERROR replies
and lost `MuteSelf` datagrams are not in `Link` (the first are in `Coordinator`, the
second in `OscAdapters`).

### DiscordSession

One task is the supervisor and, within it, the client: `client` says where it is,
`todo` which requests it has still to make (`subscribe_and_seed_state` is three
subscriptions and GET_VOICE_SETTINGS), `asked` whether the first awaits its reply.
`ClientAsks` writes; until the reply, `ClientDropsFrame` drops everything else, as
`send_command` does; `ClientReadsEnd` is the pipe's end. In `Running` the branches of
`select!` are `RunHandlesFrame`, `RunTakesCommand`, `RunTakesRequest` and
`RunReadsEnd`. Whatever the client sends to the coordinator stands in `saying`, and
nothing else of the task happens until there is room for it. `authorize_now` is
AUTHORIZE, the exchange of the code, AUTHENTICATE and save; its failures end in
`Unavailable` and `Running` without a new subscription or seed.

Discord's voice is known by the number of its state (odd when muted), so that
an outdated report is told from a current one. Discord answers requests in
order, except AUTHORIZE, which it answers when the user has decided; it executes
SET_VOICE_SETTINGS only in an authenticated session. `DiscordStops` loses what it has
not read and the last of what it wrote. The coordinator is reduced to what the
session depends on: it takes events in order, believes the last one, forgets with
`Connecting` and `Disconnected`, may decide on a command against its belief, and waits
for room in the command channel meanwhile. Tokens are `TokenRefresh`'s.

### OscAdapters

`SenderPresses` takes a toggle and sends `/input/Voice 1`, `SenderReleases` sends the 0
after `TOGGLE_HOLD`, and either may fail, which is reported (`SenderReports`) after
room for the event has been waited for. `CommandDropped` is the loop that stands in
for a sender whose socket could not be opened. A datagram from VRChat is known by the
messages it holds in order, however nested its bundles (`flatten_messages` takes
them apart); `ReceiverForwards` is `interpret_message` for one of them. The receiver's socket
holds `SOCKET_CAPACITY` datagrams while the receiver waits. VRChat inverts its
microphone when the button goes down, so a lost release makes the next press go
unnoticed. A restart of the program loses its channels and what its socket holds, and
leaves the button as it was.

### TokenRefresh

Each step is what a task does between two awaits: `try_restore_session`,
`try_refresh` and `authorize_now` on one side, `run_refresh_loop` on the other. The
token endpoint takes a refresh token once and issues a new set (`live`,
`accepted`); the answer can be lost after the rotation. A world's `faults` select
what can go wrong: network, pipe (AUTHENTICATE fails), credential store,
revocation. A restart keeps the store only. An access token stays valid until it
expires, also when its set has been refreshed. A `prompt` world lets no time pass during
any await but the timer's; in another every await may take for ever. A token set is
an identity whose remaining life is `left`; the identity is reused when nobody holds
it.

### FrameReader

The stream is known by byte offsets: a frame is an opcode and a length at an offset;
the buffer holds the bytes from `start` to `pushed`. `TryReadFrame` is
`try_read_frame`; where `start` is not the beginning of a frame, eight bytes may say
anything (`HeadersAt`), so losing one's place has consequences. `PipeReady` reads
1 to `READ_CHUNK` bytes and tries again; `ReadDropped` is `select!` taking another
branch, after which `ReadFrame` begins anew with what was pushed. After a bad
frame nothing leaves the buffer (`try_read_frame` returns before the drain), and
the session ends. `FrameStream` knows frames only.

### ConfigStore

`step` is the next call of the file system: read, back up (rename), create the
temporary file, write and sync it, rename it. Each may fail when the world has
`faults`, and `Stop` may come between any two. `load` falls back once on the
defaults and saves those (`fallback`); `set_language` loads, changes the language and
saves (`purpose`). Settings are the language and all the others together; `Torn` is a
file cut short. The user edits the file at any moment in a world with `races`.
`wanted` is what the user wrote last or has set since, `hurt` that since then a load
met a failing call or an edit came in the middle of a load or save.

## 3. What TLC checks

| Run | Question | Instance | Distinct states |
| --- | --- | --- | --- |
| `coordinator_safety` | ten safety properties, from every configuration, any events | 3 nonces (symmetric), channels of 1, deadlines of 1 and 2 | 1.3 M |
| `coordinator_liveness` | does every pending command resolve? | default configuration, same bounds | 0.2 M |
| `link_converges` | does the last action win when people wait in between, do corrections end, and do the sides end up opposite when they do not wait? | both modes, every authority, both resume policies; `Patient`: 2 presses a side, 1 avatar change, 3 uses of the window, 1 or 2 echoes; `Hasty`: 2 presses a side, 1 lost session, 1 echo; `Restless`: 1 press a side, 2 uses of the window, 1 echo | 0.76 M |
| `link_faults` | are beliefs right, and the microphone the user's, after any loss or delay? | both modes and authorities, not timely; `Faulty`: 1 press a side, 1 avatar change, 1 lost session, 2 echoes; `Meddling`: 1 press in VRChat, 2 in Discord, 1 use of the window, 1 echo | 7.5 M |
| `session` | does the coordinator hear Discord's states in order, know the last, forget them with the session, and does every session, command and request go on? | channels of 6 and 1; an installation, a busy session, authorizations that fail; each with a Discord that stops once | 0.41 M |
| `osc` | what does a lost datagram cost, is the button released, are reports heard? | channels of 2 and 1, socket of 2; losses, a talkative VRChat, a restart, no sender, no receiver | 0.24 M |
| `token_refresh` | is the stored set renewed, never lost, refreshable, and a due one dealt with? | life 3, margin 1; nothing failing; network and store; pipe, store and restart; network, pipe, revocation and restart | 0.34 M |
| `frames` | do frames come out as written, and all of them? | header of 2 bytes, payloads of 0 to 2 with a limit of 1, chunks of 1 to 3, 3 frames a connection | 0.29 M |
| `config` | is the file whole, are settings and corrupt files kept, does the program start? | 3 languages, 2 values of the rest, 3 edits, faults and races | 0.59 M |

The three remaining runs are findings (section 4).

`coordinator_safety` shows, in the order of the configuration: the types; that the
initial synchronisation is not missed; that a pending command contradicts the
belief about its side (so: never from Unknown, never redundant, never left over
when the belief changes); that nothing is sent before the initial synchronisation;
that beliefs about Discord end with its connection; that the UI's snapshot is
current; that only a resume with `SyncFromVrchat` makes confirmations pending in both
directions; that VRChat is toggled only in bidirectional mode and while linked; that
the initial synchronisation sends nothing but what the authority in force asks, and,
unless the link is paused, does send it; and that only a manual resync replaces a
pending Discord command.

What is pending is not what is under way: a manual resync, or a `MuteSelf` its user
caused, drops the marker of a toggle that is still in its channel, and the commands of
both directions may then cross, with `KeepState` too. What becomes of crossing commands
is the question of `link_converges` and `link_faults`. The first asks it of people who use
the window in either mode while corrections are under way (`Restless`), the second
while they are also late or lost (`Meddling`): there a mode is chosen with up to two
toggles on their way, which still move the microphone, and `MicBelongsToUser` counts
them: no other toggle moves it.

`session` and `osc` each show that the adapter implements `StateFeed`: the coordinator
hears of no state that never was and of none older than it has heard of, across
sessions and restarts. They also show when it hears of the last one:
`BeliefCurrent` when no authorization fails, `MicHeard` when VRChat's last datagram
found room in the socket. `frames` shows that `FrameReader` implements `FrameStream`.

The bounds, and why they are enough. Channels hold 1 command in the coordinator's
runs (16 in the code), so that sends do block, and 2 or 3 in `Link`'s, enough for the
corrections that its budgets of presses can have queued. Deadlines of 1 and 2 ticks
keep the order of the real ones (1.5 s and 2 s) and let either, both or neither
pass. Nonces are one more than the channel and the pending command can hold.
`session`'s event channel of 6 is what a broken session and its successor can leave
in it and still fill it (64 in the code), `osc`'s of 2 fills with one packet. Budgets
bound the environment, never the program: two presses a side are what it takes for
a second one to overtake the correction of the first. Lifetime 3 with margin 1 has
states before, inside and past the margin. A header of 2 bytes can be split, a chunk
of 3 reaches from one frame into the next, a payload of 2 is one over the limit, and
three frames have one behind the one that is cut. Three languages allow a change of
one's mind; three edits allow a corrupt file, its replacement and another.
Deadlock is not checked where the system may stop: after `Shutdown`, when people's
budgets are spent and everything has settled, and in `session` and `osc`, where also
the circular wait is the end.

### Circular waits

`worker.rs:193-195` says of the supervisor that it never returns, and that Discord
being absent is a degraded state which is tolerated. In the models of both
adapters one state has no way out (`CircularWait`): the coordinator waits for room in
the command channel while the adapter behind it waits for room in the event
channel. A `CircularWait` disjunct in `CoordinatorGoesOn`, `SessionComesBack`,
`RequestServed` and `TogglesTaken` shows that, with an open consent dialog (`Kept`),
it is the only way for anyone to wait for ever. At the code's capacities it takes 17
commands that nobody drains, and then a Discord that is away until the supervisor's
attempts have filled the 64 events; the small capacities of the models only shorten
the way there. Presses alone do not send 17 commands behind an open dialog: Discord
answers none, so `set_discord_state` refuses a second command for the same target, one
for the state believed, and after two seconds, when the state is Unknown, any. A press
and sixteen manual resyncs do, each within two seconds of the one before, because
`manual_resync` drops the pending marker and the next command starts a new deadline.

### Fairness

* `coordinator_liveness`: weak fairness of the passage of time, of a send that has
  room and of the adapters' loops, and strong fairness of the timer: `select!` polls
  its ready branches in random order, so a deadline that stays due cannot be passed
  over for ever. Nothing is assumed of events and commands.
* `Link`: messages on their way arrive, sends complete, deadlines pass, the
  supervisor reconnects; people need not act.
* `TokenRefresh`: time passes, the loop runs, and the endpoint answers requests, the
  loop's again and again if it keeps asking. Nothing is assumed of the user, the
  session, faults or restarts.
* `DiscordSession`: the worker's tasks run, Discord answers what it reads and is
  started again. Nobody has to answer the consent dialog.
* `OscAdapters`: the worker's tasks and VRChat run. Losses, restarts and people are
  free.
* `FrameReader`: `read_frame` is called again after another branch of `select!`, and,
  strongly, a pipe that is readable again and again is read, because `select!` picks
  at random among ready branches.
* `ConfigStore`: a call of the file system returns.

Every property of a passing run has a faulty form of a definition (in the module,
beside the definition, used by nothing) under which the run finds it violated.

## 4. Where the code and its documents disagree

Three runs show a statement of the repository refuted by what the code does:

* `finding_endless_inversion`: two quick presses in VRChat, with two reports per
  change of Discord, leave two corrections chasing one another for ever
  (design 811 and 1412: 「無限反転」 does not occur). `link_converges` shows what
  avoids it: one report per change, or people who wait.
* `finding_refresh_never_armed`: the refresh loop that starts with nothing stored
  disarms its timer for good, so the first token set obtained is never renewed
  before it expires (design 358).
* `finding_declined_authorization`: a change of the voice while the consent dialog is
  open is dropped by `send_command`, and when the authorization then fails nothing is
  fetched again (`client.rs:117-119`: nothing is ever silently dropped once `run()`'s
  loop is active). `BeliefCurrent` of `session` shows that this is the only way.

Further disagreements can be read off the actions, and have no run of their own:

* A paused link sends commands in the initial synchronisation and on a manual
  resync (design 117, test at `coordinator.rs:703`). `InitialSyncRespectsAuthority` asks
  for no command then, and `ToggleOnlyWhenLinked` names the case.
* A toggle that is under way when VRChat-priority mode is chosen still moves the
  microphone (design 4.2); nothing recalls it.
* In VRChat-priority mode an avatar change that reports the same state of the microphone
  again, and a `MuteSelf` that repeats it, undo what was chosen in Discord on its own;
  design 105 waits for the microphone's next change.
* Even with one report per change, the echo of a command that a newer one has
  replaced is reflected to VRChat, undoing the second press (comment at
  `coordinator.rs:26`, test at `coordinator.rs:675`).
* `ManualResync` leaves `link_state` alone, while the text of `coordinator.rs:525`
  sends the user of a Faulted link to it; only pause and resume leave Faulted.
* The seed of a new session is handled as a change of Discord's, so that VRChat may
  be toggled on a reconnection, where design 1007 has it lead.
* Any `MuteSelf` clears `pending_vrchat`, also the user's, while a toggle is still in
  the channel; the next Discord report then sends a second one, against the
  comment at `coordinator.rs:491`.
* In VRChat-priority mode two quick presses and a late echo can leave both sides
  equal with nothing pending (design 103).
* When the loop and the session refresh the same token set at once, the refused one
  clears whatever is stored by then, a fresh set included (`auth.rs:369`, `auth.rs:463`).
* An authorization that fails after AUTHENTICATE (the store refuses to save) leaves a
  session that is authenticated but neither subscribed nor seeded.
* A press of Authorize while Discord is away opens the dialog in a later session.
* A failing call of the file system makes `load` write the defaults over settings that
  are intact: `exists()` or a read that fails, and a backup that fails, after which a
  corrupt file is overwritten with no copy of it (design 1097: 「破損した設定はバックアップし」).
  The write-back of a load that fails does the same.

## 5. What is proved

Every invariant and action property that a passing run checks is also a theorem,
and so are the refinements. TLAPS checks them for every value of the constants that
satisfies each module's named assumption: capacities, timeouts and lengths are
positive numbers, `None` and the other distinguished values are different from what
they must be told from (in `TokenRefresh`, from token sets and from numbers),
the sets of configurations and worlds are sets of such, and there are more nonces
than the channel and a pending command hold. Budgets are any numbers, so nothing in
the theorems depends on the instances of section 3.

| Module | Theorem | States |
| --- | --- | --- |
| `CoordinatorProofs` | `TypeCorrect` | `TypeOK` |
| `CoordinatorSafety` | `CommandsSound` | the three invariants of the next row together |
| | `PendingContradicts`, `InitialSyncNotMissed`, `NothingSentBeforeSync` | `PendingContradictsBelief`, `SyncedOnceBothKnown`, `CommandsOnlyAfterSync` |
| | `DiscordKnown`, `PendingOneWay`, `SnapshotIsCurrent` | `DiscordKnownOnlyWhenConnected`, `BothPendingOnlyByResume`, `SnapshotCurrent` |
| | `ReplacedOnlyByResync`, `ToggledOnlyWhenLinked` | `PendingDiscordReplacedOnlyByResync`, `ToggleOnlyWhenLinked` |
| | `SyncObeysAuthority` | `InitialSyncRespectsAuthority` |
| `LinkProofs` | `LinkImplementsCoordinator` | `LinkSpec` implies the coordinator's `Spec` |
| | `CommandsSoundInLink`, `MicIsTheUsers`, `BeliefsAreRight` | `CommandInv`, `MicBelongsToUser`, `BeliefsRight` |
| | `TheLastActionWins` | `LastActionWins`, in surroundings that are `Orderly` |
| | `CorrectionsEnd` | in these, every step that no person takes lessens `Remaining`, which is at most 14 |
| `TokenProofs` | `TypeCorrect`, `SavedStayLive` | `TypeOK`, `SavedTokensLive` |
| | `StaysSignedIn` | `NeverSignedOut` |
| | `RenewedInTime` | `StoredTokenNeverExpires`, in worlds that start signed in |
| `FrameProofs` | `TypeCorrect`, `KeepsItsPlace` | `TypeOK`, `Aligned` |
| | `Implementation` | `FrameReader` implements `FrameStream` |
| `SessionProofs` | `TypeCorrect`, `Forgetting`, `Attention` | `TypeOK`, `ForgottenWithoutSession`, `BeliefCurrent` |
| | `Implementation` | `DiscordSession` implements `StateFeed` |
| `OscProofs` | `TypeCorrect`, `ReleasesButton` | `TypeOK`, `ButtonReleased` |
| | `LossesCostOne`, `HearsTheMic` | `LossesBounded`, `MicHeard` |
| | `Implementation` | `OscAdapters` implements `StateFeed` |
| `ConfigProofs` | `TypeCorrect`, `Atomicity`, `KeepsSettings`, `KeepsCorrupt` | `TypeOK`, `NeverHalfWritten`, `SettingsKept`, `CorruptKept` |

The arguments.

**Coordinator.** `TypeCorrect` is inductive by itself; its lemmas give the types of
what each piece of a handler assigns, and a lemma per group of handlers puts them
together. `CommandInv` is `SyncedOnceBothKnown`, `PendingContradictsBelief` and
`CommandsOnlyAfterSync`: none is inductive alone. That a pending command contradicts
the belief needs the initial synchronisation to start with nothing pending, and
that needs "nothing is sent before", which needs "both known implies synchronised".
The lemmas `SetDiscordStateEffect` and `ToggleVrchatEffect` say what the two
helpers leave pending, for any belief and pending command that agree; each handler
is then a few cases. `BothPendingOnlyByResume` rests on `CommandInv` for the initial
synchronisation, before which nothing is pending; every other handler that sends has
just dropped the other side's pending command, except `Resume`, which sends nothing
with `KeepState`. The action properties follow from one step taken in a state that
satisfies `TypeOK` and `CommandInv`: `SyncObeysAuthority`, too, needs that nothing was
pending before, or the correction it calls for might not have been sent.

**Link.** With `PeersOK`, the types of what is on its way, every step of the link is a
step of `Coordinator` or leaves its variables alone, so whatever holds of the
coordinator alone holds in the link. `MicBelongsToUser` is inductive with the types:
choosing the mode sets `overtaken` to the toggles under way; what the sender takes is one
less of them, whether it moves the microphone or not; and no handler puts one in the
outbox in that mode (`NoToggle`, which is `ToggleOnlyWhenLinked`, proved of the
coordinator alone). `BeliefsRight` speaks only of settled states;
the invariant `Told` says of any state which report decides: the last one on its way
that tells a state is of the present state, or, with none on its way, the belief is.
For Discord the last word may also be one that makes the coordinator forget, and
without a session only that. Lemmas say what it takes to keep this when something is
said, when nothing is, and when the next report is heard.

`LastActionWins` holds of no single state but the settled ones, and which side is to
follow cannot be seen from the beliefs. The invariant `Episode` lists what may be going
on between two actions: the sides are still being heard of (`Starting`), or they are
linked and nobody says anything (`Quiet`), VRChat or Discord reports a state that is as
the last person wanted it (`VrchatSpeaks`, `DiscordSpeaks`), or the command that makes
the other side follow is under way (`SetUnderWay`, `ToggleUnderWay`). Each action leads
from an episode to an episode, because what VoxShift itself caused finds the pending
marker, or a state it already agrees with; in VRChat-priority mode Discord's
report stays without an answer, and nobody wanted one. `MicLeads` and `VoiceLeads` say for
either mode what the reports on their way are to lead to. All modes, authorities and
policies are covered; `Orderly` asks for people who wait, timely applications and a
session that holds, and each of these is needed: people who do not wait are what
`finding_endless_inversion` is about; a report after its deadline, and the seed of a new
session, are taken for a person's change. `CorrectionsEnd`
is the half of "corrections end" that needs no fairness: `Remaining` counts a side that
is not opposite yet, the command that is to be sent for it, and the reports to be
heard; hearing, sending and carrying out each lessen it, and no deadline passes.

**Tokens.** A token set that was issued and not yet saved is an answer of the endpoint
or in the session's hand. `NobodyElses` says that it is not the stored one, that nothing
asks the endpoint with it, and that no other holder has it; then no request can use it
up, and `NewLive` keeps it live until it is saved. That the endpoint can always issue
an identity nobody holds takes the assumption of more than four of them, and
`Asking`: what the session asks with is what it has in hand.

The other two rest on this and on who renews what is stored, which `Renewed` says of a
world where nothing fails: the loop is `Armed` and the session leaves the refreshing to
it, or nothing is stored and the loop has not looked (`NotSignedIn`), or it looked too
early and sleeps (`SessionAlone`). `Armed` says that the stored set can be refreshed or
its successor is already the loop's answer, that it was accepted, and that the timer
stands at the margin before its end (`LoopInTime`). In the other two nothing is ever
cleared either, so nobody is signed out; but only `Armed` renews in time, which is why
`RenewedInTime` is about programs that start signed in:
`finding_refresh_never_armed` is what happens to the others.

**Frames.** `Aligned` is not inductive: it needs that what was returned is the
beginning of what was sent, and that the frames lie one behind the other to the end
of the stream, so that a complete header at `start` is the header of the frame that is
due (`NextHeader`). The refinement also needs `FailedRightly`, that an error stays true
of the frame it was raised for, and `Short`, that a reader awaits the pipe only
when the buffer does not hold the whole of the next frame.

**Session and OSC adapters.** A belief can only be newer than the last if every report
on its way is (`InOrder`): there are bounds between `latest` and `version` that
separate what is in the event channel, what is being said and what is in the pipe or
socket, and each of these is in order. Lemmas say what appending, taking and losing
do to it, and each action is one of these. `Forgetting` adds `Ended`: between two
sessions either the coordinator has forgotten, or "Disconnected" is the last word on
its way. `ReleasesButton` adds `ButtonFollowed`: with no loss so far, what is on its way
to VRChat, and where the sender is, say what the button will be.

`Attention` is about the last report instead of the order. `Attentive` says that the
setup always ends with the request for the current state (`SeedsLast`), that requests
and replies stay paired on the pipe (`Linked`), and that the last of what has left the
pipe and tells anything tells the present state (`WillKnow`); whatever `send_command`
drops, it drops before that last reply. A declined authorization has no such seed.
`HearsTheMic` says the same of the microphone (`Told`): without a miss, the last report
in the channel, then in the packet at hand, then in the socket, is the present one.
`LossesCostOne` needs to count what is still to come. `Tallied` says that there is a
function `count`, which gives for each value on its way how many toggles VRChat will
have followed when it is reached, and that at its end the toggles not followed are no
more than the datagrams lost. Such a function exists after every step
because it can be lengthened at its end (`CountsAppend`) and shortened at its front,
so no induction over the sequence is needed.

**Configuration.** The invariant says what each file may hold at each step: the
temporary file is whole between write and rename, the value in hand is what the
user wanted unless a load was hurt, and a corrupt file is gone from `config.json` only
once it is in the backup.

Only model-checked: the liveness properties, that is `PendingCommandsResolve`,
`EventuallySettled`, `EventuallyInverted`, `DueTokenHandled`, `FramesArrive`,
`SessionComesBack`, `CoordinatorGoesOn`, `RequestServed`, `TogglesTaken` and
`StartsAnyway` (fairness and ENABLED are out of the prover's reach), and what the
finding runs show. `LastActionWins` and `StoredTokenNeverExpires` are theorems under the
conditions named above, which the runs' instances of them satisfy; elsewhere they are
false.

## 6. What could be added

An abstract link (two bits and whose turn it is), implemented by `Link` with patient
people: the episodes of `LinkProofs` are its states; and `Link` over the adapters'
own modules instead of its one-step forms, which is beyond TLC with the present bounds.

## 7. Running

    tlc -config coordinator_safety.cfg MCCoordinator.tla    # and coordinator_liveness
    tlc -config link_faults.cfg        MCLink.tla           # and link_converges
    tlc -config session.cfg            MCDiscordSession.tla
    tlc -config osc.cfg                MCOscAdapters.tla
    tlc -config token_refresh.cfg      MCTokenRefresh.tla
    tlc -config frames.cfg             FrameReader.tla
    tlc -config config.cfg             MCConfigStore.tla
    tlapm CoordinatorSafety.tla                             # and the other proof modules

Each run takes less than five minutes with two workers.

## 8. Not modelled

* The log ring (read by nobody yet), the single-instance mutex, view model, themes
  and languages (pure conversions of a snapshot or configuration into what is
  displayed), process, avatar and window queries (nothing depends on their answers).
* The contents of messages: PKCE and wording are data, and malformed packets are dropped
  without an effect. So is malformed JSON in `handle_incoming_frame`; in the handshake
  and in `send_command` (`client.rs:55`, `client.rs:144`) it ends the session or the
  authorization, and there Discord is taken to send well-formed JSON.
  Voice-channel events are `Coordinator`'s only.
* How long a backoff lasts; its index stops at the ladder's last step. Connecting to
  one of the ten pipe names is one step.
* A command of the window that `try_send` drops: it is then as if it had not been given.
* `revoke`, which nobody calls; the sequence counters, which nobody reads; serde's
  defaults for missing fields and its silence about unknown ones, which a load then
  drops from the file.
