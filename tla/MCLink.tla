-------------------------------- MODULE MCLink --------------------------------
(* Small instances of Link.                                                  *)
EXTENDS Link

Config(mode, authority, resume) ==
    [link_mode |-> mode, link_enabled |-> TRUE,
     startup_authority |-> authority, resume_policy |-> resume]

FollowVrchat  == Config("InverseBidirectional", "Vrchat", "SyncFromVrchat")
FollowDiscord == Config("InverseBidirectional", "Discord", "SyncFromVrchat")
LeaveAsIs     == Config("InverseBidirectional", "None", "KeepState")
VrchatFirst   == Config("VrchatMaster", "Discord", "KeepState")

Bidirectional == {FollowVrchat, FollowDiscord}
EveryStart    == {FollowVrchat, FollowDiscord, LeaveAsIs, VrchatFirst}
EitherMode    == {FollowVrchat, FollowDiscord, VrchatFirst}

Ops(vrchat, discord, avatar, ui) ==
    [VRChat |-> vrchat, Discord |-> discord, Avatar |-> avatar, UI |-> ui]

Around(ops, patient, timely, echoes, disconnects) ==
    [ops |-> ops, patient |-> patient, timely |-> timely, echoes |-> echoes,
     disconnects |-> disconnects]

\* People who wait, also before they pause, resume, resync or choose the mode.
Patient == Around(Ops(2, 2, 1, 3), TRUE, TRUE, {1, 2}, 0)

\* People who press buttons at any moment, while a session breaks.
Hasty == Around(Ops(2, 2, 0, 0), FALSE, TRUE, {1}, 1)

\* People who press buttons and use the window at any moment.
Restless == Around(Ops(1, 1, 0, 2), FALSE, TRUE, {1}, 0)

\* Everything may be late, lost or said twice.
Faulty == Around(Ops(1, 1, 1, 0), FALSE, FALSE, {2}, 1)

\* The same while the window is used, with a session that holds.
Meddling == Around(Ops(1, 2, 0, 1), FALSE, FALSE, {1}, 0)

\* Two quick presses in VRChat, each correction of Discord reported twice.
Hurried == Around(Ops(2, 0, 0, 0), FALSE, TRUE, {1, 2}, 0)

Reliable   == {Patient, Hasty, Restless}
Unreliable == {Faulty, Meddling}
TwoPresses == {Hurried}
===============================================================================
