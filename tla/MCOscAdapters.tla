---------------------------- MODULE MCOscAdapters ----------------------------
(* The surroundings that the runs of OscAdapters start in.                  *)
EXTENDS OscAdapters

Around(sending_socket, receiving_socket, toggles, changes, avatars, losses, restarts) ==
    [sender |-> sending_socket, receiver |-> receiving_socket,
     bounds |-> [toggles |-> toggles, changes |-> changes, avatars |-> avatars,
                 losses |-> losses, restarts |-> restarts]]

\* Datagrams are lost on the way to VRChat, or refused.
Lossy == Around(TRUE, TRUE, 4, 1, 0, 2, 0)

\* VRChat says more than the receiver's socket can hold.
Talkative == Around(TRUE, TRUE, 1, 3, 1, 0, 0)

\* The program is quit and started again.
Restarted == Around(TRUE, TRUE, 2, 1, 1, 1, 1)

\* One of the sockets could not be opened.
Mute == Around(FALSE, TRUE, 2, 1, 0, 0, 0)
Deaf == Around(TRUE, FALSE, 2, 1, 0, 0, 0)

EveryWorld == {Lossy, Talkative, Restarted, Mute, Deaf}
=============================================================================
