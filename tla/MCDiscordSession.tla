--------------------------- MODULE MCDiscordSession ---------------------------
(* The surroundings that the runs of DiscordSession start in.                *)
EXTENDS DiscordSession

Around(authorized, declines, changes, reports, sets, presses, stops) ==
    [authorized |-> authorized, declines |-> declines, changes |-> changes,
     reports |-> reports, sets |-> sets, presses |-> presses, stops |-> stops]

\* Nothing is stored, and the user authorizes, while Discord's voice changes.
Installed == Around(FALSE, FALSE, 2, 0, 1, 2, 1)

\* Commands fill their channel while sessions break.
Busy == Around(TRUE, FALSE, 1, 1, 2, 0, 1)

\* Authorizations are asked for again, and may fail at any of their steps.
Declined == Around(TRUE, TRUE, 1, 0, 1, 1, 1)

EveryWorld == {Installed, Busy, Declined}

\* One change of the voice while the dialog is open is enough.
OneDecline == {Around(TRUE, TRUE, 1, 0, 0, 1, 0)}
=============================================================================
