------------------------------- MODULE StateFeed -------------------------------
(***************************************************************************)
(* What the coordinator may believe of one of the two applications,        *)
(* whatever the adapter in between does: it hears of states that           *)
(* application was really in, never of an older one than it has heard of,  *)
(* and may forget at any time.  The n-th state is known by its number.     *)
(***************************************************************************)
EXTENDS Integers

CONSTANT None

VARIABLES
    version,        \* the state the application is in
    heard,          \* the state the coordinator believes it to be in, or None
    latest          \* the newest it has ever heard of

Start == version = 0 /\ heard = None /\ latest = 0

Change == version' = version + 1 /\ UNCHANGED <<heard, latest>>

Hear == /\ heard' \in latest .. version
        /\ latest' = heard'
        /\ UNCHANGED version

Forget == heard' = None /\ UNCHANGED <<version, latest>>

FeedSpec == Start /\ [][Change \/ Hear \/ Forget]_<<version, heard, latest>>
=============================================================================
