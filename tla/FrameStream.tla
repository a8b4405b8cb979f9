------------------------------ MODULE FrameStream ------------------------------
(***************************************************************************)
(* What a connection to Discord promises about its frames: those that were *)
(* written come out one by one, whole, in order and once, until the first  *)
(* that the protocol does not allow, or the end.  FrameReader implements   *)
(* it over bytes that come in any chunks.                                  *)
(***************************************************************************)
EXTENDS Sequences, Integers

CONSTANTS
    None,
    WellFormed(_)   \* whether the protocol allows a frame

VARIABLES
    sent,           \* the frames Discord has written on this connection
    returned,       \* the frames the client has been given
    failed,         \* why the connection is no longer of use, or None
    closed          \* "Open", "Whole", or "Cut": the last frame is incomplete

streamVars == <<sent, returned, failed, closed>>

Start == sent = <<>> /\ returned = <<>> /\ failed = None /\ closed = "Open"

NextFrame == sent[Len(returned) + 1]

\* The next frame is in the stream from its first byte to its last.
Complete == /\ Len(returned) < Len(sent)
            /\ closed = "Cut" => Len(returned) + 1 < Len(sent)

Write ==
    /\ closed = "Open"
    /\ Len(sent') = Len(sent) + 1 /\ SubSeq(sent', 1, Len(sent)) = sent
    /\ UNCHANGED <<returned, failed, closed>>

Return ==
    /\ failed = None
    /\ Complete /\ WellFormed(NextFrame)
    /\ returned' = Append(returned, NextFrame)
    /\ UNCHANGED <<sent, failed, closed>>

Refuse ==
    /\ failed = None
    /\ Len(returned) < Len(sent) /\ ~WellFormed(NextFrame)
    /\ failed' \in {"TooLarge", "UnknownOpCode"}
    /\ UNCHANGED <<sent, returned, closed>>

\* The connection breaks: what has not been read yet may be lost, from some byte on.
Break ==
    /\ closed = "Open"
    /\ closed' \in {"Whole", "Cut"}
    /\ \E k \in Len(returned) .. Len(sent) : sent' = SubSeq(sent, 1, k)
    /\ UNCHANGED <<returned, failed>>

EndOfStream ==
    /\ failed = None
    /\ closed # "Open" /\ ~Complete
    /\ failed' = "PipeClosed"
    /\ UNCHANGED <<sent, returned, closed>>

Reconnect ==
    /\ closed # "Open" \/ failed # None
    /\ sent' = <<>> /\ returned' = <<>> /\ failed' = None /\ closed' = "Open"

StreamNext == Write \/ Return \/ Refuse \/ Break \/ EndOfStream \/ Reconnect

StreamSpec == Start /\ [][StreamNext]_streamVars
=============================================================================
