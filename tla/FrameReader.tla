------------------------------ MODULE FrameReader ------------------------------
(***************************************************************************)
(* The frame codec (crates/voxshift-discord/src/frame.rs) and read_frame,  *)
(* which feeds it from the pipe (client.rs).  The stream is known by its   *)
(* byte offsets: a frame is an opcode and a payload length at an offset,   *)
(* and the reader's buffer holds the bytes from `start` up to `pushed`.    *)
(*                                                                         *)
(* read_frame is one branch of a select! in run(): whenever another branch *)
(* is ready it is dropped where it awaits the pipe, and called anew later. *)
(***************************************************************************)
EXTENDS Sequences, Integers

CONSTANTS
    None,
    HeaderLen,      \* 8: opcode and length, four bytes each
    MAX_FRAME_LEN,
    READ_CHUNK,
    MaxFrames       \* bound: frames written on one connection

ASSUME FrameAssumption ==
    /\ HeaderLen \in Nat \ {0} /\ MAX_FRAME_LEN \in Nat
    /\ READ_CHUNK \in Nat \ {0} /\ MaxFrames \in Nat
    /\ None \notin {"TooLarge", "UnknownOpCode", "PipeClosed"}

VARIABLES
    sent, returned, failed, closed,     \* as in FrameStream
    end,            \* offset of the end of the stream so far
    pushed,         \* bytes taken from the pipe
    start,          \* offset of the first byte of FrameReader.buf
    reading         \* "Idle", or "Awaiting" the pipe in read_frame

streamVars == <<sent, returned, failed, closed>>
readerVars == <<end, pushed, start, reading>>
vars == <<streamVars, readerVars>>

\* OpCode::try_from knows five of them.
KnownOpCodes == 0 .. 4
AnyOpCode    == 0 .. 5
Frame        == [at : Nat, opcode : AnyOpCode, len : 0 .. MAX_FRAME_LEN + 1]

WellFormed(frame) == frame.len <= MAX_FRAME_LEN /\ frame.opcode \in KnownOpCodes

\* The offset behind the first k of these frames.
EndOf(frames, k) == IF k = 0 THEN 0 ELSE frames[k].at + HeaderLen + frames[k].len

TypeOK ==
    /\ sent \in Seq(Frame) /\ returned \in Seq(Frame)
    /\ failed \in {None, "TooLarge", "UnknownOpCode", "PipeClosed"}
    /\ closed \in {"Open", "Whole", "Cut"}
    /\ end \in Nat /\ pushed \in 0 .. end /\ start \in 0 .. pushed
    /\ reading \in {"Idle", "Awaiting"}

Init ==
    /\ sent = <<>> /\ returned = <<>> /\ failed = None /\ closed = "Open"
    /\ end = 0 /\ pushed = 0 /\ start = 0 /\ reading = "Idle"

-----------------------------------------------------------------------------
(* Discord, at the other end of the pipe.                                  *)

\* Any frame, among them what encode() would refuse.
PeerWrites ==
    /\ closed = "Open"
    /\ Len(sent) < MaxFrames
    /\ \E opcode \in AnyOpCode, len \in 0 .. MAX_FRAME_LEN + 1 :
          /\ sent' = Append(sent, [at |-> end, opcode |-> opcode, len |-> len])
          /\ end' = end + HeaderLen + len
    /\ UNCHANGED <<returned, failed, closed, pushed, start, reading>>

\* Bytes not read yet are lost, from any one on.
PeerCloses ==
    /\ closed = "Open"
    /\ \E k \in 0 .. Len(sent), e \in pushed .. end :
          /\ e <= EndOf(sent, k)
          /\ k > 0 => e > sent[k].at
          /\ sent' = SubSeq(sent, 1, k) /\ end' = e
          /\ closed' = IF e = EndOf(sent, k) THEN "Whole" ELSE "Cut"
    /\ UNCHANGED <<returned, failed, pushed, start, reading>>

-----------------------------------------------------------------------------
(* FrameReader::try_read_frame and the loop around it.                     *)

\* What eight bytes from here on say: a header, or anything when they are not one.
HeadersAt(offset) ==
    LET whole == {i \in 1 .. Len(sent) : sent[i].at = offset}
    IN  IF whole # {} THEN {sent[i] : i \in whole}
        ELSE [at : {offset}, opcode : AnyOpCode, len : 0 .. MAX_FRAME_LEN + 1]

ReturnAndKeepPayload(header) ==
    /\ returned' = Append(returned, header)
    /\ start' = start + HeaderLen
    /\ reading' = "Idle"
    /\ UNCHANGED failed

\* drain(): the frame's bytes leave the buffer.
ReturnFrame(header) ==
    /\ returned' = Append(returned, header)
    /\ start' = start + HeaderLen + header.len
    /\ reading' = "Idle"
    /\ UNCHANGED failed

\* The buffer stays as it is; `failed` remembers the first error.
Fail(error) ==
    /\ failed' = IF failed = None THEN error ELSE failed
    /\ reading' = "Idle"
    /\ UNCHANGED <<returned, start>>

Await == reading' = "Awaiting" /\ UNCHANGED <<returned, start, failed>>

ArrivedWithoutHeader(available, header) == available >= header.len

ArrivedWithNext(available, header) == available > HeaderLen + header.len

Arrived(available, header) == available >= HeaderLen + header.len

\* With so many bytes in the buffer.
TryReadFrame(available) ==
    \/ available < HeaderLen /\ Await
    \/ /\ available >= HeaderLen
       /\ \E header \in HeadersAt(start) :
             \/ header.len > MAX_FRAME_LEN /\ Fail("TooLarge")
             \/ /\ header.len <= MAX_FRAME_LEN
                /\ ~Arrived(available, header) /\ Await
             \/ /\ header.len <= MAX_FRAME_LEN
                /\ Arrived(available, header)
                /\ IF header.opcode \in KnownOpCodes
                   THEN ReturnFrame(header)
                   ELSE Fail("UnknownOpCode")

\* read_frame is called: by run(), by handshake() or by send_command.
ReadFrame ==
    /\ reading = "Idle"
    /\ TryReadFrame(pushed - start)
    /\ UNCHANGED <<sent, closed, end, pushed>>

\* The pipe has something to read; push() and around the loop again.
PipeReady ==
    /\ reading = "Awaiting"
    /\ \E p \in pushed + 1 .. pushed + READ_CHUNK :
          /\ p <= end
          /\ pushed' = p
          /\ TryReadFrame(p - start)
    /\ UNCHANGED <<sent, closed, end>>

\* read() returns zero.
PipeAtEnd ==
    /\ reading = "Awaiting"
    /\ pushed = end /\ closed # "Open"
    /\ Fail("PipeClosed")
    /\ UNCHANGED <<sent, closed, end, pushed>>

\* A command or an authorization request is taken by select! instead.
ReadDropped ==
    /\ reading = "Awaiting"
    /\ reading' = "Idle"
    /\ UNCHANGED <<streamVars, end, pushed, start>>

\* run() returns, and with it go the pipe and the reader; handshake() makes new ones.
Reconnect ==
    /\ closed # "Open" \/ failed # None
    /\ sent' = <<>> /\ returned' = <<>> /\ failed' = None /\ closed' = "Open"
    /\ end' = 0 /\ pushed' = 0 /\ start' = 0 /\ reading' = "Idle"

Next == \/ PeerWrites \/ PeerCloses
        \/ ReadFrame \/ PipeReady \/ PipeAtEnd \/ ReadDropped
        \/ Reconnect

\* select! polls its branches in random order, so that a readable pipe is not passed
\* over for ever.
Fairness == WF_vars(ReadFrame) /\ SF_vars(PipeReady)

Spec     == Init /\ [][Next]_vars
FairSpec == Spec /\ Fairness

-----------------------------------------------------------------------------
\* The reader is always at the beginning of the frame that is due: neither chunks of
\* any size, nor an abandoned read, nor an error makes it lose its place.
Aligned == start = EndOf(sent, Len(returned))

\* The codec implements the stream of frames (frame.rs:53): whole frames, in order,
\* each once, and none after a frame that the protocol does not allow.
Stream == INSTANCE FrameStream WITH
             sent <- sent, returned <- returned, failed <- failed, closed <- closed,
             None <- None, WellFormed <- WellFormed
ImplementsStream == Stream!StreamSpec

\* A frame written on a connection that lives is read, however often select! takes
\* another branch.
FramesArrive ==
    \A n \in 1 .. MaxFrames :
       Len(sent) >= n ~> Len(returned) >= n \/ closed # "Open" \/ failed # None
=============================================================================
