------------------------------ MODULE FrameProofs ------------------------------
(* The frame codec keeps its place in the stream and implements FrameStream,  *)
(* for frames of any sizes in chunks of any size.                             *)
EXTENDS FrameReader, TLAPS

\* The frames lie one behind the other, and end with the stream unless the last is cut.
Laid ==
    /\ \A i \in 1 .. Len(sent) : EndOf(sent, i - 1) = sent[i].at
    /\ \A i, j \in 1 .. Len(sent) : i < j => EndOf(sent, i) <= sent[j].at
    /\ closed # "Cut" => end = EndOf(sent, Len(sent))
    /\ closed = "Cut" => /\ Len(sent) > 0
                         /\ sent[Len(sent)].at < end /\ end < EndOf(sent, Len(sent))

\* What has been returned is the beginning of what was sent, and the buffer starts
\* behind it.
InPlace ==
    /\ Len(returned) <= Len(sent)
    /\ \A i \in 1 .. Len(returned) : returned[i] = sent[i]
    /\ Aligned

\* The buffer does not hold the whole of the next frame.
Short == \/ pushed - start < HeaderLen
         \/ /\ Len(returned) < Len(sent)
            /\ pushed - start < HeaderLen + sent[Len(returned) + 1].len
            /\ sent[Len(returned) + 1].len <= MAX_FRAME_LEN

\* Why a connection failed stays true of it: the next frame is one the protocol does
\* not allow, or the pipe is at its end and holds no whole frame.
FailedRightly ==
    /\ failed \in {"TooLarge", "UnknownOpCode"} =>
          /\ Len(returned) < Len(sent)
          /\ ~WellFormed(sent[Len(returned) + 1])
          /\ pushed - start >= HeaderLen
          /\ \/ sent[Len(returned) + 1].len > MAX_FRAME_LEN
             \/ pushed - start >= HeaderLen + sent[Len(returned) + 1].len
    /\ failed = "PipeClosed" => closed # "Open" /\ pushed = end /\ Short

IInv == /\ TypeOK /\ Laid /\ InPlace /\ FailedRightly
        /\ reading = "Awaiting" => Short

USE FrameAssumption

LEMMA InitInv == Init => IInv
<1> SUFFICES ASSUME Init PROVE IInv
  OBVIOUS
<1> QED
  BY DEF Init, IInv, TypeOK, Laid, InPlace, FailedRightly, Aligned, EndOf, Frame

\* What the offsets are, and that they grow with the frames.
LEMMA Offsets ==
  ASSUME TypeOK
  PROVE  /\ Len(sent) \in Nat /\ Len(returned) \in Nat
         /\ HeaderLen \in Nat /\ HeaderLen > 0
         /\ end \in Nat /\ pushed \in Nat /\ start \in Nat /\ start <= pushed /\ pushed <= end
         /\ \A i \in 1 .. Len(sent) : sent[i] \in Frame /\ sent[i].at \in Nat
                                      /\ sent[i].len \in Nat
         /\ \A k \in 0 .. Len(sent) : EndOf(sent, k) \in Nat
         /\ \A i \in 1 .. Len(sent) : sent[i].at + HeaderLen + sent[i].len = EndOf(sent, i)
<1>1. \A i \in 1 .. Len(sent) : sent[i] \in Frame
  BY DEF TypeOK
<1>2. \A i \in 1 .. Len(sent) : sent[i].at \in Nat /\ sent[i].len \in Nat
  BY <1>1 DEF Frame
<1>3. Len(sent) \in Nat /\ Len(returned) \in Nat
  BY DEF TypeOK
<1>4. \A k \in 0 .. Len(sent) : EndOf(sent, k) \in Nat
  BY <1>2, <1>3 DEF EndOf
<1>5. \A i \in 1 .. Len(sent) : sent[i].at + HeaderLen + sent[i].len = EndOf(sent, i)
  BY <1>3 DEF EndOf
<1> QED BY <1>1, <1>2, <1>3, <1>4, <1>5 DEF TypeOK

LEMMA Ordered ==
  ASSUME TypeOK, Laid
  PROVE  /\ \A i, j \in 0 .. Len(sent) : i < j => EndOf(sent, i) < EndOf(sent, j)
         /\ \A i \in 0 .. Len(sent) - 1 : EndOf(sent, i) = sent[i + 1].at
<1>1. \A i \in 0 .. Len(sent) - 1 : EndOf(sent, i) = sent[i + 1].at
  <2> SUFFICES ASSUME NEW i \in 0 .. Len(sent) - 1 PROVE EndOf(sent, i) = sent[i + 1].at
    OBVIOUS
  <2>1. i + 1 \in 1 .. Len(sent) /\ (i + 1) - 1 = i
    BY Offsets
  <2> QED BY <2>1 DEF Laid
<1>2. ASSUME NEW i \in 0 .. Len(sent), NEW j \in 0 .. Len(sent), i < j
      PROVE  EndOf(sent, i) < EndOf(sent, j)
  <2>0. j \in 1 .. Len(sent)
    BY <1>2, Offsets
  <2>1. sent[j].at < EndOf(sent, j)
    <3>1. /\ sent[j].at \in Nat /\ sent[j].len \in Nat /\ HeaderLen \in Nat /\ HeaderLen > 0
          /\ sent[j].at + HeaderLen + sent[j].len = EndOf(sent, j)
      BY <2>0, Offsets
    <3> QED BY <3>1
  <2>2. EndOf(sent, i) <= sent[j].at
    <3>1. CASE i = 0
      BY <3>1, <1>2, Offsets DEF EndOf
    <3>2. CASE i > 0
      BY <2>0, <3>2, <1>2, Offsets DEF Laid
    <3> QED BY <3>1, <3>2, Offsets
  <2> QED BY <2>1, <2>2, <1>2, Offsets
<1> QED BY <1>1, <1>2

-----------------------------------------------------------------------------
\* The frames that were there keep their places when one is added behind them.
LEMMA WriteStep == IInv /\ PeerWrites => IInv' /\ [Stream!Write]_streamVars
<1> SUFFICES ASSUME IInv, PeerWrites PROVE IInv' /\ Stream!Write
  OBVIOUS
<1>0. TypeOK /\ Laid /\ InPlace /\ FailedRightly /\ (reading = "Awaiting" => Short)
  BY DEF IInv
<1>1. PICK opcode \in AnyOpCode, len \in 0 .. MAX_FRAME_LEN + 1 :
         /\ sent' = Append(sent, [at |-> end, opcode |-> opcode, len |-> len])
         /\ end' = end + HeaderLen + len
  BY DEF PeerWrites
<1>a. closed = "Open" /\ UNCHANGED <<returned, failed, closed, pushed, start, reading>>
  BY DEF PeerWrites
<1>b. len \in Nat
  OBVIOUS
<1> DEFINE frame == [at |-> end, opcode |-> opcode, len |-> len]
<1>c. frame \in Frame
  BY <1>0 DEF TypeOK, Frame
<1>2. /\ Len(sent') = Len(sent) + 1
      /\ \A i \in 1 .. Len(sent) : sent'[i] = sent[i]
      /\ sent'[Len(sent) + 1] = frame
  BY <1>0, <1>1 DEF TypeOK
<1>3. TypeOK'
  BY <1>0, <1>1, <1>a, <1>b, <1>c, Offsets DEF TypeOK
<1>4. \A k \in 0 .. Len(sent) : EndOf(sent', k) = EndOf(sent, k)
  <2> SUFFICES ASSUME NEW k \in 0 .. Len(sent) PROVE EndOf(sent', k) = EndOf(sent, k)
    OBVIOUS
  <2>1. k # 0 => k \in 1 .. Len(sent)
    BY <1>0, Offsets
  <2> QED BY <2>1, <1>2 DEF EndOf
<1>5. EndOf(sent', Len(sent) + 1) = end'
  BY <1>0, <1>1, <1>2, Offsets DEF EndOf
<1>d. end = EndOf(sent, Len(sent))
  BY <1>0, <1>a DEF Laid
<1>6. Laid'
  <2>1. ASSUME NEW i \in 1 .. Len(sent')
        PROVE  EndOf(sent', i - 1) = sent'[i].at
    <3>0. i - 1 \in 0 .. Len(sent) /\ EndOf(sent', i - 1) = EndOf(sent, i - 1)
      BY <1>0, <1>2, <1>4, Offsets
    <3>1. CASE i \in 1 .. Len(sent)
      BY <3>0, <3>1, <1>0, <1>2 DEF Laid
    <3>2. CASE i = Len(sent) + 1
      <4>1. i - 1 = Len(sent) /\ sent'[i].at = end
        BY <3>2, <1>0, <1>2, Offsets
      <4> QED BY <3>0, <4>1, <1>d
    <3>3. Len(sent) \in Nat /\ Len(sent') = Len(sent) + 1
      BY <1>0, <1>2, Offsets
    <3>4. i \in 1 .. Len(sent) \/ i = Len(sent) + 1
      BY <3>3
    <3> QED BY <3>1, <3>2, <3>4
  <2>2. ASSUME NEW i \in 1 .. Len(sent'), NEW j \in 1 .. Len(sent'), i < j
        PROVE  EndOf(sent', i) <= sent'[j].at
    <3>0. i \in 1 .. Len(sent) /\ EndOf(sent', i) = EndOf(sent, i)
      BY <2>2, <1>0, <1>2, <1>4, Offsets
    <3>1. CASE j \in 1 .. Len(sent)
      BY <2>2, <3>0, <3>1, <1>0, <1>2 DEF Laid
    <3>2. CASE j = Len(sent) + 1
      <4>1. sent'[j].at = end
        BY <3>2, <1>2
      <4>2. EndOf(sent, i) <= EndOf(sent, Len(sent))
        <5>1. i \in 0 .. Len(sent) /\ Len(sent) \in 0 .. Len(sent) /\ i <= Len(sent)
          BY <3>0, <1>0, Offsets
        <5>2. EndOf(sent, i) \in Nat /\ EndOf(sent, Len(sent)) \in Nat
          BY <5>1, <1>0, Offsets
        <5>3. CASE i = Len(sent)
          BY <5>2, <5>3
        <5>4. CASE i < Len(sent)
          <6>1. EndOf(sent, i) < EndOf(sent, Len(sent))
            BY <5>1, <5>4, <1>0, Ordered
          <6> QED BY <6>1, <5>2
        <5> QED BY <5>1, <5>3, <5>4
      <4>3. EndOf(sent', i) <= end
        BY <3>0, <4>2, <1>d
      <4> QED BY <4>1, <4>3
    <3>3. Len(sent) \in Nat /\ Len(sent') = Len(sent) + 1
      BY <1>0, <1>2, Offsets
    <3>4. j \in 1 .. Len(sent) \/ j = Len(sent) + 1
      BY <3>3
    <3> QED BY <3>1, <3>2, <3>4
  <2> QED BY <2>1, <2>2, <1>2, <1>5, <1>a DEF Laid
<1>7. InPlace'
  <2>1. Len(returned)' <= Len(sent') /\ \A i \in 1 .. Len(returned') : returned'[i] = sent'[i]
    BY <1>0, <1>2, <1>a, Offsets DEF InPlace
  <2>2. start' = EndOf(sent', Len(returned'))
    BY <1>0, <1>4, <1>a, Offsets DEF InPlace, Aligned
  <2> QED BY <2>1, <2>2, <1>a DEF InPlace, Aligned
<1>8. ASSUME Len(returned) < Len(sent)
      PROVE  /\ Len(returned) + 1 \in 1 .. Len(sent)
             /\ sent'[Len(returned) + 1] = sent[Len(returned) + 1]
  BY <1>0, <1>2, <1>8, Offsets
<1>e. Len(sent) \in Nat /\ Len(returned) \in Nat /\ Len(sent') = Len(sent) + 1
  BY <1>0, <1>2, Offsets
<1>9. FailedRightly'
  <2>1. failed # "PipeClosed"
    BY <1>0, <1>a DEF FailedRightly
  <2>2. failed \in {"TooLarge", "UnknownOpCode"} => Len(returned) < Len(sent)
    BY <1>0 DEF FailedRightly
  <2> QED BY <2>1, <2>2, <1>0, <1>e, <1>8, <1>a DEF FailedRightly, WellFormed
<1>10. reading' = "Awaiting" => Short'
  BY <1>0, <1>e, <1>8, <1>a DEF Short
<1>11. Stream!Write
  <2>1. SubSeq(sent', 1, Len(sent)) = sent
    BY <1>0, <1>1, <1>c DEF TypeOK
  <2> QED BY <2>1, <1>2, <1>a DEF Stream!Write
<1> QED BY <1>3, <1>6, <1>7, <1>9, <1>10, <1>11 DEF IInv

\* Only frames that have not been returned can be lost, for the reader holds all of
\* the bytes of those it has.
LEMMA CloseStep == IInv /\ PeerCloses => IInv' /\ Stream!Break
<1> SUFFICES ASSUME IInv, PeerCloses PROVE IInv' /\ Stream!Break
  OBVIOUS
<1>0. TypeOK /\ Laid /\ InPlace /\ FailedRightly /\ (reading = "Awaiting" => Short)
  BY DEF IInv
<1>1. PICK k \in 0 .. Len(sent), e \in pushed .. end :
         /\ e <= EndOf(sent, k)
         /\ k > 0 => e > sent[k].at
         /\ sent' = SubSeq(sent, 1, k) /\ end' = e
         /\ closed' = IF e = EndOf(sent, k) THEN "Whole" ELSE "Cut"
  BY DEF PeerCloses
<1>a. closed = "Open" /\ UNCHANGED <<returned, failed, pushed, start, reading>>
  BY DEF PeerCloses
<1>b. k \in Nat /\ e \in Nat /\ pushed <= e /\ k <= Len(sent) /\ EndOf(sent, k) \in Nat
  BY <1>0, Offsets
<1>2. Len(sent') = k /\ \A i \in 1 .. k : sent'[i] = sent[i]
  BY <1>0, <1>1, <1>b DEF TypeOK
<1>3. TypeOK'
  <2>1. sent' \in Seq(Frame)
    BY <1>0, <1>1, <1>b DEF TypeOK
  <2> QED BY <2>1, <1>0, <1>1, <1>a, <1>b DEF TypeOK
<1>4. \A i \in 0 .. k : EndOf(sent', i) = EndOf(sent, i)
  BY <1>2, <1>b DEF EndOf
<1>5. start = EndOf(sent, Len(returned)) /\ Len(returned) \in 0 .. Len(sent)
  BY <1>0, Offsets DEF InPlace, Aligned
<1>6. Len(returned) <= k
  <2> SUFFICES ASSUME k < Len(returned) PROVE FALSE
    BY <1>0, <1>b, Offsets
  <2>1. EndOf(sent, k) < EndOf(sent, Len(returned))
    BY <1>0, <1>5, Ordered
  <2> QED BY <2>1, <1>0, <1>1, <1>5, <1>b, Offsets
<1>7. Laid'
  <2>1. \A i \in 1 .. Len(sent') : EndOf(sent', i - 1) = sent'[i].at
    <3> SUFFICES ASSUME NEW i \in 1 .. k PROVE EndOf(sent', i - 1) = sent'[i].at
      BY <1>2
    <3>1. i - 1 \in 0 .. k /\ i \in 1 .. Len(sent)
      BY <1>b
    <3> QED BY <3>1, <1>0, <1>2, <1>4 DEF Laid
  <2>2. \A i, j \in 1 .. Len(sent') : i < j => EndOf(sent', i) <= sent'[j].at
    <3> SUFFICES ASSUME NEW i \in 1 .. k, NEW j \in 1 .. k, i < j
                 PROVE  EndOf(sent', i) <= sent'[j].at
      BY <1>2
    <3>1. i \in 0 .. k /\ i \in 1 .. Len(sent) /\ j \in 1 .. Len(sent)
      BY <1>b
    <3> QED BY <3>1, <1>0, <1>2, <1>4 DEF Laid
  <2>3. closed' # "Cut" => end' = EndOf(sent', Len(sent'))
    BY <1>1, <1>2, <1>4, <1>b
  <2>4. closed' = "Cut" => /\ Len(sent') > 0
                           /\ sent'[Len(sent')].at < end' /\ end' < EndOf(sent', Len(sent'))
    <3> SUFFICES ASSUME closed' = "Cut"
                 PROVE  k > 0 /\ sent[k].at < e /\ e < EndOf(sent, k)
      BY <1>1, <1>2, <1>4, <1>b
    <3>1. e # EndOf(sent, k)
      BY <1>1
    <3>2. k # 0
      BY <3>1, <1>1, <1>b DEF EndOf
    <3> QED BY <3>1, <3>2, <1>0, <1>1, <1>b, Offsets
  <2> QED BY <2>1, <2>2, <2>3, <2>4 DEF Laid
<1>8. InPlace'
  <2>1. Len(returned)' <= Len(sent') /\ \A i \in 1 .. Len(returned') : returned'[i] = sent'[i]
    <3>1. Len(returned) \in Nat /\ \A i \in 1 .. Len(returned) : returned[i] = sent[i]
      BY <1>0, Offsets DEF InPlace
    <3>2. \A i \in 1 .. Len(returned) : i \in 1 .. k
      BY <3>1, <1>6, <1>b
    <3> QED BY <3>1, <3>2, <1>2, <1>6, <1>a
  <2>2. start' = EndOf(sent', Len(returned'))
    BY <1>4, <1>5, <1>6, <1>a, <1>b
  <2> QED BY <2>1, <2>2, <1>a DEF InPlace, Aligned
<1>9. Len(returned) = k => pushed - start < HeaderLen
  BY <1>0, <1>1, <1>5, <1>b, Offsets
<1>10. Len(returned) # k => /\ Len(returned) < Len(sent')
                            /\ sent'[Len(returned) + 1] = sent[Len(returned) + 1]
  BY <1>0, <1>2, <1>6, <1>b, Offsets
<1>11. FailedRightly'
  <2>1. ~(failed = "PipeClosed")
    BY <1>0, <1>a DEF FailedRightly
  <2>2. failed \in {"TooLarge", "UnknownOpCode"} => Len(returned) # k
    BY <1>0, <1>9, Offsets DEF FailedRightly
  <2> QED BY <2>1, <2>2, <1>0, <1>10, <1>a DEF FailedRightly, WellFormed
<1>12. reading' = "Awaiting" => Short'
  BY <1>0, <1>9, <1>10, <1>a DEF Short
<1>13. Stream!Break
  BY <1>0, <1>1, <1>6, <1>a, <1>b, Offsets DEF Stream!Break
<1> QED BY <1>3, <1>7, <1>8, <1>11, <1>12, <1>13 DEF IInv

-----------------------------------------------------------------------------
\* With a whole header in the buffer, the header is that of the next frame.
LEMMA NextHeader ==
  ASSUME IInv, NEW p \in pushed .. end, p - start >= HeaderLen
  PROVE  /\ Len(returned) < Len(sent)
         /\ HeadersAt(start) = {sent[Len(returned) + 1]}
<1>0. TypeOK /\ Laid /\ InPlace
  BY DEF IInv
<1>1. start = EndOf(sent, Len(returned)) /\ Len(returned) \in 0 .. Len(sent)
  BY <1>0, Offsets DEF InPlace, Aligned
<1>2. start < end
  <2>1. /\ p \in Nat /\ start \in Nat /\ end \in Nat /\ p <= end
        /\ HeaderLen \in Nat /\ HeaderLen > 0
    BY <1>0, Offsets
  <2> QED BY <2>1
<1>3. Len(returned) < Len(sent)
  <2> SUFFICES ASSUME Len(returned) = Len(sent) PROVE FALSE
    BY <1>0, <1>1, Offsets
  <2> QED BY <1>0, <1>1, <1>2, Offsets DEF Laid, TypeOK
<1> DEFINE n == Len(returned) + 1
<1>4. n \in 1 .. Len(sent) /\ sent[n].at = start
  <2>1. Len(returned) \in 0 .. Len(sent) - 1 /\ n \in 1 .. Len(sent)
    BY <1>0, <1>1, <1>3, Offsets
  <2> QED BY <2>1, <1>0, <1>1, Ordered
<1>5. ASSUME NEW i \in 1 .. Len(sent), sent[i].at = start
      PROVE  i = n
  <2>0. \A k \in 1 .. Len(sent) : EndOf(sent, k) \in Nat /\ sent[k].at \in Nat
                                  /\ sent[k].at < EndOf(sent, k)
    <3> SUFFICES ASSUME NEW k \in 1 .. Len(sent)
                 PROVE  EndOf(sent, k) \in Nat /\ sent[k].at \in Nat
                        /\ sent[k].at < EndOf(sent, k)
      OBVIOUS
    <3>1. /\ sent[k].at \in Nat /\ sent[k].len \in Nat /\ HeaderLen \in Nat /\ HeaderLen > 0
          /\ sent[k].at + HeaderLen + sent[k].len = EndOf(sent, k)
      BY <1>0, Offsets
    <3> QED BY <3>1
  <2>1. CASE i < n
    <3>1. EndOf(sent, i) <= sent[n].at
      BY <2>1, <1>0, <1>4 DEF Laid
    <3> QED BY <3>1, <2>0, <1>4, <1>5
  <2>2. CASE n < i
    <3>1. EndOf(sent, n) <= sent[i].at
      BY <2>2, <1>0, <1>4 DEF Laid
    <3> QED BY <3>1, <2>0, <1>4, <1>5
  <2> QED BY <2>1, <2>2, <1>4, <1>0, Offsets
<1>6. {i \in 1 .. Len(sent) : sent[i].at = start} = {n}
  BY <1>4, <1>5
<1>7. HeadersAt(start) = {sent[i] : i \in {n}}
  BY <1>6 DEF HeadersAt
<1> QED BY <1>3, <1>7

\* What a try can come to when the buffer ends at p.
LEMMA Outcome ==
  ASSUME IInv, NEW p \in pushed .. end, TryReadFrame(p - start),
         failed = "PipeClosed" => p = pushed
  PROVE  \/ /\ Await
            /\ \/ p - start < HeaderLen
               \/ /\ Len(returned) < Len(sent)
                  /\ p - start < HeaderLen + sent[Len(returned) + 1].len
                  /\ sent[Len(returned) + 1].len <= MAX_FRAME_LEN
         \/ /\ Len(returned) < Len(sent)
            /\ ~WellFormed(sent[Len(returned) + 1])
            /\ p - start >= HeaderLen
            /\ \/ sent[Len(returned) + 1].len > MAX_FRAME_LEN
               \/ p - start >= HeaderLen + sent[Len(returned) + 1].len
            /\ \E error \in {"TooLarge", "UnknownOpCode"} : Fail(error)
            /\ failed # "PipeClosed"
         \/ /\ Len(returned) < Len(sent)
            /\ WellFormed(sent[Len(returned) + 1])
            /\ p - start >= HeaderLen + sent[Len(returned) + 1].len
            /\ ReturnFrame(sent[Len(returned) + 1])
            /\ failed = None
<1>0. TypeOK /\ FailedRightly
  BY DEF IInv
<1>1. CASE p - start < HeaderLen
  <2>1. ~(p - start >= HeaderLen)
    BY <1>1, <1>0, Offsets
  <2> QED BY <1>1, <2>1 DEF TryReadFrame
<1>2. CASE p - start >= HeaderLen
  <2> DEFINE next == sent[Len(returned) + 1]
  <2>0. ~(p - start < HeaderLen)
    BY <1>2, <1>0, Offsets
  <2>1. Len(returned) < Len(sent) /\ HeadersAt(start) = {next}
    BY <1>2, NextHeader
  <2>2. next.len \in Nat /\ MAX_FRAME_LEN \in Nat /\ p - start \in Int /\ HeaderLen \in Nat
    <3>1. Len(returned) + 1 \in 1 .. Len(sent)
      BY <2>1, <1>0, Offsets
    <3> QED BY <3>1, <1>0, Offsets
  <2>3. \/ next.len > MAX_FRAME_LEN /\ Fail("TooLarge")
        \/ next.len <= MAX_FRAME_LEN /\ ~Arrived(p - start, next) /\ Await
        \/ /\ next.len <= MAX_FRAME_LEN
           /\ Arrived(p - start, next)
           /\ IF next.opcode \in KnownOpCodes THEN ReturnFrame(next) ELSE Fail("UnknownOpCode")
    BY <2>0, <2>1 DEF TryReadFrame
  <2>4. failed = "PipeClosed" => /\ p - start < HeaderLen + next.len
                                 /\ next.len <= MAX_FRAME_LEN
    BY <1>0, <2>0 DEF FailedRightly, Short
  <2>5. failed \in {"TooLarge", "UnknownOpCode"} => ~WellFormed(next)
    BY <1>0 DEF FailedRightly
  <2>6. CASE next.len > MAX_FRAME_LEN /\ Fail("TooLarge")
    BY <2>6, <2>1, <2>2, <2>4, <1>2 DEF WellFormed
  <2>7. CASE next.len <= MAX_FRAME_LEN /\ ~Arrived(p - start, next) /\ Await
    BY <2>7, <2>1, <2>2 DEF Arrived
  <2>8. CASE /\ next.len <= MAX_FRAME_LEN
             /\ Arrived(p - start, next)
             /\ IF next.opcode \in KnownOpCodes THEN ReturnFrame(next) ELSE Fail("UnknownOpCode")
    <3>1. p - start >= HeaderLen + next.len /\ failed # "PipeClosed"
      BY <2>8, <2>2, <2>4 DEF Arrived
    <3>2. CASE next.opcode \in KnownOpCodes
      <4>1. WellFormed(next) /\ ReturnFrame(next)
        BY <2>8, <3>2 DEF WellFormed
      <4>2. failed = None
        BY <4>1, <3>1, <2>5, <1>0 DEF TypeOK
      <4> QED BY <4>1, <4>2, <3>1, <2>1
    <3>3. CASE next.opcode \notin KnownOpCodes
      <4>1. ~WellFormed(next) /\ Fail("UnknownOpCode")
        BY <2>8, <3>3 DEF WellFormed
      <4> QED BY <4>1, <3>1, <2>1, <1>2
    <3> QED BY <3>2, <3>3
  <2> QED BY <2>3, <2>6, <2>7, <2>8
<1> QED BY <1>1, <1>2, <1>0, Offsets

\* The buffer goes on from where the frame ended, and nothing of the stream is skipped.
LEMMA TryStep ==
  ASSUME IInv, NEW p \in pushed .. end, pushed' = p, TryReadFrame(p - start),
         failed = "PipeClosed" => p = pushed, UNCHANGED <<sent, closed, end>>
  PROVE  IInv' /\ [Stream!Return \/ Stream!Refuse]_streamVars
<1>0. TypeOK /\ Laid /\ InPlace /\ FailedRightly /\ (reading = "Awaiting" => Short)
  BY DEF IInv
<1>1. p \in Nat /\ p <= end /\ pushed <= p /\ start <= p
  BY <1>0, Offsets
<1>2. Laid'
  BY <1>0 DEF Laid
<1> DEFINE next == sent[Len(returned) + 1]
<1>3. CASE /\ Await
           /\ \/ p - start < HeaderLen
              \/ /\ Len(returned) < Len(sent)
                 /\ p - start < HeaderLen + next.len
                 /\ next.len <= MAX_FRAME_LEN
  <2>1. TypeOK'
    BY <1>0, <1>1, <1>3, Offsets DEF TypeOK, Await
  <2>2. InPlace'
    BY <1>0, <1>3 DEF InPlace, Aligned, Await
  <2>3. FailedRightly'
    <3>1. failed = "PipeClosed" => FailedRightly'
      BY <1>0, <1>3 DEF FailedRightly, Short, Await
    <3>2. ASSUME failed \in {"TooLarge", "UnknownOpCode"} PROVE FailedRightly'
      <4>1. Len(returned) + 1 \in 1 .. Len(sent)
        BY <3>2, <1>0, Offsets DEF FailedRightly
      <4>2. next.len \in Nat
        BY <4>1, <1>0, Offsets
      <4>3. p - start >= pushed - start
        BY <1>0, <1>1, Offsets
      <4>4. /\ ~WellFormed(next)
            /\ pushed - start >= HeaderLen
            /\ next.len > MAX_FRAME_LEN \/ pushed - start >= HeaderLen + next.len
        BY <3>2, <1>0 DEF FailedRightly
      <4>5. p \in Nat /\ pushed \in Nat /\ start \in Nat /\ HeaderLen \in Nat
        BY <1>0, <1>1, Offsets
      <4> HIDE DEF next
      <4>6. FALSE
        BY <4>2, <4>3, <4>4, <4>5, <1>3
      <4> QED BY <4>6
    <3>3. failed = None => FailedRightly'
      BY <1>3 DEF FailedRightly, Await
    <3> QED BY <3>1, <3>2, <3>3, <1>0 DEF TypeOK
  <2>4. Short'
    BY <1>3 DEF Short, Await
  <2>5. UNCHANGED streamVars
    BY <1>3 DEF Await, streamVars
  <2> QED BY <2>1, <2>2, <2>3, <2>4, <2>5, <1>2 DEF IInv
<1>4. CASE /\ Len(returned) < Len(sent)
           /\ ~WellFormed(next)
           /\ p - start >= HeaderLen
           /\ \/ next.len > MAX_FRAME_LEN
              \/ p - start >= HeaderLen + next.len
           /\ \E error \in {"TooLarge", "UnknownOpCode"} : Fail(error)
           /\ failed # "PipeClosed"
  <2>1. /\ failed' \in {"TooLarge", "UnknownOpCode"} /\ reading' = "Idle"
        /\ UNCHANGED <<returned, start>>
        /\ failed # None => failed' = failed
    BY <1>0, <1>4 DEF Fail, TypeOK
  <2>2. TypeOK'
    BY <1>0, <1>1, <2>1, Offsets DEF TypeOK
  <2>3. InPlace'
    BY <1>0, <2>1 DEF InPlace, Aligned
  <2>4. FailedRightly'
    BY <1>4, <2>1 DEF FailedRightly, WellFormed
  <2>5. [Stream!Refuse]_streamVars
    BY <1>4, <2>1 DEF Stream!Refuse, Stream!NextFrame, streamVars
  <2> QED BY <2>1, <2>2, <2>3, <2>4, <2>5, <1>2 DEF IInv
<1>5. CASE /\ Len(returned) < Len(sent)
           /\ WellFormed(next)
           /\ p - start >= HeaderLen + next.len
           /\ ReturnFrame(next)
           /\ failed = None
  <2> DEFINE n == Len(returned) + 1
  <2>1. /\ returned' = Append(returned, next)
        /\ start' = start + HeaderLen + next.len
        /\ reading' = "Idle" /\ failed' = failed
    BY <1>5 DEF ReturnFrame
  <2>2. n \in 1 .. Len(sent) /\ next \in Frame /\ next.len \in Nat /\ next.at \in Nat
    <3>1. n \in 1 .. Len(sent)
      BY <1>0, <1>5, Offsets
    <3> QED BY <3>1, <1>0, Offsets
  <2>3. /\ Len(returned') = n
        /\ \A i \in 1 .. Len(returned) : returned'[i] = returned[i]
        /\ returned'[n] = next
        /\ returned' \in Seq(Frame)
    BY <2>1, <2>2, <1>0 DEF TypeOK
  <2>4. start' = EndOf(sent, n) /\ start' \in Nat /\ start' <= p
    <3>1. start = next.at
      <4>1. n - 1 = Len(returned)
        BY <1>0, Offsets
      <4> QED BY <4>1, <2>2, <1>0 DEF Laid, InPlace, Aligned
    <3>2. next.at + HeaderLen + next.len = EndOf(sent, n)
      BY <2>2, <1>0, Offsets
    <3>3. start \in Nat /\ HeaderLen \in Nat
      BY <1>0, Offsets
    <3>4. p \in Nat /\ p - start >= HeaderLen + next.len
      BY <1>1, <1>5
    <3> HIDE DEF next, n
    <3>5. start' = EndOf(sent, n)
      BY <3>1, <3>2, <2>1
    <3>6. start' \in Nat /\ start' <= p
      BY <3>3, <3>4, <2>1, <2>2
    <3> QED BY <3>5, <3>6
  <2>5. TypeOK'
    BY <1>0, <1>1, <2>1, <2>3, <2>4, Offsets DEF TypeOK
  <2>6. InPlace'
    <3>1. \A i \in 1 .. Len(returned') : returned'[i] = sent[i]
      <4>1. Len(returned) \in Nat /\ \A i \in 1 .. Len(returned) : returned[i] = sent[i]
        BY <1>0, Offsets DEF InPlace
      <4> QED BY <4>1, <2>3
    <3>2. n <= Len(sent)
      BY <2>2
    <3> QED BY <3>1, <3>2, <2>3, <2>4 DEF InPlace, Aligned
  <2>7. FailedRightly'
    BY <1>0, <1>5, <2>1 DEF FailedRightly, TypeOK
  <2>8. Stream!Return
    <3>1. ASSUME closed = "Cut" PROVE n < Len(sent)
      <4>1. EndOf(sent, n) <= end /\ end < EndOf(sent, Len(sent))
        BY <3>1, <2>4, <1>0, <1>1, Offsets DEF Laid
      <4>2. n # Len(sent)
        BY <4>1, <2>2, <2>4, <1>0, Offsets
      <4> QED BY <4>2, <2>2, <1>0, Offsets
    <3>2. Stream!Complete
      BY <3>1, <1>5 DEF Stream!Complete
    <3> QED BY <3>2, <2>1, <1>5 DEF Stream!Return, Stream!NextFrame
  <2> QED BY <2>1, <2>5, <2>6, <2>7, <2>8, <1>2 DEF IInv
<1> QED BY <1>3, <1>4, <1>5, Outcome

-----------------------------------------------------------------------------
\* Every step keeps the invariant, and is one of FrameStream's or none that it sees.
LEMMA NextStep ==
  ASSUME IInv, [Next]_vars
  PROVE  IInv' /\ [Stream!StreamNext]_streamVars
<1>0. TypeOK /\ Laid /\ InPlace /\ FailedRightly /\ (reading = "Awaiting" => Short)
  BY DEF IInv
<1>1. CASE PeerWrites
  BY <1>1, WriteStep DEF Stream!StreamNext
<1>2. CASE PeerCloses
  BY <1>2, CloseStep DEF Stream!StreamNext
<1>3. CASE ReadFrame
  <2>1. /\ pushed \in pushed .. end /\ pushed' = pushed /\ TryReadFrame(pushed - start)
        /\ UNCHANGED <<sent, closed, end>>
    BY <1>0, <1>3, Offsets DEF ReadFrame
  <2>2. IInv' /\ [Stream!Return \/ Stream!Refuse]_streamVars
    BY <2>1, TryStep
  <2> QED BY <2>2 DEF Stream!StreamNext
<1>4. CASE PipeReady
  <2>1. PICK p \in pushed + 1 .. pushed + READ_CHUNK :
           p <= end /\ pushed' = p /\ TryReadFrame(p - start)
    BY <1>4 DEF PipeReady
  <2>2. p \in pushed .. end /\ pushed < p
    BY <2>1, <1>0, Offsets
  <2>3. failed # "PipeClosed"
    BY <2>1, <2>2, <1>0, Offsets DEF FailedRightly
  <2>4. UNCHANGED <<sent, closed, end>>
    BY <1>4 DEF PipeReady
  <2>5. IInv' /\ [Stream!Return \/ Stream!Refuse]_streamVars
    BY <2>1, <2>2, <2>3, <2>4, TryStep
  <2> QED BY <2>5 DEF Stream!StreamNext
<1>5. CASE PipeAtEnd
  <2>1. /\ pushed = end /\ closed # "Open" /\ Short
        /\ failed' = IF failed = None THEN "PipeClosed" ELSE failed
        /\ reading' = "Idle" /\ UNCHANGED <<sent, returned, closed, end, pushed, start>>
    BY <1>0, <1>5 DEF PipeAtEnd, Fail
  <2>2. TypeOK' /\ Laid' /\ InPlace'
    BY <2>1, <1>0 DEF TypeOK, Laid, InPlace, Aligned
  <2>3. FailedRightly'
    BY <2>1, <1>0 DEF FailedRightly, Short, TypeOK
  <2>4. ASSUME failed = None PROVE Stream!EndOfStream
    <3>1. ~Stream!Complete
      <4> SUFFICES ASSUME Stream!Complete PROVE FALSE
        OBVIOUS
      <4> DEFINE n == Len(returned) + 1
      <4>1. n \in 1 .. Len(sent) /\ (closed = "Cut" => n < Len(sent))
        BY <1>0, Offsets DEF Stream!Complete
      <4>2. start = sent[n].at
        <5>1. n - 1 = Len(returned)
          BY <1>0, Offsets
        <5> QED BY <5>1, <4>1, <1>0 DEF Laid, InPlace, Aligned
      <4>3. /\ sent[n].at + HeaderLen + sent[n].len = EndOf(sent, n)
            /\ sent[n].len \in Nat /\ sent[n].at \in Nat /\ HeaderLen \in Nat
        BY <4>1, <1>0, Offsets
      <4>4. EndOf(sent, n) <= end
        <5>1. CASE closed = "Cut"
          <6>1. Len(sent) \in 1 .. Len(sent) /\ n < Len(sent)
            BY <4>1, <5>1, <1>0, Offsets
          <6>2. EndOf(sent, n) <= sent[Len(sent)].at /\ sent[Len(sent)].at < end
            BY <4>1, <5>1, <6>1, <1>0 DEF Laid
          <6> QED BY <6>1, <6>2, <4>1, <1>0, Offsets
        <5>2. CASE closed # "Cut"
          <6>1. end = EndOf(sent, Len(sent))
            BY <5>2, <1>0 DEF Laid
          <6>2. /\ n \in 0 .. Len(sent) /\ Len(sent) \in 0 .. Len(sent)
                /\ EndOf(sent, Len(sent)) \in Nat
            BY <4>1, <1>0, Offsets
          <6>3. n < Len(sent) => EndOf(sent, n) < EndOf(sent, Len(sent))
            BY <6>2, <1>0, Ordered
          <6>4. EndOf(sent, n) \in Nat
            BY <6>2, <1>0, Offsets
          <6>5. n = Len(sent) => EndOf(sent, n) = EndOf(sent, Len(sent))
            OBVIOUS
          <6> QED BY <6>1, <6>2, <6>3, <6>4, <6>5, <4>1
        <5> QED BY <5>1, <5>2
      <4>5. pushed - start >= HeaderLen + sent[n].len /\ pushed - start >= HeaderLen
        <5>1. pushed = end /\ start \in Nat /\ end \in Nat
          BY <2>1, <1>0, Offsets
        <5>2. EndOf(sent, n) = start + HeaderLen + sent[n].len
          BY <4>2, <4>3
        <5> HIDE DEF n
        <5> QED BY <5>1, <5>2, <4>3, <4>4
      <4> QED BY <4>3, <4>5, <2>1, <1>0, Offsets DEF Short
    <3> QED BY <3>1, <2>1, <2>4 DEF Stream!EndOfStream
  <2>5. [Stream!StreamNext]_streamVars
    BY <2>1, <2>4 DEF Stream!StreamNext, streamVars
  <2> QED BY <2>1, <2>2, <2>3, <2>5 DEF IInv
<1>6. CASE ReadDropped
  BY <1>0, <1>6 DEF ReadDropped, streamVars, IInv, TypeOK, Laid, InPlace, Aligned, FailedRightly,
                    Short
<1>7. CASE Reconnect
  <2>1. Init'
    BY <1>7 DEF Reconnect, Init
  <2>2. IInv'
    BY <1>7 DEF Reconnect, IInv, TypeOK, Laid, InPlace, FailedRightly, Aligned, EndOf
  <2>3. Stream!Reconnect
    BY <1>7 DEF Reconnect, Stream!Reconnect
  <2> QED BY <2>2, <2>3 DEF Stream!StreamNext
<1>8. CASE UNCHANGED vars
  BY <1>0, <1>8 DEF vars, streamVars, readerVars, IInv, TypeOK, Laid, InPlace, Aligned,
                    FailedRightly, Short
<1> QED BY <1>1, <1>2, <1>3, <1>4, <1>5, <1>6, <1>7, <1>8 DEF Next

\* The whole of it holds in every state that the reader can be in.
THEOREM Invariance == Spec => []IInv
<1>1. IInv /\ [Next]_vars => IInv'
  BY NextStep
<1> QED BY <1>1, InitInv, PTL DEF Spec

\* The variables of frame.rs and read_frame keep their types: the buffer never begins
\* before or ends behind the stream.
THEOREM TypeCorrect == Spec => []TypeOK
<1>1. IInv => TypeOK
  BY DEF IInv
<1> QED BY <1>1, Invariance, PTL

\* read_frame never loses its place, for frames of all lengths in chunks of any sizes,
\* with reads abandoned and errors met anywhere.
THEOREM KeepsItsPlace == Spec => []Aligned
<1>1. IInv => Aligned
  BY DEF IInv, InPlace
<1> QED BY <1>1, Invariance, PTL

\* The codec implements the stream of frames.
THEOREM Implementation == Spec => ImplementsStream
<1>1. Init => Stream!Start
  BY DEF Init, Stream!Start
<1>2. IInv /\ [Next]_vars => [Stream!StreamNext]_(Stream!streamVars)
  BY NextStep DEF streamVars, Stream!streamVars
<1> QED BY <1>1, <1>2, Invariance, PTL DEF Spec, ImplementsStream, Stream!StreamSpec
=============================================================================
