----------------------------- MODULE SessionProofs -----------------------------
(* The coordinator hears Discord's states in order, to the last while no      *)
(* authorization fails, and forgets them with the session, for channels of    *)
(* any capacity and any number of broken sessions.                            *)
EXTENDS DiscordSession, TLAPS

\* Events, or frames, that tell states between lo and hi, in order.
EventsTell(seq, lo, hi) ==
    /\ \A i \in 1 .. Len(seq) : seq[i].type = "VoiceSettings" => seq[i].version \in lo .. hi
    /\ \A i, j \in 1 .. Len(seq) :
          i < j /\ seq[i].type = "VoiceSettings" /\ seq[j].type = "VoiceSettings"
             => seq[i].version <= seq[j].version

FramesTell(seq, lo, hi) ==
    /\ \A i \in 1 .. Len(seq) : seq[i].ok => seq[i].version \in lo .. hi
    /\ \A i, j \in 1 .. Len(seq) :
          i < j /\ seq[i].ok /\ seq[j].ok => seq[i].version <= seq[j].version

\* What is on its way to the coordinator tells Discord's states in order, those ahead
\* the older ones.
InOrder ==
    \E a, b \in Nat : /\ EventsTell(events, latest, a)
                      /\ EventsTell(saying, a, b)
                      /\ FramesTell(to_client, b, version)
                      /\ latest <= a /\ a <= b /\ b <= version

\* What the coordinator believes is out of date, and it will learn that.
Forgets ==
    \/ /\ heard = None
       /\ \A i \in 1 .. Len(events) : events[i].type # "VoiceSettings"
    \/ \E i \in 1 .. Len(events) :
          /\ LosesDiscord(events[i].type)
          /\ \A j \in 1 .. Len(events) : i < j => events[j].type # "VoiceSettings"

Ended == client = "Sleeping" =>
            \/ saying = <<Says("Disconnected")>>
            \/ saying = <<>> /\ Forgets

IInv == TypeOK /\ InOrder /\ Ended

USE SessionAssumption

-----------------------------------------------------------------------------
(* Sequences of events and frames.                                           *)

LEMMA OfEmpty == ASSUME NEW S PROVE <<>> \in Seq(S) /\ Len(<<>>) = 0
OBVIOUS

LEMMA OfAppend ==
  ASSUME NEW S, NEW q \in Seq(S), NEW x \in S
  PROVE  /\ Append(q, x) \in Seq(S) /\ Append(q, x) # <<>>
         /\ Len(q) \in Nat /\ Len(Append(q, x)) = Len(q) + 1
         /\ \A i \in 1 .. Len(q) : Append(q, x)[i] = q[i]
         /\ Append(q, x)[Len(q) + 1] = x
OBVIOUS

LEMMA OfTail ==
  ASSUME NEW S, NEW q \in Seq(S), q # <<>>
  PROVE  /\ Tail(q) \in Seq(S) /\ Head(q) \in S /\ Head(q) = q[1]
         /\ Len(q) \in Nat /\ Len(q) >= 1 /\ Len(Tail(q)) = Len(q) - 1
         /\ \A i \in 1 .. Len(q) - 1 : Tail(q)[i] = q[i + 1]
OBVIOUS

LEMMA EventsAppend ==
  ASSUME NEW q \in Seq(Event), NEW m \in Event, NEW lo \in Nat, NEW hi \in Nat, NEW hi2 \in Nat,
         lo <= hi, hi <= hi2, EventsTell(q, lo, hi),
         m.type = "VoiceSettings" => hi <= m.version /\ m.version <= hi2
  PROVE  EventsTell(Append(q, m), lo, hi2)
<1>1. /\ Len(q) \in Nat /\ Len(Append(q, m)) = Len(q) + 1
      /\ \A i \in 1 .. Len(q) : Append(q, m)[i] = q[i]
      /\ Append(q, m)[Len(q) + 1] = m
  BY OfAppend
<1> DEFINE r == Append(q, m)
<1>2. m.version \in Nat
  BY DEF Event
<1>3. \A i \in 1 .. Len(q) : q[i].type = "VoiceSettings" =>
         q[i].version \in Nat /\ lo <= q[i].version /\ q[i].version <= hi
  BY DEF EventsTell
<1>4. ASSUME NEW i \in 1 .. Len(r), r[i].type = "VoiceSettings" PROVE r[i].version \in lo .. hi2
  <2>1. CASE i \in 1 .. Len(q)
    BY <2>1, <1>1, <1>3, <1>4
  <2>2. CASE i = Len(q) + 1
    BY <2>2, <1>1, <1>2, <1>4
  <2> QED BY <2>1, <2>2, <1>1
<1>5. ASSUME NEW i \in 1 .. Len(r), NEW j \in 1 .. Len(r), i < j,
             r[i].type = "VoiceSettings", r[j].type = "VoiceSettings"
      PROVE  r[i].version <= r[j].version
  <2>1. i \in 1 .. Len(q)
    BY <1>1, <1>5
  <2>2. CASE j \in 1 .. Len(q)
    BY <2>1, <2>2, <1>1, <1>5 DEF EventsTell
  <2>3. CASE j = Len(q) + 1
    BY <2>1, <2>3, <1>1, <1>2, <1>3, <1>5
  <2> QED BY <2>2, <2>3, <1>1
<1> QED BY <1>4, <1>5 DEF EventsTell

LEMMA FramesAppend ==
  ASSUME NEW q \in Seq(Frame), NEW m \in Frame, NEW lo \in Nat, NEW hi \in Nat, NEW hi2 \in Nat,
         lo <= hi, hi <= hi2, FramesTell(q, lo, hi),
         m.ok => hi <= m.version /\ m.version <= hi2
  PROVE  FramesTell(Append(q, m), lo, hi2)
<1>1. /\ Len(q) \in Nat /\ Len(Append(q, m)) = Len(q) + 1
      /\ \A i \in 1 .. Len(q) : Append(q, m)[i] = q[i]
      /\ Append(q, m)[Len(q) + 1] = m
  BY OfAppend
<1> DEFINE r == Append(q, m)
<1>2. m.version \in Nat
  BY DEF Frame
<1>3. \A i \in 1 .. Len(q) : q[i].ok =>
         q[i].version \in Nat /\ lo <= q[i].version /\ q[i].version <= hi
  BY DEF FramesTell
<1>4. ASSUME NEW i \in 1 .. Len(r), r[i].ok PROVE r[i].version \in lo .. hi2
  <2>1. CASE i \in 1 .. Len(q)
    BY <2>1, <1>1, <1>3, <1>4
  <2>2. CASE i = Len(q) + 1
    BY <2>2, <1>1, <1>2, <1>4
  <2> QED BY <2>1, <2>2, <1>1
<1>5. ASSUME NEW i \in 1 .. Len(r), NEW j \in 1 .. Len(r), i < j, r[i].ok, r[j].ok
      PROVE  r[i].version <= r[j].version
  <2>1. i \in 1 .. Len(q)
    BY <1>1, <1>5
  <2>2. CASE j \in 1 .. Len(q)
    BY <2>1, <2>2, <1>1, <1>5 DEF FramesTell
  <2>3. CASE j = Len(q) + 1
    BY <2>1, <2>3, <1>1, <1>2, <1>3, <1>5
  <2> QED BY <2>2, <2>3, <1>1
<1> QED BY <1>4, <1>5 DEF FramesTell

\* What follows a state told is told from there on.
LEMMA EventsTail ==
  ASSUME NEW q \in Seq(Event), q # <<>>, NEW lo \in Nat, NEW hi \in Nat, EventsTell(q, lo, hi)
  PROVE  IF Head(q).type = "VoiceSettings"
         THEN Head(q).version \in lo .. hi /\ EventsTell(Tail(q), Head(q).version, hi)
         ELSE EventsTell(Tail(q), lo, hi)
<1>1. /\ Len(q) \in Nat /\ Len(q) >= 1 /\ Len(Tail(q)) = Len(q) - 1 /\ Head(q) = q[1]
      /\ \A i \in 1 .. Len(q) - 1 : Tail(q)[i] = q[i + 1]
  BY OfTail
<1>2. \A i \in 1 .. Len(Tail(q)) : i + 1 \in 1 .. Len(q) /\ 1 < i + 1 /\ Tail(q)[i] = q[i + 1]
  BY <1>1
<1>3. 1 \in 1 .. Len(q)
  BY <1>1
<1>4. EventsTell(Tail(q), lo, hi)
  BY <1>1, <1>2 DEF EventsTell
<1>5. ASSUME Head(q).type = "VoiceSettings"
      PROVE  Head(q).version \in lo .. hi /\ EventsTell(Tail(q), Head(q).version, hi)
  <2>1. Head(q).version \in lo .. hi
    BY <1>1, <1>3, <1>5 DEF EventsTell
  <2>2. \A i \in 1 .. Len(Tail(q)) : Tail(q)[i].type = "VoiceSettings" =>
           Head(q).version <= Tail(q)[i].version /\ Tail(q)[i].version \in lo .. hi
    BY <1>1, <1>2, <1>3, <1>5 DEF EventsTell
  <2>3. \A i \in 1 .. Len(Tail(q)) : Tail(q)[i].type = "VoiceSettings" =>
           Tail(q)[i].version \in Head(q).version .. hi
    BY <2>1, <2>2
  <2> QED BY <2>1, <2>3, <1>4 DEF EventsTell
<1> QED BY <1>4, <1>5

LEMMA FramesTail ==
  ASSUME NEW q \in Seq(Frame), q # <<>>, NEW lo \in Nat, NEW hi \in Nat, FramesTell(q, lo, hi)
  PROVE  /\ FramesTell(Tail(q), lo, hi)
         /\ Head(q).ok => Head(q).version \in lo .. hi /\ FramesTell(Tail(q), Head(q).version, hi)
<1>1. /\ Len(q) \in Nat /\ Len(q) >= 1 /\ Len(Tail(q)) = Len(q) - 1 /\ Head(q) = q[1]
      /\ \A i \in 1 .. Len(q) - 1 : Tail(q)[i] = q[i + 1]
  BY OfTail
<1>2. \A i \in 1 .. Len(Tail(q)) : i + 1 \in 1 .. Len(q) /\ 1 < i + 1 /\ Tail(q)[i] = q[i + 1]
  BY <1>1
<1>3. 1 \in 1 .. Len(q)
  BY <1>1
<1>4. FramesTell(Tail(q), lo, hi)
  BY <1>1, <1>2 DEF FramesTell
<1>5. ASSUME Head(q).ok
      PROVE  Head(q).version \in lo .. hi /\ FramesTell(Tail(q), Head(q).version, hi)
  <2>1. Head(q).version \in lo .. hi
    BY <1>1, <1>3, <1>5 DEF FramesTell
  <2>2. \A i \in 1 .. Len(Tail(q)) : Tail(q)[i].ok =>
           Head(q).version <= Tail(q)[i].version /\ Tail(q)[i].version \in lo .. hi
    BY <1>1, <1>2, <1>3, <1>5 DEF FramesTell
  <2> QED BY <2>1, <2>2, <1>4 DEF FramesTell
<1> QED BY <1>4, <1>5

LEMMA FramesPrefix ==
  ASSUME NEW q \in Seq(Frame), NEW k \in 0 .. Len(q), NEW lo, NEW hi, FramesTell(q, lo, hi)
  PROVE  SubSeq(q, 1, k) \in Seq(Frame) /\ FramesTell(SubSeq(q, 1, k), lo, hi)
<1>1. /\ SubSeq(q, 1, k) \in Seq(Frame) /\ Len(SubSeq(q, 1, k)) = k /\ k <= Len(q)
      /\ \A i \in 1 .. k : SubSeq(q, 1, k)[i] = q[i]
  OBVIOUS
<1> QED BY <1>1 DEF FramesTell

-----------------------------------------------------------------------------
(* What the steps do to the order.                                           *)

Silent(seq) == \A i \in 1 .. Len(seq) : seq[i].type # "VoiceSettings"

\* Frames may be dropped anywhere, and what tells nothing be said.
LEMMA DropsInOrder ==
  ASSUME InOrder, TypeOK, UNCHANGED <<events, latest, version>>,
         saying' = saying \/ Silent(saying'),
         \/ to_client' \in {to_client, <<>>}
         \/ to_client # <<>> /\ to_client' = Tail(to_client)
         \/ \E k \in 0 .. Len(to_client) : to_client' = SubSeq(to_client, 1, k)
  PROVE  InOrder' /\ to_client' \in Seq(Frame)
<1>1. PICK a \in Nat, b \in Nat :
         /\ EventsTell(events, latest, a) /\ EventsTell(saying, a, b)
         /\ FramesTell(to_client, b, version)
         /\ latest <= a /\ a <= b /\ b <= version
  BY DEF InOrder
<1>2. EventsTell(saying', a, b)
  BY <1>1 DEF EventsTell, Silent
<1>3. FramesTell(to_client', b, version) /\ to_client' \in Seq(Frame)
  <2>1. to_client \in Seq(Frame) /\ version \in Nat
    BY DEF TypeOK
  <2>2. CASE to_client' = to_client
    BY <2>1, <2>2, <1>1
  <2>3. CASE to_client' = <<>>
    BY <2>3, OfEmpty DEF FramesTell
  <2>4. CASE to_client # <<>> /\ to_client' = Tail(to_client)
    BY <2>1, <2>4, <1>1, FramesTail, OfTail
  <2>5. CASE \E k \in 0 .. Len(to_client) : to_client' = SubSeq(to_client, 1, k)
    BY <2>1, <2>5, <1>1, FramesPrefix
  <2> QED BY <2>2, <2>3, <2>4, <2>5
<1> QED BY <1>1, <1>2, <1>3 DEF InOrder

\* The client says what the frame it has read tells.
LEMMA TellsInOrder ==
  ASSUME InOrder, TypeOK, saying = <<>>, to_client # <<>>, to_client' = Tail(to_client),
         Head(to_client).ok, NEW rest \in Seq(Event), Silent(rest),
         saying' = <<Voice(Head(to_client).version)>> \o rest,
         UNCHANGED <<events, latest, version>>
  PROVE  InOrder' /\ to_client' \in Seq(Frame) /\ saying' \in Seq(Event)
<1>1. PICK a \in Nat, b \in Nat :
         /\ EventsTell(events, latest, a) /\ EventsTell(saying, a, b)
         /\ FramesTell(to_client, b, version)
         /\ latest <= a /\ a <= b /\ b <= version
  BY DEF InOrder
<1> DEFINE v == Head(to_client).version
<1>2. /\ to_client' \in Seq(Frame) /\ v \in b .. version /\ FramesTell(to_client', v, version)
      /\ version \in Nat
  BY <1>1, FramesTail, OfTail DEF TypeOK
<1>3. v \in Nat /\ a <= v
  BY <1>1, <1>2
<1>4. Voice(v) \in Event /\ Voice(v).type = "VoiceSettings" /\ Voice(v).version = v
  BY <1>3 DEF Voice, Event
<1>5. /\ saying' \in Seq(Event) /\ Len(rest) \in Nat /\ Len(saying') = 1 + Len(rest)
      /\ saying'[1] = Voice(v)
      /\ \A i \in 2 .. Len(saying') : saying'[i] = rest[i - 1]
  <2> HIDE DEF v
  <2>1. saying' = <<Voice(v)>> \o rest
    BY DEF v
  <2>2. <<Voice(v)>> \in Seq(Event) /\ Len(<<Voice(v)>>) = 1 /\ <<Voice(v)>>[1] = Voice(v)
    BY <1>4
  <2> QED BY <2>1, <2>2
<1>6. \A i \in 2 .. Len(saying') : saying'[i].type # "VoiceSettings"
  <2> SUFFICES ASSUME NEW i \in 2 .. Len(saying') PROVE saying'[i].type # "VoiceSettings"
    OBVIOUS
  <2>1. i - 1 \in 1 .. Len(rest) /\ saying'[i] = rest[i - 1]
    BY <1>5
  <2> QED BY <2>1 DEF Silent
<1>7. EventsTell(saying', a, v)
  <2>1. \A i \in 1 .. Len(saying') : saying'[i].type = "VoiceSettings" => i = 1
    BY <1>5, <1>6
  <2> QED BY <2>1, <1>3, <1>4, <1>5 DEF EventsTell
<1>8. v <= version
  BY <1>2
<1> QED BY <1>1, <1>2, <1>3, <1>5, <1>7, <1>8 DEF InOrder

\* Discord tells of the state it is in.
LEMMA WritesInOrder ==
  ASSUME InOrder, TypeOK, version' \in Nat, version <= version', NEW m \in Frame,
         to_client' = Append(to_client, m), m.ok => m.version \in version .. version',
         UNCHANGED <<events, latest, saying>>
  PROVE  InOrder' /\ to_client' \in Seq(Frame)
<1>1. PICK a \in Nat, b \in Nat :
         /\ EventsTell(events, latest, a) /\ EventsTell(saying, a, b)
         /\ FramesTell(to_client, b, version)
         /\ latest <= a /\ a <= b /\ b <= version
  BY DEF InOrder
<1>2. to_client \in Seq(Frame) /\ version \in Nat /\ to_client' \in Seq(Frame)
  BY OfAppend DEF TypeOK
<1>3. FramesTell(to_client', b, version')
  BY <1>1, <1>2, FramesAppend
<1>4. b <= version'
  BY <1>1, <1>2
<1> QED BY <1>1, <1>2, <1>3, <1>4 DEF InOrder

\* The version changes while nobody is told.
LEMMA ChangesInOrder ==
  ASSUME InOrder, TypeOK, version' \in Nat, version <= version',
         UNCHANGED <<to_client, events, latest, saying>>
  PROVE  InOrder'
<1>1. PICK a \in Nat, b \in Nat :
         /\ EventsTell(events, latest, a) /\ EventsTell(saying, a, b)
         /\ FramesTell(to_client, b, version)
         /\ latest <= a /\ a <= b /\ b <= version
  BY DEF InOrder
<1>2. version \in Nat
  BY DEF TypeOK
<1>3. FramesTell(to_client, b, version')
  BY <1>1, <1>2 DEF FramesTell
<1>4. b <= version'
  BY <1>1, <1>2
<1> QED BY <1>1, <1>3, <1>4 DEF InOrder

LEMMA SaysInOrder ==
  ASSUME InOrder, TypeOK, saying # <<>>, events' = Append(events, Head(saying)),
         saying' = Tail(saying), UNCHANGED <<to_client, latest, version>>
  PROVE  InOrder' /\ events' \in Seq(Event) /\ saying' \in Seq(Event)
<1>1. PICK a \in Nat, b \in Nat :
         /\ EventsTell(events, latest, a) /\ EventsTell(saying, a, b)
         /\ FramesTell(to_client, b, version)
         /\ latest <= a /\ a <= b /\ b <= version
  BY DEF InOrder
<1> DEFINE m == Head(saying)
<1>2. /\ m \in Event /\ saying \in Seq(Event) /\ events \in Seq(Event)
      /\ events' \in Seq(Event) /\ saying' \in Seq(Event)
      /\ version \in Nat /\ latest \in Nat
  BY OfAppend, OfTail DEF TypeOK
<1>3. CASE m.type = "VoiceSettings"
  <2>1. m.version \in a .. b /\ EventsTell(saying', m.version, b)
    BY <1>1, <1>2, <1>3, EventsTail
  <2>2. m.version \in Nat /\ a <= m.version /\ m.version <= b /\ latest <= m.version
    BY <2>1, <1>1, <1>2
  <2>3. EventsTell(events', latest, m.version)
    BY <2>2, <1>1, <1>2, EventsAppend
  <2> QED BY <2>1, <2>2, <2>3, <1>1, <1>2 DEF InOrder
<1>4. CASE m.type # "VoiceSettings"
  <2>1. EventsTell(saying', a, b)
    BY <1>1, <1>2, <1>4, EventsTail
  <2>2. a <= a /\ EventsTell(events', latest, a)
    BY <1>1, <1>2, <1>4, EventsAppend
  <2> QED BY <2>1, <2>2, <1>1, <1>2 DEF InOrder
<1> QED BY <1>3, <1>4

LEMMA HearsInOrder ==
  ASSUME InOrder, TypeOK, events # <<>>, events' = Tail(events),
         latest' = IF Head(events).type = "VoiceSettings" THEN Head(events).version ELSE latest,
         UNCHANGED <<to_client, saying, version>>
  PROVE  /\ InOrder' /\ events' \in Seq(Event) /\ Len(events') <= EVENT_CAPACITY
         /\ latest' \in latest .. version
<1>1. PICK a \in Nat, b \in Nat :
         /\ EventsTell(events, latest, a) /\ EventsTell(saying, a, b)
         /\ FramesTell(to_client, b, version)
         /\ latest <= a /\ a <= b /\ b <= version
  BY DEF InOrder
<1>2. /\ events \in Seq(Event) /\ events' \in Seq(Event) /\ Len(events') <= EVENT_CAPACITY
      /\ version \in Nat /\ latest \in Nat /\ latest <= version
  BY OfTail DEF TypeOK
<1>3. latest' \in latest .. a /\ EventsTell(events', latest', a)
  <2>1. latest \in latest .. a
    BY <1>1, <1>2
  <2> QED BY <2>1, <1>1, <1>2, EventsTail
<1>4. latest' \in latest .. version /\ latest' <= a
  BY <1>1, <1>2, <1>3
<1> QED BY <1>1, <1>2, <1>3, <1>4 DEF InOrder

LEMMA ReportsInOrder ==
  ASSUME InOrder, TypeOK, events' = Append(events, Says("VRChat")),
         UNCHANGED <<to_client, saying, latest, version>>
  PROVE  InOrder' /\ events' \in Seq(Event)
<1>1. PICK a \in Nat, b \in Nat :
         /\ EventsTell(events, latest, a) /\ EventsTell(saying, a, b)
         /\ FramesTell(to_client, b, version)
         /\ latest <= a /\ a <= b /\ b <= version
  BY DEF InOrder
<1>2. /\ Says("VRChat") \in Event /\ Says("VRChat").type # "VoiceSettings"
      /\ events \in Seq(Event) /\ events' \in Seq(Event) /\ latest \in Nat
  <2>1. Says("VRChat") \in Event /\ Says("VRChat").type # "VoiceSettings"
    BY DEF Says, Event
  <2> QED BY <2>1, OfAppend DEF TypeOK
<1>3. a <= a /\ EventsTell(events', latest, a)
  BY <1>1, <1>2, EventsAppend
<1> QED BY <1>1, <1>2, <1>3 DEF InOrder

-----------------------------------------------------------------------------
(* The steps of the client and the supervisor.                               *)

LEMMA InitInv == Init => IInv
<1> SUFFICES ASSUME Init PROVE IInv
  OBVIOUS
<1>1. /\ saying = <<Says("Connecting")>> /\ saying \in Seq(Event) /\ Silent(saying)
      /\ to_client \in Seq(Frame) /\ events \in Seq(Event) /\ commands \in Seq({0, 1})
      /\ todo \in Seq(Requests)
  <2>1. Says("Connecting") \in Event /\ Says("Connecting").type # "VoiceSettings"
    BY DEF Says, Event
  <2> QED BY <2>1, OfEmpty DEF Init, Silent
<1>2. left \in [Kinds -> Nat] /\ stored \in BOOLEAN
  <2>1. world \in World
    BY DEF Init
  <2> QED BY <2>1 DEF Init, World, Kinds
<1>3. TypeOK
  <2>1. /\ Len(events) <= EVENT_CAPACITY /\ Len(commands) <= CMD_CAPACITY
        /\ heard \in 0 .. latest \union {None} /\ latest \in 0 .. version
        /\ requests \in 0 .. 1
    BY OfEmpty DEF Init
  <2>2. client = "Discovering" /\ pipe = "None" /\ todo = <<>> /\ asked = FALSE
    BY DEF Init
  <2> QED BY <1>1, <1>2, <2>1, <2>2 DEF Init, TypeOK, Phases
<1>4. InOrder
  <2>1. /\ EventsTell(events, latest, 0) /\ EventsTell(saying, 0, 0)
        /\ FramesTell(to_client, 0, version) /\ latest = 0 /\ version = 0
    BY <1>1 DEF Init, EventsTell, FramesTell, Silent
  <2> QED BY <2>1 DEF InOrder
<1> QED BY <1>3, <1>4 DEF Init, IInv, Ended

\* The events that are not told in so many words.
LEMMA SaysSilently ==
  /\ \A type \in {"Connecting", "Disconnected", "Connected", "Unavailable", "CommandAck",
                  "VRChat"} :
        Says(type) \in Event /\ <<Says(type)>> \in Seq(Event) /\ Silent(<<Says(type)>>)
  /\ <<>> \in Seq(Event) /\ Silent(<<>>)
<1>1. ASSUME NEW type \in {"Connecting", "Disconnected", "Connected", "Unavailable", "CommandAck",
                           "VRChat"}
      PROVE  Says(type) \in Event /\ Says(type).type # "VoiceSettings"
  BY DEF Says, Event
<1> QED BY <1>1, OfEmpty DEF Silent

LEMMA SessionEndsStep ==
  ASSUME TypeOK, InOrder, SessionEnds, stored' \in BOOLEAN, requests' \in 0 .. 1,
         commands' \in Seq({0, 1}), Len(commands') <= CMD_CAPACITY,
         UNCHANGED <<world, left, events, heard, latest, sending>>
  PROVE  TypeOK' /\ InOrder' /\ saying' = <<Says("Disconnected")>>
<1>1. /\ client' = "Sleeping" /\ todo' = <<>> /\ asked' = FALSE
      /\ saying' = <<Says("Disconnected")>> /\ pipe' = "None" /\ to_client' = <<>>
      /\ authed' = FALSE /\ subscribed' = FALSE /\ dialog' = FALSE /\ UNCHANGED <<up, version>>
  BY DEF SessionEnds, GoesOn, HangsUp
<1>2. saying' \in Seq(Event) /\ Silent(saying')
  BY <1>1, SaysSilently
<1>3. InOrder' /\ to_client' \in Seq(Frame)
  BY <1>1, <1>2, DropsInOrder
<1>4. todo' \in Seq(Requests)
  BY <1>1, OfEmpty
<1> QED BY <1>1, <1>2, <1>3, <1>4 DEF TypeOK, Phases

\* The client goes on in the same session, and what it says of it tells nothing.
LEMMA GoesOnStep ==
  ASSUME TypeOK, InOrder, NEW phase \in Phases \ {"Sleeping", "Discovering"},
         NEW asks \in Seq(Requests), NEW says \in Seq(Event), Silent(says),
         GoesOn(phase, asks, says), phase = "Running" => asks = <<>>,
         client \notin {"Sleeping", "Discovering"}, UNCHANGED pipe,
         to_client' = to_client \/ (to_client # <<>> /\ to_client' = Tail(to_client)),
         stored' \in BOOLEAN, requests' \in 0 .. 1,
         UNCHANGED <<up, version, authed, subscribed, dialog>>,
         UNCHANGED <<world, left, events, commands, heard, latest, sending>>
  PROVE  TypeOK' /\ InOrder' /\ client' # "Sleeping"
<1>1. client' = phase /\ todo' = asks /\ asked' = FALSE /\ saying' = says
  BY DEF GoesOn
<1>2. InOrder' /\ to_client' \in Seq(Frame)
  BY <1>1, DropsInOrder
<1> QED BY <1>1, <1>2 DEF TypeOK

\* The setup's requests, and the last of them.
LEMMA Setup == /\ SetupRequests \in Seq(Requests) /\ SetupRequests # <<>>
               /\ SetupRequests[Len(SetupRequests)] = "GET_VOICE_SETTINGS"
<1>1. /\ "VOICE_SETTINGS_UPDATE" \in Requests /\ "VOICE_CHANNEL_SELECT" \in Requests
      /\ "VOICE_CONNECTION_STATUS" \in Requests /\ "GET_VOICE_SETTINGS" \in Requests
  <2>1. Len(SUBSCRIBED_EVENTS) = 3
    BY DEF SUBSCRIBED_EVENTS
  <2>2. 1 \in 1 .. 3 /\ 2 \in 1 .. 3 /\ 3 \in 1 .. 3
    OBVIOUS
  <2>3. /\ SUBSCRIBED_EVENTS[1] \in Requests /\ SUBSCRIBED_EVENTS[2] \in Requests
        /\ SUBSCRIBED_EVENTS[3] \in Requests
    BY <2>1, <2>2 DEF Requests
  <2> QED BY <2>3 DEF SUBSCRIBED_EVENTS, Requests
<1>2. SUBSCRIBED_EVENTS \in Seq(Requests)
  BY <1>1 DEF SUBSCRIBED_EVENTS
<1> QED BY <1>1, <1>2, OfAppend DEF SetupRequests

\* A request on its own.
LEMMA Alone ==
  /\ <<"HANDSHAKE">> \in Seq(Requests) /\ <<"AUTHENTICATE">> \in Seq(Requests)
  /\ <<"AUTHORIZE">> \in Seq(Requests)
<1>1. "HANDSHAKE" \in Requests /\ "AUTHENTICATE" \in Requests /\ "AUTHORIZE" \in Requests
  BY DEF Requests
<1> QED BY <1>1

\* A client that waits for a reply, or has a request to make, has a connection.
LEMMA Connected ==
  ASSUME TypeOK, asked \/ todo # <<>>
  PROVE  client \in Phases \ {"Sleeping", "Discovering", "Running"}
BY DEF TypeOK

LEMMA RequestFailsStep ==
  ASSUME TypeOK, InOrder, RequestFails, asked \/ todo # <<>>,
         UNCHANGED <<world, left, channelVars, coordVars>>
  PROVE  TypeOK' /\ InOrder' /\ (client' = "Sleeping" => saying' = <<Says("Disconnected")>>)
<1>0. client \in Phases \ {"Sleeping", "Discovering", "Running"} /\ stored \in BOOLEAN
      /\ requests \in 0 .. 1 /\ commands \in Seq({0, 1}) /\ Len(commands) <= CMD_CAPACITY
  BY Connected DEF TypeOK
<1>1. CASE client = "Authorizing"
  <2>1. GoesOn("Running", <<>>, <<Says("Unavailable")>>) /\ UNCHANGED <<discordVars, stored>>
    BY <1>1 DEF RequestFails
  <2>2. "Running" \in Phases \ {"Sleeping", "Discovering"}
    BY DEF Phases
  <2> QED BY <2>1, <2>2, <1>0, SaysSilently, OfEmpty, GoesOnStep
          DEF discordVars, channelVars, coordVars
<1>2. CASE client = "Restoring"
  <2>1. GoesOn("Setup", SetupRequests, <<>>) /\ UNCHANGED <<discordVars, stored>>
    BY <1>2 DEF RequestFails
  <2>2. "Setup" \in Phases \ {"Sleeping", "Discovering"}
    BY DEF Phases
  <2> QED BY <2>1, <2>2, <1>0, SaysSilently, Setup, GoesOnStep
          DEF discordVars, channelVars, coordVars
<1>3. CASE client \notin {"Authorizing", "Restoring"}
  <2>1. SessionEnds /\ UNCHANGED stored
    BY <1>3 DEF RequestFails
  <2> QED BY <2>1, <1>0, SessionEndsStep DEF channelVars, coordVars
<1> QED BY <1>1, <1>2, <1>3

LEMMA SupervisorSteps ==
  ASSUME TypeOK, InOrder, ClientSays \/ SupervisorWakes \/ SupervisorConnects
  PROVE  TypeOK' /\ InOrder'
<1>1. CASE ClientSays
  <2>1. /\ saying # <<>> /\ RoomForEvent /\ events' = Append(events, Head(saying))
        /\ saying' = Tail(saying)
        /\ UNCHANGED <<world, left, discordVars, stored, client, todo, asked, commands, requests,
                       coordVars>>
    BY <1>1 DEF ClientSays
  <2>2. InOrder' /\ events' \in Seq(Event) /\ saying' \in Seq(Event)
    BY <2>1, SaysInOrder DEF discordVars, coordVars
  <2>3. Len(events') <= EVENT_CAPACITY
    BY <2>1 DEF TypeOK, RoomForEvent
  <2>4. asked = FALSE
    BY <2>1 DEF TypeOK
  <2> QED BY <2>1, <2>2, <2>3, <2>4 DEF TypeOK, discordVars, coordVars
<1>2. CASE SupervisorWakes
  <2>1. /\ client = "Sleeping" /\ client' = "Discovering" /\ todo' = <<>> /\ asked' = FALSE
        /\ saying' = <<Says("Connecting")>>
        /\ UNCHANGED <<world, left, stored, discordVars, channelVars, coordVars>>
    BY <1>2 DEF SupervisorWakes, GoesOn
  <2>2. saying' \in Seq(Event) /\ Silent(saying') /\ todo' \in Seq(Requests)
    BY <2>1, SaysSilently, OfEmpty
  <2>3. InOrder'
    BY <2>1, <2>2, DropsInOrder DEF discordVars, channelVars, coordVars
  <2> QED BY <2>1, <2>2, <2>3 DEF TypeOK, Phases, discordVars, channelVars, coordVars
<1>3. CASE SupervisorConnects
  <2>0. UNCHANGED <<world, left, stored, channelVars, coordVars>> /\ client = "Discovering"
    BY <1>3 DEF SupervisorConnects
  <2>1. CASE /\ pipe' = "Open" /\ GoesOn("Handshake", <<"HANDSHAKE">>, <<>>)
             /\ UNCHANGED <<up, to_discord, to_client, version, authed, subscribed, dialog>>
    <3>1. /\ client' = "Handshake" /\ todo' = <<"HANDSHAKE">> /\ asked' = FALSE /\ saying' = <<>>
          /\ todo' \in Seq(Requests) /\ saying' \in Seq(Event) /\ Silent(saying')
      BY <2>1, SaysSilently, Alone DEF GoesOn
    <3>2. InOrder'
      BY <2>0, <2>1, <3>1, DropsInOrder DEF channelVars, coordVars
    <3> QED BY <2>0, <2>1, <3>1, <3>2 DEF TypeOK, Phases, channelVars, coordVars
  <2>2. CASE SessionEnds
    BY <2>0, <2>2, SessionEndsStep DEF TypeOK, channelVars, coordVars
  <2> QED BY <1>3, <2>1, <2>2 DEF SupervisorConnects
<1> QED BY <1>1, <1>2, <1>3

LEMMA AskSteps ==
  ASSUME TypeOK, InOrder, ClientAsks \/ ClientDropsFrame \/ ClientReadsEnd
  PROVE  /\ TypeOK' /\ InOrder'
         /\ client' = "Sleeping" => saying' = <<Says("Disconnected")>>
<1>1. CASE ClientAsks
  <2>1. CASE RequestFails
    BY <1>1, <2>1, RequestFailsStep DEF ClientAsks
  <2>2. CASE /\ asked' = TRUE
             /\ UNCHANGED <<up, pipe, to_client, version, authed, subscribed, dialog,
                            client, todo, saying, stored>>
    <3>1. /\ todo # <<>> /\ saying = <<>>
          /\ UNCHANGED <<world, left, channelVars, coordVars>>
      BY <1>1 DEF ClientAsks
    <3>2. InOrder'
      BY <2>2, <3>1, DropsInOrder DEF channelVars, coordVars
    <3>3. client # "Sleeping"
      BY <3>1 DEF TypeOK
    <3> QED BY <2>2, <3>1, <3>2, <3>3 DEF TypeOK, channelVars, coordVars
  <2> QED BY <1>1, <2>1, <2>2 DEF ClientAsks
<1>2. CASE ClientDropsFrame
  <2>1. /\ asked /\ to_client # <<>> /\ to_client' = Tail(to_client)
        /\ UNCHANGED <<world, left, up, pipe, to_discord, version, authed, subscribed, dialog,
                       clientVars, channelVars, coordVars>>
    BY <1>2 DEF ClientDropsFrame
  <2>2. InOrder' /\ to_client' \in Seq(Frame)
    BY <2>1, DropsInOrder DEF clientVars, channelVars, coordVars
  <2>3. client # "Sleeping"
    BY <2>1 DEF TypeOK
  <2> QED BY <2>1, <2>2, <2>3 DEF TypeOK, clientVars, channelVars, coordVars
<1>3. CASE ClientReadsEnd
  BY <1>3, RequestFailsStep DEF ClientReadsEnd
<1> QED BY <1>1, <1>2, <1>3

\* What a reply makes the client say, and the order of it.
LEMMA SetupSays ==
  ASSUME TypeOK, InOrder, saying = <<>>, to_client # <<>>, to_client' = Tail(to_client),
         NEW request, NEW rest \in Seq(Event), Silent(rest),
         saying' = SaysOf(request, Head(to_client)) \o rest,
         UNCHANGED <<events, latest, version>>
  PROVE  InOrder' /\ to_client' \in Seq(Frame) /\ saying' \in Seq(Event)
<1> DEFINE reply == Head(to_client)
<1>1. \A e : Silent(<<e>>) /\ <<e>> \in Seq(Event) =>
             <<e>> \o rest \in Seq(Event) /\ Silent(<<e>> \o rest)
  <2> SUFFICES ASSUME NEW e, Silent(<<e>>), <<e>> \in Seq(Event)
               PROVE  <<e>> \o rest \in Seq(Event) /\ Silent(<<e>> \o rest)
    OBVIOUS
  <2>1. e \in Event /\ e.type # "VoiceSettings"
    BY DEF Silent
  <2>2. /\ <<e>> \o rest \in Seq(Event) /\ Len(<<e>> \o rest) = 1 + Len(rest) /\ Len(rest) \in Nat
        /\ (<<e>> \o rest)[1] = e
        /\ \A i \in 2 .. Len(<<e>> \o rest) : (<<e>> \o rest)[i] = rest[i - 1]
    BY <2>1
  <2>3. \A i \in 2 .. Len(<<e>> \o rest) : i - 1 \in 1 .. Len(rest)
    BY <2>2
  <2>4. \A i \in 2 .. Len(<<e>> \o rest) : (<<e>> \o rest)[i].type # "VoiceSettings"
    BY <2>2, <2>3 DEF Silent
  <2>5. \A i \in 1 .. Len(<<e>> \o rest) : i = 1 \/ i \in 2 .. Len(<<e>> \o rest)
    BY <2>2
  <2> QED BY <2>1, <2>2, <2>4, <2>5 DEF Silent
<1>2. CASE ~reply.ok
  <2>1. saying' = <<Says("Unavailable")>> \o rest
    BY <1>2 DEF SaysOf
  <2>2. saying' \in Seq(Event) /\ Silent(saying')
    BY <2>1, <1>1, SaysSilently
  <2> QED BY <2>2, DropsInOrder
<1>3. CASE reply.ok /\ request = "GET_VOICE_SETTINGS"
  <2>1. saying' = <<Voice(reply.version)>> \o rest
    BY <1>3 DEF SaysOf
  <2> QED BY <2>1, <1>3, TellsInOrder
<1>4. CASE reply.ok /\ request # "GET_VOICE_SETTINGS"
  <2>1. saying' = <<>> \o rest
    BY <1>4 DEF SaysOf
  <2>2. saying' = rest
    BY <2>1
  <2> QED BY <2>2, DropsInOrder
<1> QED BY <1>2, <1>3, <1>4

LEMMA AnswerSteps ==
  ASSUME TypeOK, InOrder, ClientIsAnswered \/ ExchangeFails
  PROVE  TypeOK' /\ InOrder' /\ client' # "Sleeping"
<1>a. \A phase \in {"Restoring", "Setup", "Authorizing", "Reseeding", "Running"} :
         phase \in Phases \ {"Sleeping", "Discovering"}
  BY DEF Phases
<1>b. requests \in 0 .. 1 /\ stored \in BOOLEAN
  BY DEF TypeOK
<1>1. CASE ExchangeFails
  <2>1. /\ client = "Authorizing" /\ GoesOn("Running", <<>>, <<Says("Unavailable")>>)
        /\ UNCHANGED <<world, left, stored, discordVars, channelVars, coordVars>>
    BY <1>1 DEF ExchangeFails
  <2> QED BY <2>1, <1>a, <1>b, SaysSilently, OfEmpty, GoesOnStep
          DEF discordVars, channelVars, coordVars
<1>2. CASE ClientIsAnswered
  <2> DEFINE reply == Head(to_client)
  <2>0. /\ asked /\ to_client # <<>> /\ to_client' = Tail(to_client)
        /\ UNCHANGED <<world, left, up, pipe, to_discord, version, authed, subscribed, dialog>>
        /\ UNCHANGED <<channelVars, coordVars>>
    BY <1>2 DEF ClientIsAnswered
  <2>1. /\ client \in Phases \ {"Sleeping", "Discovering", "Running"}
        /\ todo # <<>> /\ saying = <<>> /\ todo \in Seq(Requests)
    BY <2>0, Connected DEF TypeOK
  <2>2. ASSUME NEW phase \in {"Restoring", "Setup", "Authorizing", "Reseeding", "Running"},
               NEW asks \in Seq(Requests), NEW says \in Seq(Event), Silent(says),
               GoesOn(phase, asks, says), phase = "Running" => asks = <<>>, stored' \in BOOLEAN
        PROVE  TypeOK' /\ InOrder' /\ client' # "Sleeping"
    BY <2>0, <2>1, <2>2, <1>a, <1>b, GoesOnStep DEF channelVars, coordVars
  <2>3. CASE client = "Handshake"
    <3>1. /\ \/ GoesOn("Restoring", <<"AUTHENTICATE">>, <<>>)
             \/ GoesOn("Setup", SetupRequests, <<>>)
          /\ UNCHANGED stored
      BY <1>2, <2>3 DEF ClientIsAnswered
    <3> QED BY <3>1, <2>2, <1>b, Alone, Setup, SaysSilently
  <2>4. CASE client = "Restoring"
    <3>1. GoesOn("Setup", SetupRequests, <<>>) /\ UNCHANGED stored
      BY <1>2, <2>4 DEF ClientIsAnswered
    <3> QED BY <3>1, <2>2, <1>b, Setup, SaysSilently
  <2>5. CASE client = "Authorizing"
    <3>1. AuthorizationGoesOn(reply)
      BY <1>2, <2>5 DEF ClientIsAnswered
    <3>2. /\ \/ GoesOn("Authorizing", <<"AUTHENTICATE">>, <<>>)
             \/ GoesOn("Reseeding", SetupRequests, <<>>)
             \/ GoesOn("Running", <<>>, <<Says("Unavailable")>>)
          /\ stored' \in BOOLEAN
      BY <3>1, <1>b DEF AuthorizationGoesOn
    <3>3. /\ <<Says("Unavailable")>> \in Seq(Event) /\ Silent(<<Says("Unavailable")>>)
          /\ <<>> \in Seq(Event) /\ Silent(<<>>) /\ <<>> \in Seq(Requests)
      BY SaysSilently, OfEmpty
    <3> QED BY <3>2, <3>3, <2>2, Alone, Setup
  <2>6. CASE client \notin {"Handshake", "Restoring", "Authorizing"}
    <3> DEFINE phase == IF Len(todo) > 1 THEN client ELSE "Running"
               rest  == IF Len(todo) = 1 /\ client = "Setup" THEN <<Says("Connected")>> ELSE <<>>
    <3>1. SetupGoesOn(reply) /\ UNCHANGED stored
      BY <1>2, <2>6 DEF ClientIsAnswered
    <3>2. /\ client' = phase /\ todo' = Tail(todo) /\ asked' = FALSE
          /\ saying' = SaysOf(Head(todo), reply) \o rest
      BY <3>1 DEF SetupGoesOn, GoesOn
    <3>3. rest \in Seq(Event) /\ Silent(rest)
      BY SaysSilently
    <3>4. InOrder' /\ to_client' \in Seq(Frame) /\ saying' \in Seq(Event)
      <4> HIDE DEF rest
      <4> QED BY <2>0, <2>1, <3>2, <3>3, SetupSays DEF channelVars, coordVars
    <3>5. todo' \in Seq(Requests) /\ (Len(todo) <= 1 => todo' = <<>>) /\ Len(todo) \in Nat
      <4>1. Tail(todo) \in Seq(Requests) /\ Len(Tail(todo)) = Len(todo) - 1 /\ Len(todo) \in Nat
            /\ Len(todo) >= 1
        BY <2>1, OfTail
      <4> QED BY <4>1, <3>2
    <3>6. /\ client' \in Phases \ {"Sleeping", "Discovering"}
          /\ client' = "Running" => todo' = <<>>
      BY <2>1, <3>2, <3>5, <1>a
    <3> QED BY <2>0, <3>1, <3>2, <3>4, <3>5, <3>6 DEF TypeOK, channelVars, coordVars
  <2> QED BY <2>3, <2>4, <2>5, <2>6
<1> QED BY <1>1, <1>2

LEMMA RunSteps ==
  ASSUME TypeOK, InOrder,
         RunHandlesFrame \/ RunTakesCommand \/ RunTakesRequest \/ RunReadsEnd
  PROVE  /\ TypeOK' /\ InOrder'
         /\ client' = "Sleeping" => saying' = <<Says("Disconnected")>>
<1>0. /\ client = "Running" /\ saying = <<>> /\ todo = <<>> /\ ~asked
      /\ requests \in 0 .. 1 /\ stored \in BOOLEAN
      /\ commands \in Seq({0, 1}) /\ Len(commands) <= CMD_CAPACITY
  BY DEF RunHandlesFrame, RunTakesCommand, RunTakesRequest, RunReadsEnd, Selects, TypeOK
<1>1. CASE RunHandlesFrame
  <2>0. /\ to_client # <<>> /\ to_client' = Tail(to_client)
        /\ UNCHANGED <<world, left, up, pipe, to_discord, version, authed, subscribed, dialog,
                       client, todo, asked, stored, channelVars, coordVars>>
    BY <1>1 DEF RunHandlesFrame
  <2>1. CASE Head(to_client).ok
    <3>1. saying' = <<Voice(Head(to_client).version)>>
      BY <1>1, <2>1 DEF RunHandlesFrame
    <3>2. saying' = <<Voice(Head(to_client).version)>> \o <<>>
      BY <3>1
    <3>3. InOrder' /\ to_client' \in Seq(Frame) /\ saying' \in Seq(Event)
      BY <1>0, <2>0, <2>1, <3>2, SaysSilently, TellsInOrder DEF channelVars, coordVars
    <3> QED BY <1>0, <2>0, <3>3 DEF TypeOK, channelVars, coordVars
  <2>2. CASE ~Head(to_client).ok
    <3>1. saying' \in Seq(Event) /\ Silent(saying')
      BY <1>1, <2>2, SaysSilently DEF RunHandlesFrame
    <3>2. InOrder' /\ to_client' \in Seq(Frame)
      BY <2>0, <3>1, DropsInOrder DEF channelVars, coordVars
    <3> QED BY <1>0, <2>0, <3>1, <3>2 DEF TypeOK, channelVars, coordVars
  <2> QED BY <2>1, <2>2
<1>2. CASE RunTakesCommand
  <2>0. /\ commands # <<>> /\ commands' = Tail(commands)
        /\ UNCHANGED <<world, left, stored, events, requests, coordVars>>
    BY <1>2 DEF RunTakesCommand
  <2>1. commands' \in Seq({0, 1}) /\ Len(commands') <= CMD_CAPACITY
    <3>1. /\ Tail(commands) \in Seq({0, 1}) /\ Len(commands) \in Nat
          /\ Len(Tail(commands)) = Len(commands) - 1
      BY <1>0, <2>0, OfTail
    <3> QED BY <3>1, <2>0, <1>0
  <2>2. CASE /\ saying' = SaidOnWriting(Head(commands))
             /\ UNCHANGED <<up, pipe, to_client, version, authed, subscribed, dialog,
                            client, todo, asked>>
    <3>1. saying' \in Seq(Event) /\ Silent(saying')
      BY <2>2, SaysSilently DEF SaidOnWriting
    <3>2. InOrder'
      BY <2>0, <2>2, <3>1, DropsInOrder DEF coordVars
    <3> QED BY <1>0, <2>0, <2>1, <2>2, <3>1, <3>2 DEF TypeOK, coordVars
  <2>3. CASE SessionEnds
    BY <1>0, <2>0, <2>1, <2>3, SessionEndsStep DEF coordVars
  <2> QED BY <1>2, <2>2, <2>3 DEF RunTakesCommand
<1>3. CASE RunTakesRequest
  <2>1. /\ requests' = 0 /\ GoesOn("Authorizing", <<"AUTHORIZE">>, <<>>)
        /\ UNCHANGED <<world, left, stored, discordVars, events, commands, coordVars>>
    BY <1>3 DEF RunTakesRequest
  <2>2. "Authorizing" \in Phases \ {"Sleeping", "Discovering"} /\ requests' \in 0 .. 1
    BY <2>1 DEF Phases
  <2> QED BY <1>0, <2>1, <2>2, Alone, SaysSilently, GoesOnStep DEF discordVars, coordVars
<1>4. CASE RunReadsEnd
  BY <1>0, <1>4, SessionEndsStep DEF RunReadsEnd, channelVars, coordVars
<1> QED BY <1>1, <1>2, <1>3, <1>4

-----------------------------------------------------------------------------
(* The steps of Discord, of the other ends of the channels and of the user.  *)

LEMMA Spending == ASSUME TypeOK, NEW kind \in Kinds, Spend(kind) PROVE left' \in [Kinds -> Nat]
BY DEF TypeOK, Spend

\* What Discord says of a request, or of a change.
LEMMA DiscordSteps ==
  ASSUME TypeOK, InOrder, DiscordAnswers \/ DiscordSets \/ DiscordAsksUser
  PROVE  TypeOK' /\ InOrder' /\ UNCHANGED <<client, saying, events, heard>>
<1>0. version \in Nat /\ authed \in BOOLEAN /\ subscribed \in BOOLEAN /\ to_client \in Seq(Frame)
  BY DEF TypeOK
<1>a. version \in version .. version /\ version <= version
  BY <1>0
<1>1. CASE DiscordAnswers
  <2>0. UNCHANGED <<world, left, up, pipe, version, dialog, clientVars, channelVars, coordVars>>
    BY <1>1 DEF DiscordAnswers
  <2>1. PICK ok \in Outcomes(Head(to_discord).cmd) :
           /\ to_client' = Append(to_client, Reply(ok))
           /\ authed' = IF Head(to_discord).cmd = "AUTHENTICATE" THEN ok ELSE authed
           /\ subscribed' = (subscribed \/ (ok /\ Head(to_discord).cmd = "VOICE_SETTINGS_UPDATE"))
    BY <1>1 DEF DiscordAnswers
  <2>2. ok \in BOOLEAN
    BY <1>0 DEF Outcomes
  <2>3. Reply(ok) \in Frame /\ Reply(ok).version = version
    BY <1>0, <2>2 DEF Reply, Frame
  <2>4. InOrder' /\ to_client' \in Seq(Frame)
    BY <1>0, <1>a, <2>0, <2>1, <2>3, WritesInOrder DEF clientVars, channelVars, coordVars
  <2>5. authed' \in BOOLEAN /\ subscribed' \in BOOLEAN
    BY <1>0, <2>1, <2>2
  <2> QED BY <2>0, <2>4, <2>5 DEF TypeOK, clientVars, channelVars, coordVars
<1>2. CASE DiscordSets
  <2>0. UNCHANGED <<world, left, up, pipe, authed, subscribed, dialog, clientVars, channelVars,
                    coordVars>>
    BY <1>2 DEF DiscordSets
  <2>1. CASE ~authed
    <3>1. to_client' = Append(to_client, SetReply(FALSE, 0)) /\ UNCHANGED version
      BY <1>2, <2>1 DEF DiscordSets
    <3>2. SetReply(FALSE, 0) \in Frame /\ ~SetReply(FALSE, 0).ok
      BY DEF SetReply, Frame
    <3>3. InOrder' /\ to_client' \in Seq(Frame)
      BY <1>0, <1>a, <2>0, <3>1, <3>2, WritesInOrder DEF clientVars, channelVars, coordVars
    <3>4. UNCHANGED <<world, left, up, pipe, authed, subscribed, dialog, version, stored, client,
                      todo, asked, saying, events, commands, requests, heard, latest, sending>>
      BY <2>0, <3>1 DEF clientVars, channelVars, coordVars
    <3>5. TypeOK'
      BY <3>3, <3>4 DEF TypeOK
    <3> QED BY <3>3, <3>4, <3>5
  <2>2. CASE authed
    <3> DEFINE first  == SetReply(TRUE, version')
               second == Update(version')
               q      == Append(to_client, first)
    <3>1. version' \in {version, version + 1} /\ version' \in Nat /\ version <= version'
      BY <1>0, <1>2, <2>2 DEF DiscordSets
    <3>2. /\ first \in Frame /\ first.version = version'
          /\ second \in Frame /\ second.version = version'
      BY <3>1 DEF SetReply, Update, Frame
    <3>3. to_client' = q \/ to_client' = Append(q, second)
      <4>1. to_client' = to_client \o <<first>>
               \o (IF subscribed /\ version' # version THEN <<second>> ELSE <<>>)
        BY <1>2, <2>2 DEF DiscordSets
      <4> HIDE DEF first, second
      <4>2. to_client \o <<first>> \o <<>> = Append(to_client, first)
        BY <1>0, <3>2
      <4>3. to_client \o <<first>> \o <<second>> = Append(Append(to_client, first), second)
        BY <1>0, <3>2
      <4> QED BY <4>1, <4>2, <4>3
    <3> HIDE DEF first, second
    <3>4. PICK a \in Nat, b \in Nat :
             /\ EventsTell(events, latest, a) /\ EventsTell(saying, a, b)
             /\ FramesTell(to_client, b, version)
             /\ latest <= a /\ a <= b /\ b <= version
      BY DEF InOrder
    <3>5. q \in Seq(Frame) /\ FramesTell(q, b, version')
      BY <1>0, <3>1, <3>2, <3>4, FramesAppend, OfAppend
    <3>6. b <= version' /\ version' <= version'
      BY <1>0, <3>1, <3>4
    <3>7. to_client' \in Seq(Frame) /\ FramesTell(to_client', b, version')
      <4> HIDE DEF q
      <4>1. Append(q, second) \in Seq(Frame) /\ FramesTell(Append(q, second), b, version')
        BY <3>1, <3>2, <3>5, <3>6, FramesAppend, OfAppend
      <4> QED BY <4>1, <3>3, <3>5
    <3>8. InOrder'
      BY <2>0, <3>4, <3>6, <3>7 DEF InOrder, clientVars, channelVars, coordVars
    <3>9. latest' \in 0 .. version'
      BY <1>0, <2>0, <3>1 DEF TypeOK, coordVars
    <3> QED BY <2>0, <3>1, <3>7, <3>8, <3>9 DEF TypeOK, clientVars, channelVars, coordVars
  <2> QED BY <1>0, <2>1, <2>2
<1>3. CASE DiscordAsksUser
  <2>1. /\ dialog' = TRUE
        /\ UNCHANGED <<world, left, up, pipe, to_client, version, authed, subscribed, clientVars,
                       channelVars, coordVars>>
    BY <1>3 DEF DiscordAsksUser
  <2>2. InOrder'
    BY <1>0, <1>a, <2>1, ChangesInOrder DEF clientVars, channelVars, coordVars
  <2> QED BY <2>1, <2>2 DEF TypeOK, clientVars, channelVars, coordVars
<1> QED BY <1>1, <1>2, <1>3

LEMMA UserSteps ==
  ASSUME TypeOK, InOrder,
         UserAnswers \/ UserChangesVoice \/ DiscordStops \/ DiscordStarts \/ AuthorizePressed
  PROVE  TypeOK' /\ InOrder' /\ UNCHANGED <<client, saying, events, heard>>
<1>0. /\ version \in Nat /\ authed \in BOOLEAN /\ subscribed \in BOOLEAN
      /\ to_client \in Seq(Frame) /\ latest \in 0 .. version
  BY DEF TypeOK
<1>a. version \in version .. version /\ version <= version
  BY <1>0
<1>1. CASE UserAnswers
  <2>0. /\ dialog' = FALSE
        /\ UNCHANGED <<world, left, up, pipe, to_discord, version, authed, subscribed, clientVars,
                       channelVars, coordVars>>
    BY <1>1 DEF UserAnswers
  <2>1. PICK ok \in BOOLEAN : to_client' = Append(to_client, Reply(ok))
    BY <1>1 DEF UserAnswers
  <2>2. Reply(ok) \in Frame /\ Reply(ok).version = version
    BY <1>0 DEF Reply, Frame
  <2>3. InOrder' /\ to_client' \in Seq(Frame)
    BY <1>0, <1>a, <2>0, <2>1, <2>2, WritesInOrder DEF clientVars, channelVars, coordVars
  <2> QED BY <2>0, <2>3 DEF TypeOK, clientVars, channelVars, coordVars
<1>2. CASE UserChangesVoice
  <2>0. /\ version' = version + 1
        /\ to_client' = IF subscribed THEN Append(to_client, Update(version')) ELSE to_client
        /\ UNCHANGED <<world, up, pipe, to_discord, authed, subscribed, dialog, clientVars,
                       channelVars, coordVars>>
        /\ left' \in [Kinds -> Nat]
    BY <1>2, Spending DEF UserChangesVoice, Kinds
  <2>1. version' \in Nat /\ version <= version' /\ latest \in 0 .. version'
        /\ version' \in version .. version'
    BY <1>0, <2>0
  <2>2. Update(version') \in Frame /\ Update(version').version = version'
    BY <2>1 DEF Update, Frame
  <2>3. InOrder' /\ to_client' \in Seq(Frame)
    <3>1. CASE subscribed
      BY <3>1, <2>0, <2>1, <2>2, WritesInOrder DEF clientVars, channelVars, coordVars
    <3>2. CASE ~subscribed
      BY <3>2, <1>0, <2>0, <2>1, ChangesInOrder DEF clientVars, channelVars, coordVars
    <3> QED BY <3>1, <3>2, <1>0
  <2> QED BY <2>0, <2>1, <2>3 DEF TypeOK, clientVars, channelVars, coordVars
<1>3. CASE DiscordStops
  <2>0. /\ up' = FALSE /\ pipe' = (IF pipe = "Open" THEN "Broken" ELSE pipe)
        /\ \E k \in 0 .. Len(to_client) : to_client' = SubSeq(to_client, 1, k)
        /\ authed' = FALSE /\ subscribed' = FALSE /\ dialog' = FALSE
        /\ UNCHANGED <<world, version, clientVars, channelVars, coordVars>>
        /\ left' \in [Kinds -> Nat]
    BY <1>3, Spending DEF DiscordStops, Kinds
  <2>1. InOrder' /\ to_client' \in Seq(Frame)
    BY <2>0, DropsInOrder DEF clientVars, channelVars, coordVars
  <2> QED BY <2>0, <2>1 DEF TypeOK, clientVars, channelVars, coordVars
<1>4. CASE DiscordStarts
  <2>0. /\ up' = TRUE
        /\ UNCHANGED <<world, left, pipe, to_discord, to_client, version, authed, subscribed,
                       dialog, clientVars, channelVars, coordVars>>
    BY <1>4 DEF DiscordStarts
  <2>1. InOrder'
    BY <1>0, <1>a, <2>0, ChangesInOrder DEF clientVars, channelVars, coordVars
  <2> QED BY <2>0, <2>1 DEF TypeOK, clientVars, channelVars, coordVars
<1>5. CASE AuthorizePressed
  <2>0. /\ requests' = 1 /\ left' \in [Kinds -> Nat]
        /\ UNCHANGED <<world, discordVars, clientVars, events, commands, coordVars>>
    BY <1>5, Spending DEF AuthorizePressed, Kinds
  <2>1. InOrder'
    BY <1>0, <1>a, <2>0, ChangesInOrder DEF discordVars, clientVars, coordVars
  <2> QED BY <2>0, <2>1 DEF TypeOK, discordVars, clientVars, coordVars
<1> QED BY <1>1, <1>2, <1>3, <1>4, <1>5

\* What the coordinator makes of an event.
LEMMA Hearing ==
  ASSUME TypeOK, InOrder, CoordinatorHears
  PROVE  /\ TypeOK' /\ InOrder' /\ UNCHANGED <<client, saying, version>>
         /\ LET event == Head(events) IN
               \/ /\ event.type = "VoiceSettings"
                  /\ heard' \in latest .. version /\ latest' = heard'
               \/ LosesDiscord(event.type) /\ heard' = None /\ latest' = latest
               \/ UNCHANGED <<heard, latest>> /\ event.type # "VoiceSettings"
<1> DEFINE event == Head(events)
<1>0. /\ sending = None /\ events # <<>> /\ events' = Tail(events)
      /\ heard' = IF event.type = "VoiceSettings" THEN event.version
                  ELSE IF LosesDiscord(event.type) THEN None ELSE heard
      /\ latest' = IF event.type = "VoiceSettings" THEN event.version ELSE latest
      /\ \/ UNCHANGED <<left, sending>>
         \/ heard' # None /\ Spend("sets") /\ sending' = 1 - (heard' % 2)
      /\ UNCHANGED <<world, discordVars, clientVars, commands, requests>>
  BY DEF CoordinatorHears
<1>1. /\ InOrder' /\ events' \in Seq(Event) /\ Len(events') <= EVENT_CAPACITY
      /\ latest' \in latest .. version
  BY <1>0, HearsInOrder DEF discordVars, clientVars
<1>2. latest \in Nat /\ version \in Nat /\ heard \in 0 .. latest \union {None}
  BY DEF TypeOK
<1>3. \/ event.type = "VoiceSettings" /\ heard' \in latest .. version /\ latest' = heard'
      \/ LosesDiscord(event.type) /\ heard' = None /\ latest' = latest
      \/ UNCHANGED <<heard, latest>> /\ event.type # "VoiceSettings"
  BY <1>0, <1>1
<1>4. heard' \in 0 .. latest' \union {None} /\ latest' \in 0 .. version
  BY <1>1, <1>2, <1>3
<1>5. left' \in [Kinds -> Nat] /\ sending' \in {0, 1, None}
  <2>1. CASE UNCHANGED <<left, sending>>
    BY <2>1 DEF TypeOK
  <2>2. CASE heard' # None /\ Spend("sets") /\ sending' = 1 - (heard' % 2)
    <3>1. heard' \in Nat
      BY <2>2, <1>1, <1>2, <1>4
    <3>2. \A n \in Nat : 1 - (n % 2) \in {0, 1}
      OBVIOUS
    <3>3. sending' \in {0, 1}
      BY <2>2, <3>1, <3>2
    <3> QED BY <2>2, <3>3, Spending DEF Kinds
  <2> QED BY <1>0, <2>1, <2>2
<1> QED BY <1>0, <1>1, <1>3, <1>4, <1>5 DEF TypeOK, discordVars, clientVars

LEMMA ChannelSteps ==
  ASSUME TypeOK, InOrder, CoordinatorSends \/ VRChatReports
  PROVE  /\ TypeOK' /\ InOrder' /\ UNCHANGED <<client, saying, heard>>
         /\ events' = events \/ events' = Append(events, Says("VRChat"))
<1>1. CASE CoordinatorSends
  <2>0. /\ sending # None /\ Len(commands) < CMD_CAPACITY
        /\ commands' = Append(commands, sending) /\ sending' = None
        /\ UNCHANGED <<world, left, discordVars, clientVars, events, requests, heard, latest>>
    BY <1>1 DEF CoordinatorSends
  <2>1. sending \in {0, 1} /\ commands \in Seq({0, 1}) /\ version \in Nat
    BY <2>0 DEF TypeOK
  <2>2. commands' \in Seq({0, 1}) /\ Len(commands') = Len(commands) + 1 /\ Len(commands) \in Nat
    BY <2>0, <2>1, OfAppend
  <2>3. Len(commands') <= CMD_CAPACITY
    BY <2>0, <2>2
  <2>4. InOrder'
    <3>1. version <= version
      BY <2>1
    <3> QED BY <2>0, <2>1, <3>1, ChangesInOrder DEF discordVars, clientVars
  <2> QED BY <2>0, <2>2, <2>3, <2>4 DEF TypeOK, discordVars, clientVars
<1>2. CASE VRChatReports
  <2>0. /\ RoomForEvent /\ events' = Append(events, Says("VRChat"))
        /\ left' \in [Kinds -> Nat]
        /\ UNCHANGED <<world, discordVars, clientVars, commands, requests, coordVars>>
    BY <1>2, Spending DEF VRChatReports, Kinds
  <2>1. InOrder' /\ events' \in Seq(Event)
    BY <2>0, ReportsInOrder DEF discordVars, clientVars, coordVars
  <2>2. Len(events') <= EVENT_CAPACITY
    <3>1. Says("VRChat") \in Event /\ events \in Seq(Event)
      BY SaysSilently DEF TypeOK
    <3>2. Len(events') = Len(events) + 1 /\ Len(events) \in Nat
      BY <2>0, <3>1, OfAppend
    <3> QED BY <2>0, <3>2 DEF RoomForEvent
  <2> QED BY <2>0, <2>1, <2>2 DEF TypeOK, discordVars, clientVars, coordVars
<1> QED BY <1>1, <1>2

-----------------------------------------------------------------------------
(* What ends with the session.                                               *)

\* An event that tells nothing leaves what is being forgotten forgotten.
LEMMA ForgetsOnAppend ==
  ASSUME TypeOK, NEW m \in Event, m.type # "VoiceSettings", events' = Append(events, m),
         Forgets \/ LosesDiscord(m.type), heard' = heard
  PROVE  Forgets'
<1>0. /\ events \in Seq(Event) /\ Len(events) \in Nat /\ Len(events') = Len(events) + 1
      /\ \A i \in 1 .. Len(events) : events'[i] = events[i]
      /\ events'[Len(events) + 1] = m
  BY OfAppend DEF TypeOK
<1>a. \A i \in 1 .. Len(events') : i \in 1 .. Len(events) \/ i = Len(events) + 1
  BY <1>0
<1>1. CASE LosesDiscord(m.type)
  <2>1. /\ Len(events) + 1 \in 1 .. Len(events') /\ LosesDiscord(events'[Len(events) + 1].type)
        /\ \A j \in 1 .. Len(events') : ~(Len(events) + 1 < j)
    BY <1>0, <1>1
  <2> QED BY <2>1 DEF Forgets
<1>2. CASE heard = None /\ \A i \in 1 .. Len(events) : events[i].type # "VoiceSettings"
  <2>1. \A i \in 1 .. Len(events') : events'[i].type # "VoiceSettings"
    BY <1>0, <1>a, <1>2
  <2> QED BY <2>1, <1>2 DEF Forgets
<1>3. CASE \E i \in 1 .. Len(events) :
              /\ LosesDiscord(events[i].type)
              /\ \A j \in 1 .. Len(events) : i < j => events[j].type # "VoiceSettings"
  <2>1. PICK i \in 1 .. Len(events) :
           /\ LosesDiscord(events[i].type)
           /\ \A j \in 1 .. Len(events) : i < j => events[j].type # "VoiceSettings"
    BY <1>3
  <2>2. i \in 1 .. Len(events') /\ LosesDiscord(events'[i].type)
    BY <1>0, <2>1
  <2>3. \A j \in 1 .. Len(events') : i < j => events'[j].type # "VoiceSettings"
    BY <1>0, <1>a, <2>1
  <2> QED BY <2>2, <2>3 DEF Forgets
<1> QED BY <1>1, <1>2, <1>3 DEF Forgets

LEMMA ForgetsOnHearing ==
  ASSUME TypeOK, Forgets, CoordinatorHears
  PROVE  Forgets'
<1>0. /\ events # <<>> /\ events' = Tail(events)
      /\ heard' = IF Head(events).type = "VoiceSettings" THEN Head(events).version
                  ELSE IF LosesDiscord(Head(events).type) THEN None ELSE heard
  BY DEF CoordinatorHears
<1>1. /\ Len(events) \in Nat /\ Len(events) >= 1 /\ Len(events') = Len(events) - 1
      /\ Head(events) = events[1]
      /\ \A i \in 1 .. Len(events) - 1 : events'[i] = events[i + 1]
  BY <1>0, OfTail DEF TypeOK
<1>2. \A i \in 1 .. Len(events') : /\ i + 1 \in 1 .. Len(events) /\ events'[i] = events[i + 1]
                                   /\ 1 < i + 1
  BY <1>1
<1>3. CASE heard = None /\ \A i \in 1 .. Len(events) : events[i].type # "VoiceSettings"
  <2>1. heard' = None
    <3>1. 1 \in 1 .. Len(events)
      BY <1>1
    <3> QED BY <3>1, <1>0, <1>1, <1>3
  <2> QED BY <2>1, <1>2, <1>3 DEF Forgets
<1>4. ASSUME NEW i \in 1 .. Len(events), LosesDiscord(events[i].type),
             \A j \in 1 .. Len(events) : i < j => events[j].type # "VoiceSettings"
      PROVE  Forgets'
  <2>1. CASE i = 1
    <3>1. heard' = None
      BY <2>1, <1>0, <1>1, <1>4 DEF LosesDiscord
    <3>2. \A j \in 1 .. Len(events') : events'[j].type # "VoiceSettings"
      BY <2>1, <1>2, <1>4
    <3> QED BY <3>1, <3>2 DEF Forgets
  <2>2. CASE i > 1
    <3>1. i - 1 \in 1 .. Len(events') /\ events'[i - 1] = events[i]
      <4>1. i - 1 \in 1 .. Len(events) - 1 /\ (i - 1) + 1 = i
        BY <2>2, <1>1
      <4> QED BY <4>1, <1>1
    <3>2. \A j \in 1 .. Len(events') : i - 1 < j => events'[j].type # "VoiceSettings"
      <4> SUFFICES ASSUME NEW j \in 1 .. Len(events'), i - 1 < j
                   PROVE  events'[j].type # "VoiceSettings"
        OBVIOUS
      <4>1. j + 1 \in 1 .. Len(events) /\ events'[j] = events[j + 1] /\ i < j + 1
        BY <1>1, <1>2
      <4> QED BY <4>1, <1>4
    <3> QED BY <3>1, <3>2, <1>4 DEF Forgets
  <2> QED BY <2>1, <2>2, <1>1
<1> QED BY <1>3, <1>4 DEF Forgets

\* Until the next session the coordinator forgets the last one.
LEMMA EndedKept ==
  ASSUME Ended, UNCHANGED <<client, saying, events, heard>>
  PROVE  Ended'
BY DEF Ended, Forgets

LEMMA SilenceEnds ==
  ASSUME TypeOK, Ended, ClientSays
  PROVE  Ended'
<1>1. /\ events' = Append(events, Head(saying)) /\ saying' = Tail(saying) /\ saying # <<>>
      /\ client' = client /\ heard' = heard
  BY DEF ClientSays, coordVars
<1>2. CASE client # "Sleeping"
  BY <1>1, <1>2 DEF Ended
<1>3. CASE client = "Sleeping"
  <2>1. saying = <<Says("Disconnected")>>
    BY <1>1, <1>3 DEF Ended
  <2>2. Head(saying) = Says("Disconnected") /\ saying' = <<>>
    BY <1>1, <2>1
  <2>3. /\ Says("Disconnected") \in Event /\ LosesDiscord(Says("Disconnected").type)
        /\ Says("Disconnected").type # "VoiceSettings"
    BY DEF Says, Event, LosesDiscord
  <2>4. Forgets'
    BY <1>1, <2>2, <2>3, ForgetsOnAppend
  <2> QED BY <2>2, <2>4 DEF Ended
<1> QED BY <1>2, <1>3

LEMMA NextStep == IInv /\ [Next]_vars => IInv'
<1> SUFFICES ASSUME IInv, [Next]_vars PROVE IInv'
  OBVIOUS
<1>0. TypeOK /\ InOrder /\ Ended
  BY DEF IInv
<1>1. CASE ClientSays
  BY <1>0, <1>1, SupervisorSteps, SilenceEnds DEF IInv
<1>2. CASE SupervisorWakes \/ SupervisorConnects
  <2>1. client' = "Sleeping" => saying' = <<Says("Disconnected")>>
    BY <1>2 DEF SupervisorWakes, SupervisorConnects, SessionEnds, GoesOn
  <2> QED BY <1>0, <1>2, <2>1, SupervisorSteps DEF IInv, Ended
<1>3. CASE ClientAsks \/ ClientDropsFrame \/ ClientReadsEnd
  BY <1>0, <1>3, AskSteps DEF IInv, Ended
<1>4. CASE ClientIsAnswered \/ ExchangeFails
  BY <1>0, <1>4, AnswerSteps DEF IInv, Ended
<1>5. CASE RunHandlesFrame \/ RunTakesCommand \/ RunTakesRequest \/ RunReadsEnd
  BY <1>0, <1>5, RunSteps DEF IInv, Ended
<1>6. CASE DiscordAnswers \/ DiscordSets \/ DiscordAsksUser
  BY <1>0, <1>6, DiscordSteps, EndedKept DEF IInv
<1>7. CASE UserAnswers \/ UserChangesVoice \/ DiscordStops \/ DiscordStarts \/ AuthorizePressed
  BY <1>0, <1>7, UserSteps, EndedKept DEF IInv
<1>8. CASE CoordinatorHears
  <2>1. TypeOK' /\ InOrder' /\ UNCHANGED <<client, saying>>
    BY <1>0, <1>8, Hearing
  <2>2. Ended'
    BY <1>0, <1>8, <2>1, ForgetsOnHearing DEF Ended
  <2> QED BY <2>1, <2>2 DEF IInv
<1>9. CASE CoordinatorSends \/ VRChatReports
  <2>1. /\ TypeOK' /\ InOrder' /\ UNCHANGED <<client, saying, heard>>
        /\ events' = events \/ events' = Append(events, Says("VRChat"))
    BY <1>0, <1>9, ChannelSteps
  <2>2. Says("VRChat") \in Event /\ Says("VRChat").type # "VoiceSettings"
    BY DEF Says, Event
  <2>3. CASE events' = events
    BY <1>0, <2>1, <2>3, EndedKept DEF IInv
  <2>4. CASE events' = Append(events, Says("VRChat"))
    BY <1>0, <2>1, <2>2, <2>4, ForgetsOnAppend DEF IInv, Ended
  <2> QED BY <2>1, <2>3, <2>4
<1>10. CASE UNCHANGED vars
  <2>1. UNCHANGED <<client, saying, events, heard>>
    BY <1>10 DEF vars, clientVars, channelVars, coordVars
  <2>2. TypeOK'
    BY <1>0, <1>10 DEF TypeOK, vars, discordVars, clientVars, channelVars, coordVars
  <2>3. InOrder'
    BY <1>0, <1>10 DEF InOrder, vars, discordVars, clientVars, channelVars, coordVars
  <2> QED BY <1>0, <2>1, <2>2, <2>3, EndedKept DEF IInv
<1> QED BY <1>1, <1>2, <1>3, <1>4, <1>5, <1>6, <1>7, <1>8, <1>9, <1>10
        DEF Next, Client, Discord, Coordinator, People

-----------------------------------------------------------------------------
(* What the coordinator learns while no authorization fails.                 *)

Entry == [cmd : Requests \union {"SET_VOICE_SETTINGS"}, mute : {0, 1}]

NoRequest(seq)   == \A i \in 1 .. Len(seq) : seq[i].cmd = "SET_VOICE_SETTINGS"
RequestLast(seq) == \A i \in 1 .. Len(seq) - 1 : seq[i].cmd = "SET_VOICE_SETTINGS"

NoReply(seq)   == \A i \in 1 .. Len(seq) : seq[i].kind # "Reply"
OneReply(seq)  == \A i, j \in 1 .. Len(seq) :
                     seq[i].kind = "Reply" /\ seq[j].kind = "Reply" => i = j
RepliesOk(seq) == \A i \in 1 .. Len(seq) : seq[i].kind = "Reply" => seq[i].ok
EndsWith(seq, value) == seq # <<>> => seq[Len(seq)].ok /\ seq[Len(seq)].version = value

\* Without a connection Discord has nothing of the session.
LosesPipe ==
    /\ pipe # "Open" => to_discord = <<>> /\ ~dialog /\ ~authed /\ ~subscribed
    /\ pipe = "None" => to_client = <<>>

\* One request is on its way there, before the user, or on its way back.
OneRequest ==
    /\ RequestLast(to_discord) /\ OneReply(to_client)
    /\ ~asked => NoRequest(to_discord) /\ ~dialog /\ NoReply(to_client)
    /\ ~NoRequest(to_discord) => ~dialog /\ NoReply(to_client)
    /\ dialog => NoReply(to_client)

\* Nothing is refused to whoever is authenticated.
Granted ==
    /\ subscribed => authed
    /\ authed => RepliesOk(to_client)

\* Discord tells a subscriber of every change.
LastIsCurrent == subscribed => EndsWith(to_client, version)

Linked == /\ to_discord \in Seq(Entry)
          /\ LosesPipe /\ OneRequest /\ Granted /\ LastIsCurrent

\* The setup ends with the request for the current state.
SeedsLast == client \in {"Setup", "Reseeding"} =>
                todo # <<>> /\ todo[Len(todo)] = "GET_VOICE_SETTINGS"

\* Of events on their way, the last that changes the belief makes it this value.
Tells(event) == event.type = "VoiceSettings" \/ LosesDiscord(event.type)
Still(seq) == \A i \in 1 .. Len(seq) : ~Tells(seq[i])
TellsLast(seq, value) ==
    \E i \in 1 .. Len(seq) :
       /\ seq[i].type = "VoiceSettings" /\ seq[i].version = value
       /\ \A j \in 1 .. Len(seq) : i < j => ~Tells(seq[j])

Learns(first, second, belief, value) ==
    \/ TellsLast(second, value)
    \/ Still(second) /\ TellsLast(first, value)
    \/ Still(second) /\ Still(first) /\ belief = value

\* What is not on the pipe any more is on its way through the channel, or heard.
WillKnow == client = "Running" /\ subscribed /\ to_client = <<>> =>
               Learns(events, saying, heard, version)

Attentive == ~world.declines => Linked /\ SeedsLast /\ WillKnow

LEMMA EmptyPipe ==
  /\ NoRequest(<<>>) /\ RequestLast(<<>>) /\ NoReply(<<>>) /\ OneReply(<<>>) /\ RepliesOk(<<>>)
  /\ \A value : EndsWith(<<>>, value)
<1>1. Len(<<>>) = 0 /\ 1 .. Len(<<>>) = {} /\ 1 .. Len(<<>>) - 1 = {}
  OBVIOUS
<1> QED BY <1>1 DEF NoRequest, RequestLast, NoReply, OneReply, RepliesOk, EndsWith

LEMMA RequestAppended ==
  ASSUME NEW q \in Seq(Entry), NEW x \in Entry, NEW longer, longer = Append(q, x)
  PROVE  /\ longer \in Seq(Entry)
         /\ NoRequest(q) => RequestLast(longer)
         /\ NoRequest(q) /\ x.cmd = "SET_VOICE_SETTINGS" => NoRequest(longer)
<1>1. /\ longer \in Seq(Entry) /\ Len(q) \in Nat /\ Len(longer) = Len(q) + 1
      /\ \A i \in 1 .. Len(q) : longer[i] = q[i]
      /\ longer[Len(q) + 1] = x
  BY OfAppend
<1>2. /\ 1 .. Len(longer) - 1 = 1 .. Len(q)
      /\ \A i \in 1 .. Len(longer) : i \in 1 .. Len(q) \/ i = Len(q) + 1
  BY <1>1
<1> QED BY <1>1, <1>2 DEF NoRequest, RequestLast

LEMMA RequestTaken ==
  ASSUME NEW q \in Seq(Entry), q # <<>>, NEW rest, rest = Tail(q), RequestLast(q)
  PROVE  /\ rest \in Seq(Entry) /\ RequestLast(rest) /\ Head(q) \in Entry
         /\ NoRequest(q) => NoRequest(rest) /\ Head(q).cmd = "SET_VOICE_SETTINGS"
         /\ Head(q).cmd # "SET_VOICE_SETTINGS" => rest = <<>> /\ ~NoRequest(q)
<1>1. /\ rest \in Seq(Entry) /\ Head(q) \in Entry /\ Head(q) = q[1]
      /\ Len(q) \in Nat /\ Len(q) >= 1 /\ Len(rest) = Len(q) - 1
      /\ \A i \in 1 .. Len(q) - 1 : rest[i] = q[i + 1]
  BY OfTail
<1>2. \A i \in 1 .. Len(rest) : i + 1 \in 1 .. Len(q) /\ rest[i] = q[i + 1]
  BY <1>1
<1>3. \A i \in 1 .. Len(rest) - 1 : i + 1 \in 1 .. Len(q) - 1 /\ i \in 1 .. Len(q) - 1
  BY <1>1
<1>4. 1 \in 1 .. Len(q) /\ (Len(q) > 1 => 1 \in 1 .. Len(q) - 1)
  BY <1>1
<1>5. RequestLast(rest)
  BY <1>1, <1>3 DEF RequestLast
<1>6. NoRequest(q) => NoRequest(rest) /\ Head(q).cmd = "SET_VOICE_SETTINGS"
  BY <1>1, <1>2, <1>4 DEF NoRequest
<1>7. ASSUME Head(q).cmd # "SET_VOICE_SETTINGS" PROVE rest = <<>>
  <2>1. ~(Len(q) > 1)
    BY <1>1, <1>4, <1>7 DEF RequestLast
  <2>2. Len(rest) = 0
    BY <1>1, <2>1
  <2> QED BY <1>1, <2>2
<1> QED BY <1>1, <1>5, <1>6, <1>7

LEMMA FrameAppended ==
  ASSUME NEW q \in Seq(Frame), NEW m \in Frame, NEW longer, longer = Append(q, m)
  PROVE  /\ longer \in Seq(Frame) /\ longer # <<>>
         /\ NoReply(q) => OneReply(longer)
         /\ m.kind # "Reply" => (NoReply(q) => NoReply(longer)) /\ (OneReply(q) => OneReply(longer))
         /\ RepliesOk(q) /\ m.ok => RepliesOk(longer)
         /\ RepliesOk(q) /\ m.kind # "Reply" => RepliesOk(longer)
         /\ \A value : m.ok /\ m.version = value => EndsWith(longer, value)
<1>1. /\ longer \in Seq(Frame) /\ longer # <<>> /\ Len(q) \in Nat /\ Len(longer) = Len(q) + 1
      /\ \A i \in 1 .. Len(q) : longer[i] = q[i]
      /\ longer[Len(q) + 1] = m
  BY OfAppend
<1>2. \A i \in 1 .. Len(longer) : i \in 1 .. Len(q) \/ i = Len(q) + 1
  BY <1>1
<1>3. NoReply(q) => OneReply(longer)
  BY <1>1, <1>2 DEF NoReply, OneReply
<1>4. m.kind # "Reply" => (NoReply(q) => NoReply(longer)) /\ (OneReply(q) => OneReply(longer))
  BY <1>1, <1>2 DEF NoReply, OneReply
<1>5. RepliesOk(q) /\ (m.ok \/ m.kind # "Reply") => RepliesOk(longer)
  BY <1>1, <1>2 DEF RepliesOk
<1>6. \A value : m.ok /\ m.version = value => EndsWith(longer, value)
  BY <1>1 DEF EndsWith
<1> QED BY <1>1, <1>3, <1>4, <1>5, <1>6

LEMMA FrameTaken ==
  ASSUME NEW q \in Seq(Frame), q # <<>>, NEW rest, rest = Tail(q), OneReply(q)
  PROVE  /\ rest \in Seq(Frame) /\ Head(q) \in Frame /\ OneReply(rest)
         /\ NoReply(q) => NoReply(rest) /\ Head(q).kind # "Reply"
         /\ Head(q).kind = "Reply" => NoReply(rest) /\ ~NoReply(q)
         /\ RepliesOk(q) => RepliesOk(rest) /\ (Head(q).kind = "Reply" => Head(q).ok)
         /\ \A value : EndsWith(q, value) =>
               /\ EndsWith(rest, value)
               /\ rest = <<>> => Head(q).ok /\ Head(q).version = value
<1>1. /\ rest \in Seq(Frame) /\ Head(q) \in Frame /\ Head(q) = q[1]
      /\ Len(q) \in Nat /\ Len(q) >= 1 /\ Len(rest) = Len(q) - 1
      /\ \A i \in 1 .. Len(q) - 1 : rest[i] = q[i + 1]
  BY OfTail
<1>2. /\ \A i \in 1 .. Len(rest) : i + 1 \in 1 .. Len(q) /\ rest[i] = q[i + 1] /\ i + 1 # 1
      /\ \A i, j \in 1 .. Len(rest) : i + 1 = j + 1 => i = j
  BY <1>1
<1>3. 1 \in 1 .. Len(q)
  BY <1>1
<1>4. OneReply(rest)
  BY <1>1, <1>2 DEF OneReply
<1>5. NoReply(q) => NoReply(rest) /\ Head(q).kind # "Reply"
  BY <1>1, <1>2, <1>3 DEF NoReply
<1>6. Head(q).kind = "Reply" => NoReply(rest)
  BY <1>1, <1>2, <1>3 DEF NoReply, OneReply
<1>7. RepliesOk(q) => RepliesOk(rest) /\ (Head(q).kind = "Reply" => Head(q).ok)
  BY <1>1, <1>2, <1>3 DEF RepliesOk
<1>8. ASSUME NEW value, EndsWith(q, value)
      PROVE  EndsWith(rest, value) /\ (rest = <<>> => Head(q).ok /\ Head(q).version = value)
  <2>1. rest # <<>> => Len(rest) \in 1 .. Len(rest) /\ rest[Len(rest)] = q[Len(q)]
    BY <1>1, <1>2
  <2>2. rest = <<>> => Len(q) = 1
    BY <1>1
  <2> QED BY <1>1, <1>8, <2>1, <2>2 DEF EndsWith
<1> QED BY <1>1, <1>4, <1>5, <1>6, <1>7, <1>8

LEMMA FramesCut ==
  ASSUME NEW q \in Seq(Frame), NEW k \in 0 .. Len(q), NEW cut, cut = SubSeq(q, 1, k)
  PROVE  /\ NoReply(q) => NoReply(cut)
         /\ OneReply(q) => OneReply(cut)
<1>1. /\ Len(cut) = k /\ k <= Len(q) /\ \A i \in 1 .. k : cut[i] = q[i] /\ i \in 1 .. Len(q)
  OBVIOUS
<1> QED BY <1>1 DEF NoReply, OneReply

LEMMA EventAppended ==
  ASSUME NEW q \in Seq(Event), NEW m \in Event, NEW value
  PROVE  /\ ~Tells(m) /\ Still(q) => Still(Append(q, m))
         /\ ~Tells(m) /\ TellsLast(q, value) => TellsLast(Append(q, m), value)
         /\ m.type = "VoiceSettings" /\ m.version = value => TellsLast(Append(q, m), value)
<1> DEFINE longer == Append(q, m)
<1>1. /\ Len(q) \in Nat /\ Len(longer) = Len(q) + 1
      /\ \A i \in 1 .. Len(q) : longer[i] = q[i]
      /\ longer[Len(q) + 1] = m
  BY OfAppend
<1> HIDE DEF longer
<1>2. \A i \in 1 .. Len(longer) : i \in 1 .. Len(q) \/ i = Len(q) + 1
  BY <1>1
<1>3. ~Tells(m) /\ Still(q) => Still(longer)
  BY <1>1, <1>2 DEF Still
<1>4. ASSUME ~Tells(m), TellsLast(q, value) PROVE TellsLast(longer, value)
  <2>1. PICK i \in 1 .. Len(q) :
           /\ q[i].type = "VoiceSettings" /\ q[i].version = value
           /\ \A j \in 1 .. Len(q) : i < j => ~Tells(q[j])
    BY <1>4 DEF TellsLast
  <2>2. i \in 1 .. Len(longer) /\ longer[i] = q[i]
    BY <1>1
  <2>3. \A j \in 1 .. Len(longer) : i < j => ~Tells(longer[j])
    BY <1>1, <1>2, <1>4, <2>1
  <2> QED BY <2>1, <2>2, <2>3 DEF TellsLast
<1>5. ASSUME m.type = "VoiceSettings", m.version = value PROVE TellsLast(longer, value)
  <2>1. Len(q) + 1 \in 1 .. Len(longer) /\ \A j \in 1 .. Len(longer) : ~(Len(q) + 1 < j)
    BY <1>1
  <2> QED BY <1>1, <1>5, <2>1 DEF TellsLast
<1> QED BY <1>3, <1>4, <1>5 DEF longer

LEMMA EventTaken ==
  ASSUME NEW q \in Seq(Event), q # <<>>, NEW value
  PROVE  /\ Still(q) => Still(Tail(q)) /\ ~Tells(Head(q))
         /\ TellsLast(q, value) =>
               \/ TellsLast(Tail(q), value)
               \/ /\ Still(Tail(q)) /\ Head(q).type = "VoiceSettings"
                  /\ Head(q).version = value
<1> DEFINE rest == Tail(q)
<1>1. /\ Head(q) = q[1] /\ Len(q) \in Nat /\ Len(q) >= 1 /\ Len(rest) = Len(q) - 1
      /\ \A i \in 1 .. Len(q) - 1 : rest[i] = q[i + 1]
  BY OfTail
<1> HIDE DEF rest
<1>2. \A i \in 1 .. Len(rest) : i + 1 \in 1 .. Len(q) /\ rest[i] = q[i + 1] /\ 1 < i + 1
  BY <1>1
<1>3. 1 \in 1 .. Len(q)
  BY <1>1
<1>4. Still(q) => Still(rest) /\ ~Tells(Head(q))
  BY <1>1, <1>2, <1>3 DEF Still
<1>5. ASSUME TellsLast(q, value)
      PROVE  \/ TellsLast(rest, value)
             \/ Still(rest) /\ Head(q).type = "VoiceSettings" /\ Head(q).version = value
  <2>1. PICK i \in 1 .. Len(q) :
           /\ q[i].type = "VoiceSettings" /\ q[i].version = value
           /\ \A j \in 1 .. Len(q) : i < j => ~Tells(q[j])
    BY <1>5 DEF TellsLast
  <2>2. CASE i = 1
    BY <1>1, <1>2, <2>1, <2>2 DEF Still
  <2>3. CASE i > 1
    <3>1. i - 1 \in 1 .. Len(rest) /\ rest[i - 1] = q[i]
      <4>1. i - 1 \in 1 .. Len(q) - 1 /\ (i - 1) + 1 = i
        BY <1>1, <2>3
      <4> QED BY <1>1, <4>1
    <3>2. \A j \in 1 .. Len(rest) : i - 1 < j => ~Tells(rest[j])
      <4> SUFFICES ASSUME NEW j \in 1 .. Len(rest), i - 1 < j PROVE ~Tells(rest[j])
        OBVIOUS
      <4>1. j + 1 \in 1 .. Len(q) /\ rest[j] = q[j + 1] /\ i < j + 1
        BY <1>1, <1>2
      <4> QED BY <2>1, <4>1
    <3> QED BY <2>1, <3>1, <3>2 DEF TellsLast
  <2> QED BY <1>1, <2>2, <2>3
<1> QED BY <1>4, <1>5 DEF rest

\* The client says a state first, and then nothing that changes the belief.
LEMMA VoiceFirst ==
  ASSUME NEW value \in Nat, NEW rest \in Seq(Event), Still(rest)
  PROVE  TellsLast(<<Voice(value)>> \o rest, value)
<1> DEFINE e == Voice(value)
           q == <<e>> \o rest
<1>1. e \in Event /\ e.type = "VoiceSettings" /\ e.version = value
  BY DEF Voice, Event
<1> HIDE DEF e
<1>2. /\ Len(rest) \in Nat /\ Len(q) = 1 + Len(rest) /\ q[1] = e
      /\ \A i \in 2 .. Len(q) : q[i] = rest[i - 1]
  BY <1>1
<1> HIDE DEF q
<1>3. \A j \in 1 .. Len(q) : 1 < j => j \in 2 .. Len(q) /\ j - 1 \in 1 .. Len(rest)
  BY <1>2
<1>4. 1 \in 1 .. Len(q) /\ \A j \in 1 .. Len(q) : 1 < j => ~Tells(q[j])
  BY <1>2, <1>3 DEF Still
<1>5. TellsLast(q, value)
  BY <1>1, <1>2, <1>4 DEF TellsLast
<1> QED BY <1>5 DEF q, e

LEMMA LinkedKept ==
  ASSUME Linked, pipe' = pipe, to_discord' = to_discord, to_client' = to_client, asked' = asked,
         dialog' = dialog, authed' = authed, subscribed' = subscribed, version' = version
  PROVE  Linked'
BY DEF Linked, LosesPipe, OneRequest, Granted, LastIsCurrent

LEMMA HungUp ==
  ASSUME HangsUp, asked' = FALSE
  PROVE  Linked'
<1>1. /\ pipe' = "None" /\ to_discord' = <<>> /\ to_client' = <<>>
      /\ authed' = FALSE /\ subscribed' = FALSE /\ dialog' = FALSE
  BY DEF HangsUp
<1>2. to_discord' \in Seq(Entry)
  BY <1>1, OfEmpty
<1>3. OneRequest'
  BY <1>1, EmptyPipe DEF OneRequest
<1> QED BY <1>1, <1>2, <1>3 DEF Linked, LosesPipe, Granted, LastIsCurrent

\* The client takes a frame: a reply only if it waits for it.
LEMMA LinkedTaking ==
  ASSUME TypeOK, Linked, to_client # <<>>, to_client' = Tail(to_client),
         \/ Head(to_client).kind = "Reply" /\ asked /\ asked' = FALSE
         \/ Head(to_client).kind # "Reply" /\ asked' = asked
         \/ ~asked /\ asked' = asked,
         pipe' = pipe, to_discord' = to_discord, dialog' = dialog, authed' = authed,
         subscribed' = subscribed, version' = version
  PROVE  Linked'
<1>1. to_client \in Seq(Frame) /\ OneReply(to_client)
  BY DEF TypeOK, Linked, OneRequest
<1>2. /\ OneReply(to_client')
      /\ NoReply(to_client) => NoReply(to_client')
      /\ Head(to_client).kind = "Reply" => NoReply(to_client') /\ ~NoReply(to_client)
      /\ RepliesOk(to_client) => RepliesOk(to_client')
      /\ EndsWith(to_client, version) => EndsWith(to_client', version)
  BY <1>1, FrameTaken
<1>3. OneRequest'
  BY <1>2 DEF Linked, OneRequest
<1>4. LosesPipe' /\ Granted' /\ LastIsCurrent'
  BY <1>2 DEF Linked, LosesPipe, Granted, LastIsCurrent
<1> QED BY <1>3, <1>4 DEF Linked

\* Discord writes a frame that is no reply.
LEMMA LinkedTelling ==
  ASSUME TypeOK, TypeOK', Linked, NEW m \in Frame, m.kind # "Reply",
         to_client' = Append(to_client, m),
         subscribed => m.ok /\ m.version = version',
         to_discord' = to_discord \/
            (to_discord # <<>> /\ to_discord' = Tail(to_discord)
               /\ Head(to_discord).cmd = "SET_VOICE_SETTINGS"),
         pipe' = pipe, pipe # "None", asked' = asked, dialog' = dialog, authed' = authed,
         subscribed' = subscribed
  PROVE  Linked'
<1>1. to_client \in Seq(Frame) /\ to_discord \in Seq(Entry)
  BY DEF TypeOK, Linked
<1>2. /\ NoReply(to_client) => NoReply(to_client')
      /\ OneReply(to_client) => OneReply(to_client')
      /\ RepliesOk(to_client) => RepliesOk(to_client')
      /\ \A value : m.ok /\ m.version = value => EndsWith(to_client', value)
  BY <1>1, FrameAppended
<1>3. /\ to_discord' \in Seq(Entry) /\ RequestLast(to_discord')
      /\ NoRequest(to_discord) => NoRequest(to_discord')
      /\ to_discord = <<>> => to_discord' = <<>>
  BY <1>1, RequestTaken DEF Linked, OneRequest
<1>4. OneRequest'
  BY <1>2, <1>3 DEF Linked, OneRequest
<1>5. LosesPipe' /\ Granted'
  BY <1>2, <1>3 DEF Linked, LosesPipe, Granted
<1>6. LastIsCurrent'
  BY <1>2 DEF LastIsCurrent
<1> QED BY <1>3, <1>4, <1>5, <1>6 DEF Linked

\* Discord, or the user, replies to what is asked.
LEMMA LinkedReplying ==
  ASSUME TypeOK, TypeOK', Linked, NEW ok \in BOOLEAN,
         to_client' = Append(to_client, Reply(ok)),
         authed' \/ subscribed' => ok, subscribed' => authed', authed => authed',
         \/ dialog /\ to_discord' = to_discord
         \/ /\ to_discord # <<>> /\ to_discord' = Tail(to_discord)
            /\ Head(to_discord).cmd # "SET_VOICE_SETTINGS",
         pipe' = pipe, pipe = "Open", asked' = asked, dialog' = FALSE, version' = version
  PROVE  Linked'
<1>0. version \in Nat /\ to_client \in Seq(Frame) /\ to_discord \in Seq(Entry)
  BY DEF TypeOK, Linked
<1>1. Reply(ok) \in Frame /\ Reply(ok).ok = ok /\ Reply(ok).version = version
  BY <1>0 DEF Reply, Frame
<1>2. NoReply(to_client) /\ asked
  <2>1. CASE dialog
    BY <2>1 DEF Linked, OneRequest
  <2>2. CASE ~dialog
    BY <1>0, <2>2, RequestTaken DEF Linked, OneRequest
  <2> QED BY <2>1, <2>2
<1>3. /\ OneReply(to_client')
      /\ RepliesOk(to_client) /\ ok => RepliesOk(to_client')
      /\ ok => EndsWith(to_client', version)
  BY <1>0, <1>1, <1>2, FrameAppended
<1>4. to_discord' \in Seq(Entry) /\ NoRequest(to_discord') /\ RequestLast(to_discord')
  <2>1. CASE dialog /\ to_discord' = to_discord
    BY <2>1 DEF Linked, OneRequest
  <2>2. CASE /\ to_discord # <<>> /\ to_discord' = Tail(to_discord)
             /\ Head(to_discord).cmd # "SET_VOICE_SETTINGS"
    BY <1>0, <2>2, RequestTaken, EmptyPipe DEF Linked, OneRequest
  <2> QED BY <2>1, <2>2
<1>5. OneRequest'
  BY <1>2, <1>3, <1>4 DEF OneRequest
<1>6. RepliesOk(to_client)
  BY <1>2 DEF NoReply, RepliesOk
<1>7. Granted' /\ LastIsCurrent' /\ LosesPipe'
  BY <1>3, <1>6 DEF Granted, LastIsCurrent, LosesPipe
<1> QED BY <1>4, <1>5, <1>7 DEF Linked

\* What the client does with the pipe.
LEMMA ClientLinked ==
  ASSUME TypeOK, TypeOK', Linked, Client \/ ExchangeFails
  PROVE  Linked'
<1>1. ASSUME RequestFails, asked => to_client = <<>>, pipe = "Broken" PROVE Linked'
  <2>1. CASE SessionEnds
    BY <2>1, HungUp DEF SessionEnds, GoesOn
  <2>2. CASE UNCHANGED discordVars /\ asked' = FALSE
    <3>1. to_discord = <<>> /\ ~dialog /\ ~authed /\ ~subscribed /\ NoReply(to_client)
      BY <1>1, EmptyPipe DEF Linked, LosesPipe, OneRequest
    <3>2. /\ pipe' = pipe /\ to_discord' = to_discord /\ to_client' = to_client
          /\ dialog' = dialog /\ authed' = authed /\ subscribed' = subscribed
      BY <2>2 DEF discordVars
    <3>3. OneRequest'
      BY <2>2, <3>1, <3>2, EmptyPipe DEF Linked, OneRequest
    <3> QED BY <3>1, <3>2, <3>3 DEF Linked, LosesPipe, Granted, LastIsCurrent
  <2> QED BY <1>1, <2>1, <2>2 DEF RequestFails, GoesOn
<1>2. CASE ClientSays \/ SupervisorWakes \/ RunTakesRequest \/ ExchangeFails
  <2>1. asked' = asked
    BY <1>2 DEF ClientSays, SupervisorWakes, RunTakesRequest, ExchangeFails, GoesOn, Selects, TypeOK
  <2>2. UNCHANGED discordVars
    BY <1>2 DEF ClientSays, SupervisorWakes, RunTakesRequest, ExchangeFails
  <2> QED BY <2>1, <2>2, LinkedKept DEF discordVars
<1>3. CASE SupervisorConnects
  <2>1. client = "Discovering" /\ pipe = "None" /\ asked = FALSE
    BY <1>3 DEF SupervisorConnects, TypeOK
  <2>2. CASE SessionEnds
    BY <2>2, HungUp DEF SessionEnds, GoesOn
  <2>3. CASE ~SessionEnds
    <3>1. /\ pipe' = "Open" /\ asked' = FALSE /\ to_discord' = to_discord
          /\ to_client' = to_client /\ dialog' = dialog /\ authed' = authed
          /\ subscribed' = subscribed /\ version' = version
      BY <1>3, <2>3 DEF SupervisorConnects, GoesOn
    <3> QED BY <2>1, <3>1 DEF Linked, LosesPipe, OneRequest, Granted, LastIsCurrent
  <2> QED BY <2>2, <2>3
<1>4. CASE ClientAsks
  <2>1. CASE pipe = "Broken" /\ RequestFails
    BY <1>1, <1>4, <2>1 DEF ClientAsks
  <2>2. CASE pipe = "Open"
    <3>1. /\ todo # <<>> /\ ~asked /\ asked' = TRUE
          /\ to_discord' = Append(to_discord, Ask(Head(todo)))
          /\ pipe' = pipe /\ to_client' = to_client /\ dialog' = dialog
          /\ authed' = authed /\ subscribed' = subscribed /\ version' = version
      BY <1>4, <2>2 DEF ClientAsks
    <3>2. Ask(Head(todo)) \in Entry
      <4>1. Head(todo) \in Requests
        BY <3>1, OfTail DEF TypeOK
      <4> QED BY <4>1 DEF Ask, Entry
    <3>3. to_discord' \in Seq(Entry) /\ RequestLast(to_discord')
      BY <3>1, <3>2, RequestAppended DEF Linked, OneRequest
    <3>4. OneRequest'
      BY <3>1, <3>3 DEF Linked, OneRequest
    <3> QED BY <2>2, <3>1, <3>3, <3>4 DEF Linked, LosesPipe, Granted, LastIsCurrent
  <2> QED BY <1>4, <2>1, <2>2 DEF ClientAsks
<1>5. CASE ClientDropsFrame
  BY <1>5, LinkedTaking DEF ClientDropsFrame, Unrelated, clientVars
<1>6. CASE ClientIsAnswered
  <2>1. asked' = FALSE
    BY <1>6 DEF ClientIsAnswered, AuthorizationGoesOn, SetupGoesOn, GoesOn
  <2> QED BY <1>6, <2>1, LinkedTaking DEF ClientIsAnswered
<1>7. CASE ClientReadsEnd
  BY <1>1, <1>7 DEF ClientReadsEnd
<1>8. CASE RunHandlesFrame
  <2>1. ~asked
    BY <1>8 DEF RunHandlesFrame, Selects, TypeOK
  <2> QED BY <1>8, <2>1, LinkedTaking DEF RunHandlesFrame
<1>9. CASE RunTakesCommand
  <2>0. ~asked /\ commands # <<>>
    BY <1>9 DEF RunTakesCommand, Selects, TypeOK
  <2>1. CASE SessionEnds
    BY <2>1, HungUp DEF SessionEnds, GoesOn
  <2>2. CASE ~SessionEnds
    <3>1. /\ pipe = "Open" /\ asked' = asked
          /\ to_discord' = Append(to_discord, SetVoice(Head(commands)))
          /\ pipe' = pipe /\ to_client' = to_client /\ dialog' = dialog
          /\ authed' = authed /\ subscribed' = subscribed /\ version' = version
      BY <1>9, <2>2 DEF RunTakesCommand
    <3>2. /\ SetVoice(Head(commands)) \in Entry
          /\ SetVoice(Head(commands)).cmd = "SET_VOICE_SETTINGS"
      <4>1. Head(commands) \in {0, 1}
        BY <2>0, OfTail DEF TypeOK
      <4> QED BY <4>1 DEF SetVoice, Entry
    <3>3. /\ to_discord' \in Seq(Entry) /\ RequestLast(to_discord') /\ NoRequest(to_discord')
      BY <2>0, <3>1, <3>2, RequestAppended DEF Linked, OneRequest
    <3>4. OneRequest'
      BY <2>0, <3>1, <3>3 DEF Linked, OneRequest
    <3> QED BY <3>1, <3>3, <3>4 DEF Linked, LosesPipe, Granted, LastIsCurrent
  <2> QED BY <2>1, <2>2
<1>10. CASE RunReadsEnd
  BY <1>10, HungUp DEF RunReadsEnd, SessionEnds, GoesOn
<1> QED BY <1>2, <1>3, <1>4, <1>5, <1>6, <1>7, <1>8, <1>9, <1>10 DEF Client

\* What Discord does with it.
LEMMA DiscordLinked ==
  ASSUME TypeOK, TypeOK', Linked, ~world.declines,
         Discord \/ UserAnswers \/ UserChangesVoice \/ DiscordStops
  PROVE  Linked'
<1>0. /\ to_client \in Seq(Frame) /\ to_discord \in Seq(Entry) /\ version \in Nat
      /\ authed \in BOOLEAN /\ subscribed \in BOOLEAN /\ version' \in Nat
  BY DEF TypeOK, Linked
<1>1. CASE DiscordAnswers
  <2>1. PICK ok \in Outcomes(Head(to_discord).cmd) :
           /\ to_client' = Append(to_client, Reply(ok))
           /\ authed' = IF Head(to_discord).cmd = "AUTHENTICATE" THEN ok ELSE authed
           /\ subscribed' = (subscribed \/ (ok /\ Head(to_discord).cmd = "VOICE_SETTINGS_UPDATE"))
    BY <1>1 DEF DiscordAnswers
  <2>2. /\ pipe = "Open" /\ to_discord # <<>> /\ ~dialog /\ to_discord' = Tail(to_discord)
        /\ Head(to_discord).cmd # "SET_VOICE_SETTINGS"
        /\ pipe' = pipe /\ version' = version /\ dialog' = FALSE /\ asked' = asked
    BY <1>1 DEF DiscordAnswers, clientVars, TypeOK
  <2>3. /\ ok \in BOOLEAN
        /\ Head(to_discord).cmd \in {"HANDSHAKE", "AUTHENTICATE"} => ok = TRUE
        /\ Head(to_discord).cmd \notin {"HANDSHAKE", "AUTHENTICATE"} => ok = authed
    BY <1>0, <2>1 DEF Outcomes
  <2>4. subscribed => authed
    BY DEF Linked, Granted
  <2>5. /\ authed => authed'
        /\ authed' => ok \/ Head(to_discord).cmd = "HANDSHAKE"
        /\ subscribed' => authed'
    BY <1>0, <2>1, <2>3, <2>4
  <2>6. authed' \/ subscribed' => ok
    BY <2>3, <2>5
  <2> QED BY <2>1, <2>2, <2>3, <2>5, <2>6, LinkedReplying
<1>2. CASE DiscordSets
  <2>0. /\ pipe = "Open" /\ to_discord # <<>> /\ to_discord' = Tail(to_discord)
        /\ Head(to_discord).cmd = "SET_VOICE_SETTINGS"
        /\ pipe' = pipe /\ authed' = authed /\ subscribed' = subscribed /\ dialog' = dialog
        /\ asked' = asked
    BY <1>2 DEF DiscordSets, clientVars
  <2>1. CASE ~authed
    <3>1. to_client' = Append(to_client, SetReply(FALSE, 0))
      BY <1>2, <2>1 DEF DiscordSets
    <3>2. SetReply(FALSE, 0) \in Frame /\ SetReply(FALSE, 0).kind # "Reply" /\ ~subscribed
      BY <2>1 DEF SetReply, Frame, Linked, Granted
    <3> QED BY <2>0, <3>1, <3>2, LinkedTelling
  <2>2. CASE authed
    <3> DEFINE first  == SetReply(TRUE, version')
               second == Update(version')
               q      == Append(to_client, first)
    <3>1. /\ first \in Frame /\ first.kind # "Reply" /\ first.ok /\ first.version = version'
          /\ second \in Frame /\ second.kind # "Reply" /\ second.ok /\ second.version = version'
      BY <1>0 DEF SetReply, Update, Frame
    <3>2. to_client' = q \/ to_client' = Append(q, second)
      <4>1. to_client' = to_client \o <<first>>
               \o (IF subscribed /\ version' # version THEN <<second>> ELSE <<>>)
        BY <1>2, <2>2 DEF DiscordSets
      <4> HIDE DEF first, second
      <4>2. to_client \o <<first>> \o <<>> = Append(to_client, first)
        BY <1>0, <3>1
      <4>3. to_client \o <<first>> \o <<second>> = Append(Append(to_client, first), second)
        BY <1>0, <3>1
      <4> QED BY <4>1, <4>2, <4>3
    <3> HIDE DEF first, second
    <3>3. CASE to_client' = q
      BY <2>0, <3>1, <3>3, LinkedTelling
    <3>4. CASE to_client' = Append(q, second)
      <4>1. /\ q \in Seq(Frame)
            /\ NoReply(to_client) => NoReply(q)
            /\ OneReply(to_client) => OneReply(q)
            /\ RepliesOk(to_client) => RepliesOk(q)
        BY <1>0, <3>1, FrameAppended
      <4> HIDE DEF q
      <4>2. /\ NoReply(q) => NoReply(to_client')
            /\ OneReply(q) => OneReply(to_client')
            /\ RepliesOk(q) => RepliesOk(to_client')
            /\ EndsWith(to_client', version')
        BY <3>1, <3>4, <4>1, FrameAppended
      <4>3. /\ to_discord' \in Seq(Entry) /\ RequestLast(to_discord')
            /\ NoRequest(to_discord) => NoRequest(to_discord')
        BY <1>0, <2>0, RequestTaken DEF Linked, OneRequest
      <4>4. OneRequest'
        BY <2>0, <4>1, <4>2, <4>3 DEF Linked, OneRequest
      <4> QED BY <2>0, <2>2, <4>1, <4>2, <4>3, <4>4
              DEF Linked, LosesPipe, Granted, LastIsCurrent
    <3> QED BY <3>2, <3>3, <3>4
  <2> QED BY <1>0, <2>1, <2>2
<1>3. CASE DiscordAsksUser
  <2>1. /\ pipe = "Open" /\ to_discord # <<>> /\ to_discord' = Tail(to_discord)
        /\ Head(to_discord).cmd # "SET_VOICE_SETTINGS" /\ dialog' = TRUE
        /\ pipe' = pipe /\ to_client' = to_client /\ version' = version /\ authed' = authed
        /\ subscribed' = subscribed /\ asked' = asked
    BY <1>3 DEF DiscordAsksUser, clientVars
  <2>2. to_discord' \in Seq(Entry) /\ to_discord' = <<>> /\ ~NoRequest(to_discord)
    BY <1>0, <2>1, RequestTaken DEF Linked, OneRequest
  <2>3. asked /\ NoReply(to_client)
    BY <2>2 DEF Linked, OneRequest
  <2>4. OneRequest'
    BY <2>1, <2>2, <2>3, EmptyPipe DEF Linked, OneRequest
  <2> QED BY <2>1, <2>2, <2>4 DEF Linked, LosesPipe, Granted, LastIsCurrent
<1>4. CASE UserAnswers
  <2>1. /\ dialog /\ dialog' = FALSE /\ to_client' = Append(to_client, Reply(TRUE))
        /\ pipe' = pipe /\ to_discord' = to_discord /\ version' = version /\ authed' = authed
        /\ subscribed' = subscribed /\ asked' = asked
    BY <1>4 DEF UserAnswers, clientVars
  <2>2. pipe = "Open" /\ (subscribed => authed)
    BY <2>1 DEF Linked, LosesPipe, Granted
  <2> QED BY <2>1, <2>2, LinkedReplying
<1>5. CASE UserChangesVoice
  <2>1. /\ to_client' = IF subscribed THEN Append(to_client, Update(version')) ELSE to_client
        /\ pipe' = pipe /\ to_discord' = to_discord /\ authed' = authed
        /\ subscribed' = subscribed /\ dialog' = dialog /\ asked' = asked
    BY <1>5 DEF UserChangesVoice, clientVars
  <2>2. CASE subscribed
    <3>1. /\ Update(version') \in Frame /\ Update(version').kind # "Reply"
          /\ Update(version').ok /\ Update(version').version = version'
      BY <1>0 DEF Update, Frame
    <3>2. pipe # "None"
      BY <2>2 DEF Linked, LosesPipe
    <3> QED BY <2>1, <2>2, <3>1, <3>2, LinkedTelling
  <2>3. CASE ~subscribed
    BY <2>1, <2>3 DEF Linked, LosesPipe, OneRequest, Granted, LastIsCurrent
  <2> QED BY <1>0, <2>2, <2>3
<1>6. CASE DiscordStops
  <2>1. /\ pipe' = (IF pipe = "Open" THEN "Broken" ELSE pipe) /\ to_discord' = <<>>
        /\ authed' = FALSE /\ subscribed' = FALSE /\ dialog' = FALSE /\ asked' = asked
    BY <1>6 DEF DiscordStops, clientVars
  <2>2. PICK k \in 0 .. Len(to_client) : to_client' = SubSeq(to_client, 1, k)
    BY <1>6 DEF DiscordStops
  <2>3. /\ NoReply(to_client) => NoReply(to_client')
        /\ OneReply(to_client')
    BY <1>0, <2>2, FramesCut DEF Linked, OneRequest
  <2>4. pipe' = "None" => to_client' = <<>>
    <3>1. ASSUME to_client = <<>> PROVE to_client' = <<>>
      BY <2>2, <3>1, OfEmpty
    <3> QED BY <2>1, <3>1 DEF Linked, LosesPipe
  <2>5. OneRequest'
    BY <2>1, <2>3, EmptyPipe DEF Linked, OneRequest
  <2>6. to_discord' \in Seq(Entry)
    BY <2>1, OfEmpty
  <2> QED BY <2>1, <2>4, <2>5, <2>6 DEF Linked, LosesPipe, Granted, LastIsCurrent
<1> QED BY <1>1, <1>2, <1>3, <1>4, <1>5, <1>6 DEF Discord


\* The channel keeps what the client has said.
LEMMA ChannelKnows ==
  ASSUME TypeOK, WillKnow, ClientSays \/ CoordinatorHears \/ CoordinatorSends \/ VRChatReports,
         client = "Running", subscribed, to_client = <<>>
  PROVE  Learns(events', saying', heard', version)
<1>0. saying \in Seq(Event) /\ events \in Seq(Event)
  BY DEF TypeOK
<1>1. Learns(events, saying, heard, version)
  BY DEF WillKnow
<1>2. CASE ClientSays
  <2>1. /\ saying # <<>> /\ events' = Append(events, Head(saying)) /\ saying' = Tail(saying)
        /\ heard' = heard /\ Head(saying) \in Event
    BY <1>0, <1>2, OfTail DEF ClientSays, coordVars
  <2>2. CASE TellsLast(saying, version)
    <3>1. CASE TellsLast(saying', version)
      BY <3>1 DEF Learns
    <3>2. CASE Still(saying') /\ Head(saying).type = "VoiceSettings" /\ Head(saying).version = version
      <4>1. TellsLast(events', version)
        BY <1>0, <2>1, <3>2, EventAppended
      <4> QED BY <3>2, <4>1 DEF Learns
    <3> QED BY <1>0, <2>1, <2>2, <3>1, <3>2, EventTaken
  <2>3. CASE Still(saying) /\ TellsLast(events, version)
    <3>1. Still(saying') /\ ~Tells(Head(saying))
      BY <1>0, <2>1, <2>3, EventTaken
    <3>2. TellsLast(events', version)
      BY <1>0, <2>1, <2>3, <3>1, EventAppended
    <3> QED BY <3>1, <3>2 DEF Learns
  <2>4. CASE Still(saying) /\ Still(events) /\ heard = version
    <3>1. Still(saying') /\ ~Tells(Head(saying))
      BY <1>0, <2>1, <2>4, EventTaken
    <3>2. Still(events')
      BY <1>0, <2>1, <2>4, <3>1, EventAppended
    <3> QED BY <2>1, <2>4, <3>1, <3>2 DEF Learns
  <2> QED BY <1>1, <2>2, <2>3, <2>4 DEF Learns
<1>3. CASE CoordinatorHears
  <2>1. /\ events # <<>> /\ events' = Tail(events) /\ saying' = saying
        /\ heard' = IF Head(events).type = "VoiceSettings" THEN Head(events).version
                    ELSE IF LosesDiscord(Head(events).type) THEN None ELSE heard
    BY <1>3 DEF CoordinatorHears, clientVars
  <2>2. CASE TellsLast(saying, version)
    BY <2>1, <2>2 DEF Learns
  <2>3. CASE Still(saying) /\ TellsLast(events, version)
    <3>1. \/ TellsLast(events', version)
          \/ Still(events') /\ heard' = version
      BY <1>0, <2>1, <2>3, EventTaken
    <3> QED BY <2>1, <2>3, <3>1 DEF Learns
  <2>4. CASE Still(saying) /\ Still(events) /\ heard = version
    <3>1. Still(events') /\ ~Tells(Head(events))
      BY <1>0, <2>1, <2>4, EventTaken
    <3>2. heard' = heard
      BY <2>1, <3>1 DEF Tells
    <3> QED BY <2>1, <2>4, <3>1, <3>2 DEF Learns
  <2> QED BY <1>1, <2>2, <2>3, <2>4 DEF Learns
<1>4. CASE CoordinatorSends
  BY <1>1, <1>4 DEF CoordinatorSends, clientVars
<1>5. CASE VRChatReports
  <2>1. /\ events' = Append(events, Says("VRChat")) /\ saying' = saying /\ heard' = heard
    BY <1>5 DEF VRChatReports, clientVars, coordVars
  <2>2. Says("VRChat") \in Event /\ ~Tells(Says("VRChat"))
    BY DEF Says, Event, Tells, LosesDiscord
  <2>3. /\ Still(events) => Still(events')
        /\ TellsLast(events, version) => TellsLast(events', version)
    BY <1>0, <2>1, <2>2, EventAppended
  <2> QED BY <1>1, <2>1, <2>3 DEF Learns
<1> QED BY <1>2, <1>3, <1>4, <1>5

\* The setup asks for the state last, and a running session says all that it reads.
LEMMA ClientLearns ==
  ASSUME TypeOK, TypeOK', Linked, Linked', SeedsLast, WillKnow, ~world.declines,
         Client \/ ExchangeFails
  PROVE  SeedsLast' /\ WillKnow'
<1>0. to_client \in Seq(Frame) /\ saying \in Seq(Event)
  BY DEF TypeOK
<1>a. \A value : subscribed /\ to_client # <<>> /\ Tail(to_client) = <<>> =>
         Head(to_client).ok /\ Head(to_client).version = version
  BY <1>0, FrameTaken DEF Linked, OneRequest, LastIsCurrent
<1>b. ASSUME SessionEnds PROVE SeedsLast' /\ WillKnow'
  BY <1>b DEF SessionEnds, GoesOn, SeedsLast, WillKnow
<1>c. ASSUME RequestFails, pipe = "Broken" PROVE SeedsLast' /\ WillKnow'
  <2>1. ~subscribed
    BY <1>c DEF Linked, LosesPipe
  <2>2. CASE ~SessionEnds
    <3>1. client' \in {"Running", "Setup"} /\ (client' = "Setup" => todo' = SetupRequests)
      BY <1>c, <2>2 DEF RequestFails, GoesOn
    <3>2. ~subscribed'
      BY <1>c, <2>1, <2>2 DEF RequestFails, discordVars
    <3> QED BY <3>1, <3>2, Setup DEF SeedsLast, WillKnow
  <2> QED BY <1>b, <2>2
<1>1. CASE ClientSays
  <2>1. /\ client' = client /\ todo' = todo /\ to_client' = to_client /\ version' = version
        /\ subscribed' = subscribed
    BY <1>1 DEF ClientSays, discordVars
  <2> QED BY <1>1, <2>1, ChannelKnows DEF SeedsLast, WillKnow
<1>2. CASE SupervisorWakes \/ RunTakesRequest
  BY <1>2 DEF SupervisorWakes, RunTakesRequest, GoesOn, SeedsLast, WillKnow
<1>3. CASE SupervisorConnects
  <2>1. SessionEnds \/ client' = "Handshake"
    BY <1>3 DEF SupervisorConnects, GoesOn
  <2> QED BY <2>1, <1>b DEF SeedsLast, WillKnow
<1>4. CASE ClientAsks
  <2>1. CASE pipe = "Broken"
    BY <1>4, <1>c, <2>1 DEF ClientAsks
  <2>2. CASE pipe # "Broken"
    <3>1. client' = client /\ todo' = todo /\ client # "Running"
      BY <1>4, <2>2 DEF ClientAsks, TypeOK
    <3> QED BY <3>1 DEF SeedsLast, WillKnow
  <2> QED BY <2>1, <2>2
<1>5. CASE ClientDropsFrame
  <2>1. client' = client /\ todo' = todo /\ client # "Running"
    BY <1>5 DEF ClientDropsFrame, clientVars, TypeOK
  <2> QED BY <2>1 DEF SeedsLast, WillKnow
<1>6. CASE ClientIsAnswered
  <2> DEFINE reply == Head(to_client)
  <2>0. /\ asked /\ to_client # <<>> /\ to_client' = Tail(to_client) /\ reply.kind = "Reply"
        /\ subscribed' = subscribed /\ version' = version
    BY <1>6 DEF ClientIsAnswered
  <2>1. /\ client \in Phases \ {"Sleeping", "Discovering", "Running"}
        /\ todo # <<>> /\ saying = <<>> /\ todo \in Seq(Requests)
    BY <2>0, Connected DEF TypeOK
  <2>2. CASE client \in {"Handshake", "Restoring"}
    <3>1. \/ client' = "Restoring"
          \/ client' = "Setup" /\ todo' = SetupRequests
      BY <1>6, <2>2 DEF ClientIsAnswered, GoesOn
    <3> QED BY <3>1, Setup DEF SeedsLast, WillKnow
  <2>3. CASE client = "Authorizing"
    <3>1. \/ client' = "Authorizing"
          \/ client' = "Reseeding" /\ todo' = SetupRequests
          \/ client' = "Running" /\ ~reply.ok
      BY <1>6, <2>3 DEF ClientIsAnswered, AuthorizationGoesOn, GoesOn
    <3>2. ~reply.ok => ~subscribed
      BY <1>0, <2>0, FrameTaken DEF Linked, OneRequest, Granted
    <3> QED BY <2>0, <3>1, <3>2, Setup DEF SeedsLast, WillKnow
  <2>4. CASE client \notin {"Handshake", "Restoring", "Authorizing"}
    <3> DEFINE rest == IF Len(todo) = 1 /\ client = "Setup" THEN <<Says("Connected")>> ELSE <<>>
    <3>1. /\ client' = (IF Len(todo) > 1 THEN client ELSE "Running") /\ todo' = Tail(todo)
          /\ saying' = SaysOf(Head(todo), reply) \o rest
      BY <1>6, <2>4 DEF ClientIsAnswered, SetupGoesOn, GoesOn
    <3>2. client \in {"Setup", "Reseeding"} /\ todo[Len(todo)] = "GET_VOICE_SETTINGS"
      BY <2>1, <2>4 DEF Phases, SeedsLast
    <3>3. /\ Len(todo) \in Nat /\ Len(todo) >= 1 /\ Len(Tail(todo)) = Len(todo) - 1
          /\ Head(todo) = todo[1]
          /\ \A i \in 1 .. Len(todo) - 1 : Tail(todo)[i] = todo[i + 1]
      BY <2>1, OfTail
    <3>4. SeedsLast'
      <4>1. CASE Len(todo) > 1
        <5>1. Len(todo) - 1 \in 1 .. Len(todo) - 1 /\ (Len(todo) - 1) + 1 = Len(todo)
          BY <3>3, <4>1
        <5>2. Tail(todo)[Len(todo) - 1] = "GET_VOICE_SETTINGS" /\ Tail(todo) # <<>>
          BY <3>2, <3>3, <5>1
        <5> QED BY <3>1, <3>3, <5>2 DEF SeedsLast
      <4>2. CASE ~(Len(todo) > 1)
        BY <3>1, <4>2 DEF SeedsLast
      <4> QED BY <4>1, <4>2
    <3>5. WillKnow'
      <4> SUFFICES ASSUME client' = "Running", subscribed, Tail(to_client) = <<>>
                   PROVE  TellsLast(saying', version)
        BY <2>0 DEF WillKnow, Learns
      <4>1. Len(todo) = 1 /\ Head(todo) = "GET_VOICE_SETTINGS"
        BY <2>1, <3>1, <3>2, <3>3
      <4>2. reply.ok /\ reply.version = version /\ version \in Nat
        BY <1>a, <2>0 DEF TypeOK
      <4>3. rest \in Seq(Event) /\ Still(rest)
        <5>1. Says("Connected") \in Event /\ ~Tells(Says("Connected"))
          BY DEF Says, Event, Tells, LosesDiscord
        <5> QED BY <5>1, OfEmpty DEF Still
      <4> HIDE DEF rest
      <4>4. saying' = <<Voice(version)>> \o rest
        BY <3>1, <4>1, <4>2 DEF SaysOf
      <4> QED BY <4>2, <4>3, <4>4, VoiceFirst
    <3> QED BY <3>4, <3>5
  <2> QED BY <2>2, <2>3, <2>4
<1>7. CASE ClientReadsEnd
  BY <1>c, <1>7 DEF ClientReadsEnd
<1>8. CASE RunHandlesFrame
  <2>0. /\ client = "Running" /\ client' = client /\ todo' = todo
        /\ to_client # <<>> /\ to_client' = Tail(to_client)
        /\ subscribed' = subscribed /\ version' = version
    BY <1>8 DEF RunHandlesFrame, Selects
  <2>1. WillKnow'
    <3> SUFFICES ASSUME subscribed, Tail(to_client) = <<>> PROVE TellsLast(saying', version)
      BY <2>0 DEF WillKnow, Learns
    <3>1. Head(to_client).ok /\ Head(to_client).version = version /\ version \in Nat
      BY <1>a, <2>0 DEF TypeOK
    <3>2. saying' = <<Voice(version)>>
      BY <1>8, <3>1 DEF RunHandlesFrame
    <3>3. saying' = <<Voice(version)>> \o <<>>
      BY <3>2
    <3>4. <<>> \in Seq(Event) /\ Still(<<>>)
      BY OfEmpty DEF Still
    <3> QED BY <3>1, <3>3, <3>4, VoiceFirst
  <2> QED BY <2>0, <2>1 DEF SeedsLast
<1>9. CASE RunTakesCommand
  <2>1. CASE ~SessionEnds
    <3>1. /\ client' = client /\ todo' = todo /\ to_client' = to_client /\ version' = version
          /\ subscribed' = subscribed /\ events' = events /\ heard' = heard
          /\ saying' = <<>> /\ saying = <<>>
      BY <1>9, <2>1 DEF RunTakesCommand, Selects, SaidOnWriting, coordVars
    <3> QED BY <3>1 DEF SeedsLast, WillKnow
  <2> QED BY <1>b, <2>1
<1>10. CASE RunReadsEnd
  BY <1>b, <1>10 DEF RunReadsEnd
<1>11. ~ExchangeFails
  BY DEF ExchangeFails
<1> QED BY <1>1, <1>2, <1>3, <1>4, <1>5, <1>6, <1>7, <1>8, <1>9, <1>10, <1>11 DEF Client

\* Discord writes to whoever is subscribed, and what it writes is yet to be told.
LEMMA DiscordLearns ==
  ASSUME TypeOK, Linked, SeedsLast, WillKnow,
         Discord \/ UserAnswers \/ UserChangesVoice \/ DiscordStops
  PROVE  SeedsLast' /\ WillKnow'
<1>0. to_client \in Seq(Frame) /\ version \in Nat
  BY DEF TypeOK
<1>1. UNCHANGED <<clientVars, channelVars, coordVars>>
  BY DEF Discord, DiscordAnswers, DiscordSets, DiscordAsksUser, UserAnswers, UserChangesVoice,
     DiscordStops
<1>2. /\ client' = client /\ todo' = todo /\ events' = events /\ saying' = saying
      /\ heard' = heard
  BY <1>1 DEF clientVars, channelVars, coordVars
<1>3. \/ ~subscribed'
      \/ \E m : to_client' = Append(to_client, m)
      \/ \E m, n : to_client' = to_client \o <<m>> \o n /\ n \in Seq(Frame) /\ m \in Frame
      \/ to_client' = to_client /\ subscribed' = subscribed /\ version' = version
  <2>1. CASE DiscordSets /\ authed
    <3> DEFINE n == IF subscribed /\ version' # version THEN <<Update(version')>> ELSE <<>>
    <3>1. version' \in Nat
      BY <1>0, <2>1 DEF DiscordSets
    <3>2. SetReply(TRUE, version') \in Frame /\ Update(version') \in Frame
      BY <3>1 DEF SetReply, Update, Frame
    <3>3. n \in Seq(Frame)
      BY <3>2
    <3>4. to_client' = to_client \o <<SetReply(TRUE, version')>> \o n
      BY <2>1 DEF DiscordSets
    <3> HIDE DEF n
    <3> QED BY <3>2, <3>3, <3>4
  <2>2. CASE DiscordSets /\ ~authed
    BY <2>2 DEF DiscordSets
  <2>3. CASE DiscordAnswers \/ DiscordAsksUser \/ UserAnswers \/ UserChangesVoice \/ DiscordStops
    BY <2>3 DEF DiscordAnswers, DiscordAsksUser, UserAnswers, UserChangesVoice, DiscordStops
  <2> QED BY <2>1, <2>2, <2>3 DEF Discord
<1>4. \/ ~subscribed' \/ to_client' # <<>>
      \/ to_client' = to_client /\ subscribed' = subscribed /\ version' = version
  <2>1. \A m : Append(to_client, m) # <<>>
    BY <1>0
  <2>2. \A m \in Frame, n \in Seq(Frame) : to_client \o <<m>> \o n # <<>>
    BY <1>0
  <2> QED BY <1>3, <2>1, <2>2
<1> QED BY <1>2, <1>4 DEF SeedsLast, WillKnow

LEMMA NextAttentive ==
  ASSUME TypeOK, TypeOK', Attentive, [Next]_vars
  PROVE  Attentive'
<1>1. world' = world
  BY DEF Next, vars, Client, ClientSays, SupervisorWakes, SupervisorConnects, ClientAsks,
     ClientDropsFrame, ClientIsAnswered, ClientReadsEnd, RunHandlesFrame, RunTakesCommand,
     RunTakesRequest, RunReadsEnd, ExchangeFails, Discord, DiscordAnswers, DiscordSets,
     DiscordAsksUser, DiscordStops, DiscordStarts, Coordinator, CoordinatorHears,
     CoordinatorSends, People, UserAnswers, UserChangesVoice, VRChatReports, AuthorizePressed
<1> SUFFICES ASSUME ~world.declines PROVE Linked' /\ SeedsLast' /\ WillKnow'
  BY <1>1 DEF Attentive
<1>2. Linked /\ SeedsLast /\ WillKnow
  BY DEF Attentive
<1>3. CASE Client \/ ExchangeFails
  <2>1. Linked'
    BY <1>2, <1>3, ClientLinked
  <2> QED BY <1>2, <1>3, <2>1, ClientLearns
<1>4. CASE Discord \/ UserAnswers \/ UserChangesVoice \/ DiscordStops
  BY <1>2, <1>4, DiscordLinked, DiscordLearns
<1>5. CASE Coordinator \/ VRChatReports
  <2>1. UNCHANGED <<discordVars, clientVars>>
    BY <1>5 DEF Coordinator, CoordinatorHears, CoordinatorSends, VRChatReports
  <2>2. Linked'
    BY <1>2, <2>1, LinkedKept DEF discordVars, clientVars
  <2>3. SeedsLast'
    BY <1>2, <2>1 DEF SeedsLast, clientVars
  <2>4. WillKnow'
    <3> SUFFICES ASSUME client = "Running", subscribed, to_client = <<>>
                 PROVE  Learns(events', saying', heard', version)
      BY <2>1 DEF WillKnow, discordVars, clientVars
    <3> QED BY <1>2, <1>5, ChannelKnows DEF Coordinator
  <2> QED BY <2>2, <2>3, <2>4
<1>6. CASE DiscordStarts \/ AuthorizePressed \/ UNCHANGED vars
  <2>1. /\ pipe' = pipe /\ to_discord' = to_discord /\ to_client' = to_client /\ asked' = asked
        /\ dialog' = dialog /\ authed' = authed /\ subscribed' = subscribed
        /\ version' = version /\ client' = client /\ todo' = todo /\ events' = events
        /\ saying' = saying /\ heard' = heard
    BY <1>6 DEF DiscordStarts, AuthorizePressed, vars, discordVars, clientVars, channelVars,
       coordVars
  <2>2. Linked'
    BY <1>2, <2>1, LinkedKept
  <2>3. SeedsLast' /\ WillKnow'
    BY <1>2, <2>1 DEF SeedsLast, WillKnow
  <2> QED BY <2>2, <2>3
<1> QED BY <1>3, <1>4, <1>5, <1>6 DEF Next, People

LEMMA InitAttentive == Init => Attentive
<1> SUFFICES ASSUME Init PROVE Linked /\ SeedsLast /\ WillKnow
  BY DEF Attentive
<1>1. /\ pipe = "None" /\ to_discord = <<>> /\ to_client = <<>> /\ authed = FALSE
      /\ subscribed = FALSE /\ dialog = FALSE /\ client = "Discovering"
  BY DEF Init
<1>2. to_discord \in Seq(Entry)
  BY <1>1, OfEmpty
<1> QED BY <1>1, <1>2, EmptyPipe
        DEF Linked, LosesPipe, OneRequest, Granted, LastIsCurrent, SeedsLast, WillKnow

-----------------------------------------------------------------------------
(* The theorems.                                                             *)

\* Only Discord changes its state, and only the coordinator what it has heard.
LEMMA FeedStep == IInv /\ [Next]_vars
                     => [Feed!Change \/ Feed!Hear \/ Feed!Forget]_<<version, heard, latest>>
<1> SUFFICES ASSUME IInv, [Next]_vars
             PROVE  [Feed!Change \/ Feed!Hear \/ Feed!Forget]_<<version, heard, latest>>
  OBVIOUS
<1>0. TypeOK /\ InOrder
  BY DEF IInv
<1>1. CASE CoordinatorHears
  <2>1. UNCHANGED version /\ \/ heard' \in latest .. version /\ latest' = heard'
                             \/ heard' = None /\ latest' = latest
                             \/ UNCHANGED <<heard, latest>>
    BY <1>0, <1>1, Hearing
  <2> QED BY <2>1 DEF Feed!Hear, Feed!Forget
<1>2. CASE UserChangesVoice \/ DiscordSets
  BY <1>2 DEF UserChangesVoice, DiscordSets, Feed!Change, coordVars
<1>3. CASE ClientSays \/ SupervisorWakes \/ SupervisorConnects \/ ClientAsks
  BY <1>3 DEF ClientSays, SupervisorWakes, SupervisorConnects, ClientAsks, RequestFails,
              SessionEnds, HangsUp, discordVars, coordVars
<1>4. CASE ClientDropsFrame \/ ClientIsAnswered \/ ClientReadsEnd \/ ExchangeFails
  BY <1>4 DEF ClientDropsFrame, ClientIsAnswered, ClientReadsEnd, ExchangeFails, RequestFails,
              SessionEnds, HangsUp, discordVars, coordVars
<1>5. CASE RunHandlesFrame \/ RunTakesCommand \/ RunTakesRequest \/ RunReadsEnd
  BY <1>5 DEF RunHandlesFrame, RunTakesCommand, RunTakesRequest, RunReadsEnd, SessionEnds,
              HangsUp, discordVars, coordVars
<1>6. CASE DiscordAnswers \/ DiscordAsksUser \/ DiscordStops \/ DiscordStarts
  BY <1>6 DEF DiscordAnswers, DiscordAsksUser, DiscordStops, DiscordStarts, coordVars
<1>7. CASE UserAnswers \/ AuthorizePressed \/ VRChatReports \/ CoordinatorSends
  BY <1>7 DEF UserAnswers, AuthorizePressed, VRChatReports, CoordinatorSends, discordVars,
              coordVars
<1>8. CASE UNCHANGED vars
  BY <1>8 DEF vars, discordVars, coordVars
<1> QED BY <1>1, <1>2, <1>3, <1>4, <1>5, <1>6, <1>7, <1>8
        DEF Next, Client, Discord, Coordinator, People

\* The whole of it holds in every state of the session.
THEOREM Invariance == Spec => []IInv
<1> QED BY InitInv, NextStep, PTL DEF Spec

\* The channels never hold more than they can, a request is only waited for on a
\* connection, and what the coordinator believes was so.
THEOREM TypeCorrect == Spec => []TypeOK
<1>1. IInv => TypeOK
  BY DEF IInv
<1> QED BY <1>1, Invariance, PTL

\* Every session's end, however run() or the setup comes to it, makes the coordinator
\* forget what it knew of Discord.
THEOREM Forgetting == Spec => []ForgottenWithoutSession
<1>1. IInv => ForgottenWithoutSession
  <2> SUFFICES ASSUME IInv, client = "Sleeping", saying = <<>>, events = <<>>
               PROVE  heard = None
    BY DEF ForgottenWithoutSession
  <2>1. Forgets
    BY DEF IInv, Ended
  <2>2. Len(events) = 0 /\ 1 .. Len(events) = {}
    BY OfEmpty
  <2> QED BY <2>1, <2>2 DEF Forgets
<1> QED BY <1>1, Invariance, PTL

\* The session implements the feed: states are heard in order, in one session and
\* from one to the next.
THEOREM Implementation == Spec => ImplementsFeed
<1>1. Init => Feed!Start
  BY DEF Init, Feed!Start
<1> QED BY <1>1, FeedStep, Invariance, PTL DEF Spec, ImplementsFeed, Feed!FeedSpec

\* Once run()'s loop is active in a session that is subscribed, and nothing is on its
\* way, the coordinator knows the state Discord is in, unless an authorization failed:
\* what send_command drops is told again by the seed that ends each setup, and what
\* comes after it is told by run() itself.
THEOREM Attention == Spec => []BeliefCurrent
<1>1. Init => IInv /\ Attentive
  BY InitInv, InitAttentive
<1>2. IInv /\ Attentive /\ [Next]_vars => (IInv /\ Attentive)'
  BY NextStep, NextAttentive DEF IInv
<1>3. IInv /\ Attentive => BeliefCurrent
  <2> SUFFICES ASSUME Attentive, ~world.declines, client = "Running", subscribed,
                      to_client = <<>>, saying = <<>>, events = <<>>
               PROVE  heard = version
    BY DEF BeliefCurrent, NothingDropped, Quiet
  <2>1. Learns(<<>>, <<>>, heard, version)
    BY DEF Attentive, WillKnow
  <2>2. \A value : ~TellsLast(<<>>, value)
    BY OfEmpty DEF TellsLast
  <2> QED BY <2>1, <2>2 DEF Learns
<1> QED BY <1>1, <1>2, <1>3, PTL DEF Spec
================================================================================
