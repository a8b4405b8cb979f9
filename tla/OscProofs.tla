------------------------------- MODULE OscProofs -------------------------------
(* The button is released, a lost datagram costs one toggle at most, and the  *)
(* microphone's states are heard, in order and to the last, for channels of   *)
(* any capacity and any number of losses and restarts.                        *)
EXTENDS OscAdapters, TLAPS

Last(seq) == seq[Len(seq)]

\* As long as no datagram was lost, the last value sent tells what the sender is doing.
ButtonFollowed ==
    lost = 0 => (sender = "Holding" <=> IF to_vrchat = <<>> THEN held ELSE Last(to_vrchat) = 1)

\* Reports of the microphone tell states between lo and hi, and of two the one ahead is
\* not the newer one.
Between(m, lo, hi) == m.type = "MuteSelf" => m.version \in lo .. hi
NotNewer(m, n)     == m.type = "MuteSelf" /\ n.type = "MuteSelf" => m.version <= n.version

Ascending(seq, lo, hi) ==
    /\ \A i \in 1 .. Len(seq) : Between(seq[i], lo, hi)
    /\ \A i, j \in 1 .. Len(seq) : i < j => NotNewer(seq[i], seq[j])

Ahead(seq, other) == \A i \in 1 .. Len(seq), j \in 1 .. Len(other) : NotNewer(seq[i], other[j])

InOrder ==
    /\ Ascending(events, latest, version)
    /\ Ascending(unpacked, latest, version) /\ Ahead(events, unpacked)
    /\ \A k \in 1 .. Len(to_us) :
          /\ Ascending(to_us[k], latest, version)
          /\ Ahead(events, to_us[k]) /\ Ahead(unpacked, to_us[k])
    /\ \A k, l \in 1 .. Len(to_us) : k < l => Ahead(to_us[k], to_us[l])

IInv == TypeOK /\ ButtonFollowed /\ InOrder

USE OscAssumption

-----------------------------------------------------------------------------
(* Sequences of messages and events.                                         *)

Any == [type : {"MuteSelf", "AvatarChange", "Other", "Degraded"}, version : Nat]

LEMMA SubTypes ==
  /\ \A q \in Seq(Message) : q \in Seq(Any)
  /\ \A q \in Seq(Event) : q \in Seq(Any)
<1>1. Message \subseteq Any /\ Event \subseteq Any
  BY DEF Message, Event, Any
<1> QED BY <1>1

LEMMA OfEmpty == ASSUME NEW S PROVE <<>> \in Seq(S) /\ Len(<<>>) = 0
OBVIOUS

LEMMA OfAppend ==
  ASSUME NEW S, NEW q \in Seq(S), NEW x \in S
  PROVE  /\ Append(q, x) \in Seq(S) /\ Append(q, x) # <<>>
         /\ Len(q) \in Nat /\ Len(Append(q, x)) = Len(q) + 1
         /\ \A i \in 1 .. Len(q) : Append(q, x)[i] = q[i]
         /\ Append(q, x)[Len(q) + 1] = x
OBVIOUS

LEMMA OfTail ==
  ASSUME NEW S, NEW q \in Seq(S), q # <<>>
  PROVE  /\ Tail(q) \in Seq(S) /\ Head(q) \in S /\ Head(q) = q[1]
         /\ Len(q) \in Nat /\ Len(q) >= 1 /\ Len(Tail(q)) = Len(q) - 1
         /\ \A i \in 1 .. Len(q) - 1 : Tail(q)[i] = q[i + 1]
OBVIOUS

LEMMA AscendingAppend ==
  ASSUME NEW q \in Seq(Any), NEW m \in Any, NEW lo \in Nat, NEW hi \in Nat,
         Ascending(q, lo, hi), Between(m, lo, hi),
         \A i \in 1 .. Len(q) : NotNewer(q[i], m)
  PROVE  Ascending(Append(q, m), lo, hi)
<1>1. /\ Len(q) \in Nat /\ Len(Append(q, m)) = Len(q) + 1
      /\ \A i \in 1 .. Len(q) : Append(q, m)[i] = q[i]
      /\ Append(q, m)[Len(q) + 1] = m
  BY OfAppend
<1> DEFINE r == Append(q, m)
<1>2. ASSUME NEW i \in 1 .. Len(r) PROVE Between(r[i], lo, hi)
  BY <1>1, <1>2 DEF Ascending
<1>3. ASSUME NEW i \in 1 .. Len(r), NEW j \in 1 .. Len(r), i < j PROVE NotNewer(r[i], r[j])
  BY <1>1, <1>3 DEF Ascending
<1> QED BY <1>2, <1>3 DEF Ascending

LEMMA AheadAppend ==
  ASSUME NEW q \in Seq(Any), NEW m \in Any, NEW other \in Seq(Any)
  PROVE  /\ Ahead(q, other) /\ (\A j \in 1 .. Len(other) : NotNewer(m, other[j]))
               => Ahead(Append(q, m), other)
         /\ Ahead(other, q) /\ (\A j \in 1 .. Len(other) : NotNewer(other[j], m))
               => Ahead(other, Append(q, m))
<1>1. /\ Len(q) \in Nat /\ Len(Append(q, m)) = Len(q) + 1
      /\ \A i \in 1 .. Len(q) : Append(q, m)[i] = q[i]
      /\ Append(q, m)[Len(q) + 1] = m
  BY OfAppend
<1> QED BY <1>1 DEF Ahead

LEMMA AscendingTail ==
  ASSUME NEW q \in Seq(Any), q # <<>>, NEW lo, NEW hi, Ascending(q, lo, hi)
  PROVE  Ascending(Tail(q), lo, hi)
<1>1. /\ Len(q) \in Nat /\ Len(q) >= 1 /\ Len(Tail(q)) = Len(q) - 1
      /\ \A i \in 1 .. Len(q) - 1 : Tail(q)[i] = q[i + 1]
  BY OfTail
<1>2. \A i \in 1 .. Len(Tail(q)) : i + 1 \in 1 .. Len(q)
  BY <1>1
<1> QED BY <1>1, <1>2 DEF Ascending

LEMMA AheadTail ==
  ASSUME NEW q \in Seq(Any), q # <<>>, NEW other
  PROVE  /\ Ahead(q, other) => Ahead(Tail(q), other)
         /\ Ahead(other, q) => Ahead(other, Tail(q))
<1>1. /\ Len(q) \in Nat /\ Len(q) >= 1 /\ Len(Tail(q)) = Len(q) - 1
      /\ \A i \in 1 .. Len(q) - 1 : Tail(q)[i] = q[i + 1]
  BY OfTail
<1>2. \A i \in 1 .. Len(Tail(q)) : i + 1 \in 1 .. Len(q)
  BY <1>1
<1> QED BY <1>1, <1>2 DEF Ahead

LEMMA AscendingIn ==
  ASSUME NEW q \in Seq(Any), NEW lo \in Nat, NEW hi \in Nat, NEW hi2 \in Nat, hi <= hi2,
         Ascending(q, lo, hi)
  PROVE  Ascending(q, lo, hi2)
BY DEF Ascending, Between

LEMMA AscendingFrom ==
  ASSUME NEW q \in Seq(Any), NEW lo \in Nat, NEW lo2 \in Nat, NEW hi \in Nat,
         Ascending(q, lo, hi), \A i \in 1 .. Len(q) : q[i].type = "MuteSelf" => lo2 <= q[i].version
  PROVE  Ascending(q, lo2, hi)
BY DEF Ascending, Between

LEMMA Later ==
  ASSUME NEW q \in Seq(Any), NEW r \in Seq(Any), NEW lo \in Nat, NEW hi \in Nat, NEW hi2 \in Nat,
         lo <= hi, Ascending(q, lo, hi), Ascending(r, hi, hi2)
  PROVE  Ahead(q, r) /\ Ascending(r, lo, hi2)
<1>1. ASSUME NEW i \in 1 .. Len(q), NEW j \in 1 .. Len(r) PROVE NotNewer(q[i], r[j])
  <2>1. Between(q[i], lo, hi) /\ Between(r[j], hi, hi2)
    BY DEF Ascending
  <2> QED BY <2>1 DEF Between, NotNewer
<1>2. ASSUME NEW j \in 1 .. Len(r) PROVE Between(r[j], lo, hi2)
  <2>1. Between(r[j], hi, hi2)
    BY DEF Ascending
  <2> QED BY <2>1 DEF Between
<1>3. \A i, j \in 1 .. Len(r) : i < j => NotNewer(r[i], r[j])
  BY DEF Ascending
<1> QED BY <1>1, <1>2, <1>3 DEF Ahead, Ascending

-----------------------------------------------------------------------------
(* What the steps do to the order.                                           *)

\* What VRChat reports is no older than anything that is on its way.
LEMMA ReportsInOrder ==
  ASSUME TypeOK, InOrder, version' \in Nat, version <= version',
         NEW packet \in Seq(Message), Ascending(packet, version, version'), Reports(packet),
         UNCHANGED <<unpacked, events, latest>>
  PROVE  /\ to_us' \in Seq(Seq(Message)) /\ Len(to_us') <= SOCKET_CAPACITY
         /\ missed' \in BOOLEAN
         /\ InOrder'
<1>1. /\ latest \in Nat /\ version \in Nat /\ latest <= version
      /\ to_us \in Seq(Seq(Message)) /\ Len(to_us) <= SOCKET_CAPACITY /\ Len(to_us) \in Nat
      /\ events \in Seq(Any) /\ unpacked \in Seq(Any) /\ packet \in Seq(Any)
      /\ \A k \in 1 .. Len(to_us) : to_us[k] \in Seq(Any)
  <2>1. \A k \in 1 .. Len(to_us) : to_us[k] \in Seq(Message)
    BY DEF TypeOK
  <2> QED BY <2>1, SubTypes DEF TypeOK
<1>2. Ascending(events, latest, version') /\ Ascending(unpacked, latest, version')
  BY <1>1, AscendingIn DEF InOrder
<1>3. \A k \in 1 .. Len(to_us) : Ascending(to_us[k], latest, version')
  BY <1>1, AscendingIn DEF InOrder
<1>4. Ahead(events, packet) /\ Ahead(unpacked, packet) /\ Ascending(packet, latest, version')
  BY <1>1, Later DEF InOrder
<1>5. \A k \in 1 .. Len(to_us) : Ahead(to_us[k], packet)
  BY <1>1, Later DEF InOrder
<1>6. CASE to_us' = to_us
  <2>1. missed' \in BOOLEAN
    BY DEF Reports
  <2> QED BY <1>1, <1>2, <1>3, <1>6, <2>1 DEF InOrder
<1>7. CASE to_us' = Append(to_us, packet) /\ Len(to_us) < SOCKET_CAPACITY
  <2>1. /\ to_us' \in Seq(Seq(Message))
        /\ Len(to_us') = Len(to_us) + 1
        /\ \A k \in 1 .. Len(to_us) : to_us'[k] = to_us[k]
        /\ to_us'[Len(to_us) + 1] = packet
    BY <1>1, <1>7, OfAppend
  <2>2. missed' \in BOOLEAN
    BY DEF Reports
  <2>3. ASSUME NEW k \in 1 .. Len(to_us')
        PROVE  /\ Ascending(to_us'[k], latest, version')
               /\ Ahead(events, to_us'[k]) /\ Ahead(unpacked, to_us'[k])
    <3>1. CASE k \in 1 .. Len(to_us)
      BY <2>1, <3>1, <1>3 DEF InOrder
    <3>2. CASE k = Len(to_us) + 1
      BY <2>1, <3>2, <1>4
    <3> QED BY <3>1, <3>2, <2>1, <1>1
  <2>4. ASSUME NEW k \in 1 .. Len(to_us'), NEW l \in 1 .. Len(to_us'), k < l
        PROVE  Ahead(to_us'[k], to_us'[l])
    <3>1. k \in 1 .. Len(to_us)
      BY <2>1, <2>4, <1>1
    <3>2. CASE l \in 1 .. Len(to_us)
      BY <2>1, <2>4, <3>1, <3>2 DEF InOrder
    <3>3. CASE l = Len(to_us) + 1
      BY <2>1, <3>1, <3>3, <1>5
    <3> QED BY <3>2, <3>3, <2>1, <1>1
  <2>5. Len(to_us') <= SOCKET_CAPACITY
    BY <2>1, <1>1, <1>7
  <2> QED BY <2>1, <2>2, <2>3, <2>4, <2>5, <1>2 DEF InOrder
<1> QED BY <1>6, <1>7 DEF Reports

LEMMA ReceivesInOrder ==
  ASSUME TypeOK, InOrder, unpacked = <<>>, to_us # <<>>,
         to_us' = Tail(to_us), unpacked' = Head(to_us), UNCHANGED <<events, latest, version>>
  PROVE  /\ to_us' \in Seq(Seq(Message)) /\ Len(to_us') <= SOCKET_CAPACITY
         /\ unpacked' \in Seq(Message)
         /\ InOrder'
<1>1. /\ to_us' \in Seq(Seq(Message)) /\ unpacked' = to_us[1] /\ unpacked' \in Seq(Message)
      /\ Len(to_us) \in Nat /\ Len(to_us) >= 1 /\ Len(to_us') = Len(to_us) - 1
      /\ \A k \in 1 .. Len(to_us) - 1 : to_us'[k] = to_us[k + 1]
  BY OfTail DEF TypeOK
<1>2. \A k \in 1 .. Len(to_us') : k + 1 \in 1 .. Len(to_us) /\ to_us'[k] = to_us[k + 1]
  BY <1>1
<1>3. Ascending(unpacked', latest, version) /\ Ahead(events, unpacked')
  BY <1>1 DEF InOrder
<1>4. \A k \in 1 .. Len(to_us') : /\ Ascending(to_us'[k], latest, version)
                                  /\ Ahead(events, to_us'[k]) /\ Ahead(unpacked', to_us'[k])
  BY <1>1, <1>2 DEF InOrder
<1>5. \A k, l \in 1 .. Len(to_us') : k < l => Ahead(to_us'[k], to_us'[l])
  BY <1>1, <1>2 DEF InOrder
<1>6. Len(to_us') <= SOCKET_CAPACITY
  BY <1>1 DEF TypeOK
<1> QED BY <1>1, <1>3, <1>4, <1>5, <1>6 DEF InOrder

\* An event sent: a message unpacked, or Degraded.
LEMMA SendsInOrder ==
  ASSUME TypeOK, InOrder, NEW m \in Event, events' = Append(events, m),
         Between(m, latest, version), \A i \in 1 .. Len(events) : NotNewer(events[i], m),
         unpacked' \in Seq(Any), Ascending(unpacked', latest, version), Ahead(events, unpacked'),
         \A j \in 1 .. Len(unpacked') : NotNewer(m, unpacked'[j]),
         \A k \in 1 .. Len(to_us) : /\ Ahead(unpacked', to_us[k])
                                    /\ \A j \in 1 .. Len(to_us[k]) : NotNewer(m, to_us[k][j]),
         UNCHANGED <<to_us, latest, version>>
  PROVE  InOrder'
<1>1. /\ latest \in Nat /\ version \in Nat /\ events \in Seq(Any) /\ m \in Any
      /\ \A k \in 1 .. Len(to_us) : to_us[k] \in Seq(Any)
  <2>1. \A k \in 1 .. Len(to_us) : to_us[k] \in Seq(Message)
    BY DEF TypeOK
  <2> QED BY <2>1, SubTypes DEF TypeOK, Event, Any
<1>2. Ascending(events', latest, version)
  BY <1>1, AscendingAppend DEF InOrder
<1>3. Ahead(events', unpacked')
  BY <1>1, AheadAppend
<1>4. \A k \in 1 .. Len(to_us) : Ahead(events', to_us[k])
  BY <1>1, AheadAppend DEF InOrder
<1> QED BY <1>2, <1>3, <1>4 DEF InOrder

LEMMA ForwardsInOrder ==
  ASSUME TypeOK, InOrder, unpacked # <<>>, unpacked' = Tail(unpacked),
         \/ UNCHANGED events
         \/ Head(unpacked).type # "Other" /\ events' = Append(events, Head(unpacked)),
         UNCHANGED <<to_us, latest, version>>
  PROVE  /\ unpacked' \in Seq(Message) /\ events' \in Seq(Event)
         /\ InOrder'
<1>1. /\ unpacked' \in Seq(Message) /\ unpacked \in Seq(Any)
      /\ Head(unpacked) = unpacked[1] /\ Head(unpacked) \in Message
      /\ Len(unpacked) \in Nat /\ Len(unpacked) >= 1 /\ Len(unpacked') = Len(unpacked) - 1
      /\ \A i \in 1 .. Len(unpacked) - 1 : unpacked'[i] = unpacked[i + 1]
  BY OfTail, SubTypes DEF TypeOK
<1>2. /\ Ascending(unpacked', latest, version) /\ Ahead(events, unpacked')
      /\ \A k \in 1 .. Len(to_us) : Ahead(unpacked', to_us[k])
  BY <1>1, AscendingTail, AheadTail DEF InOrder
<1>3. CASE UNCHANGED events
  BY <1>1, <1>2, <1>3 DEF InOrder, TypeOK
<1>4. CASE Head(unpacked).type # "Other" /\ events' = Append(events, Head(unpacked))
  <2> DEFINE m == Head(unpacked)
  <2>1. m \in Event
    BY <1>1, <1>4 DEF Message, Event
  <2>2. Between(m, latest, version) /\ \A i \in 1 .. Len(events) : NotNewer(events[i], m)
    BY <1>1 DEF InOrder, Ascending, Ahead
  <2>3. \A j \in 1 .. Len(unpacked') : NotNewer(m, unpacked'[j])
    <3> SUFFICES ASSUME NEW j \in 1 .. Len(unpacked') PROVE NotNewer(m, unpacked'[j])
      OBVIOUS
    <3>1. 1 \in 1 .. Len(unpacked) /\ j + 1 \in 1 .. Len(unpacked) /\ 1 < j + 1
      BY <1>1
    <3> QED BY <3>1, <1>1 DEF InOrder, Ascending
  <2>4. \A k \in 1 .. Len(to_us) : \A j \in 1 .. Len(to_us[k]) : NotNewer(m, to_us[k][j])
    BY <1>1 DEF InOrder, Ahead
  <2>5. events' \in Seq(Event)
    BY <2>1, <1>4, OfAppend DEF TypeOK
  <2>6. unpacked' \in Seq(Any)
    BY <1>1, SubTypes
  <2>7. InOrder'
    BY <2>1, <2>2, <2>3, <2>4, <2>6, <1>2, <1>4, SendsInOrder
  <2> QED BY <1>1, <2>5, <2>7
<1> QED BY <1>3, <1>4

\* The event heard raises what counts as old to its own state, and no other is older.
LEMMA HearsInOrder ==
  ASSUME TypeOK, InOrder, events # <<>>, events' = Tail(events),
         latest' = IF Head(events).type = "MuteSelf" THEN Head(events).version ELSE latest,
         UNCHANGED <<unpacked, to_us, version>>
  PROVE  /\ events' \in Seq(Event) /\ Len(events') <= EVENT_CAPACITY
         /\ latest' \in latest .. version
         /\ InOrder'
<1>1. /\ events' \in Seq(Event) /\ events \in Seq(Any) /\ events' \in Seq(Any)
      /\ Head(events) = events[1] /\ Head(events) \in Event
      /\ Len(events) \in Nat /\ Len(events) >= 1 /\ Len(events') = Len(events) - 1
      /\ \A i \in 1 .. Len(events) - 1 : events'[i] = events[i + 1]
      /\ latest \in Nat /\ version \in Nat /\ latest <= version /\ unpacked \in Seq(Any)
      /\ \A k \in 1 .. Len(to_us) : to_us[k] \in Seq(Any)
  <2>1. \A k \in 1 .. Len(to_us) : to_us[k] \in Seq(Message)
    BY DEF TypeOK
  <2> QED BY <2>1, OfTail, SubTypes DEF TypeOK
<1>2. latest' \in latest .. version /\ latest' \in Nat
  BY <1>1 DEF InOrder, Ascending, Between
<1>3. \A m \in Any : NotNewer(events[1], m) /\ m.type = "MuteSelf" /\ latest <= m.version
                        => latest' <= m.version
  BY <1>1 DEF NotNewer, Any
<1>4. Ascending(events', latest', version)
  <2>1. Ascending(events', latest, version)
    BY <1>1, AscendingTail DEF InOrder
  <2>2. \A i \in 1 .. Len(events') : NotNewer(events[1], events'[i])
    <3> SUFFICES ASSUME NEW i \in 1 .. Len(events') PROVE NotNewer(events[1], events'[i])
      OBVIOUS
    <3>1. 1 \in 1 .. Len(events) /\ i + 1 \in 1 .. Len(events) /\ 1 < i + 1
      BY <1>1
    <3> QED BY <3>1, <1>1 DEF InOrder, Ascending
  <2>3. \A i \in 1 .. Len(events') : events'[i] \in Any
                                     /\ (events'[i].type = "MuteSelf" => latest <= events'[i].version)
    BY <2>1, <1>1 DEF Ascending, Between
  <2>4. \A i \in 1 .. Len(events') : events'[i].type = "MuteSelf" => latest' <= events'[i].version
    BY <2>2, <2>3, <1>3
  <2> QED BY <2>1, <2>4, <1>1, <1>2, AscendingFrom
<1>5. ASSUME NEW q \in Seq(Any), Ascending(q, latest, version), Ahead(events, q)
      PROVE  Ascending(q, latest', version)
  <2>1. \A j \in 1 .. Len(q) : q[j] \in Any /\ NotNewer(events[1], q[j])
                               /\ (q[j].type = "MuteSelf" => latest <= q[j].version)
    BY <1>1, <1>5 DEF Ascending, Ahead, Between
  <2>2. \A j \in 1 .. Len(q) : q[j].type = "MuteSelf" => latest' <= q[j].version
    BY <2>1, <1>3
  <2> QED BY <2>2, <1>1, <1>2, <1>5, AscendingFrom
<1>6. Ascending(unpacked, latest', version) /\ Ahead(events', unpacked)
  BY <1>1, <1>5, AheadTail DEF InOrder
<1>7. \A k \in 1 .. Len(to_us) : Ascending(to_us[k], latest', version) /\ Ahead(events', to_us[k])
  BY <1>1, <1>5, AheadTail DEF InOrder
<1>8. Len(events') <= EVENT_CAPACITY
  BY <1>1 DEF TypeOK
<1> QED BY <1>1, <1>2, <1>4, <1>6, <1>7, <1>8 DEF InOrder

-----------------------------------------------------------------------------
LEMMA InitInv == Init => IInv
<1> SUFFICES ASSUME Init PROVE IInv
  OBVIOUS
<1>1. TypeOK
  <2>1. world \in Worlds /\ left = world.bounds
    BY DEF Init
  <2>2. left \in [Kinds -> Nat]
    BY <2>1 DEF World
  <2>3. /\ commands \in 0 .. CMD_CAPACITY /\ Len(to_us) <= SOCKET_CAPACITY
        /\ Len(events) <= EVENT_CAPACITY /\ latest \in 0 .. version
    BY DEF Init
  <2>4. /\ to_vrchat \in Seq({0, 1}) /\ to_us \in Seq(Seq(Message)) /\ unpacked \in Seq(Message)
        /\ events \in Seq(Event)
    BY OfEmpty DEF Init
  <2> QED BY <2>1, <2>2, <2>3, <2>4 DEF Init, TypeOK
<1>2. ButtonFollowed
  BY DEF Init, ButtonFollowed
<1>3. InOrder
  BY DEF Init, InOrder, Ascending, Ahead
<1> QED BY <1>1, <1>2, <1>3 DEF IInv

\* A spent bound stays a number.
LEMMA Spending == ASSUME TypeOK, NEW kind \in Kinds, Spends(kind) PROVE left' \in [Kinds -> Nat]
BY DEF Spends, TypeOK

\* A datagram of /input/Voice is sent, or costs one of those that may be lost.
LEMMA Sending ==
  ASSUME TypeOK, NEW value \in {0, 1}, Sends(value) \/ Loses
  PROVE  /\ left' \in [Kinds -> Nat] /\ to_vrchat' \in Seq({0, 1}) /\ lost' \in Nat
         /\ lost' = 0 => lost = 0 /\ to_vrchat' # <<>> /\ Last(to_vrchat') = value
<1>1. CASE Sends(value)
  BY <1>1, OfAppend DEF Sends, TypeOK, Last
<1>2. CASE Loses
  BY <1>2, Spending DEF Loses, TypeOK, Kinds
<1> QED BY <1>1, <1>2

\* Nothing that a coordinator, a receiver or VRChat hears of is touched.
LEMMA Untouched ==
  ASSUME InOrder, UNCHANGED <<version, to_us, unpacked, events, latest>>
  PROVE  InOrder'
BY DEF InOrder

LEMMA SenderSteps ==
  IInv /\ (SenderPresses \/ SenderReleases \/ SenderReports \/ CommandDropped) => IInv'
<1> SUFFICES ASSUME IInv, SenderPresses \/ SenderReleases \/ SenderReports \/ CommandDropped
             PROVE  IInv'
  OBVIOUS
<1>0. TypeOK /\ ButtonFollowed /\ InOrder
  BY DEF IInv
<1>1. CASE SenderPresses
  <2>1. /\ commands > 0 /\ commands' = commands - 1 /\ taken' = taken + 1
        /\ UNCHANGED <<world, held, version, to_us, unpacked, sending, events, heard, latest,
                       inverted, missed>>
        /\ \/ (Sends(1) \/ Loses) /\ sender' = "Holding"
           \/ Loses /\ sender' = "Reporting"
    BY <1>1 DEF SenderPresses
  <2>2. /\ left' \in [Kinds -> Nat] /\ to_vrchat' \in Seq({0, 1}) /\ lost' \in Nat
        /\ lost' = 0 => lost = 0 /\ to_vrchat' # <<>> /\ Last(to_vrchat') = 1
    BY <2>1, <1>0, Sending
  <2>3. TypeOK'
    BY <2>1, <2>2, <1>0 DEF TypeOK
  <2>4. ButtonFollowed'
    BY <2>1, <2>2, <1>0 DEF ButtonFollowed, Loses, TypeOK
  <2> QED BY <2>1, <2>3, <2>4, <1>0, Untouched DEF IInv
<1>2. CASE SenderReleases
  <2>1. /\ UNCHANGED <<world, held, version, to_us, unpacked, coordVars, taken, inverted, missed>>
        /\ \/ (Sends(0) \/ Loses) /\ sender' = "Idle"
           \/ Loses /\ sender' = "Reporting"
    BY <1>2 DEF SenderReleases, ReleasedWith
  <2>2. /\ left' \in [Kinds -> Nat] /\ to_vrchat' \in Seq({0, 1}) /\ lost' \in Nat
        /\ lost' = 0 => lost = 0 /\ to_vrchat' # <<>> /\ Last(to_vrchat') = 0
    BY <2>1, <1>0, Sending
  <2>3. TypeOK'
    BY <2>1, <2>2, <1>0 DEF TypeOK, coordVars
  <2>4. ButtonFollowed'
    BY <2>1, <2>2, <1>0 DEF ButtonFollowed, Loses, TypeOK
  <2>5. InOrder'
    BY <2>1, <1>0, Untouched DEF coordVars
  <2> QED BY <2>3, <2>4, <2>5 DEF IInv
<1>3. CASE SenderReports
  <2>1. /\ sender = "Reporting" /\ RoomForEvent
        /\ events' = Append(events, Degraded) /\ sender' = "Idle"
        /\ UNCHANGED <<world, left, vrchatVars, to_us, unpacked, commands, sending, heard, latest,
                       tallyVars>>
    BY <1>3 DEF SenderReports
  <2>2. Degraded \in Event /\ Degraded.type # "MuteSelf"
    BY DEF Degraded, Event
  <2>3. /\ events' \in Seq(Event) /\ Len(events') <= EVENT_CAPACITY
    BY <2>1, <2>2, <1>0, OfAppend DEF TypeOK, RoomForEvent
  <2>4. TypeOK'
    BY <2>1, <2>3, <1>0 DEF TypeOK, vrchatVars, tallyVars
  <2>5. ButtonFollowed'
    BY <2>1, <1>0 DEF ButtonFollowed, vrchatVars, tallyVars
  <2>6. /\ Between(Degraded, latest, version)
        /\ \A m : NotNewer(m, Degraded) /\ NotNewer(Degraded, m)
    BY <2>2 DEF Between, NotNewer
  <2>7. unpacked' = unpacked /\ unpacked \in Seq(Any) /\ UNCHANGED <<to_us, latest, version>>
    BY <2>1, <1>0, SubTypes DEF vrchatVars, TypeOK
  <2>8. InOrder'
    BY <2>1, <2>2, <2>6, <2>7, <1>0, SendsInOrder DEF InOrder
  <2> QED BY <2>4, <2>5, <2>8 DEF IInv
<1>4. CASE CommandDropped
  <2>1. TypeOK' /\ ButtonFollowed'
    BY <1>0, <1>4 DEF CommandDropped, TypeOK, ButtonFollowed, vrchatVars
  <2>2. InOrder'
    BY <1>0, <1>4, Untouched DEF CommandDropped, vrchatVars
  <2> QED BY <2>1, <2>2 DEF IInv
<1> QED BY <1>1, <1>2, <1>3, <1>4

\* The bundles that the microphone is reported in tell states between the one before
\* and the one now.
LEMMA Bundles ==
  ASSUME TypeOK, version' = version + 1, ReportsMic
  PROVE  \E packet \in Seq(Message) : Ascending(packet, version, version') /\ Reports(packet)
<1>0. version \in Nat
  BY DEF TypeOK
<1>1. MuteSelf(version') \in Message /\ MuteSelf(version) \in Message /\ OtherParameter \in Message
  BY <1>0 DEF MuteSelf, OtherParameter, Message
<1>2. CASE Reports(<<MuteSelf(version')>>)
  <2>1. Ascending(<<MuteSelf(version')>>, version, version')
    BY <1>0 DEF Ascending, Between, NotNewer, MuteSelf
  <2>2. <<MuteSelf(version')>> \in Seq(Message)
    BY <1>1
  <2> QED BY <2>1, <2>2, <1>2
<1>3. CASE Reports(<<OtherParameter, MuteSelf(version), MuteSelf(version')>>)
  <2>1. Ascending(<<OtherParameter, MuteSelf(version), MuteSelf(version')>>, version, version')
    BY <1>0 DEF Ascending, Between, NotNewer, MuteSelf, OtherParameter
  <2>2. <<OtherParameter, MuteSelf(version), MuteSelf(version')>> \in Seq(Message)
    BY <1>1
  <2> QED BY <2>1, <2>2, <1>3
<1> QED BY <1>2, <1>3 DEF ReportsMic

LEMMA VRChatSteps ==
  IInv /\ (VRChatTakes \/ UserChangesMic \/ UserChangesAvatar) => IInv'
<1> SUFFICES ASSUME IInv, VRChatTakes \/ UserChangesMic \/ UserChangesAvatar PROVE IInv'
  OBVIOUS
<1>0. TypeOK /\ ButtonFollowed /\ InOrder /\ version \in Nat
  BY DEF IInv, TypeOK
<1>1. CASE VRChatTakes
  <2>1. /\ to_vrchat # <<>> /\ to_vrchat' = Tail(to_vrchat) /\ held' = (Head(to_vrchat) = 1)
        /\ UNCHANGED <<world, left, unpacked, sender, coordVars, taken, lost>>
    BY <1>1 DEF VRChatTakes
  <2>2. /\ to_vrchat' \in Seq({0, 1}) /\ held' \in BOOLEAN
        /\ Len(to_vrchat) \in Nat /\ Len(to_vrchat) >= 1 /\ Head(to_vrchat) = to_vrchat[1]
        /\ Len(to_vrchat') = Len(to_vrchat) - 1
        /\ \A i \in 1 .. Len(to_vrchat) - 1 : to_vrchat'[i] = to_vrchat[i + 1]
    BY <2>1, <1>0, OfTail DEF TypeOK
  <2>3. ButtonFollowed'
    <3>1. CASE to_vrchat' = <<>>
      <4>1. Len(to_vrchat) = 1
        BY <2>2, <3>1
      <4> QED BY <4>1, <3>1, <2>1, <2>2, <1>0 DEF ButtonFollowed, Last
    <3>2. CASE to_vrchat' # <<>>
      <4>1. Len(to_vrchat') >= 1
        BY <3>2, <2>2
      <4>2. Last(to_vrchat') = Last(to_vrchat)
        BY <4>1, <2>2 DEF Last
      <4> QED BY <4>2, <3>2, <2>1, <1>0 DEF ButtonFollowed
    <3> QED BY <3>1, <3>2
  <2>4. CASE held' /\ ~held
    <3>1. version' = version + 1 /\ inverted' = inverted + 1 /\ ReportsMic
      BY <1>1, <2>4 DEF VRChatTakes
    <3>2. PICK packet \in Seq(Message) : Ascending(packet, version, version') /\ Reports(packet)
      BY <3>1, <1>0, Bundles
    <3>3. /\ to_us' \in Seq(Seq(Message)) /\ Len(to_us') <= SOCKET_CAPACITY
          /\ missed' \in BOOLEAN /\ InOrder'
      BY <3>1, <3>2, <2>1, <1>0, ReportsInOrder DEF coordVars
    <3>4. TypeOK'
      BY <3>1, <3>3, <2>1, <2>2, <1>0 DEF TypeOK, coordVars
    <3> QED BY <3>3, <3>4, <2>3 DEF IInv
  <2>5. CASE ~(held' /\ ~held)
    <3>1. UNCHANGED <<version, inverted, to_us, missed>>
      BY <1>1, <2>5 DEF VRChatTakes
    <3>2. TypeOK'
      BY <3>1, <2>1, <2>2, <1>0 DEF TypeOK, coordVars
    <3>3. InOrder'
      BY <3>1, <2>1, <1>0, Untouched DEF coordVars
    <3> QED BY <3>2, <3>3, <2>3 DEF IInv
  <2> QED BY <2>4, <2>5
<1>2. CASE UserChangesMic
  <2>1. /\ Spends("changes") /\ version' = version + 1 /\ ReportsMic
        /\ UNCHANGED <<world, to_vrchat, held, unpacked, sender, coordVars, taken, inverted, lost>>
    BY <1>2 DEF UserChangesMic
  <2>2. PICK packet \in Seq(Message) : Ascending(packet, version, version') /\ Reports(packet)
    BY <2>1, <1>0, Bundles
  <2>3. /\ to_us' \in Seq(Seq(Message)) /\ Len(to_us') <= SOCKET_CAPACITY
        /\ missed' \in BOOLEAN /\ InOrder'
    BY <2>1, <2>2, <1>0, ReportsInOrder DEF coordVars
  <2>4. left' \in [Kinds -> Nat]
    BY <2>1, <1>0, Spending DEF Kinds
  <2>5. TypeOK' /\ ButtonFollowed'
    BY <2>1, <2>3, <2>4, <1>0 DEF TypeOK, ButtonFollowed, coordVars
  <2> QED BY <2>3, <2>5 DEF IInv
<1>3. CASE UserChangesAvatar
  <2> DEFINE packet == <<AvatarChange, MuteSelf(version)>>
  <2>1. /\ Spends("avatars") /\ Reports(packet)
        /\ UNCHANGED <<world, vrchatVars, unpacked, sender, coordVars, taken, inverted, lost>>
    BY <1>3 DEF UserChangesAvatar
  <2>2. packet \in Seq(Message) /\ Ascending(packet, version, version')
    BY <2>1, <1>0 DEF AvatarChange, MuteSelf, Message, Ascending, Between, NotNewer, vrchatVars
  <2>3. /\ to_us' \in Seq(Seq(Message)) /\ Len(to_us') <= SOCKET_CAPACITY
        /\ missed' \in BOOLEAN /\ InOrder'
    <3>1. /\ version' \in Nat /\ version <= version' /\ Reports(packet)
          /\ UNCHANGED <<unpacked, events, latest>>
      BY <2>1, <1>0 DEF coordVars, vrchatVars
    <3> HIDE DEF packet
    <3> QED BY <3>1, <2>2, <1>0, ReportsInOrder
  <2>4. left' \in [Kinds -> Nat]
    BY <2>1, <1>0, Spending DEF Kinds
  <2>5. TypeOK' /\ ButtonFollowed'
    BY <2>1, <2>3, <2>4, <1>0 DEF TypeOK, ButtonFollowed, coordVars, vrchatVars
  <2> QED BY <2>3, <2>5 DEF IInv
<1> QED BY <1>1, <1>2, <1>3

LEMMA ReceiverSteps == IInv /\ (ReceiverReceives \/ ReceiverForwards) => IInv'
<1> SUFFICES ASSUME IInv, ReceiverReceives \/ ReceiverForwards PROVE IInv'
  OBVIOUS
<1>0. TypeOK /\ ButtonFollowed /\ InOrder
  BY DEF IInv
<1>1. CASE ReceiverReceives
  <2>1. /\ unpacked = <<>> /\ to_us # <<>> /\ to_us' = Tail(to_us) /\ unpacked' = Head(to_us)
        /\ UNCHANGED <<world, left, vrchatVars, sender, coordVars, tallyVars>>
    BY <1>1 DEF ReceiverReceives, Messages
  <2>2. /\ to_us' \in Seq(Seq(Message)) /\ Len(to_us') <= SOCKET_CAPACITY
        /\ unpacked' \in Seq(Message) /\ InOrder'
    BY <2>1, <1>0, ReceivesInOrder DEF vrchatVars, coordVars
  <2>3. TypeOK' /\ ButtonFollowed'
    BY <2>1, <2>2, <1>0 DEF TypeOK, ButtonFollowed, vrchatVars, coordVars, tallyVars
  <2> QED BY <2>2, <2>3 DEF IInv
<1>2. CASE ReceiverForwards
  <2>1. /\ unpacked # <<>> /\ unpacked' = Tail(unpacked)
        /\ \/ UNCHANGED events
           \/ /\ Head(unpacked).type # "Other" /\ RoomForEvent
              /\ events' = Append(events, Head(unpacked))
        /\ UNCHANGED <<world, left, vrchatVars, to_us, sender, commands, sending, heard, latest,
                       tallyVars>>
    BY <1>2 DEF ReceiverForwards
  <2>2. unpacked' \in Seq(Message) /\ events' \in Seq(Event) /\ InOrder'
    BY <2>1, <1>0, ForwardsInOrder DEF vrchatVars
  <2>3. Len(events') <= EVENT_CAPACITY
    <3>1. CASE UNCHANGED events
      BY <3>1, <1>0 DEF TypeOK
    <3>2. CASE RoomForEvent /\ events' = Append(events, Head(unpacked))
      BY <3>2, <1>0 DEF TypeOK, RoomForEvent
    <3> QED BY <3>1, <3>2, <2>1
  <2>4. TypeOK' /\ ButtonFollowed'
    BY <2>1, <2>2, <2>3, <1>0 DEF TypeOK, ButtonFollowed, vrchatVars, tallyVars
  <2> QED BY <2>2, <2>4 DEF IInv
<1> QED BY <1>1, <1>2

LEMMA HearStep ==
  IInv /\ CoordinatorHears =>
     /\ IInv'
     /\ [Feed!Hear \/ Feed!Forget]_<<version, heard, latest>>
<1> SUFFICES ASSUME IInv, CoordinatorHears
             PROVE  IInv' /\ [Feed!Hear \/ Feed!Forget]_<<version, heard, latest>>
  OBVIOUS
<1>0. TypeOK /\ ButtonFollowed /\ InOrder
  BY DEF IInv
<1> DEFINE event == Head(events)
<1>1. /\ events # <<>> /\ events' = Tail(events)
      /\ heard' = CASE event.type = "MuteSelf"     -> event.version
                    [] event.type = "AvatarChange" -> None
                    [] event.type = "Degraded"     -> heard
      /\ latest' = IF event.type = "MuteSelf" THEN event.version ELSE latest
      /\ UNCHANGED <<world, left, vrchatVars, to_us, unpacked, sender, commands, sending,
                     tallyVars>>
  BY DEF CoordinatorHears
<1>2. /\ events' \in Seq(Event) /\ Len(events') <= EVENT_CAPACITY
      /\ latest' \in latest .. version /\ InOrder'
  BY <1>0, <1>1, HearsInOrder DEF vrchatVars
<1>3. event \in Event /\ latest \in Nat /\ version \in Nat
  BY <1>0, <1>1, OfTail DEF TypeOK
<1>4. \/ event.type = "MuteSelf" /\ heard' = latest'
      \/ event.type # "MuteSelf" /\ heard' \in {None, heard} /\ latest' = latest
  BY <1>1, <1>3 DEF Event
<1>5. heard' \in 0 .. latest' \union {None} /\ latest' \in 0 .. version
  BY <1>0, <1>2, <1>3, <1>4 DEF TypeOK
<1>6. TypeOK' /\ ButtonFollowed'
  BY <1>0, <1>1, <1>2, <1>5 DEF TypeOK, ButtonFollowed, vrchatVars, tallyVars
<1>7. [Feed!Hear \/ Feed!Forget]_<<version, heard, latest>>
  BY <1>1, <1>2, <1>4 DEF Feed!Hear, Feed!Forget, vrchatVars
<1> QED BY <1>2, <1>6, <1>7 DEF IInv

LEMMA OtherSteps == IInv /\ (CoordinatorDecides \/ CoordinatorSends \/ Restart) => IInv'
<1> SUFFICES ASSUME IInv, CoordinatorDecides \/ CoordinatorSends \/ Restart PROVE IInv'
  OBVIOUS
<1>0. TypeOK /\ ButtonFollowed /\ InOrder
  BY DEF IInv
<1>1. CASE CoordinatorDecides
  <2>1. left' \in [Kinds -> Nat]
    BY <1>0, <1>1, Spending DEF CoordinatorDecides, Kinds
  <2>2. TypeOK' /\ ButtonFollowed'
    BY <2>1, <1>0, <1>1 DEF CoordinatorDecides, TypeOK, ButtonFollowed, vrchatVars, tallyVars
  <2>3. InOrder'
    BY <1>0, <1>1, Untouched DEF CoordinatorDecides, vrchatVars
  <2> QED BY <2>2, <2>3 DEF IInv
<1>2. CASE CoordinatorSends
  <2>a. /\ commands < CMD_CAPACITY /\ commands' = commands + 1 /\ sending' = FALSE
        /\ UNCHANGED <<world, left, vrchatVars, to_us, unpacked, sender, events, heard, latest,
                       tallyVars>>
    BY <1>2 DEF CoordinatorSends
  <2>b. commands' \in 0 .. CMD_CAPACITY
    BY <2>a, <1>0 DEF TypeOK
  <2>c. TypeOK'
    BY <2>a, <2>b, <1>0 DEF TypeOK, vrchatVars, tallyVars
  <2>1. TypeOK' /\ ButtonFollowed'
    BY <2>a, <2>c, <1>0 DEF ButtonFollowed, vrchatVars, tallyVars
  <2>2. InOrder'
    BY <1>0, <1>2, Untouched DEF CoordinatorSends, vrchatVars
  <2> QED BY <2>1, <2>2 DEF IInv
<1>3. CASE Restart
  <2>1. left' \in [Kinds -> Nat]
    BY <1>0, <1>3, Spending DEF Restart, Kinds
  <2>a. /\ lost' = lost + (IF sender = "Holding" THEN 1 ELSE 0)
        /\ to_us' = <<>> /\ unpacked' = <<>> /\ sender' = "Idle"
        /\ commands' = 0 /\ sending' = FALSE /\ events' = <<>> /\ heard' = None
        /\ missed' \in BOOLEAN
        /\ UNCHANGED <<world, vrchatVars, latest, taken, inverted>>
    <3>1. missed' \in BOOLEAN
      BY <1>0, <1>3 DEF Restart, TypeOK
    <3> QED BY <3>1, <1>3 DEF Restart
  <2>b. lost' \in Nat /\ (lost' = 0 => lost = 0 /\ sender # "Holding")
    BY <2>a, <1>0 DEF TypeOK
  <2>c. 0 \in 0 .. CMD_CAPACITY /\ Len(<<>>) <= SOCKET_CAPACITY /\ Len(<<>>) <= EVENT_CAPACITY
    OBVIOUS
  <2>d. to_us' \in Seq(Seq(Message)) /\ unpacked' \in Seq(Message) /\ events' \in Seq(Event)
    BY <2>a, OfEmpty
  <2>e. /\ Len(to_us') <= SOCKET_CAPACITY /\ Len(events') <= EVENT_CAPACITY
        /\ commands' \in 0 .. CMD_CAPACITY
    BY <2>a, <2>c
  <2>f. heard' \in 0 .. latest' \union {None} /\ latest' \in 0 .. version'
    BY <2>a, <1>0 DEF TypeOK, vrchatVars
  <2>g. TypeOK'
    BY <2>1, <2>a, <2>b, <2>d, <2>e, <2>f, <1>0 DEF TypeOK, vrchatVars
  <2>2. TypeOK' /\ ButtonFollowed'
    BY <2>a, <2>b, <2>g, <1>0 DEF ButtonFollowed, vrchatVars
  <2>3. InOrder'
    BY <1>3 DEF Restart, InOrder, Ascending, Ahead
  <2> QED BY <2>2, <2>3 DEF IInv
<1> QED BY <1>1, <1>2, <1>3

LEMMA NextStep == IInv /\ [Next]_vars => IInv'
<1>1. IInv /\ UNCHANGED vars => IInv'
  BY Untouched DEF vars, vrchatVars, coordVars, tallyVars, IInv, TypeOK, ButtonFollowed
<1> QED BY <1>1, SenderSteps, VRChatSteps, ReceiverSteps, HearStep, OtherSteps DEF Next, Adapters

\* Only VRChat changes the state, and only the coordinator what it has heard.
LEMMA FeedStep == IInv /\ [Next]_vars
                     => [Feed!Change \/ Feed!Hear \/ Feed!Forget]_<<version, heard, latest>>
<1> SUFFICES ASSUME IInv, [Next]_vars
             PROVE  [Feed!Change \/ Feed!Hear \/ Feed!Forget]_<<version, heard, latest>>
  OBVIOUS
<1>1. CASE CoordinatorHears
  BY <1>1, HearStep
<1>2. CASE VRChatTakes \/ UserChangesMic
  BY <1>2 DEF VRChatTakes, UserChangesMic, Feed!Change, coordVars
<1>3. CASE Restart
  BY <1>3 DEF Restart, Feed!Forget, vrchatVars
<1>4. CASE SenderPresses \/ SenderReleases \/ SenderReports \/ CommandDropped
  BY <1>4 DEF SenderPresses, SenderReleases, SenderReports, CommandDropped, vrchatVars, coordVars
<1>5. CASE ReceiverReceives \/ ReceiverForwards
  BY <1>5 DEF ReceiverReceives, ReceiverForwards, vrchatVars, coordVars
<1>6. CASE UserChangesAvatar \/ CoordinatorDecides \/ CoordinatorSends
  BY <1>6 DEF UserChangesAvatar, CoordinatorDecides, CoordinatorSends, vrchatVars, coordVars
<1>7. CASE UNCHANGED vars
  BY <1>7 DEF vars, vrchatVars, coordVars
<1> QED BY <1>1, <1>2, <1>3, <1>4, <1>5, <1>6, <1>7 DEF Next, Adapters

\* The whole of it holds in every state of the adapters.
THEOREM Invariance == Spec => []IInv
<1> QED BY InitInv, NextStep, PTL DEF Spec

\* The channels never hold more than they can, and what the coordinator believes was so.
THEOREM TypeCorrect == Spec => []TypeOK
<1>1. IInv => TypeOK
  BY DEF IInv
<1> QED BY <1>1, Invariance, PTL

\* run_command_loop never leaves the button pressed, unless a datagram was lost.
THEOREM ReleasesButton == Spec => []ButtonReleased
<1>1. IInv => ButtonReleased
  BY DEF IInv, TypeOK, ButtonFollowed, ButtonReleased, Still
<1> QED BY <1>1, Invariance, PTL

\* The adapters implement the feed: states are heard in order, across restarts too.
THEOREM Implementation == Spec => ImplementsFeed
<1>1. Init => Feed!Start
  BY DEF Init, Feed!Start
<1> QED BY <1>1, FeedStep, Invariance, PTL DEF Spec, ImplementsFeed, Feed!FeedSpec

-----------------------------------------------------------------------------
(* Toggles that VRChat has followed, and those it never will.                *)

\* Whether the button is down once VRChat has taken the first n values on their way.
Down(values, pressed, n) == IF n = 0 THEN pressed ELSE values[n] = 1

Goes(values, pressed, n) ==
    IF Down(values, pressed, n) /\ ~Down(values, pressed, n - 1) THEN 1 ELSE 0

\* count[n] is the number of toggles that VRChat has followed by then.
Counts(count, values, pressed, before) ==
    /\ count \in [0 .. Len(values) -> Nat] /\ count[0] = before
    /\ \A n \in 1 .. Len(values) : count[n] = count[n - 1] + Goes(values, pressed, n)
    /\ \A m, n \in 0 .. Len(values) : m <= n => count[m] <= count[n]

\* A button that stays down although the sender is done with it: the next press will
\* not be noticed.
Stuck == Down(to_vrchat, held, Len(to_vrchat)) /\ sender # "Holding"

\* Once the values on their way are taken, the toggles not followed are no more than
\* the datagrams lost; nor are they with the one that a stuck button is going to cost.
Tallied ==
    \E count \in [0 .. Len(to_vrchat) -> Nat] :
       /\ Counts(count, to_vrchat, held, inverted)
       /\ count[Len(to_vrchat)] <= taken
       /\ taken - count[Len(to_vrchat)] <= lost
       /\ Stuck => taken - count[Len(to_vrchat)] < lost

\* A value sent is followed, if it goes down, and those before it as they were.
LEMMA CountsAppend ==
  ASSUME NEW values \in Seq({0, 1}), NEW value \in {0, 1}, NEW pressed \in BOOLEAN,
         NEW before \in Nat, NEW count, Counts(count, values, pressed, before),
         NEW longer, longer = Append(values, value)
  PROVE  /\ Down(longer, pressed, Len(longer)) <=> value = 1
         /\ \E next \in [0 .. Len(longer) -> Nat] :
               /\ Counts(next, longer, pressed, before)
               /\ next[Len(longer)] =
                     count[Len(values)] + (IF value = 1 /\ ~Down(values, pressed, Len(values))
                                           THEN 1 ELSE 0)
<1> DEFINE size   == Len(values)
           more   == IF value = 1 /\ ~Down(values, pressed, size) THEN 1 ELSE 0
           next   == [n \in 0 .. size + 1 |-> IF n = size + 1 THEN count[size] + more ELSE count[n]]
<1>1. /\ size \in Nat /\ Len(longer) = size + 1 /\ longer[size + 1] = value
      /\ \A n \in 1 .. size : longer[n] = values[n]
  BY OfAppend
<1>2. /\ count \in [0 .. size -> Nat] /\ count[0] = before
      /\ \A n \in 1 .. size : count[n] = count[n - 1] + Goes(values, pressed, n)
      /\ \A m, n \in 0 .. size : m <= n => count[m] <= count[n]
  BY DEF Counts
<1>3. /\ Down(longer, pressed, size + 1) <=> value = 1
      /\ \A n \in 0 .. size : Down(longer, pressed, n) = Down(values, pressed, n)
  BY <1>1 DEF Down
<1>4. /\ Goes(longer, pressed, size + 1) = more
      /\ \A n \in 1 .. size : Goes(longer, pressed, n) = Goes(values, pressed, n)
  <2>1. Goes(longer, pressed, size + 1) = more
    BY <1>1, <1>3 DEF Goes
  <2>2. ASSUME NEW n \in 1 .. size PROVE Goes(longer, pressed, n) = Goes(values, pressed, n)
    <3>1. n \in 0 .. size /\ n - 1 \in 0 .. size
      BY <1>1
    <3> QED BY <3>1, <1>3 DEF Goes
  <2> QED BY <2>1, <2>2
<1> HIDE DEF size, more
<1>5. more \in Nat /\ count[size] \in Nat
  BY <1>1, <1>2 DEF more
<1>6. next \in [0 .. size + 1 -> Nat] /\ next[size + 1] = count[size] + more /\ next[0] = before
  BY <1>1, <1>2, <1>5
<1>7. ASSUME NEW n \in 1 .. size + 1 PROVE next[n] = next[n - 1] + Goes(longer, pressed, n)
  BY <1>1, <1>2, <1>4
<1>8. ASSUME NEW m \in 0 .. size + 1, NEW n \in 0 .. size + 1, m <= n PROVE next[m] <= next[n]
  <2>1. CASE n \in 0 .. size
    BY <2>1, <1>1, <1>2, <1>8
  <2>2. CASE n = size + 1 /\ m \in 0 .. size
    <3>1. count[m] <= count[size] /\ count[m] \in Nat
      BY <2>2, <1>1, <1>2
    <3> QED BY <3>1, <2>2, <1>1, <1>5
  <2>3. CASE n = size + 1 /\ m = size + 1
    BY <2>3, <1>5, <1>6
  <2> QED BY <2>1, <2>2, <2>3, <1>1, <1>8
<1>9. Counts(next, longer, pressed, before)
  <2> HIDE DEF next
  <2> QED BY <1>1, <1>6, <1>7, <1>8 DEF Counts
<1> QED BY <1>1, <1>3, <1>6, <1>9 DEF size, more

\* A value that VRChat takes is counted from then on.
LEMMA CountsTail ==
  ASSUME NEW values \in Seq({0, 1}), values # <<>>, NEW pressed \in BOOLEAN,
         NEW before \in Nat, NEW count, Counts(count, values, pressed, before),
         NEW rest, rest = Tail(values), NEW down, down = (Head(values) = 1),
         NEW next, next = before + (IF down /\ ~pressed THEN 1 ELSE 0)
  PROVE  /\ Down(rest, down, Len(rest)) = Down(values, pressed, Len(values))
         /\ \E later \in [0 .. Len(rest) -> Nat] :
               /\ Counts(later, rest, down, next)
               /\ later[Len(rest)] = count[Len(values)]
<1> DEFINE size == Len(values)
           later == [n \in 0 .. size - 1 |-> count[n + 1]]
<1>1. /\ size \in Nat /\ size >= 1 /\ Len(rest) = size - 1 /\ Head(values) = values[1]
      /\ \A n \in 1 .. size - 1 : rest[n] = values[n + 1]
  BY OfTail
<1>2. /\ count \in [0 .. size -> Nat] /\ count[0] = before
      /\ \A n \in 1 .. size : count[n] = count[n - 1] + Goes(values, pressed, n)
      /\ \A m, n \in 0 .. size : m <= n => count[m] <= count[n]
  BY DEF Counts
<1>3. ASSUME NEW n \in 0 .. size - 1 PROVE Down(rest, down, n) = Down(values, pressed, n + 1)
  BY <1>1 DEF Down
<1>4. ASSUME NEW n \in 1 .. size - 1 PROVE Goes(rest, down, n) = Goes(values, pressed, n + 1)
  <2>1. n \in 0 .. size - 1 /\ n - 1 \in 0 .. size - 1 /\ n - 1 + 1 = n /\ n + 1 - 1 = n
    BY <1>1
  <2> QED BY <2>1, <1>3 DEF Goes
<1>5. Goes(values, pressed, 1) = IF down /\ ~pressed THEN 1 ELSE 0
  <2>1. Down(values, pressed, 1) = down /\ Down(values, pressed, 0) = pressed /\ 1 - 1 = 0
    BY <1>1 DEF Down
  <2> QED BY <2>1 DEF Goes
<1> HIDE DEF size
<1>6. /\ later \in [0 .. size - 1 -> Nat] /\ later[size - 1] = count[size]
      /\ later[0] = before + Goes(values, pressed, 1)
  BY <1>1, <1>2
<1>7. ASSUME NEW n \in 1 .. size - 1 PROVE later[n] = later[n - 1] + Goes(rest, down, n)
  <2>1. /\ n \in 0 .. size - 1 /\ n - 1 \in 0 .. size - 1 /\ n - 1 + 1 = n /\ n + 1 \in 1 .. size
        /\ n + 1 - 1 = n
    BY <1>1
  <2> QED BY <2>1, <1>2, <1>4
<1>8. ASSUME NEW m \in 0 .. size - 1, NEW n \in 0 .. size - 1, m <= n PROVE later[m] <= later[n]
  BY <1>1, <1>2, <1>8
<1>9. Counts(later, rest, down, before + Goes(values, pressed, 1))
  <2> HIDE DEF later
  <2> QED BY <1>1, <1>6, <1>7, <1>8 DEF Counts
<1>10. Down(rest, down, size - 1) = Down(values, pressed, size)
  BY <1>1, <1>3
<1> QED BY <1>1, <1>5, <1>6, <1>9, <1>10 DEF size

LEMMA InitTallied == Init => Tallied
<1> SUFFICES ASSUME Init PROVE Tallied
  OBVIOUS
<1> DEFINE count == [n \in 0 .. 0 |-> 0]
<1>1. Len(to_vrchat) = 0 /\ ~held /\ inverted = 0 /\ taken = 0 /\ lost = 0
  BY DEF Init
<1>2. Counts(count, to_vrchat, held, inverted) /\ count \in [0 .. 0 -> Nat] /\ count[0] = 0
  BY <1>1 DEF Counts
<1>3. ~Stuck
  BY <1>1 DEF Stuck, Down
<1> QED BY <1>1, <1>2, <1>3 DEF Tallied

\* The tally of a step that sends a value.
LEMMA TallySends ==
  ASSUME TypeOK, Tallied, NEW value \in {0, 1}, to_vrchat' = Append(to_vrchat, value),
         held' = held, inverted' = inverted, lost' = lost,
         \/ value = 1 /\ taken' = taken + 1 /\ sender = "Idle" /\ sender' = "Holding"
         \/ value = 0 /\ taken' = taken /\ sender = "Holding" /\ sender' = "Idle"
  PROVE  Tallied'
<1>1. PICK count \in [0 .. Len(to_vrchat) -> Nat] :
         /\ Counts(count, to_vrchat, held, inverted)
         /\ count[Len(to_vrchat)] <= taken
         /\ taken - count[Len(to_vrchat)] <= lost
         /\ Stuck => taken - count[Len(to_vrchat)] < lost
  BY DEF Tallied
<1> DEFINE goes == IF value = 1 /\ ~Down(to_vrchat, held, Len(to_vrchat)) THEN 1 ELSE 0
<1>2. /\ to_vrchat \in Seq({0, 1}) /\ held \in BOOLEAN /\ inverted \in Nat /\ taken \in Nat
      /\ lost \in Nat
  BY DEF TypeOK
<1>a. count[Len(to_vrchat)] \in Nat
  <2>1. Len(to_vrchat) \in 0 .. Len(to_vrchat)
    BY <1>2
  <2> QED BY <2>1
<1>3. /\ Down(to_vrchat', held', Len(to_vrchat')) <=> value = 1
      /\ \E next \in [0 .. Len(to_vrchat') -> Nat] :
            /\ Counts(next, to_vrchat', held', inverted')
            /\ next[Len(to_vrchat')] = count[Len(to_vrchat)] + goes
  BY <1>1, <1>2, CountsAppend
<1>4. PICK next \in [0 .. Len(to_vrchat') -> Nat] :
            /\ Counts(next, to_vrchat', held', inverted')
            /\ next[Len(to_vrchat')] = count[Len(to_vrchat)] + goes
  BY <1>3
<1>5. ~Stuck'
  BY <1>3 DEF Stuck
<1>6. sender = "Idle" => (Stuck <=> Down(to_vrchat, held, Len(to_vrchat)))
  BY DEF Stuck
<1>7. /\ next[Len(to_vrchat')] <= taken'
      /\ taken' - next[Len(to_vrchat')] <= lost'
  BY <1>1, <1>2, <1>a, <1>4, <1>5, <1>6
<1> QED BY <1>4, <1>5, <1>7 DEF Tallied

\* The tally of a step that sends nothing, or loses what it sends.
LEMMA TallyStays ==
  ASSUME TypeOK, Tallied, to_vrchat' = to_vrchat, held' = held, inverted' = inverted,
         taken' \in Nat, taken <= taken', lost' \in Nat,
         taken' - taken <= lost' - lost,
         Stuck' => Stuck \/ taken' - taken < lost' - lost
  PROVE  Tallied'
<1>1. PICK count \in [0 .. Len(to_vrchat) -> Nat] :
         /\ Counts(count, to_vrchat, held, inverted)
         /\ count[Len(to_vrchat)] <= taken
         /\ taken - count[Len(to_vrchat)] <= lost
         /\ Stuck => taken - count[Len(to_vrchat)] < lost
  BY DEF Tallied
<1> DEFINE all == count[Len(to_vrchat)]
<1>2. taken \in Nat /\ lost \in Nat
  BY DEF TypeOK
<1>3. all \in Nat
  <2>1. Len(to_vrchat) \in 0 .. Len(to_vrchat)
    BY DEF TypeOK
  <2> QED BY <2>1
<1>4. all <= taken /\ taken - all <= lost /\ (Stuck => taken - all < lost)
  BY <1>1
<1>5. all <= taken' /\ taken' - all <= lost' /\ (Stuck' => taken' - all < lost')
  <2> HIDE DEF all
  <2> QED BY <1>2, <1>3, <1>4
<1> QED BY <1>1, <1>5 DEF Tallied

LEMMA TallyTaken == TypeOK /\ Tallied /\ VRChatTakes => Tallied'
<1> SUFFICES ASSUME TypeOK, Tallied, VRChatTakes PROVE Tallied'
  OBVIOUS
<1>1. PICK count \in [0 .. Len(to_vrchat) -> Nat] :
         /\ Counts(count, to_vrchat, held, inverted)
         /\ count[Len(to_vrchat)] <= taken
         /\ taken - count[Len(to_vrchat)] <= lost
         /\ Stuck => taken - count[Len(to_vrchat)] < lost
  BY DEF Tallied
<1>2. /\ to_vrchat \in Seq({0, 1}) /\ held \in BOOLEAN /\ inverted \in Nat
  BY DEF TypeOK
<1>3. /\ to_vrchat # <<>> /\ to_vrchat' = Tail(to_vrchat) /\ held' = (Head(to_vrchat) = 1)
      /\ inverted' = inverted + (IF held' /\ ~held THEN 1 ELSE 0)
      /\ UNCHANGED <<sender, taken, lost>>
  <2>1. CASE held' /\ ~held
    BY <2>1 DEF VRChatTakes
  <2>2. CASE ~(held' /\ ~held)
    <3>1. inverted' = inverted /\ inverted + 0 = inverted
      BY <2>2, <1>2 DEF VRChatTakes
    <3> QED BY <2>2, <3>1 DEF VRChatTakes
  <2> QED BY <2>1, <2>2
<1>4. /\ Down(to_vrchat', held', Len(to_vrchat')) = Down(to_vrchat, held, Len(to_vrchat))
      /\ \E later \in [0 .. Len(to_vrchat') -> Nat] :
            /\ Counts(later, to_vrchat', held', inverted')
            /\ later[Len(to_vrchat')] = count[Len(to_vrchat)]
  BY <1>1, <1>2, <1>3, CountsTail
<1>5. Stuck' = Stuck
  BY <1>3, <1>4 DEF Stuck
<1> QED BY <1>1, <1>3, <1>4, <1>5 DEF Tallied

LEMMA NextTallied == TypeOK /\ TypeOK' /\ Tallied /\ [Next]_vars => Tallied'
<1> SUFFICES ASSUME TypeOK, TypeOK', Tallied, [Next]_vars PROVE Tallied'
  OBVIOUS
<1>0. /\ taken \in Nat /\ lost \in Nat /\ taken' \in Nat /\ lost' \in Nat
  BY DEF TypeOK
<1>1. CASE SenderPresses
  <2>1. /\ sender = "Idle" /\ taken' = taken + 1 /\ held' = held /\ inverted' = inverted
        /\ \/ Sends(1) /\ sender' = "Holding"
           \/ Loses /\ sender' \in {"Holding", "Reporting"}
    BY <1>1 DEF SenderPresses
  <2>2. CASE Sends(1) /\ sender' = "Holding"
    BY <2>1, <2>2, TallySends DEF Sends
  <2>3. CASE Loses
    <3>1. lost' = lost + 1 /\ to_vrchat' = to_vrchat
      BY <2>3 DEF Loses
    <3>2. Stuck' => Stuck
      BY <3>1, <2>1 DEF Stuck
    <3> QED BY <3>1, <3>2, <2>1, <1>0, TallyStays
  <2> QED BY <2>1, <2>2, <2>3
<1>2. CASE SenderReleases
  <2>1. /\ sender = "Holding" /\ held' = held /\ taken' = taken /\ inverted' = inverted
        /\ \/ Sends(0) /\ sender' = "Idle"
           \/ Loses
    BY <1>2 DEF SenderReleases, ReleasedWith
  <2>2. CASE Sends(0) /\ sender' = "Idle"
    BY <2>1, <2>2, TallySends DEF Sends
  <2>3. CASE Loses
    <3>1. lost' = lost + 1 /\ to_vrchat' = to_vrchat
      BY <2>3 DEF Loses
    <3>2. ~Stuck
      BY <2>1 DEF Stuck
    <3> QED BY <3>1, <3>2, <2>1, <1>0, TallyStays
  <2> QED BY <2>1, <2>2, <2>3
<1>3. CASE SenderReports
  <2>1. /\ sender = "Reporting" /\ sender' = "Idle"
        /\ to_vrchat' = to_vrchat /\ held' = held /\ inverted' = inverted
        /\ taken' = taken /\ lost' = lost
    BY <1>3 DEF SenderReports, vrchatVars, tallyVars
  <2>2. Stuck' = Stuck
    BY <2>1 DEF Stuck
  <2> QED BY <2>1, <2>2, <1>0, TallyStays
<1>4. CASE CommandDropped
  <2>1. /\ taken' = taken + 1 /\ lost' = lost + 1
        /\ to_vrchat' = to_vrchat /\ held' = held /\ sender' = sender /\ inverted' = inverted
    BY <1>4 DEF CommandDropped, vrchatVars
  <2>2. Stuck' = Stuck
    BY <2>1 DEF Stuck
  <2> QED BY <2>1, <2>2, <1>0, TallyStays
<1>5. CASE VRChatTakes
  BY <1>5, TallyTaken
<1>6. CASE Restart
  <2>1. /\ lost' = lost + (IF sender = "Holding" THEN 1 ELSE 0) /\ sender' = "Idle"
        /\ to_vrchat' = to_vrchat /\ held' = held /\ taken' = taken /\ inverted' = inverted
    BY <1>6 DEF Restart, vrchatVars
  <2>2. CASE sender = "Holding"
    BY <2>1, <2>2, <1>0, TallyStays
  <2>3. CASE sender # "Holding"
    <3>1. Stuck' = Stuck
      BY <2>1, <2>3 DEF Stuck
    <3> QED BY <2>1, <2>3, <3>1, <1>0, TallyStays
  <2> QED BY <2>2, <2>3
<1>7. CASE \/ UserChangesMic \/ UserChangesAvatar \/ ReceiverReceives \/ ReceiverForwards
           \/ CoordinatorHears \/ CoordinatorDecides \/ CoordinatorSends \/ UNCHANGED vars
  <2>1. /\ to_vrchat' = to_vrchat /\ held' = held /\ sender' = sender
        /\ taken' = taken /\ inverted' = inverted /\ lost' = lost
    BY <1>7 DEF UserChangesMic, UserChangesAvatar, ReceiverReceives, ReceiverForwards,
       CoordinatorHears, CoordinatorDecides, CoordinatorSends, vars, vrchatVars, tallyVars
  <2>2. Stuck' = Stuck
    BY <2>1 DEF Stuck
  <2> QED BY <2>1, <2>2, <1>0, TallyStays
<1> QED BY <1>1, <1>2, <1>3, <1>4, <1>5, <1>6, <1>7 DEF Next, Adapters

\* A toggle inverts the microphone once at most, and every datagram lost costs one
\* toggle at most, for any number of toggles, losses and restarts.
THEOREM LossesCostOne == Spec => []LossesBounded
<1>1. TypeOK /\ Tallied => LossesBounded
  <2> SUFFICES ASSUME TypeOK, Tallied PROVE LossesBounded
    OBVIOUS
  <2>1. PICK count \in [0 .. Len(to_vrchat) -> Nat] :
           /\ Counts(count, to_vrchat, held, inverted)
           /\ count[Len(to_vrchat)] <= taken
           /\ taken - count[Len(to_vrchat)] <= lost
           /\ Stuck => taken - count[Len(to_vrchat)] < lost
    BY DEF Tallied
  <2>2. Len(to_vrchat) \in Nat /\ taken \in Nat /\ lost \in Nat /\ inverted \in Nat
    BY DEF TypeOK
  <2>3. /\ count[0] = inverted /\ count[0] <= count[Len(to_vrchat)]
        /\ count[Len(to_vrchat)] \in Nat
    BY <2>1, <2>2 DEF Counts
  <2>4. inverted <= taken
    BY <2>1, <2>2, <2>3
  <2>5. Still => taken - inverted <= lost
    BY <2>1, <2>2, <2>3 DEF Still
  <2> QED BY <2>4, <2>5 DEF LossesBounded
<1>2. Spec => []Tallied
  BY InitTallied, NextTallied, TypeCorrect, PTL DEF Spec
<1> QED BY <1>1, <1>2, TypeCorrect, PTL

-----------------------------------------------------------------------------
(* The last report of the microphone, on its way to the coordinator.         *)

Tells(seq, state) == seq # <<>> /\ Last(seq) = MuteSelf(state)

\* The coordinator knows the state, or was started since.
Knows == \/ heard = version
         \/ heard = None /\ (version = 0 \/ left.restarts < world.bounds.restarts)

\* The k-th event tells the present state, or the coordinator knows it already if k
\* is 0; nothing after it makes the coordinator believe anything else.
LastSaid(k) == /\ IF k = 0 THEN Knows ELSE events[k] = MuteSelf(version)
               /\ \A j \in k + 1 .. Len(events) : events[j].type = "Degraded"

\* What comes last of all that is on its way tells the present state.
OnItsWay == IF to_us # <<>> THEN Tells(Last(to_us), version)
            ELSE IF unpacked # <<>> THEN Tells(unpacked, version)
            ELSE \E k \in 0 .. Len(events) : LastSaid(k)

Told == left.restarts <= world.bounds.restarts /\ (~missed => OnItsWay)

LEMMA InitTold == Init => Told
<1> SUFFICES ASSUME Init PROVE Told
  OBVIOUS
<1>1. /\ world \in World /\ left = world.bounds /\ to_us = <<>> /\ unpacked = <<>>
      /\ events = <<>> /\ heard = None /\ version = 0
  BY DEF Init
<1>2. left.restarts <= world.bounds.restarts
  BY <1>1, InitInv DEF IInv, TypeOK, Kinds
<1>3. LastSaid(0) /\ 0 \in 0 .. Len(events)
  BY <1>1 DEF LastSaid, Knows
<1> QED BY <1>1, <1>2, <1>3 DEF Told, OnItsWay

\* The bound on restarts is respected.
LEMMA RestartsLeft ==
  ASSUME TypeOK, Told, [Next]_vars
  PROVE  /\ left'.restarts <= world'.bounds.restarts
         /\ world' = world
         /\ Restart => left'.restarts < world'.bounds.restarts
         /\ ~Restart => left'.restarts = left.restarts
<1>1. /\ left \in [Kinds -> Nat] /\ "restarts" \in Kinds /\ world.bounds \in [Kinds -> Nat]
  BY DEF TypeOK, World, Kinds
<1>2. left.restarts \in Nat /\ world.bounds.restarts \in Nat
  BY <1>1
<1>3. left.restarts <= world.bounds.restarts
  BY DEF Told
<1>4. world' = world
  BY DEF Next, Adapters, SenderPresses, SenderReleases, SenderReports, CommandDropped, VRChatTakes,
     UserChangesMic, UserChangesAvatar, ReceiverReceives, ReceiverForwards, CoordinatorHears,
     CoordinatorDecides, CoordinatorSends, Restart, vars
<1>5. CASE Restart
  <2>1. left'.restarts = left.restarts - 1
    BY <1>1, <1>5 DEF Restart, Spends
  <2> QED BY <1>2, <1>3, <1>4, <1>5, <2>1
<1>6. CASE ~Restart
  <2>1. left'.restarts = left.restarts
    BY <1>1, <1>6 DEF Next, Adapters, SenderPresses, SenderReleases, SenderReports, CommandDropped,
       VRChatTakes, UserChangesMic, UserChangesAvatar, ReceiverReceives, ReceiverForwards,
       CoordinatorHears, CoordinatorDecides, CoordinatorSends, vars, Spends, Sends, Loses, Kinds,
       vrchatVars, tallyVars
  <2> QED BY <1>3, <1>4, <1>6, <2>1
<1> QED BY <1>5, <1>6

\* A report that is not missed comes last.
LEMMA ReportComesLast ==
  ASSUME TypeOK, NEW packet \in Seq(Message), Reports(packet), Tells(packet, version')
  PROVE  ~missed' => OnItsWay'
<1>1. CASE missed'
  BY <1>1
<1>2. CASE ~missed'
  <2>1. to_us' = Append(to_us, packet)
    BY <1>2 DEF Reports
  <2>2. to_us' # <<>> /\ Last(to_us') = packet
    BY <2>1, OfAppend DEF TypeOK, Last
  <2> QED BY <2>2 DEF OnItsWay
<1> QED BY <1>1, <1>2

\* What VRChat reports ends with the state of the microphone, in whatever bundle.
LEMMA MicReportedLast ==
  ASSUME TypeOK, version' = version + 1, ReportsMic
  PROVE  ~missed' => OnItsWay'
<1>0. /\ MuteSelf(version') \in Message /\ MuteSelf(version) \in Message
      /\ OtherParameter \in Message
  BY DEF MuteSelf, OtherParameter, Message, TypeOK
<1>1. CASE Reports(<<MuteSelf(version')>>)
  <2>1. <<MuteSelf(version')>> \in Seq(Message) /\ Tells(<<MuteSelf(version')>>, version')
    BY <1>0 DEF Tells, Last
  <2> QED BY <1>1, <2>1, ReportComesLast
<1>2. CASE Reports(<<OtherParameter, MuteSelf(version), MuteSelf(version')>>)
  <2> DEFINE packet == <<OtherParameter, MuteSelf(version), MuteSelf(version')>>
  <2>1. packet \in Seq(Message) /\ Tells(packet, version')
    BY <1>0 DEF Tells, Last
  <2> QED BY <1>2, <2>1, ReportComesLast
<1> QED BY <1>1, <1>2 DEF ReportsMic

\* A step that touches neither VRChat's state nor what is on its way.
LEMMA WayUntouched ==
  ASSUME TypeOK, Told, [Next]_vars, ~Restart,
         UNCHANGED <<version, to_us, unpacked, events, heard, missed>>
  PROVE  ~missed' => OnItsWay'
<1>1. Knows' = Knows
  BY RestartsLeft DEF Knows
<1> QED BY <1>1 DEF Told, OnItsWay, LastSaid

LEMMA WayReceives == TypeOK /\ Told /\ ReceiverReceives => (~missed' => OnItsWay')
<1> SUFFICES ASSUME TypeOK, Told, ReceiverReceives, ~missed PROVE OnItsWay'
  BY DEF ReceiverReceives, tallyVars
<1>1. /\ to_us # <<>> /\ to_us' = Tail(to_us) /\ unpacked' = Head(to_us)
      /\ version' = version
  BY DEF ReceiverReceives, Messages, vrchatVars
<1>2. Tells(Last(to_us), version)
  BY <1>1 DEF Told, OnItsWay
<1>3. /\ Len(to_us) \in Nat /\ Len(to_us) >= 1 /\ Len(to_us') = Len(to_us) - 1
      /\ Head(to_us) = to_us[1] /\ to_us' \in Seq(Seq(Message))
      /\ \A i \in 1 .. Len(to_us) - 1 : to_us'[i] = to_us[i + 1]
  BY <1>1, OfTail DEF TypeOK
<1>4. CASE to_us' # <<>>
  <2>1. Len(to_us') >= 1
    BY <1>3, <1>4
  <2>2. Last(to_us') = Last(to_us)
    BY <1>3, <2>1 DEF Last
  <2> QED BY <1>1, <1>2, <1>4, <2>2 DEF OnItsWay
<1>5. CASE to_us' = <<>>
  <2>1. Len(to_us) = 1
    BY <1>3, <1>5
  <2>2. unpacked' = Last(to_us)
    BY <1>1, <1>3, <2>1 DEF Last
  <2> QED BY <1>1, <1>2, <1>5, <2>2 DEF OnItsWay, Tells
<1> QED BY <1>4, <1>5

LEMMA WayForwards == TypeOK /\ Told /\ ReceiverForwards => (~missed' => OnItsWay')
<1> SUFFICES ASSUME TypeOK, Told, ReceiverForwards, ~missed PROVE OnItsWay'
  BY DEF ReceiverForwards, tallyVars
<1>1. /\ unpacked # <<>> /\ unpacked' = Tail(unpacked)
      /\ IF Head(unpacked).type = "Other" THEN UNCHANGED events
         ELSE events' = Append(events, Head(unpacked))
      /\ version' = version /\ to_us' = to_us
  BY DEF ReceiverForwards, vrchatVars
<1>2. CASE to_us # <<>>
  BY <1>1, <1>2 DEF Told, OnItsWay
<1>3. CASE to_us = <<>>
  <2>1. Last(unpacked) = MuteSelf(version)
    BY <1>1, <1>3 DEF Told, OnItsWay, Tells
  <2>2. /\ Len(unpacked) \in Nat /\ Len(unpacked) >= 1 /\ Len(unpacked') = Len(unpacked) - 1
        /\ Head(unpacked) = unpacked[1] /\ unpacked' \in Seq(Message)
        /\ \A i \in 1 .. Len(unpacked) - 1 : unpacked'[i] = unpacked[i + 1]
    BY <1>1, OfTail DEF TypeOK
  <2>3. CASE unpacked' # <<>>
    <3>1. Len(unpacked') >= 1
      BY <2>2, <2>3
    <3>2. Last(unpacked') = Last(unpacked)
      BY <2>2, <3>1 DEF Last
    <3> QED BY <1>1, <1>3, <2>1, <2>3, <3>2 DEF OnItsWay, Tells
  <2>4. CASE unpacked' = <<>>
    <3>1. Len(unpacked) = 1
      BY <2>2, <2>4
    <3>2. Head(unpacked) = MuteSelf(version)
      BY <2>1, <2>2, <3>1 DEF Last
    <3>3. events' = Append(events, MuteSelf(version)) /\ MuteSelf(version) \in Event
      <4>1. MuteSelf(version) \in Event /\ MuteSelf(version).type # "Other"
        BY DEF MuteSelf, Event, TypeOK
      <4> QED BY <1>1, <3>2, <4>1
    <3>4. /\ Len(events) \in Nat /\ Len(events') = Len(events) + 1
          /\ events'[Len(events) + 1] = MuteSelf(version)
      <4>1. events \in Seq(Event)
        BY DEF TypeOK
      <4> QED BY <4>1, <3>3, OfAppend
    <3>5. PICK k \in Nat : k = Len(events) + 1
      BY <3>4
    <3>6. LastSaid(k)' /\ k \in 0 .. Len(events')
      BY <1>1, <3>4, <3>5 DEF LastSaid
    <3> QED BY <1>1, <1>3, <2>4, <3>6 DEF OnItsWay
  <2> QED BY <2>3, <2>4
<1> QED BY <1>2, <1>3

LEMMA WayReports == TypeOK /\ Told /\ [Next]_vars /\ SenderReports => (~missed' => OnItsWay')
<1> SUFFICES ASSUME TypeOK, Told, [Next]_vars, SenderReports, ~missed PROVE OnItsWay'
  BY DEF SenderReports, tallyVars
<1>1. /\ events' = Append(events, Degraded) /\ Degraded \in Event
      /\ version' = version /\ to_us' = to_us /\ unpacked' = unpacked /\ heard' = heard
      /\ left' = left /\ world' = world
  BY DEF SenderReports, vrchatVars, Degraded, Event
<1>2. CASE to_us # <<>> \/ unpacked # <<>>
  BY <1>1, <1>2 DEF Told, OnItsWay
<1>3. CASE to_us = <<>> /\ unpacked = <<>>
  <2>1. PICK k \in 0 .. Len(events) : LastSaid(k)
    BY <1>3 DEF Told, OnItsWay
  <2>2. /\ Len(events) \in Nat /\ Len(events') = Len(events) + 1
        /\ events'[Len(events) + 1] = Degraded
        /\ \A i \in 1 .. Len(events) : events'[i] = events[i]
    BY <1>1, OfAppend DEF TypeOK
  <2>3. /\ IF k = 0 THEN Knows ELSE events[k] = MuteSelf(version)
        /\ \A j \in k + 1 .. Len(events) : events[j].type = "Degraded"
    BY <2>1 DEF LastSaid
  <2>4. IF k = 0 THEN Knows' ELSE events'[k] = MuteSelf(version')
    BY <1>1, <2>2, <2>3 DEF Knows
  <2>5. \A j \in k + 1 .. Len(events') : events'[j].type = "Degraded"
    <3>1. Degraded.type = "Degraded"
      BY DEF Degraded
    <3> QED BY <2>2, <2>3, <3>1
  <2>6. LastSaid(k)' /\ k \in 0 .. Len(events')
    BY <2>2, <2>4, <2>5 DEF LastSaid
  <2> QED BY <1>1, <1>3, <2>6 DEF OnItsWay
<1> QED BY <1>2, <1>3

LEMMA WayHears == TypeOK /\ Told /\ CoordinatorHears => (~missed' => OnItsWay')
<1> SUFFICES ASSUME TypeOK, Told, CoordinatorHears, ~missed PROVE OnItsWay'
  BY DEF CoordinatorHears, tallyVars
<1> DEFINE event == Head(events)
<1>1. /\ events # <<>> /\ events' = Tail(events)
      /\ heard' = CASE event.type = "MuteSelf"     -> event.version
                    [] event.type = "AvatarChange" -> None
                    [] event.type = "Degraded"     -> heard
      /\ version' = version /\ to_us' = to_us /\ unpacked' = unpacked
      /\ left' = left /\ world' = world
  BY DEF CoordinatorHears, vrchatVars
<1>2. CASE to_us # <<>> \/ unpacked # <<>>
  BY <1>1, <1>2 DEF Told, OnItsWay
<1>3. CASE to_us = <<>> /\ unpacked = <<>>
  <2>1. PICK k \in 0 .. Len(events) : LastSaid(k)
    BY <1>3 DEF Told, OnItsWay
  <2>2. /\ Len(events) \in Nat /\ Len(events) >= 1 /\ Len(events') = Len(events) - 1
        /\ event = events[1]
        /\ \A i \in 1 .. Len(events) - 1 : events'[i] = events[i + 1]
    BY <1>1, OfTail DEF TypeOK
  <2>3. /\ IF k = 0 THEN Knows ELSE events[k] = MuteSelf(version)
        /\ \A j \in k + 1 .. Len(events) : events[j].type = "Degraded"
    BY <2>1 DEF LastSaid
  <2>4. CASE k = 0
    <3>1. event.type = "Degraded"
      BY <2>2, <2>3, <2>4
    <3>2. heard' = heard
      BY <1>1, <3>1
    <3>3. Knows'
      BY <1>1, <2>3, <2>4, <3>2 DEF Knows
    <3>4. \A j \in 0 + 1 .. Len(events') : events'[j].type = "Degraded"
      BY <2>2, <2>3, <2>4
    <3>5. LastSaid(0)' /\ 0 \in 0 .. Len(events')
      BY <2>2, <3>3, <3>4 DEF LastSaid
    <3> QED BY <1>1, <1>3, <3>5 DEF OnItsWay
  <2>5. CASE k = 1
    <3>1. event.type = "MuteSelf" /\ event.version = version
      BY <2>2, <2>3, <2>5 DEF MuteSelf
    <3>2. heard' = version'
      BY <1>1, <3>1
    <3>3. \A j \in 0 + 1 .. Len(events') : events'[j].type = "Degraded"
      BY <2>2, <2>3, <2>5
    <3>4. LastSaid(0)' /\ 0 \in 0 .. Len(events')
      BY <2>2, <3>2, <3>3 DEF LastSaid, Knows
    <3> QED BY <1>1, <1>3, <3>4 DEF OnItsWay
  <2>6. CASE k > 1
    <3>1. PICK l \in Nat : l = k - 1
      BY <2>6
    <3>2. l \in 0 .. Len(events') /\ l # 0 /\ events'[l] = MuteSelf(version')
      BY <1>1, <2>2, <2>3, <2>6, <3>1
    <3>3. \A j \in l + 1 .. Len(events') : events'[j].type = "Degraded"
      BY <2>2, <2>3, <2>6, <3>1
    <3>4. LastSaid(l)'
      BY <3>2, <3>3 DEF LastSaid
    <3> QED BY <1>1, <1>3, <3>2, <3>4 DEF OnItsWay
  <2> QED BY <2>2, <2>4, <2>5, <2>6
<1> QED BY <1>2, <1>3

\* A restart empties everything; if nothing was missed in it, nothing was on its way.
LEMMA WayRestarts ==
  ASSUME TypeOK, Told, [Next]_vars, Restart
  PROVE  ~missed' => OnItsWay'
<1>1. to_us' = <<>> /\ unpacked' = <<>> /\ events' = <<>> /\ heard' = None
  BY DEF Restart
<1>2. left'.restarts < world'.bounds.restarts
  BY RestartsLeft
<1>3. LastSaid(0)' /\ 0 \in 0 .. Len(events')
  BY <1>1, <1>2 DEF LastSaid, Knows
<1> QED BY <1>1, <1>3 DEF OnItsWay

LEMMA NextTold == TypeOK /\ Told /\ [Next]_vars => Told'
<1> SUFFICES ASSUME TypeOK, Told, [Next]_vars PROVE ~missed' => OnItsWay'
  BY RestartsLeft DEF Told
<1>1. CASE SenderPresses \/ SenderReleases \/ CommandDropped \/ CoordinatorDecides \/ CoordinatorSends
           \/ UNCHANGED vars
  <2>1. CASE Restart
    BY <2>1, WayRestarts
  <2>2. CASE ~Restart
    <3>1. UNCHANGED <<version, to_us, unpacked, events, heard, missed>>
      BY <1>1 DEF SenderPresses, SenderReleases, CommandDropped, CoordinatorDecides,
         CoordinatorSends, vars, vrchatVars, coordVars, tallyVars
    <3> QED BY <2>2, <3>1, WayUntouched
  <2> QED BY <2>1, <2>2
<1>2. CASE VRChatTakes \/ UserChangesMic
  <2>1. CASE version' = version + 1 /\ ReportsMic
    BY <2>1, MicReportedLast
  <2>2. CASE ~(version' = version + 1 /\ ReportsMic)
    <3>1. CASE Restart
      BY <3>1, WayRestarts
    <3>2. CASE ~Restart
      <4>1. UNCHANGED <<version, to_us, unpacked, events, heard, missed>>
        BY <1>2, <2>2 DEF VRChatTakes, UserChangesMic, coordVars
      <4> QED BY <3>2, <4>1, WayUntouched
    <3> QED BY <3>1, <3>2
  <2> QED BY <2>1, <2>2
<1>3. CASE UserChangesAvatar
  <2> DEFINE packet == <<AvatarChange, MuteSelf(version)>>
  <2>1. packet \in Seq(Message) /\ Reports(packet) /\ version' = version
    BY <1>3 DEF UserChangesAvatar, AvatarChange, MuteSelf, Message, TypeOK, vrchatVars
  <2>2. Tells(packet, version')
    BY <2>1 DEF Tells, Last
  <2> QED BY <2>1, <2>2, ReportComesLast
<1> QED BY <1>1, <1>2, <1>3, WayReports, WayReceives, WayForwards, WayHears, WayRestarts
        DEF Next, Adapters

\* However reports are bundled, and whatever else is in the channel, the coordinator ends
\* up knowing the microphone's state, unless the last report did not reach the receiver.
THEOREM HearsTheMic == Spec => []MicHeard
<1>1. Told => MicHeard
  <2> SUFFICES ASSUME Told, to_us = <<>>, unpacked = <<>>, events = <<>>, ~missed PROVE Knows
    BY DEF MicHeard, Knows
  <2>1. PICK k \in 0 .. Len(events) : LastSaid(k)
    BY DEF Told, OnItsWay
  <2>2. k = 0
    BY <2>1
  <2> QED BY <2>1, <2>2 DEF LastSaid
<1>2. Spec => []Told
  BY InitTold, NextTold, TypeCorrect, PTL DEF Spec
<1> QED BY <1>1, <1>2, PTL
================================================================================
