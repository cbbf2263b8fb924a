---------------------------- MODULE PubSubProofs ----------------------------
(***************************************************************************)
(* Proofs about the publish/subscribe demo, for every size of its channels *)
(* and buffers: nothing is dropped on the way to the broker, and over      *)
(* adequate channels the demo is the client of AemlibClient with a broker  *)
(* that client allows for, and none of its polls fails.                    *)
(***************************************************************************)
EXTENDS PubSub, AemlibSessionProofs

Points == {"start", "poll", "broker", "broker_loop", "subscribe", "publish",
           "disconnect", "last_poll", "succeeded", "failed"}

\* the points of main()'s loop
Looping == {"poll", "broker", "broker_loop", "subscribe", "publish"}

\* the packets main() has sent, in this order
PConnect   == Packet("CONNECT", ConnectLen)
PSubscribe == Packet("SUBSCRIBE", SubscribeLen)
PPublish   == Packet("PUBLISH", PublishLen)

\* the bytes under way to broker_process_packet()
Line == buf \o (c2b \o tx_pending)

DemoType ==
    /\ TypeOK
    /\ c2b \in Seq(OutByte) /\ buf \in Seq(OutByte)
    /\ size \in [c2b : C2bSizes, b2c : B2cSizes, buf : BufSizes]
    /\ Len(c2b) <= size.c2b /\ Len(buf) <= size.buf /\ Len(inbox) <= size.b2c
    /\ at \in Points
    /\ subscribed \in BOOLEAN /\ published \in BOOLEAN /\ broker_subscribed \in BOOLEAN

\* Where main() and the client are, and what never happens in this program.
Control ==
    /\ outer = <<>> /\ damage = {} /\ age = 0 /\ link \in {"down", "up"}
    /\ pc # "entry"
    /\ at \notin {"poll", "last_poll"} => pc = "idle"
    /\ at = "start" => state = "DISCONNECTED" /\ ~connect_sent /\ ~subscribed
    /\ at \in Looping => state \in {"CONNECTING", "CONNECT_SENT", "CONNECTED"}
    /\ at \in {"disconnect", "last_poll"} => state # "DISCONNECTED"
    /\ state = "CONNECTING" => ~connect_sent
    /\ pc = "send_connect" => ~connect_sent /\ state = "CONNECT_SENT"

\* The outbound packets in their order: which main() has asked for, which the
\* broker has processed, and the rest under way.
Outbound ==
    \/ /\ ~connect_sent /\ ~subscribed /\ ~published
       /\ seen = <<>> /\ Line = <<>>
    \/ /\ connect_sent /\ ~subscribed /\ ~published
       /\ \/ seen = <<>> /\ Line = Bytes(PConnect)
          \/ seen = <<PConnect>> /\ Line = <<>>
    \/ /\ connect_sent /\ subscribed /\ ~published
       /\ at = "publish" /\ tx_pending = <<>>
       /\ seen = <<PConnect>> /\ Line = Bytes(PSubscribe)
    \/ /\ connect_sent /\ subscribed /\ published
       /\ \/ seen = <<PConnect>> /\ Line = Bytes(PSubscribe) \o Bytes(PPublish)
          \/ seen = <<PConnect, PSubscribe>> /\ Line = Bytes(PPublish)
          \/ seen = <<PConnect, PSubscribe, PPublish>> /\ Line = <<>>

\* The broker answers what it has processed, and the client believes it.
Answers3 == <<"CONNACK_OK", "SUBACK", "PUBLISH">>

Replies ==
    /\ Len(sent) = Len(seen) /\ \A j \in 1..Len(sent) : sent[j] = Answers3[j]
    /\ broker_subscribed <=> Len(seen) >= 2
    /\ seen = <<>> => rx = <<>> /\ inbox = <<>>
    /\ state \in Live => seen # <<>> /\ done >= 1
    /\ state \in Starting => done = 0
    /\ at \in Looping /\ subscribed => state = "CONNECTED"

\* What AemlibClient's broker has heard, as far as CONNECT is concerned.
Hears ==
    /\ ~connect_sent => heard = "nothing" /\ frame = <<>>
    /\ connect_sent /\ heard # "CONNECT" =>
          heard = "nothing" /\ frame \o tx_pending = Bytes(PConnect)

\* Over adequate channels the way back is a stream of whole packets.
Served == Adequate => InboundInv /\ poll_status = "OK"

DemoInv ==
    /\ DemoType /\ TransportInv /\ ReadInv /\ StreamInv
    /\ Control /\ Outbound /\ Replies /\ Hears

-----------------------------------------------------------------------------
(* Flattened sequences of up to three packets *)

\* No packet has no bytes.
LEMMA FlattenNone == FlattenSeq(<<>>) = <<>>
  BY DEF FlattenSeq

\* g unfolds as FlattenSeq's recursive function does
Flattens(g, s) == g = [i \in 1..Len(s) |-> IF i = 1 THEN s[i] ELSE g[i-1] \o s[i]]

\* There is such a function as soon as one is shown.
LEMMA FlattenBy ==
    ASSUME NEW s, NEW w, Len(s) # 0, Flattens(w, s)
    PROVE  \E g : Flattens(g, s) /\ FlattenSeq(s) = g[Len(s)]
  <1>. DEFINE g == CHOOSE g : Flattens(g, s)
  <1>1. Flattens(g, s)
    BY Zenon
  <1>2. FlattenSeq(s) = g[Len(s)]
    BY Zenon DEF FlattenSeq, Flattens
  <1>. QED  BY <1>1, <1>2, Zenon

\* What it is at its first place, and behind another one.
LEMMA FlattenAt ==
    ASSUME NEW s, NEW g, Flattens(g, s)
    PROVE  /\ 1 \in 1..Len(s) => g[1] = s[1]
           /\ \A i \in 1..Len(s) : i # 1 => g[i] = g[i-1] \o s[i]
  BY Zenon DEF Flattens

\* One packet is its bytes.
LEMMA FlattenOne ==
    ASSUME NEW s, Len(s) = 1
    PROVE  FlattenSeq(s) = s[1]
  <1>. DEFINE w == [i \in 1..1 |-> s[1]]
  <1>1. Flattens(w, s)
    BY DEF Flattens
  <1>. HIDE DEF w
  <1>2. PICK g : Flattens(g, s) /\ FlattenSeq(s) = g[1]
    <2>1. Len(s) # 0
      OBVIOUS
    <2>. QED  BY <1>1, <2>1, FlattenBy, Zenon
  <1>3. 1 \in 1..Len(s)
    OBVIOUS
  <1>. QED  BY <1>2, <1>3, FlattenAt, Zenon

\* Two packets are their bytes in a row.
LEMMA FlattenTwo ==
    ASSUME NEW s, Len(s) = 2
    PROVE  FlattenSeq(s) = s[1] \o s[2]
  <1>. DEFINE w == [i \in 1..2 |-> IF i = 1 THEN s[1] ELSE s[1] \o s[2]]
  <1>1. Flattens(w, s)
    <2>1. 1 \in 1..2 /\ 2 \in 1..2 /\ 2 # 1 /\ 2 - 1 = 1 /\ \A i \in 1..2 : i = 1 \/ i = 2
      OBVIOUS
    <2>2. w[1] = s[1]
      BY <2>1, Zenon
    <2>3. \A i \in 1..2 : (IF i = 1 THEN s[1] ELSE s[1] \o s[2])
                         = (IF i = 1 THEN s[i] ELSE w[i-1] \o s[i])
      <3>. TAKE i \in 1..2
      <3>1. CASE i = 1
        BY <3>1, Zenon
      <3>2. CASE i = 2
        BY <2>1, <2>2, <3>2, Zenon
      <3>. QED  BY <2>1, <3>1, <3>2
    <2>. QED  BY <2>3, Zenon DEF Flattens
  <1>. HIDE DEF w
  <1>2. PICK g : Flattens(g, s) /\ FlattenSeq(s) = g[2]
    <2>1. Len(s) # 0
      OBVIOUS
    <2>. QED  BY <1>1, <2>1, FlattenBy, Zenon
  <1>3. 1 \in 1..Len(s) /\ 2 \in 1..Len(s) /\ 2 # 1 /\ 2 - 1 = 1
    OBVIOUS
  <1>4. g[1] = s[1]
    BY <1>2, <1>3, FlattenAt, Zenon
  <1>5. g[2] = g[2 - 1] \o s[2]
    BY <1>2, <1>3, FlattenAt, Zenon
  <1>. QED  BY <1>2, <1>3, <1>4, <1>5, Zenon

\* And three.
LEMMA FlattenThree ==
    ASSUME NEW s, Len(s) = 3
    PROVE  FlattenSeq(s) = (s[1] \o s[2]) \o s[3]
  <1>. DEFINE w == [i \in 1..3 |-> IF i = 1 THEN s[1]
                                   ELSE IF i = 2 THEN s[1] \o s[2]
                                   ELSE (s[1] \o s[2]) \o s[3]]
  <1>1. Flattens(w, s)
    <2>1. /\ 1 \in 1..3 /\ 2 \in 1..3 /\ 3 \in 1..3 /\ 2 # 1 /\ 3 # 1 /\ 3 # 2
          /\ 2 - 1 = 1 /\ 3 - 1 = 2 /\ \A i \in 1..3 : i = 1 \/ i = 2 \/ i = 3
      OBVIOUS
    <2>2. w[1] = s[1] /\ w[2] = s[1] \o s[2]
      BY <2>1, Zenon
    <2>3. \A i \in 1..3 :
             (IF i = 1 THEN s[1] ELSE IF i = 2 THEN s[1] \o s[2] ELSE (s[1] \o s[2]) \o s[3])
             = (IF i = 1 THEN s[i] ELSE w[i-1] \o s[i])
      <3>. TAKE i \in 1..3
      <3>1. CASE i = 1
        BY <3>1, Zenon
      <3>2. CASE i = 2
        BY <2>1, <2>2, <3>2, Zenon
      <3>3. CASE i = 3
        BY <2>1, <2>2, <3>3, Zenon
      <3>. QED  BY <2>1, <3>1, <3>2, <3>3
    <2>. QED  BY <2>3, Zenon DEF Flattens
  <1>. HIDE DEF w
  <1>2. PICK g : Flattens(g, s) /\ FlattenSeq(s) = g[3]
    <2>1. Len(s) # 0
      OBVIOUS
    <2>. QED  BY <1>1, <2>1, FlattenBy, Zenon
  <1>3. /\ 1 \in 1..Len(s) /\ 2 \in 1..Len(s) /\ 3 \in 1..Len(s)
        /\ 2 # 1 /\ 3 # 1 /\ 2 - 1 = 1 /\ 3 - 1 = 2
    OBVIOUS
  <1>4. g[1] = s[1]
    BY <1>2, <1>3, FlattenAt, Zenon
  <1>5. g[2] = g[2 - 1] \o s[2] /\ g[3] = g[3 - 1] \o s[3]
    BY <1>2, <1>3, FlattenAt, Zenon
  <1>6. g[2] = s[1] \o s[2]
    BY <1>3, <1>4, <1>5, Zenon
  <1>. QED  BY <1>2, <1>3, <1>5, <1>6, Zenon

\* The bytes of up to three packets.
LEMMA BytesOfPackets ==
    ASSUME NEW q, Len(q) \in 0..3
    PROVE  /\ Len(q) = 0 => BytesOf(q) = <<>>
           /\ Len(q) = 1 => BytesOf(q) = Bytes(q[1])
           /\ Len(q) = 2 => BytesOf(q) = Bytes(q[1]) \o Bytes(q[2])
           /\ Len(q) = 3 => BytesOf(q) = (Bytes(q[1]) \o Bytes(q[2])) \o Bytes(q[3])
  <1>. DEFINE B(j) == Bytes(q[j])
              s == [j \in 1..Len(q) |-> B(j)]
  <1>. HIDE DEF B
  <1>1. Len(s) = Len(q) /\ \A j \in 1..Len(q) : s[j] = B(j)
    OBVIOUS
  <1>2. BytesOf(q) = FlattenSeq(s)
    BY Zenon DEF BytesOf, B
  <1>. HIDE DEF s
  <1>3. ASSUME Len(q) = 0 PROVE BytesOf(q) = <<>>
    <2>1. s = <<>>
      BY <1>1, <1>3 DEF s
    <2>. QED  BY <1>2, <2>1, FlattenNone
  <1>4. ASSUME Len(q) = 1 PROVE BytesOf(q) = B(1)
    <2>1. Len(s) = 1 /\ s[1] = B(1)
      BY <1>1, <1>4
    <2>. QED  BY <1>2, <2>1, FlattenOne, Zenon
  <1>5. ASSUME Len(q) = 2 PROVE BytesOf(q) = B(1) \o B(2)
    <2>1. Len(s) = 2 /\ s[1] = B(1) /\ s[2] = B(2)
      BY <1>1, <1>5
    <2>. QED  BY <1>2, <2>1, FlattenTwo, Zenon
  <1>6. ASSUME Len(q) = 3 PROVE BytesOf(q) = (B(1) \o B(2)) \o B(3)
    <2>1. Len(s) = 3 /\ s[1] = B(1) /\ s[2] = B(2) /\ s[3] = B(3)
      BY <1>1, <1>6
    <2>. QED  BY <1>2, <2>1, FlattenThree, Zenon
  <1>. QED  BY <1>3, <1>4, <1>5, <1>6, Zenon DEF B

-----------------------------------------------------------------------------
(* The demo's packets and the line to the broker *)

\* The three packets and their bytes.
LEMMA DemoPackets ==
    /\ Bytes(PConnect) \in Seq(OutByte) /\ Len(Bytes(PConnect)) = ConnectLen
    /\ Bytes(PSubscribe) \in Seq(OutByte) /\ Len(Bytes(PSubscribe)) = SubscribeLen
    /\ Bytes(PPublish) \in Seq(OutByte) /\ Len(Bytes(PPublish)) = PublishLen
    /\ WholePacket(Bytes(PConnect)) /\ WholePacket(Bytes(PSubscribe))
    /\ WholePacket(Bytes(PPublish))
    /\ ConnectLen \in Nat \ {0, 1} /\ SubscribeLen \in Nat \ {0, 1}
    /\ PublishLen \in Nat \ {0, 1}
    /\ Encodes(PConnect) /\ Encodes(PSubscribe) /\ Encodes(PPublish)
  <1>1. /\ ConnectLen \in Nat \ {0, 1} /\ SubscribeLen \in Nat \ {0, 1}
        /\ PublishLen \in Nat \ {0, 1}
    <2>1. PublishLen \in PublishLens
      BY DemoAssumption
    <2>2. \A n \in {ConnectLen, SubscribeLen, PublishLen} : n >= 2
      BY DemoAssumption
    <2>. QED  BY <2>1, <2>2, SizesAssumption
  <1>2. Encodes(PConnect) /\ Encodes(PSubscribe) /\ Encodes(PPublish)
    <2>1. /\ ConnectLen + Slack(ConnectLen) <= TxSize
          /\ SubscribeLen + Slack(SubscribeLen) <= TxSize
          /\ PublishLen + Slack(PublishLen) <= TxSize
      BY DemoAssumption
    <2>. QED  BY <2>1 DEF Encodes, PConnect, PSubscribe, PPublish, Packet
  <1>3. {"CONNECT", "SUBSCRIBE", "PUBLISH"} \subseteq OutTypes
    BY DEF OutTypes
  <1>. QED  BY <1>1, <1>2, <1>3, BytesAreAPacket DEF PConnect, PSubscribe, PPublish

\* main()'s requests, one by one.
LEMMA RequestedAre ==
    ASSUME connect_sent \in BOOLEAN, subscribed \in BOOLEAN, published \in BOOLEAN,
           published => subscribed, subscribed => connect_sent
    PROVE  /\ Len(requested) = IF published THEN 3 ELSE IF subscribed THEN 2
                               ELSE IF connect_sent THEN 1 ELSE 0
           /\ connect_sent => requested[1] = PConnect
           /\ subscribed => requested[2] = PSubscribe
           /\ published => requested[3] = PPublish
  <1>. DEFINE S == {PConnect, PSubscribe, PPublish}
              u == IF connect_sent THEN <<PConnect>> ELSE <<>>
              v == IF subscribed THEN <<PSubscribe>> ELSE <<>>
              w == IF published THEN <<PPublish>> ELSE <<>>
  <1>1. requested = (u \o v) \o w
    BY DEF requested, PConnect, PSubscribe, PPublish
  <1>2. /\ u \in Seq(S) /\ Len(u) = (IF connect_sent THEN 1 ELSE 0)
        /\ connect_sent => u[1] = PConnect
    <2>1. CASE connect_sent
      BY <2>1
    <2>2. CASE ~connect_sent
      BY <2>2
    <2>. QED  BY <2>1, <2>2
  <1>3. /\ v \in Seq(S) /\ Len(v) = (IF subscribed THEN 1 ELSE 0)
        /\ subscribed => v[1] = PSubscribe
    <2>1. CASE subscribed
      BY <2>1
    <2>2. CASE ~subscribed
      BY <2>2
    <2>. QED  BY <2>1, <2>2
  <1>4. /\ w \in Seq(S) /\ Len(w) = (IF published THEN 1 ELSE 0)
        /\ published => w[1] = PPublish
    <2>1. CASE published
      BY <2>1
    <2>2. CASE ~published
      BY <2>2
    <2>. QED  BY <2>1, <2>2
  <1>. HIDE DEF S, u, v, w
  <1>5. /\ u \o v \in Seq(S) /\ Len(u \o v) = Len(u) + Len(v)
        /\ \A i \in 1..(Len(u) + Len(v)) : (u \o v)[i] = IF i <= Len(u) THEN u[i] ELSE v[i - Len(u)]
    BY <1>2, <1>3, ConcatProperties
  <1>6. PICK x : x = u \o v
    OBVIOUS
  <1>7. /\ x \in Seq(S) /\ Len(x) = Len(u) + Len(v)
        /\ connect_sent => x[1] = PConnect
        /\ subscribed => x[2] = PSubscribe
    BY <1>2, <1>3, <1>5, <1>6
  <1>8. /\ x \o w \in Seq(S) /\ Len(x \o w) = Len(x) + Len(w)
        /\ \A i \in 1..(Len(x) + Len(w)) : (x \o w)[i] = IF i <= Len(x) THEN x[i] ELSE w[i - Len(x)]
    <2>1. x \in Seq(S) /\ w \in Seq(S)
      BY <1>4, <1>7
    <2>. QED  BY <2>1, ConcatProperties
  <1>9. requested = x \o w
    BY <1>1, <1>6, Zenon
  <1>. QED  BY <1>2, <1>3, <1>4, <1>7, <1>8, <1>9

\* Bytes on the line may be put together in any order of brackets.
LEMMA Bracket ==
    ASSUME NEW x \in Seq(OutByte), NEW y \in Seq(OutByte), NEW z \in Seq(OutByte)
    PROVE  (x \o y) \o z = x \o (y \o z)
  BY ConcatAssociative

\* And are bytes on the line.
LEMMA Joined ==
    ASSUME NEW x \in Seq(OutByte), NEW y \in Seq(OutByte)
    PROVE  /\ x \o y \in Seq(OutByte)
           /\ x \o <<>> = x /\ <<>> \o x = x
           /\ Len(x \o y) = Len(x) + Len(y) /\ Len(x) \in Nat
           /\ x \o y = <<>> => x = <<>> /\ y = <<>>
  BY ConcatProperties, ConcatEmptySeq, ConcatEqualIffEmpty, LenProperties

\* NothingDropped is what Outbound says of the line, with all that was
\* processed in front of it.
LEMMA OutboundDropsNothing ==
    ASSUME DemoType, Outbound
    PROVE  NothingDropped
  <1>1. PICK c, s, p : c = Bytes(PConnect) /\ s = Bytes(PSubscribe) /\ p = Bytes(PPublish)
    BY Zenon
  <1>2. /\ c \in Seq(OutByte) /\ s \in Seq(OutByte) /\ p \in Seq(OutByte)
        /\ buf \in Seq(OutByte) /\ c2b \in Seq(OutByte) /\ tx_pending \in Seq(OutByte)
    BY <1>1, DemoPackets DEF DemoType, TypeOK
  <1>3. /\ c \o s \in Seq(OutByte) /\ (c \o s) \o p \in Seq(OutByte)
        /\ s \o p \in Seq(OutByte) /\ c \o (s \o p) = (c \o s) \o p
    <2>1. c \o s \in Seq(OutByte) /\ s \o p \in Seq(OutByte)
      BY <1>2, Joined
    <2>2. (c \o s) \o p \in Seq(OutByte)
      BY <1>2, <2>1, Joined, Zenon
    <2>3. (c \o s) \o p = c \o (s \o p)
      <3>1. c \in Seq(OutByte) /\ s \in Seq(OutByte) /\ p \in Seq(OutByte)
        BY <1>2, Zenon
      <3>. QED  BY <3>1, Bracket, Zenon
    <2>. QED  BY <2>1, <2>2, <2>3, Zenon
  <1>4. ASSUME NEW x \in Seq(OutByte)
        PROVE  ((x \o buf) \o c2b) \o tx_pending = x \o Line
    <2>1. PICK y : y = x \o buf
      OBVIOUS
    <2>2. y \in Seq(OutByte)
      BY <1>2, <2>1, Joined
    <2>3. (y \o c2b) \o tx_pending = y \o (c2b \o tx_pending)
      <3>1. y \in Seq(OutByte) /\ c2b \in Seq(OutByte) /\ tx_pending \in Seq(OutByte)
        BY <1>2, <2>2, Zenon
      <3>. QED  BY <3>1, Bracket, Zenon
    <2>4. PICK z : z = c2b \o tx_pending
      OBVIOUS
    <2>5. z \in Seq(OutByte)
      BY <1>2, <2>4, Joined
    <2>6. x \in Seq(OutByte) /\ buf \in Seq(OutByte)
      BY <1>2
    <2>7. (x \o buf) \o z = x \o (buf \o z)
      BY <2>5, <2>6, Bracket, Zenon
    <2>. QED  BY <2>1, <2>3, <2>4, <2>7, Zenon DEF Line
  <1>5. PICK d, r : d = BytesOf(seen) /\ r = BytesOf(requested)
    OBVIOUS
  <1>6. SUFFICES d \in Seq(OutByte) /\ d \o Line = r
    BY <1>4, <1>5, Zenon DEF NothingDropped
  <1>7. connect_sent \in BOOLEAN /\ subscribed \in BOOLEAN /\ published \in BOOLEAN
    BY DEF DemoType, TypeOK
  <1>. /\ 0 \in 0..3 /\ 1 \in 0..3 /\ 2 \in 0..3 /\ 3 \in 0..3
    OBVIOUS
  <1>8. /\ Len(seen) = 0 => d = <<>>
        /\ Len(seen) = 1 /\ seen[1] = PConnect => d = c
        /\ Len(seen) = 2 /\ seen[1] = PConnect /\ seen[2] = PSubscribe => d = c \o s
        /\ Len(seen) = 3 /\ seen[1] = PConnect /\ seen[2] = PSubscribe /\ seen[3] = PPublish
             => d = (c \o s) \o p
    BY <1>1, <1>5, BytesOfPackets, Zenon
  <1>9. /\ Len(requested) = 0 => r = <<>>
        /\ Len(requested) = 1 /\ requested[1] = PConnect => r = c
        /\ Len(requested) = 2 /\ requested[1] = PConnect /\ requested[2] = PSubscribe
             => r = c \o s
        /\ Len(requested) = 3 /\ requested[1] = PConnect /\ requested[2] = PSubscribe
              /\ requested[3] = PPublish
             => r = (c \o s) \o p
    BY <1>1, <1>5, BytesOfPackets, Zenon
  <1>10. /\ <<>> \in Seq(OutByte)
         /\ \A x \in Seq(OutByte) : x \o <<>> = x /\ <<>> \o x = x
    BY EmptySeq, Joined
  <1>11. CASE ~connect_sent /\ ~subscribed /\ ~published /\ seen = <<>> /\ Line = <<>>
    <2>1. d = <<>> /\ r = <<>>
      BY <1>7, <1>8, <1>9, <1>11, RequestedAre
    <2>. QED  BY <1>10, <1>11, <2>1, Zenon
  <1>12. CASE connect_sent /\ ~subscribed /\ ~published
    <2>1. r = c
      BY <1>7, <1>9, <1>12, RequestedAre
    <2>2. CASE seen = <<>> /\ Line = c
      <3>1. d = <<>>
        BY <1>8, <2>2
      <3>. QED  BY <1>2, <1>10, <2>1, <2>2, <3>1, Zenon
    <2>3. CASE seen = <<PConnect>> /\ Line = <<>>
      <3>1. d = c
        BY <1>8, <2>3
      <3>. QED  BY <1>2, <1>10, <2>1, <2>3, <3>1, Zenon
    <2>. QED  BY <1>1, <1>12, <2>2, <2>3 DEF Outbound
  <1>13. CASE connect_sent /\ subscribed /\ ~published
    <2>1. r = c \o s
      BY <1>7, <1>9, <1>13, RequestedAre
    <2>2. seen = <<PConnect>> /\ Line = s
      BY <1>1, <1>13 DEF Outbound
    <2>3. d = c
      BY <1>8, <2>2
    <2>. QED  BY <1>2, <2>1, <2>2, <2>3, Zenon
  <1>14. CASE connect_sent /\ subscribed /\ published
    <2>1. r = (c \o s) \o p
      <3>1. /\ Len(requested) = 3 /\ requested[1] = PConnect /\ requested[2] = PSubscribe
            /\ requested[3] = PPublish
        BY <1>7, <1>14, RequestedAre
      <3>. QED  BY <1>9, <3>1, Zenon
    <2>2. CASE seen = <<PConnect>> /\ Line = s \o p
      <3>1. d = c
        BY <1>8, <2>2
      <3>. QED  BY <1>2, <1>3, <2>1, <2>2, <3>1, Zenon
    <2>3. CASE seen = <<PConnect, PSubscribe>> /\ Line = p
      <3>1. d = c \o s
        BY <1>8, <2>3
      <3>. QED  BY <1>3, <2>1, <2>3, <3>1, Zenon
    <2>4. CASE seen = <<PConnect, PSubscribe, PPublish>> /\ Line = <<>>
      <3>1. Len(seen) = 3 /\ seen[1] = PConnect /\ seen[2] = PSubscribe /\ seen[3] = PPublish
        BY <2>4
      <3>2. d = (c \o s) \o p
        BY <1>8, <3>1, Zenon
      <3>. QED  BY <1>3, <1>10, <2>1, <2>4, <3>2, Zenon
    <2>. QED  BY <1>1, <1>14, <2>2, <2>3, <2>4 DEF Outbound
  <1>. QED  BY <1>7, <1>11, <1>12, <1>13, <1>14 DEF Outbound

-----------------------------------------------------------------------------
(* Writing to the loopback *)

\* The channels and buffers have sizes.
LEMMA DemoSizes ==
    ASSUME DemoType
    PROVE  /\ size.c2b \in Nat /\ size.b2c \in Nat /\ size.buf \in Nat
           /\ size.c2b >= SubscribeLen
  BY DemoAssumption DEF DemoType

\* What vt_write() cannot put into the channel stays staged behind it.
LEMMA VtWrite ==
    ASSUME DemoType, NEW b \in Seq(OutByte), vt_write(b)
    PROVE  /\ c2b' \in Seq(OutByte) /\ Len(c2b') <= size.c2b
           /\ tx_pending' \in Seq(OutByte)
           /\ c2b' \o tx_pending' = c2b \o b
           /\ Len(c2b) + Len(b) <= size.c2b => tx_pending' = <<>>
  <1>. DEFINE n == Fewer(Len(b), size.c2b - Len(c2b))
              x == Taken(b, n)
              y == Remaining(b, n)
  <1>1. c2b \in Seq(OutByte) /\ Len(c2b) \in Nat /\ Len(b) \in Nat /\ Len(c2b) <= size.c2b
    BY LenProperties DEF DemoType
  <1>2. /\ n \in 0..Len(b) /\ Len(c2b) + n <= size.c2b
        /\ Len(c2b) + Len(b) <= size.c2b => n = Len(b)
    BY <1>1, DemoSizes DEF Fewer
  <1>3. c2b' = c2b \o x /\ tx_pending' = y
    BY DEF vt_write
  <1>. HIDE DEF n
  <1>4. /\ x \in Seq(OutByte) /\ y \in Seq(OutByte) /\ x \o y = b
        /\ Len(x) = n /\ Len(y) = Len(b) - n
    BY <1>2, CutSequence
  <1>. HIDE DEF x, y
  <1>5. c2b' \in Seq(OutByte) /\ Len(c2b') = Len(c2b) + Len(x)
    BY <1>1, <1>3, <1>4, Joined
  <1>6. c2b' \o tx_pending' = c2b \o b
    <2>1. (c2b \o x) \o y = c2b \o (x \o y)
      <3>1. c2b \in Seq(OutByte) /\ x \in Seq(OutByte) /\ y \in Seq(OutByte)
        BY <1>1, <1>4, Zenon
      <3>. QED  BY <3>1, Bracket, Zenon
    <2>. QED  BY <1>3, <1>4, <2>1, Zenon
  <1>7. Len(c2b) + Len(b) <= size.c2b => tx_pending' = <<>>
    BY <1>1, <1>2, <1>3, <1>4, EmptySeq
  <1>. QED  BY <1>1, <1>2, <1>3, <1>4, <1>5, <1>6, <1>7, DemoSizes

\* The broker hears CONNECT, or has its first bytes and the rest is staged.
LEMMA HearsConnect ==
    ASSUME TypeOK, in_sync, heard = "nothing",
           NEW s \in Seq(OutByte), NEW n \in 0..Len(s),
           frame \o s = Bytes(PConnect), Transmit(Taken(s, n))
    PROVE  \/ heard' = "CONNECT"
           \/ heard' = "nothing" /\ frame' \o Remaining(s, n) = Bytes(PConnect)
  <1>1. WholePacket(frame \o s)
    BY DemoPackets
  <1>2. \/ /\ ~WholePacket(frame \o Taken(s, n))
           /\ frame' \o Remaining(s, n) = frame \o s
        \/ /\ WholePacket(frame \o Taken(s, n))
           /\ frame \o Taken(s, n) = frame \o s
    BY <1>1, TransmitMoves
  <1>3. CASE ~WholePacket(frame \o Taken(s, n))
    BY <1>2, <1>3, Zenon DEF Transmit
  <1>4. CASE WholePacket(frame \o Taken(s, n))
    <2>1. frame \o Taken(s, n) = Bytes(PConnect)
      BY <1>2, <1>4, Zenon
    <2>2. Bytes(PConnect)[1].t = "CONNECT"
      BY DemoPackets DEF Bytes, PConnect, Packet
    <2>3. heard' = (frame \o Taken(s, n))[1].t
      BY <1>4 DEF Transmit
    <2>. QED  BY <2>1, <2>2, <2>3, Zenon
  <1>. QED  BY <1>3, <1>4, Zenon

\* What has been heard stays heard.
LEMMA HeardStays ==
    ASSUME NEW b, Transmit(b), heard = "CONNECT"
    PROVE  heard' = "CONNECT"
  BY DEF Transmit

\* CONNECT is heard once nothing of it is staged.
LEMMA Heard ==
    ASSUME DemoType, StreamInv, Hears, connect_sent, tx_pending = <<>>
    PROVE  heard = "CONNECT"
  <1>. SUFFICES ASSUME heard # "CONNECT" PROVE FALSE
    OBVIOUS
  <1>1. frame \o tx_pending = frame
    BY Joined DEF DemoType, TypeOK
  <1>2. frame = Bytes(PConnect)
    BY <1>1 DEF Hears
  <1>. QED  BY <1>2, DemoPackets DEF StreamInv, FrameOpen

\* A packet that finds nothing staged goes out, or is staged, whole.
LEMMA SendsWhole ==
    ASSUME DemoType, link = "up", tx_pending = <<>>, NEW p, NEW st,
           p \in {PConnect, PSubscribe, PPublish},
           EncodeAndSend(p, st), Sends(p)
    PROVE  /\ st = "OK" /\ damage' = damage
           /\ c2b' \in Seq(OutByte) /\ Len(c2b') <= size.c2b
           /\ tx_pending' \in Seq(OutByte)
           /\ c2b' \o tx_pending' = c2b \o Bytes(p)
           /\ Len(c2b) + Len(Bytes(p)) <= size.c2b => tx_pending' = <<>>
           /\ \E n \in 0..Len(Bytes(p)) :
                 tx_pending' = Remaining(Bytes(p), n) /\ Transmit(Taken(Bytes(p), n))
  <1>1. Encodes(p) /\ Bytes(p) \in Seq(OutByte) /\ Len(Bytes(p)) = p.len /\ p.len \in Nat
    BY DemoPackets DEF PConnect, PSubscribe, PPublish, Packet
  <1>2. client_send(p, st)
    BY <1>1 DEF EncodeAndSend
  <1>3. PICK w \in transport_write(p.len) :
           /\ st = (IF w.ok THEN "OK" ELSE "IO")
           /\ tx_pending' = IF w.ok THEN Remaining(Bytes(p), w.n) ELSE <<>>
           /\ Transmit(Taken(Bytes(p), w.n))
    BY <1>2 DEF client_send
  <1>4. w.ok /\ w.n \in 0..p.len
    BY <1>3 DEF transport_write, Moved
  <1>5. vt_write(Bytes(p))
    BY DEF Sends
  <1>6. damage' = damage
    BY <1>2 DEF client_send
  <1>7. \E n \in 0..Len(Bytes(p)) :
           tx_pending' = Remaining(Bytes(p), n) /\ Transmit(Taken(Bytes(p), n))
    BY <1>1, <1>3, <1>4
  <1>. QED  BY <1>1, <1>3, <1>4, <1>5, <1>6, <1>7, VtWrite

-----------------------------------------------------------------------------
(* The polls of the demo *)

\* nothing is written, staged or heard
Quiet == UNCHANGED <<tx_pending, connect_sent, c2b, frame, in_sync, heard, connects>>

\* A poll writes where it flushes and where it sends CONNECT, nowhere else: the
\* keepalive is never due.
LEMMA PollQuiet ==
    ASSUME Control, PollStep, pc \notin {"idle", "send_connect"}
    PROVE  Quiet /\ damage' = damage
  <1>1. ~KeepaliveDue
    BY DemoAssumption, TimesAssumption DEF Control, KeepaliveDue
  <1>2. c2b' = c2b
    BY DEF PollStep
  <1>3. UNCHANGED <<tx_pending, connect_sent, frame, in_sync, heard, connects, damage>>
    <2>1. Poll /\ pc \notin {"idle", "entry", "send_connect"}
      BY DEF PollStep, Control
    <2>2. CASE client_keepalive
      BY <1>1, <2>2 DEF client_keepalive, broker
    <2>3. CASE \/ handle_state_disconnected \/ handle_state_connecting \/ connect_sent_read
               \/ connack_wait \/ connack_error \/ connack_received
      BY <2>3 DEF handle_state_disconnected, handle_state_connecting, connect_sent_read,
         connack_wait, connack_error, connack_received, client, broker, hist
    <2>4. CASE \/ handle_state_mqtt_connected \/ handle_state_mqtt_disconnecting
               \/ client_read \/ parse_wait \/ parse_error \/ client_dispatch_packet
               \/ on_message_returns \/ consume_packet
      BY <2>4 DEF handle_state_mqtt_connected, handle_state_mqtt_disconnecting,
         client_read, parse_wait, parse_error, client_dispatch_packet,
         on_message_returns, consume_packet, client, broker, hist
    <2>. QED  BY <2>1, <2>2, <2>3, <2>4 DEF Poll, client_flush_pending, client_send_connect
  <1>. QED  BY <1>2, <1>3 DEF Quiet

\* The flush moves staged bytes into the channel.
LEMMA PollFlushes ==
    ASSUME DemoType, Control, PollStep, pc = "idle"
    PROVE  /\ client_flush_pending /\ vt_write(tx_pending)
           /\ UNCHANGED <<state, connect_sent, rx, age, link, inbox, sent, done, damage>>
           /\ outer' = <<>>
           /\ pc' = "core" \/ (pc' = "idle" /\ tx_pending # <<>> /\ link # "up")
           /\ pc' = "core" => poll_status' = poll_status
           /\ \/ UNCHANGED <<tx_pending, frame, in_sync, heard, connects>>
              \/ \E n \in 0..Len(tx_pending) :
                    /\ tx_pending' = Remaining(tx_pending, n)
                    /\ Transmit(Taken(tx_pending, n))
  <1>1. client_flush_pending
    BY DEF PollStep, Poll, handle_state_disconnected, handle_state_connecting,
       connect_sent_read, connack_wait, connack_error, connack_received,
       client_send_connect, handle_state_mqtt_connected, handle_state_mqtt_disconnecting,
       client_read, parse_wait, parse_error, client_dispatch_packet,
       on_message_returns, consume_packet, client_keepalive
  <1>2. vt_write(tx_pending)
    BY DEF PollStep
  <1>3. UNCHANGED <<state, connect_sent, rx, age, link, inbox, sent, done, damage>>
    BY <1>1 DEF client_flush_pending, net, hist
  <1>4. outer = <<>>
    BY DEF Control
  <1>5. CASE tx_pending = <<>>
    BY <1>1, <1>2, <1>3, <1>4, <1>5 DEF client_flush_pending, Goto, broker
  <1>6. CASE tx_pending # <<>>
    <2>1. PICK w \in transport_write(Len(tx_pending)) :
             /\ tx_pending' = Remaining(tx_pending, w.n)
             /\ Transmit(Taken(tx_pending, w.n))
             /\ IF w.ok THEN Goto("core") ELSE Return("IO")
      BY <1>1, <1>6 DEF client_flush_pending
    <2>2. w.n \in 0..Len(tx_pending) /\ w.ok \in BOOLEAN
      BY WriteBounds, LenProperties DEF DemoType, TypeOK
    <2>3. link = "up" => w.ok
      BY DEF transport_write, Moved
    <2>. QED  BY <1>1, <1>2, <1>3, <1>4, <1>6, <2>1, <2>2, <2>3 DEF Goto, Return
  <1>. QED  BY <1>5, <1>6

\* CONNECT goes out on a connection that is up, with nothing staged before it.
LEMMA PollSendsConnect ==
    ASSUME DemoType, TransportInv, Control, Outbound, PollStep, pc = "send_connect"
    PROVE  /\ state = "CONNECT_SENT" /\ ~connect_sent /\ connect_sent' = TRUE
           /\ tx_pending = <<>> /\ c2b = <<>> /\ buf = <<>> /\ seen = <<>>
           /\ ~subscribed /\ ~published
           /\ UNCHANGED <<state, rx, age, link, inbox, sent, done, damage>>
           /\ pc' = "idle" /\ poll_status' = "OK" /\ outer' = <<>>
           /\ c2b' \in Seq(OutByte) /\ Len(c2b') <= size.c2b
           /\ c2b' \o tx_pending' = Bytes(PConnect)
           /\ \E n \in 0..Len(Bytes(PConnect)) :
                 /\ tx_pending' = Remaining(Bytes(PConnect), n)
                 /\ Transmit(Taken(Bytes(PConnect), n))
  <1>1. client_send_connect
    BY DEF PollStep, Poll, handle_state_disconnected, handle_state_connecting,
       connect_sent_read, connack_wait, connack_error, connack_received,
       client_flush_pending, handle_state_mqtt_connected, handle_state_mqtt_disconnecting,
       client_read, parse_wait, parse_error, client_dispatch_packet,
       on_message_returns, consume_packet, client_keepalive
  <1>2. /\ state = "CONNECT_SENT" /\ ~connect_sent /\ outer = <<>> /\ link = "up"
    BY DEF Control, TransportInv, TransportHeld
  <1>3. ~subscribed /\ ~published /\ seen = <<>> /\ Line = <<>>
    BY <1>2 DEF Outbound
  <1>4. tx_pending = <<>> /\ c2b = <<>> /\ buf = <<>>
    <2>1. buf \in Seq(OutByte) /\ c2b \in Seq(OutByte) /\ tx_pending \in Seq(OutByte)
      BY DEF DemoType, TypeOK
    <2>2. c2b \o tx_pending \in Seq(OutByte)
      BY <2>1, Joined
    <2>3. buf = <<>> /\ c2b \o tx_pending = <<>>
      BY <1>3, <2>1, <2>2, Joined DEF Line
    <2>. QED  BY <2>1, <2>3, Joined
  <1>5. PICK st \in Statuses : /\ EncodeAndSend(PConnect, st)
                               /\ connect_sent' = (st = "OK")
                               /\ Return(st)
    BY <1>1 DEF client_send_connect, PConnect
  <1>6. Sends(PConnect)
    BY DEF PollStep, PConnect
  <1>7. UNCHANGED <<state, rx, age, link, inbox, sent, done>>
    BY <1>1 DEF client_send_connect, net
  <1>8. /\ st = "OK" /\ damage' = damage
        /\ c2b' \in Seq(OutByte) /\ Len(c2b') <= size.c2b
        /\ c2b' \o tx_pending' = c2b \o Bytes(PConnect)
        /\ \E n \in 0..Len(Bytes(PConnect)) :
              /\ tx_pending' = Remaining(Bytes(PConnect), n)
              /\ Transmit(Taken(Bytes(PConnect), n))
    BY <1>2, <1>4, <1>5, <1>6, SendsWhole
  <1>9. c2b \o Bytes(PConnect) = Bytes(PConnect)
    BY <1>4, DemoPackets, Joined
  <1>10. pc' = "idle" /\ poll_status' = "OK" /\ outer' = <<>> /\ connect_sent' = TRUE
    BY <1>2, <1>5, <1>8 DEF Return
  <1>. QED  BY <1>2, <1>3, <1>4, <1>7, <1>8, <1>9, <1>10

\* What a poll does to the state machine and the inbound side, where it does
\* not write.
Moves ==
    /\ outer' = <<>> /\ age' = 0 /\ link' \in {"down", "up"} /\ pc' # "entry"
    /\ sent' = sent
    /\ pc' = "send_connect" => ~connect_sent /\ state' = "CONNECT_SENT"
    /\ \/ state' = state /\ done' = done
       \/ state' = state /\ done' = done + 1 /\ state \in Live
       \/ state = "CONNECTING" /\ state' = "CONNECT_SENT" /\ done' = done
       \/ /\ state = "CONNECT_SENT" /\ state' = "CONNECTED" /\ done' = done + 1
          /\ rx # <<>> /\ pc' # "idle"
       \/ /\ state' = "DISCONNECTED" /\ pc' = "idle"
          /\ state = "DISCONNECTING" \/ poll_status' # "OK"
    /\ rx = <<>> /\ inbox = <<>> => rx' = <<>> /\ inbox' = <<>>
    /\ Len(inbox') <= Len(inbox)

\* Nothing cannot be cut.
LEMMA CutNothing == Taken(<<>>, 0) = <<>> /\ Remaining(<<>>, 0) = <<>>
  <1>1. <<>> \in Seq({}) /\ Len(<<>>) = 0
    OBVIOUS
  <1>2. /\ Taken(<<>>, 0) \in Seq({}) /\ Len(Taken(<<>>, 0)) = 0
        /\ Remaining(<<>>, 0) \in Seq({}) /\ Len(Remaining(<<>>, 0)) = 0
    <2>1. 0 \in 0..Len(<<>>) /\ Len(<<>>) - 0 = 0
      BY <1>1
    <2>. QED  BY <1>1, <2>1, CutSequence
  <1>. QED  BY <1>2, EmptySeq

\* A read of nothing gets nothing.
LEMMA ReadsNothing ==
    ASSUME TypeOK, NEW r \in transport_read(RxRoom), rx = <<>>, inbox = <<>>
    PROVE  rx \o Taken(inbox, r.n) = <<>> /\ Remaining(inbox, r.n) = <<>>
  <1>1. RxRoom \in Nat
    BY LenProperties, SizesAssumption DEF TypeOK, RxRoom
  <1>2. r.n = 0
    BY <1>1, ReadBounds
  <1>3. Taken(inbox, 0) = <<>> /\ Remaining(inbox, 0) = <<>>
    BY CutNothing
  <1>. QED  BY <1>2, <1>3

\* A read leaves no more than there was.
LEMMA ReadsNoMore ==
    ASSUME TypeOK, NEW r \in transport_read(RxRoom)
    PROVE  Len(Remaining(inbox, r.n)) <= Len(inbox)
  <1>1. RxRoom \in Nat /\ inbox \in Seq(InByte) /\ Len(inbox) \in Nat
    BY LenProperties, SizesAssumption DEF TypeOK, RxRoom
  <1>2. r.n \in 0..Len(inbox)
    BY <1>1, ReadBounds
  <1>3. Len(Remaining(inbox, r.n)) = Len(inbox) - r.n
    BY <1>1, <1>2, CutSequence
  <1>. QED  BY <1>1, <1>2, <1>3

\* Every such step of a poll does that.
LEMMA PollMoves ==
    ASSUME DemoType, TransportInv, ReadInv, Control, PollStep,
           pc \notin {"idle", "send_connect"}
    PROVE  Moves
  <1>1. /\ outer = <<>> /\ age = 0 /\ link \in {"down", "up"} /\ damage = {}
        /\ pc \notin {"idle", "entry", "send_connect"} /\ TypeOK
    BY DEF Control, DemoType
  <1>2. Poll
    BY DEF PollStep
  <1>. Len(inbox) \in Nat /\ Len(<<>>) <= Len(inbox)
    BY <1>1, LenProperties, EmptySeq DEF TypeOK
  <1>3. ASSUME NEW st, Return(st) PROVE pc' = "idle" /\ outer' = <<>> /\ poll_status' = st
    BY <1>1, <1>3 DEF Return
  <1>4. ASSUME NEW st, HangUp(st)
        PROVE  /\ state' = "DISCONNECTED" /\ link' = "down" /\ inbox' = inbox /\ sent' = sent
               /\ pc' = "idle" /\ outer' = <<>> /\ poll_status' = st
    BY <1>3, <1>4, DemoAssumption DEF HangUp, transport_disconnect, LeftBehind
  <1>5. ConnectIfUnsent => /\ outer' = <<>> /\ pc' # "entry"
                           /\ pc' = "send_connect" => ~connect_sent
    BY <1>1, <1>3 DEF ConnectIfUnsent, Goto
  <1>6. ASSUME NEW x, Goto(x) PROVE pc' = x /\ outer' = <<>> /\ poll_status' = poll_status
    BY <1>1, <1>6 DEF Goto
  <1>7. CASE handle_state_disconnected
    BY <1>1, <1>3, <1>7 DEF handle_state_disconnected, Moves, client, net, hist
  <1>8. CASE handle_state_connecting
    <2>1. state = "CONNECTING" /\ link' = "up"
      BY <1>8 DEF handle_state_connecting, PollStep
    <2>2. PICK r \in transport_connect :
             /\ link' = r[1]
             /\ inbox' = IF r[1] = "down" THEN LeftBehind ELSE inbox
             /\ r[2] \in {"OK", "WOULD_BLOCK", "IO"}
             /\ r[2] = "OK" => state' = "CONNECT_SENT" /\ age' = 0 /\ ConnectIfUnsent
      BY <1>8 DEF handle_state_connecting
    <2>3. r[1] = "up" /\ r[2] = "OK"
      BY <1>1, <2>1, <2>2, DemoAssumption DEF transport_connect
    <2>4. UNCHANGED <<rx, sent, done>>
      BY <1>8 DEF handle_state_connecting, hist
    <2>. QED  BY <1>5, <2>1, <2>2, <2>3, <2>4 DEF Moves
  <1>9. CASE connect_sent_read
    <2>1. PICK r \in transport_read(RxRoom) :
             \/ HangUp("IO") /\ UNCHANGED rx
             \/ /\ rx' = rx \o Taken(inbox, r.n)
                /\ inbox' = Remaining(inbox, r.n)
                /\ Goto("connack")
                /\ UNCHANGED <<state, link, sent>>
      BY <1>9 DEF connect_sent_read
    <2>2. UNCHANGED <<age, done>>
      BY <1>9 DEF connect_sent_read, hist
    <2>3. CASE HangUp("IO") /\ UNCHANGED rx
      BY <1>1, <1>4, <2>2, <2>3 DEF Moves
    <2>4. CASE /\ rx' = rx \o Taken(inbox, r.n)
               /\ inbox' = Remaining(inbox, r.n)
               /\ Goto("connack")
               /\ UNCHANGED <<state, link, sent>>
      <3>1. rx = <<>> /\ inbox = <<>> => rx' = <<>> /\ inbox' = <<>>
        BY <1>1, <2>4, ReadsNothing
      <3>2. Len(inbox') <= Len(inbox)
        BY <1>1, <2>4, ReadsNoMore
      <3>. QED  BY <1>1, <1>6, <2>2, <2>4, <3>1, <3>2 DEF Moves
    <2>. QED  BY <2>1, <2>3, <2>4
  <1>10. CASE connack_wait
    <2>1. UNCHANGED <<rx, age, done>> /\ pc = "connack" /\ state = "CONNECT_SENT"
      BY <1>10 DEF connack_wait, hist, TransportInv
    <2>2. HangUp("TIMEOUT") \/ (ConnectIfUnsent /\ UNCHANGED <<state, link, inbox, sent>>)
      BY <1>10 DEF connack_wait, net
    <2>. QED  BY <1>1, <1>4, <1>5, <2>1, <2>2 DEF Moves
  <1>11. CASE connack_error
    <2>1. UNCHANGED <<rx, age, done>>
      BY <1>11 DEF connack_error, hist
    <2>2. HangUp("PROTOCOL") \/ HangUp("BUFFER_TOO_SMALL")
      BY <1>11 DEF connack_error
    <2>. QED  BY <1>1, <1>4, <2>1, <2>2 DEF Moves
  <1>12. CASE connack_received
    <2>1. PICK h \in decode_fixed_header(rx) :
             /\ h.st = "OK"
             /\ rx' = AfterConnack(h.len)
             /\ done' = done + 1
             /\ \/ state' = "CONNECTED" /\ age' = 0 /\ Goto("read") /\ UNCHANGED net
                \/ HangUp("CONNECT") /\ UNCHANGED age
      BY <1>12 DEF connack_received
    <2>2. rx # <<>>
      BY <2>1 DEF decode_fixed_header, TooSmall
    <2>3. state = "CONNECT_SENT"
      BY <1>12 DEF connack_received, TransportInv
    <2>. QED  BY <1>1, <1>4, <1>6, <2>1, <2>2, <2>3 DEF Moves, net
  <1>13. CASE handle_state_mqtt_connected
    BY <1>1, <1>6, <1>13 DEF handle_state_mqtt_connected, Moves, client, net, hist
  <1>14. CASE handle_state_mqtt_disconnecting
    BY <1>1, <1>4, <1>14 DEF handle_state_mqtt_disconnecting, Moves, hist
  <1>15. CASE client_read
    <2>1. PICK r \in transport_read(RxRoom) :
             \/ Return("IO") /\ UNCHANGED <<rx, inbox>>
             \/ /\ rx' = rx \o Taken(inbox, r.n)
                /\ inbox' = Remaining(inbox, r.n)
                /\ Goto("parse")
      BY <1>15 DEF client_read
    <2>2. UNCHANGED <<state, age, link, sent, done>>
      BY <1>15 DEF client_read, hist
    <2>3. CASE Return("IO") /\ UNCHANGED <<rx, inbox>>
      BY <1>1, <1>3, <2>2, <2>3 DEF Moves
    <2>4. CASE /\ rx' = rx \o Taken(inbox, r.n)
               /\ inbox' = Remaining(inbox, r.n)
               /\ Goto("parse")
      <3>1. rx = <<>> /\ inbox = <<>> => rx' = <<>> /\ inbox' = <<>>
        BY <1>1, <2>4, ReadsNothing
      <3>2. Len(inbox') <= Len(inbox)
        BY <1>1, <2>4, ReadsNoMore
      <3>. QED  BY <1>1, <1>6, <2>2, <2>4, <3>1, <3>2 DEF Moves
    <2>. QED  BY <2>1, <2>3, <2>4
  <1>16. CASE parse_wait \/ on_message_returns
    BY <1>1, <1>6, <1>16 DEF parse_wait, on_message_returns, Moves, client, net, hist
  <1>17. CASE parse_error
    <2>1. \E st : Return(st)
      BY <1>17 DEF parse_error
    <2>. QED  BY <1>1, <1>3, <1>17, <2>1 DEF parse_error, Moves, client, net, hist
  <1>18. CASE client_dispatch_packet
    <2>1. pc' \in {"callback", "consume"}
      BY <1>18 DEF client_dispatch_packet
    <2>2. UNCHANGED <<state, age, rx, outer, link, inbox, sent, done>>
      BY <1>18 DEF client_dispatch_packet, client, net
    <2>. QED  BY <1>1, <2>1, <2>2 DEF Moves
  <1>19. CASE consume_packet
    <2>1. pc = "consume" /\ UNCHANGED <<state, age, outer, link, inbox, sent>>
      BY <1>19 DEF consume_packet, net
    <2>2. state \in Live /\ packet_len <= Len(rx)
      BY <1>1, <2>1 DEF ReadInv, Live
    <2>3. rx' = Remaining(rx, packet_len) /\ done' = done + 1 /\ pc' = "parse"
      BY <1>1, <1>19, <2>2, LenProperties DEF consume_packet, NextPacket, TypeOK
    <2>4. rx = <<>> => packet_len = 0
      BY <1>1, <2>2, EmptySeq DEF TypeOK
    <2>5. rx = <<>> => rx' = <<>>
      BY <2>3, <2>4, CutNothing
    <2>. QED  BY <1>1, <2>1, <2>2, <2>3, <2>5 DEF Moves
  <1>20. CASE client_keepalive
    <2>1. ~KeepaliveDue
      BY <1>1, DemoAssumption, TimesAssumption DEF KeepaliveDue
    <2>. QED  BY <1>1, <1>3, <1>20, <2>1 DEF client_keepalive, Moves, net
  <1>. QED  BY <1>1, <1>2, <1>7, <1>8, <1>9, <1>10, <1>11, <1>12, <1>13, <1>14, <1>15, <1>16,
               <1>17, <1>18, <1>19, <1>20
       DEF Poll, client_flush_pending, client_send_connect

\* What main() makes of a step of a poll.
LEMMA PollAt ==
    ASSUME poll \/ last_poll
    PROVE  /\ PollStep
           /\ UNCHANGED <<subscribed, published, buf, broker_subscribed, seen, size>>
           /\ at \in {"poll", "last_poll"}
           /\ pc' # "idle" => at' = at
           /\ pc' = "idle" /\ at = "poll" =>
                 at' = IF poll_status' = "OK" THEN "broker" ELSE "failed"
           /\ pc' = "idle" /\ at = "last_poll" => at' \in {"succeeded", "failed"}
  BY DEF poll, last_poll, broker_vars

\* A poll leaves main() and the client where they may be.
LEMMA PollControl ==
    ASSUME DemoType, TransportInv, ReadInv, Control, Outbound, poll \/ last_poll
    PROVE  Control'
  <1>1. CASE pc = "idle"
    BY <1>1, PollAt, PollFlushes DEF Control, Looping
  <1>2. CASE pc = "send_connect"
    BY <1>2, PollAt, PollSendsConnect DEF Control, Looping
  <1>3. CASE pc \notin {"idle", "send_connect"}
    <2>1. Moves /\ Quiet /\ damage' = damage
      BY <1>3, PollAt, PollMoves, PollQuiet
    <2>. QED  BY <2>1, PollAt DEF Control, Looping, Moves, Quiet, Live
  <1>. QED  BY <1>1, <1>2, <1>3

\* A poll moves bytes along the line, or puts CONNECT on it.
LEMMA PollOutbound ==
    ASSUME DemoType, TransportInv, ReadInv, Control, Outbound, poll \/ last_poll
    PROVE  Outbound'
  <1>1. at # "publish" /\ UNCHANGED <<subscribed, published, buf, seen>>
    BY PollAt
  <1>2. CASE pc = "send_connect"
    <2>1. buf' = <<>> /\ c2b' \o tx_pending' = Bytes(PConnect)
      BY <1>1, <1>2, PollAt, PollSendsConnect
    <2>2. Line' = Bytes(PConnect)
      BY <2>1, DemoPackets, Joined DEF Line
    <2>3. connect_sent' /\ ~subscribed' /\ ~published' /\ seen' = <<>>
      BY <1>1, <1>2, PollAt, PollSendsConnect
    <2>4. seen' = <<>> /\ Line' = Bytes(PConnect)'
      BY <2>2, <2>3 DEF PConnect, Packet, Bytes
    <2>. QED  BY <2>3, <2>4 DEF Outbound
  <1>3. CASE pc # "send_connect"
    <2>1. connect_sent' = connect_sent /\ c2b' \o tx_pending' = c2b \o tx_pending
      <3>1. CASE pc = "idle"
        BY <3>1, PollAt, PollFlushes, VtWrite DEF DemoType, TypeOK
      <3>2. CASE pc # "idle"
        BY <1>3, <3>2, PollAt, PollQuiet DEF Quiet
      <3>. QED  BY <3>1, <3>2
    <2>2. Line' = Line
      BY <1>1, <2>1, Zenon DEF Line
    <2>. QED  BY <1>1, <2>1, <2>2 DEF Outbound, PConnect, PSubscribe, PPublish, Packet, Bytes
  <1>. QED  BY <1>2, <1>3

\* A poll consumes answers the broker has given, CONNACK first.
LEMMA PollReplies ==
    ASSUME DemoType, TransportInv, ReadInv, Control, Outbound, Replies, poll \/ last_poll
    PROVE  Replies'
  <1>1. UNCHANGED <<subscribed, seen, broker_subscribed>> /\ at \in {"poll", "last_poll"}
    BY PollAt
  <1>2. done \in Nat
    BY DEF DemoType, TypeOK
  <1>3. /\ sent' = sent
        /\ rx = <<>> /\ inbox = <<>> => rx' = <<>> /\ inbox' = <<>>
        /\ state' \in Live => seen # <<>> /\ done' >= 1
        /\ state' \in Starting => done' = 0
        /\ at' \in Looping => at = "poll" /\ (state = "CONNECTED" => state' = "CONNECTED")
    <2>1. CASE pc = "idle"
      BY <1>1, <1>2, <2>1, PollAt, PollFlushes DEF Replies, Looping
    <2>2. CASE pc = "send_connect"
      BY <1>1, <1>2, <2>2, PollAt, PollSendsConnect DEF Replies, Looping
    <2>3. CASE pc \notin {"idle", "send_connect"}
      <3>1. Moves
        BY <2>3, PollAt, PollMoves
      <3>. QED  BY <1>1, <1>2, <3>1, PollAt DEF Replies, Looping, Moves, Live, Starting
    <2>. QED  BY <2>1, <2>2, <2>3
  <1>4. at = "poll" /\ subscribed => state = "CONNECTED"
    BY DEF Replies, Looping
  <1>5. Answers3' = Answers3
    BY DEF Answers3
  <1>. QED  BY <1>1, <1>3, <1>4, <1>5 DEF Replies

\* A poll lets the broker hear CONNECT, at once or piece by piece.
LEMMA PollHears ==
    ASSUME DemoType, TransportInv, ReadInv, StreamInv, Control, Outbound, Hears,
           poll \/ last_poll
    PROVE  Hears'
  <1>1. Bytes(PConnect)' = Bytes(PConnect)
    BY DEF PConnect, Packet, Bytes
  <1>2. TypeOK /\ in_sync
    BY DEF DemoType, StreamInv, StreamIntact, Control
  <1>3. CASE pc = "send_connect"
    <2>1. ~connect_sent /\ connect_sent'
      BY <1>3, PollAt, PollSendsConnect
    <2>2. heard = "nothing" /\ frame \o Bytes(PConnect) = Bytes(PConnect)
      BY <2>1, DemoPackets, Joined DEF Hears
    <2>3. PICK n \in 0..Len(Bytes(PConnect)) :
             /\ tx_pending' = Remaining(Bytes(PConnect), n)
             /\ Transmit(Taken(Bytes(PConnect), n))
      BY <1>3, PollAt, PollSendsConnect
    <2>4. \/ heard' = "CONNECT"
          \/ heard' = "nothing" /\ frame' \o Remaining(Bytes(PConnect), n) = Bytes(PConnect)
      BY <1>2, <2>2, <2>3, HearsConnect, DemoPackets
    <2>. QED  BY <1>1, <2>1, <2>3, <2>4 DEF Hears
  <1>4. CASE pc \notin {"idle", "send_connect"}
    BY <1>1, <1>4, PollAt, PollQuiet DEF Hears, Quiet
  <1>5. CASE pc = "idle"
    <2>1. connect_sent' = connect_sent
      BY <1>5, PollAt, PollFlushes
    <2>2. CASE UNCHANGED <<tx_pending, frame, in_sync, heard, connects>>
      BY <1>1, <2>1, <2>2 DEF Hears
    <2>3. CASE \E n \in 0..Len(tx_pending) :
                  /\ tx_pending' = Remaining(tx_pending, n)
                  /\ Transmit(Taken(tx_pending, n))
      <3>1. PICK n \in 0..Len(tx_pending) :
               /\ tx_pending' = Remaining(tx_pending, n)
               /\ Transmit(Taken(tx_pending, n))
        BY <2>3
      <3>2. CASE ~connect_sent
        <4>1. /\ buf \in Seq(OutByte) /\ c2b \in Seq(OutByte) /\ tx_pending \in Seq(OutByte)
              /\ c2b \o tx_pending \in Seq(OutByte)
          BY Joined DEF DemoType, TypeOK
        <4>2. tx_pending = <<>>
          <5>1. Line = <<>>
            BY <3>2 DEF Outbound
          <5>2. c2b \o tx_pending = <<>>
            BY <4>1, <5>1, Joined DEF Line
          <5>. QED  BY <4>1, <5>2, Joined
        <4>3. n = 0 /\ Taken(tx_pending, n) = <<>>
          BY <4>2, <3>1, CutNothing, EmptySeq
        <4>4. heard = "nothing" /\ frame = <<>>
          BY <3>2 DEF Hears
        <4>5. frame \o Taken(tx_pending, n) = <<>>
          BY <4>3, <4>4, EmptySeq, Joined
        <4>6. ~WholePacket(frame \o Taken(tx_pending, n))
          BY <4>5 DEF WholePacket
        <4>7. heard' = "nothing" /\ frame' = <<>>
          BY <3>1, <4>4, <4>5, <4>6 DEF Transmit
        <4>. QED  BY <2>1, <3>2, <4>7 DEF Hears
      <3>3. CASE connect_sent /\ heard = "CONNECT"
        BY <2>1, <3>1, <3>3, HeardStays DEF Hears
      <3>4. CASE connect_sent /\ heard # "CONNECT"
        <4>1. heard = "nothing" /\ frame \o tx_pending = Bytes(PConnect)
          BY <3>4 DEF Hears
        <4>2. \/ heard' = "CONNECT"
              \/ heard' = "nothing" /\ frame' \o Remaining(tx_pending, n) = Bytes(PConnect)
          BY <1>2, <3>1, <4>1, HearsConnect DEF TypeOK
        <4>. QED  BY <1>1, <2>1, <3>1, <3>4, <4>2 DEF Hears
      <3>. QED  BY <3>2, <3>3, <3>4
    <2>. QED  BY <1>5, <2>2, <2>3, PollAt, PollFlushes
  <1>. QED  BY <1>3, <1>4, <1>5

\* A poll keeps the channels within their sizes.
LEMMA PollType ==
    ASSUME DemoType, TransportInv, ReadInv, Control, Outbound, poll \/ last_poll
    PROVE  DemoType'
  <1>1. TypeOK'
    BY PollAt, TypePoll DEF PollStep, DemoType
  <1>2. c2b' \in Seq(OutByte) /\ Len(c2b') <= size.c2b
    <2>1. CASE pc = "idle"
      BY <2>1, PollAt, PollFlushes, VtWrite DEF DemoType, TypeOK
    <2>2. CASE pc = "send_connect"
      BY <2>2, PollAt, PollSendsConnect
    <2>3. CASE pc \notin {"idle", "send_connect"}
      BY <2>3, PollAt, PollQuiet DEF Quiet, DemoType
    <2>. QED  BY <2>1, <2>2, <2>3
  <1>3. at' \in Points
    BY PollAt DEF Points
  <1>4. Len(inbox') <= size.b2c
    <2>1. Len(inbox) \in Nat /\ Len(inbox') \in Nat /\ Len(inbox) <= size.b2c
      BY <1>1, LenProperties DEF DemoType, TypeOK
    <2>2. Len(inbox') <= Len(inbox)
      <3>1. CASE pc = "idle"
        BY <2>1, <3>1, PollAt, PollFlushes
      <3>2. CASE pc = "send_connect"
        <4>1. inbox' = inbox
          BY <3>2, PollAt, PollSendsConnect
        <4>. QED  BY <2>1, <4>1
      <3>3. CASE pc \notin {"idle", "send_connect"}
        BY <3>3, PollAt, PollMoves DEF Moves
      <3>. QED  BY <3>1, <3>2, <3>3
    <2>. QED  BY <2>1, <2>2, DemoSizes
  <1>. QED  BY <1>1, <1>2, <1>3, <1>4, PollAt DEF DemoType, OutByte, Scratch, OutTypes

-----------------------------------------------------------------------------
(* The broker *)

\* The line is bytes.
LEMMA LineType ==
    ASSUME DemoType
    PROVE  /\ buf \in Seq(OutByte) /\ c2b \in Seq(OutByte) /\ tx_pending \in Seq(OutByte)
           /\ c2b \o tx_pending \in Seq(OutByte) /\ Line \in Seq(OutByte)
           /\ Line = <<>> => buf = <<>> /\ c2b = <<>> /\ tx_pending = <<>>
  <1>1. buf \in Seq(OutByte) /\ c2b \in Seq(OutByte) /\ tx_pending \in Seq(OutByte)
    BY DEF DemoType, TypeOK
  <1>2. c2b \o tx_pending \in Seq(OutByte)
    BY <1>1, Joined
  <1>3. Line \in Seq(OutByte) /\ (Line = <<>> => buf = <<>> /\ c2b \o tx_pending = <<>>)
    BY <1>1, <1>2, Joined DEF Line
  <1>4. c2b \o tx_pending = <<>> => c2b = <<>> /\ tx_pending = <<>>
    BY <1>1, Joined
  <1>. QED  BY <1>1, <1>2, <1>3, <1>4

\* A whole packet at the front of the line is what broker_process_packet() gets,
\* and what was behind it is what is left.
LEMMA ProcessesFirst ==
    ASSUME DemoType, Complete, NEW p \in {PConnect, PSubscribe, PPublish},
           NEW r \in Seq(OutByte), Line = Bytes(p) \o r
    PROVE  /\ buf[1].t = p.type /\ buf[1].n = p.len
           /\ Packet(buf[1].t, buf[1].n) = p
           /\ LET b == Remaining(buf, buf[1].n) IN
              /\ b \in Seq(OutByte) /\ Len(b) <= size.buf
              /\ b \o (c2b \o tx_pending) = r
  <1>. DEFINE a == Bytes(p)
              y == c2b \o tx_pending
  <1>1. /\ a \in Seq(OutByte) /\ Len(a) = p.len /\ p.len \in Nat \ {0, 1}
        /\ p = [type |-> p.type, len |-> p.len]
        /\ a[1].t = p.type /\ a[1].n = p.len
    <2>1. /\ a \in Seq(OutByte) /\ Len(a) = p.len /\ p.len \in Nat \ {0, 1}
          /\ p = [type |-> p.type, len |-> p.len]
      BY DemoPackets DEF PConnect, PSubscribe, PPublish, Packet
    <2>2. a[1].t = p.type /\ a[1].n = p.len
      BY <2>1 DEF Bytes
    <2>. QED  BY <2>1, <2>2
  <1>2. buf \in Seq(OutByte) /\ y \in Seq(OutByte) /\ Len(buf) \in Nat /\ Len(buf) <= size.buf
    BY LineType, LenProperties DEF DemoType
  <1>3. buf \o y = a \o r
    BY DEF Line
  <1>. HIDE DEF a, y
  <1>4. buf[1] = a[1]
    <2>1. Len(buf) >= 2
      BY DEF Complete
    <2>2. (buf \o y)[1] = buf[1]
      BY <1>2, <2>1, ConcatProperties
    <2>3. (a \o r)[1] = a[1]
      BY <1>1, ConcatProperties
    <2>. QED  BY <1>3, <2>2, <2>3
  <1>5. buf[1].t = p.type /\ buf[1].n = p.len
    BY <1>1, <1>4
  <1>6. p.len \in 0..Len(buf)
    BY <1>1, <1>2, <1>5 DEF Complete
  <1>. DEFINE b == Remaining(buf, p.len)
  <1>7. b \in Seq(OutByte) /\ Len(b) <= size.buf
    <2>1. b \in Seq(OutByte) /\ Len(b) = Len(buf) - p.len
      BY <1>2, <1>6, CutSequence
    <2>. QED  BY <1>1, <1>2, <2>1, DemoSizes
  <1>8. Remaining(buf \o y, p.len) = b \o y
    BY <1>2, <1>6, RemainingOfJoined
  <1>9. Remaining(a \o r, p.len) = r
    <2>1. p.len \in 0..Len(a)
      BY <1>1
    <2>2. Remaining(a \o r, p.len) = Remaining(a, p.len) \o r
      BY <1>1, <2>1, RemainingOfJoined
    <2>3. Remaining(a, p.len) \in Seq(OutByte) /\ Len(Remaining(a, p.len)) = 0
      BY <1>1, <2>1, CutSequence
    <2>4. Remaining(a, p.len) = <<>>
      BY <2>3, EmptySeq
    <2>. QED  BY <2>2, <2>4, Joined
  <1>10. b \o y = r
    BY <1>3, <1>8, <1>9, Zenon
  <1>. QED  BY <1>1, <1>5, <1>7, <1>10 DEF Packet, y

\* Where the broker stands when it has a packet whole: which it is, and what is
\* behind it.
LEMMA BrokerGets ==
    ASSUME DemoType, Outbound, at = "broker_loop", Complete
    PROVE  \/ /\ connect_sent /\ ~subscribed /\ ~published
              /\ seen = <<>> /\ Line = Bytes(PConnect) \o <<>>
           \/ /\ connect_sent /\ subscribed /\ published /\ seen = <<PConnect>>
              /\ Line = Bytes(PSubscribe) \o Bytes(PPublish)
           \/ /\ connect_sent /\ subscribed /\ published /\ seen = <<PConnect, PSubscribe>>
              /\ Line = Bytes(PPublish) \o <<>>
  <1>1. Line # <<>>
    BY LineType, EmptySeq DEF Complete
  <1>2. \A p \in {PConnect, PSubscribe, PPublish} : Bytes(p) \o <<>> = Bytes(p)
    BY DemoPackets, Joined
  <1>. QED  BY <1>1, <1>2 DEF Outbound

\* The packets are the same in every state.
LEMMA SamePackets ==
    /\ PConnect' = PConnect /\ PSubscribe' = PSubscribe /\ PPublish' = PPublish
    /\ Bytes(PConnect)' = Bytes(PConnect) /\ Bytes(PSubscribe)' = Bytes(PSubscribe)
    /\ Bytes(PPublish)' = Bytes(PPublish) /\ Answers3' = Answers3
  BY DEF PConnect, PSubscribe, PPublish, Packet, Bytes, Answers3

\* Steps that leave the client alone leave what was proved of it alone.
LEMMA UntouchedType ==
    ASSUME TypeOK, UNCHANGED <<client, call, broker, net, hist>>
    PROVE  TypeOK'
  <1>1. UNCHANGED vars
    BY DEF vars
  <1>. QED  BY <1>1, TypeStep

\* The same of the invariants about the connection.
LEMMA UntouchedInvs ==
    ASSUME TransportInv, ReadInv, StreamInv, UNCHANGED <<client, call, broker, link, hist>>
    PROVE  TransportInv' /\ ReadInv' /\ StreamInv'
  <1>1. TransportInv' /\ ReadInv'
    BY DEF TransportInv, TransportHeld, ReadInv, client, call, hist
  <1>2. StreamInv'
    BY StreamUntouched DEF client, broker, hist
  <1>. QED  BY <1>1, <1>2

\* broker_tick() moves bytes along the line.
LEMMA TickKeeps ==
    ASSUME DemoInv, broker_tick
    PROVE  DemoInv'
  <1>. DEFINE n == Fewer(Len(c2b), size.buf - Len(buf))
              x == Taken(c2b, n)
              y == Remaining(c2b, n)
  <1>1. buf' = buf \o x /\ c2b' = y /\ at = "broker" /\ at' = "broker_loop"
    BY DEF broker_tick
  <1>2. /\ UNCHANGED <<subscribed, published, broker_subscribed, seen, size>>
        /\ UNCHANGED <<client, call, broker, net, hist>>
    BY DEF broker_tick, vars
  <1>3. /\ buf \in Seq(OutByte) /\ c2b \in Seq(OutByte) /\ tx_pending \in Seq(OutByte)
        /\ Len(buf) \in Nat /\ Len(c2b) \in Nat
        /\ Len(buf) <= size.buf /\ Len(c2b) <= size.c2b
    BY LineType, LenProperties DEF DemoInv, DemoType
  <1>4. n \in 0..Len(c2b) /\ Len(buf) + n <= size.buf
    BY <1>3, DemoSizes DEF Fewer, DemoInv
  <1>. HIDE DEF n
  <1>5. /\ x \in Seq(OutByte) /\ y \in Seq(OutByte) /\ x \o y = c2b
        /\ Len(x) = n /\ Len(y) = Len(c2b) - n
    BY <1>3, <1>4, CutSequence
  <1>. HIDE DEF x, y
  <1>6. /\ buf' \in Seq(OutByte) /\ Len(buf') <= size.buf
        /\ c2b' \in Seq(OutByte) /\ Len(c2b') <= size.c2b
    <2>1. Len(buf') = Len(buf) + Len(x) /\ buf' \in Seq(OutByte)
      BY <1>1, <1>3, <1>5, Joined
    <2>. QED  BY <1>1, <1>3, <1>4, <1>5, <2>1, DemoSizes DEF DemoInv
  <1>7. Line' = Line
    <2>1. y \o tx_pending \in Seq(OutByte) /\ tx_pending' = tx_pending
      BY <1>2, <1>3, <1>5, Joined DEF client
    <2>2. (buf \o x) \o (y \o tx_pending) = buf \o (x \o (y \o tx_pending))
      <3>1. PICK z : z = y \o tx_pending
        OBVIOUS
      <3>2. z \in Seq(OutByte) /\ buf \in Seq(OutByte) /\ x \in Seq(OutByte)
        BY <1>3, <1>5, <2>1, <3>1
      <3>3. (buf \o x) \o z = buf \o (x \o z)
        BY <3>2, Bracket, Zenon
      <3>. QED  BY <3>1, <3>3, Zenon
    <2>3. (x \o y) \o tx_pending = x \o (y \o tx_pending)
      <3>1. x \in Seq(OutByte) /\ y \in Seq(OutByte) /\ tx_pending \in Seq(OutByte)
        BY <1>3, <1>5, Zenon
      <3>. QED  BY <3>1, Bracket, Zenon
    <2>. QED  BY <1>1, <1>5, <2>1, <2>2, <2>3, Zenon DEF Line
  <1>8. DemoType'
    BY <1>1, <1>2, <1>6, UntouchedType DEF DemoInv, DemoType, Points, net
  <1>9. TransportInv' /\ ReadInv' /\ StreamInv'
    BY <1>2, UntouchedInvs DEF DemoInv, net
  <1>10. Outbound'
    BY <1>1, <1>2, <1>7, SamePackets DEF DemoInv, Outbound, client
  <1>11. Control' /\ Replies' /\ Hears'
    BY <1>1, <1>2, SamePackets
       DEF DemoInv, Control, Replies, Hears, Looping, client, call, broker, net, hist
  <1>. QED  BY <1>8, <1>9, <1>10, <1>11 DEF DemoInv

\* broker_tick() returns where no packet is whole.
LEMMA TickReturnsKeeps ==
    ASSUME DemoInv, broker_tick_returns
    PROVE  DemoInv'
  <1>1. /\ at = "broker_loop" /\ at' = "subscribe"
        /\ UNCHANGED <<client, call, broker, net, hist>>
        /\ UNCHANGED <<subscribed, published, c2b, buf, broker_subscribed, seen, size>>
    BY DEF broker_tick_returns, vars, broker_vars
  <1>2. Line' = Line
    BY <1>1, Zenon DEF Line, client
  <1>3. DemoType'
    BY <1>1, UntouchedType DEF DemoInv, DemoType, Points, net
  <1>4. TransportInv' /\ ReadInv' /\ StreamInv'
    BY <1>1, UntouchedInvs DEF DemoInv, net
  <1>5. Outbound'
    BY <1>1, <1>2, SamePackets DEF DemoInv, Outbound, client
  <1>6. Control' /\ Replies' /\ Hears'
    BY <1>1, SamePackets
       DEF DemoInv, Control, Replies, Hears, Looping, client, call, broker, net, hist
  <1>. QED  BY <1>3, <1>4, <1>5, <1>6 DEF DemoInv

\* What the broker answers the packet it gets, by the number it has had before.
LEMMA BrokerAnswers ==
    ASSUME DemoInv, at = "broker_loop", Complete
    PROVE  /\ Len(seen) \in 0..2 /\ Len(sent) = Len(seen)
           /\ Answer(buf[1].t) = <<Answers3[Len(seen) + 1]>>
           /\ Answers3[Len(seen) + 1] \in InKinds
           /\ broker_subscribed \/ buf[1].t = "SUBSCRIBE" <=> Len(seen) + 1 >= 2
           /\ Len(seen) = 0 => buf[1].t = "CONNECT"
  <1>1. <<>> \in Seq(OutByte) /\ Bytes(PPublish) \in Seq(OutByte)
    BY DemoPackets, EmptySeq
  <1>2. \/ seen = <<>> /\ buf[1].t = "CONNECT"
        \/ seen = <<PConnect>> /\ buf[1].t = "SUBSCRIBE"
        \/ seen = <<PConnect, PSubscribe>> /\ buf[1].t = "PUBLISH"
    <2>1. PConnect.type = "CONNECT" /\ PSubscribe.type = "SUBSCRIBE" /\ PPublish.type = "PUBLISH"
      BY DEF PConnect, PSubscribe, PPublish, Packet
    <2>2. CASE seen = <<>> /\ Line = Bytes(PConnect) \o <<>>
      BY <1>1, <2>1, <2>2, ProcessesFirst DEF DemoInv
    <2>3. CASE seen = <<PConnect>> /\ Line = Bytes(PSubscribe) \o Bytes(PPublish)
      BY <1>1, <2>1, <2>3, ProcessesFirst DEF DemoInv
    <2>4. CASE seen = <<PConnect, PSubscribe>> /\ Line = Bytes(PPublish) \o <<>>
      BY <1>1, <2>1, <2>4, ProcessesFirst DEF DemoInv
    <2>. QED  BY <2>2, <2>3, <2>4, BrokerGets DEF DemoInv
  <1>3. Len(sent) = Len(seen) /\ (broker_subscribed <=> Len(seen) >= 2)
    BY DEF DemoInv, Replies
  <1>4. Answers3[1] = "CONNACK_OK" /\ Answers3[2] = "SUBACK" /\ Answers3[3] = "PUBLISH"
    BY DEF Answers3
  <1>5. {"CONNACK_OK", "SUBACK", "PUBLISH"} \subseteq InKinds
    BY DemoAssumption
  <1>6. CASE seen = <<>> /\ buf[1].t = "CONNECT"
    BY <1>3, <1>4, <1>5, <1>6 DEF Answer
  <1>7. CASE seen = <<PConnect>> /\ buf[1].t = "SUBSCRIBE"
    BY <1>3, <1>4, <1>5, <1>7 DEF Answer
  <1>8. CASE seen = <<PConnect, PSubscribe>> /\ buf[1].t = "PUBLISH"
    BY <1>3, <1>4, <1>5, <1>8 DEF Answer
  <1>. QED  BY <1>2, <1>6, <1>7, <1>8

\* One packet behind others.
LEMMA InARow ==
    ASSUME NEW x, NEW y, NEW z
    PROVE  /\ Append(<<x>>, y) = <<x, y>>
           /\ Append(<<x, y>>, z) = <<x, y, z>>
  <1>. DEFINE S == {x, y, z}
  <1>1. Append(<<x>>, y) = <<x, y>>
    <2>1. <<x>> \in Seq(S) /\ y \in S /\ <<x, y>> \in Seq(S)
      OBVIOUS
    <2>2. /\ Append(<<x>>, y) \in Seq(S) /\ Len(Append(<<x>>, y)) = 2
          /\ Append(<<x>>, y)[1] = x /\ Append(<<x>>, y)[2] = y
      BY <2>1, AppendProperties
    <2>3. Len(<<x, y>>) = 2 /\ <<x, y>>[1] = x /\ <<x, y>>[2] = y
      OBVIOUS
    <2>4. \A u, v \in Seq(S) : Len(u) = 2 /\ Len(v) = 2 /\ u[1] = v[1] /\ u[2] = v[2] => u = v
      BY SeqEqual
    <2>. QED  BY <2>1, <2>2, <2>3, <2>4, Zenon
  <1>2. Append(<<x, y>>, z) = <<x, y, z>>
    <2>1. <<x, y>> \in Seq(S) /\ z \in S /\ <<x, y, z>> \in Seq(S)
      OBVIOUS
    <2>2. /\ Append(<<x, y>>, z) \in Seq(S) /\ Len(Append(<<x, y>>, z)) = 3
          /\ Append(<<x, y>>, z)[1] = x /\ Append(<<x, y>>, z)[2] = y
          /\ Append(<<x, y>>, z)[3] = z
      BY <2>1, AppendProperties
    <2>3. Len(<<x, y, z>>) = 3 /\ <<x, y, z>>[1] = x /\ <<x, y, z>>[2] = y /\ <<x, y, z>>[3] = z
      OBVIOUS
    <2>4. \A u, v \in Seq(S) : /\ Len(u) = 3 /\ Len(v) = 3
                               /\ u[1] = v[1] /\ u[2] = v[2] /\ u[3] = v[3]
                               => u = v
      BY SeqEqual
    <2>. QED  BY <2>1, <2>2, <2>3, <2>4, Zenon
  <1>. QED  BY <1>1, <1>2

\* The broker processes a packet and answers it.
LEMMA ProcessKeeps ==
    ASSUME DemoInv, broker_process_packet
    PROVE  DemoInv'
  <1>. DEFINE kind == Answers3[Len(seen) + 1]
              k == Len(seen)
              b == InBytes(kind, Len(sent) + 1)
              n == Fewer(Len(b), size.b2c - Len(inbox))
  <1>1. /\ at = "broker_loop" /\ Complete /\ at' = at
        /\ UNCHANGED <<client, call, broker, link, hist>>
        /\ UNCHANGED <<subscribed, published, c2b, size>>
    BY DEF broker_process_packet, main_vars
  <1>2. /\ k \in 0..2 /\ Len(sent) = k /\ kind \in InKinds
        /\ Answer(buf[1].t) = <<kind>>
        /\ broker_subscribed \/ buf[1].t = "SUBSCRIBE" <=> k + 1 >= 2
    BY <1>1, BrokerAnswers
  <1>3. /\ sent' = sent \o <<kind>> /\ inbox' = inbox \o Taken(b, n)
        /\ broker_subscribed' = (broker_subscribed \/ buf[1].t = "SUBSCRIBE")
        /\ seen' = Append(seen, Packet(buf[1].t, buf[1].n))
        /\ buf' = Remaining(buf, buf[1].n)
    <2>1. <<kind>> # <<>> /\ <<kind>>[1] = kind
      OBVIOUS
    <2>. QED  BY <1>2, <2>1 DEF broker_process_packet, Answered, BehindPacket
  <1>4. /\ sent \in Seq(InKinds) /\ inbox \in Seq(InByte) /\ Len(inbox) \in Nat
        /\ Len(inbox) <= size.b2c
    BY LenProperties DEF DemoInv, DemoType, TypeOK
  <1>. HIDE DEF kind
  <1>5. /\ sent' \in Seq(InKinds) /\ Len(sent') = k + 1
        /\ \A j \in 1..Len(sent') : sent'[j] = Answers3[j]
    <2>1. <<kind>> \in Seq(InKinds) /\ Len(<<kind>>) = 1 /\ <<kind>>[1] = kind
      BY <1>2
    <2>2. /\ sent' \in Seq(InKinds) /\ Len(sent') = k + 1
          /\ \A j \in 1..(k + 1) : sent'[j] = IF j <= k THEN sent[j] ELSE <<kind>>[j - k]
      BY <1>2, <1>3, <1>4, <2>1, ConcatProperties
    <2>3. \A j \in 1..k : sent[j] = Answers3[j]
      BY <1>2 DEF DemoInv, Replies
    <2>4. ASSUME NEW j \in 1..(k + 1) PROVE sent'[j] = Answers3[j]
      <3>1. CASE j <= k
        BY <1>2, <2>2, <2>3, <3>1
      <3>2. CASE j = k + 1
        BY <1>2, <2>1, <2>2, <3>2 DEF kind
      <3>. QED  BY <1>2, <3>1, <3>2
    <2>. QED  BY <2>2, <2>4
  <1>6. inbox' \in Seq(InByte) /\ Len(inbox') <= size.b2c
    <2>1. b \in Seq(InByte) /\ Len(b) \in Nat
      BY <1>2, InBytesAre
    <2>. HIDE DEF b
    <2>2. n \in 0..Len(b) /\ Len(inbox) + n <= size.b2c
      BY <1>4, <2>1, DemoSizes DEF Fewer, DemoInv
    <2>. HIDE DEF n
    <2>3. Taken(b, n) \in Seq(InByte) /\ Len(Taken(b, n)) = n
      BY <2>1, <2>2, CutSequence, Zenon
    <2>4. inbox' \in Seq(InByte) /\ Len(inbox') = Len(inbox) + n
      <3>1. PICK t : t = Taken(b, n)
        OBVIOUS
      <3>2. t \in Seq(InByte) /\ Len(t) = n /\ inbox' = inbox \o t
        BY <1>3, <2>3, <3>1, Zenon
      <3>3. inbox \o t \in Seq(InByte) /\ Len(inbox \o t) = Len(inbox) + Len(t)
        BY <1>4, <3>2, ConcatProperties, Zenon
      <3>. QED  BY <3>2, <3>3, Zenon
    <2>. QED  BY <2>2, <2>4
  <1>7. TypeOK'
    BY <1>1, <1>5, <1>6 DEF DemoInv, DemoType, TypeOK, client, call, broker, hist,
       InByte, OutByte, Scratch
  <1>8. /\ buf' \in Seq(OutByte) /\ Len(buf') <= size.buf /\ Outbound' /\ Len(seen') = k + 1
    <2>1. <<>> \in Seq(OutByte) /\ Bytes(PPublish) \in Seq(OutByte)
      BY DemoPackets, EmptySeq
    <2>2. tx_pending' = tx_pending /\ connect_sent' = connect_sent
      BY <1>1 DEF client
    <2>3. CASE /\ connect_sent /\ ~subscribed /\ ~published
               /\ seen = <<>> /\ Line = Bytes(PConnect) \o <<>>
      <3>1. /\ buf' \in Seq(OutByte) /\ Len(buf') <= size.buf
            /\ buf' \o (c2b \o tx_pending) = <<>> /\ seen' = Append(seen, PConnect)
        BY <1>1, <1>3, <2>1, <2>3, ProcessesFirst DEF DemoInv
      <3>2. seen' = <<PConnect>> /\ Line' = <<>>
        BY <1>1, <2>2, <2>3, <3>1 DEF Line
      <3>. QED  BY <1>1, <2>2, <2>3, <3>1, <3>2, SamePackets DEF Outbound
    <2>4. CASE /\ connect_sent /\ subscribed /\ published /\ seen = <<PConnect>>
               /\ Line = Bytes(PSubscribe) \o Bytes(PPublish)
      <3>1. /\ buf' \in Seq(OutByte) /\ Len(buf') <= size.buf
            /\ buf' \o (c2b \o tx_pending) = Bytes(PPublish)
            /\ seen' = Append(seen, PSubscribe)
        BY <1>1, <1>3, <2>1, <2>4, ProcessesFirst DEF DemoInv
      <3>2. seen' = <<PConnect, PSubscribe>> /\ Line' = Bytes(PPublish)
        <4>1. seen' = <<PConnect, PSubscribe>>
          BY <2>4, <3>1, InARow
        <4>2. Line' = Bytes(PPublish)
          BY <1>1, <2>2, <3>1 DEF Line
        <4>. QED  BY <4>1, <4>2
      <3>3. Len(seen') = k + 1
        BY <2>4, <3>2
      <3>4. Outbound'
        BY <1>1, <2>2, <2>4, <3>2, SamePackets DEF Outbound
      <3>. QED  BY <3>1, <3>3, <3>4
    <2>5. CASE /\ connect_sent /\ subscribed /\ published /\ seen = <<PConnect, PSubscribe>>
               /\ Line = Bytes(PPublish) \o <<>>
      <3>1. /\ buf' \in Seq(OutByte) /\ Len(buf') <= size.buf
            /\ buf' \o (c2b \o tx_pending) = <<>> /\ seen' = Append(seen, PPublish)
        BY <1>1, <1>3, <2>1, <2>5, ProcessesFirst DEF DemoInv
      <3>2. seen' = <<PConnect, PSubscribe, PPublish>> /\ Line' = <<>>
        <4>1. seen' = <<PConnect, PSubscribe, PPublish>>
          BY <2>5, <3>1, InARow
        <4>2. Line' = <<>>
          BY <1>1, <2>2, <3>1 DEF Line
        <4>. QED  BY <4>1, <4>2
      <3>3. Len(seen') = k + 1
        BY <2>5, <3>2
      <3>4. Outbound'
        BY <1>1, <2>2, <2>5, <3>2, SamePackets DEF Outbound
      <3>. QED  BY <3>1, <3>3, <3>4
    <2>. QED  BY <1>1, <2>3, <2>4, <2>5, BrokerGets DEF DemoInv
  <1>9. DemoType'
    BY <1>1, <1>2, <1>3, <1>6, <1>7, <1>8 DEF DemoInv, DemoType
  <1>10. TransportInv' /\ ReadInv' /\ StreamInv'
    BY <1>1, UntouchedInvs DEF DemoInv
  <1>11. Replies'
    <2>1. seen' # <<>>
      BY <1>2, <1>8
    <2>. QED  BY <1>1, <1>2, <1>3, <1>5, <1>8, <2>1, SamePackets
              DEF DemoInv, Replies, Looping, client, hist
  <1>12. Control' /\ Hears'
    BY <1>1, SamePackets DEF DemoInv, Control, Hears, Looping, client, call, broker, hist
  <1>. QED  BY <1>8, <1>9, <1>10, <1>11, <1>12 DEF DemoInv

-----------------------------------------------------------------------------
(* main() *)

\* The client's own invariants over a step of the client.
LEMMA ClientKeeps ==
    ASSUME DemoInv, [Next]_vars
    PROVE  TypeOK' /\ TransportInv' /\ ReadInv' /\ StreamInv'
  BY TypeStep, TransportStep, ReadStep, StreamStep DEF DemoInv, DemoType

\* The one aemlib_connect() of the demo.
LEMMA StartKeeps ==
    ASSUME DemoInv, start
    PROVE  DemoInv'
  <1>1. /\ at = "start" /\ at' = "poll" /\ aemlib_connect
        /\ UNCHANGED <<subscribed, published, c2b, buf, broker_subscribed, seen, size>>
    BY DEF start, broker_vars
  <1>2. TypeOK' /\ TransportInv' /\ ReadInv' /\ StreamInv'
    BY <1>1, ClientKeeps DEF Next, User
  <1>3. pc = "idle" /\ ~connect_sent /\ ~subscribed
    BY <1>1 DEF DemoInv, Control
  <1>4. ~published /\ seen = <<>> /\ Line = <<>>
    BY <1>3 DEF DemoInv, Outbound
  <1>5. buf = <<>> /\ c2b = <<>> /\ rx = <<>> /\ inbox = <<>>
    BY <1>4, LineType DEF DemoInv, Replies
  <1>6. /\ state' = "CONNECTING" /\ connect_sent' = FALSE /\ tx_pending' = <<>> /\ rx' = <<>>
        /\ sent' = <<>> /\ done' = 0 /\ damage' = {} /\ frame' = <<>> /\ heard' = "nothing"
        /\ UNCHANGED <<age, pc, outer, link, inbox>>
    <2>1. link = "down" /\ frame = <<>> /\ in_sync
      BY <1>1, <1>3, DemoAssumption
         DEF DemoInv, Control, TransportInv, TransportHeld, Hears, StreamInv, StreamIntact
    <2>2. NewConnection
      BY <1>1, <2>1 DEF aemlib_connect, SameConnection
    <2>3. Stale = {}
      BY <1>5, <2>1 DEF Stale
    <2>. QED  BY <1>1, <1>3, <2>1, <2>2, <2>3
              DEF aemlib_connect, NewConnection, DiscardLeftovers, call
  <1>7. Line' = <<>>
    <2>1. <<>> \in Seq(OutByte)
      BY EmptySeq
    <2>. QED  BY <1>1, <1>5, <1>6, <2>1, Joined DEF Line
  <1>8. Outbound'
    BY <1>1, <1>3, <1>4, <1>6, <1>7 DEF Outbound
  <1>9. DemoType'
    BY <1>1, <1>2, <1>6 DEF DemoInv, DemoType, Points
  <1>10. Control' /\ Hears'
    BY <1>1, <1>3, <1>6 DEF DemoInv, Control, Hears, Looping
  <1>11. Replies'
    BY <1>1, <1>3, <1>4, <1>5, <1>6 DEF DemoInv, Replies, Live, Starting
  <1>. QED  BY <1>2, <1>8, <1>9, <1>10, <1>11 DEF DemoInv

\* aemlib_subscribe() finds the line empty and the channel large enough.
LEMMA SubscribeKeeps ==
    ASSUME DemoInv, subscribe
    PROVE  DemoInv'
  <1>1. /\ at = "subscribe" /\ at' = "publish"
        /\ UNCHANGED <<published, buf, broker_subscribed, seen, size>>
    BY DEF subscribe, broker_vars
  <1>2. CASE UNCHANGED <<vars, c2b, subscribed>> /\ (state # "CONNECTED" \/ subscribed)
    <2>1. TypeOK' /\ TransportInv' /\ ReadInv' /\ StreamInv'
      BY <1>2, ClientKeeps
    <2>2. UNCHANGED <<client, call, broker, net, hist>>
      BY <1>2 DEF vars
    <2>3. Line' = Line
      BY <1>1, <1>2, <2>2, Zenon DEF Line, client
    <2>4. Outbound'
      BY <1>1, <1>2, <2>2, <2>3, SamePackets DEF DemoInv, Outbound, client
    <2>5. DemoType'
      BY <1>1, <1>2, <2>1, <2>2 DEF DemoInv, DemoType, Points, net
    <2>6. Control' /\ Replies' /\ Hears'
      BY <1>1, <1>2, <2>2, SamePackets
         DEF DemoInv, Control, Replies, Hears, Looping, client, call, broker, net, hist
    <2>. QED  BY <2>1, <2>4, <2>5, <2>6 DEF DemoInv
  <1>3. CASE /\ state = "CONNECTED" /\ ~subscribed /\ aemlib_subscribe
             /\ Sends(PSubscribe) /\ subscribed' = TRUE
    <2>1. TypeOK' /\ TransportInv' /\ ReadInv' /\ StreamInv'
      BY <1>3, ClientKeeps DEF Next, User
    <2>2. link = "up" /\ pc = "idle" /\ damage = {}
      BY <1>1, <1>3 DEF DemoInv, Control, TransportInv, TransportHeld
    <2>3. seen # <<>>
      BY <1>3 DEF DemoInv, Replies, Live
    <2>4. connect_sent /\ ~published /\ seen = <<PConnect>> /\ Line = <<>>
      BY <1>3, <2>3 DEF DemoInv, Outbound
    <2>5. buf = <<>> /\ c2b = <<>> /\ tx_pending = <<>>
      BY <2>4, LineType DEF DemoInv
    <2>6. PICK st \in Statuses : EncodeAndSend(PSubscribe, st)
      BY <1>3 DEF aemlib_subscribe, PSubscribe
    <2>7. UNCHANGED <<state, connect_sent, rx, age, pc, outer, link, inbox, sent, done>>
      BY <1>3 DEF aemlib_subscribe, call, net
    <2>8. /\ damage' = damage /\ c2b' \in Seq(OutByte) /\ Len(c2b') <= size.c2b
          /\ c2b' \o tx_pending' = c2b \o Bytes(PSubscribe)
          /\ Len(c2b) + Len(Bytes(PSubscribe)) <= size.c2b => tx_pending' = <<>>
          /\ \E n \in 0..Len(Bytes(PSubscribe)) : Transmit(Taken(Bytes(PSubscribe), n))
      BY <1>3, <2>2, <2>5, <2>6, SendsWhole DEF DemoInv
    <2>9. tx_pending' = <<>>
      <3>1. Len(c2b) = 0 /\ Len(Bytes(PSubscribe)) = SubscribeLen /\ SubscribeLen \in Nat
        BY <2>5, DemoPackets
      <3>. QED  BY <2>8, <3>1, DemoSizes DEF DemoInv
    <2>10. Line' = Bytes(PSubscribe)
      BY <1>1, <2>5, <2>8, DemoPackets, Joined DEF Line
    <2>11. heard = "CONNECT" /\ heard' = "CONNECT"
      BY <2>4, <2>5, <2>8, Heard, HeardStays DEF DemoInv
    <2>12. Outbound'
      BY <1>1, <1>3, <2>4, <2>7, <2>9, <2>10, SamePackets DEF Outbound
    <2>13. DemoType'
      BY <1>1, <1>3, <2>1, <2>7, <2>8 DEF DemoInv, DemoType, Points
    <2>14. Control' /\ Hears'
      BY <1>1, <1>3, <2>2, <2>4, <2>7, <2>8, <2>11 DEF DemoInv, Control, Hears, Looping
    <2>15. Replies'
      BY <1>1, <1>3, <2>7, SamePackets DEF DemoInv, Replies
    <2>. QED  BY <2>1, <2>12, <2>13, <2>14, <2>15 DEF DemoInv
  <1>. QED  BY <1>2, <1>3 DEF subscribe, PSubscribe

\* aemlib_publish() finds nothing staged.
LEMMA PublishKeeps ==
    ASSUME DemoInv, publish
    PROVE  DemoInv'
  <1>1. /\ at = "publish" /\ at' \in {"poll", "disconnect"}
        /\ UNCHANGED <<subscribed, buf, broker_subscribed, seen, size>>
    BY DEF publish, broker_vars
  <1>2. CASE UNCHANGED <<vars, c2b, published>> /\ ~MayPublish
    <2>1. TypeOK' /\ TransportInv' /\ ReadInv' /\ StreamInv'
      BY <1>2, ClientKeeps
    <2>2. UNCHANGED <<client, call, broker, net, hist>>
      BY <1>2 DEF vars
    <2>3. Line' = Line
      BY <1>1, <1>2, <2>2, Zenon DEF Line, client
    <2>4. Outbound'
      BY <1>1, <1>2, <2>2, <2>3, SamePackets DEF DemoInv, Outbound, client, MayPublish
    <2>5. DemoType'
      BY <1>1, <1>2, <2>1, <2>2 DEF DemoInv, DemoType, Points, net
    <2>6. Control' /\ Replies' /\ Hears'
      BY <1>1, <1>2, <2>2, SamePackets
         DEF DemoInv, Control, Replies, Hears, Looping, client, call, broker, net, hist
    <2>. QED  BY <2>1, <2>4, <2>5, <2>6 DEF DemoInv
  <1>3. CASE MayPublish /\ aemlib_publish /\ Sends(PPublish) /\ published' = TRUE
    <2>1. TypeOK' /\ TransportInv' /\ ReadInv' /\ StreamInv'
      BY <1>3, ClientKeeps DEF Next, User
    <2>2. state = "CONNECTED" /\ link = "up" /\ pc = "idle" /\ damage = {}
      BY <1>1, <1>3
         DEF DemoInv, Control, TransportInv, TransportHeld, Replies, Looping, MayPublish
    <2>3. /\ connect_sent /\ subscribed /\ ~published /\ tx_pending = <<>>
          /\ seen = <<PConnect>> /\ Line = Bytes(PSubscribe)
      BY <1>3 DEF DemoInv, Outbound, MayPublish
    <2>4. PICK st \in Statuses : EncodeAndSend(PPublish, st)
      BY <1>3, DemoAssumption DEF aemlib_publish, PPublish
    <2>5. UNCHANGED <<state, connect_sent, rx, age, pc, outer, link, inbox, sent, done>>
      BY <1>3 DEF aemlib_publish, call, net
    <2>6. /\ damage' = damage /\ c2b' \in Seq(OutByte) /\ Len(c2b') <= size.c2b
          /\ c2b' \o tx_pending' = c2b \o Bytes(PPublish)
          /\ \E n \in 0..Len(Bytes(PPublish)) : Transmit(Taken(Bytes(PPublish), n))
      BY <1>3, <2>2, <2>3, <2>4, SendsWhole DEF DemoInv
    <2>7. Line' = Bytes(PSubscribe) \o Bytes(PPublish)
      <3>1. /\ buf \in Seq(OutByte) /\ c2b \in Seq(OutByte) /\ c2b \o <<>> = c2b
            /\ Bytes(PPublish) \in Seq(OutByte)
        BY LineType, DemoPackets, Joined DEF DemoInv
      <3>2. buf \o c2b = Bytes(PSubscribe)
        BY <2>3, <3>1, Zenon DEF Line
      <3>3. PICK p : p = Bytes(PPublish)
        OBVIOUS
      <3>4. (buf \o c2b) \o p = buf \o (c2b \o p)
        BY <3>1, <3>3, Bracket, Zenon
      <3>5. Line' = buf \o (c2b \o p)
        BY <1>1, <2>6, <3>3, Zenon DEF Line
      <3>. QED  BY <3>2, <3>3, <3>4, <3>5, Zenon
    <2>8. heard = "CONNECT" /\ heard' = "CONNECT"
      BY <2>3, <2>6, Heard, HeardStays DEF DemoInv
    <2>9. Outbound'
      BY <1>1, <1>3, <2>3, <2>5, <2>7, SamePackets DEF Outbound
    <2>10. DemoType'
      BY <1>1, <1>3, <2>1, <2>5, <2>6 DEF DemoInv, DemoType, Points
    <2>11. Control' /\ Hears'
      BY <1>1, <2>2, <2>3, <2>5, <2>6, <2>8 DEF DemoInv, Control, Hears, Looping
    <2>12. Replies'
      BY <1>1, <2>2, <2>5, SamePackets DEF DemoInv, Replies
    <2>. QED  BY <2>1, <2>9, <2>10, <2>11, <2>12 DEF DemoInv
  <1>. QED  BY <1>2, <1>3 DEF publish, PPublish

\* The end of main().
LEMMA DisconnectKeeps ==
    ASSUME DemoInv, disconnect
    PROVE  DemoInv'
  <1>1. /\ at = "disconnect" /\ at' = "last_poll"
        /\ UNCHANGED <<subscribed, published, c2b, buf, broker_subscribed, seen, size>>
        /\ aemlib_disconnect \/ UNCHANGED vars
    BY DEF disconnect, broker_vars
  <1>2. TypeOK' /\ TransportInv' /\ ReadInv' /\ StreamInv'
    BY <1>1, ClientKeeps DEF Next, User
  <1>3. /\ UNCHANGED <<connect_sent, tx_pending, rx, age, pc, outer, frame, heard>>
        /\ UNCHANGED <<link, inbox, sent, done, damage>>
        /\ state' = state \/ (state = "CONNECTED" /\ state' = "DISCONNECTING")
    BY <1>1 DEF aemlib_disconnect, vars, client, call, broker, net, hist
  <1>4. Line' = Line
    BY <1>1, <1>3, Zenon DEF Line
  <1>5. Outbound'
    BY <1>1, <1>3, <1>4, SamePackets DEF DemoInv, Outbound
  <1>6. DemoType'
    BY <1>1, <1>2, <1>3 DEF DemoInv, DemoType, Points
  <1>7. Control' /\ Hears'
    BY <1>1, <1>3, SamePackets DEF DemoInv, Control, Hears, Looping
  <1>8. Replies'
    BY <1>1, <1>3, SamePackets DEF DemoInv, Replies, Looping, Live, Starting
  <1>. QED  BY <1>2, <1>5, <1>6, <1>7, <1>8 DEF DemoInv

\* The polls.
LEMMA PollKeeps ==
    ASSUME DemoInv, poll \/ last_poll
    PROVE  DemoInv'
  <1>1. DemoType' /\ Control' /\ Outbound' /\ Replies' /\ Hears'
    BY PollType, PollControl, PollOutbound, PollReplies, PollHears DEF DemoInv
  <1>2. TransportInv' /\ ReadInv' /\ StreamInv'
    BY PollAt, ClientKeeps DEF PollStep, Next
  <1>. QED  BY <1>1, <1>2 DEF DemoInv

\* Before main() has done anything.
LEMMA DemoStart == DemoInit => DemoInv
  <1>. SUFFICES ASSUME DemoInit PROVE DemoInv
    OBVIOUS
  <1>1. Init /\ TypeOK /\ StreamInv
    BY TypeInit, StreamInit DEF DemoInit
  <1>2. TransportInv /\ ReadInv
    BY <1>1 DEF Init, TransportInv, TransportHeld, ReadInv, NoUnderflow
  <1>3. /\ at = "start" /\ subscribed = FALSE /\ published = FALSE /\ c2b = <<>> /\ buf = <<>>
        /\ broker_subscribed = FALSE /\ seen = <<>>
        /\ size \in [c2b : C2bSizes, b2c : B2cSizes, buf : BufSizes]
    BY DEF DemoInit
  <1>4. DemoType
    <2>1. size.c2b \in Nat /\ size.b2c \in Nat /\ size.buf \in Nat
      BY <1>3, DemoAssumption
    <2>2. c2b \in Seq(OutByte) /\ buf \in Seq(OutByte) /\ Len(c2b) = 0 /\ Len(buf) = 0
      BY <1>3, EmptySeq
    <2>3. Len(inbox) = 0
      BY <1>1 DEF Init
    <2>4. Len(c2b) <= size.c2b /\ Len(buf) <= size.buf /\ Len(inbox) <= size.b2c
      BY <2>1, <2>2, <2>3
    <2>5. at \in Points /\ subscribed \in BOOLEAN /\ published \in BOOLEAN
          /\ broker_subscribed \in BOOLEAN
      BY <1>3 DEF Points
    <2>. QED  BY <1>1, <1>3, <2>2, <2>4, <2>5 DEF DemoType
  <1>5. Line = <<>>
    <2>1. <<>> \in Seq(OutByte)
      BY EmptySeq
    <2>. QED  BY <1>1, <1>3, <2>1, Joined DEF Line, Init
  <1>6. Outbound
    BY <1>1, <1>3, <1>5 DEF Outbound, Init
  <1>7. Control /\ Hears
    BY <1>1, <1>3 DEF Control, Hears, Init, Looping
  <1>8. Replies
    BY <1>1, <1>3 DEF Replies, Init, Looping, Live, Starting
  <1>. QED  BY <1>1, <1>2, <1>4, <1>6, <1>7, <1>8 DEF DemoInv

\* The end of main() and what the demo does not do.
LEMMA DemoRests ==
    ASSUME DemoInv, UNCHANGED demo
    PROVE  DemoInv'
  <1>1. /\ UNCHANGED vars /\ UNCHANGED <<client, call, broker, net, hist>>
        /\ UNCHANGED <<at, subscribed, published, c2b, buf, broker_subscribed, seen, size>>
    BY DEF demo, vars, main_vars, broker_vars
  <1>2. TypeOK' /\ TransportInv' /\ ReadInv' /\ StreamInv'
    BY <1>1, ClientKeeps
  <1>3. Line' = Line
    BY <1>1, Zenon DEF Line, client
  <1>4. DemoType' /\ Outbound'
    BY <1>1, <1>2, <1>3, SamePackets DEF DemoInv, DemoType, Outbound, client, net
  <1>5. Control' /\ Replies' /\ Hears'
    BY <1>1, SamePackets DEF DemoInv, Control, Replies, Hears, client, call, broker, net, hist
  <1>. QED  BY <1>2, <1>4, <1>5 DEF DemoInv

\* Every step of the demo keeps its invariant.
LEMMA DemoStep == DemoInv /\ [DemoNext]_demo => DemoInv'
  BY StartKeeps, PollKeeps, TickKeeps, ProcessKeeps, TickReturnsKeeps, SubscribeKeeps,
     PublishKeeps, DisconnectKeeps, DemoRests DEF DemoNext

\* Nothing is lost, repeated or reordered on the way to the broker, for every
\* size of the channel and the buffers: the CONNECT that main()'s polls send,
\* its SUBSCRIBE and its PUBLISH are, byte for byte, what the broker has
\* processed, what it has buffered, what is in the channel and what the client
\* has staged (broker_tick, client_send, client_flush_pending).
THEOREM NothingDroppedCorrect == DemoSpec => []NothingDropped
  <1>1. DemoInit => DemoInv
    BY DemoStart
  <1>2. DemoInv /\ [DemoNext]_demo => DemoInv'
    BY DemoStep
  <1>3. DemoInv => NothingDropped
    BY OutboundDropsNothing DEF DemoInv
  <1>. QED  BY <1>1, <1>2, <1>3, PTL DEF DemoSpec

-----------------------------------------------------------------------------
(* The way back, over adequate channels *)

\* What the broker's answers look like to the client.
LEMMA AnswerPackets ==
    /\ InPacket("CONNACK_OK") = [type |-> "CONNACK", len |-> 4, hdr |-> 2, body |-> "OK"]
    /\ InPacket("SUBACK") = [type |-> "OTHER", len |-> 5, hdr |-> 2, body |-> "OK"]
    /\ InPacket("PUBLISH") = [type |-> "PUBLISH", len |-> 4, hdr |-> 2, body |-> "OK"]
  BY DEF InPacket

\* At most one answer to each of three packets, in their order.
LEMMA AnswersSent ==
    ASSUME DemoInv
    PROVE  /\ Len(sent) \in 0..3 /\ Len(sent) = Len(seen) /\ done \in Nat
           /\ sent \in Seq(InKinds) /\ rx \in Seq(InByte) /\ inbox \in Seq(InByte)
           /\ Len(sent) >= 1 => sent[1] = "CONNACK_OK"
           /\ Len(sent) >= 2 => sent[2] = "SUBACK"
           /\ Len(sent) >= 3 => sent[3] = "PUBLISH"
           /\ Undamaged
  <1>1. Len(seen) \in 0..3
    BY DEF DemoInv, Outbound
  <1>2. Len(sent) = Len(seen) /\ \A j \in 1..Len(sent) : sent[j] = Answers3[j]
    BY DEF DemoInv, Replies
  <1>3. Answers3[1] = "CONNACK_OK" /\ Answers3[2] = "SUBACK" /\ Answers3[3] = "PUBLISH"
    BY DEF Answers3
  <1>4. Undamaged
    BY DEF DemoInv, Control, Undamaged
  <1>5. /\ done \in Nat /\ sent \in Seq(InKinds) /\ rx \in Seq(InByte) /\ inbox \in Seq(InByte)
    BY DEF DemoInv, DemoType, TypeOK
  <1>. QED  BY <1>1, <1>2, <1>3, <1>4, <1>5

\* A client that has consumed the CONNACK has at most the SUBACK before it: the
\* packets it has consumed and the one under way are all the broker has sent.
LEMMA LittleInFlight ==
    ASSUME DemoInv, InboundInv, done >= 1, Len(sent) <= 2
    PROVE  /\ Len(inbox) \in Nat /\ Len(inbox) <= 5
           /\ Len(sent) = 1 => Len(inbox) = 0
  <1>1. /\ Len(sent) \in 0..2 /\ done \in Nat /\ done <= Len(sent)
        /\ Contiguous(Stream, sent) /\ StartsBehind(Stream, done)
    <2>1. Undamaged /\ Len(sent) \in 0..3 /\ done \in Nat
      BY AnswersSent
    <2>2. done <= Len(sent) /\ Contiguous(Stream, sent) /\ StartsBehind(Stream, done)
      BY <2>1 DEF InboundInv
    <2>. QED  BY <2>1, <2>2
  <1>2. Stream \in Seq(InByte) /\ Len(Stream) = Len(rx) + Len(inbox)
        /\ Len(rx) \in Nat /\ Len(inbox) \in Nat /\ Len(Stream) \in Nat
    BY AnswersSent, ConcatProperties, LenProperties DEF Stream
  <1>3. CASE Stream = <<>>
    BY <1>2, <1>3, EmptySeq
  <1>4. CASE Stream # <<>>
    <2>. DEFINE n == InPacket(Stream[1].k).len
    <2>0. /\ Stream \in Seq(InByte) /\ done \in Nat
          /\ Contiguous(Stream, sent) /\ StartsBehind(Stream, done)
      BY <1>1, <1>2
    <2>1. Stream[1].k = sent[done + 1] /\ done + 1 \in 1..Len(sent)
      BY <1>4, <2>0, FirstPacket
    <2>2. done = 1 /\ Len(sent) = 2
      BY <1>1, <2>1
    <2>3. n = 5
      BY <2>1, <2>2, AnswersSent, AnswerPackets
    <2>4. Len(Stream) <= 5
      <3>. SUFFICES ASSUME 5 < Len(Stream) PROVE FALSE
        BY <1>2
      <3>1. Stream[6].n = 3
        <4>1. /\ 1 \in 1..Len(Stream) /\ 5 \in 1..Len(Stream)
          BY <1>2
        <4>2. \A m \in 1..Len(Stream) : m <= n =>
                 Stream[m] = [k |-> Stream[1].k, n |-> done + 1, i |-> m]
          BY <1>4, <2>0, FirstPacket
        <4>3. Stream[5] = [k |-> Stream[1].k, n |-> done + 1, i |-> 5]
          BY <2>3, <4>1, <4>2
        <4>. HIDE DEF n
        <4>4. Stream[5].i = InPacket(Stream[5].k).len => Stream[6].n = Stream[5].n + 1
          BY <2>0, <4>1, <1>2 DEF Contiguous
        <4>. QED  BY <2>2, <2>3, <4>3, <4>4 DEF n
      <3>2. 6 \in 1..Len(Stream)
        BY <1>2
      <3>3. Stream[6].n \in 1..Len(sent)
        BY <1>1, <3>2 DEF Contiguous
      <3>. QED  BY <2>2, <3>1, <3>3
    <2>. QED  BY <1>2, <2>2, <2>4
  <1>. QED  BY <1>3, <1>4

\* What the client finds at the front of rx_buffer is one of the answers, and
\* fits the buffer.
LEMMA DemoHeader ==
    ASSUME DemoInv, InboundInv, Adequate, NEW h \in decode_fixed_header(rx)
    PROVE  \/ h.st = "BUFFER_TOO_SMALL" /\ Len(rx) < 2
           \/ /\ h.st = "OK" /\ h.body = "OK" /\ h.len <= RxSize
              /\ done = 0 => h.type = "CONNACK"
  <1>1. Contiguous(Stream, sent) /\ StartsBehind(Stream, done)
    BY AnswersSent DEF InboundInv
  <1>2. Contiguous(rx, sent) /\ StartsBehind(rx, done)
    BY <1>1, AnswersSent, FrontContiguous DEF Stream
  <1>3. CASE Len(rx) < 2
    BY <1>3 DEF decode_fixed_header, TooSmall
  <1>4. CASE ~(Len(rx) < 2)
    <2>1. Len(rx) \in Nat /\ 1 \in 1..Len(rx) /\ rx # <<>>
      BY <1>4, AnswersSent, LenProperties, EmptySeq
    <2>2. rx[1].i = 1 /\ rx[1].n = done + 1 /\ rx[1].n \in 1..Len(sent)
          /\ rx[1].k = sent[done + 1]
      BY <1>2, <2>1 DEF StartsBehind, Contiguous
    <2>3. /\ rx[1].k \in {"CONNACK_OK", "SUBACK", "PUBLISH"}
          /\ done = 0 => rx[1].k = "CONNACK_OK"
      <3>0. done + 1 \in 1..Len(sent)
        BY <2>2, Zenon
      <3>1. done \in Nat /\ Len(sent) \in 0..3 /\ done + 1 \in 1..Len(sent)
        BY <3>0, AnswersSent, Zenon
      <3>2. done = 0 \/ done = 1 \/ done = 2
        <4>1. PICK m \in 0..3 : m = Len(sent)
          BY <3>1, Zenon
        <4>2. done \in Nat /\ done + 1 \in 1..m
          BY <3>1, <4>1, Zenon
        <4>. QED  BY <4>2
      <3>3. CASE done = 0
        BY <2>2, <3>1, <3>3, AnswersSent
      <3>4. CASE done = 1
        BY <2>2, <3>1, <3>4, AnswersSent
      <3>5. CASE done = 2
        BY <2>2, <3>1, <3>5, AnswersSent
      <3>. QED  BY <3>2, <3>3, <3>4, <3>5
    <2>. DEFINE p == InPacket(rx[1].k)
    <2>4. /\ p.type # "INVALID" /\ p.hdr = 2 /\ p.len \in {4, 5} /\ p.body = "OK"
          /\ done = 0 => p.type = "CONNACK"
      BY <2>3, AnswerPackets
    <2>5. 5 <= RxSize /\ RxSize \in Nat
      BY AnswerPackets, SizesAssumption DEF Adequate
    <2>. HIDE DEF p
    <2>6. h = Header(p)
      BY <1>4, <2>1, <2>2, <2>4 DEF decode_fixed_header, p
    <2>. QED  BY <2>4, <2>5, <2>6 DEF Header
  <1>. QED  BY <1>3, <1>4

\* Over adequate channels the answer to a packet is one AemlibClient's broker may
\* give, and arrives whole.
LEMMA AnswerIsAllowed ==
    ASSUME DemoInv, InboundInv, Adequate, broker_process_packet
    PROVE  \E kind \in InKinds : BrokerSends(kind)
  <1>. DEFINE kind == Answers3[Len(seen) + 1]
              k == Len(seen)
              b == InBytes(kind, Len(sent) + 1)
              n == Fewer(Len(b), size.b2c - Len(inbox))
  <1>1. /\ at = "broker_loop" /\ Complete
        /\ UNCHANGED <<client, call, broker, link, hist>>
    BY DEF broker_process_packet
  <1>2. /\ k \in 0..2 /\ Len(sent) = k /\ kind \in InKinds
        /\ Answer(buf[1].t) = <<kind>>
    BY <1>1, BrokerAnswers
  <1>10. (k = 0 /\ kind = "CONNACK_OK") \/ (k = 1 /\ kind = "SUBACK") \/ (k = 2 /\ kind = "PUBLISH")
    <2>1. Answers3[1] = "CONNACK_OK" /\ Answers3[2] = "SUBACK" /\ Answers3[3] = "PUBLISH"
      BY DEF Answers3
    <2>. QED  BY <1>2, <2>1
  <1>3. /\ sent' = sent \o <<kind>> /\ inbox' = inbox \o Taken(b, n)
    <2>1. <<kind>> # <<>> /\ <<kind>>[1] = kind
      OBVIOUS
    <2>. QED  BY <1>2, <2>1 DEF broker_process_packet, Answered
  <1>4. connect_sent /\ link = "up"
    <2>1. connect_sent
      BY <1>1, BrokerGets DEF DemoInv
    <2>2. state \in {"CONNECT_SENT", "CONNECTED"}
      BY <1>1, <2>1 DEF DemoInv, Control, Looping
    <2>. QED  BY <2>1, <2>2 DEF DemoInv, Control, TransportInv, TransportHeld
  <1>5. Len(sent) < MaxIn
    BY <1>2, DemoAssumption, SizesAssumption
  <1>6. kind \in ConnackKinds => heard = "CONNECT"
    <2>1. kind \in ConnackKinds => k = 0
      BY <1>10 DEF ConnackKinds
    <2>2. ASSUME k = 0 PROVE tx_pending = <<>>
      <3>1. Line = Bytes(PConnect) \o <<>> /\ <<>> \in Seq(OutByte)
        BY <1>1, <2>2, BrokerGets, EmptySeq DEF DemoInv
      <3>2. PICK x \in Seq(OutByte) : x \o (c2b \o tx_pending) = <<>>
        BY <1>1, <3>1, ProcessesFirst DEF DemoInv
      <3>3. c2b \o tx_pending = <<>>
        BY <3>2, LineType, Joined DEF DemoInv
      <3>. QED  BY <3>3, LineType, Joined DEF DemoInv
    <2>. QED  BY <1>4, <2>1, <2>2, Heard DEF DemoInv
  <1>7. b \in Seq(InByte) /\ Len(b) = InPacket(kind).len
    BY <1>2, InBytesAre
  <1>8. Len(inbox) \in Nat /\ Len(b) + Len(inbox) <= size.b2c
    <2>1. /\ size.b2c >= 5 + PublishLen /\ PublishLen = 4 /\ size.b2c \in Nat
      BY AnswerPackets, DemoAssumption, DemoSizes DEF Adequate, DemoInv
    <2>2. CASE k = 0
      <3>1. seen = <<>>
        BY <1>1, <2>2, BrokerGets DEF DemoInv
      <3>2. inbox = <<>>
        BY <3>1 DEF DemoInv, Replies
      <3>3. kind = "CONNACK_OK"
        BY <1>10, <2>2
      <3>. QED  BY <1>7, <2>1, <3>2, <3>3, AnswerPackets
    <2>3. CASE k # 0
      <3>1. subscribed
        BY <1>1, <2>3, BrokerGets DEF DemoInv
      <3>2. done >= 1
        BY <1>1, <3>1 DEF DemoInv, Replies, Looping, Live
      <3>3. /\ Len(inbox) \in Nat /\ Len(inbox) <= 5 /\ (k = 1 => Len(inbox) = 0)
        <4>1. Len(sent) = k /\ k \in 0..2
          BY <1>2, Zenon
        <4>2. Len(sent) <= 2
          BY <4>1
        <4>. QED  BY <3>2, <4>1, <4>2, LittleInFlight
      <3>4. (k = 1 /\ kind = "SUBACK") \/ (k = 2 /\ kind = "PUBLISH")
        BY <1>10, <2>3
      <3>. QED  BY <1>7, <2>1, <3>3, <3>4, AnswerPackets
    <2>. QED  BY <2>2, <2>3
  <1>. HIDE DEF b
  <1>9. inbox' = inbox \o b
    <2>1. Len(b) \in Nat /\ size.b2c \in Nat
      BY <1>7, LenProperties, DemoSizes DEF DemoInv
    <2>2. n = Len(b)
      BY <1>8, <2>1 DEF Fewer
    <2>3. Taken(b, Len(b)) = b
      <3>1. SubSeq(b, 1, Len(b)) = b
        BY <1>7
      <3>. QED  BY <3>1 DEF Taken
    <2>. QED  BY <1>3, <2>2, <2>3
  <1>11. sent' = Append(sent, kind)
    BY <1>2, <1>3, AppendIsConcat, AnswersSent
  <1>. QED  BY <1>1, <1>2, <1>4, <1>5, <1>6, <1>9, <1>11 DEF BrokerSends, b

\* No step of a poll ends in an error, over adequate channels.
LEMMA PollSucceeds ==
    ASSUME DemoInv, InboundInv, Adequate, poll_status = "OK", poll \/ last_poll
    PROVE  poll_status' = "OK"
  <1>1. PollStep /\ at \in {"poll", "last_poll"} /\ Poll
    BY PollAt DEF PollStep
  <1>2. /\ DemoType /\ TransportInv /\ ReadInv /\ Control /\ Outbound /\ TypeOK
        /\ outer = <<>> /\ age = 0
    BY DEF DemoInv, DemoType, Control
  <1>3. CASE pc = "idle"
    <2>1. tx_pending # <<>> => connect_sent
      BY <1>2, LineType DEF Outbound
    <2>2. connect_sent => state \in {"CONNECT_SENT", "CONNECTED", "DISCONNECTING"}
      BY <1>1, <1>2 DEF Control, Looping, TypeOK, States
    <2>3. tx_pending # <<>> => link = "up"
      BY <1>2, <2>1, <2>2 DEF Control, TransportInv, TransportHeld
    <2>. QED  BY <1>1, <1>2, <1>3, <2>3, PollFlushes
  <1>4. CASE pc = "send_connect"
    BY <1>1, <1>2, <1>4, PollSendsConnect
  <1>5. CASE pc \notin {"idle", "send_connect"}
    <2>1. ASSUME NEW st, Return(st) PROVE pc' = "idle" /\ poll_status' = st
      BY <1>2, <2>1 DEF Return
    <2>2. ASSUME NEW st, HangUp(st) PROVE pc' = "idle" /\ poll_status' = st
      BY <2>1, <2>2 DEF HangUp
    <2>3. ASSUME NEW x, Goto(x) PROVE poll_status' = "OK"
      BY <2>3 DEF Goto
    <2>4. ConnectIfUnsent => poll_status' = "OK"
      BY <2>1, <2>3 DEF ConnectIfUnsent
    <2>5. ~ConnackExpired /\ ~KeepaliveDue
      BY <1>2, DemoAssumption, TimesAssumption DEF ConnackExpired, KeepaliveDue
    <2>6. CASE handle_state_disconnected
      BY <2>1, <2>6 DEF handle_state_disconnected
    <2>7. CASE handle_state_connecting
      <3>1. link' = "up"
        BY <1>1, <2>7 DEF handle_state_connecting, PollStep
      <3>2. PICK r \in transport_connect :
               /\ link' = r[1]
               /\ \/ r[2] = "OK" /\ ConnectIfUnsent
                  \/ r[2] = "WOULD_BLOCK"
                  \/ r[2] = "IO"
        BY <2>7 DEF handle_state_connecting
      <3>3. r[2] = "OK"
        BY <1>2, <3>1, <3>2, DemoAssumption DEF transport_connect, Control
      <3>. QED  BY <2>4, <3>2, <3>3
    <2>8. CASE connect_sent_read
      <3>1. pc' \in {"connack", "parse"}
        BY <1>1, <2>8 DEF connect_sent_read, PollStep, vt_read
      <3>2. HangUp("IO") \/ Goto("connack")
        BY <2>8 DEF connect_sent_read
      <3>. QED  BY <2>2, <2>3, <3>1, <3>2
    <2>9. CASE connack_wait
      BY <2>4, <2>5, <2>9 DEF connack_wait
    <2>10. CASE connack_error
      <3>1. state = "CONNECT_SENT" /\ done = 0
        BY <1>2, <2>10 DEF connack_error, TransportInv, DemoInv, Replies, Starting
      <3>2. PICK h \in decode_fixed_header(rx) :
               \/ h.st = "PROTOCOL"
               \/ h.st = "OK" /\ h.type # "CONNACK"
               \/ h.st = "OK" /\ h.len > RxSize
        BY <2>10 DEF connack_error
      <3>3. h.len \in Nat /\ RxSize \in Nat
        BY <1>2, HeaderType, SizesAssumption
      <3>. QED  BY <3>1, <3>2, <3>3, DemoHeader
    <2>11. CASE connack_received
      <3>1. PICK h \in decode_fixed_header(rx) :
               /\ h.st = "OK"
               /\ \/ Goto("read")
                  \/ ~ConnackAccepted(h)
        BY <2>11 DEF connack_received
      <3>2. ConnackAccepted(h)
        BY <3>1, DemoHeader DEF ConnackAccepted
      <3>. QED  BY <2>3, <3>1, <3>2
    <2>12. CASE handle_state_mqtt_connected \/ parse_wait \/ on_message_returns
      BY <2>3, <2>12 DEF handle_state_mqtt_connected, parse_wait, on_message_returns
    <2>13. CASE handle_state_mqtt_disconnecting
      BY <2>2, <2>13 DEF handle_state_mqtt_disconnecting
    <2>14. CASE client_read
      <3>1. pc' \in {"connack", "parse"}
        BY <1>1, <2>14 DEF client_read, PollStep, vt_read
      <3>2. Return("IO") \/ Goto("parse")
        BY <2>14 DEF client_read
      <3>. QED  BY <2>1, <2>3, <3>1, <3>2
    <2>15. CASE parse_error
      <3>1. PICK h \in decode_fixed_header(rx) :
               \/ h.st = "BUFFER_TOO_SMALL" /\ Len(rx) = RxSize
               \/ h.st = "PROTOCOL"
               \/ h.st = "OK" /\ h.len > RxSize
               \/ h.st = "OK" /\ h.body # "OK"
        BY <2>15 DEF parse_error
      <3>2. h.len \in Nat /\ RxSize \in Nat /\ RxSize >= 5
        BY <1>2, HeaderType, SizesAssumption, AnswerPackets DEF Adequate
      <3>. QED  BY <3>1, <3>2, DemoHeader
    <2>16. CASE client_dispatch_packet \/ consume_packet
      BY <2>16 DEF client_dispatch_packet, consume_packet
    <2>17. CASE client_keepalive
      BY <2>1, <2>5, <2>17 DEF client_keepalive
    <2>. QED  BY <1>1, <1>2, <1>5, <2>6, <2>7, <2>8, <2>9, <2>10, <2>11, <2>12, <2>13, <2>14,
                 <2>15, <2>16, <2>17
         DEF Poll, client_flush_pending, client_send_connect, Control
  <1>. QED  BY <1>3, <1>4, <1>5

\* The sizes do not change.
LEMMA SameSizes ==
    ASSUME [DemoNext]_demo
    PROVE  size' = size /\ (Adequate' <=> Adequate)
  <1>1. size' = size
    BY DEF DemoNext, start, poll, broker_tick, broker_process_packet, broker_tick_returns,
       subscribe, publish, disconnect, last_poll, demo
  <1>. QED  BY <1>1 DEF Adequate, InPacket

\* Over adequate channels every step of the demo is a step of AemlibClient.
LEMMA DemoStepIsClients ==
    ASSUME DemoInv, InboundInv, Adequate, [DemoNext]_demo
    PROVE  [Next]_vars
  <1>1. CASE start \/ subscribe \/ publish \/ disconnect
    BY <1>1 DEF start, subscribe, publish, disconnect, Next, User
  <1>2. CASE poll \/ last_poll
    BY <1>2, PollAt DEF PollStep, Next
  <1>3. CASE broker_tick \/ broker_tick_returns
    BY <1>3 DEF broker_tick, broker_tick_returns
  <1>4. CASE broker_process_packet
    BY <1>4, AnswerIsAllowed DEF Next, Network
  <1>5. CASE UNCHANGED demo
    BY <1>5 DEF demo
  <1>. QED  BY <1>1, <1>2, <1>3, <1>4, <1>5 DEF DemoNext

\* What main() and the broker do between polls leaves the last poll's result.
LEMMA StatusKept ==
    ASSUME [DemoNext]_demo, ~poll, ~last_poll
    PROVE  poll_status' = poll_status
  <1>1. CASE start \/ subscribe \/ publish \/ disconnect
    BY <1>1 DEF start, subscribe, publish, disconnect, aemlib_connect, aemlib_subscribe,
       aemlib_publish, aemlib_disconnect, vars, call
  <1>2. CASE broker_tick \/ broker_tick_returns \/ broker_process_packet \/ UNCHANGED demo
    BY <1>2 DEF broker_tick, broker_tick_returns, broker_process_packet, demo, vars, call
  <1>. QED  BY <1>1, <1>2 DEF DemoNext

\* Over adequate channels the way back stays a stream of whole packets, and the
\* polls go well.
LEMMA ServedStep == DemoInv /\ Served /\ [DemoNext]_demo => Served'
  <1>. SUFFICES ASSUME DemoInv, Served, [DemoNext]_demo, Adequate'
                PROVE  InboundInv' /\ poll_status' = "OK"
    BY DEF Served
  <1>1. Adequate
    BY SameSizes
  <1>2. InboundInv /\ poll_status = "OK"
    BY <1>1 DEF Served
  <1>3. InboundInv'
    BY <1>1, <1>2, DemoStepIsClients, InboundStep DEF DemoInv, DemoType
  <1>4. poll_status' = "OK"
    BY <1>1, <1>2, PollSucceeds, StatusKept
  <1>. QED  BY <1>3, <1>4

\* The demo starts well.
LEMMA ServedStart == DemoInit => Served
  BY InboundInit DEF DemoInit, Init, Served

\* The demo's broker, which answers without looking at what its channel took, is
\* one AemlibClient allows for as soon as the sizes are adequate: every step of
\* the demo is a step of the client's specification (broker_process_packet).
THEOREM RunsTheClientCorrect == DemoSpec => RunsTheClient
  <1>1. DemoInit => DemoInv /\ Served
    BY DemoStart, ServedStart
  <1>2. DemoInv /\ Served /\ [DemoNext]_demo => (DemoInv /\ Served)'
    BY DemoStep, ServedStep
  <1>3. DemoInv /\ Served /\ [DemoNext]_demo => [Adequate => Next]_vars
    BY DemoStepIsClients DEF Served
  <1>. QED  BY <1>1, <1>2, <1>3, PTL DEF DemoSpec, RunsTheClient

\* No poll of the demo fails over adequate channels: every answer arrives whole,
\* in order and within rx_buffer, and neither the CONNACK wait nor the keepalive
\* ends a poll (main).
THEOREM NoPollFailsCorrect == DemoSpec => []NoPollFails
  <1>1. DemoInit => DemoInv /\ Served
    BY DemoStart, ServedStart
  <1>2. DemoInv /\ Served /\ [DemoNext]_demo => (DemoInv /\ Served)'
    BY DemoStep, ServedStep
  <1>3. Served => NoPollFails
    BY DEF Served, NoPollFails
  <1>. QED  BY <1>1, <1>2, <1>3, PTL DEF DemoSpec

\* Over adequate channels the demo implements AemlibClient, and has all that is
\* proved of it: the inbound stream reaches on_message in order and without a
\* gap, and the session it holds is the one MqttSession promises.
THEOREM DemoImplementsClient ==
    DemoSpec => (Adequate => Spec /\ []InboundInOrder /\ ImplementsSession)
  <1>1. DemoSpec => RunsTheClient
    BY RunsTheClientCorrect
  <1>2. DemoInit => Init
    BY DEF DemoInit
  <1>3. Adequate /\ [DemoNext]_demo => Adequate'
    BY SameSizes
  <1>4. Adequate /\ [Adequate => Next]_vars => [Next]_vars
    OBVIOUS
  <1>5. DemoSpec => (Adequate => Spec)
    BY <1>1, <1>2, <1>3, <1>4, PTL DEF DemoSpec, RunsTheClient, Spec
  <1>. QED  BY <1>5, InboundCorrect, ImplementsSessionCorrect, PTL

=============================================================================
