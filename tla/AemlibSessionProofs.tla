------------------------ MODULE AemlibSessionProofs ------------------------
(***************************************************************************)
(* Proofs about the session AemlibClient holds, for every value of its     *)
(* constants.  The inbound stream is cut into the broker's packets and     *)
(* handed over in order, and a poll leaves no complete packet behind.      *)
(* From that, AemlibClient keeps the promises of MqttSession: CONNECT goes *)
(* out once, a session is established by the answer to it only, and what   *)
(* on_message gets are the broker's PUBLISHes with nothing refused in      *)
(* between.                                                                *)
(***************************************************************************)
EXTENDS AemlibClientProofs

-----------------------------------------------------------------------------
(* The inbound stream *)

\* the bytes the client has buffered, and those on their way
Stream == rx \o inbox

Undamaged == damage \cap RxDamage = {}

\* Every byte of s belongs to a packet of q.  The rest of that packet comes
\* right behind it, and then the next packet: with this distance form no
\* induction along s is needed to find where a packet ends.
Contiguous(s, q) ==
    \A j \in 1..Len(s) :
        /\ s[j].n \in 1..Len(q)
        /\ s[j].k = q[s[j].n]
        /\ s[j].i \in 1..InPacket(s[j].k).len
        /\ \A m \in j..Len(s) :
              m - j <= InPacket(s[j].k).len - s[j].i
                  => s[m] = [k |-> s[j].k, n |-> s[j].n, i |-> s[j].i + (m - j)]
        /\ j < Len(s) /\ s[j].i = InPacket(s[j].k).len
              => s[j + 1].n = s[j].n + 1 /\ s[j + 1].i = 1

\* s starts with the packet behind the first d ones
StartsBehind(s, d) == s # <<>> => s[1].n = d + 1 /\ s[1].i = 1

\* s goes on to the end of the last packet of q
EndsWith(s, q, d) ==
    IF s = <<>> THEN d = Len(q)
    ELSE s[Len(s)].n = Len(q) /\ s[Len(s)].i = InPacket(s[Len(s)].k).len

\* InboundInOrder is not inductive: it does not say that a connection starts
\* with nothing in flight (or with what the transport kept of the last one,
\* which is damage), nor that what is dispatched is the first packet of
\* rx_buffer, whole.
InboundInv ==
    /\ link = "down" => inbox = <<>> \/ KeepsBytes
    /\ Undamaged =>
          /\ Contiguous(Stream, sent)
          /\ StartsBehind(Stream, done)
          /\ done <= Len(sent)
          /\ link \in {"up", "opening"} => EndsWith(Stream, sent, done)
          /\ state = "CONNECTING" /\ link = "down" => Stream = <<>> /\ done = Len(sent)
          /\ pc \in {"callback", "consume"} => rx # <<>> /\ packet_len = InPacket(rx[1].k).len

DeliveryInv == Undamaged /\ OnMessage => DeliveredInOrder

\* no complete packet is left in rx_buffer, and there is room for the rest
Drained == \A h \in decode_fixed_header(rx) : MustWait(h)

\* DrainedAfterPoll at the two points of a poll between which it is decided,
\* and the other way to return OK from an MQTT state, sending CONNECT.
DrainInv ==
    /\ pc = "send_connect" => state = "CONNECT_SENT"
    /\ Undamaged /\ pc = "keepalive" => Drained
    /\ Undamaged /\ pc = "idle" /\ poll_status = "OK" /\ state = "CONNECTED" => Drained

-----------------------------------------------------------------------------
(* Streams: what cutting and appending do to them *)

\* The bytes of a sequence are inbound bytes.
LEMMA ByteAt ==
    ASSUME NEW s \in Seq(InByte), NEW j \in 1..Len(s)
    PROVE  /\ s[j] = [k |-> s[j].k, n |-> s[j].n, i |-> s[j].i]
           /\ s[j].k \in InKinds /\ s[j].n \in Nat /\ s[j].i \in Nat
           /\ InPacket(s[j].k).len \in Nat \ {0, 1}
<1>1. s[j] \in InByte
  BY ElementOfSeq
<1>2. s[j].k \in InKinds /\ s[j].n \in Nat /\ s[j].i \in Nat
  BY <1>1 DEF InByte
<1>3. s[j] = [k |-> s[j].k, n |-> s[j].n, i |-> s[j].i]
  BY <1>1 DEF InByte
<1>4. InPacket(s[j].k).len \in Nat \ {0, 1}
  BY <1>2, InPacketType, UserAssumption
<1>. QED BY <1>2, <1>3, <1>4

\* The front of a stream is a stream.
LEMMA FrontContiguous ==
    ASSUME NEW a \in Seq(InByte), NEW b \in Seq(InByte), NEW q, NEW d,
           Contiguous(a \o b, q), StartsBehind(a \o b, d)
    PROVE  Contiguous(a, q) /\ StartsBehind(a, d)
<1>. DEFINE s == a \o b
<1>1. /\ s \in Seq(InByte) /\ Len(s) = Len(a) + Len(b)
      /\ Len(a) \in Nat /\ Len(b) \in Nat
      /\ \A j \in 1..Len(a) : s[j] = a[j]
  BY ConcatProperties, LenProperties
<1>2. Contiguous(s, q) /\ StartsBehind(s, d)
  OBVIOUS
<1>. HIDE DEF s
<1>3. ASSUME NEW j \in 1..Len(a)
      PROVE  /\ a[j].n \in 1..Len(q)
             /\ a[j].k = q[a[j].n]
             /\ a[j].i \in 1..InPacket(a[j].k).len
             /\ \A m \in j..Len(a) :
                   m - j <= InPacket(a[j].k).len - a[j].i
                       => a[m] = [k |-> a[j].k, n |-> a[j].n, i |-> a[j].i + (m - j)]
             /\ j < Len(a) /\ a[j].i = InPacket(a[j].k).len
                   => a[j + 1].n = a[j].n + 1 /\ a[j + 1].i = 1
  <2>1. j \in 1..Len(s) /\ s[j] = a[j]
    BY <1>1
  <2>2. \A m \in j..Len(a) : m \in j..Len(s) /\ s[m] = a[m]
    BY <1>1
  <2>3. j < Len(a) => j < Len(s) /\ s[j + 1] = a[j + 1]
    BY <1>1
  <2>. QED BY <1>2, <2>1, <2>2, <2>3, ZenonT(60) DEF Contiguous
<1>4. Contiguous(a, q)
  BY <1>3 DEF Contiguous
<1>5. StartsBehind(a, d)
  <2>1. a # <<>> => s # <<>> /\ s[1] = a[1]
    BY <1>1, EmptySeq
  <2>. QED BY <2>1, <1>2 DEF StartsBehind
<1>. QED BY <1>4, <1>5

\* Where the first packet of a stream ends.
LEMMA FirstPacket ==
    ASSUME NEW s \in Seq(InByte), NEW q, NEW d \in Nat, s # <<>>,
           Contiguous(s, q), StartsBehind(s, d)
    PROVE  LET n == InPacket(s[1].k).len IN
           /\ s[1].k = q[d + 1] /\ d + 1 \in 1..Len(q)
           /\ \A m \in 1..Len(s) : m <= n => s[m] = [k |-> s[1].k, n |-> d + 1, i |-> m]
           /\ n < Len(s) => s[n + 1].n = d + 2 /\ s[n + 1].i = 1
<1>. DEFINE n == InPacket(s[1].k).len
<1>1. 1 \in 1..Len(s) /\ Len(s) \in Nat
  BY EmptySeq, LenProperties
<1>2. n \in Nat \ {0, 1}
  BY <1>1, ByteAt
<1>3. s[1].n = d + 1 /\ s[1].i = 1
  BY DEF StartsBehind
<1>4. s[1].k = q[d + 1] /\ d + 1 \in 1..Len(q)
  BY <1>1, <1>3 DEF Contiguous
<1>. HIDE DEF n
<1>5. ASSUME NEW m \in 1..Len(s), m <= n
      PROVE  s[m] = [k |-> s[1].k, n |-> d + 1, i |-> m]
  <2>1. m - 1 <= InPacket(s[1].k).len - s[1].i /\ m \in 1..Len(s) /\ s[1].i + (m - 1) = m
    BY <1>2, <1>3, <1>5 DEF n
  <2>. QED BY <2>1, <1>1, <1>3 DEF Contiguous
<1>6. ASSUME n < Len(s) PROVE s[n + 1].n = d + 2 /\ s[n + 1].i = 1
  <2>1. n \in 1..Len(s) /\ n < Len(s)
    BY <1>1, <1>2, <1>6
  <2>2. s[n] = [k |-> s[1].k, n |-> d + 1, i |-> n]
    BY <2>1, <1>5, <1>2
  <2>3. s[n].k = s[1].k /\ s[n].n = d + 1 /\ s[n].i = n
    BY <2>2
  <2>4. s[n + 1].n = s[n].n + 1 /\ s[n + 1].i = 1
    BY <2>1, <2>3 DEF Contiguous, n
  <2>. QED BY <2>3, <2>4
<1>. QED BY <1>4, <1>5, <1>6 DEF n

\* What is left of a stream when its first packet is consumed is the stream
\* from the next packet on.
LEMMA RestContiguous ==
    ASSUME NEW s \in Seq(InByte), NEW q, NEW d \in Nat, s # <<>>,
           Contiguous(s, q), StartsBehind(s, d), InPacket(s[1].k).len <= Len(s)
    PROVE  LET r == Remaining(s, InPacket(s[1].k).len) IN
           /\ Contiguous(r, q)
           /\ StartsBehind(r, d + 1)
           /\ EndsWith(s, q, d) => EndsWith(r, q, d + 1)
<1>. DEFINE n == InPacket(s[1].k).len
            r == Remaining(s, n)
<1>1. 1 \in 1..Len(s) /\ Len(s) \in Nat
  BY EmptySeq, LenProperties
<1>2. n \in Nat \ {0, 1} /\ n \in 0..Len(s)
  <2>1. n \in Nat \ {0, 1}
    BY <1>1, ByteAt
  <2>2. n <= Len(s)
    OBVIOUS
  <2>. HIDE DEF n
  <2>. QED BY <2>1, <2>2, <1>1
<1>3. /\ \A m \in 1..Len(s) : m <= n => s[m] = [k |-> s[1].k, n |-> d + 1, i |-> m]
      /\ n < Len(s) => s[n + 1].n = d + 2 /\ s[n + 1].i = 1
  BY FirstPacket
<1>4. /\ r \in Seq(InByte)
      /\ Len(r) = Len(s) - n
      /\ \A j \in 1..(Len(s) - n) : r[j] = s[n + j]
  <2>1. \A j \in 1..(Len(s) - n) : r[j] = s[n + j]
    BY <1>1, <1>2, SubSeqProperties DEF Remaining
  <2>. QED BY <2>1, <1>2, CutSequence
<1>5. s[n].n = d + 1 /\ s[n].i = n /\ s[n].k = s[1].k
  <2>1. n \in 1..Len(s) /\ n <= n
    BY <1>2
  <2>2. s[n] = [k |-> s[1].k, n |-> d + 1, i |-> n]
    BY <2>1, <1>3
  <2>. HIDE DEF n
  <2>. QED BY <2>2
<1>. HIDE DEF r, n
<1>6. Contiguous(r, q)
  <2>1. ASSUME NEW j \in 1..Len(r)
        PROVE  /\ r[j].n \in 1..Len(q)
               /\ r[j].k = q[r[j].n]
               /\ r[j].i \in 1..InPacket(r[j].k).len
               /\ \A m \in j..Len(r) :
                     m - j <= InPacket(r[j].k).len - r[j].i
                         => r[m] = [k |-> r[j].k, n |-> r[j].n, i |-> r[j].i + (m - j)]
               /\ j < Len(r) /\ r[j].i = InPacket(r[j].k).len
                     => r[j + 1].n = r[j].n + 1 /\ r[j + 1].i = 1
    <3>1. n + j \in 1..Len(s) /\ s[n + j] = r[j]
      BY <1>1, <1>2, <1>4
    <3>2. ASSUME NEW m \in j..Len(r), m - j <= InPacket(r[j].k).len - r[j].i
          PROVE  r[m] = [k |-> r[j].k, n |-> r[j].n, i |-> r[j].i + (m - j)]
      <4>1. n + m \in (n + j)..Len(s) /\ s[n + m] = r[m] /\ (n + m) - (n + j) = m - j
        BY <1>1, <1>2, <1>4
      <4>2. (n + m) - (n + j) <= InPacket(s[n + j].k).len - s[n + j].i
        BY <4>1, <3>1, <3>2
      <4>3. s[n + m] = [k |-> s[n + j].k, n |-> s[n + j].n, i |-> s[n + j].i + ((n + m) - (n + j))]
        BY <4>1, <4>2, <3>1 DEF Contiguous
      <4>. QED BY <4>1, <4>3, <3>1
    <3>3. ASSUME j < Len(r), r[j].i = InPacket(r[j].k).len
          PROVE  r[j + 1].n = r[j].n + 1 /\ r[j + 1].i = 1
      <4>1. n + j < Len(s) /\ s[(n + j) + 1] = r[j + 1]
        <5>1. j + 1 \in 1..(Len(s) - n) /\ n + (j + 1) = (n + j) + 1
          BY <3>3, <1>1, <1>2, <1>4
        <5>. QED BY <5>1, <3>3, <1>1, <1>2, <1>4
      <4>. QED BY <4>1, <3>1, <3>3 DEF Contiguous
    <3>. QED BY <3>1, <3>2, <3>3 DEF Contiguous
  <2>. QED BY <2>1 DEF Contiguous
<1>7. r # <<>> => n < Len(s) /\ r[1] = s[n + 1] /\ r[Len(r)] = s[Len(s)]
  <2>1. SUFFICES ASSUME r # <<>> PROVE n < Len(s) /\ r[1] = s[n + 1] /\ r[Len(r)] = s[Len(s)]
    OBVIOUS
  <2>2. Len(r) \in Nat /\ Len(r) # 0
    BY <2>1, <1>4, EmptySeq, LenProperties
  <2>3. 1 \in 1..(Len(s) - n) /\ Len(r) \in 1..(Len(s) - n) /\ n + Len(r) = Len(s)
    BY <2>2, <1>1, <1>2, <1>4
  <2>4. r[1] = s[n + 1] /\ r[Len(r)] = s[n + Len(r)]
    BY <2>3, <1>4
  <2>5. n < Len(s)
    BY <2>3, <1>1, <1>2
  <2>. QED BY <2>3, <2>4, <2>5
<1>8. StartsBehind(r, d + 1)
  BY <1>3, <1>7 DEF StartsBehind
<1>9. EndsWith(s, q, d) => EndsWith(r, q, d + 1)
  <2>1. SUFFICES ASSUME EndsWith(s, q, d) PROVE EndsWith(r, q, d + 1)
    OBVIOUS
  <2>2. s[Len(s)].n = Len(q) /\ s[Len(s)].i = InPacket(s[Len(s)].k).len
    BY <2>1 DEF EndsWith
  <2>3. CASE r = <<>>
    <3>1. Len(s) = n
      BY <2>3, <1>1, <1>2, <1>4
    <3>. QED BY <3>1, <2>2, <2>3, <1>5 DEF EndsWith
  <2>4. CASE r # <<>>
    BY <2>2, <2>4, <1>7 DEF EndsWith
  <2>. QED BY <2>3, <2>4
<1>. QED BY <1>6, <1>8, <1>9 DEF r, n

\* What the broker sends is one packet, first byte to last.
LEMMA InBytesAre ==
    ASSUME NEW kind \in InKinds, NEW x \in Nat
    PROVE  LET b == InBytes(kind, x) IN
           /\ b \in Seq(InByte) /\ Len(b) = InPacket(kind).len
           /\ \A j \in 1..Len(b) : b[j] = [k |-> kind, n |-> x, i |-> j]
           /\ Len(b) \in Nat \ {0, 1}
<1>. DEFINE l == InPacket(kind).len
            b == [j \in 1..l |-> [k |-> kind, n |-> x, i |-> j]]
<1>1. l \in Nat \ {0, 1}
  BY InPacketType, UserAssumption
<1>. HIDE DEF l
<1>2. b \in [1..l -> InByte]
  BY <1>1 DEF InByte
<1>3. b \in Seq(InByte) /\ Len(b) = l
  BY <1>1, <1>2, FunctionIsSeq
<1>4. \A j \in 1..l : b[j] = [k |-> kind, n |-> x, i |-> j]
  OBVIOUS
<1>5. b = InBytes(kind, x)
  BY DEF InBytes, l
<1>. HIDE DEF b
<1>6. /\ b \in Seq(InByte) /\ Len(b) = InPacket(kind).len
      /\ \A j \in 1..Len(b) : b[j] = [k |-> kind, n |-> x, i |-> j]
      /\ Len(b) \in Nat \ {0, 1}
  BY <1>1, <1>3, <1>4 DEF l
<1>. QED BY <1>5, <1>6

\* A packet sent behind a stream that ends with the last packet sent extends
\* the stream.
LEMMA LongerContiguous ==
    ASSUME NEW s \in Seq(InByte), NEW q \in Seq(InKinds), NEW d \in Nat,
           NEW kind \in InKinds,
           Contiguous(s, q), StartsBehind(s, d), EndsWith(s, q, d)
    PROVE  LET w == s \o InBytes(kind, Len(q) + 1)
               p == Append(q, kind)
           IN  Contiguous(w, p) /\ StartsBehind(w, d) /\ EndsWith(w, p, d)
<1>. DEFINE x == Len(q) + 1
            b == InBytes(kind, x)
            w == s \o b
            p == Append(q, kind)
            l == InPacket(kind).len
<1>1. Len(s) \in Nat /\ Len(q) \in Nat /\ x \in Nat
  BY LenProperties
<1>2. /\ b \in Seq(InByte) /\ Len(b) = l /\ l \in Nat \ {0, 1}
      /\ \A j \in 1..Len(b) : b[j] = [k |-> kind, n |-> x, i |-> j]
  <2>. HIDE DEF x
  <2>1. x \in Nat
    BY <1>1
  <2>2. Len(b) = l /\ b \in Seq(InByte)
    BY <2>1, InBytesAre
  <2>3. \A j \in 1..Len(b) : b[j] = [k |-> kind, n |-> x, i |-> j]
    BY <2>1, InBytesAre
  <2>4. Len(b) \in Nat \ {0, 1}
    BY <2>1, InBytesAre
  <2>. HIDE DEF b, l
  <2>. QED BY <2>2, <2>3, <2>4
<1>3. /\ Len(p) = x /\ p[x] = kind
      /\ \A j \in 1..Len(q) : p[j] = q[j]
  BY <1>1, AppendProperties
<1>. HIDE DEF b, p, l
<1>4. /\ w \in Seq(InByte) /\ Len(w) = Len(s) + l
      /\ \A j \in 1..Len(s) : w[j] = s[j]
      /\ \A j \in 1..l : w[Len(s) + j] = b[j]
  <2>1. /\ w \in Seq(InByte) /\ Len(w) = Len(s) + Len(b)
        /\ \A j \in 1..(Len(s) + Len(b)) :
              w[j] = IF j <= Len(s) THEN s[j] ELSE b[j - Len(s)]
    BY <1>2, ConcatProperties, ZenonT(60)
  <2>. HIDE DEF w
  <2>2. \A j \in 1..Len(s) : w[j] = s[j]
    BY <2>1, <1>1, <1>2
  <2>3. ASSUME NEW j \in 1..l PROVE w[Len(s) + j] = b[j]
    <3>1. Len(s) + j \in 1..(Len(s) + Len(b)) /\ ~(Len(s) + j <= Len(s)) /\ (Len(s) + j) - Len(s) = j
      BY <1>1, <1>2
    <3>. QED BY <2>1, <3>1
  <2>. QED BY <2>1, <2>2, <2>3, <1>2
<1>. HIDE DEF w, x
<1>5. \A j \in (Len(s) + 1)..Len(w) : w[j] = [k |-> kind, n |-> x, i |-> j - Len(s)]
  <2>1. ASSUME NEW j \in (Len(s) + 1)..Len(w)
        PROVE  w[j] = [k |-> kind, n |-> x, i |-> j - Len(s)]
    <3>1. j - Len(s) \in 1..l /\ Len(s) + (j - Len(s)) = j
      BY <1>1, <1>2, <1>4
    <3>. QED BY <3>1, <1>2, <1>4
  <2>. QED BY <2>1
<1>6. ASSUME NEW j \in 1..Len(s)
      PROVE  /\ w[j].n \in 1..Len(p)
             /\ w[j].k = p[w[j].n]
             /\ w[j].i \in 1..InPacket(w[j].k).len
             /\ \A m \in j..Len(w) :
                   m - j <= InPacket(w[j].k).len - w[j].i
                       => w[m] = [k |-> w[j].k, n |-> w[j].n, i |-> w[j].i + (m - j)]
             /\ j < Len(w) /\ w[j].i = InPacket(w[j].k).len
                   => w[j + 1].n = w[j].n + 1 /\ w[j + 1].i = 1
  <2>0. /\ w[j] = s[j] /\ s[j].i \in Nat /\ s[j].n \in Nat
        /\ InPacket(s[j].k).len \in Nat
    BY <1>4, ByteAt
  <2>1. /\ s[j].n \in 1..Len(q) /\ s[j].k = q[s[j].n]
        /\ s[j].i \in 1..InPacket(s[j].k).len
    BY DEF Contiguous
  <2>2. /\ w[j].n \in 1..Len(p) /\ w[j].k = p[w[j].n]
        /\ w[j].i \in 1..InPacket(w[j].k).len
    BY <2>0, <2>1, <1>1, <1>3 DEF x
  <2>3. Len(s) \in j..Len(s) /\ s[Len(s)].n = Len(q)
        /\ s[Len(s)].i = InPacket(s[Len(s)].k).len
    BY <1>1, EmptySeq DEF EndsWith
  <2>4. Len(s) - j <= InPacket(s[j].k).len - s[j].i =>
           /\ s[Len(s)].k = s[j].k /\ s[Len(s)].n = s[j].n
           /\ s[Len(s)].i = s[j].i + (Len(s) - j)
    <3>1. SUFFICES ASSUME Len(s) - j <= InPacket(s[j].k).len - s[j].i
                   PROVE  /\ s[Len(s)].k = s[j].k /\ s[Len(s)].n = s[j].n
                          /\ s[Len(s)].i = s[j].i + (Len(s) - j)
      OBVIOUS
    <3>2. s[Len(s)] = [k |-> s[j].k, n |-> s[j].n, i |-> s[j].i + (Len(s) - j)]
      BY <3>1, <2>3 DEF Contiguous
    <3>. QED BY <3>2
  <2>5. Len(s) - j >= InPacket(s[j].k).len - s[j].i
    BY <2>0, <2>3, <2>4, <1>1
  <2>6. ASSUME NEW m \in j..Len(w), m - j <= InPacket(w[j].k).len - w[j].i
        PROVE  w[m] = [k |-> w[j].k, n |-> w[j].n, i |-> w[j].i + (m - j)]
    <3>1. m \in j..Len(s)
      BY <2>0, <2>5, <2>6, <1>1
    <3>2. w[m] = s[m]
      BY <3>1, <1>1, <1>4
    <3>3. s[m] = [k |-> s[j].k, n |-> s[j].n, i |-> s[j].i + (m - j)]
      BY <3>1, <2>0, <2>6 DEF Contiguous
    <3>. QED BY <3>2, <3>3, <2>0
  <2>7. ASSUME j < Len(w), w[j].i = InPacket(w[j].k).len
        PROVE  w[j + 1].n = w[j].n + 1 /\ w[j + 1].i = 1
    <3>1. CASE j < Len(s)
      <4>1. w[j + 1] = s[j + 1]
        BY <3>1, <1>1, <1>4
      <4>2. s[j + 1].n = s[j].n + 1 /\ s[j + 1].i = 1
        BY <3>1, <2>0, <2>7 DEF Contiguous
      <4>. QED BY <4>1, <4>2, <2>0
    <3>2. CASE j = Len(s)
      <4>1. w[j + 1] = [k |-> kind, n |-> x, i |-> (j + 1) - Len(s)]
        <5>1. j + 1 \in (Len(s) + 1)..Len(w)
          BY <3>2, <1>1, <1>2, <1>4
        <5>. QED BY <5>1, <1>5
      <4>2. w[j + 1].n = x /\ w[j + 1].i = (j + 1) - Len(s)
        BY <4>1
      <4>. QED BY <4>2, <3>2, <2>0, <2>3, <1>1 DEF x
    <3>. QED BY <3>1, <3>2, <1>1
  <2>. QED BY <2>2, <2>6, <2>7
<1>7. ASSUME NEW j \in (Len(s) + 1)..Len(w)
      PROVE  /\ w[j].n \in 1..Len(p)
             /\ w[j].k = p[w[j].n]
             /\ w[j].i \in 1..InPacket(w[j].k).len
             /\ \A m \in j..Len(w) :
                   m - j <= InPacket(w[j].k).len - w[j].i
                       => w[m] = [k |-> w[j].k, n |-> w[j].n, i |-> w[j].i + (m - j)]
             /\ j < Len(w) /\ w[j].i = InPacket(w[j].k).len
                   => w[j + 1].n = w[j].n + 1 /\ w[j + 1].i = 1
  <2>1. w[j].k = kind /\ w[j].n = x /\ w[j].i = j - Len(s) /\ InPacket(w[j].k).len = l
    <3>1. w[j] = [k |-> kind, n |-> x, i |-> j - Len(s)]
      BY <1>5
    <3>. QED BY <3>1 DEF l
  <2>2. w[j].n \in 1..Len(p) /\ w[j].k = p[w[j].n] /\ w[j].i \in 1..InPacket(w[j].k).len
    BY <2>1, <1>1, <1>2, <1>3, <1>4 DEF x
  <2>3. ASSUME NEW m \in j..Len(w)
        PROVE  w[m] = [k |-> w[j].k, n |-> w[j].n, i |-> w[j].i + (m - j)]
    <3>1. m \in (Len(s) + 1)..Len(w) /\ m - Len(s) = (j - Len(s)) + (m - j)
      BY <1>1
    <3>. QED BY <3>1, <2>1, <1>5
  <2>4. ~(j < Len(w) /\ w[j].i = InPacket(w[j].k).len)
    BY <2>1, <1>1, <1>2, <1>4
  <2>. QED BY <2>2, <2>3, <2>4
<1>8. Contiguous(w, p)
  <2>1. \A j \in 1..Len(w) : j \in 1..Len(s) \/ j \in (Len(s) + 1)..Len(w)
    BY <1>1, <1>2, <1>4
  <2>. QED BY <2>1, <1>6, <1>7 DEF Contiguous
<1>9. StartsBehind(w, d)
  <2>1. CASE s = <<>>
    <3>1. Len(s) = 0 /\ d = Len(q)
      BY <2>1 DEF EndsWith
    <3>2. 1 \in (Len(s) + 1)..Len(w)
      BY <3>1, <1>2, <1>4
    <3>3. w[1] = [k |-> kind, n |-> x, i |-> 1 - Len(s)]
      BY <3>2, <1>5
    <3>4. w[1].n = x /\ w[1].i = 1 - Len(s)
      BY <3>3
    <3>. QED BY <3>1, <3>4 DEF StartsBehind, x
  <2>2. CASE s # <<>>
    <3>1. 1 \in 1..Len(s)
      BY <2>2, <1>1, EmptySeq
    <3>. QED BY <3>1, <2>2, <1>4 DEF StartsBehind
  <2>. QED BY <2>1, <2>2
<1>10. EndsWith(w, p, d)
  <2>1. w # <<>> /\ Len(w) \in (Len(s) + 1)..Len(w) /\ Len(w) - Len(s) = l
    BY <1>1, <1>2, <1>4, EmptySeq
  <2>2. w[Len(w)] = [k |-> kind, n |-> x, i |-> Len(w) - Len(s)]
    BY <2>1, <1>5
  <2>3. w[Len(w)].k = kind /\ w[Len(w)].n = x /\ w[Len(w)].i = l
    BY <2>1, <2>2
  <2>. QED BY <2>1, <2>3, <1>3 DEF EndsWith, l
<1>. QED BY <1>8, <1>9, <1>10 DEF w, p, b, x

\* Bytes cut off the front of a sequence are cut off whatever it is joined to.
LEMMA RemainingOfJoined ==
    ASSUME NEW S, NEW a \in Seq(S), NEW b \in Seq(S), NEW n \in 0..Len(a)
    PROVE  Remaining(a \o b, n) = Remaining(a, n) \o b
<1>. DEFINE t == Taken(a, n)
            r == Remaining(a, n)
            w == r \o b
<1>1. /\ t \in Seq(S) /\ r \in Seq(S) /\ Len(t) = n /\ t \o r = a
      /\ Len(r) = Len(a) - n
  BY CutSequence
<1>. HIDE DEF t, r
<1>2. a \o b = t \o w
  <2>0. t \in Seq(S) /\ r \in Seq(S) /\ b \in Seq(S)
    BY <1>1
  <2>1. (t \o r) \o b = t \o (r \o b)
    BY <2>0, SMTT(30)
  <2>. QED BY <2>1, <1>1
<1>3. w \in Seq(S) /\ Len(w) \in Nat /\ n \in Nat
  BY <1>1, ConcatProperties, LenProperties
<1>. HIDE DEF w
<1>4. /\ t \o w \in Seq(S) /\ Len(t \o w) = n + Len(w)
      /\ \A j \in 1..(n + Len(w)) : (t \o w)[j] = IF j <= n THEN t[j] ELSE w[j - n]
  BY <1>1, <1>3, ConcatProperties
<1>. DEFINE u == t \o w
            v == Remaining(u, n)
<1>. HIDE DEF u
<1>5. u \in Seq(S) /\ Len(u) = n + Len(w) /\ n \in 0..Len(u)
      /\ \A j \in 1..Len(w) : u[n + j] = w[j]
  <2>1. u \in Seq(S) /\ Len(u) = n + Len(w) /\ n \in 0..Len(u)
    BY <1>3, <1>4 DEF u
  <2>2. ASSUME NEW j \in 1..Len(w) PROVE u[n + j] = w[j]
    <3>1. n + j \in 1..(n + Len(w)) /\ ~(n + j <= n) /\ (n + j) - n = j
      BY <1>3
    <3>. QED BY <3>1, <1>4 DEF u
  <2>. QED BY <2>1, <2>2
<1>6. /\ v \in Seq(S) /\ Len(v) = Len(w)
      /\ \A j \in 1..Len(w) : v[j] = u[n + j]
  <2>1. /\ v \in Seq(S) /\ Len(v) = Len(u) - n
    BY <1>5, CutSequence
  <2>2. \A j \in 1..(Len(u) - n) : v[j] = u[n + j]
    BY <1>5, SubSeqProperties DEF Remaining
  <2>3. Len(u) - n = Len(w)
    BY <1>3, <1>5
  <2>. HIDE DEF v
  <2>. QED BY <2>1, <2>2, <2>3
<1>. HIDE DEF v
<1>7. v = w
  BY <1>3, <1>5, <1>6, SeqEqual
<1>. QED BY <1>2, <1>7 DEF u, v, w, r

\* Consuming from the front of rx_buffer consumes from the front of the stream.
LEMMA RemainingOfConcat ==
    ASSUME NEW a \in Seq(InByte), NEW b \in Seq(InByte), NEW n \in 0..Len(a)
    PROVE  Remaining(a \o b, n) = Remaining(a, n) \o b
BY RemainingOfJoined, Zenon

\* Types of what the proofs below cut and join.
LEMMA StreamType ==
    ASSUME TypeOK
    PROVE  /\ rx \in Seq(InByte) /\ inbox \in Seq(InByte) /\ Stream \in Seq(InByte)
           /\ sent \in Seq(InKinds) /\ Len(rx) \in Nat /\ Len(sent) \in Nat /\ done \in Nat
           /\ rx # <<>> => Stream # <<>> /\ Stream[1] = rx[1] /\ 1 \in 1..Len(rx)
           /\ inbox = <<>> => Stream = rx
<1>1. rx \in Seq(InByte) /\ inbox \in Seq(InByte) /\ sent \in Seq(InKinds) /\ done \in Nat
  BY DEF TypeOK
<1>2. Stream \in Seq(InByte) /\ Len(rx) \in Nat /\ Len(sent) \in Nat
  BY <1>1, ConcatProperties, LenProperties DEF Stream
<1>3. rx # <<>> => Stream # <<>> /\ Stream[1] = rx[1] /\ 1 \in 1..Len(rx)
  <2>1. SUFFICES ASSUME rx # <<>> PROVE Stream # <<>> /\ Stream[1] = rx[1] /\ 1 \in 1..Len(rx)
    OBVIOUS
  <2>2. 1 \in 1..Len(rx) /\ Len(inbox) \in Nat
    BY <2>1, <1>1, <1>2, EmptySeq, LenProperties
  <2>3. /\ Len(rx \o inbox) = Len(rx) + Len(inbox)
        /\ \A j \in 1..(Len(rx) + Len(inbox)) :
              (rx \o inbox)[j] = IF j <= Len(rx) THEN rx[j] ELSE inbox[j - Len(rx)]
    BY <1>1, ConcatProperties
  <2>4. Stream[1] = rx[1] /\ Len(Stream) # 0
    BY <2>2, <2>3 DEF Stream
  <2>5. Stream # <<>>
    BY <2>4, EmptySeq
  <2>. QED BY <2>2, <2>4, <2>5
<1>4. inbox = <<>> => Stream = rx
  BY <1>1, ConcatEmptySeq DEF Stream
<1>. QED BY <1>1, <1>2, <1>3, <1>4

\* On an undamaged stream the decoder finds the broker's next packet at the
\* front of rx_buffer, and nothing else.
LEMMA DecodesFirst ==
    ASSUME TypeOK, InboundInv, Undamaged, NEW h \in decode_fixed_header(rx), h.st = "OK"
    PROVE  LET k == rx[1].k IN
           /\ rx # <<>> /\ k \in InKinds /\ k = sent[done + 1] /\ rx[1].n = done + 1
           /\ done + 1 \in 1..Len(sent)
           /\ h.type = InPacket(k).type /\ h.len = InPacket(k).len /\ h.body = InPacket(k).body
           /\ InPacket(k).type # "INVALID" /\ h.len \in Nat
<1>. DEFINE k == rx[1].k
<1>1. ~(Len(rx) < 2) /\ Len(rx) \in Nat
  BY StreamType DEF decode_fixed_header, TooSmall
<1>2. rx # <<>>
  BY <1>1
<1>3. /\ Stream # <<>> /\ Stream[1] = rx[1] /\ Stream \in Seq(InByte)
      /\ Contiguous(Stream, sent) /\ StartsBehind(Stream, done) /\ done \in Nat
  BY <1>2, StreamType DEF InboundInv
<1>4. rx[1].i = 1 /\ rx[1].n = done + 1
  BY <1>3 DEF StartsBehind
<1>5. k = sent[done + 1] /\ done + 1 \in 1..Len(sent)
  BY <1>3, FirstPacket
<1>6. rx[1].k \in InKinds
  BY <1>2, StreamType, ByteAt
<1>7. /\ h \in {TooSmall, BadHeader, Header(InPacket(k))}
      /\ InPacket(k).type = "INVALID" => h = BadHeader
  BY <1>1, <1>4 DEF decode_fixed_header
<1>8. h = Header(InPacket(k)) /\ InPacket(k).type # "INVALID"
  <2>1. h # TooSmall /\ h # BadHeader
    BY DEF TooSmall, BadHeader
  <2>. QED BY <2>1, <1>7
<1>9. h.type = InPacket(k).type /\ h.len = InPacket(k).len /\ h.body = InPacket(k).body
  BY <1>8 DEF Header
<1>10. h.len \in Nat
  BY HeaderType
<1>. QED BY <1>2, <1>4, <1>5, <1>6, <1>8, <1>9, <1>10

-----------------------------------------------------------------------------
(* The inbound invariant, step by step *)

\* Nothing is received at first.
LEMMA InboundInit == Init => InboundInv
<1>. SUFFICES ASSUME Init PROVE InboundInv
  OBVIOUS
<1>1. rx = <<>> /\ inbox = <<>> /\ sent = <<>> /\ done = 0 /\ pc = "idle"
  BY DEF Init
<1>2. Stream = <<>> /\ Len(Stream) = 0 /\ Len(sent) = 0
  BY <1>1, EmptySeq, ConcatEmptySeq DEF Stream
<1>. QED BY <1>1, <1>2 DEF InboundInv, Contiguous, StartsBehind, EndsWith

\* Steps that leave the stream, the connection and the packet being
\* dispatched alone.
LEMMA InboundUntouched ==
    ASSUME InboundInv, UNCHANGED <<rx, inbox, sent, done, link>>,
           Undamaged' => /\ Undamaged
                         /\ state' = "CONNECTING" => state = "CONNECTING" \/ link # "down"
                         /\ pc' \in {"callback", "consume"} =>
                               pc \in {"callback", "consume"} /\ packet_len' = packet_len
    PROVE  InboundInv'
<1>1. Stream' = Stream
  BY DEF Stream
<1>. QED BY <1>1 DEF InboundInv

\* Steps that end or break the connection: what was in flight may be gone,
\* what is buffered stays.
LEMMA InboundCutOff ==
    ASSUME TypeOK, InboundInv, UNCHANGED <<rx, sent, done>>,
           inbox' \in {inbox, <<>>}, link' \in {"down", "dead"},
           link' = "down" => (inbox' = <<>> \/ KeepsBytes) /\ state' = "DISCONNECTED",
           Undamaged' => /\ Undamaged
                         /\ pc' \in {"callback", "consume"} =>
                               pc \in {"callback", "consume"} /\ packet_len' = packet_len
    PROVE  InboundInv'
<1>1. CASE inbox' = <<>>
  <2>1. Stream' = rx
    BY <1>1, StreamType, ConcatEmptySeq DEF Stream
  <2>2. Undamaged => Contiguous(rx, sent) /\ StartsBehind(rx, done)
    BY StreamType, FrontContiguous DEF InboundInv, Stream
  <2>. QED BY <1>1, <2>1, <2>2 DEF InboundInv
<1>2. CASE inbox' = inbox
  <2>1. Stream' = Stream
    BY <1>2 DEF Stream
  <2>. QED BY <1>2, <2>1 DEF InboundInv
<1>. QED BY <1>1, <1>2

\* A read moves bytes from the network into rx_buffer and leaves the stream as
\* it is (client_read, handle_state_mqtt_connect_sent).
LEMMA InboundRead ==
    ASSUME TypeOK, InboundInv, NEW r \in transport_read(RxRoom),
           rx' = rx \o Taken(inbox, r.n), inbox' = Remaining(inbox, r.n),
           UNCHANGED <<state, sent, done, link, damage>>,
           pc' \notin {"callback", "consume"}
    PROVE  InboundInv'
<1>1. RxRoom \in Nat
  BY StreamType, SizesAssumption DEF RxRoom, TypeOK
<1>2. r.n \in 0..Len(inbox)
  BY <1>1, ReadBounds
<1>. DEFINE t == Taken(inbox, r.n)
            e == Remaining(inbox, r.n)
<1>3. t \in Seq(InByte) /\ e \in Seq(InByte) /\ t \o e = inbox /\ rx \in Seq(InByte)
  BY <1>2, StreamType, CutSequence
<1>4. rx' = rx \o t /\ inbox' = e
  OBVIOUS
<1>. HIDE DEF t, e
<1>5. Stream' = Stream
  <2>0. rx \in Seq(InByte) /\ t \in Seq(InByte) /\ e \in Seq(InByte)
    BY <1>3
  <2>1. (rx \o t) \o e = rx \o (t \o e)
    BY <2>0
  <2>. QED BY <2>1, <1>3, <1>4 DEF Stream
<1>6. link = "down" => inbox' = <<>> \/ KeepsBytes
  <2>1. SUFFICES ASSUME link = "down", ~KeepsBytes PROVE inbox' = <<>>
    OBVIOUS
  <2>2. inbox = <<>>
    BY <2>1 DEF InboundInv
  <2>3. r.n = 0
    BY <2>2, <1>2
  <2>. QED BY <2>2, <2>3 DEF Remaining
<1>. QED BY <1>5, <1>6 DEF InboundInv, Undamaged

\* A packet is consumed whole (client_read, handle_state_mqtt_connect_sent).
LEMMA InboundConsume ==
    ASSUME TypeOK, InboundInv, Undamaged, rx # <<>>,
           InPacket(rx[1].k).len <= Len(rx),
           rx' = Remaining(rx, InPacket(rx[1].k).len)
    PROVE  LET w == rx' \o inbox IN
           /\ Contiguous(w, sent) /\ StartsBehind(w, done + 1) /\ done + 1 <= Len(sent)
           /\ EndsWith(Stream, sent, done) => EndsWith(w, sent, done + 1)
           /\ Contiguous(rx', sent) /\ StartsBehind(rx', done + 1)
<1>. DEFINE n == InPacket(rx[1].k).len
            w == rx' \o inbox
<1>1. n \in Nat \ {0, 1} /\ n \in 0..Len(rx) /\ rx \in Seq(InByte) /\ inbox \in Seq(InByte)
  <2>1. n \in Nat \ {0, 1} /\ Len(rx) \in Nat /\ rx \in Seq(InByte) /\ inbox \in Seq(InByte)
    BY StreamType, ByteAt
  <2>2. n <= Len(rx)
    OBVIOUS
  <2>. HIDE DEF n
  <2>. QED BY <2>1, <2>2
<1>2. /\ Stream # <<>> /\ Stream[1] = rx[1] /\ Stream \in Seq(InByte) /\ done \in Nat
      /\ Contiguous(Stream, sent) /\ StartsBehind(Stream, done) /\ Len(sent) \in Nat
  BY StreamType DEF InboundInv
<1>3. w = Remaining(Stream, n)
  BY <1>1, RemainingOfConcat DEF Stream
<1>4. n <= Len(Stream)
  <2>1. Len(Stream) = Len(rx) + Len(inbox) /\ Len(rx) \in Nat /\ Len(inbox) \in Nat
    BY <1>1, ConcatProperties, LenProperties DEF Stream
  <2>. HIDE DEF n
  <2>. QED BY <2>1, <1>1
<1>5. /\ Contiguous(w, sent) /\ StartsBehind(w, done + 1)
      /\ EndsWith(Stream, sent, done) => EndsWith(w, sent, done + 1)
  BY <1>2, <1>3, <1>4, RestContiguous
<1>6. done + 1 <= Len(sent)
  <2>1. done + 1 \in 1..Len(sent)
    BY <1>2, FirstPacket
  <2>. QED BY <2>1, <1>2
<1>7. rx' \in Seq(InByte)
  BY <1>1, CutSequence
<1>8. Contiguous(rx', sent) /\ StartsBehind(rx', done + 1)
  BY <1>1, <1>5, <1>7, FrontContiguous
<1>. QED BY <1>5, <1>6, <1>8

\* A send leaves the receive side undamaged.
LEMMA SendKeepsUndamaged ==
    ASSUME NEW p, NEW st, EncodeAndSend(p, st)
    PROVE  Undamaged' => Undamaged
BY DEF EncodeAndSend, client_send, Undamaged

\* Without a poll suspended in on_message, a poll returns to the application.
LEMMA ReturnsToApplication ==
    ASSUME ReadInv, Undamaged, NEW st, Return(st)
    PROVE  pc' = "idle" /\ poll_status' = st
BY DEF ReadInv, Undamaged, RxDamage, Return

\* The API calls keep the inbound invariant: a new connection starts with
\* nothing received and nothing in flight.
LEMMA InboundUser ==
    ASSUME TypeOK, TransportInv, ReadInv, InboundInv, User
    PROVE  InboundInv'
<1>1. CASE aemlib_connect
  <2>1. /\ rx' = <<>> /\ UNCHANGED <<inbox, link, pc, packet_len>>
        /\ pc \in {"idle", "callback"}
    BY <1>1 DEF aemlib_connect, DiscardLeftovers, MayCall, call
  <2>2. CASE NewConnection
    <3>1. /\ sent' = <<>> /\ done' = 0 /\ link = "down"
          /\ KeepsBytes /\ inbox # <<>> => "rx_stale" \in damage'
          /\ pc # "idle" => "rx_reentered" \in damage'
      BY <2>2 DEF NewConnection, Stale
    <3>2. Undamaged' => pc' = "idle" /\ inbox = <<>>
      BY <2>1, <3>1 DEF Undamaged, RxDamage, InboundInv
    <3>3. inbox = <<>> => Stream' = <<>> /\ Len(Stream') = 0 /\ Len(sent') = 0
      BY <2>1, <3>1, EmptySeq, ConcatEmptySeq DEF Stream
    <3>. QED BY <2>1, <3>1, <3>2, <3>3 DEF InboundInv, Contiguous, StartsBehind, EndsWith
  <2>3. CASE SameConnection
    <3>1. UNCHANGED <<sent, done>> /\ link # "down" /\ damage' = damage \cup Discarded
      BY <2>3 DEF SameConnection
    <3>2. Undamaged' => Undamaged /\ rx' = rx
      BY <2>1, <3>1 DEF Undamaged, RxDamage, Discarded
    <3>3. CASE Undamaged'
      BY <2>1, <3>1, <3>2, <3>3, InboundUntouched
    <3>4. CASE ~Undamaged'
      BY <2>1, <3>1, <3>4 DEF InboundInv
    <3>. QED BY <3>3, <3>4
  <2>. QED BY <1>1, <2>2, <2>3 DEF aemlib_connect
<1>2. CASE aemlib_connect_invalid
  <2>1. /\ UNCHANGED <<inbox, sent, done, link, state, pc, packet_len>>
        /\ rx' = <<>> /\ damage \subseteq damage'
        /\ rx # <<>> => "rx_dropped" \in damage'
    BY <1>2 DEF aemlib_connect_invalid, DiscardLeftovers, Discarded, net, call
  <2>2. Undamaged' => Undamaged /\ rx' = rx
    BY <2>1 DEF Undamaged, RxDamage
  <2>3. CASE Undamaged'
    BY <2>1, <2>2, <2>3, InboundUntouched
  <2>4. CASE ~Undamaged'
    BY <2>1, <2>4 DEF InboundInv
  <2>. QED BY <2>3, <2>4
<1>3. CASE aemlib_disconnect
  <2>1. UNCHANGED <<rx, inbox, sent, done, link, damage, pc, packet_len>> /\ state' # "CONNECTING"
    BY <1>3 DEF aemlib_disconnect, net, call, hist
  <2>. QED BY <2>1, InboundUntouched DEF Undamaged
<1>4. CASE aemlib_publish \/ aemlib_subscribe
  <2>1. UNCHANGED <<rx, inbox, sent, done, link, state, pc, packet_len>>
    BY <1>4 DEF aemlib_publish, aemlib_subscribe, net, call
  <2>2. Undamaged' => Undamaged
    BY <1>4, SendKeepsUndamaged DEF aemlib_publish, aemlib_subscribe
  <2>. QED BY <2>1, <2>2, InboundUntouched
<1>5. CASE poll_from_callback
  <2>1. UNCHANGED <<rx, inbox, sent, done, link, state>> /\ pc' = "entry" /\ ~Undamaged'
    BY <1>5 DEF poll_from_callback, net, client, Undamaged, RxDamage
  <2>. QED BY <2>1, InboundUntouched
<1>. QED BY <1>1, <1>2, <1>3, <1>4, <1>5 DEF User

\* So do the steps of the handshake.
LEMMA InboundHandshake ==
    ASSUME TypeOK, TransportInv, ReadInv, InboundInv,
           \/ handle_state_connecting \/ connect_sent_read \/ connack_wait
           \/ connack_error \/ connack_received
    PROVE  InboundInv'
<1>1. UNCHANGED <<sent, damage>> /\ (Undamaged' <=> Undamaged)
  BY DEF handle_state_connecting, connect_sent_read, connack_wait, connack_error,
         connack_received, HangUp, net, hist, Undamaged
<1>2. ASSUME NEW st, HangUp(st), UNCHANGED <<rx, done>> PROVE InboundInv'
  <2>1. link' = "down" /\ inbox' = LeftBehind /\ state' = "DISCONNECTED" /\ Return(st)
    BY <1>2 DEF HangUp, transport_disconnect
  <2>2. Undamaged => pc' = "idle"
    BY <2>1, ReturnsToApplication
  <2>. QED BY <1>1, <1>2, <2>1, <2>2, InboundCutOff DEF LeftBehind
<1>3. CASE handle_state_connecting
  <2>1. PICK r \in transport_connect :
          /\ link' = r[1]
          /\ inbox' = IF r[1] = "down" THEN LeftBehind ELSE inbox
          /\ \/ r[2] = "OK" /\ state' = "CONNECT_SENT" /\ ConnectIfUnsent
             \/ r[2] = "WOULD_BLOCK" /\ state' = state /\ Return("OK")
             \/ r[2] = "IO" /\ state' = "DISCONNECTED" /\ Return("IO")
    BY <1>3 DEF handle_state_connecting
  <2>2. UNCHANGED <<rx, sent, done>> /\ state = "CONNECTING"
    BY <1>3 DEF handle_state_connecting, hist
  <2>3. Undamaged => pc' \notin {"callback", "consume"}
    BY <2>1, ReturnsToApplication DEF ConnectIfUnsent, Goto
  <2>4. CASE r = <<"down", "IO">>
    <3>1. link' = "down" /\ inbox' = LeftBehind /\ state' = "DISCONNECTED"
      BY <2>1, <2>4
    <3>. QED BY <1>1, <2>2, <2>3, <3>1, InboundCutOff DEF LeftBehind
  <2>5. CASE r = <<"dead", "OK">>
    <3>1. link' = "dead" /\ inbox' = inbox
      BY <2>1, <2>5
    <3>. QED BY <1>1, <2>2, <2>3, <3>1, InboundCutOff
  <2>6. CASE r \in {<<"up", "OK">>, <<"opening", "WOULD_BLOCK">>}
    <3>1. link' \in {"up", "opening"} /\ inbox' = inbox /\ Stream' = Stream
      BY <2>1, <2>2, <2>6 DEF Stream
    <3>2. link \in {"down", link'}
      <4>1. CASE link = "down"
        BY <4>1
      <4>2. CASE link = "opening"
        BY <4>2, <2>1, <2>6 DEF transport_connect
      <4>3. CASE link = "up"
        BY <4>3, <2>1, <2>6 DEF transport_connect
      <4>4. CASE link = "dead"
        BY <4>4, <2>1, <2>6 DEF transport_connect
      <4>. QED BY <4>1, <4>2, <4>3, <4>4 DEF TypeOK, Links
    <3>3. Undamaged => EndsWith(Stream, sent, done)
      BY <2>2, <3>1, <3>2 DEF InboundInv, EndsWith
    <3>. QED BY <1>1, <2>2, <2>3, <3>1, <3>3 DEF InboundInv
  <2>7. CASE r = <<link, "IO">> /\ link # "down"
    <3>1. link' = link /\ inbox' = inbox /\ state' = "DISCONNECTED"
      BY <2>1, <2>7
    <3>. QED BY <1>1, <2>2, <2>3, <3>1, InboundUntouched
  <2>. QED
    <3>1. \/ r \in {<<"up", "OK">>, <<"opening", "WOULD_BLOCK">>, <<"down", "IO">>, <<"dead", "OK">>}
          \/ r = <<link, "IO">>
      BY <2>1 DEF transport_connect, TypeOK, Links
    <3>. QED BY <3>1, <2>4, <2>5, <2>6, <2>7
<1>4. CASE connect_sent_read
  <2>1. PICK r \in transport_read(RxRoom) :
          \/ HangUp("IO") /\ UNCHANGED rx
          \/ /\ rx' = rx \o Taken(inbox, r.n) /\ inbox' = Remaining(inbox, r.n)
             /\ Goto("connack") /\ UNCHANGED <<state, link, sent>>
    BY <1>4 DEF connect_sent_read
  <2>2. UNCHANGED done
    BY <1>4 DEF connect_sent_read, hist
  <2>3. CASE HangUp("IO") /\ UNCHANGED rx
    BY <2>2, <2>3, <1>2
  <2>4. CASE /\ rx' = rx \o Taken(inbox, r.n) /\ inbox' = Remaining(inbox, r.n)
             /\ Goto("connack") /\ UNCHANGED <<state, link, sent>>
    <3>1. pc' \notin {"callback", "consume"}
      BY <2>4 DEF Goto
    <3>. QED BY <1>1, <2>2, <2>4, <3>1, InboundRead
  <2>. QED BY <2>1, <2>3, <2>4
<1>5. CASE connack_wait
  <2>1. UNCHANGED <<rx, done>>
    BY <1>5 DEF connack_wait, hist
  <2>2. CASE HangUp("TIMEOUT")
    BY <2>1, <2>2, <1>2
  <2>3. CASE ConnectIfUnsent /\ UNCHANGED <<state, net>>
    <3>1. Undamaged => pc' \notin {"callback", "consume"}
      BY <2>3, ReturnsToApplication DEF ConnectIfUnsent, Goto
    <3>. QED BY <1>1, <2>1, <2>3, <3>1, InboundUntouched DEF net
  <2>. QED BY <1>5, <2>2, <2>3 DEF connack_wait
<1>6. CASE connack_error
  <2>1. UNCHANGED <<rx, done>> /\ \E st : HangUp(st)
    BY <1>6 DEF connack_error, hist
  <2>. QED BY <2>1, <1>2
<1>7. CASE connack_received
  <2>1. PICK h \in decode_fixed_header(rx) :
          /\ h.st = "OK" /\ h.type = "CONNACK" /\ h.len <= Len(rx)
          /\ rx' = Remaining(rx, h.len)
          /\ done' = done + 1
          /\ \/ state' = "CONNECTED" /\ Goto("read") /\ UNCHANGED net
             \/ HangUp("CONNECT")
    BY <1>7 DEF connack_received, AfterConnack
  <2>2. CASE ~Undamaged
    BY <1>1, <2>1, <2>2 DEF InboundInv, HangUp, transport_disconnect, LeftBehind, net
  <2>3. CASE Undamaged
    <3>1. rx # <<>> /\ h.len = InPacket(rx[1].k).len
      BY <2>1, <2>3, DecodesFirst
    <3>2. /\ Contiguous(rx' \o inbox, sent) /\ StartsBehind(rx' \o inbox, done + 1)
          /\ done + 1 <= Len(sent)
          /\ EndsWith(Stream, sent, done) => EndsWith(rx' \o inbox, sent, done + 1)
          /\ Contiguous(rx', sent) /\ StartsBehind(rx', done + 1)
      BY <2>1, <2>3, <3>1, InboundConsume
    <3>3. CASE state' = "CONNECTED" /\ Goto("read") /\ UNCHANGED net
      <4>1. UNCHANGED <<link, inbox, sent>> /\ pc' = "read"
        BY <3>3 DEF net, Goto
      <4>2. Stream' = rx' \o inbox
        BY <4>1 DEF Stream
      <4>. QED BY <1>1, <2>1, <2>3, <3>2, <3>3, <4>1, <4>2 DEF InboundInv
    <3>4. CASE HangUp("CONNECT")
      <4>1. /\ link' = "down" /\ state' = "DISCONNECTED" /\ pc' = "idle"
            /\ inbox' = <<>> \/ (KeepsBytes /\ inbox' = inbox)
        BY <2>3, <3>4, ReturnsToApplication DEF HangUp, transport_disconnect, LeftBehind
      <4>2. Stream' \in {rx', rx' \o inbox}
        <5>1. rx' \in Seq(InByte)
          BY <2>1, HeaderType, ConsumePreserves
        <5>. QED BY <4>1, <5>1, ConcatEmptySeq DEF Stream
      <4>. QED BY <1>1, <2>1, <2>3, <3>2, <4>1, <4>2 DEF InboundInv
    <3>. QED BY <2>1, <3>3, <3>4
  <2>. QED BY <2>2, <2>3
<1>. QED BY <1>3, <1>4, <1>5, <1>6, <1>7

\* So do the other steps of a poll; the packet a dispatch is about is the
\* first one of the stream, and consuming it makes the next one the first.
LEMMA InboundPoll ==
    ASSUME TypeOK, TransportInv, ReadInv, InboundInv, Poll
    PROVE  InboundInv'
<1>1. CASE \/ handle_state_connecting \/ connect_sent_read \/ connack_wait
           \/ connack_error \/ connack_received
  BY <1>1, InboundHandshake
<1>2. CASE client_flush_pending \/ handle_state_disconnected
  <2>1. UNCHANGED <<rx, inbox, sent, done, link, state, damage>>
    BY <1>2 DEF client_flush_pending, handle_state_disconnected, net, hist, client
  <2>2. Undamaged => pc' \notin {"callback", "consume"}
    BY <1>2, ReturnsToApplication DEF client_flush_pending, handle_state_disconnected, Goto
  <2>. QED BY <2>1, <2>2, InboundUntouched DEF Undamaged
<1>3. CASE client_send_connect \/ client_keepalive
  <2>1. UNCHANGED <<rx, inbox, sent, done, link, state>>
    BY <1>3 DEF client_send_connect, client_keepalive, net
  <2>2. Undamaged' => Undamaged
    BY <1>3, SendKeepsUndamaged DEF client_send_connect, client_keepalive, Undamaged
  <2>3. Undamaged => pc' \notin {"callback", "consume"}
    BY <1>3, ReturnsToApplication DEF client_send_connect, client_keepalive
  <2>. QED BY <2>1, <2>2, <2>3, InboundUntouched
<1>4. CASE handle_state_mqtt_connected \/ parse_wait
  <2>1. UNCHANGED <<rx, inbox, sent, done, link, state, damage>> /\ pc' \in {"read", "keepalive"}
    BY <1>4 DEF handle_state_mqtt_connected, parse_wait, Goto, net, hist, client
  <2>. QED BY <2>1, InboundUntouched DEF Undamaged
<1>5. CASE handle_state_mqtt_disconnecting
  <2>1. /\ UNCHANGED <<rx, sent, done, damage>> /\ link' = "down" /\ inbox' = LeftBehind
        /\ state' = "DISCONNECTED" /\ Return("OK")
    BY <1>5 DEF handle_state_mqtt_disconnecting, HangUp, transport_disconnect, hist
  <2>2. Undamaged => pc' = "idle"
    BY <2>1, ReturnsToApplication
  <2>. QED BY <2>1, <2>2, InboundCutOff DEF Undamaged, LeftBehind
<1>6. CASE client_read
  <2>1. PICK r \in transport_read(RxRoom) :
          \/ Return("IO") /\ UNCHANGED <<rx, inbox>>
          \/ /\ rx' = rx \o Taken(inbox, r.n) /\ inbox' = Remaining(inbox, r.n)
             /\ Goto("parse")
    BY <1>6 DEF client_read
  <2>2. UNCHANGED <<state, sent, done, link, damage>>
    BY <1>6 DEF client_read, hist
  <2>3. CASE Return("IO") /\ UNCHANGED <<rx, inbox>>
    <3>1. Undamaged => pc' = "idle"
      BY <2>3, ReturnsToApplication
    <3>. QED BY <2>2, <2>3, <3>1, InboundUntouched DEF Undamaged
  <2>4. CASE /\ rx' = rx \o Taken(inbox, r.n) /\ inbox' = Remaining(inbox, r.n)
             /\ Goto("parse")
    <3>1. pc' \notin {"callback", "consume"}
      BY <2>4 DEF Goto
    <3>. QED BY <2>2, <2>4, <3>1, InboundRead
  <2>. QED BY <2>1, <2>3, <2>4
<1>7. CASE parse_error
  <2>1. UNCHANGED <<rx, inbox, sent, done, link, state, damage>> /\ \E st : Return(st)
    BY <1>7 DEF parse_error, net, hist, client
  <2>2. Undamaged => pc' = "idle"
    BY <2>1, ReturnsToApplication
  <2>. QED BY <2>1, <2>2, InboundUntouched DEF Undamaged
<1>8. CASE client_dispatch_packet
  <2>1. PICK h \in decode_fixed_header(rx) :
          h.st = "OK" /\ packet_len' = h.len
    BY <1>8 DEF client_dispatch_packet
  <2>2. UNCHANGED <<rx, inbox, sent, done, link, state, damage>>
    BY <1>8 DEF client_dispatch_packet, net, client
  <2>3. Stream' = Stream
    BY <2>2 DEF Stream
  <2>4. Undamaged => rx # <<>> /\ packet_len' = InPacket(rx[1].k).len
    BY <2>1, DecodesFirst
  <2>. QED BY <2>2, <2>3, <2>4 DEF InboundInv, Undamaged
<1>9. CASE on_message_returns
  <2>1. UNCHANGED <<rx, inbox, sent, done, link, state, damage, packet_len>> /\ pc = "callback"
    BY <1>9 DEF on_message_returns, Goto, net, hist, client
  <2>. QED BY <2>1, InboundUntouched DEF Undamaged
<1>10. CASE consume_packet
  <2>1. UNCHANGED <<inbox, sent, link, state, damage>> /\ pc = "consume"
        /\ pc' \notin {"callback", "consume"}
    BY <1>10 DEF consume_packet, NextPacket, net
  <2>2. Undamaged' <=> Undamaged
    BY <2>1 DEF Undamaged
  <2>3. CASE ~Undamaged
    BY <2>1, <2>2, <2>3 DEF InboundInv
  <2>4. CASE Undamaged
    <3>1. /\ rx # <<>> /\ packet_len = InPacket(rx[1].k).len
          /\ packet_len <= Len(rx) /\ state \in {"CONNECTED", "DISCONNECTING"}
      BY <2>1, <2>4 DEF InboundInv, ReadInv, Undamaged, RxDamage
    <3>2. packet_len \in Nat /\ Len(rx) \in Nat
      BY StreamType DEF TypeOK
    <3>3. rx' = Remaining(rx, packet_len) /\ done' = done + 1
      BY <1>10, <3>1, <3>2 DEF consume_packet
    <3>4. /\ Contiguous(rx' \o inbox, sent) /\ StartsBehind(rx' \o inbox, done + 1)
          /\ done + 1 <= Len(sent)
          /\ EndsWith(Stream, sent, done) => EndsWith(rx' \o inbox, sent, done + 1)
      BY <2>4, <3>1, <3>3, InboundConsume
    <3>5. Stream' = rx' \o inbox
      BY <2>1 DEF Stream
    <3>. QED BY <2>1, <2>2, <2>4, <3>1, <3>3, <3>4, <3>5 DEF InboundInv
  <2>. QED BY <2>3, <2>4
<1>. QED BY <1>1, <1>2, <1>3, <1>4, <1>5, <1>6, <1>7, <1>8, <1>9, <1>10 DEF Poll

\* So do the clock, the network and the broker.
LEMMA InboundEnv ==
    ASSUME TypeOK, InboundInv, Tick \/ Network
    PROVE  InboundInv'
<1>1. CASE Tick
  <2>1. UNCHANGED <<rx, inbox, sent, done, link, state, damage, pc, packet_len>>
    BY <1>1 DEF Tick, net, call, hist
  <2>. QED BY <2>1, InboundUntouched DEF Undamaged
<1>2. CASE LinkOpens
  <2>1. /\ UNCHANGED <<rx, inbox, sent, done, state, damage, pc, packet_len>>
        /\ link = "opening" /\ link' = "up"
    BY <1>2 DEF LinkOpens, Opens, client, call, hist
  <2>2. Stream' = Stream /\ (Undamaged' <=> Undamaged)
    BY <2>1 DEF Stream, Undamaged
  <2>. QED BY <2>1, <2>2 DEF InboundInv
<1>3. CASE LinkDies
  <2>1. /\ UNCHANGED <<rx, sent, done, state, damage, pc, packet_len>>
        /\ link' = "dead" /\ inbox' \in {inbox, <<>>}
    BY <1>3 DEF LinkDies, Dies, client, call, hist
  <2>. QED BY <2>1, InboundCutOff DEF Undamaged
<1>4. ASSUME NEW kind \in InKinds, BrokerSends(kind) PROVE InboundInv'
  <2>1. /\ UNCHANGED <<rx, done, state, damage, pc, packet_len, link>> /\ link = "up"
        /\ sent' = Append(sent, kind) /\ inbox' = inbox \o InBytes(kind, Len(sent) + 1)
    BY <1>4 DEF BrokerSends, client, call, hist
  <2>2. Stream' = Stream \o InBytes(kind, Len(sent) + 1)
    <3>1. Len(sent) + 1 \in Nat
      BY StreamType
    <3>2. InBytes(kind, Len(sent) + 1) \in Seq(InByte)
      BY <3>1, InBytesType
    <3>3. rx \in Seq(InByte) /\ inbox \in Seq(InByte)
      BY StreamType
    <3>. DEFINE b == InBytes(kind, Len(sent) + 1)
    <3>. HIDE DEF b
    <3>4. (rx \o inbox) \o b = rx \o (inbox \o b)
      BY <3>2, <3>3, ConcatAssociative DEF b
    <3>. QED BY <2>1, <3>4 DEF Stream, b
  <2>3. Undamaged' <=> Undamaged
    BY <2>1 DEF Undamaged
  <2>4. Undamaged => /\ Contiguous(Stream', sent') /\ StartsBehind(Stream', done)
                     /\ EndsWith(Stream', sent', done)
    BY <2>1, <2>2, StreamType, LongerContiguous DEF InboundInv
  <2>5. Len(sent') = Len(sent) + 1
    BY <2>1, StreamType, AppendProperties
  <2>6. Undamaged => done <= Len(sent')
    BY <2>5, StreamType DEF InboundInv
  <2>. QED BY <2>1, <2>3, <2>4, <2>6 DEF InboundInv
<1>. QED BY <1>1, <1>2, <1>3, <1>4 DEF Network

\* Every step keeps the inbound invariant.
LEMMA InboundStep ==
    ASSUME TypeOK, TransportInv, ReadInv, InboundInv, [Next]_vars
    PROVE  InboundInv'
<1>1. CASE UNCHANGED vars
  <2>1. UNCHANGED <<rx, inbox, sent, done, link, state, damage, pc, packet_len>>
    BY <1>1 DEF vars, client, call, net, hist
  <2>. QED BY <2>1, InboundUntouched DEF Undamaged
<1>. QED BY <1>1, InboundUser, InboundPoll, InboundEnv DEF Next

\* The byte behind another one of the same packet.
LEMMA NextByte ==
    ASSUME NEW b \in InByte
    PROVE  [b EXCEPT !.i = b.i + 1] = [k |-> b.k, n |-> b.n, i |-> b.i + 1]
BY DEF InByte

\* The inbound stream is cut into the broker's packets and goes on without a
\* gap, whatever the sizes, the reads and the packets (client_read).  The
\* first three conjuncts of InboundInOrder follow from the distance form.
LEMMA InboundFollows ==
    ASSUME TypeOK, InboundInv, Undamaged
    PROVE  LET s == rx \o inbox IN
           /\ s # <<>> => s[1].n = done + 1 /\ s[1].i = 1 /\ s[1].k = sent[done + 1]
           /\ \A j \in 1..(Len(s) - 1) : Follows(s[j], s[j + 1])
           /\ link = "up" => IF s = <<>> THEN done = Len(sent)
                             ELSE /\ s[Len(s)].n = Len(sent)
                                  /\ s[Len(s)].i = InPacket(s[Len(s)].k).len
<1>. DEFINE s == rx \o inbox
<1>1. /\ s \in Seq(InByte) /\ done \in Nat
      /\ Contiguous(s, sent) /\ StartsBehind(s, done)
      /\ link = "up" => EndsWith(s, sent, done)
  BY StreamType DEF InboundInv, Stream
<1>. HIDE DEF s
<1>2. s # <<>> => s[1].n = done + 1 /\ s[1].i = 1 /\ s[1].k = sent[done + 1]
  BY <1>1, FirstPacket DEF StartsBehind
<1>3. ASSUME NEW j \in 1..(Len(s) - 1) PROVE Follows(s[j], s[j + 1])
  <2>1. Len(s) \in Nat
    BY <1>1, LenProperties
  <2>2. j \in 1..Len(s) /\ j + 1 \in 1..Len(s) /\ j + 1 \in j..Len(s) /\ j < Len(s)
    BY <2>1
  <2>3. /\ s[j] = [k |-> s[j].k, n |-> s[j].n, i |-> s[j].i]
        /\ s[j].n \in Nat /\ s[j].i \in Nat /\ InPacket(s[j].k).len \in Nat
    BY <1>1, <2>2, ByteAt
  <2>4. CASE s[j].i < InPacket(s[j].k).len
    <3>1. (j + 1) - j <= InPacket(s[j].k).len - s[j].i /\ s[j].i + ((j + 1) - j) = s[j].i + 1
      BY <2>3, <2>4
    <3>2. s[j + 1] = [k |-> s[j].k, n |-> s[j].n, i |-> s[j].i + ((j + 1) - j)]
      BY <1>1, <2>2, <3>1 DEF Contiguous
    <3>3. s[j + 1] = [s[j] EXCEPT !.i = s[j].i + 1]
      BY <1>1, <2>2, <3>1, <3>2, ElementOfSeq, NextByte
    <3>. QED BY <2>4, <3>3 DEF Follows
  <2>5. CASE ~(s[j].i < InPacket(s[j].k).len)
    <3>1. s[j].i = InPacket(s[j].k).len
      BY <1>1, <2>2, <2>3, <2>5 DEF Contiguous
    <3>2. s[j + 1].n = s[j].n + 1 /\ s[j + 1].i = 1
      BY <1>1, <2>2, <3>1 DEF Contiguous
    <3>3. s[j + 1].n \in 1..Len(sent) /\ s[j + 1].k = sent[s[j + 1].n]
      BY <1>1, <2>2 DEF Contiguous
    <3>4. s[j + 1].n <= Len(sent)
      BY <3>3, StreamType
    <3>. QED BY <2>5, <3>2, <3>3, <3>4 DEF Follows
  <2>. QED BY <2>4, <2>5
<1>4. link = "up" => IF s = <<>> THEN done = Len(sent)
                     ELSE /\ s[Len(s)].n = Len(sent)
                          /\ s[Len(s)].i = InPacket(s[Len(s)].k).len
  BY <1>1 DEF EndsWith
<1>. QED BY <1>2, <1>3, <1>4 DEF s

-----------------------------------------------------------------------------
(* Delivery *)

\* del are the PUBLISHes among the first h packets of q, in order
InOrder(del, h, q) ==
    /\ {del[a] : a \in 1..Len(del)} = {j \in 1..h : q[j] = "PUBLISH"}
    /\ \A a, b \in 1..Len(del) : a < b => del[a] < del[b]

\* A packet that is no PUBLISH is passed over.
LEMMA PassedOver ==
    ASSUME NEW del, NEW h \in Nat, NEW q, InOrder(del, h, q), q[h + 1] # "PUBLISH"
    PROVE  InOrder(del, h + 1, q)
<1>1. {j \in 1..(h + 1) : q[j] = "PUBLISH"} = {j \in 1..h : q[j] = "PUBLISH"}
  <2>1. \A j : j \in 1..(h + 1) <=> j \in 1..h \/ j = h + 1
    OBVIOUS
  <2>. QED BY <2>1
<1>. QED BY <1>1 DEF InOrder

\* A PUBLISH is handed over behind those before it.
LEMMA HandedOver ==
    ASSUME NEW del \in Seq(Nat), NEW h \in Nat, NEW q, InOrder(del, h, q),
           q[h + 1] = "PUBLISH"
    PROVE  InOrder(Append(del, h + 1), h + 1, q)
<1>. DEFINE e == Append(del, h + 1)
            l == Len(del)
<1>1. /\ l \in Nat /\ Len(e) = l + 1 /\ e[l + 1] = h + 1
      /\ \A a \in 1..l : e[a] = del[a]
  <2>1. h + 1 \in Nat
    OBVIOUS
  <2>. QED BY <2>1, AppendProperties, LenProperties
<1>. HIDE DEF e, l
<1>2. \A j : j \in 1..(h + 1) <=> j \in 1..h \/ j = h + 1
  OBVIOUS
<1>3. \A j : j \in 1..(l + 1) <=> j \in 1..l \/ j = l + 1
  BY <1>1
<1>4. /\ {del[a] : a \in 1..l} = {j \in 1..h : q[j] = "PUBLISH"}
      /\ \A a, b \in 1..l : a < b => del[a] < del[b]
  BY DEF InOrder, l
<1>5. {e[a] : a \in 1..(l + 1)} = {del[a] : a \in 1..l} \cup {h + 1}
  BY <1>1, <1>3
<1>6. {j \in 1..(h + 1) : q[j] = "PUBLISH"} = {j \in 1..h : q[j] = "PUBLISH"} \cup {h + 1}
  BY <1>2
<1>7. ASSUME NEW a \in 1..(l + 1), NEW b \in 1..(l + 1), a < b PROVE e[a] < e[b]
  <2>1. a \in 1..l /\ e[a] = del[a]
    BY <1>1, <1>7
  <2>2. del[a] \in 1..h
    BY <1>4, <2>1
  <2>3. CASE b \in 1..l
    BY <2>1, <2>3, <1>1, <1>4, <1>7
  <2>4. CASE b = l + 1
    BY <2>1, <2>2, <2>4, <1>1
  <2>. QED BY <2>3, <2>4, <1>3
<1>. QED BY <1>1, <1>4, <1>5, <1>6, <1>7 DEF InOrder, e

\* What the broker sends later changes nothing about what is handled.
LEMMA SentLater ==
    ASSUME NEW del, NEW q \in Seq(InKinds), NEW h \in 0..Len(q), NEW kind \in InKinds,
           InOrder(del, h, q)
    PROVE  InOrder(del, h, Append(q, kind))
<1>1. \A j \in 1..h : Append(q, kind)[j] = q[j]
  BY AppendProperties, LenProperties
<1>2. {j \in 1..h : Append(q, kind)[j] = "PUBLISH"} = {j \in 1..h : q[j] = "PUBLISH"}
  BY <1>1
<1>. QED BY <1>2 DEF InOrder

\* what the client passes over in silence
SkippedKinds == {"CONNACK_OK", "CONNACK_REFUSED", "CONNACK_SHORT", "PINGRESP", "SUBACK"}

\* What the client takes a packet for, by what the decoders say of it.
LEMMA KindOf ==
    ASSUME NEW k \in AllInKinds
    PROVE  LET p == InPacket(k) IN
           /\ p.type = "CONNACK" => k \in ConnackKinds /\ k # "PUBLISH"
           /\ p.type = "CONNACK" /\ p.body = "OK" /\ p.len <= RxSize => k = "CONNACK_OK"
           /\ p.type = "PUBLISH" /\ p.body = "OK" /\ p.len <= RxSize => k = "PUBLISH"
           /\ p.type # "PUBLISH" => k # "PUBLISH"
           /\ p.type \notin {"PUBLISH", "INVALID"} /\ p.len <= RxSize => k \in SkippedKinds
<1>. USE SizesAssumption DEF InPacket, ConnackKinds, SkippedKinds
<1>1. CASE k = "CONNACK_OK"
  BY <1>1
<1>2. CASE k = "CONNACK_REFUSED"
  BY <1>2
<1>3. CASE k = "CONNACK_SHORT"
  BY <1>3
<1>4. CASE k = "CONNACK_BIG"
  BY <1>4
<1>5. CASE k = "PUBLISH"
  BY <1>5
<1>6. CASE k = "PUBLISH_QOS1"
  BY <1>6
<1>7. CASE k = "PUBLISH_MALFORMED"
  BY <1>7
<1>8. CASE k = "PUBLISH_BIG"
  BY <1>8
<1>9. CASE k = "PINGRESP"
  BY <1>9
<1>10. CASE k = "SUBACK"
  BY <1>10
<1>11. CASE k = "BAD_FLAGS"
  BY <1>11
<1>. QED BY <1>1, <1>2, <1>3, <1>4, <1>5, <1>6, <1>7, <1>8, <1>9, <1>10, <1>11 DEF AllInKinds

\* Steps that hand nothing over and finish no packet.
LEMMA DeliveryUntouched ==
    ASSUME DeliveryInv, UNCHANGED <<delivered, sent>>,
           Undamaged' => Undamaged /\ Handled' = Handled
    PROVE  DeliveryInv'
BY DEF DeliveryInv, DeliveredInOrder

\* API calls hand nothing over; a new connection starts with nothing handled.
LEMMA DeliveryUser ==
    ASSUME DeliveryInv, User
    PROVE  DeliveryInv'
<1>1. CASE aemlib_connect
  <2>1. UNCHANGED pc /\ pc \in {"idle", "callback"}
    BY <1>1 DEF aemlib_connect, MayCall, call
  <2>2. CASE NewConnection
    <3>1. /\ sent' = <<>> /\ done' = 0 /\ delivered' = <<>>
          /\ pc # "idle" => "rx_reentered" \in damage'
      BY <2>2 DEF NewConnection
    <3>2. Undamaged' => Handled' = 0
      BY <2>1, <3>1 DEF Undamaged, RxDamage, Handled
    <3>3. Len(delivered') = 0
      BY <3>1
    <3>. QED BY <3>2, <3>3 DEF DeliveryInv, DeliveredInOrder
  <2>3. CASE SameConnection
    <3>1. UNCHANGED <<delivered, sent, done>> /\ damage \subseteq damage'
      BY <2>3 DEF SameConnection
    <3>2. (Undamaged' => Undamaged) /\ Handled' = Handled
      BY <2>1, <3>1 DEF Undamaged, Handled
    <3>. QED BY <3>1, <3>2, DeliveryUntouched
  <2>. QED BY <1>1, <2>2, <2>3 DEF aemlib_connect
<1>2. CASE aemlib_connect_invalid
  <2>1. UNCHANGED <<delivered, sent, done, pc>> /\ damage \subseteq damage'
    BY <1>2 DEF aemlib_connect_invalid, net, call
  <2>2. (Undamaged' => Undamaged) /\ Handled' = Handled
    BY <2>1 DEF Undamaged, Handled
  <2>. QED BY <2>1, <2>2, DeliveryUntouched
<1>3. CASE aemlib_disconnect \/ aemlib_publish \/ aemlib_subscribe
  <2>1. UNCHANGED <<delivered, sent, done, pc>>
    BY <1>3 DEF aemlib_disconnect, aemlib_publish, aemlib_subscribe, net, call, hist
  <2>2. (Undamaged' => Undamaged) /\ Handled' = Handled
    BY <1>3, <2>1, SendKeepsUndamaged
       DEF aemlib_disconnect, aemlib_publish, aemlib_subscribe, hist, Undamaged, Handled
  <2>. QED BY <2>1, <2>2, DeliveryUntouched
<1>4. CASE poll_from_callback
  <2>1. ~Undamaged'
    BY <1>4 DEF poll_from_callback, Undamaged, RxDamage
  <2>. QED BY <2>1 DEF DeliveryInv
<1>. QED BY <1>1, <1>2, <1>3, <1>4 DEF User

\* Only the CONNACK is finished during the handshake.
LEMMA DeliveryHandshake ==
    ASSUME TypeOK, ReadInv, InboundInv, DeliveryInv,
           \/ handle_state_connecting \/ connect_sent_read \/ connack_wait
           \/ connack_error \/ connack_received
    PROVE  DeliveryInv'
<1>1. /\ UNCHANGED <<sent, delivered, damage>> /\ pc \in {"core", "connack"}
      /\ Undamaged' <=> Undamaged
  BY DEF handle_state_connecting, connect_sent_read, connack_wait, connack_error,
         connack_received, HangUp, net, hist, Undamaged
<1>2. Undamaged => pc' \notin {"callback", "consume"}
  BY ReturnsToApplication
     DEF handle_state_connecting, connect_sent_read, connack_wait, connack_error,
         connack_received, HangUp, ConnectIfUnsent, Goto
<1>3. CASE handle_state_connecting \/ connect_sent_read \/ connack_wait \/ connack_error
  <2>1. UNCHANGED done
    BY <1>3 DEF handle_state_connecting, connect_sent_read, connack_wait, connack_error, hist
  <2>2. Undamaged => Handled' = Handled
    BY <2>1, <1>1, <1>2 DEF Handled
  <2>. QED BY <1>1, <2>2, DeliveryUntouched
<1>4. CASE connack_received
  <2>. SUFFICES ASSUME Undamaged, OnMessage PROVE DeliveredInOrder'
    BY <1>1 DEF DeliveryInv
  <2>1. PICK h \in decode_fixed_header(rx) :
          h.st = "OK" /\ h.type = "CONNACK" /\ done' = done + 1
    BY <1>4 DEF connack_received
  <2>2. /\ rx[1].k \in InKinds /\ rx[1].k = sent[done + 1]
        /\ h.type = InPacket(rx[1].k).type
    BY <2>1, DecodesFirst
  <2>3. sent[done + 1] # "PUBLISH"
    BY <2>1, <2>2, KindOf, UserAssumption
  <2>4. Handled = done /\ Handled' = done + 1 /\ done \in Nat
    BY <2>1, <1>1, <1>2 DEF Handled, TypeOK
  <2>5. InOrder(delivered, done, sent)
    BY <2>4 DEF DeliveryInv, DeliveredInOrder, InOrder
  <2>6. InOrder(delivered, done + 1, sent)
    BY <2>3, <2>4, <2>5, PassedOver
  <2>. QED BY <2>4, <2>6, <1>1 DEF DeliveredInOrder, InOrder
<1>. QED BY <1>3, <1>4

\* A dispatched PUBLISH is the next one the broker sent, and nothing else is
\* handed over; consuming the packet then leaves the account as it is.
LEMMA DeliveryPoll ==
    ASSUME TypeOK, ReadInv, InboundInv, DeliveryInv, Poll
    PROVE  DeliveryInv'
<1>1. CASE \/ handle_state_connecting \/ connect_sent_read \/ connack_wait
           \/ connack_error \/ connack_received
  BY <1>1, DeliveryHandshake
<1>2. CASE \/ client_flush_pending \/ handle_state_disconnected \/ client_send_connect
           \/ handle_state_mqtt_connected \/ handle_state_mqtt_disconnecting
           \/ client_read \/ parse_wait \/ parse_error \/ client_keepalive
  <2>1. /\ UNCHANGED <<delivered, sent, done>>
        /\ pc \notin {"callback", "consume"}
    BY <1>2 DEF client_flush_pending, handle_state_disconnected, client_send_connect,
                handle_state_mqtt_connected, handle_state_mqtt_disconnecting,
                client_read, parse_wait, parse_error, client_keepalive, HangUp, net, hist
  <2>2. Undamaged' => Undamaged
    BY <1>2, SendKeepsUndamaged
       DEF client_flush_pending, handle_state_disconnected, client_send_connect,
           handle_state_mqtt_connected, handle_state_mqtt_disconnecting,
           client_read, parse_wait, parse_error, client_keepalive, hist, Undamaged
  <2>3. Undamaged => pc' \notin {"callback", "consume"}
    BY <1>2, ReturnsToApplication
       DEF client_flush_pending, handle_state_disconnected, client_send_connect,
           handle_state_mqtt_connected, handle_state_mqtt_disconnecting,
           client_read, parse_wait, parse_error, client_keepalive, HangUp, Goto
  <2>. QED BY <2>1, <2>2, <2>3, DeliveryUntouched DEF Handled
<1>3. CASE client_dispatch_packet
  <2>1. PICK h \in decode_fixed_header(rx) :
          /\ h.st = "OK" /\ h.len <= Len(rx)
          /\ h.type = "PUBLISH" => h.body = "OK"
          /\ IF h.type = "PUBLISH" /\ OnMessage
             THEN pc' = "callback" /\ delivered' = Append(delivered, rx[1].n)
             ELSE pc' = "consume" /\ UNCHANGED delivered
    BY <1>3 DEF client_dispatch_packet, PacketBuffered
  <2>2. UNCHANGED <<sent, done, damage>> /\ pc = "parse"
    BY <1>3 DEF client_dispatch_packet, net
  <2>. SUFFICES ASSUME Undamaged, OnMessage PROVE DeliveredInOrder'
    BY <2>2 DEF DeliveryInv, Undamaged
  <2>3. /\ rx[1].k \in AllInKinds /\ rx[1].k = sent[done + 1] /\ rx[1].n = done + 1
        /\ h.type = InPacket(rx[1].k).type /\ h.len = InPacket(rx[1].k).len
        /\ h.body = InPacket(rx[1].k).body
    BY <2>1, DecodesFirst, UserAssumption
  <2>4. InPacket(rx[1].k).len <= RxSize
    <3>1. h.len \in Nat /\ Len(rx) \in Nat /\ RxSize \in Nat
      BY StreamType, HeaderType, SizesAssumption
    <3>2. Len(rx) <= RxSize
      BY DEF TypeOK
    <3>3. h.len <= RxSize
      BY <2>1, <3>1, <3>2
    <3>. QED BY <2>3, <3>3
  <2>5. Handled = done /\ Handled' = done + 1 /\ done \in Nat /\ delivered \in Seq(Nat)
    BY <2>1, <2>2 DEF Handled, TypeOK
  <2>6. InOrder(delivered, done, sent)
    BY <2>5 DEF DeliveryInv, DeliveredInOrder, InOrder
  <2>7. CASE h.type = "PUBLISH"
    <3>1. sent[done + 1] = "PUBLISH"
      BY <2>1, <2>3, <2>4, <2>7, KindOf
    <3>2. InOrder(Append(delivered, done + 1), done + 1, sent)
      BY <2>5, <2>6, <3>1, HandedOver
    <3>3. delivered' = Append(delivered, done + 1)
      BY <2>1, <2>3, <2>7
    <3>. QED BY <2>2, <2>5, <3>2, <3>3 DEF DeliveredInOrder, InOrder
  <2>8. CASE h.type # "PUBLISH"
    <3>1. sent[done + 1] # "PUBLISH"
      BY <2>3, <2>8, KindOf
    <3>2. InOrder(delivered, done + 1, sent)
      BY <2>5, <2>6, <3>1, PassedOver
    <3>3. delivered' = delivered
      BY <2>1, <2>8
    <3>. QED BY <2>2, <2>5, <3>2, <3>3 DEF DeliveredInOrder, InOrder
  <2>. QED BY <2>7, <2>8
<1>4. CASE on_message_returns
  <2>1. /\ UNCHANGED <<delivered, sent, done, damage>>
        /\ pc = "callback" /\ pc' = "consume"
    BY <1>4 DEF on_message_returns, Goto, net, hist
  <2>. QED BY <2>1, DeliveryUntouched DEF Handled, Undamaged
<1>5. CASE consume_packet
  <2>1. UNCHANGED <<delivered, sent, damage>> /\ pc = "consume"
    BY <1>5 DEF consume_packet, net
  <2>2. Undamaged => Handled' = Handled
    <3>1. SUFFICES ASSUME Undamaged PROVE Handled' = Handled
      OBVIOUS
    <3>2. packet_len <= Len(rx) /\ packet_len \in Nat /\ Len(rx) \in Nat /\ done \in Nat
      BY <2>1, <3>1, StreamType DEF ReadInv, Undamaged, RxDamage, TypeOK
    <3>3. done' = done + 1 /\ pc' = "parse"
      BY <1>5, <3>2 DEF consume_packet, NextPacket
    <3>. QED BY <2>1, <3>2, <3>3 DEF Handled
  <2>. QED BY <2>1, <2>2, DeliveryUntouched DEF Undamaged
<1>. QED BY <1>1, <1>2, <1>3, <1>4, <1>5 DEF Poll

\* What is being dispatched has been sent.
LEMMA HandledWasSent ==
    ASSUME TypeOK, InboundInv, Undamaged
    PROVE  Handled \in 0..Len(sent)
<1>1. done \in Nat /\ Len(sent) \in Nat /\ done <= Len(sent)
  BY StreamType DEF InboundInv
<1>2. CASE pc \in {"callback", "consume"}
  <2>1. /\ Stream # <<>> /\ Stream \in Seq(InByte)
        /\ Contiguous(Stream, sent) /\ StartsBehind(Stream, done)
    BY <1>2, StreamType DEF InboundInv
  <2>2. done + 1 \in 1..Len(sent)
    BY <1>1, <2>1, FirstPacket
  <2>. QED BY <1>1, <1>2, <2>2 DEF Handled
<1>3. CASE pc \notin {"callback", "consume"}
  BY <1>1, <1>3 DEF Handled
<1>. QED BY <1>2, <1>3

\* Every step keeps the account of what was handed over.
LEMMA DeliveryStep ==
    ASSUME TypeOK, ReadInv, InboundInv, DeliveryInv, [Next]_vars
    PROVE  DeliveryInv'
<1>1. CASE UNCHANGED vars \/ Tick \/ LinkOpens \/ LinkDies
  <2>1. UNCHANGED <<delivered, sent, done, damage, pc>>
    BY <1>1 DEF vars, Tick, LinkOpens, LinkDies, call, net, hist
  <2>. QED BY <2>1, DeliveryUntouched DEF Undamaged, Handled
<1>2. ASSUME NEW kind \in InKinds, BrokerSends(kind) PROVE DeliveryInv'
  <2>1. UNCHANGED <<delivered, done, damage, pc>> /\ sent' = Append(sent, kind)
    BY <1>2 DEF BrokerSends, call, hist
  <2>. SUFFICES ASSUME Undamaged, OnMessage PROVE DeliveredInOrder'
    BY <2>1 DEF DeliveryInv, Undamaged
  <2>2. Handled' = Handled /\ Handled \in 0..Len(sent) /\ sent \in Seq(InKinds)
    BY <2>1, HandledWasSent, StreamType DEF Handled
  <2>3. InOrder(delivered, Handled, sent)
    BY DEF DeliveryInv, DeliveredInOrder, InOrder
  <2>. HIDE DEF Handled
  <2>4. InOrder(delivered, Handled, Append(sent, kind))
    BY <2>2, <2>3, SentLater
  <2>. QED BY <2>1, <2>2, <2>4 DEF DeliveredInOrder, InOrder
<1>. QED BY <1>1, <1>2, DeliveryUser, DeliveryPoll DEF Next, Network

\* However reads split the inbound stream and whatever the application does
\* between and during them, short of taking rx_buffer away under the client:
\* the stream continues without a gap from the first byte of the first packet
\* not yet consumed, and on_message has got every PUBLISH so far once and in
\* order (client_read, handle_state_mqtt_connect_sent).
THEOREM InboundCorrect == Spec => []InboundInOrder
<1>. DEFINE I == TypeOK /\ TransportInv /\ ReadInv /\ InboundInv /\ DeliveryInv
<1>1. Init => I
  <2>1. Init => TransportInv /\ ReadInv
    BY DEF Init, TransportInv, TransportHeld, ReadInv, NoUnderflow
  <2>2. Init => DeliveryInv
    <3>. SUFFICES ASSUME Init PROVE DeliveredInOrder
      BY DEF DeliveryInv
    <3>1. Handled = 0 /\ Len(delivered) = 0
      BY DEF Init, Handled
    <3>. QED BY <3>1 DEF DeliveredInOrder
  <2>. QED BY <2>1, <2>2, TypeInit, InboundInit
<1>2. I /\ [Next]_vars => I'
  BY TypeStep, TransportStep, ReadStep, InboundStep, DeliveryStep
<1>3. I => InboundInOrder
  BY InboundFollows DEF DeliveryInv, InboundInOrder, Undamaged
<1>. QED BY <1>1, <1>2, <1>3, PTL DEF Spec

-----------------------------------------------------------------------------
(* A poll leaves nothing to handle *)

\* On an undamaged stream the decoder gives one verdict.
LEMMA OneVerdict ==
    ASSUME TypeOK, InboundInv, Undamaged,
           NEW g \in decode_fixed_header(rx), NEW h \in decode_fixed_header(rx)
    PROVE  g = h
<1>1. CASE Len(rx) < 2
  BY <1>1 DEF decode_fixed_header
<1>2. CASE ~(Len(rx) < 2)
  <2>1. rx # <<>>
    BY <1>2
  <2>2. Stream # <<>> /\ Stream[1] = rx[1] /\ StartsBehind(Stream, done)
    BY <2>1, StreamType DEF InboundInv
  <2>3. rx[1].i = 1
    BY <2>2 DEF StartsBehind
  <2>. QED BY <1>2, <2>3 DEF decode_fixed_header
<1>. QED BY <1>1, <1>2

\* Steps that leave rx_buffer alone and enter neither point.
LEMMA DrainUntouched ==
    ASSUME DrainInv, UNCHANGED <<rx, state>>, Undamaged' => Undamaged,
           pc' = pc /\ poll_status' = poll_status
    PROVE  DrainInv'
BY DEF DrainInv, Drained, MustWait

\* A poll that has gone on, failed or left the client unconnected owes nothing.
LEMMA NotDrained ==
    ASSUME pc' \notin {"send_connect", "keepalive"},
           pc' = "idle" => poll_status' # "OK" \/ state' # "CONNECTED"
    PROVE  DrainInv'
BY DEF DrainInv

\* Every step keeps the account of what a poll has handled.
LEMMA DrainStep ==
    ASSUME TypeOK, TransportInv, ReadInv, InboundInv, DrainInv, [Next]_vars
    PROVE  DrainInv'
<1>1. CASE aemlib_connect \/ aemlib_disconnect
  BY <1>1, NotDrained DEF aemlib_connect, aemlib_disconnect, MayCall, call
<1>2. CASE aemlib_connect_invalid
  <2>1. /\ UNCHANGED <<state, pc, poll_status>>
        /\ rx' = <<>> /\ damage \subseteq damage'
        /\ rx # <<>> => "rx_dropped" \in damage'
        /\ pc \in {"idle", "callback"}
    BY <1>2 DEF aemlib_connect_invalid, DiscardLeftovers, Discarded, call, MayCall
  <2>2. Undamaged' => Undamaged /\ rx' = rx
    BY <2>1 DEF Undamaged, RxDamage
  <2>3. CASE Undamaged'
    BY <2>1, <2>2, <2>3, DrainUntouched
  <2>4. CASE ~Undamaged'
    BY <2>1, <2>4 DEF DrainInv
  <2>. QED BY <2>3, <2>4
<1>3. CASE aemlib_publish \/ aemlib_subscribe
  <2>1. UNCHANGED <<rx, state, pc, poll_status>>
    BY <1>3 DEF aemlib_publish, aemlib_subscribe, call
  <2>2. Undamaged' => Undamaged
    BY <1>3, SendKeepsUndamaged DEF aemlib_publish, aemlib_subscribe
  <2>. QED BY <2>1, <2>2, DrainUntouched
<1>4. CASE poll_from_callback \/ client_flush_pending \/ handle_state_disconnected
  BY <1>4, NotDrained
     DEF poll_from_callback, client_flush_pending, handle_state_disconnected, Goto, Return, client
<1>5. CASE handle_state_connecting
  <2>1. /\ pc' \in {"send_connect", "idle", "callback"} /\ state' # "CONNECTED"
        /\ pc' = "send_connect" => state' = "CONNECT_SENT"
    BY <1>5 DEF handle_state_connecting, ConnectIfUnsent, Goto, Return
  <2>. QED BY <2>1 DEF DrainInv
<1>6. CASE connect_sent_read \/ connack_error \/ connack_received
  BY <1>6, NotDrained
     DEF connect_sent_read, connack_error, connack_received, HangUp, Goto, Return
<1>7. CASE connack_wait
  <2>1. /\ pc' \in {"send_connect", "idle", "callback"} /\ state' # "CONNECTED"
        /\ pc' = "send_connect" => state' = "CONNECT_SENT"
    BY <1>7 DEF connack_wait, ConnectIfUnsent, HangUp, Goto, Return, TransportInv
  <2>. QED BY <2>1 DEF DrainInv
<1>8. CASE client_send_connect
  <2>1. pc' \in {"idle", "callback"} /\ state' = state /\ state = "CONNECT_SENT"
    BY <1>8 DEF client_send_connect, Return, DrainInv
  <2>. QED BY <2>1, NotDrained
<1>9. CASE \/ handle_state_mqtt_connected \/ handle_state_mqtt_disconnecting \/ client_read
  BY <1>9, NotDrained
     DEF handle_state_mqtt_connected, handle_state_mqtt_disconnecting, client_read,
         HangUp, Goto, Return
<1>10. CASE parse_wait
  <2>1. /\ UNCHANGED <<rx, damage>> /\ pc' = "keepalive"
        /\ \E h \in decode_fixed_header(rx) : MustWait(h)
    BY <1>10 DEF parse_wait, Goto, client, hist
  <2>2. Undamaged => Drained
    BY <2>1, OneVerdict DEF Drained
  <2>3. Undamaged => Drained'
    BY <2>1, <2>2 DEF Drained, MustWait
  <2>. QED BY <2>1, <2>3 DEF DrainInv, Undamaged
<1>11. CASE parse_error
  <2>1. pc' \in {"idle", "callback"} /\ poll_status' # "OK"
    BY <1>11 DEF parse_error, Return
  <2>. QED BY <2>1, NotDrained
<1>12. CASE client_dispatch_packet \/ on_message_returns \/ consume_packet
  BY <1>12, NotDrained
     DEF client_dispatch_packet, on_message_returns, consume_packet, NextPacket, Goto
<1>13. CASE client_keepalive
  <2>1. UNCHANGED <<rx, state>> /\ pc = "keepalive" /\ pc' \in {"idle", "callback"}
    BY <1>13 DEF client_keepalive, Return
  <2>2. Undamaged' => Undamaged
    BY <1>13, SendKeepsUndamaged DEF client_keepalive, Undamaged
  <2>3. Drained' <=> Drained
    BY <2>1 DEF Drained, MustWait
  <2>. QED BY <2>1, <2>2, <2>3 DEF DrainInv
<1>14. CASE UNCHANGED vars \/ Tick \/ Network
  <2>1. UNCHANGED <<rx, state, damage, pc, poll_status>>
    BY <1>14 DEF vars, Tick, Network, LinkOpens, LinkDies, BrokerSends, client, call, hist
  <2>. QED BY <2>1, DrainUntouched DEF Undamaged
<1>. QED BY <1>1, <1>2, <1>3, <1>4, <1>5, <1>6, <1>7, <1>8, <1>9, <1>10, <1>11, <1>12,
            <1>13, <1>14 DEF Next, User, Poll

\* A poll that returns OK on a connected client has left no complete packet in
\* rx_buffer, whatever the sizes and however the packets arrived: it never
\* waits for the network with a packet it could handle (client_read's loop).
THEOREM DrainCorrect == Spec => []DrainedAfterPoll
<1>. DEFINE I == TypeOK /\ TransportInv /\ ReadInv /\ InboundInv /\ DrainInv
<1>1. Init => I
  <2>1. Init => TransportInv /\ ReadInv /\ DrainInv
    BY DEF Init, TransportInv, TransportHeld, ReadInv, NoUnderflow, DrainInv
  <2>. QED BY <2>1, TypeInit, InboundInit
<1>2. I /\ [Next]_vars => I'
  BY TypeStep, TransportStep, ReadStep, InboundStep, DrainStep
<1>3. I => DrainedAfterPoll
  BY DEF DrainInv, Drained, DrainedAfterPoll, Undamaged
<1>. QED BY <1>1, <1>2, <1>3, PTL DEF Spec

-----------------------------------------------------------------------------
(* The session *)

Starting == {"CONNECTING", "CONNECT_SENT"}
Live     == {"CONNECTED", "DISCONNECTING"}

\* position of the last packet that was handed over; 1 is the CONNACK
LastDelivered == IF delivered = <<>> THEN 1 ELSE delivered[Len(delivered)]

\* a CONNACK answers a CONNECT of this connection
Answers == \A j \in 1..Len(sent) : sent[j] \in ConnackKinds => heard = "CONNECT"

\* between the last packet handed over and the one being handled there is
\* nothing the client had to refuse
NothingRefused ==
    /\ LastDelivered <= Handled
    /\ \A j \in (LastDelivered + 1)..Handled : sent[j] \in SkippedKinds

\* a DISCONNECTED client whose transport kept the connection of a failed attempt
Kept == state = "DISCONNECTED" /\ link # "down"

\* SessionSound is not inductive: a client that waits for its CONNACK, or comes
\* to wait for it on a connection that was kept, must be known to have consumed
\* nothing yet, so that the CONNACK it finds is the first packet of this
\* connection, and the broker to send one as an answer only.
SessionInv ==
    Undamaged =>
        /\ state \in Live => heard = "CONNECT"
        /\ state \in Starting \/ Kept => done = 0 /\ delivered = <<>>
        /\ OnMessage /\ state \in Live => NothingRefused

-----------------------------------------------------------------------------
(* What the broker hears *)

\* the steps that may write to the transport
Writes == \/ aemlib_publish \/ aemlib_subscribe \/ client_send_connect
          \/ client_keepalive \/ client_flush_pending

\* Nothing is heard over a link that is down.
LEMMA TransmitHeard ==
    ASSUME TypeOK, FrameOpen, NEW s, NEW len \in Nat, NEW w \in transport_write(len),
           Transmit(Taken(s, w.n))
    PROVE  heard' = heard \/ (heard = "nothing" /\ link # "down")
<1>1. CASE link = "down"
  <2>1. w.n = 0
    BY <1>1 DEF transport_write, Failed
  <2>2. Taken(s, w.n) = <<>>
    BY <2>1 DEF Taken
  <2>3. frame \o Taken(s, w.n) = frame
    BY <2>2, ConcatEmptySeq DEF TypeOK
  <2>. QED BY <2>3 DEF Transmit, FrameOpen
<1>2. CASE link # "down"
  BY <1>2 DEF Transmit
<1>. QED BY <1>1, <1>2

\* The same of a send.
LEMMA SendHeard ==
    ASSUME TypeOK, FrameOpen, NEW t, NEW n \in Nat, NEW st, EncodeAndSend(Packet(t, n), st)
    PROVE  heard' = heard \/ (heard = "nothing" /\ link # "down")
<1>. DEFINE p == Packet(t, n)
<1>1. p.len = n
  BY DEF Packet
<1>. HIDE DEF p
<1>2. CASE UNCHANGED broker
  BY <1>2 DEF broker
<1>3. CASE \E w \in transport_write(p.len) : Transmit(Taken(Bytes(p), w.n))
  BY <1>1, <1>3, TransmitHeard
<1>. QED BY <1>2, <1>3 DEF EncodeAndSend, client_send, p

\* A step that writes leaves the session as it is, but for what it makes the
\* broker hear, and over a link that is down it makes it hear nothing.
LEMMA SendsEffect ==
    ASSUME TypeOK, StreamInv, Writes
    PROVE  /\ UNCHANGED <<state, link, rx, sent, done, delivered>>
           /\ heard' = heard \/ (heard = "nothing" /\ link # "down")
           /\ Undamaged' => Undamaged
<1>1. UNCHANGED <<state, link, rx, sent, done, delivered>>
  BY DEF Writes, aemlib_publish, aemlib_subscribe, client_send_connect, client_keepalive,
         client_flush_pending, net, hist
<1>2. Undamaged' => Undamaged
  BY SendKeepsUndamaged
     DEF Writes, aemlib_publish, aemlib_subscribe, client_send_connect, client_keepalive,
         client_flush_pending, hist, Undamaged
<1>3. heard' = heard \/ (heard = "nothing" /\ link # "down")
  <2>1. FrameOpen
    BY DEF StreamInv
  <2>2. CASE aemlib_publish
    BY <2>1, <2>2, SendHeard, SizesAssumption DEF aemlib_publish
  <2>3. CASE aemlib_subscribe
    BY <2>1, <2>3, SendHeard, SizesAssumption DEF aemlib_subscribe
  <2>4. CASE client_send_connect
    BY <2>1, <2>4, SendHeard, SizesAssumption DEF client_send_connect
  <2>5. CASE client_keepalive
    BY <2>1, <2>5, SendHeard DEF client_keepalive, PingLen, broker
  <2>6. CASE client_flush_pending
    <3>1. Len(tx_pending) \in Nat
      BY LenProperties DEF TypeOK
    <3>. QED BY <2>1, <2>6, <3>1, TransmitHeard DEF client_flush_pending, broker
  <2>. QED BY <2>2, <2>3, <2>4, <2>5, <2>6 DEF Writes
<1>. QED BY <1>1, <1>2, <1>3

\* Every other step leaves what the broker heard alone, a new connection aside.
LEMMA OthersUnheard ==
    ASSUME [Next]_vars, ~Writes, ~aemlib_connect
    PROVE  UNCHANGED broker
<1>1. CASE User
  BY <1>1 DEF User, Writes, aemlib_connect_invalid, aemlib_disconnect, poll_from_callback
<1>2. CASE Poll
  BY <1>2 DEF Poll, Writes, handle_state_disconnected, handle_state_connecting,
       connect_sent_read, connack_wait, connack_error, connack_received,
       handle_state_mqtt_connected, handle_state_mqtt_disconnecting,
       client_read, parse_wait, parse_error, client_dispatch_packet,
       on_message_returns, consume_packet
<1>3. CASE Tick \/ Network
  BY <1>3 DEF Tick, Network, LinkOpens, LinkDies, BrokerSends
<1>4. CASE UNCHANGED vars
  BY <1>4 DEF vars
<1>. QED BY <1>1, <1>2, <1>3, <1>4 DEF Next

\* What the broker sends is its own; only a new connection clears it.
LEMMA SentBy ==
    ASSUME [Next]_vars, ~aemlib_connect
    PROVE  sent' = sent \/ \E kind \in InKinds : BrokerSends(kind)
<1>1. CASE User
  BY <1>1 DEF User, aemlib_connect_invalid, aemlib_disconnect, aemlib_publish,
              aemlib_subscribe, poll_from_callback, net
<1>2. CASE Poll
  BY <1>2 DEF Poll, client_flush_pending, handle_state_disconnected, handle_state_connecting,
       connect_sent_read, connack_wait, connack_error, connack_received, client_send_connect,
       handle_state_mqtt_connected, handle_state_mqtt_disconnecting,
       client_read, parse_wait, parse_error, client_dispatch_packet,
       on_message_returns, consume_packet, client_keepalive, HangUp, net
<1>3. CASE Tick \/ Network
  BY <1>3 DEF Tick, Network, LinkOpens, LinkDies, net
<1>4. CASE UNCHANGED vars
  BY <1>4 DEF vars, net
<1>. QED BY <1>1, <1>2, <1>3, <1>4 DEF Next

\* Every step keeps CONNACKs answers.
LEMMA AnswersStep ==
    ASSUME TypeOK, TransportInv, StreamInv, Answers, [Next]_vars
    PROVE  Answers'
<1>1. CASE aemlib_connect
  <2>1. CASE SameConnection
    BY <2>1 DEF SameConnection, Answers, broker
  <2>2. CASE NewConnection
    <3>1. sent' = <<>>
      BY <2>2 DEF NewConnection
    <3>2. Len(sent') = 0
      BY <3>1
    <3>. QED BY <3>2 DEF Answers
  <2>. QED BY <1>1, <2>1, <2>2 DEF aemlib_connect
<1>2. CASE ~aemlib_connect
  <2>1. heard' = heard \/ heard = "nothing"
    BY <1>2, SendsEffect, OthersUnheard DEF broker
  <2>2. CASE sent' = sent
    BY <2>1, <2>2 DEF Answers
  <2>3. ASSUME NEW kind \in InKinds, BrokerSends(kind) PROVE Answers'
    <3>1. sent' = Append(sent, kind) /\ (kind \in ConnackKinds => heard = "CONNECT")
          /\ heard' = heard
      BY <2>3 DEF BrokerSends, broker
    <3>2. /\ Len(sent) \in Nat /\ Len(sent') = Len(sent) + 1 /\ sent'[Len(sent) + 1] = kind
          /\ \A j \in 1..Len(sent) : sent'[j] = sent[j]
      BY <3>1, StreamType, AppendProperties
    <3>3. \A j \in 1..Len(sent') : j \in 1..Len(sent) \/ j = Len(sent) + 1
      BY <3>2
    <3>. QED BY <3>1, <3>2, <3>3 DEF Answers
  <2>. QED BY <1>2, <2>2, <2>3, SentBy
<1>. QED BY <1>1, <1>2

-----------------------------------------------------------------------------
(* The session invariant, step by step *)

\* LastDelivered is a position.
LEMMA LastType ==
    ASSUME TypeOK
    PROVE  LastDelivered \in Nat
<1>1. CASE delivered = <<>>
  BY <1>1 DEF LastDelivered
<1>2. CASE delivered # <<>>
  <2>1. Len(delivered) \in 1..Len(delivered) /\ delivered \in Seq(Nat)
    BY <1>2, EmptySeq, LenProperties DEF TypeOK
  <2>. QED BY <1>2, <2>1, ElementOfSeq DEF LastDelivered
<1>. QED BY <1>1, <1>2

\* Steps that start, finish and hand over nothing.
LEMMA SessionUntouched ==
    ASSUME SessionInv, UNCHANGED <<sent, delivered>>,
           Undamaged' => /\ Undamaged /\ UNCHANGED done /\ Handled' = Handled
                         /\ heard = "CONNECT" => heard' = "CONNECT"
                         /\ state' \in Live => state \in Live
                         /\ (state \in Starting \/ Kept)' => state \in Starting \/ Kept
    PROVE  SessionInv'
<1>1. LastDelivered' = LastDelivered
  BY DEF LastDelivered
<1>2. Undamaged' => (NothingRefused => NothingRefused')
  BY <1>1 DEF NothingRefused
<1>. QED BY <1>2 DEF SessionInv

\* API calls: a new session starts, or nothing of the session changes.
LEMMA SessionUser ==
    ASSUME TypeOK, TransportInv, StreamInv, SessionInv, User
    PROVE  SessionInv'
<1>1. CASE aemlib_connect
  <2>1. state = "DISCONNECTED" /\ state' = "CONNECTING" /\ UNCHANGED pc
    BY <1>1 DEF aemlib_connect, call
  <2>2. CASE NewConnection
    BY <2>1, <2>2 DEF NewConnection, SessionInv, Live
  <2>3. CASE SameConnection
    <3>1. /\ UNCHANGED <<sent, delivered, done, heard>> /\ damage \subseteq damage'
          /\ Kept
      BY <2>1, <2>3 DEF SameConnection, broker, Kept
    <3>2. (Undamaged' => Undamaged) /\ Handled' = Handled
      BY <2>1, <3>1 DEF Undamaged, Handled
    <3>. QED BY <2>1, <3>1, <3>2, SessionUntouched DEF Live
  <2>. QED BY <1>1, <2>2, <2>3 DEF aemlib_connect
<1>2. CASE aemlib_connect_invalid \/ aemlib_disconnect
  <2>1. /\ UNCHANGED <<sent, delivered, done, pc, heard, link>> /\ damage \subseteq damage'
        /\ state' = state \/ (state = "CONNECTED" /\ state' = "DISCONNECTING")
    BY <1>2 DEF aemlib_connect_invalid, aemlib_disconnect, net, call, broker, hist
  <2>2. (Undamaged' => Undamaged) /\ Handled' = Handled
    BY <2>1 DEF Undamaged, Handled
  <2>. QED BY <2>1, <2>2, SessionUntouched DEF Live, Starting, Kept
<1>3. CASE aemlib_publish \/ aemlib_subscribe
  <2>1. /\ UNCHANGED <<state, link, sent, done, delivered>>
        /\ heard' = heard \/ heard = "nothing"
        /\ Undamaged' => Undamaged
    BY <1>3, SendsEffect DEF Writes
  <2>2. Handled' = Handled
    BY <1>3, <2>1 DEF aemlib_publish, aemlib_subscribe, call, Handled
  <2>. QED BY <2>1, <2>2, SessionUntouched DEF Kept
<1>4. CASE poll_from_callback
  <2>1. ~Undamaged'
    BY <1>4 DEF poll_from_callback, Undamaged, RxDamage
  <2>. QED BY <2>1 DEF SessionInv
<1>. QED BY <1>1, <1>2, <1>3, <1>4 DEF User

\* An accepting CONNACK is the broker's first packet, and answers the CONNECT of
\* this connection (handle_state_mqtt_connect_sent).
LEMMA AcceptedByBroker ==
    ASSUME TypeOK, TransportInv, InboundInv, Answers, SessionInv, Undamaged, pc = "connack",
           NEW h \in decode_fixed_header(rx),
           h.st = "OK", h.type = "CONNACK", h.len <= Len(rx), ConnackAccepted(h)
    PROVE  /\ state = "CONNECT_SENT" /\ heard = "CONNECT" /\ done = 0 /\ delivered = <<>>
           /\ sent # <<>> /\ sent[1] = "CONNACK_OK"
<1>1. state = "CONNECT_SENT" /\ done = 0 /\ delivered = <<>>
  BY DEF TransportInv, SessionInv, Starting
<1>2. /\ rx[1].k \in AllInKinds /\ rx[1].k = sent[done + 1] /\ done + 1 \in 1..Len(sent)
      /\ h.type = InPacket(rx[1].k).type /\ h.len = InPacket(rx[1].k).len
      /\ h.body = InPacket(rx[1].k).body /\ h.len \in Nat
  BY DecodesFirst, UserAssumption
<1>3. InPacket(rx[1].k).len <= RxSize
  <2>1. Len(rx) \in Nat /\ RxSize \in Nat /\ Len(rx) <= RxSize
    BY StreamType, SizesAssumption DEF TypeOK
  <2>2. h.len <= RxSize
    BY <1>2, <2>1
  <2>. QED BY <1>2, <2>2
<1>4. rx[1].k = "CONNACK_OK"
  BY <1>2, <1>3, KindOf DEF ConnackAccepted
<1>5. sent[1] = "CONNACK_OK" /\ 1 \in 1..Len(sent)
  <2>1. done + 1 = 1
    BY <1>1
  <2>. QED BY <2>1, <1>2, <1>4
<1>6. heard = "CONNECT"
  BY <1>5 DEF Answers, ConnackKinds
<1>7. sent # <<>>
  <2>1. Len(sent) # 0
    BY <1>5
  <2>. QED BY <2>1
<1>. QED BY <1>1, <1>5, <1>6, <1>7

\* The handshake ends with the acceptance of this connection's CONNECT, or
\* without a session.
LEMMA SessionHandshake ==
    ASSUME TypeOK, TransportInv, ReadInv, InboundInv, Answers, SessionInv,
           \/ handle_state_connecting \/ connect_sent_read \/ connack_wait
           \/ connack_error \/ connack_received
    PROVE  SessionInv'
<1>1. /\ UNCHANGED <<sent, delivered, damage, heard>> /\ pc \in {"core", "connack"}
      /\ Undamaged' <=> Undamaged
  BY DEF handle_state_connecting, connect_sent_read, connack_wait, connack_error,
         connack_received, HangUp, net, hist, broker, Undamaged
<1>2. Undamaged => pc' \notin {"callback", "consume"}
  BY ReturnsToApplication
     DEF handle_state_connecting, connect_sent_read, connack_wait, connack_error,
         connack_received, HangUp, ConnectIfUnsent, Goto
<1>3. CASE handle_state_connecting \/ connect_sent_read \/ connack_wait \/ connack_error
  <2>1. /\ UNCHANGED done /\ state # "DISCONNECTED"
        /\ \/ state' = state
           \/ state' = "DISCONNECTED" /\ (state = "CONNECTING" \/ link' = "down")
           \/ state = "CONNECTING" /\ state' = "CONNECT_SENT"
    BY <1>3 DEF handle_state_connecting, connect_sent_read, connack_wait, connack_error,
                HangUp, transport_disconnect, hist, TransportInv
  <2>2. Undamaged => Handled' = Handled
    BY <2>1, <1>1, <1>2 DEF Handled
  <2>. QED BY <1>1, <2>1, <2>2, SessionUntouched DEF Live, Starting, Kept
<1>4. CASE connack_received
  <2>. SUFFICES ASSUME Undamaged
                PROVE  /\ state' \in Live => heard' = "CONNECT"
                       /\ state' \in Starting \/ Kept' => done' = 0 /\ delivered' = <<>>
                       /\ OnMessage /\ state' \in Live => NothingRefused'
    BY <1>1 DEF SessionInv
  <2>1. PICK h \in decode_fixed_header(rx) :
          /\ h.st = "OK" /\ h.type = "CONNACK" /\ h.len <= Len(rx) /\ done' = done + 1
          /\ \/ ConnackAccepted(h) /\ state' = "CONNECTED"
             \/ state' = "DISCONNECTED" /\ link' = "down"
    BY <1>4 DEF connack_received, HangUp, transport_disconnect
  <2>2. pc = "connack"
    BY <1>4 DEF connack_received
  <2>3. CASE ConnackAccepted(h) /\ state' = "CONNECTED"
    <3>1. heard = "CONNECT" /\ done = 0 /\ delivered = <<>>
      BY <2>1, <2>2, <2>3, AcceptedByBroker
    <3>2. LastDelivered' = 1 /\ Handled' = 1
      BY <1>1, <1>2, <2>1, <3>1 DEF LastDelivered, Handled
    <3>3. NothingRefused'
      BY <3>2 DEF NothingRefused
    <3>. QED BY <1>1, <2>3, <3>1, <3>3 DEF Starting, Kept
  <2>4. CASE state' = "DISCONNECTED" /\ link' = "down"
    BY <2>4 DEF Live, Starting, Kept
  <2>. QED BY <2>1, <2>3, <2>4
<1>. QED BY <1>3, <1>4

\* A dispatch hands the next PUBLISH over, or passes over a packet it may.
LEMMA SessionDispatch ==
    ASSUME TypeOK, ReadInv, InboundInv, SessionInv, client_dispatch_packet
    PROVE  SessionInv'
<1>1. PICK h \in decode_fixed_header(rx) :
        /\ h.st = "OK" /\ h.len <= Len(rx)
        /\ h.type = "PUBLISH" => h.body = "OK"
        /\ IF h.type = "PUBLISH" /\ OnMessage
           THEN pc' = "callback" /\ delivered' = Append(delivered, rx[1].n)
           ELSE pc' = "consume" /\ UNCHANGED delivered
  BY DEF client_dispatch_packet, PacketBuffered
<1>2. UNCHANGED <<state, sent, done, damage, heard>> /\ pc = "parse"
  BY DEF client_dispatch_packet, client, net, broker
<1>. SUFFICES ASSUME Undamaged
              PROVE  /\ state' \in Live => heard' = "CONNECT"
                     /\ state' \in Starting \/ Kept' => done' = 0 /\ delivered' = <<>>
                     /\ OnMessage /\ state' \in Live => NothingRefused'
  BY <1>2 DEF SessionInv, Undamaged
<1>3. state \in Live /\ state \notin Starting /\ ~Kept'
  BY <1>2 DEF ReadInv, Undamaged, RxDamage, Live, Starting, Kept
<1>4. heard' = "CONNECT"
  BY <1>2, <1>3 DEF SessionInv
<1>5. ASSUME OnMessage PROVE NothingRefused'
  <2>1. /\ rx[1].k \in AllInKinds /\ rx[1].k = sent[done + 1] /\ rx[1].n = done + 1
        /\ h.type = InPacket(rx[1].k).type /\ h.len = InPacket(rx[1].k).len
        /\ InPacket(rx[1].k).type # "INVALID" /\ h.len \in Nat
    BY <1>1, DecodesFirst, UserAssumption
  <2>2. InPacket(rx[1].k).len <= RxSize
    <3>1. Len(rx) \in Nat /\ RxSize \in Nat /\ Len(rx) <= RxSize
      BY StreamType, SizesAssumption DEF TypeOK
    <3>2. h.len <= RxSize
      BY <1>1, <2>1, <3>1
    <3>. QED BY <2>1, <3>2
  <2>3. Handled = done /\ Handled' = done + 1 /\ done \in Nat /\ delivered \in Seq(Nat)
    BY <1>1, <1>2 DEF Handled, TypeOK
  <2>4. LastDelivered <= done /\ \A j \in (LastDelivered + 1)..done : sent[j] \in SkippedKinds
    BY <1>3, <1>5, <2>3 DEF SessionInv, NothingRefused
  <2>5. CASE h.type = "PUBLISH"
    <3>1. delivered' = Append(delivered, done + 1)
      BY <1>1, <1>5, <2>1, <2>5
    <3>2. done + 1 \in Nat
      BY <2>3
    <3>3. /\ delivered' \in Seq(Nat) /\ Len(delivered') = Len(delivered) + 1
          /\ delivered'[Len(delivered) + 1] = done + 1 /\ Len(delivered) \in Nat
      BY <2>3, <3>1, <3>2, AppendProperties, LenProperties
    <3>4. delivered' # <<>>
      BY <3>3
    <3>5. LastDelivered' = done + 1
      BY <3>3, <3>4 DEF LastDelivered
    <3>. QED BY <2>3, <3>5 DEF NothingRefused
  <2>6. CASE h.type # "PUBLISH"
    <3>1. sent[done + 1] \in SkippedKinds
      BY <2>1, <2>2, <2>6, KindOf
    <3>2. LastDelivered' = LastDelivered
      BY <1>1, <2>6 DEF LastDelivered
    <3>3. LastDelivered \in Nat
      BY LastType
    <3>4. \A j \in (LastDelivered + 1)..(done + 1) :
             j \in (LastDelivered + 1)..done \/ j = done + 1
      BY <2>3, <3>3
    <3>5. LastDelivered <= done + 1
      BY <2>3, <2>4, <3>3
    <3>. QED BY <1>2, <2>3, <2>4, <3>1, <3>2, <3>4, <3>5 DEF NothingRefused
  <2>. QED BY <2>5, <2>6
<1>. QED BY <1>2, <1>3, <1>4, <1>5

\* Every other step of a poll keeps the session invariant.
LEMMA SessionPoll ==
    ASSUME TypeOK, TransportInv, StreamInv, ReadInv, InboundInv, Answers, SessionInv, Poll
    PROVE  SessionInv'
<1>1. CASE \/ handle_state_connecting \/ connect_sent_read \/ connack_wait
           \/ connack_error \/ connack_received
  BY <1>1, SessionHandshake
<1>2. CASE client_dispatch_packet
  BY <1>2, SessionDispatch
<1>3. CASE client_flush_pending \/ client_send_connect \/ client_keepalive
  <2>1. /\ UNCHANGED <<state, link, sent, done, delivered>>
        /\ heard' = heard \/ heard = "nothing"
        /\ Undamaged' => Undamaged
    BY <1>3, SendsEffect DEF Writes
  <2>2. pc \notin {"callback", "consume"}
    BY <1>3 DEF client_flush_pending, client_send_connect, client_keepalive
  <2>3. Undamaged => pc' \notin {"callback", "consume"}
    BY <1>3, ReturnsToApplication
       DEF client_flush_pending, client_send_connect, client_keepalive, Goto
  <2>. QED BY <2>1, <2>2, <2>3, SessionUntouched DEF Handled, Kept
<1>4. CASE \/ handle_state_disconnected \/ handle_state_mqtt_connected
           \/ handle_state_mqtt_disconnecting
           \/ client_read \/ parse_wait \/ parse_error
  <2>1. /\ UNCHANGED <<delivered, sent, done, damage, heard>>
        /\ pc \notin {"callback", "consume"}
        /\ UNCHANGED <<state, link>> \/ (state' = "DISCONNECTED" /\ link' = "down")
    BY <1>4 DEF handle_state_disconnected, handle_state_mqtt_connected,
                handle_state_mqtt_disconnecting, client_read, parse_wait, parse_error,
                HangUp, transport_disconnect, client, net, hist, broker
  <2>2. Undamaged => pc' \notin {"callback", "consume"}
    BY <1>4, ReturnsToApplication
       DEF handle_state_disconnected, handle_state_mqtt_connected,
           handle_state_mqtt_disconnecting, client_read, parse_wait, parse_error, HangUp, Goto
  <2>. QED BY <2>1, <2>2, SessionUntouched DEF Handled, Undamaged, Live, Starting, Kept
<1>5. CASE on_message_returns
  <2>1. /\ UNCHANGED <<state, link, delivered, sent, done, damage, heard>>
        /\ pc = "callback" /\ pc' = "consume"
    BY <1>5 DEF on_message_returns, Goto, client, net, hist, broker
  <2>. QED BY <2>1, SessionUntouched DEF Handled, Undamaged, Kept
<1>6. CASE consume_packet
  <2>1. UNCHANGED <<state, delivered, sent, damage, heard>> /\ pc = "consume"
    BY <1>6 DEF consume_packet, net, broker
  <2>. SUFFICES ASSUME Undamaged
                PROVE  /\ state' \in Live => heard' = "CONNECT"
                       /\ state' \in Starting \/ Kept' => done' = 0 /\ delivered' = <<>>
                       /\ OnMessage /\ state' \in Live => NothingRefused'
    BY <2>1 DEF SessionInv, Undamaged
  <2>2. /\ packet_len <= Len(rx) /\ packet_len \in Nat /\ Len(rx) \in Nat /\ done \in Nat
        /\ state \in Live /\ state \notin Starting /\ ~Kept'
    BY <2>1, StreamType DEF ReadInv, Undamaged, RxDamage, TypeOK, Live, Starting, Kept
  <2>3. done' = done + 1 /\ pc' = "parse"
    BY <1>6, <2>2 DEF consume_packet, NextPacket
  <2>4. Handled' = Handled /\ LastDelivered' = LastDelivered
    BY <2>1, <2>2, <2>3 DEF Handled, LastDelivered
  <2>. QED BY <2>1, <2>2, <2>4 DEF SessionInv, NothingRefused
<1>. QED BY <1>1, <1>2, <1>3, <1>4, <1>5, <1>6 DEF Poll

\* Every step keeps the session invariant.
LEMMA SessionStep ==
    ASSUME TypeOK, TransportInv, StreamInv, ReadInv, InboundInv, Answers, SessionInv, [Next]_vars
    PROVE  SessionInv'
<1>1. CASE UNCHANGED vars \/ Tick \/ LinkOpens \/ LinkDies
  <2>1. /\ UNCHANGED <<state, delivered, sent, done, damage, pc, heard>>
        /\ link' # "down" => link # "down"
    BY <1>1 DEF vars, Tick, LinkOpens, LinkDies, Opens, Dies, client, call, net, hist, broker
  <2>. QED BY <2>1, SessionUntouched DEF Undamaged, Handled, Kept
<1>2. ASSUME NEW kind \in InKinds, BrokerSends(kind) PROVE SessionInv'
  <2>1. UNCHANGED <<state, link, delivered, done, damage, pc, heard>> /\ sent' = Append(sent, kind)
    BY <1>2 DEF BrokerSends, client, call, hist, broker
  <2>2. Handled' = Handled /\ LastDelivered' = LastDelivered
    BY <2>1 DEF Handled, LastDelivered
  <2>3. ASSUME Undamaged, NothingRefused PROVE NothingRefused'
    <3>1. Handled \in 0..Len(sent) /\ Len(sent) \in Nat
      BY <2>3, HandledWasSent, StreamType
    <3>2. \A j \in 1..Len(sent) : sent'[j] = sent[j]
      BY <2>1, StreamType, AppendProperties
    <3>3. LastDelivered \in Nat
      BY LastType
    <3>4. \A j \in (LastDelivered + 1)..Handled : j \in 1..Len(sent)
      BY <3>1, <3>3
    <3>. QED BY <2>2, <2>3, <3>2, <3>4 DEF NothingRefused
  <2>. QED BY <2>1, <2>2, <2>3 DEF SessionInv, Undamaged, Kept
<1>. QED BY <1>1, <1>2, SessionUser, SessionPoll DEF Next, Network

-----------------------------------------------------------------------------
(* CONNECT goes out once *)

\* CONNECT packets in w, which is a packet or nothing
ConnectsIn(w) == IF w # <<>> /\ w[1].t = "CONNECT" THEN 1 ELSE 0

\* The broker has got, or will get from what is on its way, one CONNECT at
\* most, and none before connect_sent is set.  connects <= 1 alone is not
\* inductive: it does not see the CONNECT that is staged.
ConnectInv ==
    /\ pc = "send_connect" => ~connect_sent
    /\ damage \cap TxDamage = {} =>
          connects + ConnectsIn(frame \o tx_pending) <= IF connect_sent THEN 1 ELSE 0

\* A write moves a CONNECT on, and makes no second one of it.
LEMMA TransmitCounts ==
    ASSUME TypeOK, in_sync,
           NEW s \in Seq(OutByte), NEW n \in 0..Len(s),
           frame \o s = <<>> \/ WholePacket(frame \o s),
           connects < 2, Transmit(Taken(s, n))
    PROVE  connects' + ConnectsIn(frame' \o Remaining(s, n)) = connects + ConnectsIn(frame \o s)
<1>. DEFINE f == frame \o Taken(s, n)
            w == frame \o s
            v == frame' \o Remaining(s, n)
<1>1. \/ ~WholePacket(f) /\ v = w
      \/ WholePacket(f) /\ f = w /\ v = <<>>
  BY TransmitMoves
<1>2. connects' = IF WholePacket(f) /\ f[1].t = "CONNECT" THEN connects + 1 ELSE connects
  BY DEF Transmit
<1>3. connects \in 0..2
  BY DEF TypeOK
<1>4. WholePacket(f) => f # <<>>
  BY DEF WholePacket
<1>. HIDE DEF f, w, v
<1>5. connects' + ConnectsIn(v) = connects + ConnectsIn(w)
  BY <1>1, <1>2, <1>3, <1>4 DEF ConnectsIn
<1>. QED BY <1>5 DEF v, w

\* A send puts its packet on the way, or leaves what is on the way alone.
LEMMA SendCounts ==
    ASSUME TypeOK, StreamInv,
           NEW t \in OutTypes, NEW n \in Nat \ {0},
           NEW st, EncodeAndSend(Packet(t, n), st),
           connects < 2, damage' \cap TxDamage = {}
    PROVE  /\ damage \cap TxDamage = {}
           /\ connects' + ConnectsIn(frame' \o tx_pending') =
                connects + ConnectsIn(frame \o tx_pending)
                  + (IF t = "CONNECT" /\ st = "OK" THEN 1 ELSE 0)
<1>. DEFINE p == Packet(t, n)
            b == Bytes(p)
            all == frame \o tx_pending
            all2 == frame' \o tx_pending'
<1>0. p.len = n /\ p.type = t
  BY DEF Packet
<1>1. b \in Seq(OutByte) /\ Len(b) = n /\ WholePacket(b)
  BY BytesAreAPacket
<1>2. damage \cap TxDamage = {} /\ connects \in {0, 1}
  BY DEF EncodeAndSend, client_send, TypeOK
<1>3. ConnectsIn(b) = IF t = "CONNECT" THEN 1 ELSE 0
  <2>1. b # <<>> /\ b[1].t = t
    <3>1. b = [j \in 1..n |-> [t |-> t, n |-> n, i |-> j]] /\ 1 \in 1..n
      BY DEF Bytes, Packet
    <3>2. b[1] = [t |-> t, n |-> n, i |-> 1]
      BY <3>1
    <3>3. b # <<>>
      BY <1>1 DEF WholePacket
    <3>. HIDE DEF b
    <3>. QED BY <3>2, <3>3
  <2>. HIDE DEF b
  <2>. QED BY <2>1 DEF ConnectsIn
<1>. HIDE DEF p, b
<1>4. CASE Encodes(p) /\ tx_pending = <<>> /\ client_send(p, st)
  <2>1. PICK w \in transport_write(n) :
              /\ st = IF w.ok THEN "OK" ELSE "IO"
              /\ tx_pending' = IF w.ok THEN Remaining(b, w.n) ELSE <<>>
              /\ Transmit(Taken(b, w.n))
    BY <1>4, <1>0 DEF client_send, b
  <2>2. w.ok \in BOOLEAN /\ w.n \in 0..n /\ (~w.ok => w.n = 0)
    BY <2>1, WriteBounds
  <2>3. in_sync /\ frame = <<>> /\ all = <<>>
    <3>1. all = frame
      BY <1>4, ConcatEmptySeq DEF TypeOK
    <3>. QED BY <3>1, <1>2 DEF StreamInv, FrameOpen, StreamIntact
  <2>4. frame \o b = b
    BY <2>3, <1>1, ConcatEmptySeq
  <2>5. CASE w.ok
    <3>1. connects' + ConnectsIn(frame' \o Remaining(b, w.n)) = connects + ConnectsIn(b)
      <4>1. w.n \in 0..Len(b)
        BY <2>2, <1>1
      <4>. QED BY <4>1, <2>1, <2>3, <2>4, <1>1, <1>2, TransmitCounts
    <3>2. tx_pending' = Remaining(b, w.n) /\ st = "OK"
      BY <2>1, <2>5
    <3>3. ConnectsIn(all) = 0
      BY <2>3 DEF ConnectsIn
    <3>4. ConnectsIn(b) = IF t = "CONNECT" /\ st = "OK" THEN 1 ELSE 0
      BY <1>3, <3>2
    <3>5. connects' + ConnectsIn(all2) = connects + ConnectsIn(b)
      BY <3>1, <3>2
    <3>. HIDE DEF all, all2
    <3>6. connects' + ConnectsIn(all2) =
            connects + ConnectsIn(all) + (IF t = "CONNECT" /\ st = "OK" THEN 1 ELSE 0)
      BY <1>2, <3>3, <3>4, <3>5
    <3>. QED BY <1>2, <3>6 DEF all, all2
  <2>6. CASE ~w.ok
    <3>1. Taken(b, w.n) = <<>>
      BY <2>6, <2>2 DEF Taken
    <3>2. frame \o Taken(b, w.n) = <<>>
      BY <3>1, <2>3, EmptySeq, ConcatEmptySeq
    <3>3. frame' = <<>> /\ connects' = connects
      BY <3>2, <2>3, <2>1 DEF Transmit, PartOfPacket, WholePacket
    <3>4. all2 = <<>>
      BY <3>3, <2>6, <2>1, EmptySeq, ConcatEmptySeq
    <3>5. st # "OK"
      BY <2>1, <2>6
    <3>6. ConnectsIn(all2) = 0 /\ ConnectsIn(all) = 0
      BY <2>3, <3>4 DEF ConnectsIn
    <3>. HIDE DEF all, all2
    <3>7. connects' + ConnectsIn(all2) =
            connects + ConnectsIn(all) + (IF t = "CONNECT" /\ st = "OK" THEN 1 ELSE 0)
      BY <1>2, <3>3, <3>5, <3>6
    <3>. QED BY <1>2, <3>7 DEF all, all2
  <2>. QED BY <2>2, <2>5, <2>6
<1>5. CASE ~Encodes(p)
  <2>1. PICK fields \in BOOLEAN :
              tx_pending' = IF t = "PINGREQ" THEN tx_pending
                            ELSE HalfEncodedOver(p, fields)
    BY <1>5, <1>0 DEF EncodeAndSend, p
  <2>2. /\ damage' = IF t = "PINGREQ" \/ tx_pending = <<>> THEN damage
                     ELSE damage \cup {"tx_overwritten"}
        /\ UNCHANGED <<frame, connects>> /\ st = "BUFFER_TOO_SMALL"
    BY <1>5, <1>0 DEF EncodeAndSend, broker, p
  <2>3. tx_pending = <<>> => HalfEncodedOver(p, fields) = <<>>
    BY OverlayType DEF p
  <2>4. t = "PINGREQ" \/ tx_pending = <<>>
    BY <2>2 DEF TxDamage
  <2>5. tx_pending' = tx_pending
    BY <2>1, <2>3, <2>4
  <2>6. all2 = all
    BY <2>2, <2>5
  <2>7. ConnectsIn(all) \in Nat
    BY DEF ConnectsIn
  <2>. HIDE DEF all, all2
  <2>8. connects' + ConnectsIn(all2) =
          connects + ConnectsIn(all) + (IF t = "CONNECT" /\ st = "OK" THEN 1 ELSE 0)
    BY <1>2, <2>2, <2>6, <2>7
  <2>. QED BY <1>2, <2>8 DEF all, all2
<1>6. ~(Encodes(p) /\ tx_pending # <<>> /\ client_send(p, st))
  BY DEF client_send, TxDamage
<1>. QED BY <1>4, <1>5, <1>6 DEF EncodeAndSend, client_send, p

\* Steps that leave the transmit side alone and do not decide to send CONNECT.
LEMMA ConnectUntouched ==
    ASSUME ConnectInv, UNCHANGED <<tx_pending, frame, connects, connect_sent>>,
           damage \cap TxDamage \subseteq damage',
           pc' = "send_connect" => ~connect_sent
    PROVE  ConnectInv'
<1>1. damage' \cap TxDamage = {} => damage \cap TxDamage = {}
  OBVIOUS
<1>2. ConnectsIn(frame \o tx_pending)' = ConnectsIn(frame \o tx_pending)
  BY DEF ConnectsIn
<1>. QED BY <1>1, <1>2 DEF ConnectInv

\* A step that sends is accounted for by the number of CONNECTs it puts on the
\* way.
LEMMA ConnectSent ==
    ASSUME TypeOK, StreamInv, ConnectInv,
           NEW t \in OutTypes, NEW n \in Nat \ {0},
           NEW st, EncodeAndSend(Packet(t, n), st),
           t = "CONNECT" => ~connect_sent /\ connect_sent' = (st = "OK"),
           t # "CONNECT" => UNCHANGED connect_sent,
           pc' # "send_connect"
    PROVE  ConnectInv'
<1>. SUFFICES ASSUME damage' \cap TxDamage = {}
              PROVE  connects' + ConnectsIn(frame' \o tx_pending') <= IF connect_sent' THEN 1 ELSE 0
  BY DEF ConnectInv, ConnectsIn
<1>. DEFINE c  == ConnectsIn(frame \o tx_pending)
            c2 == ConnectsIn(frame' \o tx_pending')
<1>1. damage \cap TxDamage = {}
  BY DEF EncodeAndSend, client_send
<1>2. connects + c <= IF connect_sent THEN 1 ELSE 0
  BY <1>1 DEF ConnectInv
<1>3. c \in {0, 1} /\ connects \in 0..2 /\ connect_sent \in BOOLEAN
  BY DEF ConnectsIn, TypeOK
<1>. HIDE DEF c
<1>4. connects < 2
  BY <1>2, <1>3
<1>5. connects' + c2 = connects + c + (IF t = "CONNECT" /\ st = "OK" THEN 1 ELSE 0)
  BY <1>4, SendCounts DEF c
<1>. HIDE DEF c2
<1>6. CASE t = "CONNECT"
  <2>1. connects + c <= 0
    BY <1>2, <1>6
  <2>2. connects' + c2 <= IF st = "OK" THEN 1 ELSE 0
    BY <2>1, <1>3, <1>5, <1>6
  <2>. QED BY <1>6, <2>2 DEF c2
<1>7. CASE t # "CONNECT"
  <2>1. connects' + c2 = connects + c
    BY <1>3, <1>5, <1>7
  <2>. QED BY <1>2, <1>7, <2>1 DEF c2
<1>. QED BY <1>6, <1>7

\* The flush moves on what is staged.
LEMMA ConnectFlush ==
    ASSUME TypeOK, StreamInv, ConnectInv, client_flush_pending
    PROVE  ConnectInv'
<1>1. UNCHANGED <<connect_sent, damage>> /\ pc' # "send_connect"
  BY DEF client_flush_pending, hist, Goto, Return
<1>2. CASE UNCHANGED <<tx_pending, broker>>
  BY <1>1, <1>2, ConnectUntouched DEF broker
<1>3. CASE \E w \in transport_write(Len(tx_pending)) :
              /\ tx_pending' = Remaining(tx_pending, w.n)
              /\ Transmit(Taken(tx_pending, w.n))
  <2>1. PICK w \in transport_write(Len(tx_pending)) :
              /\ tx_pending' = Remaining(tx_pending, w.n)
              /\ Transmit(Taken(tx_pending, w.n))
    BY <1>3
  <2>2. Len(tx_pending) \in Nat /\ w.n \in 0..Len(tx_pending) /\ tx_pending \in Seq(OutByte)
    BY <2>1, WriteBounds, LenProperties DEF TypeOK
  <2>. SUFFICES ASSUME damage \cap TxDamage = {}
                PROVE  connects' + ConnectsIn(frame' \o tx_pending')
                         <= IF connect_sent THEN 1 ELSE 0
    BY <1>1 DEF ConnectInv, ConnectsIn
  <2>3. in_sync /\ (frame \o tx_pending = <<>> \/ WholePacket(frame \o tx_pending))
    BY DEF StreamInv, StreamIntact
  <2>4. connects + ConnectsIn(frame \o tx_pending) <= IF connect_sent THEN 1 ELSE 0
    BY DEF ConnectInv
  <2>5. connects < 2
    <3>1. ConnectsIn(frame \o tx_pending) \in {0, 1} /\ connects \in 0..2
      BY DEF ConnectsIn, TypeOK
    <3>. QED BY <2>4, <3>1
  <2>6. connects' + ConnectsIn(frame' \o Remaining(tx_pending, w.n))
          = connects + ConnectsIn(frame \o tx_pending)
    BY <2>1, <2>2, <2>3, <2>5, TransmitCounts
  <2>. QED BY <2>1, <2>4, <2>6
<1>. QED BY <1>2, <1>3 DEF client_flush_pending

\* A CONNECT that aemlib_connect() drops from tx_buffer is damage.
LEMMA ConnectDiscarded ==
    ASSUME ConnectInv, tx_pending' = <<>>, UNCHANGED <<frame, connects, connect_sent>>,
           damage' = damage \cup Discarded, pc' # "send_connect"
    PROVE  ConnectInv'
<1>1. CASE tx_pending = <<>>
  BY <1>1, ConnectUntouched
<1>2. CASE tx_pending # <<>>
  BY <1>2 DEF ConnectInv, TxDamage, Discarded
<1>. QED BY <1>1, <1>2

\* Every step keeps the count of CONNECTs.
LEMMA ConnectStep ==
    ASSUME TypeOK, TransportInv, StreamInv, ConnectInv, [Next]_vars
    PROVE  ConnectInv'
<1>1. CASE aemlib_connect
  <2>1. /\ tx_pending' = <<>> /\ connect_sent' = FALSE /\ state = "DISCONNECTED"
        /\ pc' \in {"idle", "callback"}
    BY <1>1 DEF aemlib_connect, DiscardLeftovers, MayCall, call
  <2>2. CASE NewConnection
    <3>1. connects' = 0 /\ (frame' = <<>> \/ "tx_stale" \in damage')
      BY <2>2 DEF NewConnection, Stale
    <3>2. ASSUME frame' = <<>> PROVE ConnectsIn(frame \o tx_pending)' = 0
      <4>1. frame' \o tx_pending' = <<>>
        BY <2>1, <3>2, EmptySeq, ConcatEmptySeq
      <4>2. ConnectsIn(frame' \o tx_pending') = 0
        BY <4>1 DEF ConnectsIn
      <4>. QED BY <4>2 DEF ConnectsIn
    <3>. QED BY <2>1, <3>1, <3>2 DEF ConnectInv, TxDamage
  <2>3. CASE SameConnection
    <3>1. ~connect_sent /\ UNCHANGED <<frame, connects>> /\ damage' = damage \cup Discarded
      BY <2>1, <2>3 DEF SameConnection, broker, TransportInv, TransportHeld
    <3>2. connect_sent' = connect_sent
      BY <2>1, <3>1 DEF TypeOK
    <3>. QED BY <2>1, <3>1, <3>2, ConnectDiscarded
  <2>. QED BY <1>1, <2>2, <2>3 DEF aemlib_connect
<1>2. CASE aemlib_connect_invalid
  <2>1. /\ tx_pending' = <<>> /\ UNCHANGED <<frame, connects, connect_sent, pc>>
        /\ damage' = damage \cup Discarded /\ pc # "send_connect"
    BY <1>2 DEF aemlib_connect_invalid, DiscardLeftovers, broker, call, MayCall
  <2>. QED BY <2>1, ConnectDiscarded
<1>3. CASE aemlib_publish
  <2>1. pc' # "send_connect" /\ UNCHANGED connect_sent
    BY <1>3 DEF aemlib_publish, MayCall, call
  <2>2. PICK len \in PublishLens, st \in Statuses : EncodeAndSend(Packet("PUBLISH", len), st)
    BY <1>3 DEF aemlib_publish
  <2>. QED BY <2>1, <2>2, ConnectSent, SizesAssumption DEF OutTypes
<1>4. CASE aemlib_subscribe
  <2>1. pc' # "send_connect" /\ UNCHANGED connect_sent
    BY <1>4 DEF aemlib_subscribe, MayCall, call
  <2>2. PICK st \in Statuses : EncodeAndSend(Packet("SUBSCRIBE", SubscribeLen), st)
    BY <1>4 DEF aemlib_subscribe
  <2>. QED BY <2>1, <2>2, ConnectSent, SizesAssumption DEF OutTypes
<1>5. CASE client_send_connect
  <2>1. PICK st \in Statuses :
          EncodeAndSend(Packet("CONNECT", ConnectLen), st) /\ connect_sent' = (st = "OK")
    BY <1>5 DEF client_send_connect
  <2>2. ~connect_sent /\ pc' # "send_connect"
    BY <1>5 DEF client_send_connect, ConnectInv, Return
  <2>. QED BY <2>1, <2>2, ConnectSent, SizesAssumption DEF OutTypes
<1>6. CASE client_keepalive
  <2>1. pc' # "send_connect" /\ UNCHANGED connect_sent
    BY <1>6 DEF client_keepalive, Return
  <2>2. CASE KeepaliveDue
    <3>1. PICK st \in Statuses : EncodeAndSend(Packet("PINGREQ", PingLen), st)
      BY <1>6, <2>2 DEF client_keepalive
    <3>. QED BY <2>1, <3>1, ConnectSent DEF OutTypes, PingLen
  <2>3. CASE ~KeepaliveDue
    BY <1>6, <2>1, <2>3, ConnectUntouched DEF client_keepalive, broker
  <2>. QED BY <2>2, <2>3
<1>7. CASE client_flush_pending
  BY <1>7, ConnectFlush
<1>8. CASE handle_state_connecting \/ connack_wait
  <2>1. UNCHANGED <<tx_pending, frame, connects, connect_sent, damage>>
    BY <1>8 DEF handle_state_connecting, connack_wait, broker, hist
  <2>2. pc' = "send_connect" => ~connect_sent
    BY <1>8 DEF handle_state_connecting, connack_wait, ConnectIfUnsent, HangUp, Goto, Return
  <2>. QED BY <2>1, <2>2, ConnectUntouched
<1>9. ASSUME \/ aemlib_disconnect \/ poll_from_callback \/ Tick \/ Network \/ UNCHANGED vars
      PROVE  ConnectInv'
  <2>1. UNCHANGED <<tx_pending, frame, connects, connect_sent>> /\ damage \subseteq damage'
    BY <1>9 DEF aemlib_disconnect, poll_from_callback, Tick, Network, LinkOpens, LinkDies,
                BrokerSends, vars, client, broker, hist
  <2>2. pc' = "send_connect" => pc = "send_connect"
    BY <1>9 DEF aemlib_disconnect, poll_from_callback, Tick, Network, LinkOpens, LinkDies,
                BrokerSends, vars, call
  <2>. QED BY <2>1, <2>2, ConnectUntouched DEF ConnectInv
<1>10. ASSUME \/ handle_state_disconnected \/ connect_sent_read \/ connack_error
              \/ connack_received \/ handle_state_mqtt_connected
              \/ handle_state_mqtt_disconnecting \/ client_read \/ parse_wait \/ parse_error
              \/ client_dispatch_packet \/ on_message_returns \/ consume_packet
       PROVE  ConnectInv'
  <2>1. UNCHANGED <<tx_pending, frame, connects, connect_sent, damage>>
    BY <1>10 DEF handle_state_disconnected, connect_sent_read, connack_error, connack_received,
                 handle_state_mqtt_connected, handle_state_mqtt_disconnecting, client_read,
                 parse_wait, parse_error, client_dispatch_packet, on_message_returns,
                 consume_packet, client, broker, hist
  <2>2. pc' # "send_connect"
    BY <1>10 DEF handle_state_disconnected, connect_sent_read, connack_error, connack_received,
                 handle_state_mqtt_connected, handle_state_mqtt_disconnecting, client_read,
                 parse_wait, parse_error, client_dispatch_packet, on_message_returns,
                 consume_packet, NextPacket, HangUp, Goto, Return
  <2>. QED BY <2>1, <2>2, ConnectUntouched
<1>. QED BY <1>1, <1>2, <1>3, <1>4, <1>5, <1>6, <1>7, <1>8, <1>9, <1>10 DEF Next, User, Poll

-----------------------------------------------------------------------------
(* No CONNECT before its time *)

\* there is no byte of a CONNECT in s
NoConnect(s) == \A j \in 1..Len(s) : s[j].t # "CONNECT"

\* While a connection is attempted, or kept from an attempt that failed, the
\* broker has not heard CONNECT and nothing staged can make it: CONNECT is sent
\* in CONNECT_SENT only.
Unintroduced == state = "CONNECTING" \/ Kept => heard # "CONNECT" /\ NoConnect(tx_pending)

\* Without a byte of CONNECT among those written, the broker does not get to the
\* end of a CONNECT, not even of one that an earlier connection left begun.
LEMMA TransmitUnintroduced ==
    ASSUME TypeOK, FrameOpen, NEW s \in Seq(OutByte), NoConnect(s), NEW n \in 0..Len(s),
           heard # "CONNECT", Transmit(Taken(s, n))
    PROVE  heard' # "CONNECT" /\ NoConnect(Remaining(s, n))
<1>. DEFINE b == Taken(s, n)
            f == frame \o b
<1>1. /\ b \in Seq(OutByte) /\ Len(b) = n /\ frame \in Seq(OutByte)
      /\ n \in Nat /\ Len(frame) \in Nat
      /\ Len(Remaining(s, n)) = Len(s) - n /\ Len(s) \in Nat
  BY CutSequence, LenProperties DEF TypeOK
<1>2. \A j \in 1..n : b[j] = s[j]
  BY SubSeqProperties DEF Taken
<1>3. \A j \in 1..(Len(s) - n) : Remaining(s, n)[j] = s[n + j]
  BY SubSeqProperties DEF Remaining
<1>4. NoConnect(Remaining(s, n))
  <2>1. SUFFICES ASSUME NEW j \in 1..(Len(s) - n) PROVE Remaining(s, n)[j].t # "CONNECT"
    BY <1>1 DEF NoConnect
  <2>2. n + j \in 1..Len(s)
    BY <1>1
  <2>3. s[n + j].t # "CONNECT"
    BY <2>2 DEF NoConnect
  <2>4. Remaining(s, n)[j] = s[n + j]
    BY <1>3
  <2>. QED BY <2>3, <2>4
<1>5. ASSUME WholePacket(f) PROVE f[1].t # "CONNECT"
  <2>. HIDE DEF b
  <2>1. n # 0
    <3>1. b = <<>> => f = frame
      BY <1>1, ConcatEmptySeq
    <3>2. b # <<>>
      BY <1>5, <3>1 DEF FrameOpen
    <3>. QED BY <1>1, <3>2, EmptySeq
  <2>2. Len(f) = Len(frame) + n /\ f[Len(frame) + n] = b[n]
    <3>1. /\ Len(frame \o b) = Len(frame) + Len(b)
          /\ \A i \in 1..(Len(frame) + Len(b)) :
                (frame \o b)[i] = IF i <= Len(frame) THEN frame[i] ELSE b[i - Len(frame)]
      BY <1>1, ConcatProperties
    <3>2. Len(frame) + n \in 1..(Len(frame) + Len(b)) /\ ~(Len(frame) + n <= Len(frame))
      BY <1>1, <2>1
    <3>3. f[Len(frame) + n] = b[(Len(frame) + n) - Len(frame)]
      BY <3>1, <3>2
    <3>4. (Len(frame) + n) - Len(frame) = n
      BY <1>1
    <3>. QED BY <1>1, <3>1, <3>3, <3>4
  <2>3. b[n].t # "CONNECT"
    BY <1>1, <1>2, <2>1 DEF NoConnect
  <2>4. f[Len(frame) + n] = [t |-> f[1].t, n |-> f[1].n, i |-> Len(frame) + n]
    BY <1>1, <1>5, <2>1, <2>2 DEF WholePacket, PartOfPacket
  <2>. HIDE DEF f
  <2>5. f[Len(frame) + n].t = f[1].t
    BY <2>4
  <2>. QED BY <2>2, <2>3, <2>5
<1>6. heard' = heard \/ (WholePacket(f) /\ heard' = f[1].t)
  BY DEF Transmit
<1>. QED BY <1>4, <1>5, <1>6

\* A send of anything but CONNECT stages no byte of one.
LEMMA SendUnintroduced ==
    ASSUME TypeOK, FrameOpen, NEW t \in OutTypes, t # "CONNECT", NEW n \in Nat \ {0},
           NEW st, EncodeAndSend(Packet(t, n), st),
           heard # "CONNECT", NoConnect(tx_pending)
    PROVE  heard' # "CONNECT" /\ NoConnect(tx_pending')
<1>. DEFINE p == Packet(t, n)
            b == Bytes(p)
<1>0. p.len = n /\ p.type = t
  BY DEF Packet
<1>1. b \in Seq(OutByte) /\ Len(b) = n /\ \A j \in 1..n : b[j].t # "CONNECT"
  <2>1. b = [j \in 1..n |-> [t |-> t, n |-> n, i |-> j]]
    BY DEF Bytes, Packet
  <2>2. \A j \in 1..n : b[j].t = t
    BY <2>1
  <2>. QED BY <2>2, BytesAreAPacket
<1>2. Scratch.t # "CONNECT"
  BY DEF Scratch
<1>. HIDE DEF p, b
<1>3. CASE tx_pending # <<>> /\ client_send(p, st)
  <2>1. tx_pending' = EncodedOver(p) /\ heard' = heard
    BY <1>3 DEF client_send, broker
  <2>2. Len(EncodedOver(p)) = Len(tx_pending) /\ Len(tx_pending) \in Nat
    BY OverlayType, LenProperties DEF p, TypeOK
  <2>3. \A j \in 1..Len(tx_pending) :
           EncodedOver(p)[j] \in {tx_pending[j], Scratch} \/ (j <= n /\ EncodedOver(p)[j] = b[j])
    BY <1>0 DEF EncodedOver, b
  <2>. QED BY <1>1, <1>2, <2>1, <2>2, <2>3 DEF NoConnect
<1>4. CASE tx_pending = <<>> /\ client_send(p, st)
  <2>1. PICK w \in transport_write(n) :
              /\ tx_pending' = IF w.ok THEN Remaining(b, w.n) ELSE <<>>
              /\ Transmit(Taken(b, w.n))
    BY <1>4, <1>0 DEF client_send, b
  <2>2. w.ok \in BOOLEAN /\ w.n \in 0..n
    BY <2>1, WriteBounds
  <2>3. NoConnect(b)
    BY <1>1 DEF NoConnect
  <2>4. heard' # "CONNECT" /\ NoConnect(Remaining(b, w.n))
    BY <1>1, <2>1, <2>2, <2>3, TransmitUnintroduced
  <2>5. NoConnect(<<>>)
    BY DEF NoConnect
  <2>. QED BY <2>1, <2>2, <2>4, <2>5
<1>5. CASE ~Encodes(p)
  <2>1. PICK fields \in BOOLEAN :
              tx_pending' = IF t = "PINGREQ" THEN tx_pending ELSE HalfEncodedOver(p, fields)
    BY <1>5, <1>0 DEF EncodeAndSend, p
  <2>2. heard' = heard
    BY <1>5 DEF EncodeAndSend, broker, p
  <2>3. Len(HalfEncodedOver(p, fields)) = Len(tx_pending) /\ Len(tx_pending) \in Nat
    BY OverlayType, LenProperties DEF p, TypeOK
  <2>4. \A j \in 1..Len(tx_pending) :
           HalfEncodedOver(p, fields)[j] \in {tx_pending[j], Scratch, b[1]}
    BY DEF HalfEncodedOver, b
  <2>5. b[1].t # "CONNECT"
    BY <1>1
  <2>. QED BY <1>2, <2>1, <2>2, <2>3, <2>4, <2>5 DEF NoConnect
<1>. QED BY <1>3, <1>4, <1>5 DEF EncodeAndSend, client_send, p

\* Every step keeps CONNECT for CONNECT_SENT.
LEMMA UnintroducedStep ==
    ASSUME TypeOK, TransportInv, StreamInv, Unintroduced, [Next]_vars
    PROVE  Unintroduced'
<1>0. FrameOpen
  BY DEF StreamInv
<1>1. CASE aemlib_connect \/ aemlib_connect_invalid
  <2>1. /\ tx_pending' = <<>> /\ UNCHANGED link
        /\ \/ heard' = "nothing"
           \/ heard' = heard /\ (state = "CONNECTING" \/ Kept)
           \/ heard' = heard /\ state' = state
    BY <1>1 DEF aemlib_connect, aemlib_connect_invalid, DiscardLeftovers, NewConnection,
                SameConnection, Kept, broker, net
  <2>2. NoConnect(tx_pending)'
    BY <2>1 DEF NoConnect
  <2>. QED BY <2>1, <2>2 DEF Unintroduced, Kept
<1>2. CASE aemlib_publish \/ aemlib_subscribe \/ client_keepalive \/ client_flush_pending
  <2>1. UNCHANGED <<state, link>>
    BY <1>2 DEF aemlib_publish, aemlib_subscribe, client_keepalive, client_flush_pending, net
  <2>2. ASSUME heard # "CONNECT", NoConnect(tx_pending)
        PROVE  heard' # "CONNECT" /\ NoConnect(tx_pending')
    <3>1. CASE aemlib_publish
      BY <1>0, <2>2, <3>1, SendUnintroduced, SizesAssumption DEF aemlib_publish, OutTypes
    <3>2. CASE aemlib_subscribe
      BY <1>0, <2>2, <3>2, SendUnintroduced, SizesAssumption DEF aemlib_subscribe, OutTypes
    <3>3. CASE client_keepalive
      BY <1>0, <2>2, <3>3, SendUnintroduced DEF client_keepalive, OutTypes, PingLen, broker
    <3>4. CASE client_flush_pending
      <4>1. Len(tx_pending) \in Nat /\ tx_pending \in Seq(OutByte)
        BY LenProperties DEF TypeOK
      <4>. QED BY <1>0, <2>2, <3>4, <4>1, WriteBounds, TransmitUnintroduced
               DEF client_flush_pending, broker
    <3>. QED BY <1>2, <3>1, <3>2, <3>3, <3>4
  <2>. QED BY <2>1, <2>2 DEF Unintroduced, Kept, NoConnect
<1>3. CASE client_send_connect
  BY <1>3 DEF client_send_connect, Unintroduced, Kept, TransportInv, net
<1>4. CASE handle_state_connecting
  BY <1>4 DEF handle_state_connecting, Unintroduced, Kept, NoConnect, broker
<1>5. ASSUME \/ aemlib_disconnect \/ poll_from_callback \/ Tick \/ Network \/ UNCHANGED vars
      PROVE  Unintroduced'
  BY <1>5 DEF aemlib_disconnect, poll_from_callback, Tick, Network, LinkOpens, LinkDies, Opens,
              Dies, BrokerSends, vars, client, broker, net, Unintroduced, Kept, NoConnect
<1>6. ASSUME \/ handle_state_disconnected \/ connect_sent_read \/ connack_wait
             \/ connack_error \/ connack_received \/ handle_state_mqtt_connected
             \/ handle_state_mqtt_disconnecting \/ client_read \/ parse_wait \/ parse_error
             \/ client_dispatch_packet \/ on_message_returns \/ consume_packet
      PROVE  Unintroduced'
  <2>1. UNCHANGED <<tx_pending, heard>>
    BY <1>6 DEF handle_state_disconnected, connect_sent_read, connack_wait, connack_error,
                connack_received, handle_state_mqtt_connected, handle_state_mqtt_disconnecting,
                client_read, parse_wait, parse_error, client_dispatch_packet,
                on_message_returns, consume_packet, client, broker
  <2>2. \/ UNCHANGED <<state, link>> \/ state' = "CONNECTED"
        \/ state' = "DISCONNECTED" /\ link' = "down"
    BY <1>6 DEF handle_state_disconnected, connect_sent_read, connack_wait, connack_error,
                connack_received, handle_state_mqtt_connected, handle_state_mqtt_disconnecting,
                client_read, parse_wait, parse_error, client_dispatch_packet,
                on_message_returns, consume_packet, HangUp, transport_disconnect, client, net
  <2>. QED BY <2>1, <2>2 DEF Unintroduced, Kept, NoConnect
<1>. QED BY <1>1, <1>2, <1>3, <1>4, <1>5, <1>6 DEF Next, User, Poll

\* all that the session rests on
SessionBasis == /\ TypeOK /\ TransportInv /\ StreamInv /\ ReadInv /\ InboundInv
                /\ Answers /\ SessionInv /\ Unintroduced

\* SessionBasis is an inductive invariant.
LEMMA BasisInductive ==
    /\ Init => SessionBasis
    /\ SessionBasis /\ [Next]_vars => SessionBasis'
<1>1. Init => SessionBasis
  <2>1. Init => TransportInv /\ ReadInv /\ SessionInv
    BY DEF Init, TransportInv, TransportHeld, ReadInv, NoUnderflow, SessionInv, Live, Starting,
           Kept
  <2>2. Init => Answers
    <3>1. Init => Len(sent) = 0
      BY DEF Init
    <3>. QED BY <3>1 DEF Answers
  <2>3. Init => Unintroduced
    BY DEF Init, Unintroduced, Kept
  <2>. QED BY <2>1, <2>2, <2>3, TypeInit, StreamInit, InboundInit DEF SessionBasis
<1>2. SessionBasis /\ [Next]_vars => SessionBasis'
  BY TypeStep, TransportStep, StreamStep, ReadStep, InboundStep, AnswersStep, SessionStep,
     UnintroducedStep
     DEF SessionBasis
<1>. QED BY <1>1, <1>2

\* Whatever the network does, however often the application reconnects and
\* whatever it sends: a client is CONNECTED only on a connection whose broker
\* got CONNECT first, and CONNECT goes out once (aemlib_connect, aemlib_poll).
\* Nothing is said of a connection that does not get that far: a PUBLISH made
\* while the client is still CONNECTING may be all the broker hears on it.
THEOREM SessionCorrect == Spec => []SessionSound
<1>1. Init => SessionBasis /\ ConnectInv
  <2>1. Init => ConnectInv
    <3>. SUFFICES ASSUME Init PROVE ConnectInv
      OBVIOUS
    <3>1. frame \o tx_pending = <<>>
      BY EmptySeq, ConcatEmptySeq DEF Init
    <3>2. connects + ConnectsIn(frame \o tx_pending) = 0 /\ ~connect_sent /\ pc = "idle"
      BY <3>1 DEF Init, ConnectsIn
    <3>. QED BY <3>2 DEF ConnectInv
  <2>. QED BY <2>1, BasisInductive
<1>2. (SessionBasis /\ ConnectInv) /\ [Next]_vars => (SessionBasis /\ ConnectInv)'
  BY BasisInductive, ConnectStep DEF SessionBasis
<1>3. SessionBasis /\ ConnectInv => SessionSound
  <2>. SUFFICES ASSUME SessionBasis, ConnectInv PROVE SessionSound
    OBVIOUS
  <2>1. state \in {"CONNECTED", "DISCONNECTING"} /\ Undamaged => heard = "CONNECT"
    BY DEF SessionBasis, SessionInv, Live
  <2>2. damage \cap TxDamage = {} => connects <= 1
    <3>1. ConnectsIn(frame \o tx_pending) \in {0, 1} /\ connects \in 0..2
      BY DEF ConnectsIn, SessionBasis, TypeOK
    <3>2. damage \cap TxDamage = {} =>
             connects + ConnectsIn(frame \o tx_pending) <= IF connect_sent THEN 1 ELSE 0
      BY DEF ConnectInv
    <3>. QED BY <3>1, <3>2
  <2>. QED BY <2>1, <2>2 DEF SessionSound, Undamaged
<1>. QED BY <1>1, <1>2, <1>3, PTL DEF Spec

-----------------------------------------------------------------------------
(* Refinement of MqttSession *)

\* The phase of the session, by the state of the client.
LEMMA PhaseIs ==
    /\ state = "DISCONNECTED" => Phase = "closed"
    /\ state \in Starting => Phase = "connecting"
    /\ state = "CONNECTED" => Phase = "established"
    /\ state = "DISCONNECTING" => Phase = "closing"
BY DEF Phase, Starting

\* A step that misuses the buffer, or takes place after it was misused, is one
\* about which nothing is promised.
LEMMA MisuseRefines ==
    ASSUME ~Undamaged'
    PROVE  Session!Next
BY DEF Session!Next, Session!Misuse, Undamaged

\* Steps the application does not see.
LEMMA StutterRefines ==
    ASSUME Phase' = Phase, UNCHANGED <<heard, sent, delivered>>, Undamaged, Undamaged'
    PROVE  UNCHANGED Session!vars
BY DEF Session!vars, Undamaged

\* The end of the connection, for whatever reason, is the end of the session.
LEMMA EndRefines ==
    ASSUME TypeOK, state # "DISCONNECTED", state' = "DISCONNECTED",
           UNCHANGED <<heard, sent, delivered>>, Undamaged, Undamaged'
    PROVE  Session!Next
<1>1. Phase' = "closed"
  BY DEF Phase
<1>2. Phase # "closed"
  BY PhaseIs DEF TypeOK, States, Starting
<1>. QED BY <1>1, <1>2 DEF Session!Next, Session!End, Undamaged

\* A send makes the broker hear CONNECT while the client connects, or changes
\* nothing of the session.
LEMMA SendsRefine ==
    ASSUME SessionBasis, Writes, Undamaged, Undamaged'
    PROVE  [Session!Next]_Session!vars
<1>1. /\ UNCHANGED <<state, sent, delivered>>
      /\ heard' = heard \/ (heard = "nothing" /\ link # "down" /\ UNCHANGED link)
  BY SendsEffect DEF SessionBasis
<1>2. Phase' = Phase
  BY <1>1 DEF Phase
<1>3. CASE heard' = heard
  BY <1>1, <1>2, <1>3, StutterRefines
<1>4. CASE heard = "nothing" /\ heard' = "CONNECT"
  <2>0. state # "DISCONNECTED"
    <3>1. Unintroduced'
      BY UnintroducedStep DEF SessionBasis, Writes, Next, User, Poll
    <3>. QED BY <1>1, <1>4, <3>1 DEF Unintroduced, Kept
  <2>1. state \in Starting
    BY <1>4, <2>0 DEF SessionBasis, SessionInv, TypeOK, States, Starting, Live
  <2>2. Phase = "connecting"
    BY <2>1, PhaseIs
  <2>. QED BY <1>1, <1>2, <1>4, <2>2 DEF Session!Next, Session!Greet, Undamaged
<1>5. CASE heard = "nothing" /\ heard' # "CONNECT"
  <2>1. ~(heard = "CONNECT") /\ ~(heard' = "CONNECT")
    BY <1>5
  <2>2. (heard = "CONNECT")' = (heard = "CONNECT")
    BY <2>1
  <2>. QED BY <1>1, <1>2, <2>2 DEF Session!vars, Undamaged
<1>. QED BY <1>1, <1>3, <1>4, <1>5

\* The API calls implement Start, Resume and Leave.
LEMMA UserRefines ==
    ASSUME SessionBasis, User, Undamaged'
    PROVE  [Session!Next]_Session!vars
<1>1. CASE aemlib_connect
  <2>1. state = "DISCONNECTED" /\ state' = "CONNECTING"
    BY <1>1 DEF aemlib_connect
  <2>2. Phase = "closed" /\ Phase' = "connecting"
    BY <2>1 DEF Phase
  <2>3. CASE NewConnection
    <3>1. heard' = "nothing" /\ sent' = <<>> /\ delivered' = <<>>
      BY <2>3 DEF NewConnection
    <3>. QED BY <2>2, <3>1 DEF Session!Next, Session!Start, Undamaged
  <2>4. CASE SameConnection
    <3>1. UNCHANGED <<heard, sent, delivered>> /\ damage \subseteq damage' /\ Kept
      BY <2>1, <2>4 DEF SameConnection, broker, Kept
    <3>2. Undamaged
      BY <3>1 DEF Undamaged
    <3>3. heard # "CONNECT" /\ delivered = <<>>
      BY <3>1, <3>2 DEF SessionBasis, SessionInv, Unintroduced
    <3>. QED BY <2>2, <3>1, <3>2, <3>3 DEF Session!Next, Session!Resume, Undamaged
  <2>. QED BY <1>1, <2>3, <2>4 DEF aemlib_connect
<1>2. CASE aemlib_connect_invalid
  <2>1. UNCHANGED <<state, heard, sent, delivered>> /\ damage \subseteq damage'
    BY <1>2 DEF aemlib_connect_invalid, broker, net
  <2>2. Phase' = Phase /\ Undamaged
    BY <2>1 DEF Phase, Undamaged
  <2>. QED BY <2>1, <2>2, StutterRefines
<1>3. CASE aemlib_disconnect
  <2>1. /\ state = "CONNECTED" /\ state' = "DISCONNECTING"
        /\ UNCHANGED <<heard, sent, delivered, damage>>
    BY <1>3 DEF aemlib_disconnect, broker, net, hist
  <2>2. Phase = "established" /\ Phase' = "closing"
    BY <2>1 DEF Phase
  <2>. QED BY <2>1, <2>2 DEF Session!Next, Session!Leave
<1>4. CASE aemlib_publish \/ aemlib_subscribe
  <2>1. Writes
    BY <1>4 DEF Writes
  <2>2. Undamaged
    BY <2>1, SendsEffect DEF SessionBasis
  <2>. QED BY <2>1, <2>2, SendsRefine
<1>5. ~poll_from_callback
  BY DEF poll_from_callback, Undamaged, RxDamage
<1>. QED BY <1>1, <1>2, <1>3, <1>4, <1>5 DEF User

\* The CONNACK implements Accept, or ends the session.
LEMMA ConnackRefines ==
    ASSUME SessionBasis, connack_received, Undamaged
    PROVE  Session!Next
<1>1. PICK h \in decode_fixed_header(rx) :
        /\ h.st = "OK" /\ h.type = "CONNACK" /\ h.len <= Len(rx)
        /\ \/ ConnackAccepted(h) /\ state' = "CONNECTED"
           \/ state' = "DISCONNECTED"
  BY DEF connack_received, HangUp
<1>2. pc = "connack" /\ UNCHANGED <<heard, sent, delivered, damage>>
  BY DEF connack_received, HangUp, net, broker
<1>3. state = "CONNECT_SENT" /\ TypeOK
  BY <1>2 DEF SessionBasis, TransportInv
<1>4. CASE ConnackAccepted(h) /\ state' = "CONNECTED"
  <2>1. heard = "CONNECT" /\ sent # <<>> /\ sent[1] = "CONNACK_OK"
    BY <1>1, <1>2, <1>4, AcceptedByBroker DEF SessionBasis
  <2>2. Phase = "connecting" /\ Phase' = "established"
    BY <1>3, <1>4 DEF Phase
  <2>. QED BY <1>2, <2>1, <2>2 DEF Session!Next, Session!Accept
<1>5. CASE state' = "DISCONNECTED"
  <2>1. Undamaged'
    BY <1>2 DEF Undamaged
  <2>. QED BY <1>2, <1>3, <1>5, <2>1, EndRefines
<1>. QED BY <1>1, <1>4, <1>5

\* A dispatch implements Deliver, or is not seen by the application.
LEMMA DispatchRefines ==
    ASSUME SessionBasis, client_dispatch_packet, Undamaged
    PROVE  [Session!Next]_Session!vars
<1>1. PICK h \in decode_fixed_header(rx) :
        /\ h.st = "OK" /\ h.len <= Len(rx)
        /\ h.type = "PUBLISH" => h.body = "OK"
        /\ IF h.type = "PUBLISH" /\ OnMessage
           THEN pc' = "callback" /\ delivered' = Append(delivered, rx[1].n)
           ELSE pc' = "consume" /\ UNCHANGED delivered
  BY DEF client_dispatch_packet, PacketBuffered
<1>2. UNCHANGED <<state, heard, sent, damage>> /\ pc = "parse"
  BY DEF client_dispatch_packet, client, net, broker
<1>3. Phase' = Phase /\ Undamaged'
  BY <1>2 DEF Phase, Undamaged
<1>4. CASE ~(h.type = "PUBLISH" /\ OnMessage)
  BY <1>1, <1>2, <1>3, <1>4, StutterRefines
<1>5. CASE h.type = "PUBLISH" /\ OnMessage
  <2>1. /\ rx[1].k \in AllInKinds /\ rx[1].k = sent[done + 1] /\ rx[1].n = done + 1
        /\ done + 1 \in 1..Len(sent)
        /\ h.type = InPacket(rx[1].k).type /\ h.len = InPacket(rx[1].k).len
        /\ h.body = InPacket(rx[1].k).body /\ h.len \in Nat
    BY <1>1, DecodesFirst, UserAssumption DEF SessionBasis
  <2>2. InPacket(rx[1].k).len <= RxSize
    <3>1. Len(rx) \in Nat /\ RxSize \in Nat /\ Len(rx) <= RxSize
      BY StreamType, SizesAssumption DEF SessionBasis, TypeOK
    <3>2. h.len <= RxSize
      BY <1>1, <2>1, <3>1
    <3>. QED BY <2>1, <3>2
  <2>3. sent[done + 1] = "PUBLISH"
    BY <1>1, <1>5, <2>1, <2>2, KindOf
  <2>4. state \in Live
    BY <1>2 DEF SessionBasis, ReadInv, Undamaged, RxDamage, Live
  <2>5. Phase \in {"established", "closing"}
    BY <2>4, PhaseIs DEF Live
  <2>6. Handled = done /\ done \in Nat
    BY <1>2 DEF Handled, SessionBasis, TypeOK
  <2>7. LastDelivered <= done /\ \A j \in (LastDelivered + 1)..done : sent[j] \in SkippedKinds
    BY <1>5, <2>4, <2>6 DEF SessionBasis, SessionInv, NothingRefused
  <2>8. LastDelivered = Session!Last
    BY DEF LastDelivered, Session!Last
  <2>9. done + 1 > Session!Last
    BY <2>6, <2>7, <2>8, LastType DEF SessionBasis
  <2>10. (done + 1) - 1 = done
    BY <2>6
  <2>11. \A j \in (Session!Last + 1)..((done + 1) - 1) : sent[j] \in SkippedKinds
    BY <2>7, <2>8, <2>10
  <2>12. delivered' = Append(delivered, done + 1)
    BY <1>1, <1>5, <2>1
  <2>13. Session!Deliver(done + 1)
    BY <1>2, <1>3, <2>3, <2>5, <2>9, <2>11, <2>12 DEF Session!Deliver, SkippedKinds
  <2>14. done + 1 \in DOMAIN sent
    BY <2>1, StreamType, LenProperties DEF SessionBasis
  <2>. QED BY <2>13, <2>14 DEF Session!Next
<1>. QED BY <1>4, <1>5

\* Every step of a poll implements a step of the session, or none.
LEMMA PollRefines ==
    ASSUME SessionBasis, Poll, Undamaged'
    PROVE  [Session!Next]_Session!vars
<1>1. CASE client_flush_pending \/ client_send_connect \/ client_keepalive
  <2>1. Writes
    BY <1>1 DEF Writes
  <2>2. Undamaged
    BY <2>1, SendsEffect DEF SessionBasis
  <2>. QED BY <2>1, <2>2, SendsRefine
<1>2. CASE connack_received
  <2>1. Undamaged
    BY <1>2 DEF connack_received, Undamaged
  <2>. QED BY <1>2, <2>1, ConnackRefines
<1>3. CASE client_dispatch_packet
  <2>1. Undamaged
    BY <1>3 DEF client_dispatch_packet, Undamaged
  <2>. QED BY <1>3, <2>1, DispatchRefines
<1>4. CASE \/ handle_state_connecting \/ connect_sent_read \/ connack_wait \/ connack_error
           \/ handle_state_mqtt_disconnecting
  <2>1. UNCHANGED <<heard, sent, delivered, damage>>
    BY <1>4 DEF handle_state_connecting, connect_sent_read, connack_wait, connack_error,
                handle_state_mqtt_disconnecting, HangUp, net, broker, hist
  <2>2. /\ state # "DISCONNECTED"
        /\ \/ state' \in {state, "DISCONNECTED"}
           \/ state = "CONNECTING" /\ state' = "CONNECT_SENT"
    BY <1>4 DEF handle_state_connecting, connect_sent_read, connack_wait, connack_error,
                handle_state_mqtt_disconnecting, HangUp, SessionBasis, TransportInv
  <2>3. Undamaged
    BY <2>1 DEF Undamaged
  <2>4. CASE state' = "DISCONNECTED"
    BY <2>1, <2>2, <2>3, <2>4, EndRefines DEF SessionBasis
  <2>5. CASE state' = state \/ (state = "CONNECTING" /\ state' = "CONNECT_SENT")
    <3>1. Phase' = Phase
      BY <2>5 DEF Phase
    <3>. QED BY <2>1, <2>3, <3>1, StutterRefines
  <2>. QED BY <2>2, <2>4, <2>5
<1>5. CASE \/ handle_state_disconnected \/ handle_state_mqtt_connected \/ client_read
           \/ parse_wait \/ parse_error \/ on_message_returns \/ consume_packet
  <2>1. UNCHANGED <<state, heard, sent, delivered, damage>>
    BY <1>5 DEF handle_state_disconnected, handle_state_mqtt_connected, client_read,
                parse_wait, parse_error, on_message_returns, consume_packet,
                client, net, broker, hist
  <2>2. Phase' = Phase /\ Undamaged
    BY <2>1 DEF Phase, Undamaged
  <2>. QED BY <2>1, <2>2, StutterRefines
<1>. QED BY <1>1, <1>2, <1>3, <1>4, <1>5 DEF Poll

\* Every step of the client, the network and the broker does.
LEMMA SessionRefines ==
    ASSUME SessionBasis, [Next]_vars
    PROVE  [Session!Next]_Session!vars
<1>1. CASE ~Undamaged'
  BY <1>1, MisuseRefines
<1>2. CASE Undamaged'
  <2>1. CASE UNCHANGED vars \/ Tick \/ LinkOpens \/ LinkDies
    <3>1. UNCHANGED <<state, heard, sent, delivered, damage>>
      BY <2>1 DEF vars, Tick, LinkOpens, LinkDies, client, net, broker, hist
    <3>2. Phase' = Phase /\ Undamaged
      BY <1>2, <3>1 DEF Phase, Undamaged
    <3>. QED BY <1>2, <3>1, <3>2, StutterRefines
  <2>2. ASSUME NEW kind \in InKinds, BrokerSends(kind)
        PROVE  [Session!Next]_Session!vars
    <3>1. /\ sent' = Append(sent, kind)
          /\ kind \in ConnackKinds => heard = "CONNECT"
          /\ UNCHANGED <<state, heard, delivered, damage>>
      BY <2>2 DEF BrokerSends, client, broker, hist
    <3>2. Phase' = Phase
      BY <3>1 DEF Phase
    <3>3. Session!Offer(kind)
      BY <3>1, <3>2 DEF Session!Offer
    <3>. QED BY <3>3 DEF Session!Next
  <2>. QED BY <1>2, <2>1, <2>2, UserRefines, PollRefines DEF Next, Network
<1>. QED BY <1>1, <1>2

\* The client implements the session it promises, for all buffer sizes, packet
\* kinds, timeouts and calls back from on_message: established by the
\* acceptance of its own CONNECT, and every PUBLISH handed over in order with
\* nothing refused in between (aemlib_poll and all it calls).
THEOREM ImplementsSessionCorrect == Spec => ImplementsSession
<1>1. Init => Session!Init
  BY DEF Init, Session!Init, Phase
<1>2. SessionBasis /\ [Next]_vars => [Session!Next]_Session!vars
  BY SessionRefines
<1>3. Init => SessionBasis
  BY BasisInductive
<1>4. SessionBasis /\ [Next]_vars => SessionBasis'
  BY BasisInductive
<1>. QED BY <1>1, <1>2, <1>3, <1>4, PTL DEF Spec, ImplementsSession, Session!Spec
=============================================================================
