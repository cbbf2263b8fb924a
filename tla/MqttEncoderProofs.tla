-------------------------- MODULE MqttEncoderProofs --------------------------
(***************************************************************************)
(* A packet the encoders report as encoded is read back by the decoders as *)
(* the request it was made from, whatever the buffer held before, for      *)
(* every size of the buffer and every topic and payload.                   *)
(***************************************************************************)
EXTENDS MqttEncoder, SequenceTheorems, TLAPS

\* what is known of the decoder at the other end of the wire
Wire == INSTANCE MqttDecoderProofs
            WITH buf <- buf, HeaderBytes <- {}, WireBytes <- {}, MaxBuf <- 0

Octet == 0..255

\* four bytes carry a Remaining Length below this
RlLimit == 268435456

\* two bytes carry a number below this
U16Limit == 65536

\* and this is the number, high byte first
U16(x, y) == 256 * x + y

\* tx_buffer holds octets.
BufOK == buf \in Seq(Octet) /\ Len(buf) <= SizeMax

-----------------------------------------------------------------------------
(* The codec's lemmas, in this module's terms *)

\* Both sides share the codec.
LEMMA SameCodec ==
    /\ Wire!WireAssumption
    /\ Octet = Wire!Octet /\ RlLimit = Wire!RlLimit /\ Multiplier = Wire!Multiplier
    /\ \A S : Min(S) = Wire!Min(S)
    /\ \A v : rl_rounds(v) = Wire!rl_rounds(v)
    /\ \A v : rl_bytes(v) = Wire!rl_bytes(v)
    /\ \A s : decode_remaining_length(s) = Wire!decode_remaining_length(s)
  <1>1. Wire!WireAssumption
    BY DEF Wire!WireAssumption
  <1>2. Octet = Wire!Octet /\ RlLimit = Wire!RlLimit
    BY DEF Octet, Wire!Octet, RlLimit, Wire!RlLimit
  <1>3. Multiplier = Wire!Multiplier
    BY DEF Multiplier, Wire!Multiplier
  <1>4. \A S : Min(S) = Wire!Min(S)
    BY DEF Min, Wire!Min
  <1>5. \A v : rl_rounds(v) = Wire!rl_rounds(v)
    BY <1>3, <1>4, Zenon DEF rl_rounds, Wire!rl_rounds, last_byte, Wire!last_byte
  <1>6. \A v : rl_bytes(v) = Wire!rl_bytes(v)
    BY <1>3, <1>5, Zenon DEF rl_bytes, Wire!rl_bytes, last_byte, Wire!last_byte
  <1>7. \A s : rl_ends(s) = Wire!rl_ends(s)
    BY DEF rl_ends, Wire!rl_ends, RlMaxBytes, Wire!RlMaxBytes
  <1>8. \A s, n : rl_value(s, n) = Wire!rl_value(s, n)
    <2>. TAKE s, n
    <2>. QED  BY <1>3 DEF rl_value, Wire!rl_value
  <1>9. \A s : decode_remaining_length(s) = Wire!decode_remaining_length(s)
    BY <1>4, <1>7, <1>8, Zenon DEF decode_remaining_length, Wire!decode_remaining_length,
                           RlMaxBytes, Wire!RlMaxBytes
  <1>. QED  BY <1>1, <1>2, <1>3, <1>4, <1>5, <1>6, <1>9

\* An octet is a number.
LEMMA OctetRange == \A b \in Octet : b \in Nat /\ b <= 255
  BY DEF Octet

\* The Remaining Length the encoder writes, and what the decoder makes of it
\* when more bytes follow.
LEMMA LengthOnTheWire ==
    ASSUME NEW v \in Nat, v < RlLimit,
           NEW t \in Seq(Octet), Len(rl_bytes(v)) <= Len(t),
           \A i \in 1..Len(rl_bytes(v)) : t[i] = rl_bytes(v)[i]
    PROVE  decode_remaining_length(t) =
              [st |-> "OK", consumed |-> Len(rl_bytes(v)), value |-> v]
  <1>. DEFINE r == rl_bytes(v)
  <1>0. /\ Wire!WireAssumption /\ v < Wire!RlLimit
        /\ rl_bytes(v) = Wire!rl_bytes(v) /\ t \in Seq(Wire!Octet)
        /\ rl_rounds(v) = Wire!rl_rounds(v)
        /\ Octet = Wire!Octet
    BY SameCodec
  <1>1. r \in Seq(Octet)
    BY <1>0, Wire!EncodedBytes
  <1>2. Wire!decode_remaining_length(r) = [st |-> "OK", consumed |-> Len(r), value |-> v]
    BY <1>0, Wire!DecodesItsLength
  <1>. HIDE DEF r
  <1>3. /\ r \in Seq(Wire!Octet) /\ Len(r) <= Len(t) /\ \A i \in 1..Len(r) : t[i] = r[i]
        /\ Wire!decode_remaining_length(r).st # "BUFFER_TOO_SMALL"
    BY <1>0, <1>1, <1>2 DEF r
  <1>4. Wire!decode_remaining_length(t) = Wire!decode_remaining_length(r)
    BY <1>0, <1>3, Wire!LengthFinal
  <1>. QED  BY <1>2, <1>4, SameCodec DEF r

\* The encoder's loop writes one to four octets for a number that four bytes
\* can carry, and more for any other number that fits an int.
LEMMA LengthWritten ==
    ASSUME NEW v \in Nat, v <= SizeMax
    PROVE  /\ Len(rl_bytes(v)) \in Nat
           /\ Len(rl_bytes(v)) <= RlMaxBytes => v < RlLimit
           /\ v < RlLimit => /\ rl_bytes(v) \in Seq(Octet)
                             /\ Len(rl_bytes(v)) \in 1..4
  <1>. DEFINE S == {i \in 1..5 : last_byte(v \div Multiplier[i])}
              n == Min(S)
  <1>1. /\ Multiplier[1] = 1 /\ Multiplier[2] = 128 /\ Multiplier[3] = 16384
        /\ Multiplier[4] = 2097152 /\ Multiplier[5] = 268435456
    BY DEF Multiplier
  <1>2. 5 \in S
    <2>1. v \div 268435456 < 128
      BY DEF SizeMax
    <2>. QED  BY <1>1, <2>1 DEF last_byte
  <1>3. S \in SUBSET Nat /\ 0 \notin S
    OBVIOUS
  <1>4. n \in S /\ n \in 1..5
    <2>. HIDE DEF S
    <2>1. Wire!WireAssumption /\ Min(S) = Wire!Min(S)
      BY SameCodec
    <2>. QED  BY <1>2, <1>3, <2>1, Wire!LeastOfFive
  <1>5. n = rl_rounds(v)
    BY DEF rl_rounds
  <1>. HIDE DEF n
  <1>6. Len(rl_bytes(v)) = n
    BY <1>4, <1>5 DEF rl_bytes
  <1>7. v \div Multiplier[n] < 128
    BY <1>4 DEF last_byte
  <1>8. n <= 4 => v < RlLimit
    <2>1. n <= 4 => n \in {1, 2, 3, 4}
      BY <1>4
    <2>2. CASE n = 1
      BY <1>1, <1>7, <2>2 DEF RlLimit
    <2>3. CASE n = 2
      BY <1>1, <1>7, <2>3 DEF RlLimit
    <2>4. CASE n = 3
      BY <1>1, <1>7, <2>4 DEF RlLimit
    <2>5. CASE n = 4
      BY <1>1, <1>7, <2>5 DEF RlLimit
    <2>. QED  BY <2>1, <2>2, <2>3, <2>4, <2>5
  <1>9. ASSUME v < RlLimit
        PROVE  rl_bytes(v) \in Seq(Octet) /\ Len(rl_bytes(v)) \in 1..4
    <2>1. /\ Wire!WireAssumption /\ v < Wire!RlLimit
          /\ rl_bytes(v) = Wire!rl_bytes(v) /\ rl_rounds(v) = Wire!rl_rounds(v)
          /\ Octet = Wire!Octet
      BY <1>9, SameCodec
    <2>2. /\ Wire!rl_rounds(v) \in 1..4 /\ Wire!rl_bytes(v) \in Seq(Wire!Octet)
          /\ Len(Wire!rl_bytes(v)) = Wire!rl_rounds(v)
      BY <2>1, Wire!EncodedBytes
    <2>. QED  BY <2>1, <2>2
  <1>. QED  BY <1>4, <1>6, <1>8, <1>9 DEF RlMaxBytes

-----------------------------------------------------------------------------
(* Writing into the buffer *)

\* Concatenation, byte by byte.
LEMMA ConcatAt ==
    ASSUME NEW x \in Seq(Octet), NEW y \in Seq(Octet)
    PROVE  /\ x \o y \in Seq(Octet) /\ Len(x \o y) = Len(x) + Len(y)
           /\ \A j \in 1..(Len(x) + Len(y)) :
                 (x \o y)[j] = IF j <= Len(x) THEN x[j] ELSE y[j - Len(x)]
  OBVIOUS

\* Bytes written inside the buffer replace the bytes there and no others.
LEMMA WrittenInside ==
    ASSUME NEW s \in Seq(Octet), NEW d \in Seq(Octet), NEW at \in Nat,
           at + Len(d) <= Len(s)
    PROVE  /\ Written(s, at, d) \in Seq(Octet)
           /\ Len(Written(s, at, d)) = Len(s)
           /\ \A j \in 1..Len(s) :
                 Written(s, at, d)[j] = IF at < j /\ j <= at + Len(d) THEN d[j - at] ELSE s[j]
  <1>. DEFINE a == SubSeq(s, 1, at)
              b == SubSeq(s, at + Len(d) + 1, Len(s))
  <1>0. Len(s) \in Nat /\ Len(d) \in Nat
    OBVIOUS
  <1>1. a \in Seq(Octet) /\ Len(a) = at /\ \A j \in 1..at : a[j] = s[j]
    BY <1>0
  <1>2. /\ b \in Seq(Octet) /\ Len(b) = Len(s) - (at + Len(d))
        /\ \A j \in 1..(Len(s) - (at + Len(d))) : b[j] = s[at + Len(d) + j]
    BY <1>0
  <1>3. Written(s, at, d) = (a \o d) \o b
    BY DEF Written
  <1>. HIDE DEF a, b
  <1>4. /\ a \o d \in Seq(Octet) /\ Len(a \o d) = at + Len(d)
        /\ \A j \in 1..(at + Len(d)) : (a \o d)[j] = IF j <= at THEN a[j] ELSE d[j - at]
    BY <1>0, <1>1
  <1>. DEFINE c == a \o d
  <1>5. /\ c \in Seq(Octet) /\ Len(c) = at + Len(d)
        /\ \A j \in 1..(at + Len(d)) : c[j] = IF j <= at THEN a[j] ELSE d[j - at]
    BY <1>4
  <1>. HIDE DEF c
  <1>6. /\ c \o b \in Seq(Octet) /\ Len(c \o b) = Len(s)
        /\ \A j \in 1..Len(s) : (c \o b)[j] = IF j <= at + Len(d) THEN c[j]
                                               ELSE b[j - (at + Len(d))]
    <2>1. /\ c \o b \in Seq(Octet) /\ Len(c \o b) = Len(c) + Len(b)
          /\ \A j \in 1..(Len(c) + Len(b)) :
                (c \o b)[j] = IF j <= Len(c) THEN c[j] ELSE b[j - Len(c)]
      BY <1>2, <1>5, ConcatAt, Zenon
    <2>2. Len(c) + Len(b) = Len(s)
      BY <1>0, <1>2, <1>5
    <2>. QED  BY <1>5, <2>1, <2>2, Zenon
  <1>7. Written(s, at, d) = c \o b
    BY <1>3 DEF c
  <1>8. ASSUME NEW j \in 1..Len(s)
        PROVE  (c \o b)[j] = IF at < j /\ j <= at + Len(d) THEN d[j - at] ELSE s[j]
    <2>1. CASE j <= at
      <3>1. j \in 1..at /\ j \in 1..(at + Len(d))
        BY <1>0, <2>1
      <3>. QED  BY <1>0, <1>1, <1>5, <1>6, <2>1, <3>1
    <2>2. CASE at < j /\ j <= at + Len(d)
      BY <1>0, <1>5, <1>6, <2>2
    <2>3. CASE at + Len(d) < j
      <3>1. /\ j - (at + Len(d)) \in 1..(Len(s) - (at + Len(d)))
            /\ at + Len(d) + (j - (at + Len(d))) = j
        BY <1>0, <2>3
      <3>. QED  BY <1>0, <1>2, <1>6, <2>3, <3>1
    <2>4. j <= at \/ (at < j /\ j <= at + Len(d)) \/ at + Len(d) < j
      BY <1>0
    <2>. QED  BY <2>1, <2>2, <2>3, <2>4, Zenon
  <1>. QED  BY <1>6, <1>7, <1>8

\* The same at the front of the buffer.
LEMMA WrittenAtFront ==
    ASSUME NEW s \in Seq(Octet), NEW d \in Seq(Octet), Len(d) <= Len(s)
    PROVE  /\ Written(s, 0, d) \in Seq(Octet)
           /\ Len(Written(s, 0, d)) = Len(s)
           /\ \A j \in 1..Len(s) :
                 Written(s, 0, d)[j] = IF j <= Len(d) THEN d[j] ELSE s[j]
  <1>. DEFINE z == 0
  <1>1. z \in Nat /\ z + Len(d) = Len(d) /\ Len(s) \in Nat /\ Len(d) \in Nat
    OBVIOUS
  <1>2. \A j \in 1..Len(s) : z < j /\ j - z = j
    BY <1>1
  <1>. HIDE DEF z
  <1>3. /\ Written(s, z, d) \in Seq(Octet) /\ Len(Written(s, z, d)) = Len(s)
        /\ \A j \in 1..Len(s) : Written(s, z, d)[j] =
              IF z < j /\ j <= z + Len(d) THEN d[j - z] ELSE s[j]
    BY <1>1, WrittenInside
  <1>4. \A j \in 1..Len(s) : Written(s, z, d)[j] = IF j <= Len(d) THEN d[j] ELSE s[j]
    BY <1>1, <1>2, <1>3
  <1>. QED  BY <1>3, <1>4 DEF z

\* A set with an element among the first six and none beyond has a largest
\* one, which Max is.
LEMMA LargestOfSix ==
    ASSUME NEW S \in SUBSET (1..6), S # {}
    PROVE  Max(S) \in S /\ \A j \in S : Max(S) >= j
  <1>. DEFINE P(x) == x \in S /\ \A y \in S : x >= y
  <1>1. \E x : P(x)
    <2>1. CASE 6 \in S
      BY <2>1
    <2>2. CASE 6 \notin S /\ 5 \in S
      BY <2>2
    <2>3. CASE 6 \notin S /\ 5 \notin S /\ 4 \in S
      BY <2>3
    <2>4. CASE 6 \notin S /\ 5 \notin S /\ 4 \notin S /\ 3 \in S
      BY <2>4
    <2>5. CASE 6 \notin S /\ 5 \notin S /\ 4 \notin S /\ 3 \notin S /\ 2 \in S
      BY <2>5
    <2>6. CASE 6 \notin S /\ 5 \notin S /\ 4 \notin S /\ 3 \notin S /\ 2 \notin S
      <3>1. 1 \in S
        <4>1. PICK x : x \in S
          OBVIOUS
        <4>2. x \in 1..6
          BY <4>1
        <4>3. x \in {1, 2, 3, 4, 5, 6}
          BY <4>2
        <4>. QED  BY <2>6, <4>1, <4>3
      <3>. QED  BY <2>6, <3>1
    <2>. QED  BY <2>1, <2>2, <2>3, <2>4, <2>5, <2>6
  <1>. QED  BY <1>1, Zenon DEF Max

\* The body of a packet starts behind the header byte and the n bytes of its
\* Remaining Length, which follow each other in the buffer b.
Framed(b, header, body) ==
    LET rl == rl_bytes(Len(body))  n == Len(rl) IN
    /\ b[1] = header
    /\ \A i \in 1..n : b[1 + i] = rl[i]
    /\ \A i \in 1..Len(body) : b[1 + n + i] = body[i]

\* The fields behind the reserved bytes.
LEMMA FieldsBehindReserved ==
    ASSUME NEW s \in Seq(Octet), NEW started \in Seq(Octet), Len(started) = Len(s),
           NEW b \in Seq(Octet), 5 + Len(b) <= Len(s)
    PROVE  LET filled == Written(started, 1 + RlMaxBytes, b) IN
           /\ filled \in Seq(Octet) /\ Len(filled) = Len(s)
           /\ \A j \in 1..Len(s) : filled[j] =
                 IF 5 < j /\ j <= 5 + Len(b) THEN b[j - 5] ELSE started[j]
  <1>1. 1 + RlMaxBytes = 5 /\ 5 \in Nat /\ 5 + Len(b) <= Len(started)
    BY DEF RlMaxBytes
  <1>2. /\ Written(started, 5, b) \in Seq(Octet)
        /\ Len(Written(started, 5, b)) = Len(started)
        /\ \A j \in 1..Len(started) : Written(started, 5, b)[j] =
              IF 5 < j /\ j <= 5 + Len(b) THEN b[j - 5] ELSE started[j]
    BY <1>1, WrittenInside
  <1>. QED  BY <1>1, <1>2

\* The fields moved up behind the Remaining Length, and the Remaining Length
\* put in front of them.
LEMMA FieldsMovedUp ==
    ASSUME NEW f \in Seq(Octet), NEW b \in Seq(Octet), 5 + Len(b) <= Len(f),
           NEW rl \in Seq(Octet), Len(rl) \in 1..4
    PROVE  LET last == Written(Written(f, 1 + Len(rl), b), 1, rl) IN
           /\ last \in Seq(Octet) /\ Len(last) = Len(f)
           /\ last[1] = f[1]
           /\ \A i \in 1..Len(rl) : last[1 + i] = rl[i]
           /\ \A i \in 1..Len(b) : last[1 + Len(rl) + i] = b[i]
           /\ \A j \in 1..Len(f) : j > 5 + Len(b) => last[j] = f[j]
  <1>. DEFINE n == Len(rl)
              B == Len(b)
              L == Len(f)
              moved == Written(f, 1 + n, b)
              last == Written(moved, 1, rl)
  <1>0. n \in Nat /\ 1 <= n /\ n <= 4 /\ B \in Nat /\ L \in Nat /\ 5 + B <= L
    <2>1. n \in Nat /\ 1 <= n /\ n <= 4
      <3>. HIDE DEF n
      <3>1. n \in 1..4  BY DEF n
      <3>. QED  BY <3>1
    <2>2. B \in Nat /\ L \in Nat
      BY LenProperties
    <2>. QED  BY <2>1, <2>2
  <1>1. /\ moved \in Seq(Octet) /\ Len(moved) = L
        /\ \A j \in 1..L : moved[j] =
              IF 1 + n < j /\ j <= 1 + n + B THEN b[j - (1 + n)] ELSE f[j]
    <2>1. 1 + n \in Nat /\ 1 + n + Len(b) <= Len(f)
      BY <1>0
    <2>. QED  BY <2>1, WrittenInside
  <1>. HIDE DEF moved
  <1>2. /\ last \in Seq(Octet) /\ Len(last) = L
        /\ \A j \in 1..L : last[j] = IF 1 < j /\ j <= 1 + n THEN rl[j - 1] ELSE moved[j]
    <2>1. 1 \in Nat /\ 1 + Len(rl) <= Len(moved)
      BY <1>0, <1>1
    <2>. QED  BY <1>1, <2>1, WrittenInside
  <1>. HIDE DEF last, n, B, L
  <1>3. last[1] = f[1]
    <2>1. 1 \in 1..L /\ ~(1 < 1) /\ ~(1 + n < 1)
      BY <1>0
    <2>. QED  BY <1>1, <1>2, <2>1
  <1>4. ASSUME NEW i \in 1..n PROVE last[1 + i] = rl[i]
    <2>1. 1 + i \in 1..L /\ 1 < 1 + i /\ 1 + i <= 1 + n /\ (1 + i) - 1 = i
      BY <1>0
    <2>. QED  BY <1>2, <2>1
  <1>5. ASSUME NEW i \in 1..B PROVE last[1 + n + i] = b[i]
    <2>. DEFINE j == 1 + n + i
    <2>1. /\ j \in 1..L /\ ~(j <= 1 + n) /\ 1 + n < j
          /\ j <= 1 + n + B /\ j - (1 + n) = i
      BY <1>0
    <2>. HIDE DEF j
    <2>2. last[j] = moved[j] /\ moved[j] = b[i]
      BY <1>1, <1>2, <2>1
    <2>. QED  BY <2>2 DEF j
  <1>6. ASSUME NEW j \in 1..L, j > 5 + B PROVE last[j] = f[j]
    <2>1. ~(j <= 1 + n) /\ ~(j <= 1 + n + B)
      BY <1>0, <1>6
    <2>. QED  BY <1>1, <1>2, <2>1
  <1>. QED  BY <1>2, <1>3, <1>4, <1>5, <1>6 DEF last, moved, n, B, L

\* What an encoder of a longer packet does to its buffer: it never outgrows
\* it; a failure leaves the reserved bytes alone; a success frames the whole
\* body and touches nothing behind the reserved bytes and the body.
LEMMA EncodeEffect ==
    ASSUME NEW s \in Seq(Octet), Len(s) <= SizeMax, NEW header \in Octet,
           NEW bodies \in Seq(Seq(Octet)), Len(bodies) \in 1..6
    PROVE  LET e    == Encode(s, header, bodies)
               body == bodies[Len(bodies)]
               n    == Len(rl_bytes(Len(body)))
           IN  /\ e.buf \in Seq(Octet) /\ Len(e.buf) = Len(s)
               /\ e.st # "OK" => \A j \in 2..5 : j <= Len(s) => e.buf[j] = s[j]
               /\ e.st = "OK" =>
                    /\ 5 + Len(body) <= Len(s) /\ Len(body) < RlLimit
                    /\ rl_bytes(Len(body)) \in Seq(Octet) /\ n \in 1..4
                    /\ e.out_len = 1 + n + Len(body)
                    /\ Framed(e.buf, header, body)
                    /\ \A j \in 1..Len(s) : j > 5 + Len(body) => e.buf[j] = s[j]
  <1>. DEFINE e       == Encode(s, header, bodies)
              started == IF s = <<>> THEN s ELSE Written(s, 0, <<header>>)
              fitting == {k \in DOMAIN bodies : Fits(s, bodies[k])}
              b       == bodies[Max(fitting)]
              filled  == Written(started, 1 + RlMaxBytes, b)
              rl      == rl_bytes(Len(b))
              moved   == Written(filled, 1 + Len(rl), b)
              last    == Written(moved, 1, rl)
  <1>0. Len(s) \in Nat
    OBVIOUS
  <1>1. e = IF fitting = {} THEN Encoded("BUFFER_TOO_SMALL", started, 0)
            ELSE IF Len(bodies) \notin fitting \/ Len(rl) > RlMaxBytes
                 THEN Encoded("BUFFER_TOO_SMALL", filled, 0)
            ELSE Encoded("OK", last, 1 + Len(rl) + Len(b))
    BY Zenon DEF Encode
  <1>2. /\ started \in Seq(Octet) /\ Len(started) = Len(s)
        /\ \A j \in 1..Len(s) : started[j] = IF j = 1 THEN header ELSE s[j]
    <2>1. CASE s = <<>>
      BY <2>1
    <2>2. CASE s # <<>>
      <3>1. /\ <<header>> \in Seq(Octet) /\ Len(<<header>>) = 1 /\ <<header>>[1] = header
            /\ 0 + 1 <= Len(s)
        BY <2>2
      <3>. DEFINE d == <<header>>
      <3>2. d \in Seq(Octet) /\ Len(d) = 1 /\ d[1] = header /\ Len(d) <= Len(s)
        BY <3>1
      <3>3. started = Written(s, 0, d)
        BY <2>2
      <3>. HIDE DEF d, started
      <3>4. /\ Written(s, 0, d) \in Seq(Octet) /\ Len(Written(s, 0, d)) = Len(s)
            /\ \A j \in 1..Len(s) :
                 Written(s, 0, d)[j] = IF j <= Len(d) THEN d[j] ELSE s[j]
        BY <3>2, WrittenAtFront, Zenon
      <3>5. \A j \in 1..Len(s) : j <= Len(d) <=> j = 1
        BY <1>0, <3>2
      <3>. QED  BY <3>2, <3>3, <3>4, <3>5
    <2>. QED  BY <2>1, <2>2
  <1>3. CASE fitting = {}
    <2>1. e = Encoded("BUFFER_TOO_SMALL", started, 0)
      BY <1>1, <1>3, Zenon
    <2>. HIDE DEF e, started
    <2>2. e.st = "BUFFER_TOO_SMALL" /\ e.buf = started
      BY <2>1 DEF Encoded
    <2>3. \A j \in 2..5 : j <= Len(s) => e.buf[j] = s[j]
      BY <1>0, <1>2, <2>2
    <2>4. e.st # "OK"
      BY <2>2
    <2>. QED  BY <1>2, <2>2, <2>3, <2>4 DEF e
  <1>4. CASE fitting # {}
    <2>1. fitting \in SUBSET (1..6) /\ fitting \subseteq 1..Len(bodies)
      BY DEF Fits
    <2>2. Max(fitting) \in fitting /\ \A j \in fitting : Max(fitting) >= j
      <3>. HIDE DEF fitting
      <3>. QED  BY <1>4, <2>1, LargestOfSix
    <2>3. b \in Seq(Octet) /\ Len(b) \in Nat /\ 5 + Len(b) <= Len(s)
      <3>1. Max(fitting) \in 1..Len(bodies) /\ Fits(s, b)
        BY <2>2
      <3>2. b \in Seq(Octet)
        <4>. HIDE DEF fitting
        <4>. QED  BY <3>1
      <3>3. Len(b) \in Nat
        BY <3>2, LenProperties
      <3>4. 1 + 4 + Len(b) <= Len(s)
        BY <3>1 DEF Fits, RlMaxBytes
      <3>5. 1 + 4 = 5
        OBVIOUS
      <3>. HIDE DEF b
      <3>. QED  BY <3>2, <3>3, <3>4, <3>5
    <2>4. Len(bodies) \in fitting => b = bodies[Len(bodies)]
      <3>1. Len(bodies) \in fitting => Max(fitting) = Len(bodies)
        <4>. DEFINE m == Max(fitting)
                    K == Len(bodies)
        <4>1. K \in 1..6 /\ (K \in fitting => m >= K) /\ m \in 1..K
          <5>. HIDE DEF fitting
          <5>. QED  BY <2>1, <2>2, Zenon
        <4>. HIDE DEF m, K
        <4>2. K \in fitting => m = K
          BY <4>1
        <4>. QED  BY <4>2 DEF m, K
      <3>. QED  BY <3>1
    <2>. HIDE DEF started, fitting, b
    <2>5. /\ filled \in Seq(Octet) /\ Len(filled) = Len(s)
          /\ \A j \in 1..Len(s) : filled[j] =
                IF 5 < j /\ j <= 5 + Len(b) THEN b[j - 5] ELSE started[j]
      BY <1>2, <2>3, FieldsBehindReserved
    <2>6. /\ \A j \in 2..5 : j <= Len(s) => filled[j] = s[j]
          /\ filled[1] = header
          /\ \A j \in 1..Len(s) : j > 5 + Len(b) => filled[j] = s[j]
      <3>. DEFINE B == Len(b)
                  L == Len(s)
      <3>1. B \in Nat /\ L \in Nat /\ 5 + B <= L
        BY <1>0, <2>3
      <3>2. /\ \A j \in 1..L : filled[j] = IF 5 < j /\ j <= 5 + B THEN b[j - 5] ELSE started[j]
            /\ \A j \in 1..L : started[j] = IF j = 1 THEN header ELSE s[j]
        BY <1>2, <2>5
      <3>. HIDE DEF B, L, filled
      <3>3. \A j \in 2..5 : j <= L => filled[j] = s[j]
        BY <3>1, <3>2
      <3>4. filled[1] = header
        BY <3>1, <3>2
      <3>5. \A j \in 1..L : j > 5 + B => filled[j] = s[j]
        BY <3>1, <3>2
      <3>. QED  BY <3>3, <3>4, <3>5 DEF B, L
    <2>. HIDE DEF filled
    <2>7. CASE Len(bodies) \notin fitting \/ Len(rl) > RlMaxBytes
      <3>1. e = Encoded("BUFFER_TOO_SMALL", filled, 0)
        BY <1>1, <1>4, <2>7, Zenon
      <3>. HIDE DEF e
      <3>2. e.st = "BUFFER_TOO_SMALL" /\ e.buf = filled
        BY <3>1 DEF Encoded
      <3>3. e.st # "OK"
        BY <3>2
      <3>. QED  BY <2>5, <2>6, <3>2, <3>3 DEF e
    <2>8. CASE Len(bodies) \in fitting /\ ~(Len(rl) > RlMaxBytes)
      <3>1. e = Encoded("OK", last, 1 + Len(rl) + Len(b))
        BY <1>1, <1>4, <2>8, Zenon
      <3>. DEFINE v == Len(b)
      <3>2. v \in Nat /\ v <= SizeMax /\ rl = rl_bytes(v)
        <4>1. SizeMax \in Nat
          BY DEF SizeMax
        <4>. QED  BY <1>0, <2>3, <4>1
      <3>3. Len(rl) \in Nat /\ v < RlLimit
        <4>. HIDE DEF v, rl
        <4>1. Len(rl) \in Nat
          BY <3>2, LengthWritten
        <4>2. Len(rl) <= RlMaxBytes
          BY <2>8, <4>1 DEF RlMaxBytes
        <4>. QED  BY <3>2, <4>1, <4>2, LengthWritten
      <3>4. rl \in Seq(Octet) /\ Len(rl) \in 1..4
        <4>. HIDE DEF v, rl
        <4>. QED  BY <3>2, <3>3, LengthWritten
      <3>. HIDE DEF e, rl, v
      <3>5. /\ last \in Seq(Octet) /\ Len(last) = Len(s)
            /\ last[1] = header
            /\ \A i \in 1..Len(rl) : last[1 + i] = rl[i]
            /\ \A i \in 1..Len(b) : last[1 + Len(rl) + i] = b[i]
            /\ \A j \in 1..Len(s) : j > 5 + Len(b) => last[j] = s[j]
        <4>1. /\ last \in Seq(Octet) /\ Len(last) = Len(filled)
              /\ last[1] = filled[1]
              /\ \A i \in 1..Len(rl) : last[1 + i] = rl[i]
              /\ \A i \in 1..Len(b) : last[1 + Len(rl) + i] = b[i]
              /\ \A j \in 1..Len(filled) : j > 5 + Len(b) => last[j] = filled[j]
          <5>1. 5 + Len(b) <= Len(filled)
            BY <2>3, <2>5
          <5>. QED  BY <2>3, <2>5, <3>4, <5>1, FieldsMovedUp
        <4>. HIDE DEF last, moved
        <4>. QED  BY <2>5, <2>6, <4>1
      <3>. HIDE DEF last, moved
      <3>6. e.st = "OK" /\ e.buf = last /\ e.out_len = 1 + Len(rl) + Len(b)
        BY <3>1 DEF Encoded
      <3>7. b = bodies[Len(bodies)]
        BY <2>4, <2>8
      <3>8. Framed(last, header, b)
        BY <3>5 DEF Framed, rl
      <3>. QED  BY <2>3, <3>3, <3>4, <3>5, <3>6, <3>7, <3>8 DEF e, rl, v
    <2>. QED  BY <2>7, <2>8, Zenon
  <1>. QED  BY <1>3, <1>4, Zenon

-----------------------------------------------------------------------------
(* Reading the packet back *)

\* The fixed header of a framed packet, as the decoder sees it.
LEMMA HeaderOnTheWire ==
    ASSUME NEW p \in Seq(Octet), NEW body \in Seq(Octet), NEW header \in Octet,
           Len(body) < RlLimit, rl_bytes(Len(body)) \in Seq(Octet),
           Len(rl_bytes(Len(body))) \in 1..4,
           Len(p) = 1 + Len(rl_bytes(Len(body))) + Len(body),
           Framed(p, header, body), ValidFlags(header \div 16, header % 16)
    PROVE  decode_fixed_header(p) =
              [st |-> "OK", type |-> header \div 16, flags |-> header % 16,
               remaining_length |-> Len(body),
               header_size |-> 1 + Len(rl_bytes(Len(body)))]
  <1>. DEFINE v == Len(body)
              r == rl_bytes(v)
              n == Len(r)
              u == Tail(p)
  <1>1. v \in Nat /\ n \in Nat /\ 1 <= n /\ Len(p) = 1 + n + v
    <2>1. v \in Nat
      BY LenProperties
    <2>2. n \in 1..4 /\ Len(p) = 1 + n + v
      OBVIOUS
    <2>. HIDE DEF v, n
    <2>. QED  BY <2>1, <2>2
  <1>. HIDE DEF v, n
  <1>2. Len(p) >= 2 /\ ~(Len(p) < 2)
    BY <1>1
  <1>3. u \in Seq(Octet) /\ Len(u) = n + v /\ \A i \in 1..(n + v) : u[i] = p[i + 1]
    <2>1. p # <<>>
      BY <1>2
    <2>2. u \in Seq(Octet) /\ Len(u) = Len(p) - 1 /\ \A i \in 1..(Len(p) - 1) : u[i] = p[i + 1]
      BY <2>1
    <2>3. Len(p) - 1 = n + v
      BY <1>1
    <2>. QED  BY <2>2, <2>3
  <1>. HIDE DEF u
  <1>4. p[1] = header /\ \A i \in 1..n : p[1 + i] = r[i]
    BY DEF Framed, n, v
  <1>5. n <= Len(u) /\ \A i \in 1..n : u[i] = r[i]
    <2>1. n <= n + v
      BY <1>1
    <2>2. n <= Len(u)
      BY <1>3, <2>1
    <2>. HIDE DEF r
    <2>3. ASSUME NEW i \in 1..n PROVE u[i] = r[i]
      <3>1. i \in 1..(n + v) /\ i + 1 = 1 + i
        BY <1>1
      <3>2. u[i] = p[i + 1]
        BY <1>3, <3>1
      <3>3. p[1 + i] = r[i]
        BY <1>4
      <3>. QED  BY <3>1, <3>2, <3>3, Zenon
    <2>. QED  BY <2>2, <2>3
  <1>6. decode_remaining_length(u) = [st |-> "OK", consumed |-> n, value |-> v]
    <2>1. v < RlLimit
      BY DEF v
    <2>. QED  BY <1>1, <1>3, <1>5, <2>1, LengthOnTheWire DEF n
  <1>. DEFINE d == decode_remaining_length(u)
  <1>7. d.st = "OK" /\ d.value = v /\ d.consumed = n
    BY <1>6
  <1>. HIDE DEF d
  <1>8. decode_fixed_header(p) =
           IF ~ValidFlags(p[1] \div 16, p[1] % 16) THEN [st |-> "PROTOCOL"]
           ELSE IF d.st # "OK" THEN [st |-> d.st]
           ELSE [st |-> "OK", type |-> p[1] \div 16, flags |-> p[1] % 16,
                 remaining_length |-> d.value, header_size |-> 1 + d.consumed]
    BY <1>2, Zenon DEF decode_fixed_header, d, u
  <1>. QED  BY <1>4, <1>7, <1>8, Zenon DEF n, v, r

\* The first bytes of a buffer that holds a framed packet are that packet.
LEMMA FramedPrefix ==
    ASSUME NEW b \in Seq(Octet), NEW body \in Seq(Octet), NEW header \in Octet,
           NEW n \in 1..4, n = Len(rl_bytes(Len(body))),
           1 + n + Len(body) <= Len(b), Framed(b, header, body)
    PROVE  LET p == SubSeq(b, 1, 1 + n + Len(body)) IN
           /\ p \in Seq(Octet) /\ Len(p) = 1 + n + Len(body)
           /\ Framed(p, header, body)
  <1>. DEFINE v == Len(body)
              r == rl_bytes(v)
              o == 1 + n + v
              p == SubSeq(b, 1, o)
  <1>1. v \in Nat /\ n \in Nat /\ 1 <= n /\ Len(b) \in Nat
    BY LenProperties
  <1>. HIDE DEF v
  <1>2. o \in Nat /\ 1 <= o /\ o <= Len(b)
    BY <1>1 DEF v
  <1>3. /\ 1 \in 1..o /\ \A i \in 1..n : 1 + i \in 1..o
        /\ \A i \in 1..v : 1 + n + i \in 1..o
    BY <1>1
  <1>. HIDE DEF o
  <1>4. p \in Seq(Octet) /\ Len(p) = o /\ \A i \in 1..o : p[i] = b[i]
    BY <1>1, <1>2
  <1>. HIDE DEF p, r
  <1>5. /\ b[1] = header /\ \A i \in 1..n : b[1 + i] = r[i]
        /\ \A i \in 1..v : b[1 + n + i] = body[i]
    BY DEF Framed, r, v
  <1>6. p[1] = header
    BY <1>3, <1>4, <1>5, Zenon
  <1>7. \A i \in 1..n : p[1 + i] = r[i]
    BY <1>3, <1>4, <1>5, Zenon
  <1>8. \A i \in 1..v : p[1 + n + i] = body[i]
    BY <1>3, <1>4, <1>5, Zenon
  <1>9. Framed(p, header, body)
    BY <1>6, <1>7, <1>8 DEF Framed, r, v
  <1>. QED  BY <1>4, <1>9, Zenon DEF p, o, v

\* What a receiver finds in the out_len bytes p of a successful encoder: the
\* fixed header that was asked for, and the whole body behind it.
Carries(p, header, body) ==
    LET at == Len(p) - Len(body) IN
    /\ p \in Seq(Octet)
    /\ at \in 2..5
    /\ decode_fixed_header(p) =
          [st |-> "OK", type |-> header \div 16, flags |-> header % 16,
           remaining_length |-> Len(body), header_size |-> at]
    /\ \A i \in 1..Len(body) : p[at + i] = body[i]

\* The size of a Remaining Length as a number.
LEMMA SmallLength == \A n \in 1..4 : n \in Nat /\ 1 <= n /\ n <= 4
  OBVIOUS

\* A framed packet carries its body.
LEMMA FramedCarries ==
    ASSUME NEW b \in Seq(Octet), NEW body \in Seq(Octet), NEW header \in Octet,
           NEW n \in 1..4, n = Len(rl_bytes(Len(body))),
           rl_bytes(Len(body)) \in Seq(Octet), Len(body) < RlLimit,
           1 + n + Len(body) <= Len(b), Framed(b, header, body),
           ValidFlags(header \div 16, header % 16)
    PROVE  LET p == SubSeq(b, 1, 1 + n + Len(body)) IN
           Len(p) = 1 + n + Len(body) /\ Carries(p, header, body)
  <1>. DEFINE v == Len(body)
              p == SubSeq(b, 1, 1 + n + v)
              at == Len(p) - v
  <1>1. p \in Seq(Octet) /\ Len(p) = 1 + n + v /\ Framed(p, header, body)
    BY FramedPrefix, Zenon
  <1>. HIDE DEF p
  <1>2. decode_fixed_header(p) =
           [st |-> "OK", type |-> header \div 16, flags |-> header % 16,
            remaining_length |-> v, header_size |-> 1 + n]
    BY <1>1, HeaderOnTheWire, Zenon
  <1>3. v \in Nat
    BY LenProperties
  <1>4. \A i \in 1..v : p[1 + n + i] = body[i]
    BY <1>1 DEF Framed
  <1>. HIDE DEF v
  <1>5. at = 1 + n /\ at \in 2..5
    <2>. DEFINE q == Len(p)
    <2>1. q = 1 + n + v
      BY <1>1, Zenon
    <2>. HIDE DEF q
    <2>0. n \in Nat /\ 1 <= n /\ n <= 4
      BY SmallLength, Zenon
    <2>2. q - v = 1 + n
      BY <1>3, <2>0, <2>1
    <2>3. 1 + n \in 2..5
      BY <2>0
    <2>. QED  BY <2>2, <2>3, Zenon DEF q
  <1>. HIDE DEF at
  <1>6. /\ decode_fixed_header(p) =
              [st |-> "OK", type |-> header \div 16, flags |-> header % 16,
               remaining_length |-> v, header_size |-> at]
        /\ \A i \in 1..v : p[at + i] = body[i]
    BY <1>2, <1>4, <1>5, Zenon
  <1>7. Carries(p, header, body)
    BY <1>1, <1>5, <1>6, Zenon DEF Carries, at, v
  <1>. QED  BY <1>1, <1>7, Zenon DEF p, v

\* The same for a call of Encode.
LEMMA PacketRead ==
    ASSUME NEW s \in Seq(Octet), Len(s) <= SizeMax, NEW header \in Octet,
           NEW bodies \in Seq(Seq(Octet)), Len(bodies) \in 1..6,
           ValidFlags(header \div 16, header % 16),
           Encode(s, header, bodies).st = "OK"
    PROVE  LET e    == Encode(s, header, bodies)
               body == bodies[Len(bodies)]
               p    == SubSeq(e.buf, 1, e.out_len)
           IN  /\ Len(p) = e.out_len
               /\ Carries(p, header, body)
               /\ \A j \in 1..Len(s) : j > 5 + Len(body) => e.buf[j] = s[j]
  <1>. DEFINE e    == Encode(s, header, bodies)
              body == bodies[Len(bodies)]
              v    == Len(body)
              r    == rl_bytes(v)
              n    == Len(r)
              b    == e.buf
  <1>1. /\ b \in Seq(Octet) /\ Len(b) = Len(s)
        /\ 5 + v <= Len(s) /\ v < RlLimit
        /\ r \in Seq(Octet) /\ n \in 1..4
        /\ e.out_len = 1 + n + v
        /\ Framed(b, header, body)
        /\ \A j \in 1..Len(s) : j > 5 + v => b[j] = s[j]
    BY EncodeEffect, ZenonT(60)
  <1>2. body \in Seq(Octet) /\ v \in Nat
    <2>1. Len(bodies) \in 1..Len(bodies)
      OBVIOUS
    <2>2. body \in Seq(Octet)
      BY <2>1
    <2>. QED  BY <2>2, LenProperties
  <1>. HIDE DEF e, body, b
  <1>3. 1 + n + v <= Len(b)
    <2>. HIDE DEF n, v
    <2>1. Len(s) \in Nat
      OBVIOUS
    <2>. QED  BY <1>1, <1>2, <2>1
  <1>4. LET p == SubSeq(b, 1, 1 + n + v) IN
        Len(p) = 1 + n + v /\ Carries(p, header, body)
    BY <1>1, <1>2, <1>3, FramedCarries
  <1>. QED  BY <1>1, <1>4, Zenon DEF e, body, b

\* Bytes cut out of a packet.
LEMMA CutOut ==
    ASSUME NEW p \in Seq(Octet), NEW x \in Seq(Octet), NEW from \in Nat,
           from + Len(x) <= Len(p), \A i \in 1..Len(x) : p[from + i] = x[i]
    PROVE  SubSeq(p, from + 1, from + Len(x)) = x
  <1>. DEFINE c == SubSeq(p, from + 1, from + Len(x))
  <1>1. /\ c \in Seq(Octet) /\ Len(c) = Len(x)
        /\ \A i \in 1..Len(x) : c[i] = p[from + i]
    OBVIOUS
  <1>. HIDE DEF c
  <1>2. c = x
    BY <1>1, SeqEqual
  <1>. QED  BY <1>2 DEF c

-----------------------------------------------------------------------------
(* The fields *)

\* A number below 65536 is two octets, high one first.
LEMMA TwoOctets ==
    ASSUME NEW v \in Nat, v < U16Limit
    PROVE  /\ uint16_be(v) \in Seq(Octet) /\ Len(uint16_be(v)) = 2
           /\ U16(uint16_be(v)[1], uint16_be(v)[2]) = v
  <1>. DEFINE x == (v \div 256) % 256
              y == v % 256
  <1>1. x \in Octet /\ y \in Octet
    BY DEF Octet
  <1>2. U16(x, y) = v
    BY DEF U16, U16Limit
  <1>. HIDE DEF x, y
  <1>3. uint16_be(v) = <<x, y>>
    BY DEF uint16_be, x, y
  <1>4. <<x, y>> \in Seq(Octet) /\ Len(<<x, y>>) = 2 /\ <<x, y>>[1] = x /\ <<x, y>>[2] = y
    BY <1>1
  <1>. QED  BY <1>2, <1>3, <1>4

\* Two fields one behind the other.
LEMMA Joined ==
    ASSUME NEW x \in Seq(Octet), NEW y \in Seq(Octet)
    PROVE  /\ x \o y \in Seq(Octet) /\ Len(x \o y) = Len(x) + Len(y)
           /\ Len(x) \in Nat /\ Len(y) \in Nat
           /\ \A i \in 1..Len(x) : (x \o y)[i] = x[i]
           /\ \A i \in 1..Len(y) : (x \o y)[Len(x) + i] = y[i]
  <1>1. Len(x) \in Nat /\ Len(y) \in Nat
    OBVIOUS
  <1>2. x \o y \in Seq(Octet) /\ Len(x \o y) = Len(x) + Len(y)
    OBVIOUS
  <1>3. \A i \in 1..Len(x) : (x \o y)[i] = x[i]
    BY <1>1
  <1>4. \A i \in 1..Len(y) : (x \o y)[Len(x) + i] = y[i]
    BY <1>1
  <1>. QED  BY <1>1, <1>2, <1>3, <1>4

\* A string and its length.
LEMMA StringWritten ==
    ASSUME NEW str \in Seq(Octet), Len(str) < U16Limit
    PROVE  LET w == write_utf8(str) IN
           /\ w \in Seq(Octet) /\ Len(w) = 2 + Len(str)
           /\ U16(w[1], w[2]) = Len(str)
           /\ \A i \in 1..Len(str) : w[2 + i] = str[i]
  <1>. DEFINE n == Len(str)
              x == uint16_be(n)
              w == x \o str
  <1>1. n \in Nat /\ n < U16Limit
    BY LenProperties
  <1>. HIDE DEF n
  <1>2. x \in Seq(Octet) /\ Len(x) = 2 /\ U16(x[1], x[2]) = n
    BY <1>1, TwoOctets
  <1>. HIDE DEF x
  <1>3. /\ w \in Seq(Octet) /\ Len(w) = Len(x) + n
        /\ \A i \in 1..Len(x) : w[i] = x[i]
        /\ \A i \in 1..n : w[Len(x) + i] = str[i]
    BY <1>2, Joined DEF n
  <1>. HIDE DEF w
  <1>4. w[1] = x[1] /\ w[2] = x[2]
    <2>1. 1 \in 1..Len(x) /\ 2 \in 1..Len(x)
      BY <1>2
    <2>. QED  BY <1>3, <2>1
  <1>5. write_utf8(str) = w
    BY DEF write_utf8, w, x, n
  <1>. QED  BY <1>2, <1>3, <1>4, <1>5 DEF n

\* The topics and payloads of the requests are octets.
LEMMA Arguments ==
    ASSUME NEW n \in Nat
    PROVE  /\ Topic(n) \in Seq(Octet) /\ Len(Topic(n)) = n
           /\ Payload(n) \in Seq(Octet) /\ Len(Payload(n)) = n
  <1>1. \A i \in 1..n : 64 + (i % 26) \in Octet
    BY DEF Octet
  <1>2. \A i \in 1..n : 200 + (i % 50) \in Octet
    BY DEF Octet
  <1>3. Topic(n) \in Seq(Octet) /\ Len(Topic(n)) = n
    BY <1>1 DEF Topic
  <1>4. Payload(n) \in Seq(Octet) /\ Len(Payload(n)) = n
    BY <1>2 DEF Payload
  <1>. QED  BY <1>3, <1>4

\* The fixed header of a packet that carries a body.
LEMMA HeaderRecord ==
    ASSUME NEW p, NEW header \in Octet, NEW body \in Seq(Octet), Carries(p, header, body)
    PROVE  LET h  == decode_fixed_header(p)
               at == Len(p) - Len(body)
           IN  /\ p \in Seq(Octet)
               /\ Len(body) \in Nat /\ Len(p) \in Nat
               /\ at \in Nat /\ 2 <= at /\ at <= 5 /\ Len(p) = at + Len(body)
               /\ h.st = "OK" /\ h.type = header \div 16 /\ h.flags = header % 16
               /\ h.remaining_length = Len(body) /\ h.header_size = at
               /\ packet_len(h) = Len(p)
               /\ \A i \in 1..Len(body) : p[at + i] = body[i]
  <1>. DEFINE h  == decode_fixed_header(p)
              v  == Len(body)
              q  == Len(p)
              at == q - v
  <1>1. p \in Seq(Octet) /\ at \in 2..5 /\ \A i \in 1..v : p[at + i] = body[i]
    BY Zenon DEF Carries
  <1>2. h = [st |-> "OK", type |-> header \div 16, flags |-> header % 16,
             remaining_length |-> v, header_size |-> at]
    BY Zenon DEF Carries
  <1>3. v \in Nat /\ q \in Nat
    BY <1>1, LenProperties
  <1>. HIDE DEF h, v, q
  <1>4. at \in Nat /\ 2 <= at /\ at <= 5 /\ q = at + v
    BY <1>1, <1>3
  <1>. HIDE DEF at
  <1>5. /\ h.st = "OK" /\ h.type = header \div 16 /\ h.flags = header % 16
        /\ h.remaining_length = v /\ h.header_size = at
    BY <1>2
  <1>6. packet_len(h) = q
    BY <1>4, <1>5 DEF packet_len
  <1>. QED  BY <1>1, <1>3, <1>4, <1>5, <1>6, Zenon DEF h, v, q, at

\* A PUBLISH is read as its topic and its payload.
LEMMA PublishRead ==
    ASSUME NEW p, NEW topic \in Seq(Octet), Len(topic) < U16Limit, NEW payload \in Seq(Octet),
           Carries(p, 16 * PUBLISH, write_utf8(topic) \o payload)
    PROVE  LET h == decode_fixed_header(p)
               d == decode_publish(p, h)
           IN  /\ d.st = "OK"
               /\ SubSeq(p, d.topic + 1, d.topic + d.topic_len) = topic
               /\ SubSeq(p, d.payload + 1, d.payload + d.payload_len) = payload
  <1>. DEFINE w    == write_utf8(topic)
              body == w \o payload
              T    == Len(topic)
              P    == Len(payload)
              h    == decode_fixed_header(p)
              d    == decode_publish(p, h)
              at   == Len(p) - Len(body)
              q    == Len(p)
  <1>1. /\ w \in Seq(Octet) /\ Len(w) = 2 + T /\ U16(w[1], w[2]) = T
        /\ \A i \in 1..T : w[2 + i] = topic[i]
    BY StringWritten, Zenon
  <1>2. T \in Nat /\ P \in Nat
    BY LenProperties
  <1>. HIDE DEF w, T, P
  <1>3. /\ body \in Seq(Octet) /\ Len(body) = Len(w) + P
        /\ \A i \in 1..Len(w) : body[i] = w[i]
        /\ \A i \in 1..P : body[Len(w) + i] = payload[i]
    BY <1>1, Joined, Zenon DEF P
  <1>4. 16 * PUBLISH \in Octet /\ (16 * PUBLISH) % 16 = 0
    BY DEF Octet, PUBLISH
  <1>5. Carries(p, 16 * PUBLISH, body)
    BY Zenon DEF w
  <1>. HIDE DEF body
  <1>6. /\ p \in Seq(Octet) /\ q \in Nat /\ at \in Nat /\ 2 <= at /\ q = at + Len(body)
        /\ h.flags = 0 /\ h.header_size = at /\ packet_len(h) = q
        /\ \A i \in 1..Len(body) : p[at + i] = body[i]
    BY <1>3, <1>4, <1>5, HeaderRecord, ZenonT(60)
  <1>. HIDE DEF h, at, q
  <1>7. q = at + 2 + T + P
    <2>. DEFINE B == Len(body)
                W == Len(w)
    <2>1. q = at + B /\ B = W + P /\ W = 2 + T
      BY <1>1, <1>3, <1>6
    <2>. HIDE DEF B, W
    <2>. QED  BY <1>2, <1>6, <2>1
  <1>8. /\ 1 \in 1..Len(w) /\ 2 \in 1..Len(w)
        /\ 1 \in 1..Len(body) /\ 2 \in 1..Len(body)
        /\ \A i \in 1..T : 2 + i \in 1..Len(w) /\ 2 + i \in 1..Len(body)
        /\ \A i \in 1..P : Len(w) + i \in 1..Len(body)
    <2>. DEFINE B == Len(body)
                W == Len(w)
    <2>1. B = W + P /\ W = 2 + T
      BY <1>1, <1>3
    <2>. HIDE DEF B, W
    <2>2. /\ 1 \in 1..W /\ 2 \in 1..W /\ 1 \in 1..B /\ 2 \in 1..B
          /\ \A i \in 1..T : 2 + i \in 1..W /\ 2 + i \in 1..B
          /\ \A i \in 1..P : W + i \in 1..B
      BY <1>2, <2>1
    <2>. QED  BY <2>2 DEF B, W
  <1>9. p[at + 1] = w[1] /\ p[at + 2] = w[2]
    BY <1>3, <1>6, <1>8, Zenon
  <1>10. ASSUME NEW i \in 1..T PROVE p[(at + 2) + i] = topic[i]
    <2>1. (at + 2) + i = at + (2 + i)
      BY <1>2, <1>6
    <2>2. p[at + (2 + i)] = body[2 + i] /\ body[2 + i] = w[2 + i] /\ w[2 + i] = topic[i]
      BY <1>1, <1>3, <1>6, <1>8, Zenon
    <2>. QED  BY <2>1, <2>2, Zenon
  <1>11. ASSUME NEW i \in 1..P PROVE p[(at + 2 + T) + i] = payload[i]
    <2>1. (at + 2 + T) + i = at + ((2 + T) + i)
      BY <1>2, <1>6
    <2>2. p[at + (Len(w) + i)] = body[Len(w) + i] /\ body[Len(w) + i] = payload[i]
      BY <1>3, <1>6, <1>8, Zenon
    <2>. QED  BY <1>1, <2>1, <2>2, Zenon
  <1>12. d = [st |-> "OK", topic |-> at + 2, topic_len |-> T,
              payload |-> at + 2 + T, payload_len |-> q - (at + 2 + T)]
    <2>1. U16(p[h.header_size + 1], p[h.header_size + 2]) = T
      BY <1>1, <1>6, <1>9, Zenon
    <2>2. (0 \div 2) % 4 = 0
      OBVIOUS
    <2>3. ~((h.flags \div 2) % 4 # 0)
      BY <1>6, <2>2, Zenon
    <2>4. ~(packet_len(h) > Len(p)) /\ ~(h.header_size + 2 > packet_len(h))
      <3>1. ~(q > q) /\ ~(at + 2 > q)
        BY <1>2, <1>6, <1>7
      <3>. QED  BY <1>6, <3>1, Zenon DEF q
    <2>5. TopicFits(h.header_size + 2, T, packet_len(h))
      <3>1. at + 2 + T <= q
        BY <1>2, <1>6, <1>7
      <3>. QED  BY <1>6, <3>1, Zenon DEF TopicFits
    <2>6. d = [st |-> "OK", topic |-> h.header_size + 2, topic_len |-> T,
               payload |-> h.header_size + 2 + T,
               payload_len |-> packet_len(h) - (h.header_size + 2 + T)]
      BY <2>1, <2>3, <2>4, <2>5, ZenonT(60) DEF decode_publish, U16
    <2>. QED  BY <1>6, <2>6, Zenon
  <1>. HIDE DEF d
  <1>13. /\ d.st = "OK" /\ d.topic = at + 2 /\ d.topic_len = T
         /\ d.payload = at + 2 + T /\ d.payload_len = P
    <2>1. q - (at + 2 + T) = P
      BY <1>2, <1>6, <1>7
    <2>. QED  BY <1>12, <2>1
  <1>14. SubSeq(p, (at + 2) + 1, (at + 2) + Len(topic)) = topic
    <2>1. at + 2 \in Nat /\ (at + 2) + T <= q
      BY <1>2, <1>6, <1>7
    <2>. QED  BY <1>6, <1>10, <2>1, CutOut, Zenon DEF T, q
  <1>15. SubSeq(p, (at + 2 + T) + 1, (at + 2 + T) + Len(payload)) = payload
    <2>. DEFINE f == at + 2 + T
    <2>1. f \in Nat /\ f + P <= q
      BY <1>2, <1>6, <1>7
    <2>2. \A i \in 1..P : p[f + i] = payload[i]
      BY <1>11
    <2>. HIDE DEF f
    <2>3. SubSeq(p, f + 1, f + Len(payload)) = payload
      BY <1>6, <2>1, <2>2, CutOut, Zenon DEF P, q
    <2>. QED  BY <2>3 DEF f
  <1>. QED  BY <1>13, <1>14, <1>15, Zenon DEF d, h, T, P

\* The bytes x lie in p behind the first `from'.
Located(p, from, x) ==
    from + Len(x) <= Len(p) /\ \A i \in 1..Len(x) : p[from + i] = x[i]

\* Two fields that lie one behind the other each lie somewhere.
LEMMA Parted ==
    ASSUME NEW p \in Seq(Octet), NEW from \in Nat, NEW x \in Seq(Octet), NEW y \in Seq(Octet),
           Located(p, from, x \o y)
    PROVE  Located(p, from, x) /\ Located(p, from + Len(x), y)
  <1>. DEFINE X == Len(x)
              Y == Len(y)
              q == Len(p)
              z == x \o y
  <1>1. /\ Len(z) = X + Y /\ X \in Nat /\ Y \in Nat
        /\ \A i \in 1..X : z[i] = x[i]
        /\ \A i \in 1..Y : z[X + i] = y[i]
    BY Joined
  <1>2. q \in Nat
    BY LenProperties
  <1>. HIDE DEF z
  <1>3. from + Len(z) <= q /\ \A i \in 1..Len(z) : p[from + i] = z[i]
    BY DEF Located, z
  <1>. HIDE DEF X, Y, q
  <1>4. from + X <= q /\ (from + X) + Y <= q
    BY <1>1, <1>2, <1>3
  <1>5. ASSUME NEW i \in 1..X PROVE p[from + i] = x[i]
    <2>1. i \in 1..Len(z)
      BY <1>1
    <2>. QED  BY <1>1, <1>3, <2>1
  <1>6. ASSUME NEW i \in 1..Y PROVE p[(from + X) + i] = y[i]
    <2>1. X + i \in 1..Len(z) /\ (from + X) + i = from + (X + i)
      BY <1>1
    <2>2. p[from + (X + i)] = z[X + i] /\ z[X + i] = y[i]
      BY <1>1, <1>3, <2>1, Zenon
    <2>. QED  BY <2>1, <2>2, Zenon
  <1>. QED  BY <1>4, <1>5, <1>6, Zenon DEF Located, X, Y, q

\* What lies there is cut out there.
LEMMA CutLocated ==
    ASSUME NEW p \in Seq(Octet), NEW from \in Nat, NEW x \in Seq(Octet), Located(p, from, x)
    PROVE  SubSeq(p, from + 1, from + Len(x)) = x
  BY CutOut DEF Located

\* A body lies behind the fixed header.
LEMMA BodyLocated ==
    ASSUME NEW p, NEW header \in Octet, NEW body \in Seq(Octet), Carries(p, header, body)
    PROVE  LET at == decode_fixed_header(p).header_size IN
           p \in Seq(Octet) /\ at \in Nat /\ Located(p, at, body)
  <1>. DEFINE at == Len(p) - Len(body)
  <1>1. /\ p \in Seq(Octet) /\ at \in Nat /\ Len(p) = at + Len(body)
        /\ Len(p) \in Nat
        /\ decode_fixed_header(p).header_size = at
        /\ \A i \in 1..Len(body) : p[at + i] = body[i]
    BY HeaderRecord, Zenon
  <1>. HIDE DEF at
  <1>2. at + Len(body) <= Len(p)
    <2>. DEFINE q == Len(p)
    <2>1. q \in Nat /\ q = at + Len(body)
      BY <1>1
    <2>. HIDE DEF q
    <2>2. at + Len(body) <= q
      BY <2>1
    <2>. QED  BY <2>2 DEF q
  <1>. QED  BY <1>1, <1>2, Zenon DEF Located

\* Two bytes that lie in p are its number there.
LEMMA NumberLocated ==
    ASSUME NEW p \in Seq(Octet), NEW from \in Nat, NEW v \in Nat, v < U16Limit,
           Located(p, from, uint16_be(v))
    PROVE  U16(p[from + 1], p[from + 2]) = v
  <1>. DEFINE x == uint16_be(v)
  <1>1. Len(x) = 2 /\ U16(x[1], x[2]) = v
    BY TwoOctets
  <1>. HIDE DEF x
  <1>2. \A i \in 1..Len(x) : p[from + i] = x[i]
    BY DEF Located, x
  <1>3. 1 \in 1..Len(x) /\ 2 \in 1..Len(x)
    BY <1>1
  <1>4. p[from + 1] = x[1] /\ p[from + 2] = x[2]
    BY <1>2, <1>3
  <1>. QED  BY <1>1, <1>4, Zenon

\* Concatenation is associative.
LEMMA Regroup ==
    ASSUME NEW x \in Seq(Octet), NEW y \in Seq(Octet), NEW z \in Seq(Octet)
    PROVE  (x \o y) \o z = x \o (y \o z)
  BY ConcatAssociative

\* A SUBSCRIBE is read as its packet id, its topic and QoS 0.
LEMMA SubscribeRead ==
    ASSUME NEW p, NEW id \in Nat, id < U16Limit,
           NEW topic \in Seq(Octet), Len(topic) < U16Limit,
           Carries(p, 16 * SUBSCRIBE + 2, (uint16_be(id) \o write_utf8(topic)) \o << 0 >>)
    PROVE  LET at == decode_fixed_header(p).header_size IN
           /\ U16(p[at + 1], p[at + 2]) = id
           /\ U16(p[at + 3], p[at + 4]) = Len(topic)
           /\ SubSeq(p, at + 4 + 1, at + 4 + (Len(topic) + 1)) = topic \o <<0>>
  <1>. DEFINE x  == uint16_be(id)
              T  == Len(topic)
              y  == uint16_be(T)
              q0 == <<0>>
              w  == y \o topic
              f  == topic \o q0
              at == decode_fixed_header(p).header_size
  <1>1. T \in Nat
    BY LenProperties
  <1>2. /\ x \in Seq(Octet) /\ Len(x) = 2 /\ y \in Seq(Octet) /\ Len(y) = 2
        /\ q0 \in Seq(Octet) /\ Len(q0) = 1
    <2>1. q0 \in Seq(Octet) /\ Len(q0) = 1
      BY DEF Octet
    <2>2. x \in Seq(Octet) /\ Len(x) = 2
      BY TwoOctets, Zenon
    <2>3. y \in Seq(Octet) /\ Len(y) = 2
      <3>. HIDE DEF T
      <3>1. T < U16Limit
        BY DEF T
      <3>. QED  BY <1>1, <3>1, TwoOctets, Zenon
    <2>. QED  BY <2>1, <2>2, <2>3
  <1>3. write_utf8(topic) = w
    BY DEF write_utf8
  <1>4. Carries(p, 16 * SUBSCRIBE + 2, (x \o w) \o q0)
    BY <1>3, Zenon
  <1>. HIDE DEF x, y, q0, T
  <1>5. w \in Seq(Octet) /\ f \in Seq(Octet) /\ Len(f) = T + 1
    BY <1>2, Joined DEF T
  <1>6. (x \o w) \o q0 = x \o (y \o f)
    <2>1. (x \o w) \o q0 = x \o (w \o q0)
      <3>. HIDE DEF w
      <3>1. x \in Seq(Octet) /\ w \in Seq(Octet) /\ q0 \in Seq(Octet)
        BY <1>2, <1>5, Zenon
      <3>. QED  BY <3>1, Regroup, SMTT(30)
    <2>2. w \o q0 = y \o f
      BY <1>2, Regroup, SMTT(60)
    <2>. QED  BY <2>1, <2>2, Zenon
  <1>. HIDE DEF f, w
  <1>7. y \o f \in Seq(Octet) /\ x \o (y \o f) \in Seq(Octet)
    BY <1>2, <1>5, Joined
  <1>8. 16 * SUBSCRIBE + 2 \in Octet
    BY DEF SUBSCRIBE, Octet
  <1>. DEFINE g == y \o f
              body == x \o g
  <1>9. Carries(p, 16 * SUBSCRIBE + 2, body) /\ body \in Seq(Octet) /\ g \in Seq(Octet)
    BY <1>4, <1>6, <1>7, Zenon
  <1>. HIDE DEF g, body
  <1>10. p \in Seq(Octet) /\ at \in Nat /\ Located(p, at, body)
    BY <1>8, <1>9, BodyLocated, Zenon
  <1>. HIDE DEF at
  <1>11. Located(p, at, x) /\ Located(p, at + Len(x), g)
    BY <1>2, <1>9, <1>10, Parted, Zenon DEF body
  <1>12. at + 2 \in Nat /\ Located(p, at + 2, g)
    BY <1>2, <1>10, <1>11
  <1>13. Located(p, at + 2, y) /\ Located(p, (at + 2) + Len(y), f)
    BY <1>2, <1>5, <1>10, <1>12, Parted, Zenon DEF g
  <1>14. /\ (at + 2) + Len(y) = at + 4 /\ (at + 2) + 1 = at + 3 /\ (at + 2) + 2 = at + 4
         /\ at + 4 \in Nat
    BY <1>2, <1>10
  <1>15. U16(p[at + 1], p[at + 2]) = id
    BY <1>10, <1>11, NumberLocated, Zenon DEF x
  <1>16. U16(p[(at + 2) + 1], p[(at + 2) + 2]) = T
    BY <1>1, <1>10, <1>12, <1>13, NumberLocated, Zenon DEF y, T
  <1>17. Located(p, at + 4, f)
    BY <1>13, <1>14, Zenon
  <1>18. SubSeq(p, (at + 4) + 1, (at + 4) + Len(f)) = f
    BY <1>5, <1>10, <1>14, <1>17, CutLocated, Zenon
  <1>. QED  BY <1>5, <1>14, <1>15, <1>16, <1>18, Zenon DEF at, T, f, q0

\* A sequence is the tuple of its elements.
LEMMA TupleOfSix ==
    ASSUME NEW s \in Seq(Octet), Len(s) = 6
    PROVE  s = <<s[1], s[2], s[3], s[4], s[5], s[6]>>
  OBVIOUS

\* And one of eight.
LEMMA TupleOfEight ==
    ASSUME NEW s \in Seq(Octet), Len(s) = 8
    PROVE  s = <<s[1], s[2], s[3], s[4], s[5], s[6], s[7], s[8]>>
  OBVIOUS

\* The fields of a CONNECT in front of the keepalive, and the empty client id.
LEMMA ConnectFields ==
    LET name  == write_utf8(<<77, 81, 84, 84>>)
        flags == name \o <<4, 2>>
    IN  /\ name \in Seq(Octet) /\ name \o <<4>> \in Seq(Octet)
        /\ flags \in Seq(Octet) /\ Len(flags) = 8
        /\ flags = <<0, 4, 77, 81, 84, 84, 4, 2>>
        /\ write_utf8(<<>>) \in Seq(Octet) /\ Len(write_utf8(<<>>)) = 2
        /\ write_utf8(<<>>) = <<0, 0>>
  <1>. DEFINE m     == <<77, 81, 84, 84>>
              name  == write_utf8(m)
              flags == name \o <<4, 2>>
  <1>1. name = <<0, 4, 77, 81, 84, 84>>
    <2>1. uint16_be(Len(m)) = <<0, 4>>
      BY DEF uint16_be
    <2>2. <<0, 4>> \o m = <<0, 4, 77, 81, 84, 84>>
      <3>. DEFINE x == <<0, 4>>
                  z == x \o m
      <3>1. x \in Seq(Octet) /\ m \in Seq(Octet) /\ Len(x) = 2 /\ Len(m) = 4
        BY DEF Octet
      <3>2. x[1] = 0 /\ x[2] = 4 /\ m[1] = 77 /\ m[2] = 81 /\ m[3] = 84 /\ m[4] = 84
        OBVIOUS
      <3>. HIDE DEF x, m
      <3>3. /\ z \in Seq(Octet) /\ Len(z) = Len(x) + Len(m)
            /\ \A i \in 1..Len(x) : z[i] = x[i]
            /\ \A i \in 1..Len(m) : z[Len(x) + i] = m[i]
        BY <3>1, Joined
      <3>. HIDE DEF z
      <3>4. /\ Len(z) = 6 /\ z[1] = 0 /\ z[2] = 4
            /\ z[3] = 77 /\ z[4] = 81 /\ z[5] = 84 /\ z[6] = 84
        BY <3>1, <3>2, <3>3
      <3>5. z = <<0, 4, 77, 81, 84, 84>>
        BY <3>3, <3>4, TupleOfSix
      <3>. QED  BY <3>5 DEF z, x
    <2>. QED  BY <2>1, <2>2, Zenon DEF write_utf8
  <1>2. <<0, 4, 77, 81, 84, 84>> \in Seq(Octet)
    BY DEF Octet
  <1>3. <<0, 4, 77, 81, 84, 84>> \o <<4>> \in Seq(Octet)
    <2>1. <<4>> \in Seq(Octet)
      BY DEF Octet
    <2>. QED  BY <1>2, <2>1, Joined, Zenon
  <1>4. <<0, 4, 77, 81, 84, 84>> \o <<4, 2>> = <<0, 4, 77, 81, 84, 84, 4, 2>>
    <2>. DEFINE x == <<0, 4, 77, 81, 84, 84>>
                y == <<4, 2>>
                z == x \o y
    <2>1. x \in Seq(Octet) /\ y \in Seq(Octet) /\ Len(x) = 6 /\ Len(y) = 2
      BY DEF Octet
    <2>2. /\ x[1] = 0 /\ x[2] = 4 /\ x[3] = 77 /\ x[4] = 81 /\ x[5] = 84 /\ x[6] = 84
          /\ y[1] = 4 /\ y[2] = 2
      OBVIOUS
    <2>. HIDE DEF x, y
    <2>3. /\ z \in Seq(Octet) /\ Len(z) = Len(x) + Len(y)
          /\ \A i \in 1..Len(x) : z[i] = x[i]
          /\ \A i \in 1..Len(y) : z[Len(x) + i] = y[i]
      BY <2>1, Joined
    <2>. HIDE DEF z
    <2>4. /\ Len(z) = 8 /\ z[1] = 0 /\ z[2] = 4 /\ z[3] = 77 /\ z[4] = 81
          /\ z[5] = 84 /\ z[6] = 84 /\ z[7] = 4 /\ z[8] = 2
      BY <2>1, <2>2, <2>3
    <2>5. z = <<0, 4, 77, 81, 84, 84, 4, 2>>
      BY <2>3, <2>4, TupleOfEight
    <2>. QED  BY <2>5 DEF z, x, y
  <1>5. <<0, 4, 77, 81, 84, 84, 4, 2>> \in Seq(Octet)
    BY DEF Octet
  <1>6. Len(<<0, 4, 77, 81, 84, 84, 4, 2>>) = 8
    OBVIOUS
  <1>7. write_utf8(<<>>) = <<0, 0>>
    <2>1. uint16_be(Len(<<>>)) = <<0, 0>>
      BY DEF uint16_be
    <2>2. <<0, 0>> \o <<>> = <<0, 0>>
      OBVIOUS
    <2>. QED  BY <2>1, <2>2, Zenon DEF write_utf8
  <1>8. <<0, 0>> \in Seq(Octet) /\ Len(<<0, 0>>) = 2
    BY DEF Octet
  <1>. QED  BY <1>1, <1>2, <1>3, <1>4, <1>5, <1>6, <1>7, <1>8, ZenonT(60)

\* A CONNECT is read as its fields and the seconds it announces.
LEMMA ConnectRead ==
    ASSUME NEW p, NEW sec \in Nat, sec < U16Limit,
           Carries(p, 16 * CONNECT,
                   ((write_utf8(<<77, 81, 84, 84>>) \o <<4, 2>>) \o uint16_be(sec))
                       \o write_utf8(<<>>))
    PROVE  LET at == decode_fixed_header(p).header_size IN
           /\ SubSeq(p, at + 1, at + 8) = <<0, 4, 77, 81, 84, 84, 4, 2>>
           /\ U16(p[at + 9], p[at + 10]) = sec
           /\ SubSeq(p, at + 10 + 1, at + 10 + 2) = <<0, 0>>
  <1>. DEFINE x  == write_utf8(<<77, 81, 84, 84>>) \o <<4, 2>>
              y  == uint16_be(sec)
              z  == write_utf8(<<>>)
              at == decode_fixed_header(p).header_size
  <1>0. x = <<0, 4, 77, 81, 84, 84, 4, 2>> /\ z = <<0, 0>>
    BY ConnectFields, Zenon
  <1>1. x \in Seq(Octet) /\ Len(x) = 8 /\ z \in Seq(Octet) /\ Len(z) = 2
    BY ConnectFields, Zenon
  <1>2. y \in Seq(Octet) /\ Len(y) = 2
    BY TwoOctets, Zenon
  <1>. HIDE DEF x, y, z
  <1>3. (x \o y) \o z = x \o (y \o z)
    BY <1>1, <1>2, Regroup
  <1>4. y \o z \in Seq(Octet) /\ x \o (y \o z) \in Seq(Octet)
    BY <1>1, <1>2, Joined
  <1>5. 16 * CONNECT \in Octet
    BY DEF CONNECT, Octet
  <1>. DEFINE g == y \o z
              body == x \o g
  <1>6. Carries(p, 16 * CONNECT, body) /\ body \in Seq(Octet) /\ g \in Seq(Octet)
    BY <1>3, <1>4, Zenon DEF x, y, z
  <1>. HIDE DEF g, body
  <1>7. p \in Seq(Octet) /\ at \in Nat /\ Located(p, at, body)
    BY <1>5, <1>6, BodyLocated, Zenon
  <1>. HIDE DEF at
  <1>8. Located(p, at, x) /\ Located(p, at + Len(x), g)
    BY <1>1, <1>6, <1>7, Parted, Zenon DEF body
  <1>9. at + 8 \in Nat /\ Located(p, at + 8, g)
    BY <1>1, <1>7, <1>8
  <1>10. Located(p, at + 8, y) /\ Located(p, (at + 8) + Len(y), z)
    BY <1>1, <1>2, <1>7, <1>9, Parted, Zenon DEF g
  <1>11. /\ (at + 8) + Len(y) = at + 10 /\ (at + 8) + 1 = at + 9 /\ (at + 8) + 2 = at + 10
         /\ at + 10 \in Nat
    BY <1>2, <1>7
  <1>12. SubSeq(p, at + 1, at + Len(x)) = x
    BY <1>1, <1>7, <1>8, CutLocated, Zenon
  <1>13. U16(p[(at + 8) + 1], p[(at + 8) + 2]) = sec
    BY <1>7, <1>9, <1>10, NumberLocated, Zenon DEF y
  <1>14. Located(p, at + 10, z)
    BY <1>10, <1>11, Zenon
  <1>15. SubSeq(p, (at + 10) + 1, (at + 10) + Len(z)) = z
    BY <1>1, <1>7, <1>11, <1>14, CutLocated, Zenon
  <1>. QED  BY <1>0, <1>1, <1>11, <1>12, <1>13, <1>15, Zenon DEF at

\* The Remaining Length of an empty body is one zero byte.
LEMMA EmptyLength == rl_bytes(0) = <<0>>
  <1>. DEFINE S == {i \in 1..5 : last_byte(0 \div Multiplier[i])}
  <1>1. 1 \in S /\ S \in SUBSET Nat /\ 0 \notin S
    BY DEF Multiplier, last_byte
  <1>2. rl_rounds(0) = Min(S)
    BY DEF rl_rounds
  <1>. HIDE DEF S
  <1>3. Wire!WireAssumption /\ Min(S) = Wire!Min(S)
    BY SameCodec
  <1>4. 1 \in 1..5
    OBVIOUS
  <1>5. Wire!Min(S) \in 1..1
    BY <1>1, <1>3, <1>4, Wire!LeastOfFive
  <1>6. rl_rounds(0) = 1
    BY <1>2, <1>3, <1>5
  <1>7. Multiplier[1] = 1 /\ 0 \div 1 = 0 /\ last_byte(0) /\ (0 % 128) + 0 = 0
    BY DEF Multiplier, last_byte
  <1>8. rl_bytes(0) = [i \in 1..1 |-> 0]
    <2>1. \A i \in 1..1 : (((0 \div Multiplier[i]) % 128)
                              + (IF last_byte(0 \div Multiplier[i]) THEN 0 ELSE 128)) = 0
      BY <1>7
    <2>. QED  BY <1>6, <2>1 DEF rl_bytes
  <1>. QED  BY <1>8

-----------------------------------------------------------------------------
(* One call of an encoder *)

\* encode_connect(), encode_publish() and encode_subscribe() write inside the
\* buffer, as far as Footprint allows, and a success carries the body.
LEMMA LongCall ==
    ASSUME NEW s \in Seq(Octet), Len(s) <= SizeMax, NEW header \in Octet,
           NEW bodies \in Seq(Seq(Octet)), Len(bodies) \in 1..6,
           ValidFlags(header \div 16, header % 16)
    PROVE  LET e    == Encode(s, header, bodies)
               p    == SubSeq(e.buf, 1, e.out_len)
               size == decode_fixed_header(p).header_size
           IN  /\ e.buf \in Seq(Octet) /\ Len(e.buf) = Len(s)
               /\ e.st # "OK" => Same(e.buf, s, 2, 5)
               /\ e.st = "OK" =>
                    /\ Len(p) = e.out_len
                    /\ Carries(p, header, bodies[Len(bodies)])
                    /\ Same(e.buf, s, e.out_len + (RlMaxBytes - (size - 1)) + 1, Len(s))
  <1>. DEFINE e    == Encode(s, header, bodies)
              body == bodies[Len(bodies)]
              p    == SubSeq(e.buf, 1, e.out_len)
              size == decode_fixed_header(p).header_size
  <1>1. /\ e.buf \in Seq(Octet) /\ Len(e.buf) = Len(s)
        /\ e.st # "OK" => \A j \in 2..5 : j <= Len(s) => e.buf[j] = s[j]
    BY EncodeEffect, Zenon
  <1>2. e.st # "OK" => Same(e.buf, s, 2, 5)
    BY <1>1, Zenon DEF Same
  <1>3. ASSUME e.st = "OK"
        PROVE  /\ Len(p) = e.out_len /\ Carries(p, header, body)
               /\ \A j \in 1..Len(s) : j > 5 + Len(body) => e.buf[j] = s[j]
    BY <1>3, PacketRead, Zenon
  <1>4. body \in Seq(Octet)
    <2>. DEFINE K == Len(bodies)
    <2>0. K \in 1..6
      BY Zenon
    <2>. HIDE DEF K
    <2>1. K \in 1..K
      BY <2>0
    <2>2. Len(bodies) \in 1..Len(bodies)
      BY <2>1 DEF K
    <2>. QED  BY <2>2
  <1>. HIDE DEF body, e, p
  <1>5. ASSUME e.st = "OK"
        PROVE  Same(e.buf, s, e.out_len + (RlMaxBytes - (size - 1)) + 1, Len(s))
    <2>. DEFINE v == Len(body)
                o == e.out_len
    <2>1. /\ v \in Nat /\ size \in Nat /\ o = size + v
      <3>. DEFINE at == Len(p) - Len(body)
      <3>1. /\ Len(body) \in Nat /\ at \in Nat /\ Len(p) = at + Len(body) /\ size = at
        BY <1>3, <1>4, <1>5, HeaderRecord, ZenonT(60)
      <3>2. Len(p) = o
        BY <1>3, <1>5
      <3>. HIDE DEF at, size, o
      <3>. QED  BY <3>1, <3>2
    <2>2. \A j \in 1..Len(s) : j > 5 + v => e.buf[j] = s[j]
      BY <1>3, <1>5, Zenon
    <2>3. Len(s) \in Nat
      OBVIOUS
    <2>. HIDE DEF v, o, size
    <2>4. o + (4 - (size - 1)) + 1 = 6 + v
      BY <2>1
    <2>5. \A j \in (6 + v)..Len(s) : j \in 1..Len(s) /\ j > 5 + v
      BY <2>1, <2>3
    <2>6. Same(e.buf, s, 6 + v, Len(s))
      BY <2>2, <2>5, Zenon DEF Same
    <2>. QED  BY <2>4, <2>6, Zenon DEF RlMaxBytes, o
  <1>. QED  BY <1>1, <1>2, <1>3, <1>5, Zenon DEF e, body, p

\* encode_pingreq() and encode_disconnect() write two bytes or nothing.
LEMMA ShortCall ==
    ASSUME NEW s \in Seq(Octet), NEW type \in {PINGREQ, DISCONNECT}
    PROVE  LET e == EncodeShort(s, type)
               p == SubSeq(e.buf, 1, e.out_len)
           IN  /\ e.buf \in Seq(Octet) /\ Len(e.buf) = Len(s)
               /\ e.st # "OK" => e.buf = s
               /\ e.st = "OK" =>
                    /\ Len(p) = e.out_len
                    /\ Carries(p, 16 * type, <<>>)
                    /\ Same(e.buf, s, e.out_len + 0 + 1, Len(s))
  <1>. DEFINE e == EncodeShort(s, type)
              p == SubSeq(e.buf, 1, e.out_len)
              d == <<16 * type, 0>>
              b == Written(s, 0, d)
  <1>0. Len(s) \in Nat
    OBVIOUS
  <1>1. CASE Len(s) < 2
    <2>1. e = Encoded("BUFFER_TOO_SMALL", s, 0)
      BY <1>1, Zenon DEF EncodeShort
    <2>. HIDE DEF e
    <2>2. e.st = "BUFFER_TOO_SMALL" /\ e.buf = s
      BY <2>1 DEF Encoded
    <2>3. e.st # "OK"
      BY <2>2
    <2>. QED  BY <2>2, <2>3, Zenon DEF e
  <1>2. CASE ~(Len(s) < 2)
    <2>1. e = Encoded("OK", b, 2)
      BY <1>2, Zenon DEF EncodeShort
    <2>2. /\ 16 * type \in Octet /\ 0 \in Octet
          /\ ValidFlags((16 * type) \div 16, (16 * type) % 16)
      BY DEF PINGREQ, DISCONNECT, Octet, ValidFlags
    <2>. DEFINE header == 16 * type
    <2>3. header \in Octet /\ ValidFlags(header \div 16, header % 16)
      BY <2>2
    <2>. HIDE DEF header, e
    <2>4. d \in Seq(Octet) /\ Len(d) = 2 /\ d[1] = header /\ d[2] = 0
      BY <2>2 DEF header
    <2>. HIDE DEF d
    <2>5. /\ b \in Seq(Octet) /\ Len(b) = Len(s)
          /\ \A j \in 1..Len(s) : b[j] = IF j <= Len(d) THEN d[j] ELSE s[j]
      <3>1. Len(d) <= Len(s)
        BY <1>0, <1>2, <2>4
      <3>. QED  BY <2>4, <3>1, WrittenAtFront
    <2>. HIDE DEF b
    <2>6. e.st = "OK" /\ e.buf = b /\ e.out_len = 2
      BY <2>1 DEF Encoded
    <2>7. b[1] = header /\ b[2] = 0
      <3>1. 1 \in 1..Len(s) /\ 2 \in 1..Len(s) /\ 1 <= Len(d) /\ 2 <= Len(d)
        BY <1>0, <1>2, <2>4
      <3>. QED  BY <2>4, <2>5, <3>1
    <2>8. Same(b, s, 2 + 0 + 1, Len(s))
      <3>1. 2 + 0 + 1 = 3
        OBVIOUS
      <3>2. \A j \in 3..Len(s) : j \in 1..Len(s) /\ ~(j <= Len(d))
        BY <1>0, <2>4
      <3>3. Same(b, s, 3, Len(s))
        BY <2>5, <3>2 DEF Same
      <3>. QED  BY <3>1, <3>3
    <2>. DEFINE z == <<>>
    <2>9. z \in Seq(Octet) /\ Len(z) = 0 /\ 1..0 = {}
      OBVIOUS
    <2>. HIDE DEF z
    <2>10. /\ Len(rl_bytes(Len(z))) = 1 /\ rl_bytes(Len(z)) \in Seq(Octet)
           /\ rl_bytes(Len(z))[1] = 0 /\ Len(z) < RlLimit
      <3>1. <<0>> \in Seq(Octet) /\ Len(<<0>>) = 1 /\ <<0>>[1] = 0
        BY <2>2
      <3>2. 0 < RlLimit
        BY DEF RlLimit
      <3>. QED  BY <2>9, <3>1, <3>2, EmptyLength, Zenon
    <2>11. Framed(b, header, z)
      <3>1. 1 + 1 = 2 /\ \A i \in 1..1 : i = 1
        OBVIOUS
      <3>2. \A i \in 1..1 : b[1 + i] = rl_bytes(Len(z))[i]
        BY <2>7, <2>10, <3>1, Zenon
      <3>. QED  BY <2>7, <2>9, <2>10, <3>2, Zenon DEF Framed
    <2>12. 1 + 1 + Len(z) = 2 /\ 2 <= Len(b) /\ 1 \in 1..4
      BY <1>0, <1>2, <2>5, <2>9
    <2>13. LET x == SubSeq(b, 1, 1 + 1 + Len(z)) IN
           Len(x) = 1 + 1 + Len(z) /\ Carries(x, header, z)
      BY <2>3, <2>5, <2>9, <2>10, <2>11, <2>12, FramedCarries, ZenonT(60)
    <2>. QED  BY <2>5, <2>6, <2>8, <2>12, <2>13, Zenon DEF e, z, header
  <1>. QED  BY <1>1, <1>2, Zenon

-----------------------------------------------------------------------------
(* The actions *)

\* What Footprint says of a step.
FootprintStep ==
    LET short == req'.op \in {PINGREQ, DISCONNECT}
        spare == IF short THEN 0 ELSE RlMaxBytes - (Header'.header_size - 1)
    IN  /\ Len(buf') = Len(buf)
        /\ res'.st = "OK" => Same(buf', buf, res'.out_len + spare + 1, Len(buf))
        /\ res'.st # "OK" => IF short THEN buf' = buf ELSE Same(buf', buf, 2, 5)

\* The request a CONNECT was made from has a keepalive.
ReqOK == req.op = CONNECT => req.keepalive_interval_ms \in Nat

\* The types of the packets are distinct.
LEMMA Types ==
    /\ NoRequest # CONNECT /\ NoRequest # PUBLISH /\ NoRequest # SUBSCRIBE
    /\ CONNECT # PUBLISH /\ CONNECT # SUBSCRIBE /\ PUBLISH # SUBSCRIBE
    /\ \A t \in {PINGREQ, DISCONNECT} :
          t # NoRequest /\ t # CONNECT /\ t # PUBLISH /\ t # SUBSCRIBE
    /\ CONNECT \notin {PINGREQ, DISCONNECT} /\ PUBLISH \notin {PINGREQ, DISCONNECT}
    /\ SUBSCRIBE \notin {PINGREQ, DISCONNECT}
  BY DEF NoRequest, CONNECT, PUBLISH, SUBSCRIBE, PINGREQ, DISCONNECT

\* The header bytes of the encoders.
LEMMA HeaderBytesOf ==
    /\ \A t \in {CONNECT, PUBLISH} :
          /\ 16 * t \in Octet /\ (16 * t) \div 16 = t
          /\ ValidFlags((16 * t) \div 16, (16 * t) % 16)
    /\ \A t \in {PINGREQ, DISCONNECT} : 16 * t \in Octet /\ (16 * t) \div 16 = t
    /\ 16 * SUBSCRIBE + 2 \in Octet /\ (16 * SUBSCRIBE + 2) \div 16 = SUBSCRIBE
    /\ ValidFlags((16 * SUBSCRIBE + 2) \div 16, (16 * SUBSCRIBE + 2) % 16)
  BY DEF Octet, ValidFlags, CONNECT, PUBLISH, SUBSCRIBE, PINGREQ, DISCONNECT

\* The buffer and the memory around it after a call that used the long form.
LEMMA LongStep ==
    ASSUME BufOK, NEW r, r.op \notin {PINGREQ, DISCONNECT}, NEW header \in Octet,
           NEW bodies \in Seq(Seq(Octet)), Len(bodies) \in 1..6,
           ValidFlags(header \div 16, header % 16),
           Call(r, Encode(buf, header, bodies))
    PROVE  /\ BufOK' /\ FootprintStep /\ req' = r
           /\ res'.st = "OK" =>
                 /\ Len(Packet') = res'.out_len
                 /\ Carries(Packet', header, bodies[Len(bodies)])
  <1>. DEFINE e == Encode(buf, header, bodies)
              p == SubSeq(e.buf, 1, e.out_len)
              body == bodies[Len(bodies)]
              size == decode_fixed_header(p).header_size
  <1>1. req' = r /\ buf' = e.buf /\ res' = [st |-> e.st, out_len |-> e.out_len]
    BY DEF Call
  <1>2. buf \in Seq(Octet) /\ Len(buf) <= SizeMax
    BY DEF BufOK
  <1>3. /\ e.buf \in Seq(Octet) /\ Len(e.buf) = Len(buf)
        /\ e.st # "OK" => Same(e.buf, buf, 2, 5)
        /\ e.st = "OK" =>
             /\ Len(p) = e.out_len
             /\ Carries(p, header, body)
             /\ Same(e.buf, buf, e.out_len + (RlMaxBytes - (size - 1)) + 1, Len(buf))
    BY <1>2, LongCall, Zenon
  <1>. HIDE DEF e, body
  <1>4. res'.st = e.st /\ res'.out_len = e.out_len
    BY <1>1
  <1>5. Packet' = p
    BY <1>1, <1>4, Zenon DEF Packet
  <1>6. Header' = decode_fixed_header(p)
    BY <1>5, Zenon DEF Header
  <1>. HIDE DEF p
  <1>7. BufOK'
    BY <1>1, <1>2, <1>3, Zenon DEF BufOK
  <1>8. FootprintStep
    <2>1. req'.op \notin {PINGREQ, DISCONNECT}
      BY <1>1, Zenon
    <2>. QED  BY <1>1, <1>3, <1>4, <1>6, <2>1, Zenon DEF FootprintStep
  <1>. QED  BY <1>1, <1>3, <1>4, <1>5, <1>7, <1>8, Zenon DEF body

\* PINGREQ and DISCONNECT.
LEMMA ShortStep ==
    ASSUME BufOK, NEW type \in {PINGREQ, DISCONNECT},
           Call([op |-> type], EncodeShort(buf, type))
    PROVE  BufOK' /\ FootprintStep /\ EncodesRequest' /\ ReqOK'
  <1>. DEFINE e == EncodeShort(buf, type)
              p == SubSeq(e.buf, 1, e.out_len)
  <1>1. /\ req' = [op |-> type] /\ buf' = e.buf
        /\ res' = [st |-> e.st, out_len |-> e.out_len]
    BY DEF Call
  <1>2. buf \in Seq(Octet) /\ Len(buf) <= SizeMax
    BY DEF BufOK
  <1>3. /\ e.buf \in Seq(Octet) /\ Len(e.buf) = Len(buf)
        /\ e.st # "OK" => e.buf = buf
        /\ e.st = "OK" =>
             /\ Len(p) = e.out_len
             /\ Carries(p, 16 * type, <<>>)
             /\ Same(e.buf, buf, e.out_len + 0 + 1, Len(buf))
    BY <1>2, ShortCall, Zenon
  <1>. HIDE DEF e
  <1>4. res'.st = e.st /\ res'.out_len = e.out_len /\ req'.op = type
    BY <1>1
  <1>5. Packet' = p
    BY <1>1, <1>4, Zenon DEF Packet
  <1>6. Header' = decode_fixed_header(p)
    BY <1>5, Zenon DEF Header
  <1>. HIDE DEF p
  <1>7. BufOK'
    BY <1>1, <1>2, <1>3, Zenon DEF BufOK
  <1>8. FootprintStep
    BY <1>1, <1>3, <1>4, Zenon DEF FootprintStep
  <1>9. ReqOK'
    BY <1>4, Types, Zenon DEF ReqOK
  <1>10. EncodesRequest'
    <2>. SUFFICES ASSUME res'.st = "OK" PROVE EncodesRequest'
      BY Zenon DEF EncodesRequest
    <2>. DEFINE z == <<>>
    <2>1. z \in Seq(Octet) /\ Len(z) = 0
      OBVIOUS
    <2>2. Carries(p, 16 * type, z) /\ Len(p) = res'.out_len
      BY <1>3, <1>4, Zenon
    <2>. HIDE DEF z
    <2>3. 16 * type \in Octet /\ (16 * type) \div 16 = type
      BY HeaderBytesOf, Zenon
    <2>4. /\ Header'.st = "OK" /\ Header'.type = type
          /\ Header'.remaining_length = 0 /\ packet_len(Header') = res'.out_len
      BY <1>6, <2>1, <2>2, <2>3, HeaderRecord, Zenon
    <2>5. packet_len(Header)' = packet_len(Header')
      BY DEF packet_len
    <2>6. /\ req'.op # CONNECT /\ req'.op # PUBLISH /\ req'.op # SUBSCRIBE
      BY <1>4, Types, Zenon
    <2>. QED  BY <1>4, <2>4, <2>5, <2>6, Zenon DEF EncodesRequest
  <1>. QED  BY <1>7, <1>8, <1>9, <1>10

\* The same for encode_publish().
LEMMA PublishStep ==
    ASSUME BufOK, NEW t \in TopicLens, NEW n \in PayloadLens, Publish(t, n)
    PROVE  BufOK' /\ FootprintStep /\ EncodesRequest' /\ ReqOK'
  <1>. DEFINE topic   == Topic(t)
              payload == Payload(n)
              w       == write_utf8(topic)
              body    == w \o payload
              none    == <<>>
              bodies  == <<none, w, body>>
              r       == [op |-> PUBLISH, topic |-> topic, payload |-> payload]
              header  == 16 * PUBLISH
  <1>1. t \in Nat /\ t < U16Limit /\ n \in Nat
    BY EncoderAssumption DEF EncoderAssumption, U16Limit
  <1>2. topic \in Seq(Octet) /\ Len(topic) < U16Limit /\ payload \in Seq(Octet)
    BY <1>1, Arguments, Zenon
  <1>3. r.op = PUBLISH /\ r.topic = topic /\ r.payload = payload
    OBVIOUS
  <1>4. Call(r, Encode(buf, header, bodies))
    BY Zenon DEF Publish, encode_publish
  <1>. HIDE DEF topic, payload, r
  <1>5. w \in Seq(Octet)
    BY <1>2, StringWritten, Zenon
  <1>. HIDE DEF w
  <1>6. body \in Seq(Octet)
    BY <1>2, <1>5, Joined
  <1>7. none \in Seq(Octet)
    OBVIOUS
  <1>. HIDE DEF body, none
  <1>8. bodies \in Seq(Seq(Octet)) /\ Len(bodies) = 3 /\ bodies[3] = body
    BY <1>5, <1>6, <1>7
  <1>. HIDE DEF bodies
  <1>9. Len(bodies) \in 1..6
    BY <1>8
  <1>10. /\ header \in Octet /\ header \div 16 = PUBLISH
         /\ ValidFlags(header \div 16, header % 16)
    BY HeaderBytesOf, Zenon
  <1>. HIDE DEF header
  <1>11. r.op \notin {PINGREQ, DISCONNECT}
    BY <1>3, Types, Zenon
  <1>12. /\ BufOK' /\ FootprintStep /\ req' = r
         /\ res'.st = "OK" =>
               Len(Packet') = res'.out_len /\ Carries(Packet', header, bodies[Len(bodies)])
    BY <1>4, <1>8, <1>9, <1>10, <1>11, LongStep, Zenon
  <1>13. req'.op = PUBLISH /\ req'.topic = topic /\ req'.payload = payload
    BY <1>3, <1>12, Zenon
  <1>14. ReqOK'
    BY <1>13, Types, Zenon DEF ReqOK
  <1>15. ASSUME res'.st = "OK" PROVE EncodesRequest'
    <2>. DEFINE p == Packet'
                h == decode_fixed_header(p)
                d == decode_publish(p, h)
    <2>1. Len(p) = res'.out_len /\ Carries(p, header, body)
      BY <1>8, <1>12, <1>15, Zenon
    <2>2. h.st = "OK" /\ h.type = PUBLISH /\ packet_len(h) = res'.out_len
      BY <1>6, <1>10, <2>1, HeaderRecord, Zenon
    <2>3. /\ d.st = "OK"
          /\ SubSeq(p, d.topic + 1, d.topic + d.topic_len) = topic
          /\ SubSeq(p, d.payload + 1, d.payload + d.payload_len) = payload
      BY <1>2, <2>1, PublishRead, Zenon DEF header, body, w
    <2>4. Header' = h
      BY DEF Header
    <2>5. req'.op # CONNECT /\ req'.op = PUBLISH
      BY <1>13, Types, Zenon
    <2>. HIDE DEF h, d
    <2>6. /\ decode_publish(Packet, Header)' = d /\ packet_len(Header)' = packet_len(h)
      BY <2>4, Zenon DEF d
    <2>. HIDE DEF p
    <2>. QED  BY <1>13, <2>2, <2>3, <2>4, <2>5, <2>6, Types, Zenon DEF EncodesRequest, Cut, p
  <1>16. res'.st # "OK" => EncodesRequest'
    BY Zenon DEF EncodesRequest
  <1>. QED  BY <1>12, <1>14, <1>15, <1>16

\* The same for encode_subscribe().
LEMMA SubscribeStep ==
    ASSUME BufOK, NEW i \in PacketIds, NEW t \in TopicLens, Subscribe(i, t)
    PROVE  BufOK' /\ FootprintStep /\ EncodesRequest' /\ ReqOK'
  <1>. DEFINE topic  == Topic(t)
              id     == uint16_be(i)
              filter == id \o write_utf8(topic)
              qos    == <<0>>
              body   == filter \o qos
              none   == <<>>
              bodies == <<none, id, filter, body>>
              r      == [op |-> SUBSCRIBE, packet_id |-> i, topic |-> topic]
              header == 16 * SUBSCRIBE + 2
  <1>1. t \in Nat /\ t < U16Limit /\ i \in Nat /\ i < U16Limit
    BY EncoderAssumption DEF EncoderAssumption, U16Limit
  <1>2. topic \in Seq(Octet) /\ Len(topic) < U16Limit
    BY <1>1, Arguments, Zenon
  <1>3. r.op = SUBSCRIBE /\ r.topic = topic /\ r.packet_id = i
    OBVIOUS
  <1>4. Call(r, Encode(buf, header, bodies))
    BY Zenon DEF Subscribe, encode_subscribe
  <1>. HIDE DEF topic, r
  <1>5. id \in Seq(Octet) /\ write_utf8(topic) \in Seq(Octet)
    BY <1>1, <1>2, TwoOctets, StringWritten, Zenon
  <1>6. qos \in Seq(Octet) /\ none \in Seq(Octet)
    BY DEF Octet
  <1>. HIDE DEF id, qos, none
  <1>7. filter \in Seq(Octet)
    BY <1>5, Joined, Zenon
  <1>. HIDE DEF filter
  <1>8. body \in Seq(Octet)
    BY <1>6, <1>7, Joined, Zenon
  <1>. HIDE DEF body
  <1>9. bodies \in Seq(Seq(Octet)) /\ Len(bodies) = 4 /\ bodies[4] = body
    BY <1>5, <1>6, <1>7, <1>8
  <1>. HIDE DEF bodies
  <1>10. Len(bodies) \in 1..6
    BY <1>9
  <1>11. /\ header \in Octet /\ header \div 16 = SUBSCRIBE
         /\ ValidFlags(header \div 16, header % 16)
    BY HeaderBytesOf, Zenon
  <1>. HIDE DEF header
  <1>12. r.op \notin {PINGREQ, DISCONNECT}
    BY <1>3, Types, Zenon
  <1>13. /\ BufOK' /\ FootprintStep /\ req' = r
         /\ res'.st = "OK" =>
               Len(Packet') = res'.out_len /\ Carries(Packet', header, bodies[Len(bodies)])
    BY <1>4, <1>9, <1>10, <1>11, <1>12, LongStep, Zenon
  <1>14. req'.op = SUBSCRIBE /\ req'.topic = topic /\ req'.packet_id = i
    BY <1>3, <1>13, Zenon
  <1>15. ReqOK'
    BY <1>14, Types, Zenon DEF ReqOK
  <1>16. ASSUME res'.st = "OK" PROVE EncodesRequest'
    <2>. DEFINE p  == Packet'
                h  == decode_fixed_header(p)
                at == h.header_size
    <2>1. Len(p) = res'.out_len /\ Carries(p, header, body)
      BY <1>9, <1>13, <1>16, Zenon
    <2>2. h.st = "OK" /\ h.type = SUBSCRIBE /\ packet_len(h) = res'.out_len
      BY <1>8, <1>11, <2>1, HeaderRecord, Zenon
    <2>3. Carries(p, 16 * SUBSCRIBE + 2, (uint16_be(i) \o write_utf8(topic)) \o <<0>>)
      BY <2>1, Zenon DEF header, body, filter, id, qos
    <2>4. /\ U16(p[at + 1], p[at + 2]) = i
          /\ U16(p[at + 3], p[at + 4]) = Len(topic)
          /\ SubSeq(p, at + 4 + 1, at + 4 + (Len(topic) + 1)) = topic \o <<0>>
      <3>. HIDE DEF p
      <3>. QED  BY <1>1, <1>2, <2>3, SubscribeRead, Zenon
    <2>5. Header' = h /\ packet_len(Header)' = packet_len(Header')
      BY DEF Header, packet_len
    <2>6. req'.op # CONNECT /\ req'.op # PUBLISH /\ req'.op = SUBSCRIBE
      BY <1>14, Types, Zenon
    <2>. HIDE DEF h
    <2>7. /\ 256 * p[at + 1] + p[at + 2] = req'.packet_id
          /\ 256 * p[at + 3] + p[at + 4] = Len(req'.topic)
          /\ SubSeq(p, at + 4 + 1, at + 4 + (Len(req'.topic) + 1)) = req'.topic \o <<0>>
      BY <1>14, <2>4, Zenon DEF U16
    <2>. HIDE DEF p
    <2>. QED  BY <2>2, <2>5, <2>6, <2>7, Zenon DEF EncodesRequest, Cut, p
  <1>17. res'.st # "OK" => EncodesRequest'
    BY Zenon DEF EncodesRequest
  <1>. QED  BY <1>13, <1>15, <1>16, <1>17

\* The same for encode_connect().
LEMMA ConnectStep ==
    ASSUME BufOK, NEW ms \in Keepalives, Connect(ms)
    PROVE  BufOK' /\ FootprintStep /\ EncodesRequest' /\ ReqOK'
  <1>. DEFINE sec    == keepalive_sec(ms)
              name   == write_utf8(<<77, 81, 84, 84>>)
              level  == name \o <<4>>
              flags  == name \o <<4, 2>>
              secs   == uint16_be(sec)
              alive  == flags \o secs
              client == write_utf8(<<>>)
              body   == alive \o client
              none   == <<>>
              bodies == <<none, name, level, flags, alive, body>>
              r      == [op |-> CONNECT, keepalive_interval_ms |-> ms]
              header == 16 * CONNECT
  <1>1. ms \in Nat /\ sec \in Nat /\ sec < U16Limit
    <2>1. ms \in Nat
      BY EncoderAssumption DEF EncoderAssumption
    <2>. QED  BY <2>1 DEF keepalive_sec, U16Limit
  <1>2. r.op = CONNECT /\ r.keepalive_interval_ms = ms
    OBVIOUS
  <1>3. Call(r, Encode(buf, header, bodies))
    BY Zenon DEF Connect, encode_connect
  <1>. HIDE DEF r, sec
  <1>4. /\ name \in Seq(Octet) /\ level \in Seq(Octet) /\ flags \in Seq(Octet)
        /\ client \in Seq(Octet)
    BY ConnectFields, Zenon
  <1>5. secs \in Seq(Octet) /\ none \in Seq(Octet)
    BY <1>1, TwoOctets
  <1>. HIDE DEF name, level, flags, secs, client, none
  <1>6. alive \in Seq(Octet)
    BY <1>4, <1>5, Joined, Zenon
  <1>. HIDE DEF alive
  <1>7. body \in Seq(Octet)
    BY <1>4, <1>6, Joined, Zenon
  <1>. HIDE DEF body
  <1>8. bodies \in Seq(Seq(Octet)) /\ Len(bodies) = 6 /\ bodies[6] = body
    BY <1>4, <1>5, <1>6, <1>7
  <1>. HIDE DEF bodies
  <1>9. Len(bodies) \in 1..6
    BY <1>8
  <1>10. /\ header \in Octet /\ header \div 16 = CONNECT
         /\ ValidFlags(header \div 16, header % 16)
    BY HeaderBytesOf, Zenon
  <1>. HIDE DEF header
  <1>11. r.op \notin {PINGREQ, DISCONNECT}
    BY <1>2, Types, Zenon
  <1>12. /\ BufOK' /\ FootprintStep /\ req' = r
         /\ res'.st = "OK" =>
               Len(Packet') = res'.out_len /\ Carries(Packet', header, bodies[Len(bodies)])
    BY <1>3, <1>8, <1>9, <1>10, <1>11, LongStep, Zenon
  <1>13. req'.op = CONNECT /\ req'.keepalive_interval_ms = ms
    BY <1>2, <1>12, Zenon
  <1>14. ReqOK'
    BY <1>1, <1>13, Zenon DEF ReqOK
  <1>15. ASSUME res'.st = "OK" PROVE EncodesRequest'
    <2>. DEFINE p  == Packet'
                h  == decode_fixed_header(p)
                at == h.header_size
    <2>1. Len(p) = res'.out_len /\ Carries(p, header, body)
      BY <1>8, <1>12, <1>15, Zenon
    <2>2. h.st = "OK" /\ h.type = CONNECT /\ packet_len(h) = res'.out_len
      BY <1>7, <1>10, <2>1, HeaderRecord, Zenon
    <2>3. Carries(p, 16 * CONNECT,
                  ((write_utf8(<<77, 81, 84, 84>>) \o <<4, 2>>) \o uint16_be(sec))
                      \o write_utf8(<<>>))
      BY <2>1, Zenon DEF header, body, alive, flags, name, secs, client
    <2>4. /\ SubSeq(p, at + 1, at + 8) = <<0, 4, 77, 81, 84, 84, 4, 2>>
          /\ U16(p[at + 9], p[at + 10]) = sec
          /\ SubSeq(p, at + 10 + 1, at + 10 + 2) = <<0, 0>>
      <3>. HIDE DEF p
      <3>. QED  BY <1>1, <2>3, ConnectRead, Zenon
    <2>5. Header' = h /\ packet_len(Header)' = packet_len(Header')
      BY DEF Header, packet_len
    <2>6. 256 * p[at + 9] + p[at + 10] = keepalive_sec(req'.keepalive_interval_ms)
      BY <1>13, <2>4, Zenon DEF U16, sec
    <2>. HIDE DEF h, p
    <2>7. Announced' = keepalive_sec(req'.keepalive_interval_ms)
      BY <2>5, <2>6, Zenon DEF Announced, p
    <2>8. keepalive_sec(req.keepalive_interval_ms)' = keepalive_sec(req'.keepalive_interval_ms)
      BY DEF keepalive_sec
    <2>9. /\ Cut(Header.header_size, 8)' = <<0, 4, 77, 81, 84, 84, 4, 2>>
          /\ Cut(Header.header_size + 10, 2)' = <<0, 0>>
      BY <2>4, <2>5, Zenon DEF Cut, p
    <2>10. req'.op = CONNECT /\ req'.op # PUBLISH /\ req'.op # SUBSCRIBE
      BY <1>13, Types, Zenon
    <2>. QED  BY <2>2, <2>5, <2>7, <2>8, <2>9, <2>10, Zenon DEF EncodesRequest
  <1>16. res'.st # "OK" => EncodesRequest'
    BY Zenon DEF EncodesRequest
  <1>. QED  BY <1>12, <1>14, <1>15, <1>16

-----------------------------------------------------------------------------
(* The theorems *)

\* What every state keeps, and what a step may do.
IInv == BufOK /\ EncodesRequest /\ ReqOK

\* A buffer nothing was encoded into satisfies it.
LEMMA InitIInv == Init => IInv
  <1>. SUFFICES ASSUME Init PROVE IInv
    OBVIOUS
  <1>1. PICK n \in Sizes : buf = [i \in 1..n |-> 0]
    BY DEF Init
  <1>2. n \in Nat /\ n <= SizeMax
    BY EncoderAssumption DEF EncoderAssumption
  <1>3. 0 \in Octet
    BY DEF Octet
  <1>4. BufOK
    BY <1>1, <1>2, <1>3 DEF BufOK
  <1>5. req.op = NoRequest
    BY DEF Init
  <1>. QED  BY <1>4, <1>5, Types, Zenon DEF IInv, EncodesRequest, ReqOK

\* Every encoder preserves it.
LEMMA StepIInv ==
    ASSUME IInv, Next
    PROVE  IInv' /\ FootprintStep
  <1>. USE DEF IInv
  <1>1. CASE \E ms \in Keepalives : Connect(ms)
    BY <1>1, ConnectStep, Zenon
  <1>2. CASE \E t \in TopicLens, n \in PayloadLens : Publish(t, n)
    BY <1>2, PublishStep, Zenon
  <1>3. CASE \E i \in PacketIds, t \in TopicLens : Subscribe(i, t)
    BY <1>3, SubscribeStep, Zenon
  <1>4. CASE Pingreq
    <2>1. PINGREQ \in {PINGREQ, DISCONNECT}
          /\ Call([op |-> PINGREQ], EncodeShort(buf, PINGREQ))
      BY <1>4, Zenon DEF Pingreq, encode_pingreq
    <2>. QED  BY <2>1, ShortStep, Zenon
  <1>5. CASE Disconnect
    <2>1. DISCONNECT \in {PINGREQ, DISCONNECT}
          /\ Call([op |-> DISCONNECT], EncodeShort(buf, DISCONNECT))
      BY <1>5, Zenon DEF Disconnect, encode_disconnect
    <2>. QED  BY <2>1, ShortStep, Zenon
  <1>. QED  BY <1>1, <1>2, <1>3, <1>4, <1>5, Zenon DEF Next

\* So does a step that changes nothing.
LEMMA StutterIInv ==
    ASSUME IInv, UNCHANGED vars
    PROVE  IInv'
  <1>1. buf' = buf /\ req' = req /\ res' = res
    BY DEF vars
  <1>2. BufOK' /\ ReqOK'
    BY <1>1, Zenon DEF IInv, BufOK, ReqOK
  <1>3. Packet' = Packet
    BY <1>1, Zenon DEF Packet
  <1>4. Header' = Header
    BY <1>3, Zenon DEF Header
  <1>5. EncodesRequest'
    BY <1>1, <1>3, <1>4, ZenonT(60) DEF IInv, EncodesRequest, Cut, Announced
  <1>. QED  BY <1>2, <1>5 DEF IInv

\* It therefore holds in every state.
LEMMA Inductive == Spec => []IInv
  <1>1. IInv /\ [Next]_vars => IInv'
    BY StepIInv, StutterIInv
  <1>. QED  BY InitIInv, <1>1, PTL DEF Spec

\* Whatever was encoded into the buffer before, a packet an encoder reports as
\* encoded is read by the decoders as the request it was made from, for every
\* size of the buffer, packet id, topic of up to 65535 bytes and payload.
THEOREM EncodesRequestCorrect == Spec => []EncodesRequest
  <1>1. IInv => EncodesRequest
    BY DEF IInv
  <1>. QED  BY <1>1, Inductive, PTL

\* The intervals KeepaliveHonoured is about.
Announceable(ms) == ms >= 2000 /\ ms <= 65535999

\* Rounding down loses less than a third of such an interval.
LEMMA RoundedDown ==
    ASSUME NEW ms \in Nat, Announceable(ms)
    PROVE  2 * ms <= 3 * 1000 * keepalive_sec(ms)
  <1>. DEFINE q == ms \div 1000
  <1>1. q \in Nat /\ q >= 2 /\ q <= 65535 /\ ms <= 1000 * q + 999
    BY DEF Announceable
  <1>. HIDE DEF q
  <1>2. q % 65536 = q
    BY <1>1
  <1>3. keepalive_sec(ms) = q
    BY <1>2 DEF keepalive_sec, q
  <1>4. 2 * ms <= 3 * 1000 * q
    BY <1>1
  <1>. QED  BY <1>3, <1>4

\* A CONNECT that was encoded announces the seconds of its request.
LEMMA AnnouncesSeconds ==
    ASSUME IInv, req.op = CONNECT, res.st = "OK"
    PROVE  Announced = keepalive_sec(req.keepalive_interval_ms)
  <1>1. req.op # NoRequest /\ req.op # PUBLISH /\ req.op # SUBSCRIBE
    BY Types, Zenon
  <1>. QED  BY <1>1, Zenon DEF IInv, EncodesRequest

\* The announced keepalive, rounded down to seconds, is still long enough for
\* a client that pings every keepalive_interval_ms, for every interval from
\* two seconds on that fits 16 bits of seconds.
THEOREM KeepaliveCorrect == Spec => []KeepaliveHonoured
  <1>1. ASSUME IInv, req.op = CONNECT, res.st = "OK",
               Announceable(req.keepalive_interval_ms)
        PROVE  2 * req.keepalive_interval_ms <= 3 * 1000 * Announced
    <2>1. req.keepalive_interval_ms \in Nat
      BY <1>1, Zenon DEF IInv, ReqOK
    <2>2. Announced = keepalive_sec(req.keepalive_interval_ms)
      BY <1>1, AnnouncesSeconds, Zenon
    <2>3. 2 * req.keepalive_interval_ms
             <= 3 * 1000 * keepalive_sec(req.keepalive_interval_ms)
      BY <1>1, <2>1, RoundedDown
    <2>. QED  BY <2>2, <2>3
  <1>2. IInv => KeepaliveHonoured
    BY <1>1 DEF KeepaliveHonoured, Announceable
  <1>. QED  BY <1>2, Inductive, PTL

\* No encoder writes outside the buffer it was given, nor over more of it than
\* its packet and the reserved Remaining Length bytes; a failed one leaves the
\* reserved bytes, and a failed two-byte packet all of the buffer, as they
\* were.
THEOREM FootprintCorrect == Spec => Footprint
  <1>1. IInv /\ [Next]_vars => [FootprintStep]_vars
    BY StepIInv
  <1>2. Spec => [][FootprintStep]_vars
    BY <1>1, Inductive, PTL DEF Spec
  <1>. QED  BY <1>2 DEF Footprint, FootprintStep

=============================================================================
