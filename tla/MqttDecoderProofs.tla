-------------------------- MODULE MqttDecoderProofs --------------------------
(***************************************************************************)
(* What the decoders promise on every sequence of bytes, however it is cut *)
(* by the reads.                                                           *)
(***************************************************************************)
EXTENDS MqttDecoder, SequenceTheorems, TLAPS

Octet == 0..255

\* four bytes carry a Remaining Length below this
RlLimit == 268435456

-----------------------------------------------------------------------------
(* Remaining Length *)

\* The multipliers of the five rounds, as numbers.
LEMMA Multipliers ==
    /\ Multiplier[1] = 1 /\ Multiplier[2] = 128 /\ Multiplier[3] = 16384
    /\ Multiplier[4] = 2097152 /\ Multiplier[5] = 268435456
  BY DEF Multiplier

\* An octet is a number.
LEMMA OctetRange == \A b \in Octet : b \in Nat /\ b <= 255
  BY DEF Octet

\* What a byte of a Remaining Length counts for, at each multiplier.
LEMMA DigitRange ==
    ASSUME NEW b \in Octet
    PROVE  b % 128 \in Nat /\ b % 128 < 128
  <1>1. b \in Nat
    BY OctetRange
  <1>. QED  BY <1>1

\* the number that four digits to the base 128 make
Base128(a, b, c, d) == a + b * 128 + c * 16384 + d * 2097152

\* It is below the limit of a Remaining Length.
LEMMA DigitBound ==
    ASSUME NEW a \in Nat, NEW b \in Nat, NEW c \in Nat, NEW d \in Nat,
           a < 128, b < 128, c < 128, d < 128
    PROVE  Base128(a, b, c, d) \in Nat /\ Base128(a, b, c, d) < RlLimit
  BY DEF Base128, RlLimit

\* A set with an element among the first five has a least one, which Min is.
LEMMA LeastOfFive ==
    ASSUME NEW S \in SUBSET Nat, 0 \notin S, NEW k \in 1..5, k \in S
    PROVE  /\ Min(S) \in S /\ Min(S) \in 1..k
           /\ \A j \in S : Min(S) <= j
  <1>. DEFINE P(x) == x \in S /\ \A y \in S : x <= y
  <1>1. \E x : P(x)
    <2>1. CASE 1 \in S
      BY <2>1
    <2>2. CASE 1 \notin S /\ 2 \in S
      BY <2>2
    <2>3. CASE 1 \notin S /\ 2 \notin S /\ 3 \in S
      BY <2>3
    <2>4. CASE 1 \notin S /\ 2 \notin S /\ 3 \notin S /\ 4 \in S
      BY <2>4
    <2>5. CASE 1 \notin S /\ 2 \notin S /\ 3 \notin S /\ 4 \notin S
      <3>1. k = 5  BY <2>5
      <3>. QED  BY <2>5, <3>1
    <2>. QED  BY <2>1, <2>2, <2>3, <2>4, <2>5
  <1>2. P(Min(S))
    BY <1>1, Zenon DEF Min
  <1>. DEFINE m == Min(S)
  <1>3. m \in S /\ \A j \in S : m <= j
    BY <1>2
  <1>. HIDE DEF m
  <1>4. m \in Nat /\ m # 0 /\ m <= k
    BY <1>3
  <1>. QED  BY <1>3, <1>4 DEF m

\* The loop ends at the first byte without the continuation bit or at the
\* fifth byte, and ends at all once five bytes are there.
LEMMA EndOfLength ==
    ASSUME NEW s \in Seq(Octet)
    PROVE  /\ Len(s) >= 5 => rl_ends(s) # {}
           /\ rl_ends(s) # {} =>
                /\ Min(rl_ends(s)) \in rl_ends(s)
                /\ Min(rl_ends(s)) \in 1..5
                /\ \A j \in rl_ends(s) : Min(rl_ends(s)) <= j
  <1>. DEFINE E == rl_ends(s)
  <1>0. Len(s) \in Nat
    OBVIOUS
  <1>1. E \in SUBSET Nat /\ 0 \notin E
    BY <1>0 DEF rl_ends
  <1>2. Len(s) >= 5 => 5 \in E
    BY <1>0 DEF rl_ends, RlMaxBytes
  <1>3. ASSUME E # {} PROVE \E k \in 1..5 : k \in E
    <2>1. PICK e \in E : TRUE
      BY <1>3
    <2>2. CASE e <= 5
      BY <2>1, <2>2, <1>1
    <2>3. CASE ~(e <= 5)
      <3>1. e \in 1..Len(s)
        BY <2>1 DEF rl_ends
      <3>. QED  BY <1>0, <1>2, <2>3, <3>1
    <2>. QED  BY <2>2, <2>3
  <1>4. ASSUME E # {}
        PROVE  Min(E) \in E /\ Min(E) \in 1..5 /\ \A j \in E : Min(E) <= j
    <2>1. PICK k \in 1..5 : k \in E
      BY <1>3, <1>4
    <2>2. Min(E) \in E /\ Min(E) \in 1..k /\ \A j \in E : Min(E) <= j
      <3>. HIDE DEF E
      <3>. QED  BY <1>1, <2>1, LeastOfFive
    <2>. QED  BY <2>2
  <1>. QED  BY <1>2, <1>4

\* A number read off the wire is at most what four bytes can carry, and the
\* bytes below its last one all continue.
LEMMA LengthRead ==
    ASSUME NEW s \in Seq(Octet), decode_remaining_length(s).st = "OK"
    PROVE  LET n == Min(rl_ends(s)) IN
           /\ n \in 1..4 /\ n <= Len(s)
           /\ s[n] < 128 /\ \A j \in 1..(n - 1) : s[j] >= 128
           /\ decode_remaining_length(s) =
                 [st |-> "OK", consumed |-> n, value |-> rl_value(s, n)]
           /\ rl_value(s, n) \in Nat /\ rl_value(s, n) < RlLimit
  <1>. DEFINE n == Min(rl_ends(s))
  <1>1. rl_ends(s) # {} /\ ~(n > RlMaxBytes)
    BY DEF decode_remaining_length
  <1>2. n \in rl_ends(s) /\ n \in 1..5 /\ \A j \in rl_ends(s) : n <= j
    BY <1>1, EndOfLength
  <1>3. decode_remaining_length(s) =
           [st |-> "OK", consumed |-> n, value |-> rl_value(s, n)]
    BY <1>1 DEF decode_remaining_length
  <1>. HIDE DEF n
  <1>4. /\ n \in 1..4 /\ n <= Len(s)
        /\ s[n] < 128
    BY <1>1, <1>2 DEF rl_ends, RlMaxBytes
  <1>5. ASSUME NEW j \in 1..(n - 1) PROVE s[j] >= 128
    <2>1. j \in 1..Len(s) /\ s[j] \in Octet /\ ~(n <= j)
      BY <1>4
    <2>2. j \notin rl_ends(s)
      BY <1>2, <2>1
    <2>3. ~(s[j] < 128)
      BY <2>1, <2>2 DEF rl_ends
    <2>. QED  BY <2>1, <2>3, OctetRange
  <1>6. rl_value(s, n) \in Nat /\ rl_value(s, n) < RlLimit
    <2>. DEFINE digit(i) == IF i <= n THEN s[i] % 128 ELSE 0
    <2>1. ASSUME NEW i \in 1..4 PROVE digit(i) \in Nat /\ digit(i) < 128
      <3>1. i <= n => s[i] \in Octet
        BY <1>4
      <3>. QED  BY <3>1, DigitRange
    <2>2. rl_value(s, n) = digit(1) + digit(2) * 128 + digit(3) * 16384
                              + digit(4) * 2097152
      <3>1. digit(1) * 1 = digit(1)
        BY <2>1
      <3>2. \A i \in 1..4 : (IF i <= n THEN (s[i] % 128) * Multiplier[i] ELSE 0)
                            = digit(i) * Multiplier[i]
        BY <2>1, Multipliers
      <3>. QED  BY <3>1, <3>2, Multipliers DEF rl_value
    <2>3. /\ digit(1) \in Nat /\ digit(1) < 128 /\ digit(2) \in Nat /\ digit(2) < 128
          /\ digit(3) \in Nat /\ digit(3) < 128 /\ digit(4) \in Nat /\ digit(4) < 128
      BY <2>1
    <2>. HIDE DEF digit
    <2>4. rl_value(s, n) = Base128(digit(1), digit(2), digit(3), digit(4))
      BY <2>2 DEF Base128
    <2>5. /\ Base128(digit(1), digit(2), digit(3), digit(4)) \in Nat
          /\ Base128(digit(1), digit(2), digit(3), digit(4)) < RlLimit
      BY <2>3, DigitBound, Zenon
    <2>. QED  BY <2>4, <2>5, Zenon
  <1>. QED  BY <1>3, <1>4, <1>5, <1>6 DEF n

\* The encoder's loop runs until the quotient is below 128, at most four
\* times for a number that four bytes can carry.
LEMMA Rounds ==
    ASSUME NEW v \in Nat, v < RlLimit
    PROVE  LET n == rl_rounds(v) IN
           /\ n \in 1..4
           /\ v \div Multiplier[n] < 128
           /\ \A i \in 1..(n - 1) : v \div Multiplier[i] >= 128
  <1>. DEFINE S == {i \in 1..5 : last_byte(v \div Multiplier[i])}
              n == Min(S)
  <1>0. v \in Nat /\ v < 268435456
    BY DEF RlLimit
  <1>1. 4 \in S
    <2>1. v \div 2097152 < 128
      BY <1>0
    <2>. QED  BY <2>1, Multipliers DEF last_byte
  <1>2. S \in SUBSET Nat /\ 0 \notin S
    OBVIOUS
  <1>3. n \in S /\ n \in 1..4 /\ \A j \in S : n <= j
    <2>. HIDE DEF S
    <2>. QED  BY <1>1, <1>2, LeastOfFive
  <1>4. n = rl_rounds(v)
    BY DEF rl_rounds
  <1>. HIDE DEF n
  <1>5. v \div Multiplier[n] < 128
    BY <1>3 DEF last_byte
  <1>6. ASSUME NEW i \in 1..(n - 1) PROVE v \div Multiplier[i] >= 128
    <2>1. i \in 1..5 /\ ~(n <= i) /\ i \in 1..3
      BY <1>3
    <2>2. ~last_byte(v \div Multiplier[i])
      BY <1>3, <2>1
    <2>3. v \div Multiplier[i] \in Int
      <3>1. Multiplier[i] \in {1, 128, 16384}
        BY <2>1, Multipliers
      <3>. QED  BY <1>0, <3>1
    <2>. QED  BY <2>2, <2>3 DEF last_byte
  <1>. QED  BY <1>3, <1>4, <1>5, <1>6

\* A number is the sum of its digits to the base 128.
LEMMA Digits ==
    ASSUME NEW v \in Nat
    PROVE  /\ v < 128 => v = v % 128
           /\ v < 16384 => v = (v % 128) + ((v \div 128) % 128) * 128
           /\ v < 2097152 => v = (v % 128) + ((v \div 128) % 128) * 128
                                  + ((v \div 16384) % 128) * 16384
           /\ v < 268435456 => v = (v % 128) + ((v \div 128) % 128) * 128
                                    + ((v \div 16384) % 128) * 16384
                                    + ((v \div 2097152) % 128) * 2097152
  <1>1. v < 128 => v = v % 128
    OBVIOUS
  <1>2. v < 16384 => v = (v % 128) + ((v \div 128) % 128) * 128
    OBVIOUS
  <1>3. v < 2097152 => v = (v % 128) + ((v \div 128) % 128) * 128
                             + ((v \div 16384) % 128) * 16384
    OBVIOUS
  <1>4. v < 268435456 => v = (v % 128) + ((v \div 128) % 128) * 128
                               + ((v \div 16384) % 128) * 16384
                               + ((v \div 2097152) % 128) * 2097152
    OBVIOUS
  <1>. QED  BY <1>1, <1>2, <1>3, <1>4

\* Each byte the encoder writes is an octet with the quotient's last digit,
\* and its continuation bit is set on all but the last one.
LEMMA EncodedBytes ==
    ASSUME NEW v \in Nat, v < RlLimit
    PROVE  LET n == rl_rounds(v)  r == rl_bytes(v) IN
           /\ n \in 1..4 /\ r \in Seq(Octet) /\ Len(r) = n
           /\ r[n] < 128
           /\ \A i \in 1..(n - 1) : r[i] >= 128
           /\ \A i \in 1..n : r[i] % 128 = (v \div Multiplier[i]) % 128
  <1>. DEFINE n == rl_rounds(v)
              r == rl_bytes(v)
              q(i) == v \div Multiplier[i]
  <1>1. /\ n \in 1..4 /\ q(n) < 128
        /\ \A i \in 1..(n - 1) : q(i) >= 128
    BY Rounds
  <1>2. \A i \in 1..n : q(i) \in Nat
    <2>. TAKE i \in 1..n
    <2>1. Multiplier[i] \in {1, 128, 16384, 2097152}
      <3>1. i \in 1..4  BY <1>1
      <3>. QED  BY <3>1, Multipliers
    <2>. QED  BY <2>1
  <1>3. r = [i \in 1..n |-> (q(i) % 128) + (IF last_byte(q(i)) THEN 0 ELSE 128)]
    BY DEF rl_bytes
  <1>. HIDE DEF n, q
  <1>4. ASSUME NEW i \in 1..n
        PROVE  /\ r[i] \in Octet /\ r[i] % 128 = q(i) % 128
               /\ (r[i] < 128) <=> (q(i) < 128)
    <2>. DEFINE d == q(i) % 128
    <2>0. q(i) \in Nat
      BY <1>2
    <2>1. d \in Nat /\ d < 128
      BY <2>0
    <2>2. r[i] = IF q(i) < 128 THEN d ELSE d + 128
      BY <1>3, <2>1 DEF last_byte
    <2>. HIDE DEF d, r
    <2>3. r[i] \in Nat /\ r[i] < 256
      BY <2>1, <2>2
    <2>4. r[i] % 128 = d /\ ((r[i] < 128) <=> (q(i) < 128))
      BY <2>0, <2>1, <2>2
    <2>. QED  BY <2>3, <2>4 DEF Octet, d
  <1>5. r \in Seq(Octet) /\ Len(r) = n
    <2>1. r \in [1..n -> Octet]
      BY <1>3, <1>4
    <2>2. n \in Nat
      BY <1>1
    <2>. HIDE DEF r
    <2>. QED  BY <2>1, <2>2
  <1>6. r[n] < 128
    BY <1>1, <1>4
  <1>7. ASSUME NEW i \in 1..(n - 1) PROVE r[i] >= 128
    <2>1. i \in 1..n
      BY <1>1
    <2>2. r[i] \in Octet /\ ~(r[i] < 128)
      BY <1>1, <1>2, <1>4, <2>1
    <2>. HIDE DEF r
    <2>. QED  BY <2>2, OctetRange
  <1>. QED  BY <1>1, <1>4, <1>5, <1>6, <1>7 DEF n, q

\* Decoding what the encoder writes for a number gives that number back, and
\* consumes just the bytes written (encode_remaining_length against
\* decode_remaining_length).
LEMMA DecodesItsLength ==
    ASSUME NEW v \in Nat, v < RlLimit
    PROVE  decode_remaining_length(rl_bytes(v)) =
              [st |-> "OK", consumed |-> Len(rl_bytes(v)), value |-> v]
  <1>. DEFINE n == rl_rounds(v)
              r == rl_bytes(v)
  <1>1. /\ n \in 1..4 /\ r \in Seq(Octet) /\ Len(r) = n
        /\ r[n] < 128
        /\ \A i \in 1..(n - 1) : r[i] >= 128
        /\ \A i \in 1..n : r[i] % 128 = (v \div Multiplier[i]) % 128
    BY EncodedBytes
  <1>2. v \div Multiplier[n] < 128
    BY Rounds
  <1>. HIDE DEF n, r
  <1>3. rl_ends(r) = {n}
    <2>1. n \in rl_ends(r)
      BY <1>1 DEF rl_ends
    <2>2. ASSUME NEW i \in rl_ends(r) PROVE i = n
      <3>1. i \in 1..n /\ i <= 4 /\ r[i] < 128
        BY <1>1, <2>2 DEF rl_ends, RlMaxBytes
      <3>2. r[i] \in Nat
        BY <1>1, <3>1, OctetRange
      <3>3. i \notin 1..(n - 1)
        BY <1>1, <3>1, <3>2
      <3>. QED  BY <1>1, <3>1, <3>3
    <2>. QED  BY <2>1, <2>2
  <1>4. Min(rl_ends(r)) = n
    <2>1. rl_ends(r) # {}
      BY <1>3
    <2>2. Min(rl_ends(r)) \in rl_ends(r)
      BY <1>1, <2>1, EndOfLength
    <2>. QED  BY <1>3, <2>2
  <1>5. rl_value(r, n) = v
    <2>1. n \in {1, 2, 3, 4}
      BY <1>1
    <2>2. CASE n = 1
      <3>1. rl_value(r, n) = ((v \div 1) % 128) * 1 + 0 + 0 + 0
        BY <1>1, <2>2, Multipliers DEF rl_value
      <3>. QED  BY <3>1, <2>2, <1>2, Multipliers, Digits
    <2>3. CASE n = 2
      <3>1. rl_value(r, n) = ((v \div 1) % 128) * 1 + ((v \div 128) % 128) * 128 + 0 + 0
        <4>1. r[1] % 128 = (v \div Multiplier[1]) % 128
          BY <1>1, <2>3
        <4>2. r[2] % 128 = (v \div Multiplier[2]) % 128
          BY <1>1, <2>3
        <4>3. r[1] % 128 = (v \div 1) % 128 /\ r[2] % 128 = (v \div 128) % 128
          BY <4>1, <4>2, Multipliers
        <4>. QED  BY <2>3, <4>3, Multipliers DEF rl_value
      <3>2. v < 16384
        BY <2>3, <1>2, Multipliers
      <3>. QED  BY <3>1, <3>2, Digits
    <2>4. CASE n = 3
      <3>1. rl_value(r, n) = ((v \div 1) % 128) * 1 + ((v \div 128) % 128) * 128
                                + ((v \div 16384) % 128) * 16384 + 0
        <4>1. /\ r[1] % 128 = (v \div 1) % 128 /\ r[2] % 128 = (v \div 128) % 128
              /\ r[3] % 128 = (v \div 16384) % 128
          <5>1. r[1] % 128 = (v \div Multiplier[1]) % 128
            BY <1>1, <2>4
          <5>2. r[2] % 128 = (v \div Multiplier[2]) % 128
            BY <1>1, <2>4
          <5>3. r[3] % 128 = (v \div Multiplier[3]) % 128
            BY <1>1, <2>4
          <5>. QED  BY <5>1, <5>2, <5>3, Multipliers
        <4>. QED  BY <2>4, <4>1, Multipliers DEF rl_value
      <3>2. v < 2097152
        BY <2>4, <1>2, Multipliers
      <3>. QED  BY <3>1, <3>2, Digits
    <2>5. CASE n = 4
      <3>1. rl_value(r, n) = ((v \div 1) % 128) * 1 + ((v \div 128) % 128) * 128
                                + ((v \div 16384) % 128) * 16384
                                + ((v \div 2097152) % 128) * 2097152
        <4>1. /\ r[1] % 128 = (v \div 1) % 128 /\ r[2] % 128 = (v \div 128) % 128
              /\ r[3] % 128 = (v \div 16384) % 128
              /\ r[4] % 128 = (v \div 2097152) % 128
          <5>1. r[1] % 128 = (v \div Multiplier[1]) % 128
            BY <1>1, <2>5
          <5>2. r[2] % 128 = (v \div Multiplier[2]) % 128
            BY <1>1, <2>5
          <5>3. r[3] % 128 = (v \div Multiplier[3]) % 128
            BY <1>1, <2>5
          <5>4. r[4] % 128 = (v \div Multiplier[4]) % 128
            BY <1>1, <2>5
          <5>. QED  BY <5>1, <5>2, <5>3, <5>4, Multipliers
        <4>. QED  BY <2>5, <4>1, Multipliers DEF rl_value
      <3>. QED  BY <3>1, Digits DEF RlLimit
    <2>. QED  BY <2>1, <2>2, <2>3, <2>4, <2>5
  <1>6. decode_remaining_length(r) = [st |-> "OK", consumed |-> n, value |-> rl_value(r, n)]
    <2>1. ~(n > RlMaxBytes)
      BY <1>1 DEF RlMaxBytes
    <2>. QED  BY <1>3, <1>4, <2>1 DEF decode_remaining_length
  <1>. QED  BY <1>1, <1>5, <1>6 DEF r

\* A number of few digits is below the matching power of 128.
LEMMA QuotientBelow ==
    ASSUME NEW v \in Nat
    PROVE  /\ v < Multiplier[2] => ~(v \div Multiplier[1] >= 128)
           /\ v < Multiplier[3] => ~(v \div Multiplier[2] >= 128)
           /\ v < Multiplier[4] => ~(v \div Multiplier[3] >= 128)
  <1>1. v < 128 => ~(v \div 1 >= 128)
    OBVIOUS
  <1>2. v < 16384 => ~(v \div 128 >= 128)
    OBVIOUS
  <1>3. v < 2097152 => ~(v \div 16384 >= 128)
    OBVIOUS
  <1>. QED  BY <1>1, <1>2, <1>3, Multipliers

\* The encoder's form of a number is the shortest: no longer than the bytes
\* the number was read from.
LEMMA ShortestLength ==
    ASSUME NEW s \in Seq(Octet), decode_remaining_length(s).st = "OK"
    PROVE  Len(rl_bytes(decode_remaining_length(s).value))
              <= decode_remaining_length(s).consumed
  <1>. DEFINE n == Min(rl_ends(s))
              v == rl_value(s, n)
              m == rl_rounds(v)
              digit(i) == IF i <= n THEN s[i] % 128 ELSE 0
  <1>1. /\ n \in 1..4 /\ n <= Len(s)
        /\ decode_remaining_length(s) = [st |-> "OK", consumed |-> n, value |-> v]
        /\ v \in Nat /\ v < RlLimit
    BY LengthRead
  <1>2. Len(rl_bytes(v)) = m
    BY <1>1, EncodedBytes
  <1>3. m \in 1..4 /\ \A i \in 1..(m - 1) : v \div Multiplier[i] >= 128
    BY <1>1, Rounds
  <1>4. ASSUME NEW i \in 1..4
        PROVE  digit(i) \in Nat /\ digit(i) < 128
    <2>1. i <= n => s[i] \in Octet
      BY <1>1
    <2>. QED  BY <2>1, DigitRange
  <1>5. v = digit(1) + digit(2) * 128 + digit(3) * 16384 + digit(4) * 2097152
    <2>1. digit(1) * 1 = digit(1)
      BY <1>4
    <2>2. \A i \in 1..4 : (IF i <= n THEN (s[i] % 128) * Multiplier[i] ELSE 0)
                          = digit(i) * Multiplier[i]
      BY <1>4, Multipliers
    <2>. QED  BY <2>1, <2>2, Multipliers DEF rl_value
  <1>6. \A i \in 1..4 : i > n => digit(i) = 0
    BY <1>1
  <1>. HIDE DEF n, m, v, digit
  <1>7. m <= n
    <2>1. CASE n = 1
      <3>1. digit(2) = 0 /\ digit(3) = 0 /\ digit(4) = 0
        BY <2>1, <1>6
      <3>2. v < 128
        BY <1>4, <1>5, <3>1, SMTT(60)
      <3>3. v \in Nat /\ v < Multiplier[2]
        BY <1>1, <3>2, Multipliers
      <3>4. ~(v \div Multiplier[1] >= 128)
        BY <3>3, QuotientBelow, Zenon
      <3>. QED  BY <1>3, <2>1, <3>4
    <2>2. CASE n = 2
      <3>1. digit(3) = 0 /\ digit(4) = 0
        BY <2>2, <1>6
      <3>2. v < 16384
        BY <1>4, <1>5, <3>1, SMTT(60)
      <3>3. v \in Nat /\ v < Multiplier[3]
        BY <1>1, <3>2, Multipliers
      <3>4. ~(v \div Multiplier[2] >= 128)
        BY <3>3, QuotientBelow, Zenon
      <3>. QED  BY <1>3, <2>2, <3>4
    <2>3. CASE n = 3
      <3>1. digit(4) = 0
        BY <2>3, <1>6
      <3>2. v < 2097152
        BY <1>4, <1>5, <3>1, SMTT(60)
      <3>3. v \in Nat /\ v < Multiplier[4]
        BY <1>1, <3>2, Multipliers
      <3>4. ~(v \div Multiplier[3] >= 128)
        BY <3>3, QuotientBelow, Zenon
      <3>. QED  BY <1>3, <2>3, <3>4
    <2>4. CASE n = 4
      BY <1>3, <2>4
    <2>. QED  BY <1>1, <2>1, <2>2, <2>3, <2>4
  <1>. QED  BY <1>1, <1>2, <1>7

-----------------------------------------------------------------------------
(* Fixed header *)

\* What arrives is a sequence of octets.
BufOK == buf \in Seq(Octet)

\* The bytes behind the first one.
LEMMA RestOfHeader ==
    ASSUME NEW s \in Seq(Octet), Len(s) >= 2
    PROVE  /\ Tail(s) \in Seq(Octet) /\ Len(Tail(s)) = Len(s) - 1
           /\ \A i \in 1..(Len(s) - 1) : Tail(s)[i] = s[i + 1]
  <1>1. s # <<>>
    OBVIOUS
  <1>. QED  BY <1>1

\* An accepted fixed header, with its size and its Remaining Length.
LEMMA HeaderRead ==
    ASSUME NEW s \in Seq(Octet), decode_fixed_header(s).st = "OK"
    PROVE  LET h == decode_fixed_header(s)
               rl == decode_remaining_length(Tail(s)) IN
           /\ Len(s) >= 2 /\ rl.st = "OK"
           /\ h = [st |-> "OK", type |-> s[1] \div 16, flags |-> s[1] % 16,
                   remaining_length |-> rl.value, header_size |-> 1 + rl.consumed]
           /\ rl.value \in Nat /\ rl.value < RlLimit
           /\ rl.consumed \in 1..4 /\ rl.consumed <= Len(s) - 1
  <1>. DEFINE h == decode_fixed_header(s)
              rl == decode_remaining_length(Tail(s))
  <1>1. Len(s) >= 2
    BY DEF decode_fixed_header
  <1>2. /\ rl.st = "OK"
        /\ h = [st |-> "OK", type |-> s[1] \div 16, flags |-> s[1] % 16,
                remaining_length |-> rl.value, header_size |-> 1 + rl.consumed]
    <2>. HIDE DEF rl
    <2>1. ~(Len(s) < 2)
      BY <1>1
    <2>. QED  BY <2>1 DEF decode_fixed_header, rl
  <1>3. Tail(s) \in Seq(Octet) /\ Len(Tail(s)) = Len(s) - 1
    BY <1>1, RestOfHeader
  <1>. DEFINE u == Tail(s)
              n == Min(rl_ends(u))
              v == rl_value(u, n)
  <1>4. /\ n \in 1..4 /\ n <= Len(u) /\ v \in Nat /\ v < RlLimit
        /\ rl = [st |-> "OK", consumed |-> n, value |-> v]
    <2>1. u \in Seq(Octet) /\ rl = decode_remaining_length(u)
      BY <1>3
    <2>. HIDE DEF u, rl
    <2>. QED  BY <1>2, <2>1, LengthRead
  <1>5. rl.consumed = n /\ rl.value = v
    <2>. HIDE DEF n, v, rl
    <2>. QED  BY <1>4
  <1>. QED  BY <1>1, <1>2, <1>3, <1>4, <1>5

\* A byte at a time, the buffer stays one of octets.
LEMMA BufStep == Spec => []BufOK
  <1>1. Init => BufOK
    BY DEF Init, BufOK
  <1>2. BufOK /\ [Next]_buf => BufOK'
    <2>. SUFFICES ASSUME BufOK, [Next]_buf PROVE BufOK'
      OBVIOUS
    <2>1. ASSUME NEW b \in HeaderBytes \cup WireBytes, Arrive(b) PROVE BufOK'
      <3>1. b \in Octet
        BY WireAssumption DEF Octet
      <3>. QED  BY <2>1, <3>1 DEF Arrive, BufOK
    <2>2. CASE UNCHANGED buf
      BY <2>2 DEF BufOK
    <2>. QED  BY <2>1, <2>2 DEF Next
  <1>. QED  BY <1>1, <1>2, PTL DEF Spec

\* Six bytes always settle a fixed header (decode_remaining_length).
THEOREM HeaderSettlesCorrect == Spec => []HeaderSettles
  <1>1. BufOK => HeaderSettles
    <2>. SUFFICES ASSUME BufOK, Len(buf) >= 6
                  PROVE  decode_fixed_header(buf).st # "BUFFER_TOO_SMALL"
      BY DEF HeaderSettles, Verdict
    <2>. DEFINE rl == decode_remaining_length(Tail(buf))
    <2>1. Tail(buf) \in Seq(Octet) /\ Len(Tail(buf)) >= 5
      BY RestOfHeader DEF BufOK
    <2>2. rl_ends(Tail(buf)) # {}
      <3>. DEFINE u == Tail(buf)
      <3>1. u \in Seq(Octet) /\ Len(u) >= 5
        BY <2>1
      <3>. HIDE DEF u
      <3>2. rl_ends(u) # {}
        BY <3>1, EndOfLength
      <3>. QED  BY <3>2 DEF u
    <2>3. rl.st # "BUFFER_TOO_SMALL"
      BY <2>2 DEF decode_remaining_length
    <2>. HIDE DEF rl
    <2>4. ~(Len(buf) < 2)
      BY DEF BufOK
    <2>. QED  BY <2>3, <2>4 DEF decode_fixed_header, rl
  <1>. QED  BY <1>1, BufStep, PTL

\* Decoding and encoding a Remaining Length agree (encode_remaining_length,
\* decode_remaining_length).
THEOREM LengthInverseCorrect == Spec => []RemainingLengthInverse
  <1>1. BufOK => RemainingLengthInverse
    <2>. SUFFICES ASSUME BufOK, Verdict.st = "OK"
                  PROVE  LET canonical == rl_bytes(Verdict.remaining_length) IN
                         /\ decode_remaining_length(canonical) =
                               [st |-> "OK", consumed |-> Len(canonical),
                                value |-> Verdict.remaining_length]
                         /\ Len(canonical) <= Verdict.header_size - 1
      BY DEF RemainingLengthInverse
    <2>. DEFINE rl == decode_remaining_length(Tail(buf))
    <2>1. /\ Len(buf) >= 2 /\ rl.st = "OK"
          /\ Verdict.remaining_length = rl.value
          /\ Verdict.header_size = 1 + rl.consumed
          /\ rl.value \in Nat /\ rl.value < RlLimit
          /\ rl.consumed \in 1..4
      BY HeaderRead DEF Verdict, BufOK
    <2>2. Tail(buf) \in Seq(Octet)
      BY <2>1, RestOfHeader DEF BufOK
    <2>3. decode_remaining_length(rl_bytes(rl.value)) =
             [st |-> "OK", consumed |-> Len(rl_bytes(rl.value)), value |-> rl.value]
      <3>. HIDE DEF rl
      <3>. QED  BY <2>1, DecodesItsLength
    <2>4. Len(rl_bytes(rl.value)) <= rl.consumed
      <3>. DEFINE u == Tail(buf)
      <3>1. u \in Seq(Octet) /\ rl = decode_remaining_length(u)
        BY <2>2
      <3>. HIDE DEF u, rl
      <3>. QED  BY <2>1, <3>1, ShortestLength
    <2>5. Verdict.header_size - 1 = rl.consumed
      <3>. HIDE DEF rl
      <3>. QED  BY <2>1
    <2>. HIDE DEF rl
    <2>. QED  BY <2>1, <2>3, <2>4, <2>5
  <1>. QED  BY <1>1, BufStep, PTL

\* Bytes behind the end of a Remaining Length do not change it.
LEMMA LengthFinal ==
    ASSUME NEW s \in Seq(Octet), NEW t \in Seq(Octet), Len(s) <= Len(t),
           \A i \in 1..Len(s) : t[i] = s[i],
           decode_remaining_length(s).st # "BUFFER_TOO_SMALL"
    PROVE  decode_remaining_length(t) = decode_remaining_length(s)
  <1>. DEFINE m == Min(rl_ends(s))
              k == Min(rl_ends(t))
  <1>0. Len(s) \in Nat /\ Len(t) \in Nat
    OBVIOUS
  <1>1. rl_ends(s) # {}
    BY DEF decode_remaining_length
  <1>2. m \in rl_ends(s) /\ m \in 1..5 /\ \A j \in rl_ends(s) : m <= j
    BY <1>1, EndOfLength
  <1>3. \A i \in 1..Len(s) : i \in rl_ends(s) <=> i \in rl_ends(t)
    BY <1>0 DEF rl_ends
  <1>4. m \in 1..Len(s)
    BY <1>2 DEF rl_ends
  <1>5. m \in rl_ends(t)
    BY <1>2, <1>3, <1>4
  <1>6. k \in rl_ends(t) /\ k \in 1..5 /\ \A j \in rl_ends(t) : k <= j
    <2>1. rl_ends(t) # {}
      BY <1>5
    <2>. QED  BY <2>1, EndOfLength
  <1>. HIDE DEF m, k
  <1>7. k = m
    <2>1. k <= m
      BY <1>5, <1>6, Zenon
    <2>2. k \in 1..Len(s)
      BY <1>0, <1>4, <1>6, <2>1
    <2>3. m <= k
      BY <1>2, <1>3, <1>6, <2>2
    <2>. QED  BY <1>2, <1>6, <2>1, <2>3
  <1>8. rl_value(t, m) = rl_value(s, m)
    <2>1. \A i \in 1..4 : i <= m => t[i] = s[i]
      BY <1>0, <1>4
    <2>. QED  BY <2>1 DEF rl_value
  <1>. QED  BY <1>1, <1>5, <1>7, <1>8 DEF decode_remaining_length, m, k

\* A byte more does not change a verdict once there is one.
LEMMA VerdictKept ==
    ASSUME BufOK, Next, Verdict.st # "BUFFER_TOO_SMALL"
    PROVE  Verdict' = Verdict
  <1>1. PICK b \in HeaderBytes \cup WireBytes : buf' = Append(buf, b)
    BY DEF Next, Arrive
  <1>2. b \in Octet
    BY WireAssumption DEF Octet
  <1>3. Len(buf) >= 2
    BY DEF Verdict, decode_fixed_header, BufOK
  <1>4. /\ buf' \in Seq(Octet) /\ Len(buf') = Len(buf) + 1
        /\ \A i \in 1..Len(buf) : buf'[i] = buf[i]
    BY <1>1, <1>2 DEF BufOK
  <1>. DEFINE u == Tail(buf)
              w == Tail(buf')
  <1>5. u \in Seq(Octet) /\ Len(u) = Len(buf) - 1 /\ \A i \in 1..(Len(buf) - 1) : u[i] = buf[i + 1]
    BY <1>3, RestOfHeader DEF BufOK
  <1>6. w \in Seq(Octet) /\ Len(w) = Len(buf) /\ \A i \in 1..Len(buf) : w[i] = buf'[i + 1]
    <2>1. Len(buf') >= 2 /\ Len(buf') - 1 = Len(buf)
      BY <1>3, <1>4 DEF BufOK
    <2>. QED  BY <1>4, <2>1, RestOfHeader
  <1>7. Len(u) <= Len(w) /\ \A i \in 1..Len(u) : w[i] = u[i]
    <2>. HIDE DEF u, w
    <2>1. Len(buf) \in Nat
      BY DEF BufOK
    <2>2. ASSUME NEW i \in 1..Len(u) PROVE w[i] = u[i]
      <3>1. i \in 1..(Len(buf) - 1) /\ i \in 1..Len(buf) /\ i + 1 \in 1..Len(buf)
        BY <1>5, <2>1
      <3>2. w[i] = buf'[i + 1] /\ u[i] = buf[i + 1]
        BY <1>5, <1>6, <3>1
      <3>. QED  BY <1>4, <3>1, <3>2
    <2>3. Len(u) <= Len(w)
      BY <1>5, <1>6, <2>1
    <2>. QED  BY <2>2, <2>3
  <1>8. buf'[1] = buf[1] /\ ~(Len(buf) < 2) /\ ~(Len(buf') < 2)
    BY <1>3, <1>4 DEF BufOK
  <1>. DEFINE type == buf[1] \div 16
              flags == buf[1] % 16
  <1>9. CASE ~ValidFlags(type, flags)
    BY <1>8, <1>9 DEF Verdict, decode_fixed_header
  <1>10. CASE ValidFlags(type, flags)
    <2>1. decode_remaining_length(u).st # "BUFFER_TOO_SMALL"
      <3>1. decode_remaining_length(u).st = "OK" \/ Verdict.st = decode_remaining_length(u).st
        <4>. HIDE DEF type, flags
        <4>. QED  BY <1>8, <1>10 DEF Verdict, decode_fixed_header, type, flags
      <3>. QED  BY <3>1
    <2>2. decode_remaining_length(w) = decode_remaining_length(u)
      <3>. HIDE DEF u, w
      <3>. QED  BY <1>5, <1>6, <1>7, <2>1, LengthFinal
    <2>. QED  BY <1>8, <2>2 DEF Verdict, decode_fixed_header
  <1>. QED  BY <1>9, <1>10

\* A verdict on a fixed header is final, however the bytes behind it arrive
\* (decode_fixed_header).
THEOREM VerdictFinalCorrect == Spec => VerdictFinal
  <1>1. BufOK /\ [Next]_buf => [Verdict.st # "BUFFER_TOO_SMALL" => Verdict' = Verdict]_buf
    BY VerdictKept
  <1>. QED  BY <1>1, BufStep, PTL DEF Spec, VerdictFinal

-----------------------------------------------------------------------------
(* Packets *)

\* The bytes of a complete packet.
LEMMA PacketBytes ==
    ASSUME BufOK, Complete
    PROVE  LET n == packet_len(Verdict)  packet == SubSeq(buf, 1, n) IN
           /\ Verdict.st = "OK"
           /\ Verdict.header_size \in 2..5 /\ Verdict.remaining_length \in Nat
           /\ n = Verdict.header_size + Verdict.remaining_length
           /\ n \in Nat /\ n <= Len(buf)
           /\ packet \in Seq(Octet) /\ Len(packet) = n
           /\ \A i \in 1..n : packet[i] = buf[i] /\ packet[i] \in Nat /\ packet[i] <= 255
  <1>. DEFINE n == packet_len(Verdict)
              packet == SubSeq(buf, 1, n)
              rl == decode_remaining_length(Tail(buf))
  <1>1. Verdict.st = "OK" /\ n <= Len(buf)
    BY DEF Complete
  <1>2. /\ Verdict.remaining_length = rl.value
        /\ Verdict.header_size = 1 + rl.consumed
        /\ rl.value \in Nat /\ rl.consumed \in 1..4
    BY <1>1, HeaderRead DEF Verdict, BufOK
  <1>3. /\ Verdict.header_size \in 2..5 /\ Verdict.remaining_length \in Nat
        /\ n = Verdict.header_size + Verdict.remaining_length /\ n \in Nat
    <2>. HIDE DEF rl
    <2>. QED  BY <1>2 DEF packet_len
  <1>. HIDE DEF n
  <1>4. buf \in Seq(Octet) /\ Len(buf) \in Nat
    BY DEF BufOK
  <1>5. /\ packet \in Seq(Octet) /\ Len(packet) = n
        /\ \A i \in 1..n : packet[i] = buf[i]
    BY <1>1, <1>3, <1>4
  <1>. HIDE DEF packet
  <1>6. \A i \in 1..n : packet[i] \in Nat /\ packet[i] <= 255
    <2>1. \A i \in 1..n : packet[i] \in Octet
      BY <1>5
    <2>. QED  BY <2>1, OctetRange
  <1>. QED  BY <1>1, <1>3, <1>5, <1>6 DEF n, packet

\* The topic and the payload a callback is given lie inside their packet
\* (decode_publish).
THEOREM PublishInsideCorrect == Spec => []PublishInsidePacket
  <1>1. BufOK => PublishInsidePacket
    <2>. DEFINE packet == packet_bytes(Verdict)
                p == decode_publish(packet, Verdict)
    <2>. SUFFICES ASSUME BufOK, Complete, p.st = "OK"
                  PROVE  /\ p.topic = Verdict.header_size + 2
                         /\ p.payload = p.topic + p.topic_len
                         /\ p.payload_len >= 0
                         /\ p.payload + p.payload_len = packet_len(Verdict)
      BY DEF PublishInsidePacket
    <2>. DEFINE n == packet_len(Verdict)
                hs == Verdict.header_size
                tl == 256 * packet[hs + 1] + packet[hs + 2]
    <2>1. /\ hs \in 2..5 /\ n \in Nat /\ Len(packet) = n
          /\ \A i \in 1..n : packet[i] \in Nat
      BY PacketBytes DEF packet_bytes
    <2>. HIDE DEF n, hs, packet
    <2>2. /\ ~(hs + 2 > n) /\ TopicFits(hs + 2, tl, n)
          /\ p = [st |-> "OK", topic |-> hs + 2, topic_len |-> tl,
                  payload |-> hs + 2 + tl, payload_len |-> n - (hs + 2 + tl)]
      BY DEF decode_publish, n, hs
    <2>3. tl \in Nat
      <3>1. hs + 1 \in 1..n /\ hs + 2 \in 1..n
        BY <2>1, <2>2
      <3>2. packet[hs + 1] \in Nat /\ packet[hs + 2] \in Nat
        BY <2>1, <3>1
      <3>. QED  BY <3>2
    <2>. HIDE DEF tl, p
    <2>4. hs + 2 + tl <= n
      BY <2>2 DEF TopicFits
    <2>. QED  BY <2>1, <2>2, <2>3, <2>4 DEF n, hs
  <1>. QED  BY <1>1, BufStep, PTL

\* A complete packet stays complete, and what the body decoders say of it does
\* not depend on how much of the next one is buffered behind it
\* (handle_state_mqtt_connect_sent, client_dispatch_packet).
THEOREM OutcomeFinalCorrect == Spec => OutcomeFinal
  <1>1. ASSUME BufOK, Next, Complete PROVE Complete' /\ Outcome' = Outcome
    <2>. DEFINE n == packet_len(Verdict)
    <2>1. Verdict.st = "OK" /\ n \in Nat /\ n <= Len(buf)
      BY <1>1, PacketBytes
    <2>2. Verdict' = Verdict
      BY <1>1, <2>1, VerdictKept
    <2>3. PICK b \in HeaderBytes \cup WireBytes : buf' = Append(buf, b)
      BY <1>1 DEF Next, Arrive
    <2>4. b \in Octet /\ buf \in Seq(Octet) /\ Len(buf) \in Nat
      BY <1>1, WireAssumption DEF BufOK, Octet
    <2>5. /\ buf' \in Seq(Octet) /\ Len(buf') = Len(buf) + 1
          /\ \A i \in 1..Len(buf) : buf'[i] = buf[i]
      BY <2>3, <2>4
    <2>. HIDE DEF n
    <2>6. SubSeq(buf', 1, n) = SubSeq(buf, 1, n)
      BY <2>1, <2>4, <2>5
    <2>7. packet_bytes(Verdict)' = packet_bytes(Verdict)
      BY <2>2, <2>6 DEF packet_bytes, n
    <2>8. Complete'
      BY <2>1, <2>2, <2>4, <2>5 DEF Complete, n
    <2>9. Outcome' = Outcome
      BY <2>2, <2>7 DEF Outcome
    <2>. QED  BY <2>8, <2>9
  <1>2. BufOK /\ [Next]_buf => [Complete => Complete' /\ Outcome' = Outcome]_buf
    BY <1>1
  <1>. QED  BY <1>2, BufStep, PTL DEF Spec, OutcomeFinal
=============================================================================
