------------------------------ MODULE MqttProto ------------------------------
(***************************************************************************)
(* The MQTT codec (proto/proto.c), as operators on sequences of bytes with *)
(* the code's own numbers.  A decoder maps the buffered bytes to a record  *)
(* with its status; an encoder maps the caller's buffer to its contents    *)
(* afterwards, its status and out_len.                                     *)
(***************************************************************************)
EXTENDS Integers, Sequences, FiniteSetsExt

CONNECT    == 1
CONNACK    == 2
PUBLISH    == 3
PUBACK     == 4
SUBSCRIBE  == 8
SUBACK     == 9
PINGREQ    == 12
PINGRESP   == 13
DISCONNECT == 14

\* AEMLIB_MQTT_REMAINING_LENGTH_MAX_BYTES, reserved by every encoder
RlMaxBytes == 4

-----------------------------------------------------------------------------
(* Remaining Length *)

\* What the i-th byte of a Remaining Length counts for.  Five bytes are more
\* than a uint32_t needs.
Multiplier == <<1, 128, 16384, 2097152, 268435456>>

\* mutant: 128 counts as one byte
last_byte_off_by_one(v) == v <= 128

\* nothing is left to encode behind this byte
last_byte(v) == v < 128

\* the do-while loop of encode_remaining_length(), once per byte
rl_rounds(v) == Min({i \in 1..5 : last_byte(v \div Multiplier[i])})

rl_bytes(v) ==
    [i \in 1..rl_rounds(v) |->
        LET left == v \div Multiplier[i] IN
        (left % 128) + (IF last_byte(left) THEN 0 ELSE 128)]

\* Positions that end decode_remaining_length()'s loop: a byte without the
\* continuation bit, or a fifth byte, whose multiplier is too large.

\* mutant: the multiplier is not checked
rl_unbounded_ends(s) == {i \in 1..Len(s) : s[i] < 128}

\* mutant: running out of bytes ends the number
rl_truncated_ends(s) == {i \in 1..Len(s) : s[i] < 128 \/ i > RlMaxBytes \/ i = Len(s)}

rl_ends(s) == {i \in 1..Len(s) : s[i] < 128 \/ i > RlMaxBytes}

\* the sum of what the bytes up to the last one count for
rl_value(s, last) ==
    LET part(i) == IF i <= last THEN (s[i] % 128) * Multiplier[i] ELSE 0
    IN  part(1) + part(2) + part(3) + part(4)

decode_remaining_length(s) ==
    IF rl_ends(s) = {} THEN [st |-> "BUFFER_TOO_SMALL"]
    ELSE LET last == Min(rl_ends(s)) IN
         IF last > RlMaxBytes THEN [st |-> "PROTOCOL"]
         ELSE [st |-> "OK", consumed |-> last, value |-> rl_value(s, last)]

-----------------------------------------------------------------------------
(* Decoders *)

\* validate_mqtt_flags()
ValidFlags(type, flags) ==
    \/ /\ type \in {CONNECT, CONNACK, PUBACK, SUBACK, PINGREQ, PINGRESP, DISCONNECT}
       /\ flags = 0
    \/ type = PUBLISH /\ (flags \div 2) % 4 # 3
    \/ type = SUBSCRIBE /\ flags = 2

decode_fixed_header(buf) ==
    IF Len(buf) < 2 THEN [st |-> "BUFFER_TOO_SMALL"]
    ELSE LET type  == buf[1] \div 16
             flags == buf[1] % 16
             rl    == decode_remaining_length(Tail(buf))
         IN  IF ~ValidFlags(type, flags) THEN [st |-> "PROTOCOL"]
             ELSE IF rl.st # "OK" THEN [st |-> rl.st]
             ELSE [st |-> "OK", type |-> type, flags |-> flags,
                   remaining_length |-> rl.value, header_size |-> 1 + rl.consumed]

packet_len(h) == h.header_size + h.remaining_length

\* mutant: the topic's length is believed
TopicBelieved(offset, topic_len, packet_end) == TRUE

\* topic and payload lie within the packet
TopicFits(offset, topic_len, packet_end) == offset + topic_len <= packet_end

\* Offsets are the code's, from zero: a topic or payload is where it starts
\* and how long it is.
decode_publish(buf, h) ==
    LET packet_end == packet_len(h)
        prefix_end == h.header_size + 2
        topic_len  == 256 * buf[h.header_size + 1] + buf[h.header_size + 2]
    IN  IF (h.flags \div 2) % 4 # 0 THEN [st |-> "UNSUPPORTED"]
        ELSE IF packet_end > Len(buf) THEN [st |-> "BUFFER_TOO_SMALL"]
        ELSE IF prefix_end > packet_end THEN [st |-> "MALFORMED"]
        ELSE IF ~TopicFits(prefix_end, topic_len, packet_end) THEN [st |-> "MALFORMED"]
        ELSE [st |-> "OK", topic |-> prefix_end, topic_len |-> topic_len,
              payload |-> prefix_end + topic_len,
              payload_len |-> packet_end - (prefix_end + topic_len)]

\* decode_connack() and decode_suback() look at fixed positions, whatever the
\* size of the fixed header
decode_connack(buf) ==
    IF Len(buf) < 4 THEN [st |-> "BUFFER_TOO_SMALL"]
    ELSE [st |-> "OK", session_present |-> buf[3] % 2, return_code |-> buf[4]]

decode_suback(buf) ==
    IF Len(buf) < 5 THEN [st |-> "BUFFER_TOO_SMALL"]
    ELSE [st |-> "OK", packet_id |-> 256 * buf[3] + buf[4], granted_qos |-> buf[5]]

-----------------------------------------------------------------------------
(* Encoders *)

\* mutant: low byte first
uint16_le(v) == <<v % 256, (v \div 256) % 256>>

uint16_be(v) == <<(v \div 256) % 256, v % 256>>

write_utf8(str) == uint16_be(Len(str)) \o str

\* buf with bytes written from offset (counted from zero) on; bytes written
\* past the end of buf show as a longer buf
Written(buf, offset, bytes) ==
    SubSeq(buf, 1, offset) \o bytes \o SubSeq(buf, offset + Len(bytes) + 1, Len(buf))

Encoded(st, buf, out_len) == [st |-> st, buf |-> buf, out_len |-> out_len]

\* mutant: the last field may end one byte behind the end of the buffer
fits_off_by_one(buf, fields) ==
    1 + RlMaxBytes <= Len(buf) /\ RlMaxBytes + Len(fields) <= Len(buf)

\* ensure_space() for the header byte, the reserved bytes and these fields
Fits(buf, fields) == 1 + RlMaxBytes + Len(fields) <= Len(buf)

\* encode_connect(), encode_publish() and encode_subscribe(): the header
\* byte, the reserved bytes, the fields one by one until one does not fit,
\* then the Remaining Length, with the fields moved up behind it.  bodies
\* holds what is written behind the reserved bytes, field after field.
Encode(buf, header, bodies) ==
    LET started == IF buf = <<>> THEN buf ELSE Written(buf, 0, <<header>>)
        fitting == {k \in DOMAIN bodies : Fits(buf, bodies[k])}
        body    == bodies[Max(fitting)]
        filled  == Written(started, 1 + RlMaxBytes, body)
        rl      == rl_bytes(Len(body))
        moved   == Written(filled, 1 + Len(rl), body)
    IN  IF fitting = {} THEN Encoded("BUFFER_TOO_SMALL", started, 0)
        ELSE IF Len(bodies) \notin fitting \/ Len(rl) > RlMaxBytes
             THEN Encoded("BUFFER_TOO_SMALL", filled, 0)
        ELSE Encoded("OK", Written(moved, 1, rl), 1 + Len(rl) + Len(body))

\* "MQTT", protocol level 4, clean session, an empty client id
encode_connect(buf, client_id, keepalive_sec) ==
    LET name  == write_utf8(<<77, 81, 84, 84>>)
        flags == name \o <<4, 2>>
        alive == flags \o uint16_be(keepalive_sec)
    IN  Encode(buf, 16 * CONNECT,
               << <<>>, name, name \o <<4>>, flags, alive, alive \o write_utf8(client_id)>>)

encode_publish(buf, topic, payload) ==
    Encode(buf, 16 * PUBLISH, << <<>>, write_utf8(topic), write_utf8(topic) \o payload>>)

encode_subscribe(buf, packet_id, topic) ==
    LET id     == uint16_be(packet_id)
        filter == id \o write_utf8(topic)
    IN  Encode(buf, 16 * SUBSCRIBE + 2, << <<>>, id, filter, filter \o <<0>> >>)

\* PINGREQ and DISCONNECT are two bytes and touch nothing if they do not fit
EncodeShort(buf, type) ==
    IF Len(buf) < 2 THEN Encoded("BUFFER_TOO_SMALL", buf, 0)
    ELSE Encoded("OK", Written(buf, 0, <<16 * type, 0>>), 2)

encode_pingreq(buf) == EncodeShort(buf, PINGREQ)

encode_disconnect(buf) == EncodeShort(buf, DISCONNECT)
=============================================================================
