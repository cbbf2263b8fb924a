----------------------------- MODULE MqttEncoder -----------------------------
(***************************************************************************)
(* The encoders on one buffer used again and again, as the client uses     *)
(* tx_buffer: each call finds what the calls before it left there.         *)
(***************************************************************************)
EXTENDS MqttProto

CONSTANTS
    Sizes,          \* sizes of the buffer
    Keepalives,     \* values of keepalive_interval_ms
    PacketIds,      \* packet_id arguments
    TopicLens,      \* lengths of the topics
    PayloadLens     \* lengths of the payloads

SizeMax == 2147483647

(* A topic is at most as long as its length prefix can say, and a buffer is *)
(* below the 2 GiB an object can have on the 32-bit targets.                *)
ASSUME EncoderAssumption ==
    /\ \A n \in Sizes : n \in Nat /\ n <= SizeMax
    /\ Keepalives \subseteq Nat
    /\ \A n \in PacketIds \cup TopicLens : n \in Nat /\ n < 65536
    /\ PayloadLens \subseteq Nat

VARIABLES
    buf,            \* tx_buffer
    req,            \* the last request
    res             \* what the encoder reported: status and out_len

vars == <<buf, req, res>>

NoRequest == 0

\* topics and payloads the decoder could confuse, were it off by a byte
Topic(n)   == [i \in 1..n |-> 64 + (i % 26)]
Payload(n) == [i \in 1..n |-> 200 + (i % 50)]

Init ==
    /\ \E n \in Sizes : buf = [i \in 1..n |-> 0]
    /\ req = [op |-> NoRequest]
    /\ res = [st |-> "OK", out_len |-> 0]

Call(r, e) ==
    /\ req' = r
    /\ buf' = e.buf
    /\ res' = [st |-> e.st, out_len |-> e.out_len]

\* mutant: cut to 16 bits before the division
keepalive_cut_first(ms) == (ms % 65536) \div 1000

\* client_send_connect(): whole seconds in a uint16_t
keepalive_sec(ms) == (ms \div 1000) % 65536

Connect(ms)     == Call([op |-> CONNECT, keepalive_interval_ms |-> ms],
                        encode_connect(buf, <<>>, keepalive_sec(ms)))
Publish(t, p)   == Call([op |-> PUBLISH, topic |-> Topic(t), payload |-> Payload(p)],
                        encode_publish(buf, Topic(t), Payload(p)))
Subscribe(i, t) == Call([op |-> SUBSCRIBE, packet_id |-> i, topic |-> Topic(t)],
                        encode_subscribe(buf, i, Topic(t)))
Pingreq         == Call([op |-> PINGREQ], encode_pingreq(buf))
Disconnect      == Call([op |-> DISCONNECT], encode_disconnect(buf))

Next ==
    \/ \E ms \in Keepalives : Connect(ms)
    \/ \E t \in TopicLens, p \in PayloadLens : Publish(t, p)
    \/ \E i \in PacketIds, t \in TopicLens : Subscribe(i, t)
    \/ Pingreq
    \/ Disconnect

Spec == Init /\ [][Next]_vars

-----------------------------------------------------------------------------
Packet == SubSeq(buf, 1, res.out_len)

Header == decode_fixed_header(Packet)

\* the fields of a packet, as a receiver that trusts its fixed header cuts
\* them out
Cut(from, n) == SubSeq(Packet, from + 1, from + n)

\* the keepalive a CONNECT announces, in seconds
Announced == LET at == Header.header_size IN 256 * Packet[at + 9] + Packet[at + 10]

\* What a receiver reads is what was asked for, whatever an earlier packet
\* left in the buffer: the fixed header names the type and spans exactly the
\* out_len bytes handed to client_send(), and the fields behind it are the
\* arguments (encode_connect, encode_publish, encode_subscribe, encode_pingreq
\* and encode_disconnect against the decoders).
EncodesRequest ==
    req.op # NoRequest /\ res.st = "OK" =>
        /\ Header.st = "OK" /\ Header.type = req.op
        /\ packet_len(Header) = res.out_len
        /\ LET at == Header.header_size IN
           CASE req.op = CONNECT ->
                   /\ Cut(at, 8) = <<0, 4, 77, 81, 84, 84, 4, 2>>
                   /\ Announced = keepalive_sec(req.keepalive_interval_ms)
                   /\ Cut(at + 10, 2) = <<0, 0>>
             [] req.op = PUBLISH ->
                   LET p == decode_publish(Packet, Header) IN
                   /\ p.st = "OK"
                   /\ Cut(p.topic, p.topic_len) = req.topic
                   /\ Cut(p.payload, p.payload_len) = req.payload
             [] req.op = SUBSCRIBE ->
                   /\ 256 * Packet[at + 1] + Packet[at + 2] = req.packet_id
                   /\ 256 * Packet[at + 3] + Packet[at + 4] = Len(req.topic)
                   /\ Cut(at + 4, Len(req.topic) + 1) = req.topic \o <<0>>
             [] OTHER -> Header.remaining_length = 0

\* A broker may hang up after one and a half times the keepalive it was told.
\* With an interval of two seconds or more that fits 16 bits of seconds, a
\* client that pings every keepalive_interval_ms is never later than that,
\* although the announced seconds are rounded down (client_send_connect's
\* conversion, aemlib_poll's comparison in milliseconds).
KeepaliveHonoured ==
    req.op = CONNECT /\ res.st = "OK" =>
        LET ms == req.keepalive_interval_ms IN
        ms >= 2000 /\ ms <= 65535999 => 2 * ms <= 3 * 1000 * Announced

Same(s, t, from, to) == \A j \in from..to : j <= Len(t) => s[j] = t[j]

\* What an encoder does to memory it does not own and to bytes of an earlier
\* packet still staged in the same buffer: it never writes past the end; a
\* success overwrites its own length and what is left of the reserved
\* Remaining Length bytes, no more; a failure leaves the reserved bytes alone,
\* and all of them for a two-byte packet (ensure_space, reserve_space, and
\* the memmove of the encoders).  This is the effect AemlibClient gives to a
\* send that client_send() then refuses.
Footprint ==
    [][ LET short == req'.op \in {PINGREQ, DISCONNECT}
            spare == IF short THEN 0 ELSE RlMaxBytes - (Header'.header_size - 1)
        IN  /\ Len(buf') = Len(buf)
            /\ res'.st = "OK" => Same(buf', buf, res'.out_len + spare + 1, Len(buf))
            /\ res'.st # "OK" => IF short THEN buf' = buf ELSE Same(buf', buf, 2, 5) ]_vars
=============================================================================
