----------------------------- MODULE MqttDecoder -----------------------------
(***************************************************************************)
(* The decoders on a byte stream that arrives a byte at a time: what       *)
(* client_read() and the CONNACK wait see in rx_buffer from poll to poll   *)
(* until the packet at its front is complete.                              *)
(***************************************************************************)
EXTENDS MqttProto

CONSTANTS
    HeaderBytes,    \* first bytes a packet may have
    WireBytes,      \* values of the bytes that follow
    MaxBuf          \* bound: bytes that arrive

(* rx_buffer holds bytes. *)
ASSUME WireAssumption ==
    HeaderBytes \subseteq 0..255 /\ WireBytes \subseteq 0..255 /\ MaxBuf \in Nat

VARIABLE buf        \* rx_buffer[0 .. rx_len - 1]

Init == buf = <<>>

Arrive(b) ==
    /\ Len(buf) < MaxBuf
    /\ b \in IF buf = <<>> THEN HeaderBytes ELSE WireBytes
    /\ buf' = Append(buf, b)

Next == \E b \in HeaderBytes \cup WireBytes : Arrive(b)

Spec == Init /\ [][Next]_buf

-----------------------------------------------------------------------------
Verdict == decode_fixed_header(buf)

Complete == Verdict.st = "OK" /\ packet_len(Verdict) <= Len(buf)

\* mutant: a body decoder is given rx_len for its buf_len
buffered_bytes(h) == buf

\* what a body decoder is given of rx_buffer: packet_len bytes
packet_bytes(h) == SubSeq(buf, 1, packet_len(h))

\* what the body decoder for its type says of the packet at the front
Outcome ==
    CASE Verdict.type = CONNACK -> decode_connack(packet_bytes(Verdict))
      [] Verdict.type = PUBLISH -> decode_publish(packet_bytes(Verdict), Verdict)
      [] Verdict.type = SUBACK  -> decode_suback(packet_bytes(Verdict))
      [] OTHER                  -> [st |-> "OK"]

\* A verdict is final: once the fixed header is accepted or refused, more
\* bytes never change it, so a caller that waits on BUFFER_TOO_SMALL and acts
\* on anything else acts on the same packet however the reads are cut
\* (decode_fixed_header under client_read's loop).
VerdictFinal ==
    [][Verdict.st # "BUFFER_TOO_SMALL" => Verdict' = Verdict]_buf

\* The wait for a fixed header is bounded: six bytes always settle it, so a
\* receive buffer of six bytes never fills up on a header alone
\* (decode_remaining_length's multiplier check).
HeaderSettles == Len(buf) >= 6 => Verdict.st # "BUFFER_TOO_SMALL"

\* Decoding and encoding agree: the Remaining Length read off the wire is the
\* one the encoder writes for that number, and the encoder's form is never
\* the longer one (encode_remaining_length, decode_remaining_length).
RemainingLengthInverse ==
    Verdict.st = "OK" =>
        LET canonical == rl_bytes(Verdict.remaining_length) IN
        /\ decode_remaining_length(canonical) =
              [st |-> "OK", consumed |-> Len(canonical),
               value |-> Verdict.remaining_length]
        /\ Len(canonical) <= Verdict.header_size - 1

\* on_message never sees bytes outside its packet: topic and payload follow
\* each other behind the length prefix and end where the packet ends, even
\* when more bytes are buffered behind it (decode_publish).
PublishInsidePacket ==
    Complete /\ Verdict.type = PUBLISH =>
        LET p == decode_publish(packet_bytes(Verdict), Verdict) IN
        p.st = "OK" => /\ p.topic = Verdict.header_size + 2
                       /\ p.payload = p.topic + p.topic_len
                       /\ p.payload_len >= 0
                       /\ p.payload + p.payload_len = packet_len(Verdict)

\* What is made of a complete packet is final too: the body decoders see the
\* packet and nothing behind it, so that a CONNACK too short for a return code
\* is refused and does not take it from the packet that follows in the same
\* buffer, and a PUBLISH ends where it did when it became complete, whether the
\* next poll comes before or after those bytes
\* (handle_state_mqtt_connect_sent, client_dispatch_packet).
OutcomeFinal ==
    [][Complete => Complete' /\ Outcome' = Outcome]_buf
=============================================================================
