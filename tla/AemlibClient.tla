---------------------------- MODULE AemlibClient ----------------------------
(***************************************************************************)
(* The aemlib MQTT client: core/client.c (public API, I/O, dispatch) over  *)
(* core/core.c (connection state machine), against a transport and a       *)
(* broker that behave as the interfaces allow (module Transport).          *)
(*                                                                         *)
(* The client is single threaded.  aemlib_poll() is cut at every point     *)
(* where it calls out (transport, clock, user callback), so that the       *)
(* network, the clock and, inside on_message, the user can act in between: *)
(* pc names the point reached.  A poll called from on_message runs through *)
(* the same points while the one that called on_message waits (outer).     *)
(* The other API functions make at most one outward call and are one step  *)
(* each.                                                                   *)
(*                                                                         *)
(* Bytes are abstracted to tokens that say which byte of which packet they *)
(* are, so that "the right bytes in the right order" is still expressible. *)
(***************************************************************************)
EXTENDS Transport

CONSTANTS
    TxSize,             \* cfg->tx_buffer_size
    RxSize,             \* cfg->rx_buffer_size
    ConnackTimeout,     \* AEMLIB_CORE_CONNACK_TIMEOUT_MS, in clock ticks
    KeepaliveInterval,  \* cfg->keepalive_interval_ms, in clock ticks
    PidMod,             \* 2^16 in the code: packet_id is a uint16_t
    ConnectLen,         \* encoded length of CONNECT
    SubscribeLen,       \* encoded length of SUBSCRIBE
    PublishLens,        \* encoded lengths of the PUBLISHes the user makes
    OnMessage,          \* TRUE iff cfg->on_message # NULL
    AppCalls,           \* API functions the application calls between polls
    CallbackCalls,      \* API functions on_message calls back into
    MaxNest,            \* bound: polls suspended in on_message
    InKinds,            \* kinds of packet the broker sends
    MaxIn,              \* bound: packets the broker sends per connection
    MaxStale            \* bound: bytes left in the transport for the next one

PingLen == 2    \* AEMLIB_MQTT_PINGREQ_LENGTH
MaxRl   == 4    \* AEMLIB_MQTT_REMAINING_LENGTH_MAX_BYTES

\* "connect_live" is aemlib_connect() on a client that is not DISCONNECTED;
\* aemlib_poll() is an API call of interest only from on_message
ApiNames == {"connect", "connect_live", "disconnect", "publish", "subscribe",
             "poll"}

AllInKinds == {"CONNACK_OK", "CONNACK_REFUSED", "CONNACK_SHORT", "CONNACK_BIG",
               "PUBLISH", "PUBLISH_QOS1", "PUBLISH_MALFORMED", "PUBLISH_BIG",
               "PINGRESP", "SUBACK", "BAD_FLAGS"}

(* validate_config() refuses empty buffers; the rest says what the numbers *)
(* are.                                                                    *)
ASSUME SizesAssumption ==
    /\ TxSize \in Nat \ {0}
    /\ RxSize \in Nat \ {0}
    /\ ConnectLen \in Nat \ {0}
    /\ SubscribeLen \in Nat \ {0}
    /\ PublishLens \subseteq Nat \ {0}
    /\ MaxIn \in Nat
    /\ MaxStale \in Nat
    /\ MaxNest \in Nat

ASSUME TimesAssumption ==
    /\ ConnackTimeout \in Nat
    /\ KeepaliveInterval \in Nat
    /\ PidMod \in Nat
    /\ PidMod > 1

ASSUME UserAssumption ==
    /\ OnMessage \in BOOLEAN
    /\ AppCalls \subseteq ApiNames
    /\ CallbackCalls \subseteq ApiNames
    /\ InKinds \subseteq AllInKinds

VARIABLES
    \* aemlib_client_t
    state,          \* client->state
    connect_sent,   \* client->connect_sent
    tx_pending,     \* tx_buffer[0 .. tx_pending_len - 1]
    rx,             \* rx_buffer[0 .. rx_len - 1]
    packet_id,      \* client->packet_id
    age,            \* now - last_activity_ms, saturated at AgeCap
    \* the aemlib_poll() call in progress
    pc,
    packet_len,     \* client_read()'s local while a packet is dispatched
    poll_status,    \* what the last aemlib_poll() returned
    outer,          \* packet_len of the polls suspended in on_message
    \* broker
    sent,           \* kinds of the packets the broker sent on this connection
    frame,          \* bytes of a packet the broker has received only partly
    in_sync,        \* FALSE once the broker got bytes that are no packet
    heard,          \* type of the first packet the broker got whole
    connects,       \* CONNECT packets the broker got whole (saturated at 2)
    \* history of the current connection
    done,           \* inbound packets consumed
    delivered,      \* inbound packets handed to on_message, in order
    damage          \* what API calls did to bytes still in the buffers, and
                    \* what was left over from the connection before

client == <<state, connect_sent, tx_pending, rx, packet_id, age>>
call   == <<pc, packet_len, poll_status, outer>>
broker == <<frame, in_sync, heard, connects>>
net    == <<link, inbox, sent>>
hist   == <<done, delivered, damage>>
vars   == <<client, call, broker, net, hist>>

States   == {"DISCONNECTED", "CONNECTING", "CONNECT_SENT", "CONNECTED",
             "DISCONNECTING"}
PcPoints == {"idle", "entry", "core", "connack", "send_connect", "read", "parse",
             "callback", "consume", "keepalive", "undefined"}
Statuses == {"OK", "IO", "WOULD_BLOCK", "BUFFER_TOO_SMALL", "PROTOCOL",
             "TIMEOUT", "CONNECT", "UNSUPPORTED", "MALFORMED"}
OutTypes == {"CONNECT", "PUBLISH", "SUBSCRIBE", "PINGREQ"}
TxDamage == {"tx_overwritten", "tx_dropped", "tx_stale"}
RxDamage == {"rx_dropped", "rx_reentered", "rx_stale"}
Damages  == TxDamage \cup RxDamage

AgeCap == IF ConnackTimeout > KeepaliveInterval THEN ConnackTimeout
                                                ELSE KeepaliveInterval

-----------------------------------------------------------------------------
(* Outbound packets: [type, len]; byte i of one is [t, n, i]. *)

Scratch == [t |-> "SCRATCH", n |-> 0, i |-> 0]

OutByte == [t : OutTypes, n : Nat, i : Nat] \cup {Scratch}

Packet(t, n) == [type |-> t, len |-> n]

Bytes(p) == [j \in 1..p.len |-> [t |-> p.type, n |-> p.len, i |-> j]]

\* bytes of the Remaining Length of a packet of n bytes in all, each of them
\* good for a factor of 128
RlBytes(n) == IF n <= 2 + 127 THEN 1
              ELSE IF n <= 3 + 16383 THEN 2
              ELSE IF n <= 4 + 2097151 THEN 3 ELSE MaxRl

\* reserved Remaining Length bytes that a packet of n bytes leaves over
Slack(n) == MaxRl - RlBytes(n)

\* the encoders reserve four Remaining Length bytes and need them free even
\* when fewer are enough; encode_pingreq() does not
Encodes(p) == IF p.type = "PINGREQ" THEN PingLen <= TxSize
                                    ELSE p.len + Slack(p.len) <= TxSize

\* staged bytes after an encoder ran over the same buffer
EncodedOver(p) ==
    [j \in 1..Len(tx_pending) |->
        IF j <= p.len THEN Bytes(p)[j]
        ELSE IF p.type # "PINGREQ" /\ j <= p.len + Slack(p.len) THEN Scratch
        ELSE tx_pending[j]]

\* the same when the encoder failed: the header byte is written, and maybe
\* the fields behind the four reserved bytes that still fitted
HalfEncodedOver(p, fields) ==
    [j \in 1..Len(tx_pending) |->
        IF j = 1 THEN Bytes(p)[1]
        ELSE IF fields /\ j > 1 + MaxRl THEN Scratch
        ELSE tx_pending[j]]

\* f starts like a packet / is one packet
PartOfPacket(f) ==
    f # <<>> => /\ Len(f) <= f[1].n
                /\ \A j \in 1..Len(f) :
                      f[j] = [t |-> f[1].t, n |-> f[1].n, i |-> j]

WholePacket(f) == f # <<>> /\ PartOfPacket(f) /\ Len(f) = f[1].n

\* The broker takes bytes off the stream and cuts them into packets.
Transmit(b) ==
    LET f     == frame \o b
        whole == in_sync /\ WholePacket(f)
        sane  == in_sync /\ PartOfPacket(f)
    IN  /\ in_sync' = sane
        /\ frame' = IF sane /\ ~whole THEN f ELSE <<>>
        /\ heard' = IF whole /\ heard = "nothing" THEN f[1].t ELSE heard
        /\ connects' = IF whole /\ f[1].t = "CONNECT" /\ connects < 2
                       THEN connects + 1 ELSE connects

-----------------------------------------------------------------------------
(* Inbound packets: byte i of the n-th packet of a connection, of kind k,  *)
(* is [k, n, i].  InPacket(k) is what the decoders of proto.c say of it.   *)

InPacket(k) ==
    CASE k = "CONNACK_OK"        -> [type |-> "CONNACK", len |-> 4, hdr |-> 2, body |-> "OK"]
      [] k = "CONNACK_REFUSED"   -> [type |-> "CONNACK", len |-> 4, hdr |-> 2, body |-> "CONNECT"]
      [] k = "CONNACK_SHORT"     -> [type |-> "CONNACK", len |-> 2, hdr |-> 2, body |-> "BUFFER_TOO_SMALL"]
      [] k = "CONNACK_BIG"       -> [type |-> "CONNACK", len |-> RxSize + 2, hdr |-> 2, body |-> "OK"]
      [] k = "PUBLISH"           -> [type |-> "PUBLISH", len |-> 4, hdr |-> 2, body |-> "OK"]
      [] k = "PUBLISH_QOS1"      -> [type |-> "PUBLISH", len |-> 6, hdr |-> 2, body |-> "UNSUPPORTED"]
      [] k = "PUBLISH_MALFORMED" -> [type |-> "PUBLISH", len |-> 4, hdr |-> 2, body |-> "MALFORMED"]
      [] k = "PUBLISH_BIG"       -> [type |-> "PUBLISH", len |-> RxSize + 3, hdr |-> 3, body |-> "OK"]
      [] k = "PINGRESP"          -> [type |-> "OTHER", len |-> 2, hdr |-> 2, body |-> "OK"]
      [] k = "SUBACK"            -> [type |-> "OTHER", len |-> 5, hdr |-> 2, body |-> "OK"]
      [] k = "BAD_FLAGS"         -> [type |-> "INVALID", len |-> 2, hdr |-> 2, body |-> "OK"]

ConnackKinds == {"CONNACK_OK", "CONNACK_REFUSED", "CONNACK_SHORT", "CONNACK_BIG"}

InByte == [k : InKinds, n : Nat, i : Nat]

InBytes(kind, index) ==
    [j \in 1..InPacket(kind).len |-> [k |-> kind, n |-> index, i |-> j]]

TooSmall   == [st |-> "BUFFER_TOO_SMALL", type |-> "NONE", len |-> 0, body |-> "OK"]
BadHeader  == [st |-> "PROTOCOL", type |-> "NONE", len |-> 0, body |-> "OK"]
Header(p)  == [st |-> "OK", type |-> p.type, len |-> p.len, body |-> p.body]

\* Bytes that do not start at a packet boundary can look like anything, but
\* five of them behind the first byte always settle the Remaining Length.
AnyHeader(buf) ==
    (IF Len(buf) <= 5 THEN {TooSmall} ELSE {}) \cup {BadHeader} \cup
    [st : {"OK"}, type : {"CONNACK", "PUBLISH", "OTHER"}, len : 2..(RxSize + 1),
     body : {"OK", "MALFORMED"}]

\* aemlib_proto_decode_fixed_header(), with the body decoder's verdict
decode_fixed_header(buf) ==
    IF Len(buf) < 2 THEN {TooSmall}
    ELSE IF buf[1].i # 1 THEN AnyHeader(buf)
    ELSE LET p == InPacket(buf[1].k) IN
         IF p.type = "INVALID" THEN {BadHeader}
         ELSE IF Len(buf) < p.hdr THEN {TooSmall}
         ELSE {Header(p)}

-----------------------------------------------------------------------------
(* Sending *)

\* client_send(): refuse while bytes are staged, else write and stage the rest
client_send(p, st) ==
    \/ /\ tx_pending # <<>>
       /\ st = "WOULD_BLOCK"
       /\ tx_pending' = EncodedOver(p)      \* the caller has encoded already
       /\ damage' = damage \cup {"tx_overwritten"}
       /\ UNCHANGED broker
    \/ /\ tx_pending = <<>>
       /\ \E w \in transport_write(p.len) :
             /\ st = IF w.ok THEN "OK" ELSE "IO"
             /\ tx_pending' = IF w.ok THEN Remaining(Bytes(p), w.n) ELSE <<>>
             /\ Transmit(Taken(Bytes(p), w.n))
       /\ UNCHANGED damage

\* an encoder call into tx_buffer followed by client_send()
EncodeAndSend(p, st) ==
    \/ Encodes(p) /\ client_send(p, st)
    \/ /\ ~Encodes(p)
       /\ st = "BUFFER_TOO_SMALL"
       /\ \E fields \in BOOLEAN :
             tx_pending' = IF p.type = "PINGREQ" THEN tx_pending
                           ELSE HalfEncodedOver(p, fields)
       /\ damage' = IF p.type = "PINGREQ" \/ tx_pending = <<>> THEN damage
                    ELSE damage \cup {"tx_overwritten"}
       /\ UNCHANGED broker

-----------------------------------------------------------------------------
(* The API: from the application between polls, or from on_message *)

MayCall(api) == \/ pc = "idle" /\ api \in AppCalls
                \/ pc = "callback" /\ api \in CallbackCalls

\* mutant: the receive buffer is not emptied
DiscardStagedOnly == tx_pending' = <<>> /\ UNCHANGED rx

\* what aemlib_connect() does before it looks at the state
DiscardLeftovers == tx_pending' = <<>> /\ rx' = <<>>

\* and what that does to a connection that is still open
Discarded == (IF tx_pending = <<>> THEN {} ELSE {"tx_dropped"})
             \cup (IF rx = <<>> THEN {} ELSE {"rx_dropped"})
             \cup (IF pc = "idle" THEN {} ELSE {"rx_reentered"})

\* A transport that keeps its bytes has those of the last connection in front
\* of those of the next one, in both directions.
Stale == IF ~KeepsBytes THEN {}
         ELSE (IF inbox = <<>> THEN {} ELSE {"rx_stale"})
              \cup (IF frame = <<>> /\ in_sync THEN {} ELSE {"tx_stale"})

\* with a new connection its history starts
NewConnection ==
    /\ link = "down"
    /\ Len(inbox) <= MaxStale
    /\ sent' = <<>> /\ done' = 0 /\ delivered' = <<>>
    /\ heard' = "nothing" /\ connects' = 0
    /\ frame' = IF KeepsBytes THEN frame ELSE <<>>
    /\ in_sync' = (KeepsBytes => in_sync)
    /\ damage' = Stale \cup (IF pc = "idle" THEN {} ELSE {"rx_reentered"})

\* a failed attempt has kept its socket, and this one goes on with it
SameConnection ==
    /\ link # "down"
    /\ damage' = damage \cup Discarded
    /\ UNCHANGED <<broker, sent, done, delivered>>

\* aemlib_connect() on a DISCONNECTED client.  Called from on_message (a nested
\* poll has closed the old connection), it starts one under a client_read()
\* that will go on with the old packet_len.
aemlib_connect ==
    /\ MayCall("connect")
    /\ state = "DISCONNECTED"
    /\ state' = "CONNECTING"
    /\ connect_sent' = FALSE
    /\ DiscardLeftovers
    /\ NewConnection \/ SameConnection
    /\ UNCHANGED <<packet_id, age, call, link, inbox>>

\* aemlib_connect() in any other state: STATE_INVALID, but both buffers are
\* emptied before the state is looked at.
aemlib_connect_invalid ==
    /\ MayCall("connect_live")
    /\ state # "DISCONNECTED"
    /\ DiscardLeftovers
    /\ damage' = damage \cup Discarded
    /\ UNCHANGED <<state, connect_sent, packet_id, age, call, broker, net,
                   done, delivered>>

aemlib_disconnect ==
    /\ MayCall("disconnect")
    /\ state = "CONNECTED"
    /\ state' = "DISCONNECTING"
    /\ UNCHANGED <<connect_sent, tx_pending, rx, packet_id, age, call, broker,
                   net, hist>>

aemlib_publish ==
    /\ MayCall("publish")
    /\ \E len \in PublishLens, st \in Statuses :
          EncodeAndSend(Packet("PUBLISH", len), st)
    /\ UNCHANGED <<state, connect_sent, rx, packet_id, age, call, net, done,
                   delivered>>

\* mutant: zero is not skipped
next_packet_id_or_zero == (packet_id + 1) % PidMod

\* aemlib_core_next_packet_id(): a uint16_t that skips zero
next_packet_id == LET next == (packet_id + 1) % PidMod IN
                  IF next = 0 THEN 1 ELSE next

aemlib_subscribe ==
    /\ MayCall("subscribe")
    /\ packet_id' = next_packet_id
    /\ \E st \in Statuses : EncodeAndSend(Packet("SUBSCRIBE", SubscribeLen), st)
    /\ UNCHANGED <<state, connect_sent, rx, age, call, net, done, delivered>>

-----------------------------------------------------------------------------
(* aemlib_poll() *)

\* back to the application, or to the on_message that called
Return(st) ==
    /\ poll_status' = st
    /\ \/ /\ outer = <<>>
          /\ pc' = "idle" /\ packet_len' = 0 /\ outer' = <<>>
       \/ /\ outer # <<>>
          /\ pc' = "callback" /\ packet_len' = Head(outer) /\ outer' = Tail(outer)

Goto(point) == pc' = point /\ UNCHANGED <<packet_len, poll_status, outer>>

\* on_message calls aemlib_poll(): the poll that called on_message waits
\* inside client_read(), with its packet still at the front of rx_buffer
poll_from_callback ==
    /\ pc = "callback"
    /\ "poll" \in CallbackCalls
    /\ Len(outer) < MaxNest
    /\ pc' = "entry"
    /\ packet_len' = 0
    /\ outer' = <<packet_len>> \o outer
    /\ damage' = damage \cup {"rx_reentered"}
    /\ UNCHANGED <<client, poll_status, broker, net, done, delivered>>

\* first step of aemlib_poll()
client_flush_pending ==
    /\ pc \in {"idle", "entry"}
    /\ \/ /\ tx_pending = <<>>
          /\ Goto("core")
          /\ UNCHANGED <<tx_pending, broker>>
       \/ /\ tx_pending # <<>>
          /\ \E w \in transport_write(Len(tx_pending)) :
                /\ tx_pending' = Remaining(tx_pending, w.n)
                /\ Transmit(Taken(tx_pending, w.n))
                /\ IF w.ok THEN Goto("core") ELSE Return("IO")
    /\ UNCHANGED <<state, connect_sent, rx, packet_id, age, net, hist>>

handle_state_disconnected ==
    /\ pc = "core"
    /\ state = "DISCONNECTED"
    /\ Return("OK")
    /\ UNCHANGED <<client, broker, net, hist>>

\* mutant: connect_sent is not consulted
ConnectEveryPoll == Goto("send_connect")

\* aemlib_poll()'s CONNECT_SENT branch: CONNECT goes out once per connection
ConnectIfUnsent == IF connect_sent THEN Return("OK") ELSE Goto("send_connect")

handle_state_connecting ==
    /\ pc = "core"
    /\ state = "CONNECTING"
    /\ \E r \in transport_connect :
          /\ link' = r[1]
          /\ inbox' = IF r[1] = "down" THEN LeftBehind ELSE inbox
          /\ \/ /\ r[2] = "OK"
                /\ state' = "CONNECT_SENT"
                /\ age' = 0
                /\ ConnectIfUnsent
             \/ /\ r[2] = "WOULD_BLOCK"
                /\ Return("OK")
                /\ UNCHANGED <<state, age>>
             \/ /\ r[2] = "IO"
                /\ state' = "DISCONNECTED"
                /\ Return("IO")
                /\ UNCHANGED age
    /\ UNCHANGED <<connect_sent, tx_pending, rx, packet_id, sent, broker, hist>>

\* mutant: the transport stays open
LeaveOpen(st) ==
    /\ UNCHANGED net
    /\ state' = "DISCONNECTED"
    /\ Return(st)

\* the handlers that end a connection close the transport first
HangUp(st) ==
    /\ transport_disconnect
    /\ UNCHANGED sent
    /\ state' = "DISCONNECTED"
    /\ Return(st)

\* what is left of rx_buffer behind the buffered bytes
RxRoom == RxSize - Len(rx)

\* handle_state_mqtt_connect_sent(), up to and including the read
connect_sent_read ==
    /\ pc = "core"
    /\ state = "CONNECT_SENT"
    /\ \E r \in transport_read(RxRoom) :
          \/ /\ ~r.ok
             /\ HangUp("IO")
             /\ UNCHANGED rx
          \/ /\ r.ok
             /\ rx' = rx \o Taken(inbox, r.n)
             /\ inbox' = Remaining(inbox, r.n)
             /\ Goto("connack")
             /\ UNCHANGED <<state, link, sent>>
    /\ UNCHANGED <<connect_sent, tx_pending, packet_id, age, broker, hist>>

ConnackIncomplete(h) ==
    \/ h.st = "BUFFER_TOO_SMALL"
    \/ h.st = "OK" /\ h.type = "CONNACK" /\ h.len <= RxSize /\ h.len > Len(rx)

\* mutants: the wait has no end, or ends a tick early
NeverExpired == FALSE

ExpiredEarly == age + 1 >= ConnackTimeout

\* the CONNACK wait has lasted long enough to be given up
ConnackExpired == age >= ConnackTimeout

\* no CONNACK yet: time out, or go on to send CONNECT if that is still to do
connack_wait ==
    /\ pc = "connack"
    /\ \E h \in decode_fixed_header(rx) : ConnackIncomplete(h)
    /\ \/ /\ ConnackExpired
          /\ HangUp("TIMEOUT")
       \/ /\ ~ConnackExpired
          /\ ConnectIfUnsent
          /\ UNCHANGED <<state, net>>
    /\ UNCHANGED <<connect_sent, tx_pending, rx, packet_id, age, broker, hist>>

\* undecodable, not a CONNACK, or too large for rx_buffer
connack_error ==
    /\ pc = "connack"
    /\ \E h \in decode_fixed_header(rx) :
          \/ h.st = "PROTOCOL" /\ HangUp("PROTOCOL")
          \/ h.st = "OK" /\ h.type # "CONNACK" /\ HangUp("PROTOCOL")
          \/ /\ h.st = "OK" /\ h.type = "CONNACK" /\ h.len > RxSize
             /\ HangUp("BUFFER_TOO_SMALL")
    /\ UNCHANGED <<connect_sent, tx_pending, rx, packet_id, age, broker, hist>>

\* mutant: the buffer is emptied with the CONNACK
NothingAfterConnack(len) == <<>>

\* bytes behind the CONNACK stay for client_read()
AfterConnack(len) == Remaining(rx, len)

\* mutant: the return code is not looked at
ConnackDecoded(h) == h.body \in {"OK", "CONNECT"}

\* decoded, with return code zero
ConnackAccepted(h) == h.body = "OK"

\* a whole CONNACK: consume it, then accept or give up
connack_received ==
    /\ pc = "connack"
    /\ \E h \in decode_fixed_header(rx) :
          /\ h.st = "OK" /\ h.type = "CONNACK" /\ h.len <= Len(rx)
          /\ rx' = AfterConnack(h.len)
          /\ done' = done + 1
          /\ \/ /\ ConnackAccepted(h)
                /\ state' = "CONNECTED"
                /\ age' = 0
                /\ Goto("read")
                /\ UNCHANGED net
             \/ /\ ~ConnackAccepted(h)
                /\ HangUp("CONNECT")
                /\ UNCHANGED age
    /\ UNCHANGED <<connect_sent, tx_pending, packet_id, broker, delivered, damage>>

\* the flag is set only when client_send() took the packet
client_send_connect ==
    /\ pc = "send_connect"
    /\ \E st \in Statuses :
          /\ EncodeAndSend(Packet("CONNECT", ConnectLen), st)
          /\ connect_sent' = (st = "OK")
          /\ Return(st)
    /\ UNCHANGED <<state, rx, packet_id, age, net, done, delivered>>

handle_state_mqtt_connected ==
    /\ pc = "core"
    /\ state = "CONNECTED"
    /\ Goto("read")
    /\ UNCHANGED <<client, broker, net, hist>>

handle_state_mqtt_disconnecting ==
    /\ pc = "core"
    /\ state = "DISCONNECTING"
    /\ HangUp("OK")
    /\ UNCHANGED <<connect_sent, tx_pending, rx, packet_id, age, broker, hist>>

-----------------------------------------------------------------------------
(* client_read() and keepalive: aemlib_poll()'s CONNECTED branch *)

client_read ==
    /\ pc = "read"
    /\ \E r \in transport_read(RxRoom) :
          \/ ~r.ok /\ Return("IO") /\ UNCHANGED <<rx, inbox>>
          \/ /\ r.ok
             /\ rx' = rx \o Taken(inbox, r.n)
             /\ inbox' = Remaining(inbox, r.n)
             /\ Goto("parse")
    /\ UNCHANGED <<state, connect_sent, tx_pending, packet_id, age, broker,
                   link, sent, hist>>

\* mutant: no check against the size of rx_buffer
WaitForAny(h) ==
    \/ h.st = "BUFFER_TOO_SMALL" /\ Len(rx) < RxSize
    \/ h.st = "OK" /\ h.len > Len(rx)

\* the packet at the front is not all there, and there is room for the rest
MustWait(h) ==
    \/ h.st = "BUFFER_TOO_SMALL" /\ Len(rx) < RxSize
    \/ h.st = "OK" /\ h.len <= RxSize /\ h.len > Len(rx)

parse_wait ==
    /\ pc = "parse"
    /\ \E h \in decode_fixed_header(rx) : MustWait(h)
    /\ Goto("keepalive")
    /\ UNCHANGED <<client, broker, net, hist>>

\* an error return leaves the offending bytes at the front of rx_buffer
parse_error ==
    /\ pc = "parse"
    /\ \E h \in decode_fixed_header(rx) :
          \/ /\ h.st = "BUFFER_TOO_SMALL" /\ Len(rx) = RxSize
             /\ Return("BUFFER_TOO_SMALL")
          \/ h.st = "PROTOCOL" /\ Return("PROTOCOL")
          \/ h.st = "OK" /\ h.len > RxSize /\ Return("BUFFER_TOO_SMALL")
          \/ /\ h.st = "OK" /\ h.len <= Len(rx)
             /\ h.type = "PUBLISH" /\ h.body # "OK"
             /\ Return(h.body)
    /\ UNCHANGED <<client, broker, net, hist>>

\* mutant: the check against rx_len is missing
PacketFits(h) == h.len <= RxSize

\* the whole packet is in rx_buffer
PacketBuffered(h) == h.len <= Len(rx)

client_dispatch_packet ==
    /\ pc = "parse"
    /\ \E h \in decode_fixed_header(rx) :
          /\ h.st = "OK" /\ PacketBuffered(h)
          /\ h.type = "PUBLISH" => h.body = "OK"
          /\ packet_len' = h.len
          /\ IF h.type = "PUBLISH" /\ OnMessage
             THEN pc' = "callback" /\ delivered' = Append(delivered, rx[1].n)
             ELSE pc' = "consume" /\ UNCHANGED delivered
    /\ UNCHANGED <<client, poll_status, outer, broker, net, done, damage>>

on_message_returns ==
    /\ pc = "callback"
    /\ Goto("consume")
    /\ UNCHANGED <<client, broker, net, hist>>

\* mutant: one packet per read (the AEM-7 bug)
OnePacketOnly == pc' = "keepalive"

\* back to the head of client_read()'s loop
NextPacket == pc' = "parse"

\* rx_len -= packet_len is unsigned: on underflow the memmove() that follows
\* has no defined behaviour
consume_packet ==
    /\ pc = "consume"
    /\ \/ /\ packet_len <= Len(rx)
          /\ rx' = Remaining(rx, packet_len)
          /\ packet_len' = 0
          /\ done' = done + 1
          /\ NextPacket
       \/ /\ packet_len > Len(rx)
          /\ pc' = "undefined"
          /\ UNCHANGED <<rx, packet_len, done>>
    /\ UNCHANGED <<state, connect_sent, tx_pending, packet_id, age, poll_status,
                   outer, broker, net, delivered, damage>>

\* mutant: no ping while an earlier packet is still staged
KeepaliveDueIfFlushed == age >= KeepaliveInterval /\ tx_pending = <<>>

KeepaliveDue == age >= KeepaliveInterval

client_keepalive ==
    /\ pc = "keepalive"
    /\ \/ /\ ~KeepaliveDue
          /\ Return("OK")
          /\ UNCHANGED <<tx_pending, age, broker, damage>>
       \/ /\ KeepaliveDue
          /\ \E st \in Statuses :
                /\ EncodeAndSend(Packet("PINGREQ", PingLen), st)
                /\ age' = IF st = "OK" THEN 0 ELSE age
                /\ Return(st)
    /\ UNCHANGED <<state, connect_sent, rx, packet_id, net, done, delivered>>

-----------------------------------------------------------------------------
(* Clock, network and broker *)

Tick ==
    /\ age < AgeCap
    /\ age' = age + 1
    /\ UNCHANGED <<state, connect_sent, tx_pending, rx, packet_id, call, broker,
                   net, hist>>

LinkOpens == Opens /\ UNCHANGED <<client, call, broker, sent, hist>>

LinkDies == Dies /\ UNCHANGED <<client, call, broker, sent, hist>>

\* A broker acknowledges a CONNECT, and nothing else, with a CONNACK.
BrokerSends(kind) ==
    /\ link = "up"
    /\ Len(sent) < MaxIn
    /\ kind \in ConnackKinds => heard = "CONNECT"
    /\ sent' = Append(sent, kind)
    /\ inbox' = inbox \o InBytes(kind, Len(sent) + 1)
    /\ UNCHANGED <<client, call, broker, link, hist>>

-----------------------------------------------------------------------------
Init ==
    /\ state = "DISCONNECTED"
    /\ connect_sent = FALSE
    /\ tx_pending = <<>>
    /\ rx = <<>>
    /\ packet_id = 1
    /\ age = 0
    /\ pc = "idle" /\ packet_len = 0 /\ poll_status = "OK" /\ outer = <<>>
    /\ link = "down" /\ inbox = <<>> /\ sent = <<>>
    /\ frame = <<>> /\ in_sync = TRUE /\ heard = "nothing" /\ connects = 0
    /\ done = 0 /\ delivered = <<>> /\ damage = {}

User ==
    \/ aemlib_connect
    \/ aemlib_connect_invalid
    \/ aemlib_disconnect
    \/ aemlib_publish
    \/ aemlib_subscribe
    \/ poll_from_callback

Poll ==
    \/ client_flush_pending
    \/ handle_state_disconnected
    \/ handle_state_connecting
    \/ connect_sent_read
    \/ connack_wait
    \/ connack_error
    \/ connack_received
    \/ client_send_connect
    \/ handle_state_mqtt_connected
    \/ handle_state_mqtt_disconnecting
    \/ client_read
    \/ parse_wait
    \/ parse_error
    \/ client_dispatch_packet
    \/ on_message_returns
    \/ consume_packet
    \/ client_keepalive

Network ==
    \/ LinkOpens
    \/ LinkDies
    \/ \E kind \in InKinds : BrokerSends(kind)

Next == User \/ Poll \/ Tick \/ Network

Spec == Init /\ [][Next]_vars

(* Fairness.  The README makes the application call aemlib_poll() in its   *)
(* loop, so every step of poll is eventually taken, on_message returns and *)
(* the clock advances.  An opening connection is eventually settled by the *)
(* network, one way or the other, and a byte in flight eventually arrives  *)
(* at a client that keeps reading.  Nothing obliges a dead link to take    *)
(* bytes: there a flush is only owed its failure.                          *)
\* aemlib_poll() may fail in client_flush_pending() for ever
FlushBlocked == tx_pending # <<>> /\ link \in {"down", "dead"}

FairPoll ==
    /\ Poll
    /\ pc \in {"idle", "entry"} /\ FlushBlocked => poll_status' = "IO" /\ pc' # "core"

ReadsData == client_read /\ inbox' # inbox

Fairness ==
    /\ WF_vars(FairPoll)
    /\ WF_vars(Tick)
    /\ WF_vars(LinkOpens \/ (link = "opening" /\ LinkDies))
    /\ SF_vars(ReadsData)

FairSpec == Spec /\ Fairness

-----------------------------------------------------------------------------
(* Safety *)

\* Types, and with them the bounds no memory access may break: staged and
\* buffered bytes fit their buffers, packet_id is a non-zero uint16_t.
TypeOK ==
    /\ state \in States
    /\ connect_sent \in BOOLEAN
    /\ tx_pending \in Seq(OutByte) /\ Len(tx_pending) <= TxSize
    /\ rx \in Seq(InByte) /\ Len(rx) <= RxSize
    /\ packet_id \in 1..(PidMod - 1)
    /\ age \in 0..AgeCap
    /\ pc \in PcPoints
    /\ packet_len \in Nat
    /\ poll_status \in Statuses
    /\ outer \in Seq(Nat)
    /\ link \in Links
    /\ inbox \in Seq(InByte)
    /\ sent \in Seq(InKinds)
    /\ frame \in Seq(OutByte)
    /\ in_sync \in BOOLEAN
    /\ heard \in OutTypes \cup {"nothing"}
    /\ connects \in 0..2
    /\ done \in Nat
    /\ delivered \in Seq(Nat)
    /\ damage \subseteq Damages

\* Partial writes never lose, repeat or reorder bytes: unless an API call
\* overwrote or dropped staged bytes, what the broker holds of the current
\* packet followed by what is staged is exactly one packet, or nothing, and
\* everything before it was whole packets (client_send, client_flush_pending).
StreamIntact ==
    damage \cap TxDamage = {} =>
        /\ in_sync
        /\ \/ frame \o tx_pending = <<>>
           \/ WholePacket(frame \o tx_pending)

\* The state machine and the transport agree: a DISCONNECTED client holds no
\* connection, save one on which it never sent CONNECT and that the transport
\* itself kept open when it reported a failed attempt, and the MQTT states are
\* entered only on an established one (every error path of
\* handle_state_mqtt_connect_sent closes the transport).
TransportHeld ==
    /\ state = "DISCONNECTED" => link = "down" \/ (ConnectKeeps /\ ~connect_sent)
    /\ state \in {"CONNECT_SENT", "CONNECTED", "DISCONNECTING"}
          => link \in {"up", "dead"}

\* A session is sound: the client is CONNECTED only on a connection whose
\* broker got CONNECT as its first packet, so a CONNACK left over from an
\* earlier connection never counts unless the transport itself brings it up
\* again, and CONNECT goes out once however many polls the CONNACK takes
\* (aemlib_connect, aemlib_poll).
SessionSound ==
    /\ state \in {"CONNECTED", "DISCONNECTING"} /\ damage \cap RxDamage = {}
          => heard = "CONNECT"
    /\ damage \cap TxDamage = {} => connects <= 1

\* A poll that returns OK on a connected client has handled every complete
\* packet it had, and left room to read the rest of the incomplete one
\* (client_read's loop).
DrainedAfterPoll ==
    pc = "idle" /\ poll_status = "OK" /\ state = "CONNECTED"
    /\ damage \cap RxDamage = {}
        => \A h \in decode_fixed_header(rx) : MustWait(h)

\* byte c comes right after byte b on this connection
Follows(b, c) ==
    IF b.i < InPacket(b.k).len
    THEN c = [b EXCEPT !.i = b.i + 1]
    ELSE c.n = b.n + 1 /\ c.i = 1 /\ c.n <= Len(sent) /\ c.k = sent[c.n]

\* the packets consumed, and the one being dispatched
Handled == done + (IF pc \in {"callback", "consume"} THEN 1 ELSE 0)

\* on_message got every PUBLISH handled so far, each once and in order
DeliveredInOrder ==
    /\ {delivered[a] : a \in 1..Len(delivered)} = {j \in 1..Handled : sent[j] = "PUBLISH"}
    /\ \A a, b \in 1..Len(delivered) : a < b => delivered[a] < delivered[b]

\* However the bytes of the inbound stream are split over reads and polls,
\* rx_buffer always starts at a packet boundary and goes on without a gap
\* into what is still in flight, nothing is missing while the link is up, and
\* on_message got every PUBLISH handled so far exactly once and in order
\* (client_read, and the CONNACK read of handle_state_mqtt_connect_sent).
InboundInOrder ==
    damage \cap RxDamage = {} =>
        LET s == rx \o inbox IN
        /\ s # <<>> => /\ s[1].n = done + 1 /\ s[1].i = 1
                       /\ s[1].k = sent[done + 1]
        /\ \A j \in 1..(Len(s) - 1) : Follows(s[j], s[j + 1])
        /\ link = "up" => IF s = <<>> THEN done = Len(sent)
                          ELSE /\ s[Len(s)].n = Len(sent)
                               /\ s[Len(s)].i = InPacket(s[Len(s)].k).len
        /\ OnMessage => DeliveredInOrder

\* client_read() never subtracts more than rx_len holds, unless aemlib_connect()
\* or aemlib_poll(), called from on_message, took the packet away under it;
\* whatever else on_message calls, and wherever parsing restarts after an
\* aemlib_connect() between polls, is harmless.
NoUnderflow == "rx_reentered" \notin damage => pc # "undefined"

-----------------------------------------------------------------------------
(* Refinement *)

Phase == CASE state = "DISCONNECTED"                   -> "closed"
           [] state \in {"CONNECTING", "CONNECT_SENT"} -> "connecting"
           [] state = "CONNECTED"                      -> "established"
           [] state = "DISCONNECTING"                  -> "closing"

Session ==
    INSTANCE MqttSession WITH
        Kinds <- InKinds, Connacks <- ConnackKinds, Accepting <- "CONNACK_OK",
        Message <- "PUBLISH",
        Skipped <- {"CONNACK_OK", "CONNACK_REFUSED", "CONNACK_SHORT",
                    "PINGRESP", "SUBACK"},
        phase <- Phase, greeted <- (heard = "CONNECT"), offered <- sent,
        misused <- (damage \cap RxDamage # {})

\* The client implements the session it promises: it is established only by
\* the acceptance of its own CONNECT, and PUBLISHes are handed to on_message in
\* order and without a gap, never past a packet that was refused, however many
\* polls, reads and reconnects that takes (aemlib_poll and all it calls).
ImplementsSession == Session!Spec

-----------------------------------------------------------------------------
(* Liveness, under FairSpec *)

\* A connection attempt, the wait for CONNACK and a disconnect all come to an
\* end, unless staged bytes cannot be written any more (aemlib_poll).
HandshakeSettles ==
    \A s \in {"CONNECTING", "CONNECT_SENT", "DISCONNECTING"} :
        state = s ~> (state # s \/ FlushBlocked)

\* A connected client that owes the broker a PINGREQ sends it, or its polls
\* report an error (aemlib_poll's keepalive).
KeepaliveOrError ==
    (state = "CONNECTED" /\ age >= KeepaliveInterval)
        ~> (age < KeepaliveInterval \/ state # "CONNECTED" \/ poll_status # "OK")

\* Inbound bytes are never stuck behind a full or half-parsed rx_buffer in
\* silence: they are read, the connection ends or dies, or polls report an
\* error (client_read).
InboundProgress ==
    (state = "CONNECTED" /\ inbox # <<>>)
        ~> (inbox = <<>> \/ state # "CONNECTED" \/ link # "up" \/ poll_status # "OK")

=============================================================================
