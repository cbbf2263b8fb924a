------------------------------- MODULE PubSub -------------------------------
(***************************************************************************)
(* The publish/subscribe demo (examples/pubsub_demo.c): one thread runs    *)
(* the client of AemlibClient and a small broker in turn, joined by the    *)
(* loopback pair of VirtualTransport.  c2b is the channel to the broker;   *)
(* the one back is AemlibClient's inbox.  Both are FIFO byte pipes of      *)
(* limited size (ByteFifo), and the demo's clock stands still.             *)
(***************************************************************************)
EXTENDS AemlibClient, SequencesExt

CONSTANTS
    C2bSizes,   \* sizes of chan_c2b to try
    B2cSizes,   \* sizes of chan_b2c to try
    BufSizes,   \* sizes of the broker's buf to try
    PublishLen, \* encoded length of the demo's PUBLISH
    MaxTicks    \* 20 in the code

(* Into a channel that cannot take a whole SUBSCRIBE the demo's PUBLISH    *)
(* would be encoded over what is staged of it (run claim_remainder); the   *)
(* demo's 512 bytes are far from that.                                     *)
ASSUME DemoAssumption ==
    /\ C2bSizes \cup B2cSizes \cup BufSizes \subseteq Nat
    /\ \A n \in C2bSizes : n >= SubscribeLen
    /\ {PublishLen} = PublishLens
    /\ PublishLen = InPacket("PUBLISH").len
    /\ \A n \in {ConnectLen, SubscribeLen, PublishLen} : n >= 2 /\ n + Slack(n) <= TxSize
    /\ KeepsBytes /\ ~ConnectKeeps
    /\ ConnackTimeout > 0 /\ KeepaliveInterval > 0
    /\ {"connect", "subscribe", "publish", "disconnect"} \subseteq AppCalls
    /\ {"CONNACK_OK", "SUBACK", "PUBLISH"} \subseteq InKinds
    /\ MaxIn >= 3

VARIABLES
    at,                 \* where main() is
    tick,
    subscribed,
    published,
    c2b,                \* bytes in chan_c2b
    buf,                \* broker_tick()'s buffer
    broker_subscribed,
    size,               \* of the two channels and of buf
    seen                \* packets broker_process_packet() was called with

main_vars   == <<at, tick, subscribed, published>>
broker_vars == <<buf, broker_subscribed, seen>>
demo        == <<vars, main_vars, c2b, broker_vars, size>>

\* what on_message() sets
received == delivered # <<>>

-----------------------------------------------------------------------------
(* The client over its end of the pair *)

Fewer(a, b) == IF a < b THEN a ELSE b

\* vt_write(): as much of b as the channel has room for; the rest is staged
vt_write(b) ==
    LET n == Fewer(Len(b), size.c2b - Len(c2b)) IN
    /\ c2b' = c2b \o Taken(b, n)
    /\ tx_pending' = Remaining(b, n)

\* client_send() does not get to the transport while bytes are staged
Sends(p) == IF tx_pending = <<>> THEN vt_write(Bytes(p)) ELSE UNCHANGED c2b

\* vt_read(): whatever there is and fits, and WOULD_BLOCK for nothing
vt_read ==
    /\ rx' = rx \o Taken(inbox, Fewer(RxRoom, Len(inbox)))
    /\ pc' \in {"connack", "parse"}

\* one step of aemlib_poll(), as the loopback answers it
PollStep ==
    /\ Poll
    /\ pc = "core" /\ state = "CONNECTING" => link' = "up"
    /\ pc = "read" \/ (pc = "core" /\ state = "CONNECT_SENT") => vt_read
    /\ CASE pc = "idle"         -> vt_write(tx_pending)
         [] pc = "send_connect" -> Sends(Packet("CONNECT", ConnectLen))
         [] OTHER               -> UNCHANGED c2b

-----------------------------------------------------------------------------
(* main() *)

start ==
    /\ at = "start"
    /\ aemlib_connect
    /\ at' = "poll"
    /\ UNCHANGED <<tick, subscribed, published, c2b, broker_vars, size>>

\* the loop gives up on the first error
poll ==
    /\ at = "poll"
    /\ PollStep
    /\ at' = CASE pc' # "idle"                          -> "poll"
               [] pc' = "idle" /\ poll_status' = "OK"   -> "broker"
               [] pc' = "idle" /\ poll_status' # "OK"   -> "failed"
    /\ UNCHANGED <<tick, subscribed, published, broker_vars, size>>

subscribe ==
    /\ at = "subscribe"
    /\ at' = "publish"
    /\ \/ /\ state = "CONNECTED" /\ ~subscribed
          /\ aemlib_subscribe
          /\ Sends(Packet("SUBSCRIBE", SubscribeLen))
          /\ subscribed' = TRUE
       \/ /\ state # "CONNECTED" \/ subscribed
          /\ UNCHANGED <<vars, c2b, subscribed>>
    /\ UNCHANGED <<tick, published, broker_vars, size>>

\* mutant: the subscription is not waited for
ConnectedIsEnough == state # "DISCONNECTED" /\ ~published

MayPublish == subscribed /\ ~published

\* and round the loop
publish ==
    /\ at = "publish"
    /\ tick' = tick + 1
    /\ at' = IF tick' < MaxTicks /\ ~received THEN "poll" ELSE "disconnect"
    /\ \/ /\ MayPublish
          /\ aemlib_publish
          /\ Sends(Packet("PUBLISH", PublishLen))
          /\ published' = TRUE
       \/ /\ ~MayPublish
          /\ UNCHANGED <<vars, c2b, published>>
    /\ UNCHANGED <<subscribed, broker_vars, size>>

\* STATE_INVALID unless connected, which main() does not look at
disconnect ==
    /\ at = "disconnect"
    /\ at' = "last_poll"
    /\ IF state = "CONNECTED" THEN aemlib_disconnect ELSE UNCHANGED vars
    /\ UNCHANGED <<tick, subscribed, published, c2b, broker_vars, size>>

last_poll ==
    /\ at = "last_poll"
    /\ PollStep
    /\ at' = CASE pc' # "idle"              -> "last_poll"
               [] pc' = "idle" /\ received  -> "succeeded"
               [] pc' = "idle" /\ ~received -> "failed"
    /\ UNCHANGED <<tick, subscribed, published, broker_vars, size>>

-----------------------------------------------------------------------------
(* The broker *)

\* broker_tick(), up to its loop
broker_tick ==
    /\ at = "broker"
    /\ LET n == Fewer(Len(c2b), size.buf - Len(buf)) IN
          /\ buf' = buf \o Taken(c2b, n)
          /\ c2b' = Remaining(c2b, n)
    /\ at' = "broker_loop"
    /\ UNCHANGED <<vars, tick, subscribed, published, broker_subscribed, seen,
                   size>>

\* mutant: packet_len is not compared with buf_len
HeaderOnly == Len(buf) >= 2

\* a fixed header and all it announces
Complete == Len(buf) >= 2 /\ Len(buf) >= buf[1].n

\* the answer to a packet: a PUBLISH is echoed to whoever has subscribed
Answer(type) == CASE type = "CONNECT"   -> <<"CONNACK_OK">>
                  [] type = "SUBSCRIBE" -> <<"SUBACK">>
                  [] type = "PUBLISH" /\ broker_subscribed -> <<"PUBLISH">>
                  [] OTHER              -> <<>>

\* what does not fit the channel is dropped: written is not looked at
Answered(kinds) ==
    LET b == IF kinds = <<>> THEN <<>> ELSE InBytes(kinds[1], Len(sent) + 1)
        n == Fewer(Len(b), size.b2c - Len(inbox))
    IN  /\ sent' = sent \o kinds
        /\ inbox' = inbox \o Taken(b, n)

\* mutant: what arrived together with a packet is dropped with it
EmptyBuffer(n) == <<>>

BehindPacket(n) == Remaining(buf, n)

broker_process_packet ==
    /\ at = "broker_loop"
    /\ Complete
    /\ LET type == buf[1].t IN
          /\ Answered(Answer(type))
          /\ broker_subscribed' = (broker_subscribed \/ type = "SUBSCRIBE")
          /\ seen' = Append(seen, Packet(type, buf[1].n))
    /\ buf' = BehindPacket(buf[1].n)
    /\ UNCHANGED <<client, call, broker, link, hist, main_vars, c2b, size>>

broker_tick_returns ==
    /\ at = "broker_loop"
    /\ ~Complete
    /\ at' = "subscribe"
    /\ UNCHANGED <<vars, tick, subscribed, published, c2b, broker_vars, size>>

-----------------------------------------------------------------------------
DemoInit ==
    /\ Init
    /\ at = "start" /\ tick = 0 /\ subscribed = FALSE /\ published = FALSE
    /\ c2b = <<>>
    /\ buf = <<>> /\ broker_subscribed = FALSE /\ seen = <<>>
    /\ size \in [c2b : C2bSizes, b2c : B2cSizes, buf : BufSizes]

DemoNext ==
    \/ start
    \/ poll
    \/ broker_tick
    \/ broker_process_packet
    \/ broker_tick_returns
    \/ subscribe
    \/ publish
    \/ disconnect
    \/ last_poll

\* one thread, which runs until main() returns
DemoSpec == DemoInit /\ [][DemoNext]_demo /\ WF_demo(DemoNext)

-----------------------------------------------------------------------------
requested ==
    (IF connect_sent THEN <<Packet("CONNECT", ConnectLen)>> ELSE <<>>)
    \o (IF subscribed THEN <<Packet("SUBSCRIBE", SubscribeLen)>> ELSE <<>>)
    \o (IF published THEN <<Packet("PUBLISH", PublishLen)>> ELSE <<>>)

BytesOf(packets) == FlattenSeq([j \in 1..Len(packets) |-> Bytes(packets[j])])

\* Packets that reach the broker coalesced or in pieces are never dropped,
\* repeated or reordered: what it has processed, what it has buffered, what is
\* in the channel and what the client has staged are together the requests of
\* main(), byte for byte, whatever the sizes (broker_tick, and client_send and
\* client_flush_pending on the other side).
NothingDropped == BytesOf(seen) \o buf \o c2b \o tx_pending = BytesOf(requested)

\* the sizes that carry the demo: broker and client can hold the largest packet
\* they get, and SUBACK and the echo fit the way back, as the client may not
\* read in between
Adequate ==
    /\ \A n \in {ConnectLen, SubscribeLen, PublishLen} : n <= size.buf
    /\ InPacket("SUBACK").len <= RxSize
    /\ size.b2c >= InPacket("SUBACK").len + PublishLen

\* The demo's broker over the loopback is an environment AemlibClient allows for:
\* although it answers into a channel without looking at what was written, and
\* answers as soon as a packet is whole, every step of the demo is a step of the
\* client's specification, so that what holds of the client holds of the client
\* in the demo (broker_tick, broker_process_packet).
RunsTheClient == [][Adequate => Next]_vars

\* No poll of the demo ever fails: the stream back is never cut or out of step,
\* and neither the CONNACK wait nor the keepalive ends it (main).
NoPollFails == Adequate => poll_status = "OK"

\* The demo comes to its good end: over any adequate channels the handshake,
\* the subscription and the echo are done within its ticks and no poll fails,
\* although the broker answers into a channel without looking at what was
\* written (main, broker_process_packet).
DemoSucceeds == Adequate => <>(at = "succeeded")
=============================================================================
