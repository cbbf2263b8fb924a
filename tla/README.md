# aemlib: TLA+ models, model checking and proofs

aemlib is a small MQTT 3.1.1 client in C99: no allocation, buffers owned by the
caller, and everything driven by `aemlib_poll()`. This directory holds TLA+
modules translated from its source, the TLC configurations that check them, and
TLAPS proofs of the results that hold for every value of the parameters.

## 1. Inventory

| Component | State it keeps | Operations | Hard part |
|---|---|---|---|
| client (`core/client.c`) | `tx_pending_len`, `rx_len`, both buffers | `aemlib_connect/disconnect/publish/subscribe/poll`, `client_send`, `client_flush_pending`, `client_read`, `client_dispatch_packet`, `client_send_connect`, `client_send_ping` | short writes and reads, refused sends, packets split and coalesced, re-entry from `on_message`, keepalive |
| core (`core/core.c`) | `state`, `connect_sent`, `last_activity_ms`, `packet_id` | `aemlib_core_*`, one handler per state | many error paths that must each close the transport, CONNACK timeout, connecting over several polls |
| proto (`proto/proto.c`) | none | encoders, decoders, Remaining Length | lengths at their limits, incomplete input, work in a buffer that still holds older bytes |
| virtual transport (`platform/virtual_transport.c`) | ring buffers, `connected` flags | `channel_write/read`, `vt_connect/disconnect/read/write` | wrap-around, full and empty, reconnects |
| POSIX TCP transport (`examples/posix_tcp_transport.c`) | `fd`, `connecting` | the four transport functions | connect over several polls, descriptors over failed attempts, an error that is reported only once |
| pub/sub demo (`examples/pubsub_demo.c`) | `tick`, `subscribed`, `published`, broker buffer, subscription | `main`, `broker_tick`, `broker_process_packet` | coalesced packets, short writes, a bounded number of polls |
| storage seam, logging, status strings, smoke tests | - | - | not state the client depends on |

How they interact: the application calls the API between polls; `aemlib_poll()`
calls the flush, the core handler of the current state and then, in
`aemlib_poll()` itself, the CONNECT send or read/dispatch/keepalive. All I/O goes
through the transport's function pointers, time through `now_ms`. The only
callback is `on_message`, from the middle of `client_read()`'s loop, and it may
call the API. There are no threads: what interleaves is the network, the clock
and the broker with the outward calls of one poll, API calls between polls, and
API calls from `on_message`.

What makes it correct: outbound bytes are a sequence of whole packets, with CONNECT
in it at most once per connection; a connection counts as established only where
CONNECT was its first packet, and on the strength of its own CONNACK; inbound
packets are dispatched once, in order and completely; state
and transport agree; lengths stay inside the buffers; waits end; codec functions
are inverse to each other and stay inside the packet; the ring buffer is a FIFO;
a socket transport loses no descriptor and answers as the client expects.
The hazards behind these, each at its line, are in `PROJECT.json`.

## 2. Modules

| Module | Models |
|---|---|
| `Transport` | what the client may meet behind a transport's function pointers |
| `AemlibClient` | `client.c` over `core.c` on `Transport`, with clock, broker and user as environment |
| `MqttSession` | abstract specification: the session the client promises; `AemlibClient` implements it |
| `MCAemlibClient` | the module TLC runs; also what comments and the README of aemlib say of the client, taken at their word |
| `AemlibClientProofs` | theorems about `AemlibClient`: types, outbound stream, transport, `rx_len` |
| `AemlibSessionProofs` | theorems about what `AemlibClient` receives, and that it implements `MqttSession` |
| `MqttProto` | `proto.c` as operators on bytes, with the real constants |
| `MqttDecoder` | the decoders on a stream that arrives byte by byte |
| `MqttEncoder` | the encoders on one buffer that is used again and again |
| `MqttDecoderProofs`, `MqttEncoderProofs` | theorems about both, for every sequence of bytes and every buffer |
| `ByteFifo` | abstract specification: what a one-way byte pipe promises |
| `VirtualChannel` | the ring buffer, shown to implement `ByteFifo` |
| `VirtualChannelProofs` | that implementation, proved for every size |
| `VirtualTransport` | two endpoints over two `VirtualChannel` instances |
| `VirtualTransportProofs` | that the pair delivers, from two instances of `VirtualChannelProofs` |
| `TransportUse` | abstract specification: `Transport`, called in the order in which `core.c` and `client.c` call it |
| `PosixTcp` | `posix_tcp_transport.c` over a kernel, shown to implement `TransportUse` |
| `PosixTcpProofs` | theorems about `PosixTcp` |
| `PubSub` | `pubsub_demo.c`: `AemlibClient` and the demo's broker over the loopback pair |
| `PubSubProofs` | theorems about `PubSub`, and that it implements `AemlibClient` |

### AemlibClient

`aemlib_poll()` is cut into steps at its outward calls; `pc` names the point
reached (`idle` is between polls). Each handler is one action, or one per outcome
where a call is followed by a decision:

| Code | Action(s) |
|---|---|
| `client_flush_pending` | `client_flush_pending` |
| `handle_state_disconnected`, `_connecting`, `_mqtt_connected`, `_mqtt_disconnecting` | the action of that name |
| `handle_state_mqtt_connect_sent` | `connect_sent_read`, then `connack_wait`, `connack_error` or `connack_received` |
| `client_send_connect` and the `connect_sent` flag | `ConnectIfUnsent`, `client_send_connect` |
| `client_read` and its loop | `client_read`, then `parse_wait`, `parse_error`, or `client_dispatch_packet`, `on_message_returns`, `consume_packet` |
| keepalive of `aemlib_poll` | `client_keepalive` |
| API | `aemlib_connect` (client DISCONNECTED), `aemlib_connect_invalid` (any other state), `aemlib_disconnect`, `aemlib_publish`, `aemlib_subscribe` |
| `aemlib_poll()` called from `on_message` | `poll_from_callback`, then the actions of `Poll`, and `Return` back to the callback |

API calls that change nothing (NULL arguments, `qos # 0`, `aemlib_disconnect()` in
the wrong state) are not actions.

A nested poll works on the same buffers. `outer` is the stack of the `packet_len`
of the polls that wait inside `on_message`, at most `MaxNest` of them; the
nested poll starts at `entry` and its `Return` pops the stack.

Data abstraction:

* An outbound byte is a token "byte i of a packet of this type and length", so a
  stream can be recognised as whole packets. An encoder that runs over staged
  bytes overwrites the tokens (`EncodedOver`, `HalfEncodedOver`); `Slack` is how
  many of the four reserved Remaining Length bytes a packet of that length leaves
  over. `MqttEncoder`'s `Footprint` checks exactly this effect on real bytes.
* An inbound byte is a token "byte i of the n-th packet of the connection, of kind
  k"; `InPacket` says what the decoders make of each kind. A decoder that is not
  at a packet boundary (after `aemlib_connect()` emptied a live buffer, or behind
  what an earlier connection left in the transport) may find
  anything its result type allows (`AnyHeader`); that five bytes behind the first
  settle the header is `MqttDecoder`'s `HeaderSettles`.
* Time is `age = now - last_activity_ms`, saturated at the larger timeout.
* `link` is what transport calls meet: `down`, `opening`, `up`, `dead`. A write
  moves any prefix, a read any prefix of what has arrived; a read into a full
  buffer may look like a close, as `recv()` with length zero does. A dead link may
  go on taking bytes, or refuse them. Two constants of `Transport` say how
  a connection ends. With `ConnectKeeps` a failed connect may leave its socket
  open, as `tcp_poll_connect()` does when `poll()` fails: the client is then
  DISCONNECTED on an open link, and the next `aemlib_connect()` goes on with it
  (`SameConnection`). With `KeepsBytes` a disconnect leaves the inbound bytes where
  they are, and the broker its half packet, as `vt_disconnect()` does: the next
  connection starts behind them (`Stale`). Without them a failed connect and a
  disconnect leave the transport closed with nothing to read.
* The broker cuts its input into packets (`frame`, `in_sync`, `heard`,
  `connects`) and sends at most `MaxIn` packets per connection, a CONNACK only
  after a CONNECT.
* History: `done`, `delivered`, and `damage`, which records when an API call
  overwrote (`tx_overwritten`) or dropped (`tx_dropped`, `rx_dropped`) bytes still
  in a buffer, or re-entered `client_read()`'s buffer from `on_message`
  (`rx_reentered`: a nested poll, or `aemlib_connect()`), and when a connection
  started behind bytes of the one before (`rx_stale`, `tx_stale`).

`undefined` is the point where C gives no meaning to what follows
(`rx_len -= packet_len` below zero).

`MqttSession` has no buffers, polls or bytes. `Phase` maps the five states to four
(CONNECTING and CONNECT_SENT are one), `heard = "CONNECT"` is `greeted`, `sent` is
`offered`, and receive damage is `misused`: after that nothing is promised until
the next connection. `Resume` is an `aemlib_connect()` that goes on with a kept
socket; a broker may send on it while the client is DISCONNECTED, so `Offer` does
not look at the phase. An `aemlib_poll()` that dispatches two packets is two
`Deliver` steps; all its other steps stutter or end the session.

### Codec, ring buffer, loopback

`MqttProto` keeps the byte values. The loops over a Remaining Length are written
out over its positions (`Multiplier`, `rl_rounds`, `rl_value`) instead of
recursively, and `Encode` takes what a packet's body is after each field, so that
both can be proved about. Encoders return the whole buffer afterwards,
partial writes of failed calls included; a write past the end would show as a
longer buffer. `VirtualChannel` keeps the storage, `head` and `len`; `Contents` is
the refinement mapping to `ByteFifo`'s queue. `VirtualTransport` instantiates it
twice, as `pair_init()` wires it. `MqttEncoder`'s `Connect` takes
`keepalive_interval_ms` and converts it as `client_send_connect()` does.

### PosixTcp

State is the transport's `fd` and `connecting`, the kernel's view of the last
socket (`sock`, `so_error`, `queue`) with the owner of every descriptor, and of the
client only whether it is DISCONNECTED, CONNECTING or in a session, because that
decides which transport call may come next. Writes come at any time, as
`aemlib_publish()` does not look at the state. `out` is the last call with its
arguments and its result: it is what the refinement compares. The kernel and the
network are external: a connection opens, is refused, breaks with or without
received bytes, or is closed by the peer, at any time; a pending error is
reported once; descriptor numbers are reused by the rest of the program.
`PollMayFail` lets `poll()` report an error, after which the socket is kept
although the client is told that the attempt failed, and the next attempt goes on
with it; this is `Transport`'s `ConnectKeeps`. A closed socket keeps no bytes, so
`KeepsBytes` is FALSE.

### PubSub

The demo is one thread: `at` says where `main()` is, and the actions of
`AemlibClient` are taken only where `main()` calls them, restricted to what the
loopback answers (`vt_write` moves what fits, `vt_read` what is there, connecting
succeeds at once, the clock stands still). The channel to the client is
`AemlibClient`'s `inbox`, of limited size. The sizes of both channels and of the
broker's buffer are chosen in `DemoInit`. `vt_disconnect()` leaves bytes in the
channel (`KeepsBytes`), though none is ever read: the program ends with its only
connection.

The demo's broker is not the broker of `AemlibClient`: it answers as soon as a
packet is whole, and it drops what its channel does not take. `Adequate` says which
sizes carry the demo (the code's own, 256 and 512 bytes, do), and `RunsTheClient` that over these
it is an environment `AemlibClient` allows for, so that what is proved of the client
holds in the demo. Over smaller sizes `NothingDropped` still holds, as it is about
the other direction.

## 3. Runs

| Run | Question | Result |
|---|---|---|
| `client_outbound` | `TypeOK`, `StreamIntact`, `SessionSound` with every API call, short writes, too large packets, and a transport that keeps sockets and bytes | hold |
| `client_inbound` | `InboundInOrder`, `DrainedAfterPoll`, `SessionSound`, `TransportHeld`, `NoUnderflow`, `ImplementsSession` with all eleven kinds of inbound packet, cut in every way, a callback that publishes, disconnects or polls, and a transport that keeps the socket of a failed attempt | hold |
| `client_liveness` | `HandshakeSettles`, `KeepaliveOrError`, `InboundProgress` | hold |
| `mqtt_decoder` | `VerdictFinal`, `HeaderSettles`, `RemainingLengthInverse`, `PublishInsidePacket`, `OutcomeFinal` | hold |
| `mqtt_encoder` | `EncodesRequest`, `KeepaliveHonoured`, `Footprint` | hold |
| `virtual_channel` | `ImplementsFifo`, `TypeOK` | hold |
| `virtual_transport` | `Loopback` | holds |
| `posix_tcp` | `OneSocket`, `ImplementsTransport`, `AttemptSettles` | hold |
| `pubsub` | `NothingDropped` over 100 choices of sizes; over the adequate ones `RunsTheClient`, `NoPollFails`, `DemoSucceeds` | hold |

Statements of the repository that the code does not keep, one run each:

| Run | Statement | What happens |
|---|---|---|
| `claim_remainder` | a remainder is finished later (`client.c:37`, `aemlib.h:92`) | a send is encoded over the staged bytes before it is refused |
| `claim_connack_timeout` | the CONNACK wait has a timeout (`README.md:18`) | a flush that fails for ever comes before the timeout check |
| `claim_callback` | `rx_len` counts buffered bytes (`aemlib.h:96`) | `aemlib_connect()` or `aemlib_poll()` from `on_message` makes the subtraction underflow |

Met while modelling, and without a run of their own:

* a packet staged while the transport is still opening is overwritten by CONNECT,
  which is then flushed and later sent once more (`client.c:351`); `SessionSound`
  says CONNECT goes out once when no staged byte was damaged;
* a packet sent while the client is CONNECTING and the link has just come up goes out
  before CONNECT (`client.c:271` does not look at the state); such a connection does
  not get to CONNECTED with a broker that answers CONNECT only as the first packet,
  and that is all `SessionSound` says about first packets;
* bytes that outlive their connection (`virtual_transport.c:110`) are in front of
  what the next one receives, and in the middle of a packet they can read as
  anything, an accepting CONNACK included; `SessionSound`, `StreamIntact` and
  `MqttSession` except such a connection (`rx_stale`, `tx_stale`), and hold of the next
  one that starts clean;
* `aemlib_connect()` on a client that is not DISCONNECTED empties both buffers of the
  live connection and then reports STATE_INVALID (`client.c:256`); `NoUnderflow` and
  `TypeOK`, proved for every use of the API, say that what follows stays within the
  buffers;
* a packet the decoders refuse is never consumed and blocks the complete packets
  behind it, with every poll reporting the error (`client.c:191`); `MqttSession`
  says that nothing behind it is delivered, `InboundProgress` that this is not
  silent;
* a publish while a socket is connecting can use up the socket's error, after
  which the refused connection is reported established (`posix_tcp_transport.c:103`);
  the first read then fails, which `ImplementsTransport` shows to be within what
  the client expects of a transport;
* a keepalive interval between 1501 and 1999 ms, or above 65535999 ms,
  can announce less than two thirds of itself (`client.c:206`), so that a broker may hang up
  between pings; `KeepaliveHonoured` says that all others from 2 s on are safe;
* a disconnect closes the transport after one attempt to flush (`core.c:313`);
* `decode_connack()` reads position 3 also behind a fixed header of three bytes, which
  `decode_fixed_header()` accepts for a Remaining Length not in its shortest form
  (`proto.c:433`), and takes the acknowledge flags for the return code. No property
  covers it.

Bounds. Buffers of 4 to 6 bytes and packets of 2 to 6 make every relation of packet
to buffer occur (smaller, equal, larger, split at every byte, two in one read).
Packet lengths of `client_outbound` (2, 3 and 4 against a buffer of 6) give packets
that fit, that fit only without the reserved bytes (the SUBSCRIBE, which is refused
but uses up a packet id), and staged remainders longer and shorter than the packet
encoded over them. `MaxStale = 1` is one byte left over for the next connection: one
that does not start a packet already decodes as anything, the answer to CONNECT
included, and more of them add nothing to that. `PidMod = 3` makes the 16-bit
counter wrap within a run. Timeouts of one or two ticks make "not yet", "just now"
and "since" distinct. Three inbound packets are a CONNACK and two more, enough for
one to be behind another in the same buffer. The decoder's bytes are the values at
which a branch changes (0, 1, 3, 127, 128, 130) in up to seven bytes, one more than
the longest fixed header with a length that may still be reported incomplete. The
encoder's sizes are zero and those just below, at and above what each packet needs, and the
payloads put the Remaining Length on both sides of 128. One nested poll shows all a
second level could: it too finds a buffer in which its caller's packet is at the
front. Two descriptors let one be the transport's and one the program's, and each
take the number of the other. `PubSub`'s sizes lie below, at and above what one
packet, two packets and both answers need, down to the smallest channel that takes a
SUBSCRIBE; 20 ticks are the code's own. The encoder's topics
are short in the run and up to 65535 bytes long in the proof.

Fairness (`FairSpec`): the application calls `aemlib_poll()` again and again and
`on_message` returns (`WF` on `FairPoll`), as aemlib's README asks, where a
flush on a dead link is owed no more than its failure; the clock advances
(`WF` on `Tick`); an opening connection is settled by the network one way or the
other (`WF`); a byte in flight reaches a client that keeps reading (`SF` on
`ReadsData`). Nothing is assumed of the user, the broker, writes, or the life of
the link. `HandshakeSettles` excepts `FlushBlocked`, the case `claim_connack_timeout`
shows. The liveness formulas end a wait also when a poll reports an error: the
application then knows. CONNECTING has no timeout of its own in the code and ends
only because the link is assumed to settle. For sockets `AttemptSettles` reduces
that to the kernel: `PosixTcp` assumes that the client polls and that the kernel
opens a connection or gives up, as its limited SYN retransmission does. `PubSub`
assumes that its one thread runs.

## 4. Proofs

Every safety property of the runs above, action properties and refinements
included, is proved for every value of the constants. Each
theorem is an induction: the properties are strengthened until a step preserves
them, and what was added is named here. `TLAPS` checks every leaf.

**The client.** Constants as `TransportAssumption`, `SizesAssumption`, `TimesAssumption` and
`UserAssumption` allow (buffers and packets not empty, at least two packet ids).

* `TypeCorrect`: `Spec => []TypeOK`. Inductive as it stands; the argument is the
  bounds of reads and writes (`ReadBounds`, `WriteBounds`).
* `StreamCorrect`: `Spec => []StreamIntact`. Not inductive alone: a state whose
  `frame` holds a whole packet satisfies it, and a send would then start behind
  that packet. `StreamInv` adds `FrameOpen`, that the broker never sits on a whole
  packet. The core is `TransmitMoves`: cutting `frame \o staged` anywhere and
  moving the first part over leaves the same packet, or none.
* `TransportCorrect`: `Spec => []TransportHeld`. `TransportInv` adds that the points
  `connack` and `send_connect` are reached in `CONNECT_SENT` only, because the
  connection might otherwise be declared established from a state without a link,
  and that CONNECTING precedes CONNECT, so that a socket kept over a failed attempt
  is one on which the broker was never introduced to the client.
* `NoUnderflowCorrect`: `Spec => []NoUnderflow`, with no restriction on what
  `on_message` calls: the property excepts the connections on which it called
  `aemlib_connect()` or `aemlib_poll()`, for which `claim_callback` is the
  counterexample. `ReadInv` adds that otherwise the packet being dispatched stays
  in `rx`, that no poll is suspended, and that the client is CONNECTED or
  DISCONNECTING while `client_read()` runs, so a callback cannot start a
  connection.
* `InboundCorrect`: `Spec => []InboundInOrder`. `InboundInv` is about the stream
  `rx \o inbox`. It adds that a closed transport holds nothing, unless `KeepsBytes`,
  and that the packet
  being dispatched is the first of `rx`, whole. `Contiguous` states "no gap" as a
  distance: the byte `m` places behind byte `i` of a packet is byte `i + m` of it,
  as far as the packet goes. The property itself relates neighbours only, and
  finding the end of a packet from that would be an induction over data.
  `DeliveredInOrder` says in a quantified form what a filtered sequence would say
  recursively.
* `DrainCorrect`: `Spec => []DrainedAfterPoll`. `DrainInv` moves the claim to the
  points before the poll returns: the loop's exit and the keepalive.
* `SessionCorrect`: `Spec => []SessionSound`. `SessionInv` adds that a client that
  waits for its CONNACK has consumed nothing of this connection; with `Answers`
  (the broker sends a CONNACK as an answer only) the CONNACK it finds is its own.
  The same is claimed of a DISCONNECTED client whose failed attempt was `Kept`,
  because the next attempt inherits its stream; that needs `Unintroduced`: until
  CONNECT_SENT no byte of a CONNECT is staged or heard on such a connection.
  For "CONNECT goes out once", `ConnectInv` counts the CONNECT that is staged or
  half sent together with those the broker has: `connects <= 1` alone does not see
  the one on its way.
* `ImplementsSessionCorrect`: `Spec => ImplementsSession`. Every action is one step
  of `MqttSession` or a stutter. `NothingRefused` is what `Deliver` needs: between
  the last packet handed over and the next one lies nothing the client had to
  refuse.

**The codec.** For every sequence of bytes (`WireAssumption`), every buffer below
2 GiB and every topic whose length fits its prefix (`EncoderAssumption`; a longer
topic is a hazard listed in `PROJECT.json`, and 2 GiB keep `rl_rounds` within its
five positions).

* `HeaderSettlesCorrect`, `LengthInverseCorrect`, `VerdictFinalCorrect`,
  `PublishInsideCorrect`, `OutcomeFinalCorrect`: the five properties of `MqttDecoder`,
  of which `VerdictFinal` and `OutcomeFinal` are action properties. Only `BufOK`, that octets arrive,
  is carried from state to state; the rest is lemmas on operators. `LengthRead` and
  `EncodedBytes` say what a Remaining Length looks like on both sides, `Digits` that
  a number is the sum of its digits to the base 128, `DecodesItsLength` and
  `ShortestLength` follow, and `LengthFinal` says that bytes behind it do not matter.
* `EncodesRequestCorrect`, `KeepaliveCorrect`, `FootprintCorrect`: the three
  properties of `MqttEncoder`. `WrittenInside` says what one write does to the
  buffer, `EncodeEffect` composes header byte, fields behind the reserved bytes,
  the move and the Remaining Length, and `PacketRead` is where encoder meets
  decoder: it uses `MqttDecoderProofs` through an instance (`Wire`). `Parted` then
  takes the body apart field by field. The invariant is `BufOK`, `ReqOK` and
  `EncodesRequest`; `KeepaliveHonoured` follows from it by arithmetic.

**Transports.**

* `VirtualChannelProofs`, for every `BufSize > 0`, `Byte` and `MaxCall`: `TypeCorrect`
  and `FifoCorrect`, `Spec => ImplementsFifo`. Every index is below `2 * BufSize`, so
  `%` is one conditional subtraction (`ModWrap`); `SlotDistance` then says which slots
  a write reaches, `Shift` what moving `head` does to the others. The lemmas assume
  `InStorage` (buffer, `head` and `len`, without the reported result), so they hold
  of each channel of a pair.
* `VirtualTransportProofs`: `LoopbackCorrect`, `Spec => []Loopback`, from `WriteAppends`
  and `ReadTakes` of the two channels and `PairInv`, the bounds of both.
* `PosixTcpProofs`, for every set of descriptors (`PosixAssumption`):
  `OneSocketCorrect`, `Spec => []OneSocket`, where `SocketInv` adds that outside a
  session a transport that is not `connecting` holds no socket, without which the
  next attempt could overwrite an open one; and `ImplementsTransportCorrect`,
  `Spec => ImplementsTransport`, where `KernelInv` adds that the kernel has a socket
  exactly while `t->fd` names one, nothing received on it before the handshake and
  an error only when it is broken.

**The demo.** For every choice of sizes, packet lengths and number of ticks that
`DemoAssumption` allows: a channel takes a SUBSCRIBE, each packet fits `tx_buffer`
with its reserved bytes, the echo is as long as the PUBLISH.

* `NothingDroppedCorrect`: `DemoSpec => []NothingDropped`. `DemoInv` lists in
  `Outbound` which packets were asked for and which the broker has processed, with
  `Line`, the bytes between the two, always whole packets: `NothingDropped` alone
  does not say where in the stream the broker is. That a PUBLISH never meets a
  staged SUBSCRIBE needs `Control` (where `main()` and the client are) and `Replies`
  (the broker has answered exactly what it has processed, so a client that is
  CONNECTED has an empty line). `FlattenOne`, `FlattenTwo` and `FlattenThree` say what
  the recursive `FlattenSeq` is on the at most three packets of a run, by showing
  the function it defines, so no induction over data is needed.
* `RunsTheClientCorrect`: `DemoSpec => RunsTheClient`, and `NoPollFailsCorrect`:
  `DemoSpec => []NoPollFails`. Both carry `Served`: over adequate sizes `InboundInv`
  holds in the demo too and the last poll returned OK. The two depend on each other:
  that answers arrive whole needs room in the channel, which needs the client to
  have consumed the earlier ones (`LittleInFlight`), which needs that no poll has
  failed. `Hears` ties the broker of `AemlibClient`, which cuts packets on its own, to
  the demo's: a CONNACK answers a CONNECT both have seen.
* `DemoImplementsClient`: over adequate sizes `DemoSpec` implements `AemlibClient`'s
  `Spec`, and `InboundInOrder` and `ImplementsSession` with it.

Only model-checked:

* liveness (`HandshakeSettles`, `KeepaliveOrError`, `InboundProgress`,
  `AttemptSettles`, `DemoSucceeds`): fairness and `ENABLED` are beyond the prover.
  For the demo this leaves that it comes to its end within 20 ticks; that it does
  not end with a failed poll is proved;
* the three `claim_` runs, which are counterexamples.

## 5. Not modelled

* A clock that runs backwards, and the wrap of 64-bit milliseconds.
* `mqtt_broker_demo.c`, which is the loop of `pubsub_demo.c` over sockets, until a
  deadline and against a public broker that owes no answer, and `smoke_test.c`, which
  prints the results of single calls: their calls are actions of `AemlibClient`.
  Logging (compiled out in the default configuration:
  both sides of the comparison at `log.c:42` are identifiers the preprocessor takes
  for 0), status strings, the storage seam (never called),
  argument checks, the `validate` functions and the build.

## 6. Plan

Done: the client with its core, nested polls and the session it promises; the
codec; the ring buffer and the loopback pair; the socket transport; the demo; and
the theorems above. Left:

1. The client over `PosixTcp` in one module, as `PubSub` does over the loopback pair;
   until then `TransportUse` is what the two have in common.
