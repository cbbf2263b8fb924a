--------------------------- MODULE MCAemlibClient ---------------------------
(***************************************************************************)
(* AemlibClient for TLC, and what the comments and the README of the       *)
(* repository say of the client, taken at their word.  Each of these       *)
(* statements fails on the code; the properties of AemlibClient say what   *)
(* does hold.                                                              *)
(***************************************************************************)
EXTENDS AemlibClient

\* client.c:37: a partial write "is staged back at tx_buffer[0] and finished
\* later by client_flush_pending(), rather than silently dropping the
\* remainder"; aemlib.h:93: "new sends are refused until this fully flushes".
\* So the stream is always whole packets followed by the one in progress.
RemainderFinished ==
    /\ in_sync
    /\ frame \o tx_pending = <<>> \/ WholePacket(frame \o tx_pending)

\* README.md:18: "Connect handshake with real CONNACK wait + timeout".
ConnackWaitEnds == state = "CONNECT_SENT" ~> state # "CONNECT_SENT"

\* aemlib.h:96: rx_len is "Bytes currently buffered in rx_buffer awaiting a
\* complete packet", and the comment on the callback (aemlib.h:45) forbids no
\* call.  So client_read() never takes more off rx_len than it counts.
RxLenCounts == pc # "undefined"
=============================================================================
