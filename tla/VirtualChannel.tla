--------------------------- MODULE VirtualChannel ---------------------------
(***************************************************************************)
(* aemlib_virtual_channel_t (platform/virtual_transport.c): a ring buffer  *)
(* over storage the caller provides, indexed from zero as in the code.     *)
(***************************************************************************)
EXTENDS Integers, Sequences

CONSTANTS
    BufSize,    \* ch->buf_size
    Byte,       \* byte values
    MaxCall     \* bound: bytes passed to or asked for in one call

(* channel_write() and channel_read() divide by buf_size. *)
ASSUME BufSizeAssumption == BufSize \in Nat \ {0}
ASSUME MaxCallAssumption == MaxCall \in Nat

VARIABLES
    buf,        \* ch->buf[0 .. buf_size - 1]
    head,       \* ch->head
    len,        \* ch->len
    out         \* what the last call reported: status and bytes moved

channel == <<buf, head, len>>
vars    == <<channel, out>>

Index == 0..(BufSize - 1)

Smaller(a, b) == IF a < b THEN a ELSE b

Result(st, bytes) == [st |-> st, bytes |-> bytes]

Calls == UNION {[1..n -> Byte] : n \in 0..MaxCall}

\* aemlib_virtual_channel_init(): the storage holds whatever it held before
Init ==
    /\ buf \in [Index -> Byte]
    /\ head = 0
    /\ len = 0
    /\ out = Result("OK", <<>>)

\* the n bytes the ring holds from head on
Stored(n) == [i \in 1..n |-> buf[(head + i - 1) % BufSize]]

\* mutant: writing starts at the front of the storage
tail_at_front == len % BufSize

\* the slot behind the last byte
tail == (head + len) % BufSize

\* how far slot j lies behind the tail, going round
Distance(j) == IF j >= tail THEN j - tail ELSE j - tail + BufSize

\* mutant: the bytes already stored are not counted
whole_space == BufSize

space == BufSize - len

channel_write(data) ==
    LET n == Smaller(Len(data), space) IN
    /\ buf' = [j \in Index |-> IF Distance(j) < n THEN data[Distance(j) + 1]
                                                   ELSE buf[j]]
    /\ len' = len + n
    /\ out' = Result(IF n = 0 /\ Len(data) > 0 THEN "WOULD_BLOCK" ELSE "OK",
                     SubSeq(data, 1, n))
    /\ UNCHANGED head

channel_read(room) ==
    LET n == Smaller(room, len) IN
    /\ out' = Result("OK", Stored(n))
    /\ head' = (head + n) % BufSize
    /\ len' = len - n
    /\ UNCHANGED buf

Next == \/ \E data \in Calls : channel_write(data)
        \/ \E room \in 0..MaxCall : channel_read(room)

Spec == Init /\ [][Next]_vars

-----------------------------------------------------------------------------
\* the bounds of every access to the storage: head is a slot of it and no
\* more bytes are stored than there are slots
InStorage ==
    /\ buf \in [Index -> Byte]
    /\ head \in Index
    /\ len \in 0..BufSize

\* Types, and with them the bounds of every access to the storage
\* (channel_write, channel_read).
TypeOK ==
    /\ InStorage
    /\ out \in [st : {"OK", "WOULD_BLOCK"}, bytes : Seq(Byte)]

\* the bytes in the ring, oldest first
Contents == Stored(len)

Fifo == INSTANCE ByteFifo WITH Capacity <- BufSize, queue <- Contents

\* The ring buffer is a FIFO byte pipe: wherever head and tail have wrapped
\* to and however calls are cut short, every byte written comes out once and
\* in order (channel_write, channel_read).
ImplementsFifo == Fifo!Spec
=============================================================================
