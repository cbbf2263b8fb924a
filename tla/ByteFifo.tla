------------------------------ MODULE ByteFifo ------------------------------
(***************************************************************************)
(* What a single-direction byte pipe promises: bytes come out in the order *)
(* they went in, none lost and none twice; a call may move fewer bytes     *)
(* than asked for, but moves none only when the pipe is full or empty.     *)
(***************************************************************************)
EXTENDS Integers, Sequences

CONSTANTS
    Capacity,   \* bytes the pipe can hold
    Byte,       \* byte values
    MaxCall     \* bound: bytes passed to or asked for in one call

VARIABLES
    queue,      \* bytes written and not yet read, oldest first
    out         \* what the last call reported: status and bytes moved

Result(st, bytes) == [st |-> st, bytes |-> bytes]

Calls == UNION {[1..n -> Byte] : n \in 0..MaxCall}

Init == queue = <<>> /\ out = Result("OK", <<>>)

Write(data) ==
    \E n \in 0..Len(data) :
        /\ n <= Capacity - Len(queue)
        /\ n = 0 /\ data # <<>> => Len(queue) = Capacity
        /\ queue' = queue \o SubSeq(data, 1, n)
        /\ out' = Result(IF n = 0 /\ data # <<>> THEN "WOULD_BLOCK" ELSE "OK",
                         SubSeq(data, 1, n))

Read(room) ==
    \E n \in 0..room :
        /\ n <= Len(queue)
        /\ n = 0 /\ room > 0 => queue = <<>>
        /\ queue' = SubSeq(queue, n + 1, Len(queue))
        /\ out' = Result("OK", SubSeq(queue, 1, n))

Next == \/ \E data \in Calls : Write(data)
        \/ \E room \in 0..MaxCall : Read(room)

Spec == Init /\ [][Next]_<<queue, out>>
=============================================================================
