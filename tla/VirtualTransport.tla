-------------------------- MODULE VirtualTransport --------------------------
(***************************************************************************)
(* The loopback transport (platform/virtual_transport.c): two endpoints    *)
(* and the two channels that pair_init() wires them to, driven by any      *)
(* sequence of transport calls on either endpoint.                         *)
(***************************************************************************)
EXTENDS Integers, Sequences

CONSTANTS
    BufSize,    \* size of each channel's storage
    Byte,       \* byte values
    MaxCall,    \* bound: bytes passed to or asked for in one call
    MaxSent     \* bound: bytes one endpoint gets through in a run

(* The channels divide by buf_size. *)
ASSUME VirtualAssumption == BufSize \in Nat \ {0} /\ MaxCall \in Nat

VARIABLES
    ab_buf, ab_head, ab_len,    \* the a_to_b channel
    ba_buf, ba_head, ba_len,    \* the b_to_a channel
    connected,                  \* vt->connected, for each endpoint
    out,                        \* what the last call reported
    \* history
    wrote,                      \* bytes each endpoint's writes were credited
    got                         \* bytes each endpoint's reads returned

ab   == <<ab_buf, ab_head, ab_len>>
ba   == <<ba_buf, ba_head, ba_len>>
hist == <<wrote, got>>
vars == <<ab, ba, connected, out, hist>>

AB == INSTANCE VirtualChannel WITH buf <- ab_buf, head <- ab_head, len <- ab_len
BA == INSTANCE VirtualChannel WITH buf <- ba_buf, head <- ba_head, len <- ba_len

Ends == {"a", "b"}

Peer(e) == IF e = "a" THEN "b" ELSE "a"

\* mutant: b is wired to read what it writes
rx_crossed(e) == "b_to_a"

\* aemlib_virtual_transport_pair_init()
tx(e) == IF e = "a" THEN "a_to_b" ELSE "b_to_a"
rx(e) == IF e = "a" THEN "b_to_a" ELSE "a_to_b"

\* channels just initialised and wired, both endpoints closed
Init ==
    /\ AB!Init
    /\ BA!Init
    /\ connected = [e \in Ends |-> FALSE]
    /\ wrote = [e \in Ends |-> <<>>]
    /\ got = [e \in Ends |-> <<>>]

vt_connect(e) ==
    /\ connected' = [connected EXCEPT ![e] = TRUE]
    /\ out' = AB!Result("OK", <<>>)
    /\ UNCHANGED <<ab, ba, hist>>

\* only this end's flag: the bytes in both channels stay
vt_disconnect(e) ==
    /\ connected' = [connected EXCEPT ![e] = FALSE]
    /\ out' = AB!Result("OK", <<>>)
    /\ UNCHANGED <<ab, ba, hist>>

\* a read or a write on an endpoint that is not connected
Closed ==
    /\ out' = AB!Result("CLOSED", <<>>)
    /\ UNCHANGED <<ab, ba, connected, hist>>

vt_read(e, room) ==
    \/ ~connected[e] /\ Closed
    \/ /\ connected[e]
       /\ \/ rx(e) = "a_to_b" /\ AB!channel_read(room) /\ UNCHANGED ba
          \/ rx(e) = "b_to_a" /\ BA!channel_read(room) /\ UNCHANGED ab
       /\ got' = [got EXCEPT ![e] = @ \o out'.bytes]
       /\ UNCHANGED <<connected, wrote>>

vt_write(e, data) ==
    \/ ~connected[e] /\ Closed
    \/ /\ connected[e]
       /\ Len(wrote[e]) + Len(data) <= MaxSent
       /\ \/ tx(e) = "a_to_b" /\ AB!channel_write(data) /\ UNCHANGED ba
          \/ tx(e) = "b_to_a" /\ BA!channel_write(data) /\ UNCHANGED ab
       /\ wrote' = [wrote EXCEPT ![e] = @ \o out'.bytes]
       /\ UNCHANGED <<connected, got>>

Next ==
    \E e \in Ends :
        \/ vt_connect(e)
        \/ vt_disconnect(e)
        \/ \E room \in 0..MaxCall : vt_read(e, room)
        \/ \E data \in AB!Calls : vt_write(e, data)

Spec == Init /\ [][Next]_vars

-----------------------------------------------------------------------------
\* what is on its way from e to its peer
InFlight(e) == IF e = "a" THEN AB!Contents ELSE BA!Contents

\* What one endpoint writes, the other reads: across short calls, full and
\* empty channels, and any pattern of connects and disconnects of the two
\* ends, the bytes credited to a writer are exactly those its peer has read
\* followed by those still in the channel between them (pair_init, vt_write,
\* vt_read).
Loopback == \A e \in Ends : wrote[e] = got[Peer(e)] \o InFlight(e)
=============================================================================
