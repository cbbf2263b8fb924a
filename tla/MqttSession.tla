----------------------------- MODULE MqttSession -----------------------------
(***************************************************************************)
(* What the client promises its application, without buffers, polls or     *)
(* bytes: a session is established by the acceptance of its own CONNECT,   *)
(* and the messages of the broker are handed over one by one, in order and *)
(* without a gap, as long as the session lasts.  AemlibClient implements   *)
(* this.                                                                   *)
(***************************************************************************)
EXTENDS Naturals, Sequences

CONSTANTS
    Kinds,      \* what the broker may send
    Connacks,   \* those of them that answer a CONNECT
    Accepting,  \* the CONNACK that accepts
    Message,    \* the packet that is handed to the application
    Skipped     \* packets the client passes over in silence

VARIABLES
    phase,      \* where the session is in its life
    greeted,    \* the broker got CONNECT, as the first packet
    offered,    \* what the broker sent in this session
    delivered,  \* positions in offered of what the application got
    misused     \* the receive buffer was taken from under the client, or holds
                \* what an earlier session left behind

vars == <<phase, greeted, offered, delivered, misused>>

Init ==
    /\ phase = "closed"
    /\ greeted = FALSE
    /\ offered = <<>>
    /\ delivered = <<>>
    /\ misused = FALSE

\* the application asks for a connection
Start ==
    /\ phase = "closed"
    /\ phase' = "connecting"
    /\ greeted' = FALSE
    /\ offered' = <<>>
    /\ delivered' = <<>>
    /\ misused' = FALSE

\* the application asks again, and the transport goes on with the connection
\* of an attempt that failed before CONNECT was sent
Resume ==
    /\ phase = "closed"
    /\ ~greeted /\ delivered = <<>>
    /\ phase' = "connecting"
    /\ UNCHANGED <<greeted, offered, delivered, misused>>

Greet ==
    /\ phase = "connecting"
    /\ greeted' = TRUE
    /\ UNCHANGED <<phase, offered, delivered, misused>>

Offer(kind) ==
    /\ kind \in Connacks => greeted
    /\ offered' = Append(offered, kind)
    /\ UNCHANGED <<phase, greeted, delivered, misused>>

\* the first packet of the session accepts a CONNECT the broker really got
Accept ==
    /\ phase = "connecting"
    /\ greeted
    /\ offered # <<>> /\ offered[1] = Accepting
    /\ phase' = "established"
    /\ UNCHANGED <<greeted, offered, delivered, misused>>

\* position of the last packet that was handed over; 1 is the CONNACK
Last == IF delivered = <<>> THEN 1 ELSE delivered[Len(delivered)]

\* the next message, with nothing before it that the client had to refuse
Deliver(n) ==
    /\ phase \in {"established", "closing"}
    /\ n > Last
    /\ offered[n] = Message
    /\ \A j \in (Last + 1)..(n - 1) : offered[j] \in Skipped
    /\ delivered' = Append(delivered, n)
    /\ UNCHANGED <<phase, greeted, offered, misused>>

\* the application asks for the end, and may still get what has arrived
Leave ==
    /\ phase = "established"
    /\ phase' = "closing"
    /\ UNCHANGED <<greeted, offered, delivered, misused>>

\* the end, asked for or not
End ==
    /\ phase # "closed"
    /\ phase' = "closed"
    /\ UNCHANGED <<greeted, offered, delivered, misused>>

\* nothing is promised once the buffer was dropped or read again from inside
\* on_message, or where bytes of an earlier session come first, until the next
\* session
Misuse == misused' = TRUE

Next ==
    \/ Start
    \/ Resume
    \/ Greet
    \/ \E kind \in Kinds : Offer(kind)
    \/ Accept
    \/ \E n \in DOMAIN offered : Deliver(n)
    \/ Leave
    \/ End
    \/ Misuse

Spec == Init /\ [][Next]_vars
=============================================================================
