---------------------------- MODULE TransportUse ----------------------------
(***************************************************************************)
(* A transport as core.c and client.c use one: which calls they make when, *)
(* and what they may get back (module Transport).  This is the view of its *)
(* transport that AemlibClient has, with everything else taken away.       *)
(***************************************************************************)
EXTENDS Transport

CONSTANTS
    Bytes,      \* what may arrive at one go: sequences of bytes
    MaxCall     \* bound: bytes passed to or asked for in one call

VARIABLES
    user,       \* state of the client, as far as transport calls depend on it
    out         \* the last call: its name, its length, its result

vars == <<link, inbox, user, out>>

\* SESSION is CONNECT_SENT, CONNECTED and DISCONNECTING
Users == {"DISCONNECTED", "CONNECTING", "SESSION"}

Init ==
    /\ link = "down" /\ inbox = <<>>
    /\ user = "DISCONNECTED" /\ out = <<"none", 0, Moved(0)>>

\* aemlib_core_connect()
StartConnecting ==
    /\ user = "DISCONNECTED"
    /\ user' = "CONNECTING"
    /\ UNCHANGED <<link, inbox, out>>

\* what handle_state_connecting() makes of the result
Connected(st) ==
    /\ out' = <<"connect", 0, IF st = "IO" THEN Failed ELSE Moved(0)>>
    /\ user' = CASE st = "OK"          -> "SESSION"
                 [] st = "WOULD_BLOCK" -> "CONNECTING"
                 [] st = "IO"          -> "DISCONNECTED"

Connect ==
    /\ user = "CONNECTING"
    /\ \E r \in transport_connect :
          /\ link' = r[1]
          /\ inbox' = IF r[1] = "down" THEN LeftBehind ELSE inbox
          /\ Connected(r[2])

Read(room) ==
    /\ user = "SESSION"
    /\ \E r \in transport_read(room) :
          /\ out' = <<"read", room, r>>
          /\ inbox' = Remaining(inbox, r.n)
    /\ UNCHANGED <<link, user>>

\* aemlib_publish() and aemlib_subscribe() do not look at the state
Write(len) ==
    /\ \E w \in transport_write(len) : out' = <<"write", len, w>>
    /\ UNCHANGED <<link, inbox, user>>

HangUp ==
    /\ user = "SESSION"
    /\ transport_disconnect
    /\ user' = "DISCONNECTED"
    /\ out' = <<"disconnect", 0, Moved(0)>>

Network ==
    /\ \/ Opens
       \/ Dies
       \/ link = "up" /\ link' = "up" /\ \E b \in Bytes : inbox' = inbox \o b
    /\ UNCHANGED <<user, out>>

Next ==
    \/ StartConnecting
    \/ Connect
    \/ \E room \in 0..MaxCall : Read(room)
    \/ \E len \in 0..MaxCall : Write(len)
    \/ HangUp
    \/ Network

Spec == Init /\ [][Next]_vars
=============================================================================
