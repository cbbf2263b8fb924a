------------------------------ MODULE Transport ------------------------------
(***************************************************************************)
(* What the client may meet behind the function pointers of an             *)
(* aemlib_transport_t: the results its connect, read, write and disconnect *)
(* may give, by the condition of the connection underneath.  AemlibClient  *)
(* makes these calls; PosixTcp is shown to answer them in this way.        *)
(***************************************************************************)
EXTENDS Integers, Sequences

CONSTANTS
    ConnectKeeps,   \* TRUE iff a failed connect() may leave its socket open
    KeepsBytes      \* TRUE iff inbound bytes outlive their connection

(* The socket transport keeps its socket when poll() fails, and the        *)
(* loopback pair its bytes in a disconnect().                              *)
ASSUME TransportAssumption == ConnectKeeps \in BOOLEAN /\ KeepsBytes \in BOOLEAN

VARIABLES
    link,           \* what transport calls meet
    inbox           \* bytes on their way to the client that it has not read

Links == {"down", "opening", "up", "dead"}

-----------------------------------------------------------------------------
(* Byte sequences *)

Taken(s, n) == SubSeq(s, 1, n)

\* mutant: a short write counts as a full one (the AEM-6 bug)
NothingRemaining(s, n) == <<>>

\* what memmove() leaves at the front of a buffer once n bytes are gone
Remaining(s, n) == SubSeq(s, n + 1, Len(s))

-----------------------------------------------------------------------------
(* The calls.  A hard error is ok = FALSE; WOULD_BLOCK and a count of zero *)
(* mean the same to every caller.                                          *)

Failed == [ok |-> FALSE, n |-> 0]

Moved(n) == [ok |-> TRUE, n |-> n]

\* what is left to read once the connection is closed
LeftBehind == IF KeepsBytes THEN inbox ELSE <<>>

\* What t->connect() makes of the link, and what it returns.  A failed
\* attempt closes the transport, or keeps it as it was.
transport_connect ==
    (CASE link = "down"    -> {<<"up", "OK">>, <<"opening", "WOULD_BLOCK">>, <<"down", "IO">>}
       [] link = "opening" -> {<<"opening", "WOULD_BLOCK">>}
       [] link = "up"      -> {<<"up", "OK">>}
       [] link = "dead"    -> {<<"dead", "OK">>, <<"down", "IO">>})
    \cup (IF ConnectKeeps THEN {<<link, "IO">>} ELSE {})

\* A connection the peer has closed may go on taking bytes for a while.
transport_write(len) ==
    CASE link = "up"      -> {Moved(n) : n \in 0..len}
      [] link = "dead"    -> {Moved(n) : n \in 0..len} \cup {Failed}
      [] link = "opening" -> {Moved(0)}
      [] link = "down"    -> {Failed}

\* Bytes already received survive a dead link.  recv() into a full buffer
\* asks for zero bytes, and a result of zero is taken for the peer's close.
transport_read(room) ==
    LET arrived == 0..(IF room < Len(inbox) THEN room ELSE Len(inbox)) IN
    CASE link = "up"      -> {Moved(n) : n \in arrived}
                             \cup (IF room = 0 THEN {Failed} ELSE {})
      [] link = "dead"    -> {Moved(n) : n \in arrived \ {0}} \cup {Failed}
      [] link = "opening" -> {Moved(0)}
      [] link = "down"    -> {Failed}

transport_disconnect == link' = "down" /\ inbox' = LeftBehind

-----------------------------------------------------------------------------
(* The network *)

Opens == link = "opening" /\ link' = "up" /\ UNCHANGED inbox

\* the connection breaks, with or without what was already received
Dies == link # "down" /\ link' = "dead" /\ inbox' \in {inbox, <<>>}
=============================================================================
