------------------------------ MODULE PosixTcp ------------------------------
(***************************************************************************)
(* The POSIX TCP transport (examples/posix_tcp_transport.c) under the      *)
(* client: its four functions over the sockets of an operating system      *)
(* whose descriptors the rest of the program uses too.                     *)
(*                                                                         *)
(* Of the client only what decides which transport call comes next is      *)
(* kept (TransportUse): connect in CONNECTING, reads in a session, writes  *)
(* at any time, because aemlib_publish() does not look at the state.       *)
(***************************************************************************)
EXTENDS Integers, Sequences

CONSTANTS
    Fds,        \* descriptors the program may hold
    Byte,       \* byte values
    MaxCall,    \* bound: bytes passed to or asked for in one call
    MaxQueue,   \* bound: received bytes the kernel holds
    PollMayFail \* TRUE iff poll() may report an error

ASSUME PosixAssumption ==
    /\ Fds \subseteq Nat
    /\ MaxCall \in Nat /\ MaxQueue \in Nat
    /\ PollMayFail \in BOOLEAN

NoFd == -1

VARIABLES
    \* aemlib_posix_tcp_t
    fd,
    connecting,
    \* the kernel
    owner,      \* who opened each descriptor
    sock,       \* state of the last socket opened here
    so_error,   \* TRUE iff it has an error pending
    queue,      \* bytes received on it
    \* the client
    user,       \* see TransportUse
    out         \* the last transport call: its name, its length, its result

transport == <<fd, connecting>>
kernel    == <<owner, sock, so_error, queue>>
vars      == <<transport, kernel, user, out>>

Owners == {"nobody", "transport", "program"}
Socks  == {"none", "syn_sent", "established", "half_closed", "broken"}

Failed == [ok |-> FALSE, n |-> 0]

Moved(n) == [ok |-> TRUE, n |-> n]

-----------------------------------------------------------------------------
(* System calls *)

Unused == {f \in Fds : owner[f] = "nobody"}

\* socket() and connect() on it
Opened(f, s) ==
    /\ owner' = [owner EXCEPT ![f] = "transport"]
    /\ sock' = s
    /\ so_error' = FALSE
    /\ queue' = <<>>

\* close() gives the number back, whoever opened it
Close(f) ==
    /\ owner' = [owner EXCEPT ![f] = "nobody"]
    /\ sock' = "none"
    /\ so_error' = FALSE
    /\ queue' = <<>>

\* recv() and send() report a pending error once
ErrorReported == so_error' = FALSE /\ UNCHANGED <<owner, sock>>

-----------------------------------------------------------------------------
(* Connecting *)

\* handle_state_connecting()
Result(st) ==
    /\ out' = <<"connect", 0, IF st = "IO" THEN Failed ELSE Moved(0)>>
    /\ user' = CASE st = "OK"          -> "SESSION"
                 [] st = "WOULD_BLOCK" -> "CONNECTING"
                 [] st = "IO"          -> "DISCONNECTED"

\* mutant: a socket that is refused at once is not closed
RefusedSocketKept(f) == owner' = [owner EXCEPT ![f] = "transport"]

\* a socket that is refused at once is closed again
RefusedSocket(f) == UNCHANGED owner

tcp_start_connect ==
    \/ /\ Result("IO")                  \* getaddrinfo() or socket() fails
       /\ UNCHANGED <<transport, kernel>>
    \/ \E f \in Unused :
          \/ /\ Opened(f, "established")
             /\ fd' = f /\ connecting' = FALSE
             /\ Result("OK")
          \/ /\ Opened(f, "syn_sent")   \* EINPROGRESS
             /\ fd' = f /\ connecting' = TRUE
             /\ Result("WOULD_BLOCK")
          \/ /\ RefusedSocket(f)
             /\ Result("IO")
             /\ UNCHANGED <<transport, sock, so_error, queue>>

\* mutant: connecting stays set
ForgetFd == fd' = NoFd /\ UNCHANGED connecting

\* nothing is left of a failed attempt
ResetTransport == fd' = NoFd /\ connecting' = FALSE

\* poll() passes over a negative descriptor and reports nothing ready
tcp_poll_connect ==
    \/ /\ fd = NoFd \/ sock = "syn_sent"
       /\ Result("WOULD_BLOCK")
       /\ UNCHANGED <<transport, kernel>>
    \/ /\ PollMayFail                   \* the socket is kept
       /\ Result("IO")
       /\ UNCHANGED <<transport, kernel>>
    \/ /\ fd # NoFd /\ sock # "syn_sent" /\ so_error
       /\ Close(fd)
       /\ ResetTransport
       /\ Result("IO")
    \/ /\ fd # NoFd /\ sock # "syn_sent" /\ ~so_error
       /\ connecting' = FALSE
       /\ Result("OK")
       /\ UNCHANGED <<fd, kernel>>

tcp_connect ==
    /\ user = "CONNECTING"
    /\ \/ connecting /\ tcp_poll_connect
       \/ ~connecting /\ tcp_start_connect

\* aemlib_core_connect(): the transport is not asked yet
core_connect ==
    /\ user = "DISCONNECTED"
    /\ user' = "CONNECTING"
    /\ UNCHANGED <<transport, kernel, out>>

\* every way a session ends goes through it
tcp_disconnect ==
    /\ user = "SESSION"
    /\ user' = "DISCONNECTED"
    /\ out' = <<"disconnect", 0, Moved(0)>>
    /\ ResetTransport
    /\ IF fd = NoFd THEN UNCHANGED kernel ELSE Close(fd)

-----------------------------------------------------------------------------
(* Reading and writing *)

\* mutant: an end of stream is taken for "nothing yet"
ZeroIsNothing == Moved(0)

\* recv() returned 0: CLOSED
EndOfStream == Failed

\* what recv() may move out of the queue
Arrived(room) == 1..(IF room < Len(queue) THEN room ELSE Len(queue))

tcp_read(room) ==
    /\ user = "SESSION"
    /\ \/ \E n \in Arrived(room) :
             /\ queue' = SubSeq(queue, n + 1, Len(queue))
             /\ out' = <<"read", room, Moved(n)>>
             /\ UNCHANGED <<owner, sock, so_error>>
       \/ /\ queue = <<>>               \* EAGAIN
          /\ sock \in {"syn_sent", "established"}
          /\ out' = <<"read", room, Moved(0)>>
          /\ UNCHANGED kernel
       \/ /\ \/ fd = NoFd
             \/ room = 0                \* nothing asked for
             \/ queue = <<>> /\ sock \in {"half_closed", "broken"}
          /\ out' = <<"read", room, EndOfStream>>
          /\ ErrorReported
          /\ UNCHANGED queue
    /\ UNCHANGED <<transport, user>>

tcp_write(len) ==
    /\ \/ /\ sock \in {"established", "half_closed"}
          /\ \E n \in 0..len : out' = <<"write", len, Moved(n)>>
          /\ UNCHANGED kernel
       \/ /\ sock = "syn_sent"          \* EAGAIN
          /\ out' = <<"write", len, Moved(0)>>
          /\ UNCHANGED kernel
       \/ /\ fd = NoFd \/ sock = "broken"
          /\ out' = <<"write", len, Failed>>
          /\ ErrorReported
          /\ UNCHANGED queue
    /\ UNCHANGED <<transport, user>>

-----------------------------------------------------------------------------
(* The network, and the rest of the program *)

HandshakeDone ==
    /\ sock = "syn_sent"
    /\ sock' = "established"
    /\ UNCHANGED <<transport, owner, so_error, queue, user, out>>

\* refused or timed out, or reset later on
Breaks ==
    /\ sock \in {"syn_sent", "established", "half_closed"}
    /\ sock' = "broken"
    /\ so_error' = TRUE
    /\ queue' \in {queue, <<>>}
    /\ UNCHANGED <<transport, owner, user, out>>

PeerCloses ==
    /\ sock = "established"
    /\ sock' = "half_closed"
    /\ UNCHANGED <<transport, owner, so_error, queue, user, out>>

Arrives(b) ==
    /\ sock = "established"
    /\ Len(queue) < MaxQueue
    /\ queue' = Append(queue, b)
    /\ UNCHANGED <<transport, owner, sock, so_error, user, out>>

\* other descriptors come and go
ProgramOpens(f) ==
    /\ owner[f] = "nobody"
    /\ owner' = [owner EXCEPT ![f] = "program"]
    /\ UNCHANGED <<transport, sock, so_error, queue, user, out>>

ProgramCloses(f) ==
    /\ owner[f] = "program"
    /\ owner' = [owner EXCEPT ![f] = "nobody"]
    /\ UNCHANGED <<transport, sock, so_error, queue, user, out>>

-----------------------------------------------------------------------------
\* aemlib_posix_tcp_init()
Init ==
    /\ fd = NoFd /\ connecting = FALSE
    /\ owner = [f \in Fds |-> "nobody"]
    /\ sock = "none" /\ so_error = FALSE /\ queue = <<>>
    /\ user = "DISCONNECTED" /\ out = <<"none", 0, Moved(0)>>

Next ==
    \/ core_connect
    \/ tcp_connect
    \/ tcp_disconnect
    \/ \E room \in 0..MaxCall : tcp_read(room)
    \/ \E len \in 0..MaxCall : tcp_write(len)
    \/ HandshakeDone
    \/ Breaks
    \/ PeerCloses
    \/ \E b \in Byte : Arrives(b)
    \/ \E f \in Fds : ProgramOpens(f) \/ ProgramCloses(f)

(* The application polls, and the kernel does not retry a connection for   *)
(* ever: SYN retransmission has a limit.  That poll() fails is possible,   *)
(* but never owed.                                                         *)
PollFails == connecting /\ user' = "DISCONNECTED" /\ UNCHANGED transport

Fairness ==
    /\ WF_vars(tcp_connect /\ ~PollFails)
    /\ WF_vars(HandshakeDone \/ (sock = "syn_sent" /\ Breaks))

Spec == Init /\ [][Next]_vars /\ Fairness

-----------------------------------------------------------------------------
\* No descriptor is lost and none is used that is not ours: t->fd names the one
\* socket the transport has open, across attempts that fail at once, later or
\* in poll(), reconnects, and other descriptors of the program that come and
\* go under the same numbers.  So tcp_disconnect() never closes a stranger's,
\* and tcp_start_connect() never overwrites one that is open
\* (tcp_start_connect, tcp_poll_connect, tcp_disconnect).
OneSocket == {f \in Fds : owner[f] = "transport"} = {fd} \ {NoFd}

\* the state of the connection, as the client may tell it from outside
Link == CASE fd = NoFd                              -> "down"
          [] fd # NoFd /\ sock = "syn_sent"         -> "opening"
          [] fd # NoFd /\ sock = "established"      -> "up"
          [] fd # NoFd /\ sock \in {"half_closed", "broken", "none"} -> "dead"

Use == INSTANCE TransportUse WITH
          link <- Link,
          inbox <- (IF fd = NoFd THEN <<>> ELSE queue),
          Bytes <- {<<b>> : b \in Byte},
          ConnectKeeps <- PollMayFail, KeepsBytes <- FALSE

\* The socket transport answers as AemlibClient takes a transport to answer:
\* one that keeps no bytes, and its socket exactly where poll() may fail, when
\* connect reports an error and keeps the connection.  In particular a
\* connection that is reported established although its failure was reported
\* to a write in between answers the first read with an error
\* (tcp_connect, tcp_read, tcp_write, tcp_disconnect).
ImplementsTransport == Use!Spec

\* A connection attempt comes to an end although CONNECTING has no timeout of
\* its own: the kernel gives up, and the transport passes that on
\* (tcp_poll_connect, handle_state_connecting).
AttemptSettles == user = "CONNECTING" ~> user # "CONNECTING"
=============================================================================
