--------------------------- MODULE PosixTcpProofs ---------------------------
(***************************************************************************)
(* Theorems about PosixTcp, for every set of descriptors and whatever the  *)
(* network and the rest of the program do: no descriptor is lost, and the  *)
(* transport implements TransportUse.                                      *)
(***************************************************************************)
EXTENDS PosixTcp, TLAPS

\* t->fd is the transport's open socket or none; outside a session an attempt
\* that is not in progress holds no socket, so the next one overwrites none.
SocketInv ==
    /\ owner \in [Fds -> Owners]
    /\ fd \in Fds \cup {NoFd}
    /\ connecting \in BOOLEAN
    /\ fd # NoFd => owner[fd] = "transport"
    /\ \A f \in Fds : owner[f] = "transport" => f = fd
    /\ user # "SESSION" /\ ~connecting => fd = NoFd
    /\ connecting => fd # NoFd

\* NoFd is no descriptor.
LEMMA NoFdUnused == NoFd \notin Fds
BY PosixAssumption DEF NoFd

\* The transport starts without a socket (aemlib_posix_tcp_init).
LEMMA SocketInit == Init => SocketInv
BY NoFdUnused DEF Init, SocketInv, Owners

\* A connection attempt, at once or over several polls, keeps the invariant
\* (tcp_connect).
LEMMA SocketConnect == SocketInv /\ tcp_connect => SocketInv'
<1> SUFFICES ASSUME SocketInv, tcp_connect PROVE SocketInv'
  OBVIOUS
<1> USE NoFdUnused
<1>1. CASE ~connecting /\ tcp_start_connect
  <2>1. fd = NoFd /\ \A f \in Fds : owner[f] # "transport"
    BY <1>1 DEF SocketInv, tcp_connect
  <2>2. CASE Result("IO") /\ UNCHANGED <<transport, kernel>>
    BY <2>1, <2>2, <1>1 DEF SocketInv, transport, kernel
  <2>3. ASSUME NEW f \in Unused, Opened(f, "established"), fd' = f,
               connecting' = FALSE, Result("OK")
        PROVE  SocketInv'
    <3>1. user' = "SESSION"
      BY <2>3 DEF Result
    <3> QED
      BY <2>1, <2>3, <3>1 DEF SocketInv, Unused, Opened, Owners
  <2>4. ASSUME NEW f \in Unused, Opened(f, "syn_sent"), fd' = f,
               connecting' = TRUE, Result("WOULD_BLOCK")
        PROVE  SocketInv'
    BY <2>1, <2>4 DEF SocketInv, Unused, Opened, Owners
  <2>5. ASSUME NEW f \in Unused, RefusedSocket(f), Result("IO"), UNCHANGED transport
        PROVE  SocketInv'
    BY <2>1, <2>5, <1>1 DEF SocketInv, RefusedSocket, transport
  <2> QED
    BY <1>1, <2>2, <2>3, <2>4, <2>5 DEF tcp_start_connect
<1>2. CASE connecting /\ tcp_poll_connect
  <2>1. CASE UNCHANGED <<transport, kernel>>
    BY <1>2, <2>1 DEF SocketInv, transport, kernel
  <2>2. CASE fd # NoFd /\ Close(fd) /\ ResetTransport
    BY <1>2, <2>2 DEF SocketInv, Close, ResetTransport, Owners
  <2>3. CASE connecting' = FALSE /\ Result("OK") /\ UNCHANGED <<fd, kernel>>
    BY <1>2, <2>3 DEF SocketInv, Result, kernel
  <2> QED
    BY <1>2, <2>1, <2>2, <2>3 DEF tcp_poll_connect
<1> QED
  BY <1>1, <1>2 DEF tcp_connect

\* So does the end of a session (tcp_disconnect).
LEMMA SocketDisconnect == SocketInv /\ tcp_disconnect => SocketInv'
<1> SUFFICES ASSUME SocketInv, tcp_disconnect PROVE SocketInv'
  OBVIOUS
<1> USE NoFdUnused DEF SocketInv, tcp_disconnect, ResetTransport, Owners
<1>1. CASE fd = NoFd
  BY <1>1 DEF kernel
<1>2. CASE fd # NoFd
  BY <1>2 DEF Close
<1> QED
  BY <1>1, <1>2

\* Every step keeps the invariant.
LEMMA SocketStep == SocketInv /\ [Next]_vars => SocketInv'
<1> SUFFICES ASSUME SocketInv, [Next]_vars PROVE SocketInv'
  OBVIOUS
<1>1. CASE core_connect
  BY <1>1 DEF core_connect, SocketInv, transport, kernel
<1>2. CASE tcp_connect
  BY <1>2, SocketConnect
<1>3. CASE tcp_disconnect
  BY <1>3, SocketDisconnect
<1>4. ASSUME NEW room \in 0..MaxCall, tcp_read(room) PROVE SocketInv'
  BY <1>4 DEF tcp_read, ErrorReported, SocketInv, transport, kernel
<1>5. ASSUME NEW len \in 0..MaxCall, tcp_write(len) PROVE SocketInv'
  BY <1>5 DEF tcp_write, ErrorReported, SocketInv, transport, kernel
<1>6. CASE HandshakeDone \/ Breaks \/ PeerCloses \/ \E b \in Byte : Arrives(b)
  BY <1>6 DEF HandshakeDone, Breaks, PeerCloses, Arrives, SocketInv, transport
<1>7. ASSUME NEW f \in Fds, ProgramOpens(f) \/ ProgramCloses(f) PROVE SocketInv'
  BY <1>7 DEF ProgramOpens, ProgramCloses, SocketInv, transport, Owners
<1>8. CASE UNCHANGED vars
  BY <1>8 DEF vars, transport, kernel, SocketInv
<1> QED
  BY <1>1, <1>2, <1>3, <1>4, <1>5, <1>6, <1>7, <1>8 DEF Next

\* No descriptor is lost, and none is used that is not the transport's own,
\* whatever the descriptors and however attempts, sessions and the rest of the
\* program are interleaved (tcp_start_connect, tcp_poll_connect,
\* tcp_disconnect).
THEOREM OneSocketCorrect == Spec => []OneSocket
<1>1. SocketInv => OneSocket
  BY NoFdUnused DEF SocketInv, OneSocket
<1> QED
  BY <1>1, SocketInit, SocketStep, PTL DEF Spec

-----------------------------------------------------------------------------
(* The refinement of TransportUse *)

\* What the kernel holds for the transport: a socket exactly while t->fd names
\* one, nothing received on it before the handshake is done, an error pending
\* only once it is broken; and no session starts before the handshake is done.
KernelInv ==
    /\ sock \in Socks
    /\ so_error \in BOOLEAN
    /\ queue \in Seq(Byte)
    /\ user \in Use!Users
    /\ sock = "none" <=> fd = NoFd
    /\ sock \in {"none", "syn_sent"} => queue = <<>>
    /\ so_error => sock = "broken"
    /\ sock = "syn_sent" => connecting
    /\ connecting => user # "SESSION"

TransportInv == SocketInv /\ KernelInv

\* What the refinement mapping makes of inbox.
Inbox == IF fd = NoFd THEN <<>> ELSE queue

\* handle_state_connecting() in one equation per result.
LEMMA ResultCases ==
    /\ Result("OK") => user' = "SESSION" /\ out' = <<"connect", 0, Moved(0)>>
    /\ Result("WOULD_BLOCK") => user' = "CONNECTING" /\ out' = <<"connect", 0, Moved(0)>>
    /\ Result("IO") => user' = "DISCONNECTED" /\ out' = <<"connect", 0, Failed>>
BY DEF Result

\* Taking bytes off the queue leaves bytes.
LEMMA CutQueue ==
    ASSUME NEW S, NEW s \in Seq(S), NEW n \in 0..Len(s)
    PROVE  /\ SubSeq(s, n + 1, Len(s)) \in Seq(S)
           /\ n = 0 => SubSeq(s, n + 1, Len(s)) = s
<1>1. SubSeq(s, n + 1, Len(s)) \in Seq(S)
  OBVIOUS
<1>2. n = 0 => SubSeq(s, n + 1, Len(s)) = s
  OBVIOUS
<1> QED
  BY <1>1, <1>2
\* An empty queue is a queue.
LEMMA EmptyQueue == <<>> \in Seq(Byte)
OBVIOUS

\* A transport without a socket (aemlib_posix_tcp_init).
LEMMA KernelInit == Init => TransportInv
<1> SUFFICES ASSUME Init PROVE KernelInv
  BY SocketInit DEF TransportInv
<1> QED
  BY EmptyQueue DEF Init, KernelInv, Socks, Use!Users

\* A connection attempt opens a socket or leaves none (tcp_connect).
LEMMA KernelConnect == TransportInv /\ tcp_connect => KernelInv'
<1> SUFFICES ASSUME TransportInv, tcp_connect PROVE KernelInv'
  OBVIOUS
<1> USE NoFdUnused, ResultCases, EmptyQueue DEF Socks, Use!Users
<1>1. CASE ~connecting /\ tcp_start_connect
  <2>1. fd = NoFd /\ sock = "none"
    BY <1>1 DEF TransportInv, SocketInv, KernelInv, tcp_connect
  <2>2. CASE Result("IO") /\ UNCHANGED <<transport, kernel>>
    BY <2>2, <1>1 DEF TransportInv, KernelInv, transport, kernel
  <2>3. ASSUME NEW f \in Unused, Opened(f, "established"), fd' = f,
               connecting' = FALSE, Result("OK")
        PROVE  KernelInv'
    BY <2>3 DEF KernelInv, Unused, Opened
  <2>4. ASSUME NEW f \in Unused, Opened(f, "syn_sent"), fd' = f,
               connecting' = TRUE, Result("WOULD_BLOCK")
        PROVE  KernelInv'
    BY <2>4 DEF KernelInv, Unused, Opened
  <2>5. ASSUME NEW f \in Unused, Result("IO"),
               UNCHANGED <<transport, sock, so_error, queue>>
        PROVE  KernelInv'
    BY <2>5, <1>1 DEF TransportInv, KernelInv, transport
  <2> QED
    BY <1>1, <2>2, <2>3, <2>4, <2>5 DEF tcp_start_connect
<1>2. CASE connecting /\ tcp_poll_connect
  <2>1. CASE (Result("WOULD_BLOCK") \/ Result("IO")) /\ UNCHANGED <<transport, kernel>>
    BY <1>2, <2>1 DEF TransportInv, KernelInv, transport, kernel
  <2>2. CASE fd # NoFd /\ Close(fd) /\ ResetTransport /\ Result("IO")
    BY <1>2, <2>2 DEF KernelInv, Close, ResetTransport
  <2>3. CASE /\ sock # "syn_sent" /\ connecting' = FALSE /\ Result("OK")
             /\ UNCHANGED <<fd, kernel>>
    BY <1>2, <2>3 DEF TransportInv, KernelInv, kernel
  <2> QED
    BY <1>2, <2>1, <2>2, <2>3 DEF tcp_poll_connect
<1> QED
  BY <1>1, <1>2 DEF tcp_connect

\* Every step keeps the invariant.
LEMMA KernelStep == TransportInv /\ [Next]_vars => TransportInv'
<1> SUFFICES ASSUME TransportInv, [Next]_vars PROVE KernelInv'
  BY SocketStep DEF TransportInv
<1> USE EmptyQueue DEF Socks, Use!Users
<1>1. CASE core_connect
  BY <1>1 DEF core_connect, TransportInv, KernelInv, transport, kernel
<1>2. CASE tcp_connect
  BY <1>2, KernelConnect
<1>3. CASE tcp_disconnect
  <2>1. CASE fd = NoFd
    BY <1>3, <2>1 DEF tcp_disconnect, ResetTransport, TransportInv, KernelInv, kernel
  <2>2. CASE fd # NoFd
    BY <1>3, <2>2 DEF tcp_disconnect, ResetTransport, Close, KernelInv
  <2> QED
    BY <2>1, <2>2
<1>4. ASSUME NEW room \in 0..MaxCall, tcp_read(room) PROVE KernelInv'
  <2>1. CASE /\ \E n \in Arrived(room) : queue' = SubSeq(queue, n + 1, Len(queue))
             /\ UNCHANGED <<owner, sock, so_error>>
    <3>1. PICK n \in Arrived(room) : queue' = SubSeq(queue, n + 1, Len(queue))
      BY <2>1
    <3>2. queue \in Seq(Byte) /\ Len(queue) \in Nat
      BY DEF TransportInv, KernelInv
    <3>3. n \in 1..Len(queue)
      BY <3>1, <3>2, PosixAssumption DEF Arrived
    <3>4. queue' \in Seq(Byte) /\ queue # <<>>
      BY <3>1, <3>2, <3>3, CutQueue
    <3> QED
      BY <1>4, <2>1, <3>4 DEF tcp_read, TransportInv, KernelInv, transport
  <2>2. CASE so_error' = FALSE /\ UNCHANGED <<owner, sock, queue>>
    BY <1>4, <2>2 DEF tcp_read, TransportInv, KernelInv, transport
  <2>3. CASE UNCHANGED kernel
    BY <1>4, <2>3 DEF tcp_read, TransportInv, KernelInv, transport, kernel
  <2> QED
    BY <1>4, <2>1, <2>2, <2>3 DEF tcp_read, ErrorReported
<1>5. ASSUME NEW len \in 0..MaxCall, tcp_write(len) PROVE KernelInv'
  <2>1. CASE so_error' = FALSE /\ UNCHANGED <<owner, sock, queue>>
    BY <1>5, <2>1 DEF tcp_write, TransportInv, KernelInv, transport
  <2>2. CASE UNCHANGED kernel
    BY <1>5, <2>2 DEF tcp_write, TransportInv, KernelInv, transport, kernel
  <2> QED
    BY <1>5, <2>1, <2>2 DEF tcp_write, ErrorReported
<1>6. CASE HandshakeDone \/ PeerCloses
  BY <1>6 DEF HandshakeDone, PeerCloses, TransportInv, KernelInv, transport
<1>7. CASE Breaks
  BY <1>7 DEF Breaks, TransportInv, KernelInv, transport
<1>8. ASSUME NEW b \in Byte, Arrives(b) PROVE KernelInv'
  BY <1>8 DEF Arrives, TransportInv, KernelInv, transport
<1>9. ASSUME NEW f \in Fds, ProgramOpens(f) \/ ProgramCloses(f) PROVE KernelInv'
  BY <1>9 DEF ProgramOpens, ProgramCloses, TransportInv, KernelInv, transport
<1>10. CASE UNCHANGED vars
  BY <1>10 DEF vars, transport, kernel, TransportInv, KernelInv
<1> QED
  BY <1>1, <1>2, <1>3, <1>4, <1>5, <1>6, <1>7, <1>8, <1>9, <1>10 DEF Next

\* The mapped link, before and after a step, by descriptor and socket.
LEMMA LinkCases ==
    /\ fd = NoFd => Link = "down"
    /\ fd # NoFd /\ sock = "syn_sent" => Link = "opening"
    /\ fd # NoFd /\ sock = "established" => Link = "up"
    /\ fd # NoFd /\ sock \in {"half_closed", "broken"} => Link = "dead"
    /\ fd' = NoFd => Link' = "down"
    /\ fd' # NoFd /\ sock' = "syn_sent" => Link' = "opening"
    /\ fd' # NoFd /\ sock' = "established" => Link' = "up"
    /\ fd' # NoFd /\ sock' \in {"half_closed", "broken"} => Link' = "dead"
    /\ UNCHANGED <<fd, sock>> => UNCHANGED Link
BY DEF Link

\* A step that answers as a transport may answer to connect is one of
\* TransportUse.
LEMMA MapsToConnect ==
    ASSUME user = "CONNECTING", NEW l, NEW st \in {"OK", "WOULD_BLOCK", "IO"},
           <<l, st>> \in Use!transport_connect,
           Link' = l, Inbox' = (IF l = "down" THEN <<>> ELSE Inbox), Result(st)
    PROVE  Use!Next
<1>1. Inbox' = IF l = "down" THEN Use!LeftBehind ELSE Inbox
  BY DEF Use!LeftBehind
<1>2. Use!Connected(st)
  BY DEF Use!Connected, Result, Use!Moved, Use!Failed, Moved, Failed
<1>3. Use!Connect
  BY <1>1, <1>2 DEF Use!Connect, Inbox
<1> QED
  BY <1>3 DEF Use!Next

\* Every way tcp_connect() ends is one the client expects (tcp_start_connect,
\* tcp_poll_connect).
LEMMA ConnectRefines == TransportInv /\ tcp_connect => Use!Next
<1> SUFFICES ASSUME TransportInv, tcp_connect PROVE Use!Next
  OBVIOUS
<1> USE NoFdUnused
<1>0. user = "CONNECTING"
  BY DEF tcp_connect
<1>1. CASE ~connecting /\ tcp_start_connect
  <2>1. fd = NoFd /\ Link = "down" /\ Inbox = <<>>
    BY <1>0, <1>1, LinkCases DEF TransportInv, SocketInv, Inbox
  <2>2. {<<"up", "OK">>, <<"opening", "WOULD_BLOCK">>, <<"down", "IO">>}
          \subseteq Use!transport_connect
    BY <2>1 DEF Use!transport_connect
  <2>3. CASE Result("IO") /\ UNCHANGED transport
    <3>1. Link' = "down" /\ Inbox' = <<>>
      BY <2>1, <2>3, LinkCases DEF transport, Inbox
    <3> QED
      BY <1>0, <2>1, <2>2, <2>3, <3>1, MapsToConnect
  <2>4. ASSUME NEW f \in Unused, Opened(f, "established"), fd' = f, Result("OK")
        PROVE  Use!Next
    <3>1. Link' = "up" /\ Inbox' = <<>>
      BY <2>4, LinkCases DEF Opened, Unused, Inbox
    <3> QED
      BY <1>0, <2>1, <2>2, <2>4, <3>1, MapsToConnect
  <2>5. ASSUME NEW f \in Unused, Opened(f, "syn_sent"), fd' = f, Result("WOULD_BLOCK")
        PROVE  Use!Next
    <3>1. Link' = "opening" /\ Inbox' = <<>>
      BY <2>5, LinkCases DEF Opened, Unused, Inbox
    <3> QED
      BY <1>0, <2>1, <2>2, <2>5, <3>1, MapsToConnect
  <2> QED
    BY <1>1, <2>3, <2>4, <2>5 DEF tcp_start_connect
<1>2. CASE connecting /\ tcp_poll_connect
  <2>1. fd # NoFd /\ sock \in {"syn_sent", "established", "half_closed", "broken"}
    BY <1>2 DEF TransportInv, SocketInv, KernelInv, Socks
  <2>2. Link # "down"
    BY <2>1, LinkCases
  <2>3. CASE sock = "syn_sent" /\ Result("WOULD_BLOCK") /\ UNCHANGED <<transport, kernel>>
    <3>1. Link = "opening" /\ Link' = "opening" /\ Inbox' = Inbox
      BY <2>1, <2>3, LinkCases DEF transport, kernel, Inbox
    <3>2. <<"opening", "WOULD_BLOCK">> \in Use!transport_connect
      BY <3>1 DEF Use!transport_connect
    <3>3. Inbox' = (IF Link = "down" THEN <<>> ELSE Inbox) /\ Link' = Link
      BY <3>1
    <3>4. <<Link, "WOULD_BLOCK">> \in Use!transport_connect
      BY <3>1, <3>2
    <3> QED
      BY <1>0, <2>3, <3>3, <3>4, MapsToConnect
  <2>4. CASE PollMayFail /\ Result("IO") /\ UNCHANGED <<transport, kernel>>
    <3>1. Link' = Link /\ Inbox' = Inbox
      BY <2>4, LinkCases DEF transport, kernel, Inbox
    <3>2. <<Link, "IO">> \in Use!transport_connect
      BY <2>4 DEF Use!transport_connect
    <3> QED
      BY <1>0, <2>2, <2>4, <3>1, <3>2, MapsToConnect
  <2>5. CASE so_error /\ Close(fd) /\ ResetTransport /\ Result("IO")
    <3>1. Link = "dead" /\ Link' = "down" /\ Inbox' = <<>>
      BY <2>1, <2>5, LinkCases DEF TransportInv, KernelInv, ResetTransport, Inbox
    <3>2. <<"down", "IO">> \in Use!transport_connect
      BY <3>1 DEF Use!transport_connect
    <3> QED
      BY <1>0, <2>5, <3>1, <3>2, MapsToConnect
  <2>6. CASE sock # "syn_sent" /\ Result("OK") /\ UNCHANGED <<fd, kernel>>
    <3>1. Link \in {"up", "dead"} /\ Link' = Link /\ Inbox' = Inbox
      BY <2>1, <2>6, LinkCases DEF kernel, Inbox
    <3>2. <<Link, "OK">> \in Use!transport_connect
      BY <3>1 DEF Use!transport_connect
    <3> QED
      BY <1>0, <2>6, <3>1, <3>2, MapsToConnect
  <2> QED
    BY <1>2, <2>1, <2>3, <2>4, <2>5, <2>6 DEF tcp_poll_connect
<1> QED
  BY <1>1, <1>2 DEF tcp_connect

\* What the client may read, by the condition of the connection.
LEMMA ReadResults ==
    ASSUME NEW room \in 0..MaxCall
    PROVE  LET arrived == 0..(IF room < Len(Inbox) THEN room ELSE Len(Inbox)) IN
           /\ Link = "down" => Use!transport_read(room) = {Use!Failed}
           /\ Link = "opening" => Use!transport_read(room) = {Use!Moved(0)}
           /\ Link = "up" => Use!transport_read(room) =
                 {Use!Moved(n) : n \in arrived} \cup (IF room = 0 THEN {Use!Failed} ELSE {})
           /\ Link = "dead" => Use!transport_read(room) =
                 {Use!Moved(n) : n \in arrived \ {0}} \cup {Use!Failed}
BY DEF Use!transport_read, Inbox

\* A read moves what has arrived, or says that nothing has, or fails where the
\* client expects it to (tcp_read).
LEMMA ReadRefines ==
    ASSUME TransportInv, NEW room \in 0..MaxCall, tcp_read(room)
    PROVE  Use!Next
<1> USE DEF Moved, Failed, Use!Moved, Use!Failed
<1>1. user = "SESSION" /\ UNCHANGED <<fd, user>> /\ sock # "syn_sent"
  BY DEF tcp_read, transport, TransportInv, KernelInv
<1>2. queue \in Seq(Byte) /\ Len(queue) \in Nat
  BY DEF TransportInv, KernelInv
<1>3. Link' = Link
  BY <1>1, LinkCases DEF tcp_read, ErrorReported, kernel
<1>4. SUFFICES \E r \in Use!transport_read(room) :
                  out' = <<"read", room, r>> /\ Inbox' = Use!Remaining(Inbox, r.n)
  <2>1. Use!Read(room)
    BY <1>1, <1>3, <1>4 DEF Use!Read, Inbox
  <2> QED
    BY <2>1 DEF Use!Next
<1>5. ASSUME fd # NoFd, NEW n \in 1..Len(queue), n <= room,
             queue' = SubSeq(queue, n + 1, Len(queue)),
             out' = <<"read", room, Moved(n)>>
      PROVE  \E r \in Use!transport_read(room) :
                  out' = <<"read", room, r>> /\ Inbox' = Use!Remaining(Inbox, r.n)
  <2>1. Inbox = queue /\ Inbox' = queue' /\ queue # <<>>
    BY <1>1, <1>2, <1>5 DEF Inbox
  <2>2. Link \in {"up", "dead"}
    BY <1>1, <1>5, LinkCases DEF TransportInv, KernelInv, Socks
  <2>3. n \in 0..(IF room < Len(Inbox) THEN room ELSE Len(Inbox)) /\ n # 0
    BY <1>2, <1>5, <2>1
  <2>4. Moved(n) \in Use!transport_read(room)
    BY <2>2, <2>3, ReadResults
  <2>5. Inbox' = Use!Remaining(Inbox, Moved(n).n)
    BY <2>1, <1>5 DEF Use!Remaining
  <2> QED
    BY <1>5, <2>4, <2>5
<1>6. ASSUME UNCHANGED queue, NEW r, r \in {Moved(0), Failed},
             r \in Use!transport_read(room), out' = <<"read", room, r>>
      PROVE  \E s \in Use!transport_read(room) :
                  out' = <<"read", room, s>> /\ Inbox' = Use!Remaining(Inbox, s.n)
  <2>1. r.n = 0
    BY <1>6
  <2>2. Inbox' = Inbox /\ Inbox \in Seq(Byte)
    BY <1>1, <1>2, <1>6, EmptyQueue DEF Inbox
  <2>3. Use!Remaining(Inbox, 0) = Inbox
    BY <2>2, CutQueue DEF Use!Remaining
  <2> QED
    BY <1>6, <2>1, <2>2, <2>3
<1>7. CASE \E n \in Arrived(room) :
              /\ queue' = SubSeq(queue, n + 1, Len(queue))
              /\ out' = <<"read", room, Moved(n)>>
  <2>1. PICK n \in Arrived(room) : /\ queue' = SubSeq(queue, n + 1, Len(queue))
                                   /\ out' = <<"read", room, Moved(n)>>
    BY <1>7
  <2>2. n \in 1..Len(queue) /\ n <= room
    BY <2>1, <1>2, PosixAssumption DEF Arrived
  <2>3. fd # NoFd
    BY <2>2, <1>2 DEF TransportInv, KernelInv
  <2> QED
    BY <2>1, <2>2, <2>3, <1>5
<1>8. CASE /\ queue = <<>> /\ sock \in {"syn_sent", "established"}
           /\ out' = <<"read", room, Moved(0)>> /\ UNCHANGED kernel
  <2>1. Link = "up" /\ Inbox = <<>>
    BY <1>1, <1>8, LinkCases DEF TransportInv, KernelInv, Inbox
  <2>2. 0 \in 0..(IF room < Len(Inbox) THEN room ELSE Len(Inbox))
    BY <2>1
  <2>3. Moved(0) \in Use!transport_read(room)
    BY <2>1, <2>2, ReadResults
  <2> QED
    BY <1>6, <1>8, <2>3 DEF kernel
<1>9. CASE /\ \/ fd = NoFd
              \/ room = 0
              \/ queue = <<>> /\ sock \in {"half_closed", "broken"}
           /\ out' = <<"read", room, EndOfStream>> /\ UNCHANGED queue
  <2>1. CASE fd = NoFd
    <3>1. Failed \in Use!transport_read(room)
      BY <2>1, LinkCases, ReadResults
    <3> QED
      BY <1>6, <1>9, <3>1 DEF EndOfStream
  <2>2. CASE fd # NoFd
    <3>1. sock \in {"established", "half_closed", "broken"}
      BY <1>1, <2>2 DEF TransportInv, KernelInv, Socks
    <3>2. (Link = "up" /\ room = 0) \/ Link = "dead"
      BY <1>9, <2>2, <3>1, LinkCases
    <3>3. Failed \in Use!transport_read(room)
      BY <3>2, ReadResults
    <3> QED
      BY <1>6, <1>9, <3>3 DEF EndOfStream
  <2> QED
    BY <2>1, <2>2
<1> QED
  BY <1>7, <1>8, <1>9 DEF tcp_read

\* A write takes some of the bytes, or none, or fails where the client expects
\* it to (tcp_write).
LEMMA WriteRefines ==
    ASSUME TransportInv, NEW len \in 0..MaxCall, tcp_write(len)
    PROVE  Use!Next
<1> USE DEF Moved, Failed, Use!Moved, Use!Failed
<1>1. /\ Link = "down" => Use!transport_write(len) = {Use!Failed}
      /\ Link = "opening" => Use!transport_write(len) = {Use!Moved(0)}
      /\ Link = "up" => Use!transport_write(len) = {Use!Moved(n) : n \in 0..len}
      /\ Link = "dead" => Use!transport_write(len) =
            {Use!Moved(n) : n \in 0..len} \cup {Use!Failed}
  BY DEF Use!transport_write
<1>2. UNCHANGED <<fd, sock, queue, user>>
  BY DEF tcp_write, transport, kernel, ErrorReported
<1>3. Link' = Link /\ Inbox' = Inbox
  BY <1>2, LinkCases DEF Inbox
<1>4. SUFFICES \E w \in Use!transport_write(len) : out' = <<"write", len, w>>
  <2>1. Use!Write(len)
    BY <1>2, <1>3, <1>4 DEF Use!Write, Inbox
  <2> QED
    BY <2>1 DEF Use!Next
<1>5. CASE /\ sock \in {"established", "half_closed"}
           /\ \E n \in 0..len : out' = <<"write", len, Moved(n)>>
  <2>1. Link \in {"up", "dead"}
    BY <1>5, LinkCases DEF TransportInv, KernelInv
  <2> QED
    BY <1>1, <1>5, <2>1
<1>6. CASE sock = "syn_sent" /\ out' = <<"write", len, Moved(0)>>
  <2>1. Link = "opening"
    BY <1>6, LinkCases DEF TransportInv, KernelInv
  <2> QED
    BY <1>1, <1>6, <2>1
<1>7. CASE (fd = NoFd \/ sock = "broken") /\ out' = <<"write", len, Failed>>
  <2>1. Link \in {"down", "dead"}
    BY <1>7, LinkCases DEF TransportInv, KernelInv
  <2> QED
    BY <1>1, <1>7, <2>1
<1> QED
  BY <1>5, <1>6, <1>7 DEF tcp_write

\* What happens to the connection underneath is what may happen to a link.
LEMMA NetworkRefines ==
    ASSUME TransportInv,
           HandshakeDone \/ Breaks \/ PeerCloses \/ \E b \in Byte : Arrives(b)
    PROVE  Use!Next
<1>1. UNCHANGED <<fd, user, out>> /\ fd # NoFd
  BY DEF HandshakeDone, Breaks, PeerCloses, Arrives, transport, TransportInv, KernelInv
<1>2. Inbox = queue /\ Inbox' = queue'
  BY <1>1 DEF Inbox
<1>3. CASE HandshakeDone
  <2>1. Link = "opening" /\ Link' = "up" /\ Inbox' = Inbox
    BY <1>1, <1>2, <1>3, LinkCases DEF HandshakeDone
  <2> QED
    BY <1>1, <2>1 DEF Use!Next, Use!Network, Use!Opens, Inbox
<1>4. CASE Breaks \/ PeerCloses
  <2>1. Link # "down" /\ Link' = "dead" /\ Inbox' \in {Inbox, <<>>}
    BY <1>1, <1>2, <1>4, LinkCases DEF Breaks, PeerCloses
  <2> QED
    BY <1>1, <2>1 DEF Use!Next, Use!Network, Use!Dies, Inbox
<1>5. ASSUME NEW b \in Byte, Arrives(b) PROVE Use!Next
  <2>1. Link = "up" /\ Link' = "up"
    BY <1>1, <1>5, LinkCases DEF Arrives
  <2>2. queue' = queue \o <<b>>
    BY <1>5 DEF Arrives, TransportInv, KernelInv
  <2>3. \E c \in {<<x>> : x \in Byte} : Inbox' = Inbox \o c
    BY <1>2, <2>2
  <2> QED
    BY <1>1, <2>1, <2>3 DEF Use!Next, Use!Network, Inbox
<1> QED
  BY <1>3, <1>4, <1>5

\* Every step of the transport is a step of TransportUse, or none.
LEMMA StepRefines == TransportInv /\ [Next]_vars => [Use!Next]_Use!vars
<1> SUFFICES ASSUME TransportInv, [Next]_vars PROVE [Use!Next]_Use!vars
  OBVIOUS
<1>1. CASE core_connect
  <2>1. Link' = Link /\ Inbox' = Inbox
    BY <1>1, LinkCases DEF core_connect, transport, kernel, Inbox
  <2> QED
    BY <1>1, <2>1 DEF core_connect, Use!Next, Use!StartConnecting, Inbox
<1>2. CASE tcp_connect
  BY <1>2, ConnectRefines
<1>3. CASE tcp_disconnect
  <2>1. Link' = "down" /\ Inbox' = <<>>
    BY <1>3, LinkCases DEF tcp_disconnect, ResetTransport, Inbox
  <2> QED
    BY <1>3, <2>1 DEF tcp_disconnect, Use!Next, Use!HangUp, Use!transport_disconnect,
                      Use!LeftBehind,
                      Inbox, Moved, Use!Moved
<1>4. CASE \E room \in 0..MaxCall : tcp_read(room)
  BY <1>4, ReadRefines
<1>5. CASE \E len \in 0..MaxCall : tcp_write(len)
  BY <1>5, WriteRefines
<1>6. CASE HandshakeDone \/ Breaks \/ PeerCloses \/ \E b \in Byte : Arrives(b)
  BY <1>6, NetworkRefines
<1>7. CASE \/ \E f \in Fds : ProgramOpens(f) \/ ProgramCloses(f)
           \/ UNCHANGED vars
  <2>1. UNCHANGED <<fd, sock, queue, user, out>>
    BY <1>7 DEF ProgramOpens, ProgramCloses, vars, transport, kernel
  <2>2. Link' = Link /\ Inbox' = Inbox
    BY <2>1, LinkCases DEF Inbox
  <2> QED
    BY <2>1, <2>2 DEF Use!vars, Inbox
<1> QED
  BY <1>1, <1>2, <1>3, <1>4, <1>5, <1>6, <1>7 DEF Next

\* The socket transport answers every call as the client takes a transport to
\* answer, whatever the descriptors, the byte values, the sizes asked for and
\* the network: the transport AemlibClient assumes is one the code has
\* (tcp_connect, tcp_read, tcp_write, tcp_disconnect).
THEOREM ImplementsTransportCorrect == Spec => ImplementsTransport
<1>1. Init => Use!Init
  <2> SUFFICES ASSUME Init PROVE Use!Init
    OBVIOUS
  <2>1. fd = NoFd
    BY DEF Init
  <2>2. Link = "down"
    BY <2>1, LinkCases
  <2> QED
    BY <2>1, <2>2 DEF Init, Use!Init, Moved, Use!Moved
<1>2. TransportInv /\ [Next]_vars => [Use!Next]_Use!vars
  BY StepRefines
<1> QED
  BY <1>1, <1>2, KernelInit, KernelStep, PTL DEF Spec, ImplementsTransport, Use!Spec
=============================================================================
