----------------------- MODULE VirtualTransportProofs -----------------------
(***************************************************************************)
(* The loopback pair delivers every byte to the other end, once and in     *)
(* order, for every size of the channels and every sequence of calls.      *)
(***************************************************************************)
EXTENDS VirtualTransport, SequenceTheorems, TLAPS

\* what is known of each channel
PAB == INSTANCE VirtualChannelProofs WITH buf <- ab_buf, head <- ab_head, len <- ab_len
PBA == INSTANCE VirtualChannelProofs WITH buf <- ba_buf, head <- ba_head, len <- ba_len

\* Types, and the bounds of both channels.
PairInv ==
    /\ AB!InStorage
    /\ BA!InStorage
    /\ connected \in [Ends -> BOOLEAN]
    /\ wrote \in [Ends -> Seq(Byte)]
    /\ got \in [Ends -> Seq(Byte)]

IInv == PairInv /\ Loopback

-----------------------------------------------------------------------------
\* A write on the channel from a to b appends what it reports (channel_write).
LEMMA WriteAB ==
    ASSUME AB!InStorage, NEW data \in AB!Calls, AB!channel_write(data)
    PROVE  /\ AB!InStorage'
           /\ AB!Contents \in Seq(Byte) /\ AB!Contents' \in Seq(Byte)
           /\ out'.bytes \in Seq(Byte)
           /\ AB!Contents' = AB!Contents \o out'.bytes
  <1>1. PAB!BufSizeAssumption /\ PAB!MaxCallAssumption
    BY VirtualAssumption DEF PAB!BufSizeAssumption, PAB!MaxCallAssumption
  <1>2. PAB!InStorage /\ data \in PAB!Calls
    BY DEF AB!InStorage, PAB!InStorage, AB!Index, PAB!Index, AB!Calls, PAB!Calls
  <1>3. PAB!channel_write(data)
    BY DEF AB!channel_write, PAB!channel_write, AB!Smaller, PAB!Smaller,
           AB!Result, PAB!Result, AB!Index, PAB!Index, AB!Distance, PAB!Distance,
           AB!tail, PAB!tail, AB!space, PAB!space
  <1>4. PAB!InStorage'
    BY <1>1, <1>2, <1>3, PAB!WriteStep, Zenon
  <1>5. /\ PAB!Contents \in Seq(Byte) /\ PAB!Contents' \in Seq(Byte)
        /\ out'.bytes \in Seq(Byte)
        /\ PAB!Contents' = PAB!Contents \o out'.bytes
    BY <1>1, <1>2, <1>3, PAB!WriteAppends, Zenon
  <1>6. AB!InStorage'
    BY <1>4 DEF AB!InStorage, PAB!InStorage, AB!Index, PAB!Index
  <1>. QED  BY <1>5, <1>6 DEF AB!Contents, PAB!Contents, AB!Stored, PAB!Stored

\* A write on the channel from b to a appends what it reports (channel_write).
LEMMA WriteBA ==
    ASSUME BA!InStorage, NEW data \in BA!Calls, BA!channel_write(data)
    PROVE  /\ BA!InStorage'
           /\ BA!Contents \in Seq(Byte) /\ BA!Contents' \in Seq(Byte)
           /\ out'.bytes \in Seq(Byte)
           /\ BA!Contents' = BA!Contents \o out'.bytes
  <1>1. PBA!BufSizeAssumption /\ PBA!MaxCallAssumption
    BY VirtualAssumption DEF PBA!BufSizeAssumption, PBA!MaxCallAssumption
  <1>2. PBA!InStorage /\ data \in PBA!Calls
    BY DEF BA!InStorage, PBA!InStorage, BA!Index, PBA!Index, BA!Calls, PBA!Calls
  <1>3. PBA!channel_write(data)
    BY DEF BA!channel_write, PBA!channel_write, BA!Smaller, PBA!Smaller,
           BA!Result, PBA!Result, BA!Index, PBA!Index, BA!Distance, PBA!Distance,
           BA!tail, PBA!tail, BA!space, PBA!space
  <1>4. PBA!InStorage'
    BY <1>1, <1>2, <1>3, PBA!WriteStep, Zenon
  <1>5. /\ PBA!Contents \in Seq(Byte) /\ PBA!Contents' \in Seq(Byte)
        /\ out'.bytes \in Seq(Byte)
        /\ PBA!Contents' = PBA!Contents \o out'.bytes
    BY <1>1, <1>2, <1>3, PBA!WriteAppends, Zenon
  <1>6. BA!InStorage'
    BY <1>4 DEF BA!InStorage, PBA!InStorage, BA!Index, PBA!Index
  <1>. QED  BY <1>5, <1>6 DEF BA!Contents, PBA!Contents, BA!Stored, PBA!Stored

\* A read on the channel from a to b takes off what it reports (channel_read).
LEMMA ReadAB ==
    ASSUME AB!InStorage, NEW room \in 0..MaxCall, AB!channel_read(room)
    PROVE  /\ AB!InStorage'
           /\ AB!Contents \in Seq(Byte) /\ AB!Contents' \in Seq(Byte)
           /\ out'.bytes \in Seq(Byte)
           /\ AB!Contents = out'.bytes \o AB!Contents'
  <1>1. PAB!BufSizeAssumption /\ PAB!MaxCallAssumption
    BY VirtualAssumption DEF PAB!BufSizeAssumption, PAB!MaxCallAssumption
  <1>2. PAB!InStorage
    BY DEF AB!InStorage, PAB!InStorage, AB!Index, PAB!Index
  <1>3. PAB!channel_read(room)
    BY DEF AB!channel_read, PAB!channel_read, AB!Smaller, PAB!Smaller,
           AB!Result, PAB!Result, AB!Stored, PAB!Stored
  <1>4. PAB!InStorage'
    BY <1>1, <1>2, <1>3, PAB!ReadStep, Zenon
  <1>5. /\ PAB!Contents \in Seq(Byte) /\ PAB!Contents' \in Seq(Byte)
        /\ out'.bytes \in Seq(Byte)
        /\ PAB!Contents = out'.bytes \o PAB!Contents'
    BY <1>1, <1>2, <1>3, PAB!ReadTakes, Zenon
  <1>6. AB!InStorage'
    BY <1>4 DEF AB!InStorage, PAB!InStorage, AB!Index, PAB!Index
  <1>. QED  BY <1>5, <1>6 DEF AB!Contents, PAB!Contents, AB!Stored, PAB!Stored

\* A read on the channel from b to a takes off what it reports (channel_read).
LEMMA ReadBA ==
    ASSUME BA!InStorage, NEW room \in 0..MaxCall, BA!channel_read(room)
    PROVE  /\ BA!InStorage'
           /\ BA!Contents \in Seq(Byte) /\ BA!Contents' \in Seq(Byte)
           /\ out'.bytes \in Seq(Byte)
           /\ BA!Contents = out'.bytes \o BA!Contents'
  <1>1. PBA!BufSizeAssumption /\ PBA!MaxCallAssumption
    BY VirtualAssumption DEF PBA!BufSizeAssumption, PBA!MaxCallAssumption
  <1>2. PBA!InStorage
    BY DEF BA!InStorage, PBA!InStorage, BA!Index, PBA!Index
  <1>3. PBA!channel_read(room)
    BY DEF BA!channel_read, PBA!channel_read, BA!Smaller, PBA!Smaller,
           BA!Result, PBA!Result, BA!Stored, PBA!Stored
  <1>4. PBA!InStorage'
    BY <1>1, <1>2, <1>3, PBA!ReadStep, Zenon
  <1>5. /\ PBA!Contents \in Seq(Byte) /\ PBA!Contents' \in Seq(Byte)
        /\ out'.bytes \in Seq(Byte)
        /\ PBA!Contents = out'.bytes \o PBA!Contents'
    BY <1>1, <1>2, <1>3, PBA!ReadTakes, Zenon
  <1>6. BA!InStorage'
    BY <1>4 DEF BA!InStorage, PBA!InStorage, BA!Index, PBA!Index
  <1>. QED  BY <1>5, <1>6 DEF BA!Contents, PBA!Contents, BA!Stored, PBA!Stored

-----------------------------------------------------------------------------
\* Concatenation of sequences of bytes is associative.
LEMMA Regroup ==
    ASSUME NEW s \in Seq(Byte), NEW t \in Seq(Byte), NEW u \in Seq(Byte)
    PROVE  (s \o t) \o u = s \o (t \o u)
  BY ConcatAssociative

\* A step on one channel leaves the other as it was.
LEMMA OtherChannel ==
    /\ UNCHANGED ab => AB!Contents' = AB!Contents /\ (AB!InStorage => AB!InStorage')
    /\ UNCHANGED ba => BA!Contents' = BA!Contents /\ (BA!InStorage => BA!InStorage')
  BY DEF ab, ba, AB!Contents, BA!Contents, AB!Stored, BA!Stored,
         AB!InStorage, BA!InStorage

\* pair_init() leaves both channels empty.
LEMMA LoopbackInit == Init => IInv
  <1>. SUFFICES ASSUME Init PROVE IInv
    OBVIOUS
  <1>1. AB!InStorage /\ BA!InStorage
    BY VirtualAssumption DEF Init, AB!Init, BA!Init, AB!InStorage, BA!InStorage,
                             AB!Index, BA!Index
  <1>2. <<>> \in Seq(Byte)
    OBVIOUS
  <1>3. PairInv
    BY <1>1, <1>2 DEF Init, PairInv
  <1>4. AB!Contents = <<>> /\ BA!Contents = <<>>
    BY DEF Init, AB!Init, BA!Init, AB!Contents, BA!Contents, AB!Stored, BA!Stored
  <1>5. Loopback
    BY <1>4 DEF Init, Loopback, InFlight, Peer, Ends
  <1>. QED  BY <1>3, <1>5 DEF IInv

\* The bytes a write is credited with are appended on both sides.
LEMMA LoopbackWrite ==
    ASSUME IInv, NEW e \in Ends, NEW data \in AB!Calls, vt_write(e, data)
    PROVE  IInv'
  <1>. USE DEF IInv, PairInv, Loopback, InFlight, Peer, Ends
  <1>1. CASE Closed
    BY <1>1, OtherChannel DEF Closed, hist
  <1>2. CASE ~Closed
    <2>1. CASE e = "a"
      <3>1. /\ AB!channel_write(data) /\ UNCHANGED ba
            /\ wrote' = [wrote EXCEPT !["a"] = @ \o out'.bytes]
            /\ UNCHANGED <<connected, got>>
        BY <1>2, <2>1 DEF vt_write, tx
      <3>2. /\ AB!InStorage' /\ AB!Contents \in Seq(Byte)
            /\ out'.bytes \in Seq(Byte)
            /\ AB!Contents' = AB!Contents \o out'.bytes
        BY <3>1, WriteAB
      <3>. DEFINE g == got["b"]  c == AB!Contents  o == out'.bytes
      <3>3. g \in Seq(Byte) /\ c \in Seq(Byte) /\ o \in Seq(Byte)
        BY <3>2
      <3>4. (g \o c) \o o = g \o (c \o o)
        BY <3>3, Regroup
      <3>5. wrote'["a"] = wrote["a"] \o out'.bytes /\ wrote'["b"] = wrote["b"]
        BY <3>1
      <3>6. PairInv'
        <4>1. wrote["a"] \o out'.bytes \in Seq(Byte)
          BY <3>2
        <4>. QED  BY <3>1, <3>2, <4>1, OtherChannel
      <3>7. wrote'["a"] = got'["b"] \o AB!Contents'
        BY <3>1, <3>2, <3>4, <3>5
      <3>8. wrote'["b"] = got'["a"] \o BA!Contents'
        BY <3>1, <3>5, OtherChannel
      <3>. QED  BY <3>6, <3>7, <3>8
    <2>2. CASE e = "b"
      <3>0. data \in BA!Calls
        BY DEF AB!Calls, BA!Calls
      <3>1. /\ BA!channel_write(data) /\ UNCHANGED ab
            /\ wrote' = [wrote EXCEPT !["b"] = @ \o out'.bytes]
            /\ UNCHANGED <<connected, got>>
        BY <1>2, <2>2 DEF vt_write, tx
      <3>2. /\ BA!InStorage' /\ BA!Contents \in Seq(Byte)
            /\ out'.bytes \in Seq(Byte)
            /\ BA!Contents' = BA!Contents \o out'.bytes
        BY <3>0, <3>1, WriteBA
      <3>. DEFINE g == got["a"]  c == BA!Contents  o == out'.bytes
      <3>3. g \in Seq(Byte) /\ c \in Seq(Byte) /\ o \in Seq(Byte)
        BY <3>2
      <3>4. (g \o c) \o o = g \o (c \o o)
        BY <3>3, Regroup
      <3>5. wrote'["b"] = wrote["b"] \o out'.bytes /\ wrote'["a"] = wrote["a"]
        BY <3>1
      <3>6. PairInv'
        <4>1. wrote["b"] \o out'.bytes \in Seq(Byte)
          BY <3>2
        <4>. QED  BY <3>1, <3>2, <4>1, OtherChannel
      <3>7. wrote'["b"] = got'["a"] \o BA!Contents'
        BY <3>1, <3>2, <3>4, <3>5
      <3>8. wrote'["a"] = got'["b"] \o AB!Contents'
        BY <3>1, <3>5, OtherChannel
      <3>. QED  BY <3>6, <3>7, <3>8
    <2>. QED  BY <2>1, <2>2
  <1>. QED  BY <1>1, <1>2

\* The bytes a read returns move from the channel to the reader.
LEMMA LoopbackRead ==
    ASSUME IInv, NEW e \in Ends, NEW room \in 0..MaxCall, vt_read(e, room)
    PROVE  IInv'
  <1>. USE DEF IInv, PairInv, Loopback, InFlight, Peer, Ends
  <1>1. CASE Closed
    BY <1>1, OtherChannel DEF Closed, hist
  <1>2. CASE ~Closed
    <2>1. CASE e = "a"
      <3>1. /\ BA!channel_read(room) /\ UNCHANGED ab
            /\ got' = [got EXCEPT !["a"] = @ \o out'.bytes]
            /\ UNCHANGED <<connected, wrote>>
        BY <1>2, <2>1 DEF vt_read, rx
      <3>2. /\ BA!InStorage' /\ BA!Contents' \in Seq(Byte)
            /\ out'.bytes \in Seq(Byte)
            /\ BA!Contents = out'.bytes \o BA!Contents'
        BY <3>1, ReadBA
      <3>. DEFINE g == got["a"]  c == BA!Contents'  o == out'.bytes
      <3>3. g \in Seq(Byte) /\ c \in Seq(Byte) /\ o \in Seq(Byte)
        BY <3>2
      <3>4. (g \o o) \o c = g \o (o \o c)
        BY <3>3, Regroup, ZenonT(60)
      <3>5. got'["a"] = got["a"] \o out'.bytes /\ got'["b"] = got["b"]
        BY <3>1
      <3>6. PairInv'
        <4>1. got["a"] \o out'.bytes \in Seq(Byte)
          BY <3>2
        <4>. QED  BY <3>1, <3>2, <4>1, OtherChannel
      <3>7. wrote'["b"] = got'["a"] \o BA!Contents'
        BY <3>1, <3>2, <3>4, <3>5
      <3>8. wrote'["a"] = got'["b"] \o AB!Contents'
        BY <3>1, <3>5, OtherChannel
      <3>. QED  BY <3>6, <3>7, <3>8
    <2>2. CASE e = "b"
      <3>1. /\ AB!channel_read(room) /\ UNCHANGED ba
            /\ got' = [got EXCEPT !["b"] = @ \o out'.bytes]
            /\ UNCHANGED <<connected, wrote>>
        BY <1>2, <2>2 DEF vt_read, rx
      <3>2. /\ AB!InStorage' /\ AB!Contents' \in Seq(Byte)
            /\ out'.bytes \in Seq(Byte)
            /\ AB!Contents = out'.bytes \o AB!Contents'
        BY <3>1, ReadAB
      <3>. DEFINE g == got["b"]  c == AB!Contents'  o == out'.bytes
      <3>3. g \in Seq(Byte) /\ c \in Seq(Byte) /\ o \in Seq(Byte)
        BY <3>2
      <3>4. (g \o o) \o c = g \o (o \o c)
        BY <3>3, Regroup, ZenonT(60)
      <3>5. got'["b"] = got["b"] \o out'.bytes /\ got'["a"] = got["a"]
        BY <3>1
      <3>6. PairInv'
        <4>1. got["b"] \o out'.bytes \in Seq(Byte)
          BY <3>2
        <4>. QED  BY <3>1, <3>2, <4>1, OtherChannel
      <3>7. wrote'["a"] = got'["b"] \o AB!Contents'
        BY <3>1, <3>2, <3>4, <3>5
      <3>8. wrote'["b"] = got'["a"] \o BA!Contents'
        BY <3>1, <3>5, OtherChannel
      <3>. QED  BY <3>6, <3>7, <3>8
    <2>. QED  BY <2>1, <2>2
  <1>. QED  BY <1>1, <1>2

\* What one end of the loopback pair writes, the other reads, once and in
\* order, whatever the two ends do in between (vt_write, vt_read, vt_connect,
\* vt_disconnect).
THEOREM LoopbackCorrect == Spec => []Loopback
  <1>1. IInv /\ [Next]_vars => IInv'
    <2>. SUFFICES ASSUME IInv, [Next]_vars PROVE IInv'
      OBVIOUS
    <2>1. ASSUME NEW e \in Ends, vt_connect(e) \/ vt_disconnect(e) PROVE IInv'
      <3>1. UNCHANGED <<ab, ba, hist>> /\ connected' \in [Ends -> BOOLEAN]
        BY <2>1 DEF vt_connect, vt_disconnect, IInv, PairInv
      <3>. QED  BY <3>1, OtherChannel DEF IInv, PairInv, Loopback, InFlight, hist
    <2>2. ASSUME NEW e \in Ends, NEW room \in 0..MaxCall, vt_read(e, room) PROVE IInv'
      BY <2>2, LoopbackRead
    <2>3. ASSUME NEW e \in Ends, NEW data \in AB!Calls, vt_write(e, data) PROVE IInv'
      BY <2>3, LoopbackWrite
    <2>4. CASE UNCHANGED vars
      BY <2>4, OtherChannel DEF vars, hist, IInv, PairInv, Loopback, InFlight
    <2>. QED  BY <2>1, <2>2, <2>3, <2>4 DEF Next
  <1>2. IInv => Loopback
    BY DEF IInv
  <1>. QED  BY <1>1, <1>2, LoopbackInit, PTL DEF Spec
=============================================================================
