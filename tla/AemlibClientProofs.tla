------------------------- MODULE AemlibClientProofs -------------------------
(***************************************************************************)
(* Proofs about AemlibClient, for every value of its constants: type       *)
(* correctness (with the bounds of both buffers), the integrity of the     *)
(* outbound byte stream, the agreement of the state machine with the       *)
(* transport, and that rx_len never underflows.                            *)
(***************************************************************************)
EXTENDS AemlibClient, SequenceTheorems, TLAPS

-----------------------------------------------------------------------------
(* Byte sequences *)

\* Cutting a buffer in two loses nothing: memmove() of the rest and the bytes
\* written before it are together the buffer.
LEMMA CutSequence ==
    ASSUME NEW S, NEW s \in Seq(S), NEW n \in 0..Len(s)
    PROVE  /\ Taken(s, n) \in Seq(S)
           /\ Len(Taken(s, n)) = n
           /\ Remaining(s, n) \in Seq(S)
           /\ Len(Remaining(s, n)) = Len(s) - n
           /\ Taken(s, n) \o Remaining(s, n) = s
<1>1. /\ Taken(s, n) \in Seq(S)
      /\ Len(Taken(s, n)) = n
      /\ \A j \in 1..n : Taken(s, n)[j] = s[j]
  BY SubSeqProperties DEF Taken
<1>2. /\ Remaining(s, n) \in Seq(S)
      /\ Len(Remaining(s, n)) = Len(s) - n
      /\ \A j \in 1..(Len(s) - n) : Remaining(s, n)[j] = s[n + j]
  BY SubSeqProperties DEF Remaining
<1>3. Taken(s, n) \o Remaining(s, n) = s
  <2>1. Len(s) \in Nat
    BY LenProperties
  <2>2. /\ 1 \in 1..(Len(s) + 1)
        /\ n \in (1 - 1)..Len(s)
        /\ Len(s) \in n..Len(s)
    BY <2>1
  <2>3. SubSeq(s, 1, n) \o SubSeq(s, n + 1, Len(s)) = SubSeq(s, 1, Len(s))
    BY <2>2, ConcatAdjacentSubSeq
  <2>4. SubSeq(s, 1, Len(s)) = s
    BY SubSeqFull
  <2>. QED BY <2>3, <2>4 DEF Taken, Remaining
<1>. QED BY <1>1, <1>2, <1>3

\* A function on 1..n is a sequence of length n (IsASeq, without an operator
\* argument).
LEMMA FunctionIsSeq ==
    ASSUME NEW S, NEW n \in Nat, NEW f \in [1..n -> S]
    PROVE  f \in Seq(S) /\ Len(f) = n
<1>1. f \in Seq(S)
  BY SeqDef
<1>2. DOMAIN f = 1..n /\ DOMAIN f = 1..Len(f) /\ Len(f) \in Nat
  BY <1>1, LenProperties
<1>. QED BY <1>1, <1>2

-----------------------------------------------------------------------------
(* Outbound packets *)

Types == OutTypes \cup {"nothing"}

\* what the encoders produce is one packet
LEMMA BytesAreAPacket ==
    ASSUME NEW t \in OutTypes, NEW n \in Nat \ {0}
    PROVE  /\ Bytes(Packet(t, n)) \in Seq(OutByte)
           /\ Len(Bytes(Packet(t, n))) = n
           /\ WholePacket(Bytes(Packet(t, n)))
<1>. DEFINE b == Bytes(Packet(t, n))
<1>1. b = [j \in 1..n |-> [t |-> t, n |-> n, i |-> j]]
  BY DEF Bytes, Packet
<1>2. b \in [1..n -> OutByte]
  BY <1>1 DEF OutByte
<1>3. b \in Seq(OutByte) /\ Len(b) = n
  BY <1>2, FunctionIsSeq
<1>4. b # <<>>
  BY <1>3, EmptySeq
<1>5. \A j \in 1..n : b[j] = [t |-> t, n |-> n, i |-> j]
  BY <1>1
<1>6. b[1].t = t /\ b[1].n = n
  <2>1. 1 \in 1..n
    OBVIOUS
  <2>2. b[1] = [t |-> t, n |-> n, i |-> 1]
    BY <1>5, <2>1
  <2>. HIDE DEF b
  <2>. QED BY <2>2
<1>7. WholePacket(b)
  BY <1>3, <1>4, <1>5, <1>6 DEF WholePacket, PartOfPacket
<1>. QED BY <1>3, <1>7

\* the first byte of a packet names a real packet type
LEMMA HeadOfPacket ==
    ASSUME NEW f \in Seq(OutByte), WholePacket(f)
    PROVE  f[1].t \in OutTypes
<1>1. f # <<>> /\ f[1] = [t |-> f[1].t, n |-> f[1].n, i |-> 1]
  <2>1. Len(f) \in Nat \ {0}
    BY EmptySeq DEF WholePacket
  <2>. QED BY <2>1 DEF WholePacket, PartOfPacket
<1>2. f[1] \in OutByte
  <2>1. 1 \in 1..Len(f)
    BY <1>1, EmptySeq
  <2>. QED BY <2>1, ElementOfSeq
<1>3. f[1].i = 1
  BY <1>1
<1>4. f[1] # Scratch
  BY <1>3 DEF Scratch
<1>. QED BY <1>2, <1>4 DEF OutByte

\* The broker's side of a write keeps its types.
LEMMA TransmitType ==
    ASSUME TypeOK, NEW b \in Seq(OutByte), Transmit(b)
    PROVE  /\ frame' \in Seq(OutByte)
           /\ in_sync' \in BOOLEAN
           /\ heard' \in Types
           /\ connects' \in 0..2
<1>. DEFINE f == frame \o b
<1>1. f \in Seq(OutByte)
  BY ConcatProperties DEF TypeOK
<1>2. frame' \in Seq(OutByte)
  BY <1>1, EmptySeq DEF Transmit
<1>3. in_sync' \in BOOLEAN
  BY DEF Transmit, TypeOK
<1>4. heard' \in Types
  <2>1. CASE in_sync /\ WholePacket(f) /\ heard = "nothing"
    BY <2>1, <1>1, HeadOfPacket DEF Transmit, Types
  <2>2. CASE ~(in_sync /\ WholePacket(f) /\ heard = "nothing")
    BY <2>2 DEF Transmit, Types, TypeOK
  <2>. QED BY <2>1, <2>2
<1>5. connects' \in 0..2
  BY DEF Transmit, TypeOK
<1>. QED BY <1>2, <1>3, <1>4, <1>5

\* A write moves the front of the staged bytes to the broker.  If broker and
\* staged bytes are one packet together, either they still are, and the broker
\* has not got it whole, or the broker has, and nothing is left of it.
LEMMA TransmitMoves ==
    ASSUME TypeOK, in_sync,
           NEW s \in Seq(OutByte), NEW n \in 0..Len(s),
           frame \o s = <<>> \/ WholePacket(frame \o s),
           Transmit(Taken(s, n))
    PROVE  /\ in_sync'
           /\ \/ /\ ~WholePacket(frame \o Taken(s, n))
                 /\ frame' \o Remaining(s, n) = frame \o s
              \/ /\ WholePacket(frame \o Taken(s, n))
                 /\ frame \o Taken(s, n) = frame \o s
                 /\ frame' \o Remaining(s, n) = <<>>
<1>. DEFINE b == Taken(s, n)
            r == Remaining(s, n)
            f == frame \o b
            w == frame \o s
<1>1. /\ b \in Seq(OutByte) /\ r \in Seq(OutByte)
      /\ b \o r = s /\ Len(b) = n /\ Len(r) = Len(s) - n
      /\ frame \in Seq(OutByte)
  BY CutSequence DEF TypeOK
<1>. HIDE DEF b, r
<1>2. /\ f \in Seq(OutByte) /\ w \in Seq(OutByte)
      /\ f \o r = w
      /\ Len(w) = Len(f) + Len(r)
      /\ \A j \in 1..Len(f) : w[j] = f[j]
      /\ Len(f) \in Nat /\ Len(r) \in Nat
  <2>1. f \in Seq(OutByte) /\ w \in Seq(OutByte)
    BY <1>1, ConcatProperties
  <2>2. f \o r = w
    <3>1. frame \in Seq(OutByte) /\ b \in Seq(OutByte) /\ r \in Seq(OutByte)
      BY <1>1
    <3>2. (frame \o b) \o r = frame \o (b \o r)
      BY <3>1
    <3>. QED BY <3>2, <1>1
  <2>3. Len(f) \in Nat /\ Len(r) \in Nat
    BY <2>1, <1>1, LenProperties
  <2>. HIDE DEF f, w
  <2>4. /\ Len(f \o r) = Len(f) + Len(r)
        /\ \A j \in 1..(Len(f) + Len(r)) :
              (f \o r)[j] = IF j <= Len(f) THEN f[j] ELSE r[j - Len(f)]
    BY <2>1, <1>1, ConcatProperties
  <2>. QED BY <2>1, <2>2, <2>3, <2>4
<1>3. /\ PartOfPacket(f) => in_sync'
      /\ frame' = IF PartOfPacket(f) /\ ~WholePacket(f) THEN f ELSE <<>>
  <2>1. /\ in_sync' = (in_sync /\ PartOfPacket(f))
        /\ frame' = IF (in_sync /\ PartOfPacket(f)) /\ ~(in_sync /\ WholePacket(f))
                    THEN f ELSE <<>>
    BY DEF Transmit, b
  <2>. HIDE DEF f
  <2>. QED BY <2>1
<1>4. CASE w = <<>>
  <2>1. f = <<>> /\ r = <<>>
    BY <1>4, <1>2, <1>1, ConcatEqualIffEmpty
  <2>2. PartOfPacket(f) /\ ~WholePacket(f)
    BY <2>1 DEF PartOfPacket, WholePacket
  <2>. QED BY <2>1, <2>2, <1>3, <1>4, <1>2 DEF r, b
<1>5. CASE WholePacket(w)
  <2>1. PartOfPacket(f)
    <3>1. CASE f = <<>>
      BY <3>1 DEF PartOfPacket
    <3>2. CASE f # <<>>
      <4>1. Len(f) \in Nat \ {0}
        BY <3>2, <1>2, EmptySeq
      <4>2. w[1] = f[1]
        BY <4>1, <1>2
      <4>3. Len(w) = w[1].n /\ \A j \in 1..Len(w) :
                                 w[j] = [t |-> w[1].t, n |-> w[1].n, i |-> j]
        BY <1>5 DEF WholePacket, PartOfPacket
      <4>. HIDE DEF f, w
      <4>4. Len(f) <= f[1].n
        BY <4>2, <4>3, <1>2
      <4>5. \A j \in 1..Len(f) : f[j] = [t |-> f[1].t, n |-> f[1].n, i |-> j]
        BY <4>2, <4>3, <1>2
      <4>. QED BY <4>4, <4>5 DEF PartOfPacket
    <3>. QED BY <3>1, <3>2
  <2>2. CASE WholePacket(f)
    <3>1. Len(f) \in Nat \ {0}
      BY <2>2, <1>2, EmptySeq DEF WholePacket
    <3>2. Len(w) = w[1].n /\ Len(f) = f[1].n /\ w[1] = f[1]
      BY <3>1, <2>2, <1>5, <1>2 DEF WholePacket
    <3>3. r = <<>>
      <4>. HIDE DEF f, w
      <4>1. Len(r) = 0
        BY <3>2, <1>2
      <4>. QED BY <4>1, <1>1, EmptySeq
    <3>4. frame' = <<>>
      BY <2>2, <1>3
    <3>5. frame' \o r = <<>>
      BY <3>3, <3>4, EmptySeq, ConcatEmptySeq
    <3>6. f = w
      BY <3>3, <1>2, ConcatEmptySeq
    <3>. QED BY <3>5, <3>6, <2>1, <2>2, <1>3 DEF r, b
  <2>3. CASE ~WholePacket(f)
    BY <2>3, <2>1, <1>2, <1>3, <1>5 DEF r, b
  <2>. QED BY <2>2, <2>3
<1>. QED BY <1>4, <1>5

\* Broker and staged bytes stay one packet together, or nothing.
LEMMA TransmitKeepsStream ==
    ASSUME TypeOK, in_sync,
           NEW s \in Seq(OutByte), NEW n \in 0..Len(s),
           frame \o s = <<>> \/ WholePacket(frame \o s),
           Transmit(Taken(s, n))
    PROVE  /\ in_sync'
           /\ \/ frame' \o Remaining(s, n) = <<>>
              \/ WholePacket(frame' \o Remaining(s, n))
BY TransmitMoves

-----------------------------------------------------------------------------
(* Sending *)

\* the transport never reports more than it was given
LEMMA WriteBounds ==
    ASSUME TypeOK, NEW len \in Nat, NEW w \in transport_write(len)
    PROVE  w.ok \in BOOLEAN /\ w.n \in 0..len /\ (~w.ok => w.n = 0)
<1>1. transport_write(len) \subseteq {Moved(k) : k \in 0..len} \cup {Failed}
  <2>1. CASE link = "up"
    BY <2>1 DEF transport_write
  <2>2. CASE link = "opening"
    BY <2>2 DEF transport_write
  <2>3. CASE link = "dead"
    BY <2>3 DEF transport_write
  <2>4. CASE link = "down"
    BY <2>4 DEF transport_write
  <2>. QED BY <2>1, <2>2, <2>3, <2>4 DEF TypeOK, Links
<1>2. CASE w = Failed
  <2>1. w.ok = FALSE /\ w.n = 0
    BY <1>2 DEF Failed
  <2>2. w.n \in 0..len
    BY <2>1
  <2>. QED BY <2>1, <2>2, Zenon
<1>3. CASE w \in {Moved(k) : k \in 0..len}
  <2>1. PICK k \in 0..len : w = [ok |-> TRUE, n |-> k]
    BY <1>3 DEF Moved
  <2>2. w.ok = TRUE /\ w.n = k
    BY <2>1
  <2>. QED BY <2>2, Zenon
<1>. QED BY <1>1, <1>2, <1>3

\* Encoding over staged bytes changes them, never their number.
LEMMA OverlayType ==
    ASSUME TypeOK, NEW t \in OutTypes, NEW n \in Nat \ {0}, NEW fields \in BOOLEAN
    PROVE  /\ EncodedOver(Packet(t, n)) \in Seq(OutByte)
           /\ Len(EncodedOver(Packet(t, n))) = Len(tx_pending)
           /\ HalfEncodedOver(Packet(t, n), fields) \in Seq(OutByte)
           /\ Len(HalfEncodedOver(Packet(t, n), fields)) = Len(tx_pending)
           /\ tx_pending = <<>> => HalfEncodedOver(Packet(t, n), fields) = <<>>
<1>. DEFINE p == Packet(t, n)
            b == Bytes(p)
            m == Len(tx_pending)
<1>1. b \in Seq(OutByte) /\ Len(b) = n /\ p.len = n
  BY BytesAreAPacket DEF Packet
<1>2. \A j \in 1..n : b[j] \in OutByte
  BY <1>1, ElementOfSeq
<1>3. m \in Nat /\ \A j \in 1..m : tx_pending[j] \in OutByte
  BY ElementOfSeq, LenProperties DEF TypeOK
<1>4. Scratch \in OutByte
  BY DEF OutByte
<1>. HIDE DEF p, b
<1>5. EncodedOver(p) \in [1..m -> OutByte]
  BY <1>1, <1>2, <1>3, <1>4 DEF EncodedOver, b
<1>6. HalfEncodedOver(p, fields) \in [1..m -> OutByte]
  <2>1. b[1] \in OutByte
    BY <1>2
  <2>. QED BY <2>1, <1>3, <1>4 DEF HalfEncodedOver, b
<1>7. /\ EncodedOver(p) \in Seq(OutByte) /\ Len(EncodedOver(p)) = m
      /\ HalfEncodedOver(p, fields) \in Seq(OutByte)
      /\ Len(HalfEncodedOver(p, fields)) = m
  BY <1>3, <1>5, <1>6, FunctionIsSeq
<1>8. tx_pending = <<>> => HalfEncodedOver(p, fields) = <<>>
  BY <1>7, EmptySeq
<1>. QED BY <1>7, <1>8 DEF p

\* the broker never sits on a packet it has got whole
FrameOpen == ~WholePacket(frame)

\* StreamIntact alone is not inductive: from an arbitrary state that satisfies
\* it, a send could start behind a whole packet still in frame.
StreamInv == FrameOpen /\ StreamIntact

\* The broker never holds on to a packet it has got whole.
LEMMA TransmitKeepsFrameOpen ==
    ASSUME NEW b, Transmit(b)
    PROVE  FrameOpen'
<1>1. ~WholePacket(<<>>)
  BY DEF WholePacket
<1>. DEFINE f == frame \o b
<1>2. frame' = IF (in_sync /\ PartOfPacket(f)) /\ ~(in_sync /\ WholePacket(f))
               THEN f ELSE <<>>
  BY DEF Transmit
<1>. HIDE DEF f
<1>3. ~WholePacket(frame')
  BY <1>1, <1>2
<1>. QED BY <1>3 DEF FrameOpen, WholePacket, PartOfPacket

\* What a send does to the variables it may change.
SendOK ==
    /\ tx_pending' \in Seq(OutByte)
    /\ Len(tx_pending') <= TxSize
    /\ frame' \in Seq(OutByte)
    /\ in_sync' \in BOOLEAN
    /\ heard' \in Types
    /\ connects' \in 0..2
    /\ damage' \subseteq Damages

\* A send keeps the types, tx_buffer's bound among them, and the integrity of
\* the outbound stream.
LEMMA SendPreserves ==
    ASSUME TypeOK,
           NEW t \in OutTypes, NEW n \in Nat \ {0}, t = "PINGREQ" => n = PingLen,
           NEW st, EncodeAndSend(Packet(t, n), st)
    PROVE  /\ SendOK
           /\ StreamInv => StreamInv'
<1>. DEFINE p == Packet(t, n)
            b == Bytes(p)
<1>0. p.len = n /\ p.type = t
  BY DEF Packet
<1>1. b \in Seq(OutByte) /\ Len(b) = n /\ WholePacket(b)
  BY BytesAreAPacket
<1>. HIDE DEF p, b
<1>2. CASE Encodes(p) /\ tx_pending # <<>> /\ client_send(p, st)
  <2>1. /\ tx_pending' = EncodedOver(p)
        /\ damage' = damage \cup {"tx_overwritten"}
        /\ UNCHANGED <<frame, in_sync, heard, connects>>
    BY <1>2 DEF client_send, broker
  <2>2. tx_pending' \in Seq(OutByte) /\ Len(tx_pending') <= TxSize
    BY <2>1, OverlayType DEF TypeOK, p
  <2>3. SendOK
    BY <2>1, <2>2 DEF SendOK, TypeOK, Damages, TxDamage, Types
  <2>4. StreamInv => StreamInv'
    BY <2>1 DEF StreamInv, FrameOpen, StreamIntact, TxDamage, WholePacket, PartOfPacket
  <2>. QED BY <2>3, <2>4
<1>3. CASE Encodes(p) /\ tx_pending = <<>> /\ client_send(p, st)
  <2>1. PICK w \in transport_write(n) :
              /\ tx_pending' = IF w.ok THEN Remaining(b, w.n) ELSE <<>>
              /\ Transmit(Taken(b, w.n))
              /\ UNCHANGED damage
    BY <1>3, <1>0 DEF client_send, b
  <2>2. w.ok \in BOOLEAN /\ w.n \in 0..n /\ (~w.ok => w.n = 0)
    BY <2>1, WriteBounds
  <2>3. /\ Taken(b, w.n) \in Seq(OutByte)
        /\ Remaining(b, w.n) \in Seq(OutByte)
        /\ Len(Remaining(b, w.n)) = n - w.n
    BY <2>2, <1>1, CutSequence
  <2>4. n <= TxSize
    BY <1>3, <1>0, SizesAssumption DEF Encodes, PingLen, Slack, RlBytes, MaxRl
  <2>5. tx_pending' \in Seq(OutByte) /\ Len(tx_pending') <= TxSize
    <3>1. CASE w.ok
      BY <3>1, <2>1, <2>2, <2>3, <2>4, SizesAssumption
    <3>2. CASE ~w.ok
      BY <3>2, <2>1, EmptySeq, SizesAssumption
    <3>. QED BY <3>1, <3>2
  <2>6. /\ frame' \in Seq(OutByte) /\ in_sync' \in BOOLEAN
        /\ heard' \in Types /\ connects' \in 0..2
    BY <2>1, <2>3, TransmitType
  <2>7. SendOK
    BY <2>1, <2>5, <2>6 DEF SendOK, TypeOK
  <2>8. ASSUME StreamInv PROVE StreamIntact'
    <3>1. SUFFICES ASSUME damage \cap TxDamage = {}
                   PROVE  /\ in_sync'
                          /\ \/ frame' \o tx_pending' = <<>>
                             \/ WholePacket(frame' \o tx_pending')
      BY <2>1 DEF StreamIntact, WholePacket, PartOfPacket
    <3>2. in_sync /\ frame = <<>>
      <4>1. frame \o tx_pending = frame
        BY <1>3, ConcatEmptySeq DEF TypeOK
      <4>. QED BY <4>1, <2>8, <3>1 DEF StreamInv, FrameOpen, StreamIntact
    <3>3. CASE w.ok
      <4>1. frame \o b = b
        BY <3>2, <1>1, ConcatEmptySeq
      <4>2. w.n \in 0..Len(b)
        BY <2>2, <1>1
      <4>3. /\ in_sync'
            /\ \/ frame' \o Remaining(b, w.n) = <<>>
               \/ WholePacket(frame' \o Remaining(b, w.n))
        BY <4>1, <4>2, <3>2, <2>1, <1>1, TransmitKeepsStream
      <4>. QED BY <4>3, <3>3, <2>1
    <3>4. CASE ~w.ok
      <4>1. Taken(b, w.n) = <<>>
        BY <3>4, <2>2 DEF Taken
      <4>2. frame \o Taken(b, w.n) = <<>>
        BY <4>1, <3>2, EmptySeq, ConcatEmptySeq
      <4>3. in_sync' /\ frame' = <<>>
        BY <4>2, <3>2, <2>1 DEF Transmit, PartOfPacket
      <4>4. frame' \o tx_pending' = <<>>
        BY <4>3, <3>4, <2>1, EmptySeq, ConcatEmptySeq
      <4>. QED BY <4>3, <4>4
    <3>. QED BY <3>3, <3>4
  <2>9. FrameOpen'
    BY <2>1, TransmitKeepsFrameOpen
  <2>. QED BY <2>7, <2>8, <2>9 DEF StreamInv
<1>4. CASE ~Encodes(p)
  <2>1. PICK fields \in BOOLEAN :
              tx_pending' = IF t = "PINGREQ" THEN tx_pending
                            ELSE HalfEncodedOver(p, fields)
    BY <1>4, <1>0 DEF EncodeAndSend, p
  <2>2. /\ damage' = IF t = "PINGREQ" \/ tx_pending = <<>> THEN damage
                     ELSE damage \cup {"tx_overwritten"}
        /\ UNCHANGED <<frame, in_sync, heard, connects>>
    BY <1>4, <1>0 DEF EncodeAndSend, broker, p
  <2>3. /\ HalfEncodedOver(p, fields) \in Seq(OutByte)
        /\ Len(HalfEncodedOver(p, fields)) = Len(tx_pending)
        /\ tx_pending = <<>> => HalfEncodedOver(p, fields) = <<>>
    BY OverlayType DEF p
  <2>4. SendOK
    BY <2>1, <2>2, <2>3 DEF SendOK, TypeOK, Damages, TxDamage, Types
  <2>5. ("tx_overwritten" \in damage') \/ (tx_pending' = tx_pending /\ damage' = damage)
    BY <2>1, <2>2, <2>3
  <2>6. StreamInv => StreamInv'
    BY <2>2, <2>5 DEF StreamInv, FrameOpen, StreamIntact, TxDamage, WholePacket, PartOfPacket
  <2>. QED BY <2>4, <2>6
<1>. QED BY <1>2, <1>3, <1>4 DEF EncodeAndSend, client_send, p

-----------------------------------------------------------------------------
(* Receiving *)

\* the transport never fills more than it was offered
LEMMA ReadBounds ==
    ASSUME TypeOK, NEW room \in Nat, NEW r \in transport_read(room)
    PROVE  r.n \in 0..Len(inbox) /\ r.n <= room
<1>. DEFINE m == IF room < Len(inbox) THEN room ELSE Len(inbox)
<1>0. Len(inbox) \in Nat /\ m \in 0..Len(inbox) /\ m <= room
  BY LenProperties DEF TypeOK
<1>1. transport_read(room) \subseteq {Moved(k) : k \in 0..m} \cup {Failed}
  <2>1. CASE link = "up"
    BY <2>1 DEF transport_read
  <2>2. CASE link = "opening"
    BY <2>2, <1>0 DEF transport_read
  <2>3. CASE link = "dead"
    BY <2>3 DEF transport_read
  <2>4. CASE link = "down"
    BY <2>4 DEF transport_read
  <2>. QED BY <2>1, <2>2, <2>3, <2>4 DEF TypeOK, Links
<1>2. r.n \in 0..m
  <2>1. CASE r = Failed
    BY <2>1, <1>0 DEF Failed
  <2>2. CASE r \in {Moved(k) : k \in 0..m}
    BY <2>2 DEF Moved
  <2>. QED BY <1>1, <2>1, <2>2
<1>. QED BY <1>0, <1>2

\* Reading appends to rx_buffer within its bound.
LEMMA ReadPreserves ==
    ASSUME TypeOK, NEW r \in transport_read(RxRoom),
           rx' = rx \o Taken(inbox, r.n),
           inbox' = Remaining(inbox, r.n)
    PROVE  /\ rx' \in Seq(InByte) /\ Len(rx') <= RxSize
           /\ inbox' \in Seq(InByte)
<1>1. RxRoom \in Nat /\ Len(rx) \in Nat
  BY LenProperties, SizesAssumption DEF TypeOK, RxRoom
<1>2. r.n \in 0..Len(inbox) /\ r.n <= RxRoom
  BY <1>1, ReadBounds
<1>3. /\ Taken(inbox, r.n) \in Seq(InByte)
      /\ Len(Taken(inbox, r.n)) = r.n
      /\ Remaining(inbox, r.n) \in Seq(InByte)
  BY <1>2, CutSequence DEF TypeOK
<1>. DEFINE b == Taken(inbox, r.n)
<1>. HIDE DEF b
<1>4. rx' \in Seq(InByte) /\ Len(rx') = Len(rx) + r.n
  <2>1. b \in Seq(InByte) /\ Len(b) = r.n /\ rx' = rx \o b /\ rx \in Seq(InByte)
    BY <1>3 DEF b, TypeOK
  <2>. QED BY <2>1, ConcatProperties
<1>. QED BY <1>1, <1>2, <1>3, <1>4, SizesAssumption DEF RxRoom

\* Consuming a packet keeps rx_buffer within its bound.
LEMMA ConsumePreserves ==
    ASSUME TypeOK, NEW n \in Nat, n <= Len(rx)
    PROVE  Remaining(rx, n) \in Seq(InByte) /\ Len(Remaining(rx, n)) <= RxSize
<1>1. Len(rx) \in Nat /\ n \in 0..Len(rx)
  BY LenProperties DEF TypeOK
<1>2. Remaining(rx, n) \in Seq(InByte) /\ Len(Remaining(rx, n)) = Len(rx) - n
  BY <1>1, CutSequence DEF TypeOK
<1>. QED BY <1>1, <1>2, SizesAssumption DEF TypeOK

\* what every inbound packet looks like to the decoders
LEMMA InPacketType ==
    ASSUME NEW k \in AllInKinds
    PROVE  InPacket(k).len \in Nat \ {0, 1} /\ InPacket(k).body \in Statuses
<1>1. CASE k = "CONNACK_OK"
  BY <1>1, SizesAssumption DEF InPacket, Statuses
<1>2. CASE k = "CONNACK_REFUSED"
  BY <1>2, SizesAssumption DEF InPacket, Statuses
<1>3. CASE k = "CONNACK_SHORT"
  BY <1>3, SizesAssumption DEF InPacket, Statuses
<1>4. CASE k = "CONNACK_BIG"
  BY <1>4, SizesAssumption DEF InPacket, Statuses
<1>5. CASE k = "PUBLISH"
  BY <1>5, SizesAssumption DEF InPacket, Statuses
<1>6. CASE k = "PUBLISH_QOS1"
  BY <1>6, SizesAssumption DEF InPacket, Statuses
<1>7. CASE k = "PUBLISH_MALFORMED"
  BY <1>7, SizesAssumption DEF InPacket, Statuses
<1>8. CASE k = "PUBLISH_BIG"
  BY <1>8, SizesAssumption DEF InPacket, Statuses
<1>9. CASE k = "PINGRESP"
  BY <1>9, SizesAssumption DEF InPacket, Statuses
<1>10. CASE k = "SUBACK"
  BY <1>10, SizesAssumption DEF InPacket, Statuses
<1>11. CASE k = "BAD_FLAGS"
  BY <1>11, SizesAssumption DEF InPacket, Statuses
<1>. QED BY <1>1, <1>2, <1>3, <1>4, <1>5, <1>6, <1>7, <1>8, <1>9, <1>10, <1>11 DEF AllInKinds

\* a decoded header names a length of two bytes or more
LEMMA HeaderType ==
    ASSUME TypeOK, NEW h \in decode_fixed_header(rx)
    PROVE  h.len \in Nat /\ h.body \in Statuses
<1>1. CASE h \in {TooSmall, BadHeader}
  BY <1>1 DEF TooSmall, BadHeader, Statuses
<1>2. CASE h \in AnyHeader(rx)
  BY <1>2, SizesAssumption DEF AnyHeader, TooSmall, BadHeader, Statuses
<1>3. CASE Len(rx) >= 2 /\ h = Header(InPacket(rx[1].k))
  <2>1. 1 \in 1..Len(rx)
    BY <1>3, LenProperties DEF TypeOK
  <2>2. rx[1].k \in AllInKinds
    <3>1. rx[1] \in InByte
      BY <2>1, ElementOfSeq DEF TypeOK
    <3>. QED BY <3>1, UserAssumption DEF InByte
  <2>3. h.len = InPacket(rx[1].k).len /\ h.body = InPacket(rx[1].k).body
    BY <1>3 DEF Header
  <2>. QED BY <2>2, <2>3, InPacketType
<1>. QED
  <2>1. Len(rx) \in Nat
    BY LenProperties DEF TypeOK
  <2>. QED BY <1>1, <1>2, <1>3, <2>1 DEF decode_fixed_header

\* the broker's packets are sequences of inbound bytes
LEMMA InBytesType ==
    ASSUME NEW k \in InKinds, NEW n \in Nat
    PROVE  InBytes(k, n) \in Seq(InByte)
<1>. DEFINE m == InPacket(k).len
<1>1. m \in Nat
  BY InPacketType, UserAssumption
<1>. HIDE DEF m
<1>2. [j \in 1..m |-> [k |-> k, n |-> n, i |-> j]] \in [1..m -> InByte]
  BY <1>1 DEF InByte
<1>3. [j \in 1..m |-> [k |-> k, n |-> n, i |-> j]] \in Seq(InByte)
  BY <1>1, <1>2, FunctionIsSeq
<1>. QED BY <1>3 DEF InBytes, m

-----------------------------------------------------------------------------
(* Type correctness *)

\* The saturation of the clock is a number.
LEMMA AgeCapType == AgeCap \in Nat
BY TimesAssumption DEF AgeCap

\* Empty buffers are buffers.
LEMMA EmptyBuffers ==
    /\ <<>> \in Seq(OutByte) /\ <<>> \in Seq(InByte)
    /\ <<>> \in Seq(InKinds) /\ <<>> \in Seq(Nat)
    /\ Len(<<>>) = 0 /\ 0 <= TxSize /\ 0 <= RxSize
BY EmptySeq, SizesAssumption

\* aemlib_core_init() leaves a well-typed client.
LEMMA TypeInit == Init => TypeOK
<1>. SUFFICES ASSUME Init PROVE TypeOK
  OBVIOUS
<1>1. /\ tx_pending \in Seq(OutByte) /\ Len(tx_pending) <= TxSize
      /\ rx \in Seq(InByte) /\ Len(rx) <= RxSize
      /\ inbox \in Seq(InByte) /\ sent \in Seq(InKinds)
      /\ frame \in Seq(OutByte) /\ delivered \in Seq(Nat)
      /\ outer \in Seq(Nat)
  BY EmptyBuffers DEF Init
<1>2. packet_id \in 1..(PidMod - 1) /\ age \in 0..AgeCap
  BY TimesAssumption, AgeCapType DEF Init
<1>3. connect_sent \in BOOLEAN /\ in_sync \in BOOLEAN /\ damage \subseteq Damages
  BY DEF Init
<1>4. /\ state \in States /\ pc \in PcPoints /\ poll_status \in Statuses
      /\ link \in Links /\ heard \in OutTypes \cup {"nothing"}
      /\ packet_len \in Nat /\ done \in Nat /\ connects \in 0..2
  BY DEF Init, States, PcPoints, Statuses, Links
<1>. QED BY <1>1, <1>2, <1>3, <1>4 DEF TypeOK

\* an API call or the poll: the steps of the client
LEMMA TypeUser == TypeOK /\ User => TypeOK'
<1>. SUFFICES ASSUME TypeOK, User PROVE TypeOK'
  OBVIOUS
<1>1. CASE aemlib_connect
  <2>1. /\ tx_pending' \in Seq(OutByte) /\ Len(tx_pending') <= TxSize
        /\ rx' \in Seq(InByte) /\ Len(rx') <= RxSize
    BY <1>1, EmptyBuffers DEF aemlib_connect, DiscardLeftovers
  <2>2. state' \in States /\ connect_sent' \in BOOLEAN
    BY <1>1 DEF aemlib_connect, States
  <2>3. /\ sent' \in Seq(InKinds) /\ done' \in Nat /\ delivered' \in Seq(Nat)
        /\ frame' \in Seq(OutByte) /\ in_sync' \in BOOLEAN
        /\ heard' \in OutTypes \cup {"nothing"} /\ connects' \in 0..2
        /\ damage' \subseteq Damages
    <3>1. CASE NewConnection
      <4>1. /\ sent' \in Seq(InKinds) /\ done' \in Nat /\ delivered' \in Seq(Nat)
            /\ heard' \in OutTypes \cup {"nothing"} /\ connects' \in 0..2
        BY <3>1, EmptyBuffers DEF NewConnection
      <4>2. frame' \in Seq(OutByte) /\ in_sync' \in BOOLEAN
        BY <3>1, EmptyBuffers, TransportAssumption DEF NewConnection, TypeOK
      <4>3. damage' \subseteq Damages
        BY <3>1 DEF NewConnection, Stale, Damages, TxDamage, RxDamage
      <4>. QED BY <4>1, <4>2, <4>3
    <3>2. CASE SameConnection
      BY <3>2 DEF SameConnection, Discarded, TypeOK, broker, Damages, TxDamage, RxDamage
    <3>. QED BY <1>1, <3>1, <3>2 DEF aemlib_connect
  <2>4. UNCHANGED <<packet_id, age, pc, packet_len, poll_status, outer, link, inbox>>
    BY <1>1 DEF aemlib_connect, call
  <2>. QED BY <2>1, <2>2, <2>3, <2>4 DEF TypeOK
<1>2. CASE aemlib_connect_invalid
  BY <1>2, EmptySeq, SizesAssumption
     DEF aemlib_connect_invalid, DiscardLeftovers, Discarded, TypeOK, call, broker, net,
         Damages, TxDamage, RxDamage
<1>3. CASE aemlib_disconnect
  BY <1>3 DEF aemlib_disconnect, TypeOK, call, broker, net, hist, States
<1>4. CASE aemlib_publish
  <2>1. PICK len \in PublishLens, st \in Statuses :
              EncodeAndSend(Packet("PUBLISH", len), st)
    BY <1>4 DEF aemlib_publish
  <2>2. SendOK
    BY <2>1, SendPreserves, SizesAssumption DEF OutTypes
  <2>. QED BY <1>4, <2>2 DEF aemlib_publish, SendOK, Types, TypeOK, call, net
<1>5. CASE aemlib_subscribe
  <2>1. PICK st \in Statuses : EncodeAndSend(Packet("SUBSCRIBE", SubscribeLen), st)
    BY <1>5 DEF aemlib_subscribe
  <2>2. SendOK
    BY <2>1, SendPreserves, SizesAssumption DEF OutTypes
  <2>3. packet_id' \in 1..(PidMod - 1)
    BY <1>5, TimesAssumption DEF aemlib_subscribe, next_packet_id, TypeOK
  <2>. QED BY <1>5, <2>2, <2>3 DEF aemlib_subscribe, SendOK, Types, TypeOK, call, net
<1>6. CASE poll_from_callback
  <2>1. <<packet_len>> \in Seq(Nat) /\ outer \in Seq(Nat)
    BY DEF TypeOK
  <2>2. outer' \in Seq(Nat)
    BY <1>6, <2>1, ConcatProperties DEF poll_from_callback
  <2>. QED BY <1>6, <2>2
           DEF poll_from_callback, TypeOK, client, broker, net, PcPoints, Damages, RxDamage
<1>. QED BY <1>1, <1>2, <1>3, <1>4, <1>5, <1>6 DEF User

\* the variables of a poll in progress
CallOK ==
    /\ pc' \in PcPoints
    /\ packet_len' \in Nat
    /\ poll_status' \in Statuses
    /\ outer' \in Seq(Nat)

\* A poll returns to the application or to the callback it was called from.
LEMMA ReturnType ==
    ASSUME TypeOK, NEW st \in Statuses, Return(st)
    PROVE  CallOK
<1>1. CASE outer = <<>>
  BY <1>1, EmptySeq DEF Return, CallOK, PcPoints
<1>2. CASE outer # <<>>
  <2>1. Head(outer) \in Nat /\ Tail(outer) \in Seq(Nat)
    BY <1>2, HeadTailProperties DEF TypeOK
  <2>. QED BY <1>2, <2>1 DEF Return, CallOK, PcPoints
<1>. QED BY <1>1, <1>2

\* Going on to another point of the poll changes nothing else.
LEMMA GotoType ==
    ASSUME TypeOK, NEW point \in PcPoints, Goto(point)
    PROVE  CallOK
BY DEF Goto, CallOK, TypeOK

\* CONNECT is sent, or the poll is over.
LEMMA ConnectIfUnsentType ==
    ASSUME TypeOK, ConnectIfUnsent
    PROVE  CallOK
<1>1. "OK" \in Statuses /\ "send_connect" \in PcPoints
  BY DEF Statuses, PcPoints
<1>. QED BY <1>1, ReturnType, GotoType DEF ConnectIfUnsent

\* what ending a connection does to the variables it touches
LEMMA HangUpType ==
    ASSUME TypeOK, NEW st \in Statuses, HangUp(st)
    PROVE  /\ link' \in Links /\ inbox' \in Seq(InByte) /\ sent' \in Seq(InKinds)
           /\ state' \in States
           /\ CallOK
BY EmptySeq, ReturnType
   DEF HangUp, transport_disconnect, LeftBehind, TypeOK, Links, States

\* Every step of aemlib_poll() keeps the client well typed.
LEMMA TypePoll == TypeOK /\ Poll => TypeOK'
<1>. SUFFICES ASSUME TypeOK, Poll PROVE TypeOK'
  OBVIOUS
<1>. USE DEF CallOK
<1>0. /\ {"core", "connack", "read", "parse", "consume", "keepalive"} \subseteq PcPoints
      /\ {"OK", "IO", "TIMEOUT", "CONNECT"} \subseteq Statuses
  BY DEF PcPoints, Statuses
<1>1. CASE client_flush_pending
  <2>1. CASE tx_pending = <<>> /\ Goto("core") /\ UNCHANGED <<tx_pending, broker>>
    BY <1>0, <1>1, <2>1, GotoType DEF client_flush_pending, TypeOK, broker, net, hist
  <2>2. CASE \E w \in transport_write(Len(tx_pending)) :
                /\ tx_pending' = Remaining(tx_pending, w.n)
                /\ Transmit(Taken(tx_pending, w.n))
                /\ IF w.ok THEN Goto("core") ELSE Return("IO")
    <3>1. PICK w \in transport_write(Len(tx_pending)) :
                /\ tx_pending' = Remaining(tx_pending, w.n)
                /\ Transmit(Taken(tx_pending, w.n))
                /\ IF w.ok THEN Goto("core") ELSE Return("IO")
      BY <2>2
    <3>2. Len(tx_pending) \in Nat /\ w.n \in 0..Len(tx_pending)
      BY <3>1, WriteBounds, LenProperties DEF TypeOK
    <3>3. /\ Taken(tx_pending, w.n) \in Seq(OutByte)
          /\ tx_pending' \in Seq(OutByte)
          /\ Len(tx_pending') = Len(tx_pending) - w.n
      BY <3>1, <3>2, CutSequence DEF TypeOK
    <3>4. Len(tx_pending') <= TxSize
      BY <3>2, <3>3, SizesAssumption, SMTT(30) DEF TypeOK
    <3>5. /\ frame' \in Seq(OutByte) /\ in_sync' \in BOOLEAN
          /\ heard' \in OutTypes \cup {"nothing"} /\ connects' \in 0..2
      BY <3>1, <3>3, TransmitType DEF Types
    <3>6. CallOK
      BY <3>1, <1>0, GotoType, ReturnType
    <3>. QED BY <1>1, <3>3, <3>4, <3>5, <3>6 DEF client_flush_pending, TypeOK, net, hist
  <2>. QED BY <1>1, <2>1, <2>2 DEF client_flush_pending
<1>2. CASE handle_state_disconnected
  BY <1>0, <1>2, ReturnType
     DEF handle_state_disconnected, TypeOK, client, broker, net, hist
<1>3. CASE handle_state_connecting
  <2>1. PICK r \in transport_connect :
          /\ link' = r[1]
          /\ inbox' = IF r[1] = "down" THEN LeftBehind ELSE inbox
          /\ \/ r[2] = "OK" /\ state' = "CONNECT_SENT" /\ age' = 0 /\ ConnectIfUnsent
             \/ r[2] = "WOULD_BLOCK" /\ Return("OK") /\ UNCHANGED <<state, age>>
             \/ r[2] = "IO" /\ state' = "DISCONNECTED" /\ Return("IO") /\ UNCHANGED age
    BY <1>3 DEF handle_state_connecting
  <2>2. r[1] \in Links
    BY <2>1 DEF transport_connect, Links, TypeOK
  <2>3. inbox' \in Seq(InByte)
    BY <2>1, EmptySeq DEF TypeOK, LeftBehind
  <2>4. state' \in States /\ age' \in 0..AgeCap
    BY <2>1, AgeCapType DEF States, TypeOK
  <2>5. CallOK
    BY <1>0, <2>1, ReturnType, ConnectIfUnsentType
  <2>. QED BY <1>3, <2>1, <2>2, <2>3, <2>4, <2>5
           DEF handle_state_connecting, TypeOK, broker, hist
<1>4. CASE connect_sent_read
  <2>1. PICK r \in transport_read(RxRoom) :
          \/ HangUp("IO") /\ UNCHANGED rx
          \/ /\ rx' = rx \o Taken(inbox, r.n)
             /\ inbox' = Remaining(inbox, r.n)
             /\ Goto("connack")
             /\ UNCHANGED <<state, link, sent>>
    BY <1>4 DEF connect_sent_read
  <2>2. CASE HangUp("IO") /\ UNCHANGED rx
    <3>1. "IO" \in Statuses
      BY DEF Statuses
    <3>. QED BY <1>4, <2>2, <3>1, HangUpType DEF connect_sent_read, TypeOK, broker, hist
  <2>3. CASE /\ rx' = rx \o Taken(inbox, r.n)
             /\ inbox' = Remaining(inbox, r.n)
             /\ Goto("connack")
             /\ UNCHANGED <<state, link, sent>>
    <3>1. rx' \in Seq(InByte) /\ Len(rx') <= RxSize /\ inbox' \in Seq(InByte)
      BY <2>1, <2>3, ReadPreserves
    <3>. QED BY <1>0, <1>4, <2>3, <3>1, GotoType DEF connect_sent_read, TypeOK, broker, hist
  <2>. QED BY <2>1, <2>2, <2>3
<1>5. CASE connack_wait
  <2>1. CASE HangUp("TIMEOUT")
    <3>1. "TIMEOUT" \in Statuses
      BY DEF Statuses
    <3>. QED BY <1>5, <2>1, <3>1, HangUpType DEF connack_wait, TypeOK, broker, hist
  <2>2. CASE ConnectIfUnsent /\ UNCHANGED <<state, net>>
    BY <1>5, <2>2, ConnectIfUnsentType DEF connack_wait, TypeOK, broker, net, hist
  <2>. QED BY <1>5, <2>1, <2>2 DEF connack_wait
<1>6. CASE connack_error
  <2>1. PICK st \in Statuses : HangUp(st)
    BY <1>6 DEF connack_error, Statuses
  <2>. QED BY <1>6, <2>1, HangUpType DEF connack_error, TypeOK, broker, hist
<1>7. CASE connack_received
  <2>1. PICK h \in decode_fixed_header(rx) :
          /\ h.len <= Len(rx)
          /\ rx' = AfterConnack(h.len)
          /\ done' = done + 1
          /\ \/ state' = "CONNECTED" /\ age' = 0 /\ Goto("read") /\ UNCHANGED net
             \/ HangUp("CONNECT") /\ UNCHANGED age
    BY <1>7 DEF connack_received
  <2>2. rx' \in Seq(InByte) /\ Len(rx') <= RxSize
    BY <2>1, HeaderType, ConsumePreserves DEF AfterConnack
  <2>3. done' \in Nat
    BY <2>1 DEF TypeOK
  <2>4. CASE state' = "CONNECTED" /\ age' = 0 /\ Goto("read") /\ UNCHANGED net
    BY <1>0, <1>7, <2>2, <2>3, <2>4, AgeCapType, GotoType
       DEF connack_received, TypeOK, net, broker, States
  <2>5. CASE HangUp("CONNECT") /\ UNCHANGED age
    <3>1. "CONNECT" \in Statuses
      BY DEF Statuses
    <3>. QED BY <1>7, <2>2, <2>3, <2>5, <3>1, HangUpType
             DEF connack_received, TypeOK, broker
  <2>. QED BY <2>1, <2>4, <2>5
<1>8. CASE client_send_connect
  <2>1. PICK st \in Statuses :
          /\ EncodeAndSend(Packet("CONNECT", ConnectLen), st)
          /\ connect_sent' = (st = "OK")
          /\ Return(st)
    BY <1>8 DEF client_send_connect
  <2>2. SendOK
    BY <2>1, SendPreserves, SizesAssumption DEF OutTypes
  <2>3. connect_sent' \in BOOLEAN
    BY <2>1, Zenon
  <2>. QED BY <1>8, <2>1, <2>2, <2>3, ReturnType
           DEF client_send_connect, SendOK, Types, TypeOK, net
<1>9. CASE handle_state_mqtt_connected
  BY <1>0, <1>9, GotoType
     DEF handle_state_mqtt_connected, TypeOK, client, broker, net, hist
<1>10. CASE handle_state_mqtt_disconnecting
  <2>1. "OK" \in Statuses /\ HangUp("OK")
    BY <1>10 DEF handle_state_mqtt_disconnecting, Statuses
  <2>. QED BY <1>10, <2>1, HangUpType
           DEF handle_state_mqtt_disconnecting, TypeOK, broker, hist
<1>11. CASE client_read
  <2>1. PICK r \in transport_read(RxRoom) :
          \/ Return("IO") /\ UNCHANGED <<rx, inbox>>
          \/ /\ rx' = rx \o Taken(inbox, r.n)
             /\ inbox' = Remaining(inbox, r.n)
             /\ Goto("parse")
    BY <1>11 DEF client_read
  <2>2. CASE Return("IO") /\ UNCHANGED <<rx, inbox>>
    BY <1>0, <1>11, <2>2, ReturnType DEF client_read, TypeOK, broker, hist
  <2>3. CASE /\ rx' = rx \o Taken(inbox, r.n)
             /\ inbox' = Remaining(inbox, r.n)
             /\ Goto("parse")
    <3>1. rx' \in Seq(InByte) /\ Len(rx') <= RxSize /\ inbox' \in Seq(InByte)
      BY <2>1, <2>3, ReadPreserves
    <3>. QED BY <1>0, <1>11, <2>3, <3>1, GotoType DEF client_read, TypeOK, broker, hist
  <2>. QED BY <2>1, <2>2, <2>3
<1>12. CASE parse_wait
  BY <1>0, <1>12, GotoType DEF parse_wait, TypeOK, client, broker, net, hist
<1>13. CASE parse_error
  <2>1. \E st \in Statuses : Return(st)
    <3>1. PICK h \in decode_fixed_header(rx) :
                 \/ Return("BUFFER_TOO_SMALL") \/ Return("PROTOCOL") \/ Return(h.body)
      BY <1>13 DEF parse_error
    <3>. QED BY <3>1, HeaderType DEF Statuses
  <2>. QED BY <1>13, <2>1, ReturnType DEF parse_error, TypeOK, client, broker, net, hist
<1>14. CASE client_dispatch_packet
  <2>1. PICK h \in decode_fixed_header(rx) :
          /\ h.st = "OK" /\ PacketBuffered(h)
          /\ packet_len' = h.len
          /\ IF h.type = "PUBLISH" /\ OnMessage
             THEN pc' = "callback" /\ delivered' = Append(delivered, rx[1].n)
             ELSE pc' = "consume" /\ UNCHANGED delivered
    BY <1>14 DEF client_dispatch_packet
  <2>2. packet_len' \in Nat /\ pc' \in PcPoints
    BY <2>1, HeaderType DEF PcPoints
  <2>3. delivered' \in Seq(Nat)
    <3>1. Len(rx) \in Nat \ {0}
      <4>1. h # TooSmall
        BY <2>1 DEF TooSmall
      <4>. QED BY <4>1, <2>1, LenProperties DEF decode_fixed_header, TypeOK
    <3>2. rx[1] \in InByte
      BY <3>1, ElementOfSeq DEF TypeOK
    <3>3. rx[1].n \in Nat
      BY <3>2 DEF InByte
    <3>4. Append(delivered, rx[1].n) \in Seq(Nat)
      BY <3>3, AppendProperties DEF TypeOK
    <3>. QED BY <2>1, <3>4 DEF TypeOK
  <2>. QED BY <1>14, <2>2, <2>3
           DEF client_dispatch_packet, TypeOK, client, broker, net
<1>15. CASE on_message_returns
  BY <1>0, <1>15, GotoType
     DEF on_message_returns, TypeOK, client, broker, net, hist
<1>16. CASE consume_packet
  <2>1. CASE packet_len <= Len(rx)
    <3>1. Remaining(rx, packet_len) \in Seq(InByte) /\ Len(Remaining(rx, packet_len)) <= RxSize
      BY <2>1, ConsumePreserves DEF TypeOK
    <3>2. /\ rx' = Remaining(rx, packet_len) /\ packet_len' = 0
          /\ done' = done + 1 /\ pc' = "parse"
      BY <1>16, <2>1, LenProperties DEF consume_packet, NextPacket, TypeOK
    <3>. QED BY <1>16, <3>1, <3>2 DEF consume_packet, TypeOK, broker, net, PcPoints
  <2>2. CASE ~(packet_len <= Len(rx))
    BY <1>16, <2>2 DEF consume_packet, TypeOK, broker, net, PcPoints
  <2>. QED BY <2>1, <2>2
<1>17. CASE client_keepalive
  <2>1. CASE KeepaliveDue
    <3>1. PICK st \in Statuses :
             /\ EncodeAndSend(Packet("PINGREQ", PingLen), st)
             /\ age' = IF st = "OK" THEN 0 ELSE age
             /\ Return(st)
      BY <1>17, <2>1 DEF client_keepalive
    <3>2. SendOK
      BY <3>1, SendPreserves DEF OutTypes, PingLen
    <3>3. age' \in 0..AgeCap
      BY <3>1, AgeCapType DEF TypeOK
    <3>. QED BY <1>17, <3>1, <3>2, <3>3, ReturnType
             DEF client_keepalive, SendOK, Types, TypeOK, net
  <2>2. CASE ~KeepaliveDue
    BY <1>0, <1>17, <2>2, ReturnType DEF client_keepalive, TypeOK, broker, net
  <2>. QED BY <2>1, <2>2
<1>. QED BY <1>1, <1>2, <1>3, <1>4, <1>5, <1>6, <1>7, <1>8, <1>9, <1>10, <1>11,
            <1>12, <1>13, <1>14, <1>15, <1>16, <1>17 DEF Poll

\* The clock, the network and the broker keep their own state well typed.
LEMMA TypeEnv == TypeOK /\ (Tick \/ Network) => TypeOK'
<1>. SUFFICES ASSUME TypeOK, Tick \/ Network PROVE TypeOK'
  OBVIOUS
<1>1. CASE Tick
  BY <1>1, AgeCapType DEF Tick, TypeOK, call, broker, net, hist
<1>2. CASE LinkOpens
  BY <1>2 DEF LinkOpens, Opens, TypeOK, client, call, broker, hist, Links
<1>3. CASE LinkDies
  BY <1>3, EmptySeq DEF LinkDies, Dies, TypeOK, client, call, broker, hist, Links
<1>4. ASSUME NEW kind \in InKinds, BrokerSends(kind) PROVE TypeOK'
  <2>1. Len(sent) + 1 \in Nat
    BY LenProperties DEF TypeOK
  <2>2. InBytes(kind, Len(sent) + 1) \in Seq(InByte)
    BY <2>1, InBytesType
  <2>3. inbox' \in Seq(InByte)
    BY <1>4, <2>2, ConcatProperties DEF BrokerSends, TypeOK
  <2>4. sent' \in Seq(InKinds)
    BY <1>4, AppendProperties DEF BrokerSends, TypeOK
  <2>. QED BY <1>4, <2>3, <2>4 DEF BrokerSends, TypeOK, client, call, broker, hist
<1>. QED BY <1>1, <1>2, <1>3, <1>4 DEF Network

\* Every step keeps the types.
LEMMA TypeStep == TypeOK /\ [Next]_vars => TypeOK'
<1>. SUFFICES ASSUME TypeOK, [Next]_vars PROVE TypeOK'
  OBVIOUS
<1>1. CASE UNCHANGED vars
  BY <1>1 DEF vars, client, call, broker, net, hist, TypeOK
<1>. QED BY <1>1, TypeUser, TypePoll, TypeEnv DEF Next

\* Every behaviour of the client is type correct: in particular no sequence of
\* calls, reads and writes takes rx_len or tx_pending_len past its buffer
\* (client_read, client_send), and packet_id is never zero.
THEOREM TypeCorrect == Spec => []TypeOK
<1>. QED BY TypeInit, TypeStep, PTL DEF Spec

-----------------------------------------------------------------------------
(* The outbound stream *)

\* Nothing is staged or sent at first.
LEMMA StreamInit == Init => StreamInv
<1>. SUFFICES ASSUME Init PROVE StreamInv
  OBVIOUS
<1>1. frame = <<>> /\ tx_pending = <<>> /\ in_sync = TRUE
  BY DEF Init
<1>2. frame \o tx_pending = <<>>
  BY <1>1, EmptySeq, ConcatEmptySeq
<1>3. ~WholePacket(frame)
  BY <1>1 DEF WholePacket
<1>. QED BY <1>1, <1>2, <1>3 DEF StreamInv, FrameOpen, StreamIntact

\* steps that leave the transmit side alone
LEMMA StreamUntouched ==
    ASSUME StreamInv, UNCHANGED <<tx_pending, frame, in_sync, damage>>
    PROVE  StreamInv'
BY DEF StreamInv, FrameOpen, StreamIntact, WholePacket, PartOfPacket

\* Bytes that aemlib_connect() drops from tx_buffer are damage.
LEMMA StreamDiscarded ==
    ASSUME StreamInv, tx_pending' = <<>>, UNCHANGED <<frame, in_sync>>,
           damage' = damage \cup Discarded
    PROVE  StreamInv'
<1>1. tx_pending # <<>> => "tx_dropped" \in damage'
  BY DEF Discarded
<1>2. CASE tx_pending = <<>>
  BY <1>2 DEF StreamInv, FrameOpen, StreamIntact, WholePacket, PartOfPacket
<1>3. CASE tx_pending # <<>>
  BY <1>1, <1>3 DEF StreamInv, FrameOpen, StreamIntact, TxDamage, WholePacket, PartOfPacket
<1>. QED BY <1>2, <1>3

\* Every step keeps the outbound stream cut into whole packets.
LEMMA StreamStep == TypeOK /\ StreamInv /\ [Next]_vars => StreamInv'
<1>. SUFFICES ASSUME TypeOK, StreamInv, [Next]_vars PROVE StreamInv'
  OBVIOUS
<1>1. CASE aemlib_connect
  <2>1. tx_pending' = <<>>
    BY <1>1 DEF aemlib_connect, DiscardLeftovers
  <2>2. CASE NewConnection
    <3>1. /\ frame' = <<>> \/ frame' = frame
          /\ (in_sync' /\ frame' = <<>>) \/ "tx_stale" \in damage'
      BY <2>2, TransportAssumption DEF NewConnection, Stale
    <3>2. frame' = <<>> => frame' \o tx_pending' = <<>>
      BY <2>1, EmptySeq, ConcatEmptySeq
    <3>3. ~WholePacket(frame')
      BY <3>1 DEF StreamInv, FrameOpen, WholePacket
    <3>. QED BY <3>1, <3>2, <3>3
             DEF StreamInv, FrameOpen, StreamIntact, TxDamage, WholePacket, PartOfPacket
  <2>3. CASE SameConnection
    BY <2>1, <2>3, StreamDiscarded DEF SameConnection, broker
  <2>. QED BY <1>1, <2>2, <2>3 DEF aemlib_connect
<1>2. CASE aemlib_connect_invalid
  BY <1>2, StreamDiscarded DEF aemlib_connect_invalid, DiscardLeftovers, broker
<1>3. CASE aemlib_publish
  BY <1>3, SendPreserves, SizesAssumption DEF aemlib_publish, OutTypes
<1>4. CASE aemlib_subscribe
  BY <1>4, SendPreserves, SizesAssumption DEF aemlib_subscribe, OutTypes
<1>5. CASE client_send_connect
  BY <1>5, SendPreserves, SizesAssumption DEF client_send_connect, OutTypes
<1>6. CASE client_keepalive
  <2>1. CASE KeepaliveDue
    BY <1>6, <2>1, SendPreserves DEF client_keepalive, OutTypes, PingLen
  <2>2. CASE ~KeepaliveDue
    BY <1>6, <2>2, StreamUntouched DEF client_keepalive, broker
  <2>. QED BY <2>1, <2>2
<1>7. CASE client_flush_pending
  <2>1. CASE UNCHANGED <<tx_pending, broker>>
    BY <1>7, <2>1, StreamUntouched DEF client_flush_pending, broker, hist
  <2>2. CASE \E w \in transport_write(Len(tx_pending)) :
                /\ tx_pending' = Remaining(tx_pending, w.n)
                /\ Transmit(Taken(tx_pending, w.n))
    <3>1. PICK w \in transport_write(Len(tx_pending)) :
                /\ tx_pending' = Remaining(tx_pending, w.n)
                /\ Transmit(Taken(tx_pending, w.n))
      BY <2>2
    <3>2. Len(tx_pending) \in Nat /\ w.n \in 0..Len(tx_pending)
      BY <3>1, WriteBounds, LenProperties DEF TypeOK
    <3>3. FrameOpen'
      BY <3>1, TransmitKeepsFrameOpen
    <3>4. damage' = damage
      BY <1>7 DEF client_flush_pending, hist
    <3>5. ASSUME damage \cap TxDamage = {}
          PROVE  /\ in_sync'
                 /\ \/ frame' \o tx_pending' = <<>>
                    \/ WholePacket(frame' \o tx_pending')
      <4>1. /\ in_sync /\ tx_pending \in Seq(OutByte)
            /\ frame \o tx_pending = <<>> \/ WholePacket(frame \o tx_pending)
        BY <3>5 DEF StreamInv, StreamIntact, TypeOK
      <4>2. /\ in_sync'
            /\ \/ frame' \o Remaining(tx_pending, w.n) = <<>>
               \/ WholePacket(frame' \o Remaining(tx_pending, w.n))
        BY <4>1, <3>1, <3>2, TransmitKeepsStream
      <4>. QED BY <4>2, <3>1
    <3>6. StreamIntact'
      BY <3>4, <3>5 DEF StreamIntact, WholePacket, PartOfPacket
    <3>. QED BY <3>3, <3>6 DEF StreamInv
  <2>. QED BY <1>7, <2>1, <2>2 DEF client_flush_pending
<1>8. CASE UNCHANGED <<tx_pending, frame, in_sync, damage>>
  BY <1>8, StreamUntouched
<1>9. ASSUME Next PROVE \/ aemlib_connect \/ aemlib_connect_invalid
                        \/ aemlib_publish \/ aemlib_subscribe
                        \/ client_send_connect \/ client_keepalive
                        \/ client_flush_pending \/ poll_from_callback
                        \/ UNCHANGED <<tx_pending, frame, in_sync, damage>>
  <2>1. CASE User
    BY <2>1 DEF User, aemlib_disconnect, broker, hist
  <2>2. CASE Poll
    BY <2>2 DEF Poll, handle_state_disconnected, handle_state_connecting,
         connect_sent_read, connack_wait, connack_error, connack_received,
         handle_state_mqtt_connected, handle_state_mqtt_disconnecting,
         client_read, parse_wait, parse_error, client_dispatch_packet,
         on_message_returns, consume_packet, client, broker, hist
  <2>3. CASE Tick \/ Network
    BY <2>3 DEF Tick, Network, LinkOpens, Opens, LinkDies, Dies, BrokerSends, client, broker, hist
  <2>. QED BY <1>9, <2>1, <2>2, <2>3 DEF Next
<1>10. CASE poll_from_callback
  <2>1. UNCHANGED <<tx_pending, frame, in_sync>> /\ damage \subseteq damage'
    BY <1>10 DEF poll_from_callback, client, broker
  <2>. QED BY <2>1 DEF StreamInv, FrameOpen, StreamIntact, WholePacket, PartOfPacket
<1>11. CASE UNCHANGED vars
  BY <1>11, StreamUntouched DEF vars, client, broker, hist
<1>. QED BY <1>1, <1>2, <1>3, <1>4, <1>5, <1>6, <1>7, <1>8, <1>9, <1>10, <1>11

\* For every buffer size, packet length and sequence of short writes, blocked
\* writes, errors and API calls: as long as no API call overwrote or dropped
\* staged bytes, the broker's stream is whole packets followed by the one in
\* progress, and the staged bytes are exactly its remainder (client_send,
\* client_flush_pending).
THEOREM StreamCorrect == Spec => []StreamIntact
<1>1. Init => TypeOK /\ StreamInv
  BY TypeInit, StreamInit
<1>2. (TypeOK /\ StreamInv) /\ [Next]_vars => (TypeOK /\ StreamInv)'
  BY TypeStep, StreamStep
<1>3. StreamInv => StreamIntact
  BY DEF StreamInv
<1>. QED BY <1>1, <1>2, <1>3, PTL DEF Spec

-----------------------------------------------------------------------------
(* State machine and transport *)

\* TransportHeld needs to know that the CONNACK is looked at and CONNECT is sent
\* in CONNECT_SENT only: connack_received enters CONNECTED without asking the
\* transport, and a failed attempt leaves connect_sent as aemlib_connect() set it.
TransportInv ==
    /\ TransportHeld
    /\ pc \in {"connack", "send_connect"} => state = "CONNECT_SENT"
    /\ state = "CONNECTING" => ~connect_sent

\* Every step keeps the state machine and the transport in agreement.
LEMMA TransportStep == TypeOK /\ TransportInv /\ [Next]_vars => TransportInv'
<1>. SUFFICES ASSUME TypeOK, TransportInv, [Next]_vars PROVE TransportInv'
  OBVIOUS
<1>. USE DEF TransportInv, TransportHeld, Return, Goto, HangUp, transport_disconnect
<1>1. CASE User
  BY <1>1 DEF User, aemlib_connect, aemlib_connect_invalid, aemlib_disconnect,
              aemlib_publish, aemlib_subscribe, poll_from_callback, MayCall, client,
              call, net, SameConnection
<1>2. CASE handle_state_connecting
  <2>1. PICK r \in transport_connect :
          /\ link' = r[1]
          /\ \/ r[2] = "OK" /\ state' = "CONNECT_SENT"
             \/ r[2] = "WOULD_BLOCK" /\ state' = state
             \/ r[2] = "IO" /\ state' = "DISCONNECTED"
    BY <1>2 DEF handle_state_connecting
  <2>2. pc' # "connack" /\ (pc' = "send_connect" => state' = "CONNECT_SENT")
    BY <1>2 DEF handle_state_connecting, ConnectIfUnsent
  <2>3. \/ r \in {<<"up", "OK">>, <<"opening", "WOULD_BLOCK">>, <<"down", "IO">>, <<"dead", "OK">>}
        \/ ConnectKeeps /\ r = <<link, "IO">>
    BY <2>1 DEF transport_connect, TypeOK, Links
  <2>4. state = "CONNECTING" /\ connect_sent' = connect_sent
    BY <1>2 DEF handle_state_connecting
  <2>. QED BY <2>1, <2>2, <2>3, <2>4
<1>3. CASE connect_sent_read
  BY <1>3 DEF connect_sent_read
<1>4. CASE connack_wait \/ connack_error \/ connack_received
  BY <1>4 DEF connack_wait, connack_error, connack_received, ConnectIfUnsent, net
<1>5. CASE \/ client_send_connect \/ handle_state_mqtt_connected
           \/ handle_state_mqtt_disconnecting \/ handle_state_disconnected
  BY <1>5 DEF client_send_connect, handle_state_mqtt_connected, client, net,
              handle_state_mqtt_disconnecting, handle_state_disconnected
<1>6. CASE client_flush_pending
  BY <1>6 DEF client_flush_pending, net
<1>7. CASE client_read \/ parse_wait \/ parse_error \/ client_dispatch_packet
  BY <1>7 DEF client_read, parse_wait, parse_error, client_dispatch_packet, client, net
<1>8. CASE on_message_returns \/ consume_packet \/ client_keepalive
  BY <1>8 DEF on_message_returns, consume_packet, NextPacket, client_keepalive, client, net
<1>9. CASE Tick \/ Network
  BY <1>9 DEF Tick, Network, LinkOpens, Opens, LinkDies, Dies, BrokerSends, client, call, net
<1>10. CASE UNCHANGED vars
  BY <1>10 DEF vars, client, call, net
<1>. QED BY <1>1, <1>2, <1>3, <1>4, <1>5, <1>6, <1>7, <1>8, <1>9, <1>10 DEF Next, Poll

\* A DISCONNECTED client holds no connection, or one without a CONNECT that its
\* transport kept, and CONNECT_SENT, CONNECTED and DISCONNECTING are reached on
\* an established one only, whatever fails on the way (the error paths of
\* handle_state_mqtt_connect_sent).
THEOREM TransportCorrect == Spec => []TransportHeld
<1>1. Init => TypeOK /\ TransportInv
  BY TypeInit DEF Init, TransportInv, TransportHeld
<1>2. (TypeOK /\ TransportInv) /\ [Next]_vars => (TypeOK /\ TransportInv)'
  BY TypeStep, TransportStep
<1>3. TransportInv => TransportHeld
  BY DEF TransportInv
<1>. QED BY <1>1, <1>2, <1>3, PTL DEF Spec

-----------------------------------------------------------------------------
(* client_read()'s subtraction *)

\* Unless on_message called aemlib_connect() or aemlib_poll() into a running
\* client_read(): the client is CONNECTED or, after a disconnect from
\* on_message, DISCONNECTING while client_read() runs, so a callback cannot
\* start a connection; and the packet being dispatched stays in rx_buffer until
\* it is consumed.  Between polls none is suspended, so that the history may
\* start afresh there.
ReadInv ==
    /\ pc = "idle" => outer = <<>>
    /\ "rx_reentered" \notin damage =>
          /\ outer = <<>>
          /\ pc \in {"read", "parse", "callback", "consume", "keepalive"}
                => state \in {"CONNECTED", "DISCONNECTING"}
          /\ pc \in {"callback", "consume"} => packet_len <= Len(rx)
          /\ pc # "undefined"

\* A send records damage to staged bytes only.
LEMMA SendDamage ==
    ASSUME NEW p, NEW st, EncodeAndSend(p, st)
    PROVE  "rx_reentered" \in damage' <=> "rx_reentered" \in damage
BY DEF EncodeAndSend, client_send

\* Every step keeps the packet being dispatched within rx_buffer.
LEMMA ReadStep ==
    ASSUME TypeOK, TransportInv, ReadInv, [Next]_vars
    PROVE  ReadInv'
<1>. USE DEF ReadInv, Return, Goto, hist
<1>0. Len(rx) \in Nat /\ packet_len \in Nat
  BY LenProperties DEF TypeOK
<1>1. CASE aemlib_connect \/ aemlib_connect_invalid
  BY <1>1 DEF aemlib_connect, aemlib_connect_invalid, NewConnection, SameConnection,
              Stale, Discarded, MayCall, call
<1>2. CASE aemlib_disconnect \/ aemlib_publish \/ aemlib_subscribe \/ poll_from_callback
  BY <1>2, SendDamage
     DEF aemlib_disconnect, aemlib_publish, aemlib_subscribe, poll_from_callback, call
<1>3. CASE client_flush_pending
  BY <1>3 DEF client_flush_pending
<1>4. CASE handle_state_connecting
  BY <1>4 DEF handle_state_connecting, ConnectIfUnsent
<1>5. CASE connect_sent_read
  BY <1>5 DEF connect_sent_read, HangUp
<1>6. CASE connack_wait \/ connack_error \/ connack_received
  BY <1>6 DEF connack_wait, connack_error, connack_received, ConnectIfUnsent, HangUp
<1>7. CASE \/ client_send_connect \/ handle_state_mqtt_connected
           \/ handle_state_mqtt_disconnecting \/ handle_state_disconnected
  BY <1>7, SendDamage
     DEF client_send_connect, handle_state_mqtt_connected, client,
         handle_state_mqtt_disconnecting, handle_state_disconnected, HangUp
<1>8. CASE client_read \/ parse_wait \/ parse_error
  BY <1>8 DEF client_read, parse_wait, parse_error, client
<1>9. CASE client_dispatch_packet
  <2>1. /\ pc' \in {"callback", "consume"} /\ packet_len' <= Len(rx)
        /\ UNCHANGED <<state, rx, outer, damage>>
    BY <1>9 DEF client_dispatch_packet, PacketBuffered, client
  <2>2. pc = "parse"
    BY <1>9 DEF client_dispatch_packet
  <2>. QED BY <2>1, <2>2
<1>10. CASE on_message_returns \/ client_keepalive
  BY <1>10, SendDamage DEF on_message_returns, client_keepalive, client
<1>11. CASE consume_packet
  BY <1>11, <1>0 DEF consume_packet, NextPacket
<1>12. CASE Tick \/ Network
  BY <1>12 DEF Tick, Network, LinkOpens, Opens, LinkDies, Dies, BrokerSends, client, call
<1>13. CASE UNCHANGED vars
  BY <1>13 DEF vars, client, call
<1>. QED BY <1>1, <1>2, <1>3, <1>4, <1>5, <1>6, <1>7, <1>8, <1>9, <1>10, <1>11,
            <1>12, <1>13 DEF Next, User, Poll

\* Whatever API functions on_message calls, aemlib_poll() and aemlib_connect() on
\* the live client excepted, client_read() never subtracts more than rx_len holds.
THEOREM NoUnderflowCorrect == Spec => []NoUnderflow
<1>1. Init => TypeOK /\ TransportInv /\ ReadInv
  <2>1. Init => TransportInv /\ ReadInv
    BY DEF Init, TransportInv, TransportHeld, ReadInv, NoUnderflow
  <2>. QED BY <2>1, TypeInit
<1>2. (TypeOK /\ TransportInv /\ ReadInv) /\ [Next]_vars
         => (TypeOK /\ TransportInv /\ ReadInv)'
  BY TypeStep, TransportStep, ReadStep
<1>3. ReadInv => NoUnderflow
  BY DEF ReadInv, NoUnderflow
<1>. QED BY <1>1, <1>2, <1>3, PTL DEF Spec
=============================================================================
