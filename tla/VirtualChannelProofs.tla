------------------------ MODULE VirtualChannelProofs ------------------------
(***************************************************************************)
(* The ring buffer stays inside its storage and implements the FIFO byte   *)
(* pipe, for every size of the storage, every set of byte values and every *)
(* bound on the size of a call.                                            *)
(***************************************************************************)
EXTENDS VirtualChannel, SequenceTheorems, TLAPS

\* The slot of an index that has run past the end of the storage at most once.
Wrapped(a) == IF a < BufSize THEN a ELSE a - BufSize

\* Such an index is its own slot, or one at the front of the storage.
LEMMA ModWrap ==
    ASSUME NEW a \in Nat, a < 2 * BufSize
    PROVE  a % BufSize = Wrapped(a)
  BY BufSizeAssumption, Z3 DEF Wrapped

\* The slots of the i-th stored byte and of the tail, as the two channel
\* functions compute them.
LEMMA Slots ==
    ASSUME InStorage
    PROVE  /\ \A i \in 1..BufSize : (head + i - 1) % BufSize = Wrapped(head + i - 1)
           /\ \A n \in 0..BufSize : (head + n) % BufSize = Wrapped(head + n)
           /\ tail = Wrapped(head + len)
  <1>0. /\ BufSize \in Nat \ {0} /\ head \in Nat /\ head < BufSize
        /\ len \in Nat /\ len <= BufSize
    BY BufSizeAssumption DEF InStorage, Index
  <1>1. ASSUME NEW i \in 1..BufSize
        PROVE  (head + i - 1) % BufSize = Wrapped(head + i - 1)
    <2>1. head + i - 1 \in Nat /\ head + i - 1 < 2 * BufSize
      BY <1>0
    <2>. QED  BY <2>1, ModWrap, Zenon
  <1>2. ASSUME NEW n \in 0..BufSize
        PROVE  (head + n) % BufSize = Wrapped(head + n)
    <2>1. head + n \in Nat /\ head + n < 2 * BufSize
      BY <1>0
    <2>. QED  BY <2>1, ModWrap, Zenon
  <1>3. tail = Wrapped(head + len)
    <2>1. head + len \in Nat /\ head + len < 2 * BufSize
      BY <1>0
    <2>. QED  BY <2>1, ModWrap, Zenon DEF tail
  <1>. QED  BY <1>1, <1>2, <1>3

\* The slot of the i-th byte lies in the storage, and its distance from the
\* tail tells whether a write reaches it.
LEMMA SlotDistance ==
    ASSUME InStorage, NEW i \in 1..BufSize
    PROVE  LET j == (head + i - 1) % BufSize IN
           /\ j \in Index
           /\ Distance(j) = IF i > len THEN i - len - 1 ELSE i - len - 1 + BufSize
  <1>. DEFINE j == (head + i - 1) % BufSize
  <1>0. /\ BufSize \in Nat \ {0} /\ head \in Nat /\ head < BufSize
        /\ len \in Nat /\ len <= BufSize
    BY BufSizeAssumption DEF InStorage, Index
  <1>1. j = Wrapped(head + i - 1)
    BY Slots, Zenon
  <1>2. tail = Wrapped(head + len)
    BY Slots, Zenon
  <1>. HIDE DEF j
  <1>3. j \in Index
    BY <1>0, <1>1 DEF Index, Wrapped
  <1>4. Distance(j) = IF i > len THEN i - len - 1 ELSE i - len - 1 + BufSize
    <2>1. CASE head + len < BufSize
      BY <2>1, <1>0, <1>1, <1>2 DEF Distance, Wrapped
    <2>2. CASE head + len >= BufSize
      BY <2>2, <1>0, <1>1, <1>2 DEF Distance, Wrapped
    <2>. QED  BY <1>0, <2>1, <2>2
  <1>. QED  BY <1>3, <1>4 DEF j

\* Moving head by n moves the i-th byte to the place of the (n+i)-th.
LEMMA Shift ==
    ASSUME InStorage, NEW n \in 0..len, NEW i \in 1..(len - n)
    PROVE  (((head + n) % BufSize) + i - 1) % BufSize = (head + (n + i) - 1) % BufSize
  <1>0. /\ BufSize \in Nat \ {0} /\ head \in Nat /\ head < BufSize
        /\ len \in Nat /\ len <= BufSize /\ n \in 0..BufSize
        /\ i \in Nat \ {0} /\ n + i \in 1..BufSize
    BY BufSizeAssumption DEF InStorage, Index
  <1>1. (head + n) % BufSize = Wrapped(head + n)
    BY <1>0, Slots, Zenon
  <1>2. (head + (n + i) - 1) % BufSize = Wrapped(head + (n + i) - 1)
    BY <1>0, Slots, Zenon
  <1>3. CASE head + n < BufSize
    <2>1. Wrapped(head + n) + i - 1 = head + (n + i) - 1
      BY <1>0, <1>3 DEF Wrapped
    <2>. QED  BY <2>1, <1>1, Zenon
  <1>4. CASE ~(head + n < BufSize)
    <2>1. /\ Wrapped(head + n) + i - 1 \in Nat
          /\ Wrapped(head + n) + i - 1 < 2 * BufSize
          /\ Wrapped(Wrapped(head + n) + i - 1) = Wrapped(head + (n + i) - 1)
      BY <1>0, <1>4 DEF Wrapped
    <2>2. (Wrapped(head + n) + i - 1) % BufSize = Wrapped(Wrapped(head + n) + i - 1)
      BY <2>1, ModWrap, Zenon
    <2>. QED  BY <1>1, <1>2, <2>1, <2>2, Zenon
  <1>. QED  BY <1>3, <1>4

\* What a caller passes is a sequence of bytes.
LEMMA CallIsSeq ==
    ASSUME NEW data \in Calls
    PROVE  data \in Seq(Byte)
  <1>1. PICK n \in 0..MaxCall : data \in [1..n -> Byte]
    BY DEF Calls
  <1>. QED  BY <1>1, MaxCallAssumption

\* n bytes of the ring form a sequence of bytes.
LEMMA StoredIsSeq ==
    ASSUME InStorage, NEW n \in 0..len
    PROVE  /\ Stored(n) \in Seq(Byte)
           /\ Len(Stored(n)) = n
           /\ \A i \in 1..n : Stored(n)[i] = buf[(head + i - 1) % BufSize]
  <1>0. n \in Nat /\ n <= BufSize
    BY BufSizeAssumption DEF InStorage
  <1>1. \A i \in 1..n : (head + i - 1) % BufSize \in Index
    <2>. TAKE i \in 1..n
    <2>1. i \in 1..BufSize  BY <1>0, BufSizeAssumption
    <2>. QED  BY <2>1, SlotDistance
  <1>2. Stored(n) \in [1..n -> Byte]
    BY <1>1 DEF Stored, InStorage
  <1>. QED  BY <1>0, <1>2 DEF Stored

-----------------------------------------------------------------------------
\* A write leaves head, len and the storage in bounds, and reports bytes.
LEMMA WriteStep ==
    ASSUME InStorage, NEW data \in Calls, channel_write(data)
    PROVE  InStorage' /\ out' \in [st : {"OK", "WOULD_BLOCK"}, bytes : Seq(Byte)]
  <1>. DEFINE n == Smaller(Len(data), space)
  <1>0. BufSize \in Nat \ {0} /\ head \in Nat /\ len \in 0..BufSize
    BY BufSizeAssumption DEF InStorage, Index
  <1>1. data \in Seq(Byte) /\ Len(data) \in Nat
    BY CallIsSeq
  <1>2. n \in 0..Len(data) /\ n <= BufSize - len
    BY <1>0, <1>1 DEF Smaller, space
  <1>3. tail \in Index
    BY <1>0, Slots DEF Index, Wrapped, InStorage
  <1>4. \A j \in Index : Distance(j) \in Nat
    BY <1>0, <1>3 DEF Distance, Index
  <1>5. \A j \in Index : Distance(j) < n => data[Distance(j) + 1] \in Byte
    BY <1>1, <1>2, <1>4
  <1>6. buf' \in [Index -> Byte]
    BY <1>5 DEF channel_write, InStorage
  <1>7. len' \in 0..BufSize /\ head' \in Index
    BY <1>0, <1>2 DEF channel_write, InStorage
  <1>8. SubSeq(data, 1, n) \in Seq(Byte)
    BY <1>1, <1>2
  <1>9. out' \in [st : {"OK", "WOULD_BLOCK"}, bytes : Seq(Byte)]
    BY <1>8 DEF channel_write, Result
  <1>. QED  BY <1>6, <1>7, <1>9 DEF InStorage

\* So does a read.
LEMMA ReadStep ==
    ASSUME InStorage, NEW room \in 0..MaxCall, channel_read(room)
    PROVE  InStorage' /\ out' \in [st : {"OK", "WOULD_BLOCK"}, bytes : Seq(Byte)]
  <1>. DEFINE n == Smaller(room, len)
  <1>0. BufSize \in Nat \ {0} /\ head \in Nat /\ len \in 0..BufSize
    BY BufSizeAssumption DEF InStorage, Index
  <1>1. n \in 0..len /\ n \in 0..BufSize
    BY <1>0, MaxCallAssumption DEF Smaller
  <1>2. (head + n) % BufSize = Wrapped(head + n)
    BY <1>1, Slots, Zenon
  <1>3. head' \in Index
    <2>1. Wrapped(head + n) \in Index
      <3>. HIDE DEF n
      <3>. QED  BY <1>0, <1>1 DEF Index, Wrapped, InStorage
    <2>2. head' = (head + n) % BufSize
      BY DEF channel_read
    <2>. QED  BY <1>2, <2>1, <2>2, Zenon
  <1>4. len' \in 0..BufSize
    BY <1>0, <1>1 DEF channel_read
  <1>5. Stored(n) \in Seq(Byte)
    BY <1>1, StoredIsSeq
  <1>. HIDE DEF n
  <1>6. out' \in [st : {"OK", "WOULD_BLOCK"}, bytes : Seq(Byte)]
    BY <1>5 DEF channel_read, Result, n
  <1>. QED  BY <1>3, <1>4, <1>6 DEF channel_read, InStorage

\* No call of channel_write() or channel_read() ever leaves the storage: head
\* is a slot, and at most buf_size bytes are stored.
THEOREM TypeCorrect == Spec => []TypeOK
  <1>1. Init => TypeOK
    <2>. SUFFICES ASSUME Init PROVE TypeOK
      OBVIOUS
    <2>1. out \in [st : {"OK", "WOULD_BLOCK"}, bytes : Seq(Byte)]
      BY DEF Init, Result
    <2>. QED  BY <2>1, BufSizeAssumption DEF Init, TypeOK, InStorage, Index
  <1>2. TypeOK /\ [Next]_vars => TypeOK'
    <2>. SUFFICES ASSUME TypeOK, [Next]_vars PROVE TypeOK'
      OBVIOUS
    <2>1. ASSUME NEW data \in Calls, channel_write(data) PROVE TypeOK'
      BY <2>1, WriteStep DEF TypeOK
    <2>2. ASSUME NEW room \in 0..MaxCall, channel_read(room) PROVE TypeOK'
      BY <2>2, ReadStep DEF TypeOK
    <2>3. ASSUME UNCHANGED vars PROVE TypeOK'
      BY <2>3 DEF TypeOK, InStorage, vars, channel
    <2>. QED  BY <2>1, <2>2, <2>3 DEF Next
  <1>. QED  BY <1>1, <1>2, PTL DEF Spec

-----------------------------------------------------------------------------
\* channel_write() appends the bytes it accepts, and accepts none only when
\* the ring is full.
LEMMA WriteIsFifoWrite ==
    ASSUME InStorage, InStorage', NEW data \in Calls, channel_write(data)
    PROVE  Fifo!Write(data)
  <1>. DEFINE n == Smaller(Len(data), space)
  <1>0. /\ BufSize \in Nat \ {0} /\ head \in Nat
        /\ len \in Nat /\ len <= BufSize /\ len \in 0..len
    BY BufSizeAssumption DEF InStorage, Index
  <1>1. data \in Seq(Byte) /\ Len(data) \in Nat
    BY CallIsSeq
  <1>2. n \in 0..Len(data) /\ n <= BufSize - len
    BY <1>0, <1>1 DEF Smaller, space
  <1>3. n = 0 /\ data # <<>> => len = BufSize
    BY <1>0, <1>1 DEF Smaller, space
  <1>4. len' = len + n /\ head' = head
    BY <1>1 DEF channel_write
  <1>5. /\ Contents \in Seq(Byte) /\ Len(Contents) = len
        /\ \A i \in 1..len : Contents[i] = buf[(head + i - 1) % BufSize]
    BY <1>0, StoredIsSeq DEF Contents
  <1>. HIDE DEF n
  <1>6. ASSUME NEW i \in 1..(len + n)
        PROVE  buf'[(head + i - 1) % BufSize] =
                  IF i <= len THEN buf[(head + i - 1) % BufSize] ELSE data[i - len]
    <2>. DEFINE j == (head + i - 1) % BufSize
    <2>1. i \in 1..BufSize
      BY <1>0, <1>1, <1>2
    <2>2. /\ j \in Index
          /\ Distance(j) = IF i > len THEN i - len - 1 ELSE i - len - 1 + BufSize
      BY <2>1, SlotDistance
    <2>3. buf'[j] = IF Distance(j) < n THEN data[Distance(j) + 1] ELSE buf[j]
      BY <2>2 DEF channel_write, n
    <2>. HIDE DEF j
    <2>4. CASE i <= len
      <3>1. ~(Distance(j) < n)
        BY <1>0, <1>1, <1>2, <2>1, <2>2, <2>4
      <3>. QED  BY <2>3, <2>4, <3>1 DEF j
    <2>5. CASE ~(i <= len)
      <3>1. Distance(j) < n /\ Distance(j) + 1 = i - len
        BY <1>0, <1>1, <1>2, <2>1, <2>2, <2>5
      <3>. QED  BY <2>3, <2>5, <3>1 DEF j
    <2>. QED  BY <2>4, <2>5
  <1>7. /\ Contents' \in [1..(len + n) -> Byte]
        /\ \A i \in 1..(len + n) :
              Contents'[i] = IF i <= len THEN buf[(head + i - 1) % BufSize]
                                         ELSE data[i - len]
    <2>1. Contents' = [i \in 1..(len + n) |-> buf'[(head + i - 1) % BufSize]]
      BY <1>4 DEF Contents, Stored
    <2>2. \A i \in 1..(len + n) : (head + i - 1) % BufSize \in Index
      <3>. TAKE i \in 1..(len + n)
      <3>1. i \in 1..BufSize  BY <1>0, <1>1, <1>2
      <3>. QED  BY <3>1, SlotDistance
    <2>3. \A i \in 1..(len + n) : buf'[(head + i - 1) % BufSize] \in Byte
      BY <2>2 DEF InStorage
    <2>. QED  BY <1>6, <2>1, <2>3
  <1>8. Contents' = Contents \o SubSeq(data, 1, n)
    <2>. DEFINE d == SubSeq(data, 1, n)
                c == Contents
                c1 == Contents'
    <2>1. d \in Seq(Byte) /\ Len(d) = n /\ \A i \in 1..n : d[i] = data[i]
      BY <1>1, <1>2
    <2>2. /\ c \in Seq(Byte) /\ Len(c) = len
          /\ \A i \in 1..len : c[i] = buf[(head + i - 1) % BufSize]
      BY <1>5
    <2>3. /\ c1 \in [1..(len + n) -> Byte]
          /\ \A i \in 1..(len + n) :
                c1[i] = IF i <= len THEN buf[(head + i - 1) % BufSize]
                                    ELSE data[i - len]
      BY <1>7
    <2>. HIDE DEF d, c, c1
    <2>4. /\ c \o d \in Seq(Byte) /\ Len(c \o d) = len + n
          /\ \A i \in 1..(len + n) :
                (c \o d)[i] = IF i <= len THEN c[i] ELSE d[i - len]
      BY <2>1, <2>2, ConcatProperties
    <2>5. ASSUME NEW i \in 1..(len + n) PROVE c1[i] = (c \o d)[i]
      <3>1. CASE i <= len
        <4>1. i \in 1..len  BY <1>0, <1>1, <1>2, <3>1
        <4>. QED  BY <2>2, <2>3, <2>4, <3>1, <4>1
      <3>2. CASE ~(i <= len)
        <4>1. i - len \in 1..n  BY <1>0, <1>1, <1>2, <3>2
        <4>. QED  BY <2>1, <2>3, <2>4, <3>2, <4>1
      <3>. QED  BY <3>1, <3>2
    <2>6. len + n \in Nat
      BY <1>0, <1>1, <1>2
    <2>7. c1 \in Seq(Byte) /\ Len(c1) = len + n
      BY <2>3, <2>6
    <2>8. c1 = c \o d
      BY <2>4, <2>5, <2>7, SeqEqual
    <2>. QED  BY <2>8 DEF d, c, c1
  <1>9. out' = Fifo!Result(IF n = 0 /\ data # <<>> THEN "WOULD_BLOCK" ELSE "OK",
                           SubSeq(data, 1, n))
    <2>1. (Len(data) > 0) <=> (data # <<>>)
      BY <1>1
    <2>. QED  BY <2>1 DEF channel_write, Result, Fifo!Result, n
  <1>. QED  BY <1>0, <1>1, <1>2, <1>3, <1>5, <1>8, <1>9 DEF Fifo!Write

\* channel_read() takes the oldest bytes off, and takes none only when the
\* ring is empty.
LEMMA ReadIsFifoRead ==
    ASSUME InStorage, NEW room \in 0..MaxCall, channel_read(room)
    PROVE  Fifo!Read(room)
  <1>. DEFINE n == Smaller(room, len)
  <1>0. /\ BufSize \in Nat \ {0} /\ len \in Nat /\ len \in 0..len /\ room \in Nat
    BY BufSizeAssumption, MaxCallAssumption DEF InStorage
  <1>1. n \in 0..room /\ n \in 0..len /\ (n = 0 /\ room > 0 => len = 0)
    BY <1>0 DEF Smaller
  <1>2. /\ Contents \in Seq(Byte) /\ Len(Contents) = len
        /\ \A i \in 1..len : Contents[i] = buf[(head + i - 1) % BufSize]
    BY <1>0, StoredIsSeq DEF Contents
  <1>3. /\ Stored(n) \in Seq(Byte) /\ Len(Stored(n)) = n
        /\ \A i \in 1..n : Stored(n)[i] = buf[(head + i - 1) % BufSize]
    BY <1>1, StoredIsSeq
  <1>4. /\ out' = Result("OK", Stored(n)) /\ len' = len - n
        /\ head' = (head + n) % BufSize /\ buf' = buf
    BY DEF channel_read
  <1>. HIDE DEF n
  <1>5. Stored(n) = SubSeq(Contents, 1, n)
    BY <1>0, <1>1, <1>2, <1>3
  <1>6. Contents' = SubSeq(Contents, n + 1, Len(Contents))
    <2>1. Contents' = [i \in 1..(len - n) |-> buf[(((head + n) % BufSize) + i - 1) % BufSize]]
      BY <1>4 DEF Contents, Stored
    <2>2. \A i \in 1..(len - n) :
             (((head + n) % BufSize) + i - 1) % BufSize = (head + (n + i) - 1) % BufSize
      BY <1>1, Shift
    <2>3. Contents' = [i \in 1..(len - n) |-> Contents[n + i]]
      <3>1. \A i \in 1..(len - n) : n + i \in 1..len
        BY <1>0, <1>1
      <3>. QED  BY <1>2, <2>1, <2>2, <3>1
    <2>. DEFINE c == Contents
                d == SubSeq(c, n + 1, len)
                e == [i \in 1..(len - n) |-> c[n + i]]
    <2>4. c \in Seq(Byte) /\ Len(c) = len /\ n \in Nat /\ n <= len
      BY <1>0, <1>1, <1>2
    <2>. HIDE DEF c
    <2>5. d \in Seq(Byte) /\ Len(d) = len - n /\ \A i \in 1..(len - n) : d[i] = c[n + i]
      BY <1>0, <2>4
    <2>6. \A i \in 1..(len - n) : c[n + i] \in Byte
      BY <1>0, <2>4
    <2>7. e \in Seq(Byte) /\ Len(e) = len - n /\ \A i \in 1..(len - n) : e[i] = c[n + i]
      BY <1>0, <2>4, <2>6
    <2>. HIDE DEF d, e
    <2>8. d = e
      BY <2>5, <2>7, SeqEqual
    <2>. QED  BY <1>2, <2>3, <2>8 DEF c, d, e
  <1>7. len = 0 => Contents = <<>>
    BY <1>2
  <1>8. out' = Fifo!Result("OK", SubSeq(Contents, 1, n))
    BY <1>4, <1>5 DEF Result, Fifo!Result
  <1>9. n <= Len(Contents) /\ (n = 0 /\ room > 0 => Contents = <<>>)
    BY <1>0, <1>1, <1>2, <1>7
  <1>. QED  BY <1>1, <1>6, <1>8, <1>9, Zenon DEF Fifo!Read

\* The bytes a write reports it took are the ones it puts behind the others.
LEMMA WriteAppends ==
    ASSUME InStorage, NEW data \in Calls, channel_write(data)
    PROVE  /\ Contents \in Seq(Byte) /\ Contents' \in Seq(Byte)
           /\ out'.bytes \in Seq(Byte)
           /\ Contents' = Contents \o out'.bytes
  <1>1. InStorage' /\ out'.bytes \in Seq(Byte)
    BY WriteStep
  <1>2. len \in 0..len
    BY BufSizeAssumption DEF InStorage
  <1>3. Contents \in Seq(Byte)
    BY <1>2, StoredIsSeq DEF Contents
  <1>4. PICK n \in 0..Len(data) :
           /\ Contents' = Contents \o SubSeq(data, 1, n)
           /\ out' = Fifo!Result(IF n = 0 /\ data # <<>> THEN "WOULD_BLOCK" ELSE "OK",
                                SubSeq(data, 1, n))
    BY <1>1, WriteIsFifoWrite DEF Fifo!Write
  <1>5. Contents' = Contents \o out'.bytes
    BY <1>4 DEF Fifo!Result
  <1>. QED  BY <1>1, <1>3, <1>5

\* The bytes a read returns are the ones it takes off the front.
LEMMA ReadTakes ==
    ASSUME InStorage, NEW room \in 0..MaxCall, channel_read(room)
    PROVE  /\ Contents \in Seq(Byte) /\ Contents' \in Seq(Byte)
           /\ out'.bytes \in Seq(Byte)
           /\ Contents = out'.bytes \o Contents'
  <1>1. out'.bytes \in Seq(Byte)
    BY ReadStep
  <1>2. len \in 0..len
    BY BufSizeAssumption DEF InStorage
  <1>3. Contents \in Seq(Byte)
    BY <1>2, StoredIsSeq DEF Contents
  <1>4. PICK n \in 0..room :
           /\ n <= Len(Contents)
           /\ Contents' = SubSeq(Contents, n + 1, Len(Contents))
           /\ out' = Fifo!Result("OK", SubSeq(Contents, 1, n))
    BY ReadIsFifoRead DEF Fifo!Read
  <1>5. out'.bytes = SubSeq(Contents, 1, n)
    BY <1>4 DEF Fifo!Result
  <1>6. n \in Nat
    BY MaxCallAssumption
  <1>. DEFINE c == Contents
  <1>7. c \in Seq(Byte) /\ n \in Nat /\ n <= Len(c)
    BY <1>3, <1>4, <1>6
  <1>. HIDE DEF c
  <1>8. SubSeq(c, 1, n) \o SubSeq(c, n + 1, Len(c)) = c
    <2>1. /\ 1 \in 1..(Len(c) + 1)
          /\ n \in (1 - 1)..Len(c)
          /\ Len(c) \in n..Len(c)
      BY <1>7
    <2>2. SubSeq(c, 1, n) \o SubSeq(c, n + 1, Len(c)) = SubSeq(c, 1, Len(c))
      BY <1>7, <2>1, ConcatAdjacentSubSeq
    <2>. QED  BY <1>7, <2>2, SubSeqFull
  <1>9. SubSeq(c, n + 1, Len(c)) \in Seq(Byte)
    BY <1>7
  <1>. QED  BY <1>1, <1>3, <1>4, <1>5, <1>8, <1>9 DEF c

\* The ring buffer of the virtual transport implements the FIFO byte pipe:
\* every byte written comes out once and in order, for every size of storage
\* and wherever the indices wrap.
THEOREM FifoCorrect == Spec => ImplementsFifo
  <1>1. Init => Fifo!Init
    BY DEF Init, Fifo!Init, Contents, Stored, Result, Fifo!Result
  <1>2. TypeOK /\ TypeOK' /\ [Next]_vars => [Fifo!Next]_<<Contents, out>>
    <2>. SUFFICES ASSUME TypeOK, TypeOK', [Next]_vars
                  PROVE  Fifo!Next \/ UNCHANGED <<Contents, out>>
      OBVIOUS
    <2>1. ASSUME NEW data \in Calls, channel_write(data) PROVE Fifo!Next
      BY <2>1, WriteIsFifoWrite DEF TypeOK, Fifo!Next, Calls, Fifo!Calls
    <2>2. ASSUME NEW room \in 0..MaxCall, channel_read(room) PROVE Fifo!Next
      BY <2>2, ReadIsFifoRead DEF TypeOK, Fifo!Next
    <2>3. ASSUME UNCHANGED vars PROVE UNCHANGED <<Contents, out>>
      BY <2>3 DEF vars, channel, Contents, Stored
    <2>. QED  BY <2>1, <2>2, <2>3 DEF Next
  <1>. QED  BY <1>1, <1>2, TypeCorrect, PTL DEF Spec, ImplementsFifo, Fifo!Spec
=============================================================================
