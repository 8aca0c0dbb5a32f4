---------------------------- MODULE BufferProofs ----------------------------
(***************************************************************************)
(* Proofs about Buffer for any bytes, any sizes and any length of data.    *)
(***************************************************************************)
EXTENDS Buffer, SequenceTheorems, TLAPS

\* A record with the fields of a buffer.
IsRecord(b) ==
  b = [buffer |-> b.buffer, size |-> b.size,
       readerIndex |-> b.readerIndex, writerIndex |-> b.writerIndex]

\* A buffer whose vector is whole, whose indices are in order and that has
\* the room retrieveAll counts on.
Valid(b) ==
  /\ IsRecord(b)
  /\ b.size \in Nat /\ b.readerIndex \in Nat /\ b.writerIndex \in Nat
  /\ b.buffer \in [0..(b.size - 1) -> Bytes]
  /\ b.readerIndex <= b.writerIndex
  /\ b.writerIndex <= b.size
  /\ kCheapPrepend <= b.size

-----------------------------------------------------------------------------
\* A function on 1..n is a sequence of length n.
LEMMA FunctionIsSeq ==
  ASSUME NEW S, NEW n \in Nat, NEW f \in [1..n -> S]
  PROVE  f \in Seq(S) /\ Len(f) = n
<1>1. f \in Seq(S)
  BY SeqDef
<1>2. DOMAIN f = 1..n /\ DOMAIN f = 1..Len(f) /\ Len(f) \in Nat
  BY <1>1, LenProperties
<1>3. QED
  BY <1>1, <1>2

\* The readable bytes of a valid buffer are a sequence as long as it says.
LEMMA ReadableIsSeq ==
  ASSUME NEW b, Valid(b)
  PROVE  /\ readableBytes(b) \in Nat
         /\ Readable(b) \in Seq(Bytes)
         /\ Len(Readable(b)) = readableBytes(b)
         /\ \A i \in 1..readableBytes(b) :
              Readable(b)[i] = b.buffer[b.readerIndex + i - 1]
<1> DEFINE n == readableBytes(b)
<1>1. n \in Nat
  BY DEF Valid, readableBytes
<1>2. \A i \in 1..n : b.buffer[b.readerIndex + i - 1] \in Bytes
  <2> SUFFICES ASSUME NEW i \in 1..n
               PROVE  b.buffer[b.readerIndex + i - 1] \in Bytes
    OBVIOUS
  <2>1. b.readerIndex + i - 1 \in 0..(b.size - 1)
    BY DEF Valid, readableBytes
  <2>2. QED
    BY <2>1 DEF Valid
<1>3. Readable(b) \in [1..n -> Bytes]
  BY <1>2 DEF Readable
<1> HIDE DEF n
<1>4. Readable(b) \in Seq(Bytes) /\ Len(Readable(b)) = n
  BY <1>1, <1>3, FunctionIsSeq
<1>5. QED
  BY <1>1, <1>4 DEF Readable, n

\* Two buffers with the same bytes between their indices read the same.
LEMMA SameReadable ==
  ASSUME NEW b, NEW c, readableBytes(b) = readableBytes(c),
         \A i \in 1..readableBytes(b) :
           b.buffer[b.readerIndex + i - 1] = c.buffer[c.readerIndex + i - 1]
  PROVE  Readable(b) = Readable(c)
BY DEF Readable

\* Assigning buffer_ leaves the other fields alone.
LEMMA AssignBuffer ==
  ASSUME NEW b, IsRecord(b), NEW cells
  PROVE  [b EXCEPT !.buffer = cells]
           = [buffer |-> cells, size |-> b.size,
              readerIndex |-> b.readerIndex, writerIndex |-> b.writerIndex]
BY DEF IsRecord

\* Replacing the vector, its bytes and its size, leaves the indices alone.
LEMMA AssignVector ==
  ASSUME NEW b, IsRecord(b), NEW cells, NEW n
  PROVE  [b EXCEPT !.size = n, !.buffer = cells]
           = [buffer |-> cells, size |-> n,
              readerIndex |-> b.readerIndex, writerIndex |-> b.writerIndex]
<1> DEFINE c == [b EXCEPT !.size = n]
<1>1. c = [buffer |-> b.buffer, size |-> n,
           readerIndex |-> b.readerIndex, writerIndex |-> b.writerIndex]
  BY DEF IsRecord
<1>2. [b EXCEPT !.size = n, !.buffer = cells] = [c EXCEPT !.buffer = cells]
  OBVIOUS
<1> HIDE DEF c
<1>3. IsRecord(c)
  BY <1>1 DEF IsRecord
<1>4. QED
  BY <1>1, <1>2, <1>3, AssignBuffer

\* Assigning readerIndex_ leaves the other fields alone.
LEMMA AssignReader ==
  ASSUME NEW b, IsRecord(b), NEW r
  PROVE  [b EXCEPT !.readerIndex = r]
           = [buffer |-> b.buffer, size |-> b.size,
              readerIndex |-> r, writerIndex |-> b.writerIndex]
BY DEF IsRecord

\* Assigning writerIndex_ leaves the other fields alone.
LEMMA AssignWriter ==
  ASSUME NEW b, IsRecord(b), NEW w
  PROVE  [b EXCEPT !.writerIndex = w]
           = [buffer |-> b.buffer, size |-> b.size,
              readerIndex |-> b.readerIndex, writerIndex |-> w]
BY DEF IsRecord

\* Assigning both indices leaves the vector alone.
LEMMA AssignIndices ==
  ASSUME NEW b, IsRecord(b), NEW r, NEW w
  PROVE  [b EXCEPT !.readerIndex = r, !.writerIndex = w]
           = [buffer |-> b.buffer, size |-> b.size,
              readerIndex |-> r, writerIndex |-> w]
<1> DEFINE c == [b EXCEPT !.readerIndex = r]
<1>1. c = [buffer |-> b.buffer, size |-> b.size,
           readerIndex |-> r, writerIndex |-> b.writerIndex]
  BY DEF IsRecord
<1>2. [b EXCEPT !.readerIndex = r, !.writerIndex = w] = [c EXCEPT !.writerIndex = w]
  OBVIOUS
<1> HIDE DEF c
<1>3. IsRecord(c)
  BY <1>1 DEF IsRecord
<1>4. QED
  BY <1>1, <1>2, <1>3, AssignWriter

\* A copy inside the vector changes the cells it covers and nothing else.
LEMMA CopyToProperties ==
  ASSUME NEW b, Valid(b), NEW at \in Nat, NEW data \in Seq(Bytes),
         at + Len(data) <= b.size
  PROVE  /\ Valid(CopyTo(b, at, data))
         /\ CopyTo(b, at, data).size = b.size
         /\ CopyTo(b, at, data).readerIndex = b.readerIndex
         /\ CopyTo(b, at, data).writerIndex = b.writerIndex
         /\ \A j \in 0..(b.size - 1) :
              CopyTo(b, at, data).buffer[j] =
                IF at <= j /\ j < at + Len(data) THEN data[j - at + 1]
                                                 ELSE b.buffer[j]
<1> DEFINE cells == [j \in 0..(b.size - 1) |->
                       IF at <= j /\ j < at + Len(data) THEN data[j - at + 1]
                                                        ELSE b.buffer[j]]
<1>1. Len(data) \in Nat
  BY LenProperties
<1>2. cells \in [0..(b.size - 1) -> Bytes]
  <2> SUFFICES ASSUME NEW j \in 0..(b.size - 1)
               PROVE  cells[j] \in Bytes
    BY Zenon
  <2>1. CASE at <= j /\ j < at + Len(data)
    <3>1. j - at + 1 \in 1..Len(data)
      BY <2>1, <1>1 DEF Valid
    <3>2. QED
      BY <2>1, <3>1, ElementOfSeq
  <2>2. CASE ~(at <= j /\ j < at + Len(data))
    BY <2>2 DEF Valid
  <2>3. QED
    BY <2>1, <2>2
<1>3. CopyTo(b, at, data) = [buffer |-> cells, size |-> b.size,
                             readerIndex |-> b.readerIndex,
                             writerIndex |-> b.writerIndex]
  <2>1. CopyTo(b, at, data) = [b EXCEPT !.buffer = cells]
    BY DEF CopyTo
  <2> HIDE DEF cells
  <2>2. QED
    BY <2>1, AssignBuffer DEF Valid
<1>4. \A j \in 0..(b.size - 1) :
        cells[j] = IF at <= j /\ j < at + Len(data) THEN data[j - at + 1]
                                                    ELSE b.buffer[j]
  OBVIOUS
<1> HIDE DEF cells
<1>5. QED
  BY <1>2, <1>3, <1>4 DEF Valid, IsRecord

\* A vector that grows keeps its bytes.
LEMMA ResizeProperties ==
  ASSUME NEW b, Valid(b), NEW n \in Nat, b.size <= n
  PROVE  /\ Valid(Resize(b, n))
         /\ Resize(b, n).size = n
         /\ Resize(b, n).readerIndex = b.readerIndex
         /\ Resize(b, n).writerIndex = b.writerIndex
         /\ \A j \in 0..(b.size - 1) : Resize(b, n).buffer[j] = b.buffer[j]
<1> DEFINE cells == [j \in 0..(n - 1) |-> IF j < b.size THEN b.buffer[j] ELSE Zero]
<1>1. cells \in [0..(n - 1) -> Bytes]
  BY ZeroAssumption DEF Valid
<1>2. Resize(b, n) = [buffer |-> cells, size |-> n,
                      readerIndex |-> b.readerIndex,
                      writerIndex |-> b.writerIndex]
  <2>1. Resize(b, n) = [b EXCEPT !.size = n, !.buffer = cells]
    BY DEF Resize
  <2> HIDE DEF cells
  <2>2. QED
    BY <2>1, AssignVector DEF Valid
<1>3. \A j \in 0..(b.size - 1) : cells[j] = b.buffer[j]
  BY DEF Valid
<1> HIDE DEF cells
<1>4. QED
  BY <1>1, <1>2, <1>3, SizesAssumption DEF Valid, IsRecord

\* Moving the readable bytes to the front, where kCheapPrepend bytes stay
\* free, keeps them.
LEMMA MoveToFrontProperties ==
  ASSUME NEW b, Valid(b), kCheapPrepend <= b.readerIndex
  PROVE  /\ Valid(MoveToFront(b))
         /\ MoveToFront(b).size = b.size
         /\ MoveToFront(b).writerIndex = kCheapPrepend + readableBytes(b)
         /\ Readable(MoveToFront(b)) = Readable(b)
<1> DEFINE k == kCheapPrepend
           c == CopyTo(b, k, Readable(b))
           m == MoveToFront(b)
           len == readableBytes(b)
<1>1. /\ len \in Nat /\ Readable(b) \in Seq(Bytes) /\ Len(Readable(b)) = len
      /\ \A i \in 1..len : Readable(b)[i] = b.buffer[b.readerIndex + i - 1]
  BY ReadableIsSeq
<1>2. k \in Nat /\ k + len <= b.size
  BY SizesAssumption DEF Valid, readableBytes
<1>3. /\ Valid(c) /\ c.size = b.size
      /\ \A j \in 0..(b.size - 1) :
           c.buffer[j] = IF k <= j /\ j < k + len THEN Readable(b)[j - k + 1]
                                                  ELSE b.buffer[j]
  BY <1>1, <1>2, CopyToProperties
<1>4. m = [c EXCEPT !.readerIndex = k, !.writerIndex = k + len]
  BY DEF MoveToFront
<1> HIDE DEF c, m
<1>5. m = [buffer |-> c.buffer, size |-> c.size,
           readerIndex |-> k, writerIndex |-> k + len]
  BY <1>3, <1>4, AssignIndices DEF Valid
<1>6. Valid(m) /\ readableBytes(m) = len
  BY <1>1, <1>2, <1>3, <1>5 DEF Valid, IsRecord, readableBytes
<1>7. \A i \in 1..len : m.buffer[m.readerIndex + i - 1] = b.buffer[b.readerIndex + i - 1]
  <2> SUFFICES ASSUME NEW i \in 1..len
               PROVE  c.buffer[k + i - 1] = b.buffer[b.readerIndex + i - 1]
    BY <1>5
  <2> HIDE DEF len, k
  <2>1. k + i - 1 \in 0..(b.size - 1) /\ k <= k + i - 1 /\ k + i - 1 < k + len
        /\ (k + i - 1) - k + 1 = i
    BY <1>1, <1>2 DEF Valid
  <2>2. QED
    BY <2>1, <1>1, <1>3
<1>8. Readable(m) = Readable(b)
  BY <1>6, <1>7, SameReadable
<1>9. QED
  BY <1>3, <1>5, <1>6, <1>8 DEF m

-----------------------------------------------------------------------------
\* When makeSpace moves instead of growing, its assertion holds: bytes before
\* the readable ones have been retrieved.
LEMMA MoveIsToTheFront ==
  ASSUME NEW b, Valid(b), NEW len \in Nat, writableBytes(b) < len,
         ~(writableBytes(b) + prependableBytes(b) < len + kCheapPrepend)
  PROVE  kCheapPrepend < b.readerIndex
BY SizesAssumption DEF Valid, writableBytes, prependableBytes

\* With len more bytes and the kCheapPrepend bytes before them a buffer is too
\* small, wherever the readable bytes are.
Full(b, len) == b.size < kCheapPrepend + readableBytes(b) + len

\* ensureWritableBytes makes the space it is asked for and keeps the bytes, and
\* it grows a full buffer only.
LEMMA EnsureWritableProperties ==
  ASSUME NEW b, Valid(b), NEW len \in Nat
  PROVE  /\ Valid(EnsureWritable(b, len))
         /\ len <= writableBytes(EnsureWritable(b, len))
         /\ Readable(EnsureWritable(b, len)) = Readable(b)
         /\ EnsureWritable(b, len).size = b.size \/ Full(b, len)
<1>1. CASE ~(writableBytes(b) < len)
  BY <1>1 DEF EnsureWritable, Valid, writableBytes
<1>2. CASE writableBytes(b) < len /\ writableBytes(b) + prependableBytes(b) < len + kCheapPrepend
  <2> DEFINE n == b.writerIndex + len
             e == Resize(b, n)
  <2>1. EnsureWritable(b, len) = e
    BY <1>2 DEF EnsureWritable, makeSpace
  <2>2. n \in Nat /\ b.size <= n
    BY <1>2 DEF Valid, writableBytes
  <2> HIDE DEF n
  <2>3. /\ Valid(e) /\ e.size = n
        /\ e.readerIndex = b.readerIndex /\ e.writerIndex = b.writerIndex
        /\ \A j \in 0..(b.size - 1) : e.buffer[j] = b.buffer[j]
    BY <2>2, ResizeProperties
  <2> HIDE DEF e
  <2>4. len <= writableBytes(e)
    <3>1. b.writerIndex \in Nat
      BY DEF Valid
    <3>2. QED
      BY <2>3, <3>1 DEF n, writableBytes
  <2>5. readableBytes(e) = readableBytes(b)
    BY <2>3 DEF readableBytes
  <2>6. \A i \in 1..readableBytes(b) : b.readerIndex + i - 1 \in 0..(b.size - 1)
    BY DEF Valid, readableBytes
  <2>7. Readable(e) = Readable(b)
    BY <2>3, <2>5, <2>6, SameReadable
  <2>8. Full(b, len)
    BY <1>2, SizesAssumption
       DEF Full, Valid, readableBytes, writableBytes, prependableBytes
  <2>9. QED
    BY <2>1, <2>3, <2>4, <2>7, <2>8
<1>3. CASE writableBytes(b) < len /\ ~(writableBytes(b) + prependableBytes(b) < len + kCheapPrepend)
  <2> DEFINE e == MoveToFront(b)
  <2>1. EnsureWritable(b, len) = e
    BY <1>3 DEF EnsureWritable, makeSpace
  <2>2. kCheapPrepend <= b.readerIndex
    BY <1>3, MoveIsToTheFront, SizesAssumption DEF Valid
  <2>3. /\ Valid(e) /\ e.size = b.size
        /\ e.writerIndex = kCheapPrepend + readableBytes(b)
        /\ Readable(e) = Readable(b)
    BY <2>2, MoveToFrontProperties
  <2> HIDE DEF e
  <2>4. len <= writableBytes(e)
    BY <1>3, <2>3, SizesAssumption, SMTT(30)
       DEF Valid, writableBytes, readableBytes, prependableBytes
  <2>5. QED
    BY <2>1, <2>3, <2>4
<1>4. QED
  BY <1>1, <1>2, <1>3

\* Writing data at beginWrite(), where there is room, and advancing the writer
\* puts it behind the readable bytes.
LEMMA WriteProperties ==
  ASSUME NEW b, Valid(b), NEW data \in Seq(Bytes), Len(data) <= writableBytes(b)
  PROVE  /\ Valid(HasWritten(CopyTo(b, b.writerIndex, data), Len(data)))
         /\ Readable(HasWritten(CopyTo(b, b.writerIndex, data), Len(data)))
              = Readable(b) \o data
         /\ HasWritten(CopyTo(b, b.writerIndex, data), Len(data)).size = b.size
<1> DEFINE len == Len(data)
           w == b.writerIndex
           c == CopyTo(b, w, data)
           h == HasWritten(c, len)
           r == readableBytes(b)
<1>1. len \in Nat /\ w \in Nat /\ w + len <= b.size
  BY LenProperties DEF Valid, writableBytes
<1>2. /\ Valid(c) /\ c.size = b.size
      /\ c.readerIndex = b.readerIndex /\ c.writerIndex = w
      /\ \A j \in 0..(b.size - 1) :
           c.buffer[j] = IF w <= j /\ j < w + len THEN data[j - w + 1]
                                                  ELSE b.buffer[j]
  <2> HIDE DEF w
  <2>1. QED
    BY <1>1, CopyToProperties DEF w
<1> HIDE DEF c
<1>3. h = [buffer |-> c.buffer, size |-> c.size,
           readerIndex |-> c.readerIndex, writerIndex |-> c.writerIndex + len]
  BY <1>2, AssignWriter DEF HasWritten, Valid
<1> HIDE DEF h
<1>4. Valid(h) /\ readableBytes(h) = r + len /\ h.readerIndex = b.readerIndex
      /\ h.buffer = c.buffer
  BY <1>1, <1>2, <1>3 DEF Valid, IsRecord, readableBytes
<1>5. /\ r \in Nat /\ Readable(b) \in Seq(Bytes) /\ Len(Readable(b)) = r
      /\ \A i \in 1..r : Readable(b)[i] = b.buffer[b.readerIndex + i - 1]
  BY ReadableIsSeq
<1>6. /\ Readable(h) \in Seq(Bytes) /\ Len(Readable(h)) = r + len
      /\ \A i \in 1..(r + len) : Readable(h)[i] = h.buffer[h.readerIndex + i - 1]
  BY <1>4, ReadableIsSeq
<1>7. /\ Readable(b) \o data \in Seq(Bytes) /\ Len(Readable(b) \o data) = r + len
      /\ \A i \in 1..(r + len) : (Readable(b) \o data)[i] =
                                   IF i <= r THEN Readable(b)[i] ELSE data[i - r]
  <2> HIDE DEF r
  <2>1. /\ Readable(b) \o data \in Seq(Bytes)
        /\ Len(Readable(b) \o data) = Len(Readable(b)) + Len(data)
        /\ \A i \in 1..(Len(Readable(b)) + Len(data)) : (Readable(b) \o data)[i] =
               IF i <= Len(Readable(b)) THEN Readable(b)[i]
                                        ELSE data[i - Len(Readable(b))]
    BY <1>5, ConcatProperties
  <2>2. QED
    BY <2>1, <1>5
<1>8. \A i \in 1..(r + len) : Readable(h)[i] = (Readable(b) \o data)[i]
  <2> SUFFICES ASSUME NEW i \in 1..(r + len)
               PROVE  Readable(h)[i] = (Readable(b) \o data)[i]
    OBVIOUS
  <2> DEFINE j == b.readerIndex + i - 1
  <2>1. Readable(h)[i] = c.buffer[j]
    BY <1>4, <1>6
  <2>2. j \in 0..(b.size - 1) /\ b.readerIndex + r = w /\ b.readerIndex \in Nat
    <3>1. b.readerIndex + r = w /\ b.readerIndex \in Nat /\ b.size \in Nat
      BY DEF Valid, readableBytes
    <3> HIDE DEF r, w, len
    <3>2. QED
      BY <3>1, <1>1, <1>5
  <2>3. CASE i <= r
    <3>1. ~(w <= j) /\ i \in 1..r
      BY <2>2, <2>3, <1>1, <1>5
    <3>2. c.buffer[j] = b.buffer[j]
      <4> HIDE DEF j, w
      <4> QED
        BY <3>1, <2>2, <1>2
    <3>3. QED
      BY <2>1, <2>3, <3>1, <3>2, <1>5, <1>7
  <2>4. CASE ~(i <= r)
    <3>1. w <= j /\ j < w + len /\ j - w + 1 = i - r
      <4> DEFINE ri == b.readerIndex
      <4>1. j = ri + i - 1
        OBVIOUS
      <4> HIDE DEF w, r, len, j
      <4>2. ri \in Nat /\ r \in Nat /\ len \in Nat /\ w = ri + r
        BY <2>2, <1>1, <1>5
      <4> HIDE DEF ri
      <4>3. QED
        BY <2>4, <4>1, <4>2
    <3>2. c.buffer[j] = data[j - w + 1]
      <4> HIDE DEF j, w
      <4> QED
        BY <3>1, <2>2, <1>2
    <3>3. QED
      <4> HIDE DEF j, w, r
      <4> QED
        BY <2>1, <2>4, <3>1, <3>2, <1>7
  <2>5. QED
    BY <2>3, <2>4
<1>9. Readable(h) = Readable(b) \o data
  <2> HIDE DEF r, len
  <2> QED
    BY <1>6, <1>7, <1>8, SeqEqual
<1>10. h.size = b.size
  BY <1>2, <1>3
<1>11. QED
  BY <1>4, <1>9, <1>10 DEF h, c

-----------------------------------------------------------------------------
\* Data are sequences of bytes.
LEMMA DataAreSeqs ==
  ASSUME NEW data \in Data
  PROVE  data \in Seq(Bytes) /\ Len(data) \in Nat
<1>1. PICK n \in 0..MaxLen : data \in [1..n -> Bytes]
  BY DEF Data
<1>2. n \in Nat
  BY SizesAssumption
<1>3. QED
  BY <1>1, <1>2, FunctionIsSeq

\* append puts its bytes behind the readable ones, wherever they move.
LEMMA AppendBytesProperties ==
  ASSUME NEW b, Valid(b), NEW data \in Seq(Bytes)
  PROVE  /\ Valid(AppendBytes(b, data))
         /\ Readable(AppendBytes(b, data)) = Readable(b) \o data
         /\ AppendBytes(b, data).size = b.size \/ Full(b, Len(data))
<1> DEFINE e == EnsureWritable(b, Len(data))
<1>1. Len(data) \in Nat
  BY LenProperties
<1>2. /\ Valid(e) /\ Len(data) <= writableBytes(e) /\ Readable(e) = Readable(b)
      /\ e.size = b.size \/ Full(b, Len(data))
  BY <1>1, EnsureWritableProperties
<1>3. AppendBytes(b, data) = HasWritten(CopyTo(e, e.writerIndex, data), Len(data))
  BY DEF AppendBytes
<1> HIDE DEF e
<1>4. QED
  BY <1>2, <1>3, WriteProperties

\* A sequence is its first w elements and the rest.
LEMMA SplitSeq ==
  ASSUME NEW S, NEW s \in Seq(S), NEW w \in Nat, w <= Len(s)
  PROVE  /\ SubSeq(s, 1, w) \in Seq(S) /\ Len(SubSeq(s, 1, w)) = w
         /\ SubSeq(s, w + 1, Len(s)) \in Seq(S)
         /\ SubSeq(s, 1, w) \o SubSeq(s, w + 1, Len(s)) = s
<1> DEFINE n == Len(s)
           f == SubSeq(s, 1, w)
           r == SubSeq(s, w + 1, n)
<1>1. n \in Nat /\ w + 1 \in Int /\ 1 \in Int
  BY LenProperties
<1>2. \A i \in 1..n : s[i] \in S
  BY ElementOfSeq
<1>3. (\A i \in 1..w : s[i] \in S) /\ (\A i \in (w + 1)..n : s[i] \in S)
  BY <1>1, <1>2
<1> HIDE DEF n
<1>4. f \in Seq(S) /\ Len(f) = w /\ \A i \in 1..w : f[i] = s[i]
  <2>1. /\ f \in Seq(S) /\ Len(f) = IF 1 <= w THEN w - 1 + 1 ELSE 0
        /\ \A i \in 1..(w - 1 + 1) : f[i] = s[1 + i - 1]
    BY <1>1, <1>3, SubSeqProperties
  <2>2. QED
    BY <2>1
<1>5. r \in Seq(S) /\ Len(r) = n - w /\ \A i \in 1..(n - w) : r[i] = s[w + i]
  <2> DEFINE m == w + 1
  <2>1. m \in Int /\ \A i \in m..n : s[i] \in S
    BY <1>1, <1>3
  <2> HIDE DEF m
  <2>2. /\ SubSeq(s, m, n) \in Seq(S)
        /\ Len(SubSeq(s, m, n)) = IF m <= n THEN n - m + 1 ELSE 0
        /\ \A i \in 1..(n - m + 1) : SubSeq(s, m, n)[i] = s[m + i - 1]
    BY <2>1, <1>1, SubSeqProperties
  <2>3. n - m + 1 = n - w /\ (~(m <= n) => n - w = 0)
        /\ \A i \in 1..(n - w) : m + i - 1 = w + i
    BY <1>1 DEF m, n
  <2>4. QED
    BY <2>2, <2>3 DEF m
<1> HIDE DEF f, r
<1>6. /\ f \o r \in Seq(S) /\ Len(f \o r) = Len(f) + Len(r)
      /\ \A i \in 1..(Len(f) + Len(r)) :
           (f \o r)[i] = IF i <= Len(f) THEN f[i] ELSE r[i - Len(f)]
  BY <1>4, <1>5, ConcatProperties
<1>7. Len(f \o r) = n /\ \A i \in 1..n : (f \o r)[i] = s[i]
  <2>1. Len(f) + Len(r) = n
    BY <1>1, <1>4, <1>5
  <2>2. ASSUME NEW i \in 1..n PROVE (f \o r)[i] = s[i]
    <3>1. CASE i <= w
      BY <3>1, <2>1, <1>1, <1>4, <1>6
    <3>2. CASE ~(i <= w)
      <4>1. i - w \in 1..(n - w) /\ w + (i - w) = i
        BY <3>2, <1>1
      <4>2. QED
        BY <4>1, <3>2, <2>1, <1>4, <1>5, <1>6
    <3>3. QED
      BY <3>1, <3>2
  <2>3. QED
    BY <2>1, <2>2, <1>6
<1>8. f \o r = s
  BY <1>6, <1>7, SeqEqual DEF n
<1>9. QED
  BY <1>4, <1>5, <1>8 DEF f, r, n

-----------------------------------------------------------------------------
\* readFd adds what was read, whether it fits or goes through extrabuf.
LEMMA ReadFdStep ==
  ASSUME Valid(buf), NEW data \in Data, readFd(data)
  PROVE  /\ Valid(buf)' /\ Readable(buf)' = Readable(buf) \o data
         /\ buf'.size = buf.size \/ Full(buf, Len(data))
<1> DEFINE w == writableBytes(buf)
<1>1. data \in Seq(Bytes) /\ Len(data) \in Nat /\ w \in Nat
  BY DataAreSeqs DEF Valid, writableBytes
<1>2. CASE Len(data) <= w
  <2>1. buf' = HasWritten(CopyTo(buf, buf.writerIndex, data), Len(data))
    BY <1>2 DEF readFd
  <2>2. QED
    BY <2>1, <1>1, <1>2, WriteProperties
<1>3. CASE ~(Len(data) <= w)
  <2> DEFINE first == SubSeq(data, 1, w)
             rest == SubSeq(data, w + 1, Len(data))
             c == CopyTo(buf, buf.writerIndex, first)
             d == [c EXCEPT !.writerIndex = c.size]
  <2>1. buf' = AppendBytes(d, rest)
    BY <1>3 DEF readFd
  <2> HIDE DEF w
  <2>2. /\ first \in Seq(Bytes) /\ Len(first) = w /\ rest \in Seq(Bytes)
        /\ first \o rest = data
    <3>1. w <= Len(data)
      BY <1>1, <1>3
    <3>2. QED
      BY <1>1, <3>1, SplitSeq
  <2> HIDE DEF first, rest
  <2>3. /\ Valid(HasWritten(c, Len(first)))
        /\ Readable(HasWritten(c, Len(first))) = Readable(buf) \o first
        /\ HasWritten(c, Len(first)).size = buf.size
    BY <2>2, <1>1, WriteProperties, SMTT(30) DEF w
  <2>4. c.size = buf.size /\ c.writerIndex = buf.writerIndex
    <3>1. buf.writerIndex \in Nat /\ buf.writerIndex + Len(first) <= buf.size
      BY <2>2 DEF Valid, w, writableBytes
    <3>2. QED
      BY <2>2, <3>1, CopyToProperties
  <2> HIDE DEF c
  <2>5. HasWritten(c, Len(first)) = d
    <3>1. c.writerIndex + Len(first) = c.size
      BY <2>2, <2>4 DEF Valid, w, writableBytes
    <3>2. QED
      BY <3>1 DEF HasWritten
  <2>6. /\ Valid(d) /\ Readable(d) = Readable(buf) \o first
        /\ d.size = buf.size
    BY <2>3, <2>5
  <2> HIDE DEF d
  <2>7. /\ Valid(buf') /\ Readable(buf') = (Readable(buf) \o first) \o rest
        /\ buf'.size = d.size \/ Full(d, Len(rest))
    BY <2>1, <2>2, <2>6, AppendBytesProperties
  <2>8. (Readable(buf) \o first) \o rest = Readable(buf) \o (first \o rest)
    <3>1. Readable(buf) \in Seq(Bytes)
      BY ReadableIsSeq
    <3>2. first \in Seq(Bytes) /\ rest \in Seq(Bytes)
      BY <2>2
    <3>3. \A x, y, z \in Seq(Bytes) : (x \o y) \o z = x \o (y \o z)
      BY ConcatAssociative
    <3>4. QED
      BY <3>1, <3>2, <3>3, Zenon
  <2>9. Full(d, Len(rest)) => Full(buf, Len(data))
    <3>1. readableBytes(d) = readableBytes(buf) + Len(first)
      <4>1. /\ Readable(buf) \in Seq(Bytes) /\ Len(Readable(buf)) = readableBytes(buf)
            /\ Len(Readable(d)) = readableBytes(d)
        BY <2>6, ReadableIsSeq
      <4>2. QED
        BY <2>2, <2>6, <4>1, ConcatProperties
    <3>2. Len(first) + Len(rest) = Len(data)
      BY <2>2, ConcatProperties
    <3>3. /\ readableBytes(buf) \in Nat /\ Len(first) \in Nat /\ Len(rest) \in Nat
          /\ kCheapPrepend \in Nat
      BY <2>2, ReadableIsSeq, LenProperties, SizesAssumption
    <3>4. kCheapPrepend + readableBytes(d) + Len(rest)
            = kCheapPrepend + readableBytes(buf) + Len(data)
      BY ONLY <3>1, <3>2, <3>3
    <3>5. QED
      BY <2>6, <3>4 DEF Full
  <2>10. QED
    BY <2>2, <2>6, <2>7, <2>8, <2>9
<1>4. QED
  BY <1>2, <1>3

\* prepend puts its bytes before the readable ones.
LEMMA PrependStep ==
  ASSUME Valid(buf), NEW data \in Data, prepend(data)
  PROVE  /\ Valid(buf)' /\ Readable(buf)' = data \o Readable(buf)
         /\ buf'.size = buf.size
<1> DEFINE len == Len(data)
           at == buf.readerIndex - len
           p == [buf EXCEPT !.readerIndex = at]
           r == readableBytes(buf)
           h == CopyTo(p, at, data)
<1>1. data \in Seq(Bytes) /\ len \in Nat
  BY DataAreSeqs
<1>2. /\ len <= buf.readerIndex
      /\ buf' = h
  BY DEF prepend, prependableBytes
<1>3. at \in Nat /\ at + len = buf.readerIndex
  BY <1>1, <1>2 DEF Valid
<1> HIDE DEF at, len
<1>4. p = [buffer |-> buf.buffer, size |-> buf.size,
           readerIndex |-> at, writerIndex |-> buf.writerIndex]
  BY AssignReader DEF Valid
<1> HIDE DEF p
<1>5. Valid(p) /\ at + len <= p.size
  BY <1>1, <1>3, <1>4 DEF Valid, IsRecord
<1>6. /\ Valid(h) /\ h.size = buf.size
      /\ h.readerIndex = at /\ h.writerIndex = buf.writerIndex
      /\ \A j \in 0..(buf.size - 1) :
           h.buffer[j] = IF at <= j /\ j < at + len THEN data[j - at + 1]
                                                    ELSE buf.buffer[j]
  BY <1>1, <1>3, <1>4, <1>5, CopyToProperties DEF len
<1> HIDE DEF h
<1>7. /\ r \in Nat /\ Readable(buf) \in Seq(Bytes) /\ Len(Readable(buf)) = r
      /\ \A i \in 1..r : Readable(buf)[i] = buf.buffer[buf.readerIndex + i - 1]
  BY ReadableIsSeq
<1>8. readableBytes(h) = len + r
  BY <1>1, <1>3, <1>6 DEF Valid, readableBytes
<1>9. buf.readerIndex + r <= buf.size /\ buf.size \in Nat /\ buf.readerIndex \in Nat
  BY DEF Valid, readableBytes
<1> HIDE DEF r
<1>10. /\ Readable(h) \in Seq(Bytes) /\ Len(Readable(h)) = len + r
       /\ \A i \in 1..(len + r) : Readable(h)[i] = h.buffer[at + i - 1]
  BY <1>6, <1>8, ReadableIsSeq
<1>11. /\ data \o Readable(buf) \in Seq(Bytes) /\ Len(data \o Readable(buf)) = len + r
       /\ \A i \in 1..(len + r) : (data \o Readable(buf))[i] =
                                    IF i <= len THEN data[i] ELSE Readable(buf)[i - len]
  BY <1>1, <1>7, ConcatProperties DEF len
<1>12. ASSUME NEW i \in 1..(len + r)
       PROVE  Readable(h)[i] = (data \o Readable(buf))[i]
  <2> DEFINE j == at + i - 1
  <2>1. Readable(h)[i] = h.buffer[j] /\ j \in 0..(buf.size - 1)
    BY <1>1, <1>3, <1>7, <1>9, <1>10
  <2>2. CASE i <= len
    <3>1. at <= j /\ j < at + len /\ j - at + 1 = i
      BY <2>2, <1>1, <1>3
    <3> HIDE DEF j
    <3>2. QED
      BY <2>1, <2>2, <3>1, <1>6, <1>11
  <2>3. CASE ~(i <= len)
    <3>1. ~(j < at + len) /\ i - len \in 1..r /\ buf.readerIndex + (i - len) - 1 = j
      BY <2>3, <1>1, <1>3, <1>7
    <3> HIDE DEF j
    <3>2. QED
      BY <2>1, <2>3, <3>1, <1>6, <1>7, <1>11
  <2>4. QED
    BY <2>2, <2>3
<1>13. Readable(h) = data \o Readable(buf)
  BY <1>10, <1>11, <1>12, SeqEqual
<1>14. QED
  BY <1>2, <1>6, <1>13

\* retrieve takes the first len readable bytes.
LEMMA RetrieveStep ==
  ASSUME Valid(buf), NEW len \in Nat, retrieve(len)
  PROVE  /\ Valid(buf)'
         /\ Readable(buf)' = SubSeq(Readable(buf), len + 1, Len(Readable(buf)))
         /\ buf'.size = buf.size
<1> DEFINE r == readableBytes(buf)
           s == Readable(buf)
           k == len + 1
           t == SubSeq(s, k, r)
<1>1. len <= r /\ buf' = [buf EXCEPT !.readerIndex = @ + len]
  BY DEF retrieve
<1>2. buf' = [buffer |-> buf.buffer, size |-> buf.size,
              readerIndex |-> buf.readerIndex + len,
              writerIndex |-> buf.writerIndex]
  BY <1>1, AssignReader DEF Valid
<1>3. Valid(buf') /\ readableBytes(buf') = r - len
  <2> DEFINE ri == buf.readerIndex
             wi == buf.writerIndex
  <2>1. ri \in Nat /\ wi \in Nat /\ r = wi - ri
    BY DEF Valid, readableBytes
  <2>2. ri + len \in Nat /\ ri + len <= wi /\ wi - (ri + len) = r - len
    BY <2>1, <1>1
  <2>3. /\ buf'.buffer = buf.buffer /\ buf'.size = buf.size
        /\ buf'.readerIndex = ri + len /\ buf'.writerIndex = wi
        /\ IsRecord(buf')
    BY <1>2 DEF IsRecord
  <2>4. QED
    BY <2>2, <2>3 DEF Valid, readableBytes
<1>4. /\ r \in Nat /\ s \in Seq(Bytes) /\ Len(s) = r
      /\ \A i \in 1..r : s[i] = buf.buffer[buf.readerIndex + i - 1]
  BY ReadableIsSeq
<1>5. /\ Readable(buf') \in Seq(Bytes) /\ Len(Readable(buf')) = r - len
      /\ \A i \in 1..(r - len) :
           Readable(buf')[i] = buf.buffer[buf.readerIndex + len + i - 1]
  BY <1>2, <1>3, ReadableIsSeq
<1>6. buf.readerIndex \in Nat
  BY DEF Valid
<1>7. k \in Int /\ \A i \in k..r : s[i] \in Bytes
  <2>1. \A i \in k..r : i \in 1..r
    BY <1>4
  <2>2. \A i \in 1..r : s[i] \in Bytes
    BY <1>4, ElementOfSeq
  <2>3. QED
    BY <2>1, <2>2
<1> HIDE DEF s, k, r
<1>8. /\ t \in Seq(Bytes) /\ Len(t) = IF k <= r THEN r - k + 1 ELSE 0
      /\ \A i \in 1..(r - k + 1) : t[i] = s[k + i - 1]
  BY <1>4, <1>7, SubSeqProperties
<1> HIDE DEF t
<1>9. r - k + 1 = r - len /\ Len(t) = r - len
  BY <1>1, <1>4, <1>8 DEF k
<1>10. ASSUME NEW i \in 1..(r - len) PROVE Readable(buf')[i] = t[i]
  <2>1. k + i - 1 = len + i /\ len + i \in 1..r
        /\ buf.readerIndex + (len + i) - 1 = buf.readerIndex + len + i - 1
    <3>1. r \in Nat /\ buf.readerIndex \in Nat
      BY <1>4, <1>6
    <3>2. k = len + 1
      BY DEF k
    <3>3. QED
      BY <3>1, <3>2
  <2>2. t[i] = s[len + i]
    BY <2>1, <1>8, <1>9
  <2>3. QED
    BY <2>1, <2>2, <1>4, <1>5
<1>11. Readable(buf') = t
  BY <1>5, <1>8, <1>9, <1>10, SeqEqual
<1>12. QED
  BY <1>2, <1>3, <1>4, <1>11 DEF t, s, k

-----------------------------------------------------------------------------
\* retrieveAll takes all readable bytes.
LEMMA RetrieveAllStep ==
  ASSUME Valid(buf), retrieveAll
  PROVE  /\ Valid(buf)'
         /\ Readable(buf)' = SubSeq(Readable(buf), Len(Readable(buf)) + 1,
                                   Len(Readable(buf)))
         /\ buf'.size = buf.size
<1>1. buf' = [buffer |-> buf.buffer, size |-> buf.size,
              readerIndex |-> kCheapPrepend, writerIndex |-> kCheapPrepend]
  BY AssignIndices DEF retrieveAll, Valid
<1>2. Valid(buf') /\ readableBytes(buf') = 0
  BY <1>1, SizesAssumption DEF Valid, IsRecord, readableBytes
<1>3. Readable(buf') \in Seq(Bytes) /\ Len(Readable(buf')) = 0
  BY <1>2, ReadableIsSeq
<1>4. Readable(buf') = <<>>
  BY <1>3, EmptySeq
<1> DEFINE n == Len(Readable(buf))
<1>5. n \in Int /\ n + 1 \in Int /\ n < n + 1
  BY ReadableIsSeq
<1> HIDE DEF n
<1>6. SubSeq(Readable(buf), n + 1, n) = <<>>
  BY <1>5, SubSeqEmpty
<1>7. QED
  BY <1>1, <1>2, <1>4, <1>6 DEF n

\* A step of one call is a step of the queue, and keeps the buffer valid.
LEMMA QueueStep ==
  ASSUME Valid(buf), Next
  PROVE  Valid(buf)' /\ (Queue!Next \/ UNCHANGED Readable(buf))
<1>1. ASSUME NEW data \in Data, append(data) \/ hasWritten(data) \/ readFd(data)
      PROVE  Valid(buf)' /\ Queue!PutBack(data)
  <2>1. data \in Seq(Bytes)
    BY DataAreSeqs
  <2>2. CASE append(data)
    BY <2>1, <2>2, AppendBytesProperties DEF append, Queue!PutBack
  <2>3. CASE hasWritten(data)
    BY <2>1, <2>3, WriteProperties DEF hasWritten, Queue!PutBack
  <2>4. CASE readFd(data)
    BY <2>4, ReadFdStep DEF Queue!PutBack
  <2>5. QED
    BY <1>1, <2>2, <2>3, <2>4
<1>2. ASSUME NEW data \in Data, prepend(data)
      PROVE  Valid(buf)' /\ Queue!PutFront(data)
  BY <1>2, PrependStep DEF Queue!PutFront
<1>3. ASSUME NEW len \in 0..MaxLen, ensureWritableBytes(len)
      PROVE  Valid(buf)' /\ UNCHANGED Readable(buf)
  BY <1>3, SizesAssumption, EnsureWritableProperties DEF ensureWritableBytes
<1>4. ASSUME NEW len \in Nat, retrieve(len)
      PROVE  Valid(buf)' /\ Queue!TakeFront(len) /\ len \in 0..Len(Readable(buf))
  <2>1. Valid(buf)' /\ Queue!TakeFront(len)
    BY <1>4, RetrieveStep DEF Queue!TakeFront
  <2>2. len \in 0..Len(Readable(buf))
    BY <1>4, ReadableIsSeq DEF retrieve
  <2>3. QED
    BY <2>1, <2>2
<1>5. ASSUME NEW end \in 0..buf.size, retrieveUntil(end)
      PROVE  Valid(buf)' /\ Queue!Next
  <2>1. end - buf.readerIndex \in Nat
    BY <1>5 DEF retrieveUntil, Valid
  <2>2. retrieve(end - buf.readerIndex)
    BY <1>5 DEF retrieveUntil
  <2>3. QED
    BY <2>1, <2>2, <1>4 DEF Queue!Next
<1>6. ASSUME retrieveAll
      PROVE  Valid(buf)' /\ Queue!Next
  <2>1. Valid(buf)' /\ Queue!TakeFront(Len(Readable(buf)))
    BY <1>6, RetrieveAllStep DEF Queue!TakeFront
  <2>2. Len(Readable(buf)) \in 0..Len(Readable(buf))
    BY ReadableIsSeq
  <2>3. QED
    BY <2>1, <2>2 DEF Queue!Next
<1>7. QED
  <2>1. \A len \in 0..MaxReadable : len \in Nat
    BY SizesAssumption
  <2>2. QED
    BY <1>1, <1>2, <1>3, <1>4, <1>5, <1>6, <2>1 DEF Next, Queue!Next

\* A new buffer is valid and empty.
LEMMA InitValid == Init => Valid(buf) /\ Queue!Init
<1> SUFFICES ASSUME Init PROVE Valid(buf) /\ Queue!Init
  OBVIOUS
<1> DEFINE n == kCheapPrepend + kInitialSize
<1>1. n \in Nat /\ kCheapPrepend <= n /\ kCheapPrepend \in Nat
  BY SizesAssumption
<1>2. buf.buffer \in [0..(n - 1) -> Bytes]
  <2>1. buf.buffer = [i \in 0..(kCheapPrepend + kInitialSize - 1) |-> Zero]
    BY DEF Init
  <2>2. QED
    BY <2>1, ZeroAssumption, SizesAssumption
<1>3. /\ buf.size = n
      /\ buf.readerIndex = kCheapPrepend /\ buf.writerIndex = kCheapPrepend
      /\ IsRecord(buf)
  <2>1. buf.size = n /\ buf.readerIndex = kCheapPrepend
        /\ buf.writerIndex = kCheapPrepend
    BY DEF Init
  <2>2. IsRecord(buf)
    BY DEF Init, IsRecord
  <2>3. QED
    BY <2>1, <2>2
<1> HIDE DEF n
<1>4. Valid(buf) /\ readableBytes(buf) = 0
  BY <1>1, <1>2, <1>3 DEF Valid, readableBytes
<1>5. Readable(buf) \in Seq(Bytes) /\ Len(Readable(buf)) = 0
  BY <1>4, ReadableIsSeq
<1>6. QED
  BY <1>4, <1>5, EmptySeq DEF Queue!Init

-----------------------------------------------------------------------------
\* The buffer is valid after any calls.
THEOREM Invariance == Spec => []Valid(buf)
<1>1. Valid(buf) /\ [Next]_vars => Valid(buf)'
  <2> SUFFICES ASSUME Valid(buf), [Next]_vars PROVE Valid(buf)'
    OBVIOUS
  <2>1. CASE Next
    BY <2>1, QueueStep
  <2>2. CASE UNCHANGED vars
    BY <2>2 DEF vars
  <2>3. QED
    BY <2>1, <2>2
<1>2. QED
  BY <1>1, InitValid, PTL DEF Spec

\* The record of a buffer keeps its type.
THEOREM TypeCorrect == Spec => []TypeOK
<1>1. Valid(buf) => TypeOK
  <2> SUFFICES ASSUME Valid(buf) PROVE TypeOK
    OBVIOUS
  <2>1. DOMAIN buf = {"buffer", "size", "readerIndex", "writerIndex"}
    BY DEF Valid, IsRecord
  <2>2. QED
    BY <2>1 DEF Valid, TypeOK
<1>2. QED
  BY <1>1, Invariance, PTL

\* 0 <= readerIndex <= writerIndex <= size after any sequence of calls, for
\* any sizes.
THEOREM IndicesStayOrdered == Spec => []IndicesOrdered
<1>1. Valid(buf) => IndicesOrdered
  BY DEF Valid, IndicesOrdered
<1>2. QED
  BY <1>1, Invariance, PTL

\* The readable bytes behave as a queue of bytes: no sequence of calls loses,
\* repeats or reorders a byte, however the vector moves and grows.
THEOREM Refinement == Spec => ImplementsByteQueue
<1>1. Valid(buf) /\ [Next]_vars => [Queue!Next]_(Readable(buf))
  <2> SUFFICES ASSUME Valid(buf), [Next]_vars
               PROVE  Queue!Next \/ UNCHANGED Readable(buf)
    OBVIOUS
  <2>1. CASE Next
    BY <2>1, QueueStep
  <2>2. CASE UNCHANGED vars
    BY <2>2 DEF vars
  <2>3. QED
    BY <2>1, <2>2
<1>2. Init => Queue!Init
  BY InitValid
<1>3. QED
  BY <1>1, <1>2, Invariance, PTL DEF Spec, ImplementsByteQueue, Queue!Spec

\* Each call adds or takes exactly the bytes it is about.
THEOREM ExactCalls == Spec => CallsAreExact
<1> DEFINE Exact ==
      /\ \A data \in Data :
           /\ append(data) \/ hasWritten(data) \/ readFd(data) => Queue!PutBack(data)
           /\ prepend(data) => Queue!PutFront(data)
      /\ \A len \in 0..MaxReadable : retrieve(len) => Queue!TakeFront(len)
<1>1. Valid(buf) => Exact
  <2> SUFFICES ASSUME Valid(buf) PROVE Exact
    OBVIOUS
  <2>1. ASSUME NEW data \in Data, append(data) \/ hasWritten(data) \/ readFd(data)
        PROVE  Queue!PutBack(data)
    <3>1. data \in Seq(Bytes)
      BY DataAreSeqs
    <3>2. CASE append(data)
      BY <3>1, <3>2, AppendBytesProperties DEF append, Queue!PutBack
    <3>3. CASE hasWritten(data)
      BY <3>1, <3>3, WriteProperties DEF hasWritten, Queue!PutBack
    <3>4. CASE readFd(data)
      BY <3>4, ReadFdStep DEF Queue!PutBack
    <3>5. QED
      BY <2>1, <3>2, <3>3, <3>4
  <2>2. ASSUME NEW data \in Data, prepend(data) PROVE Queue!PutFront(data)
    BY <2>2, PrependStep DEF Queue!PutFront
  <2>3. ASSUME NEW len \in 0..MaxReadable, retrieve(len) PROVE Queue!TakeFront(len)
    BY <2>3, RetrieveStep, SizesAssumption DEF Queue!TakeFront
  <2>4. QED
    BY <2>1, <2>2, <2>3
<1>2. Valid(buf) /\ [Next]_vars => [Exact]_vars
  BY <1>1
<1>3. QED
  BY <1>2, Invariance, PTL DEF Spec, CallsAreExact

\* A call that changes the bytes to keep makes the vector grow only if they and
\* the kCheapPrepend bytes before them do not fit: space that retrieve left is
\* used first (makeSpace, Buffer.h:152-172; readFd, Buffer.cpp:8-29).
THEOREM GrowsWhenFull == Spec => GrowsOnlyWhenFull
<1> DEFINE Frugal == Readable(buf') # Readable(buf) /\ buf'.size > buf.size
                       => buf.size < kCheapPrepend + readableBytes(buf')
<1>1. Valid(buf) /\ Next => Frugal
  <2> SUFFICES ASSUME Valid(buf), Next, Readable(buf') # Readable(buf),
                      buf'.size > buf.size
               PROVE  buf.size < kCheapPrepend + readableBytes(buf')
    OBVIOUS
  <2>1. buf.size \in Nat /\ buf'.size # buf.size
    BY DEF Valid
  <2>2. ASSUME NEW data \in Data, append(data) \/ hasWritten(data) \/ readFd(data)
        PROVE  buf.size < kCheapPrepend + readableBytes(buf')
    <3>1. data \in Seq(Bytes)
      BY DataAreSeqs
    <3>2. /\ Valid(buf') /\ Readable(buf') = Readable(buf) \o data
          /\ buf'.size = buf.size \/ Full(buf, Len(data))
      <4>1. CASE append(data)
        BY <3>1, <4>1, AppendBytesProperties DEF append
      <4>2. CASE hasWritten(data)
        BY <3>1, <4>2, WriteProperties DEF hasWritten
      <4>3. CASE readFd(data)
        BY <4>3, ReadFdStep
      <4>4. QED
        BY <2>2, <4>1, <4>2, <4>3
    <3>3. readableBytes(buf') = readableBytes(buf) + Len(data)
      <4>1. /\ Readable(buf) \in Seq(Bytes) /\ Len(Readable(buf)) = readableBytes(buf)
            /\ Len(Readable(buf')) = readableBytes(buf')
        BY <3>2, ReadableIsSeq
      <4>2. QED
        BY <3>1, <3>2, <4>1, ConcatProperties
    <3>4. /\ readableBytes(buf) \in Nat /\ Len(data) \in Nat /\ kCheapPrepend \in Nat
      BY <3>1, ReadableIsSeq, LenProperties, SizesAssumption
    <3>5. QED
      BY <2>1, <3>2, <3>3, <3>4 DEF Full
  <2>3. ASSUME NEW data \in Data, prepend(data) PROVE FALSE
    BY <2>1, <2>3, PrependStep
  <2>4. ASSUME NEW len \in 0..MaxLen, ensureWritableBytes(len) PROVE FALSE
    BY <2>4, SizesAssumption, EnsureWritableProperties DEF ensureWritableBytes
  <2>5. ASSUME NEW len \in Nat, retrieve(len) PROVE FALSE
    BY <2>1, <2>5, RetrieveStep
  <2>6. ASSUME NEW end \in 0..buf.size, retrieveUntil(end) PROVE FALSE
    <3>1. end - buf.readerIndex \in Nat
      BY <2>6 DEF retrieveUntil, Valid
    <3>2. QED
      BY <2>5, <2>6, <3>1 DEF retrieveUntil
  <2>7. CASE retrieveAll
    BY <2>1, <2>7, RetrieveAllStep
  <2>8. \A len \in 0..MaxReadable : len \in Nat
    BY SizesAssumption
  <2>9. QED
    BY <2>2, <2>3, <2>4, <2>5, <2>6, <2>7, <2>8 DEF Next
<1>2. Valid(buf) /\ [Next]_vars => [Frugal]_vars
  BY <1>1
<1>3. QED
  BY <1>2, Invariance, PTL DEF Spec, GrowsOnlyWhenFull
=============================================================================
