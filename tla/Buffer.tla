------------------------------- MODULE Buffer -------------------------------
(***************************************************************************)
(* Buffer (Buffer.h, Buffer.cpp): the bytes of a connection between the    *)
(* socket and the user, in a vector with two indices.                      *)
(*                                                                         *)
(* A buffer is a record; the member functions that call one another are    *)
(* operators from buffers to buffers, so that readFd, which calls append,  *)
(* which may move or grow what is there, is one step.  Cells count from 0. *)
(* Sizes and contents are small: the bounds below stand for size_t and for *)
(* what a peer sends.  swap, which exchanges whole objects, is left out,   *)
(* and so is shrink, which nothing calls and which leaves the indices as   *)
(* they were on a vector that may end before them.                         *)
(***************************************************************************)
EXTENDS Integers, Sequences

CONSTANTS
  Bytes,          \* values of a byte
  Zero,           \* the value vector::resize gives to a new byte
  kCheapPrepend,  \* 8 in the code
  kInitialSize,   \* 1024 in the code
  ExtraSize,      \* sizeof extrabuf, 65536 in the code
  MaxLen,         \* bound: bytes handed over in one call
  MaxReadable     \* bound: bytes kept in the buffer

ASSUME ZeroAssumption == Zero \in Bytes
ASSUME SizesAssumption ==
  /\ kCheapPrepend \in Nat /\ kInitialSize \in Nat
  /\ ExtraSize \in Nat /\ MaxLen \in Nat /\ MaxReadable \in Nat

VARIABLE buf  \* the object: [buffer, size, readerIndex, writerIndex]

vars == <<buf>>

Data == UNION {[1..n -> Bytes] : n \in 0..MaxLen}

\* The vector's cells are the bytes 0 .. size-1.
TypeOK ==
  /\ DOMAIN buf = {"buffer", "size", "readerIndex", "writerIndex"}
  /\ buf.size \in Nat
  /\ buf.readerIndex \in Nat
  /\ buf.writerIndex \in Nat
  /\ buf.buffer \in [0..(buf.size - 1) -> Bytes]

Init ==
  buf = [buffer |-> [i \in 0..(kCheapPrepend + kInitialSize - 1) |-> Zero],
         size |-> kCheapPrepend + kInitialSize,
         readerIndex |-> kCheapPrepend,
         writerIndex |-> kCheapPrepend]

-----------------------------------------------------------------------------
(* Member functions of a buffer b.                                         *)

readableBytes(b) == b.writerIndex - b.readerIndex
writableBytes(b) == b.size - b.writerIndex
prependableBytes(b) == b.readerIndex

\* The bytes from peek() to beginWrite().
Readable(b) == [i \in 1..readableBytes(b) |-> b.buffer[b.readerIndex + i - 1]]

\* std::copy(data, data+len, begin()+at)
CopyTo(b, at, data) ==
  [b EXCEPT !.buffer =
     [j \in 0..(b.size - 1) |->
        IF at <= j /\ j < at + Len(data) THEN data[j - at + 1] ELSE b.buffer[j]]]

Resize(b, n) ==
  [b EXCEPT !.size = n,
            !.buffer = [j \in 0..(n - 1) |-> IF j < b.size THEN b.buffer[j]
                                                          ELSE Zero]]

\* Moves the readable bytes to kCheapPrepend.
MoveToFront(b) ==
  [CopyTo(b, kCheapPrepend, Readable(b)) EXCEPT
     !.readerIndex = kCheapPrepend,
     !.writerIndex = kCheapPrepend + readableBytes(b)]

MakeSpaceAlwaysGrows(b, len) ==  \* mutant
  Resize(b, b.writerIndex + len)

MakeSpaceForgetsPrepend(b, len) ==  \* mutant
  IF writableBytes(b) + prependableBytes(b) < len
  THEN Resize(b, b.writerIndex + len)
  ELSE MoveToFront(b)

makeSpace(b, len) ==
  IF writableBytes(b) + prependableBytes(b) < len + kCheapPrepend
  THEN Resize(b, b.writerIndex + len)
  ELSE MoveToFront(b)

EnsureWritable(b, len) ==
  IF writableBytes(b) < len THEN makeSpace(b, len) ELSE b

HasWritten(b, len) == [b EXCEPT !.writerIndex = @ + len]

AppendBytes(b, data) ==
  LET e == EnsureWritable(b, Len(data))
  IN HasWritten(CopyTo(e, e.writerIndex, data), Len(data))

-----------------------------------------------------------------------------
(* The calls users make.                                                   *)

Fits(len) == readableBytes(buf) + len <= MaxReadable  \* a bound of the model

append(data) ==
  /\ Fits(Len(data))
  /\ buf' = AppendBytes(buf, data)

ensureWritableBytes(len) ==
  /\ Fits(len)
  /\ buf' = EnsureWritable(buf, len)

\* A user who wrote at beginWrite() says so.
hasWritten(data) ==
  /\ Len(data) <= writableBytes(buf)
  /\ Fits(Len(data))
  /\ buf' = HasWritten(CopyTo(buf, buf.writerIndex, data), Len(data))

PrependUnchecked(data) ==  \* mutant
  /\ Fits(Len(data))
  /\ buf' = CopyTo([buf EXCEPT !.readerIndex = @ - Len(data)],
                   buf.readerIndex - Len(data), data)

prepend(data) ==
  /\ Len(data) <= prependableBytes(buf)
  /\ Fits(Len(data))
  /\ buf' = CopyTo([buf EXCEPT !.readerIndex = @ - Len(data)],
                   buf.readerIndex - Len(data), data)

retrieve(len) ==
  /\ len <= readableBytes(buf)
  /\ buf' = [buf EXCEPT !.readerIndex = @ + len]

\* end is a place between peek() and beginWrite().
retrieveUntil(end) ==
  /\ buf.readerIndex <= end /\ end <= buf.writerIndex
  /\ retrieve(end - buf.readerIndex)

RetrieveAllReaderOnly ==  \* mutant
  buf' = [buf EXCEPT !.readerIndex = kCheapPrepend]

\* retrieveAsString returns a copy of the bytes and ends in this.
retrieveAll ==
  buf' = [buf EXCEPT !.readerIndex = kCheapPrepend,
                     !.writerIndex = kCheapPrepend]

\* readv fills the writable bytes, then extrabuf; what came into extrabuf is
\* appended.
ReadFdAppendsN(data) ==  \* mutant
  /\ Len(data) <= writableBytes(buf) + ExtraSize
  /\ Fits(Len(data))
  /\ LET w == writableBytes(buf)
         first == SubSeq(data, 1, w)
         extra == [i \in 1..Len(data) |-> IF w + i <= Len(data) THEN data[w + i]
                                                               ELSE Zero]
         b == CopyTo(buf, buf.writerIndex, first)
     IN buf' = IF Len(data) <= w
               THEN HasWritten(CopyTo(buf, buf.writerIndex, data), Len(data))
               ELSE AppendBytes([b EXCEPT !.writerIndex = b.size], extra)

readFd(data) ==
  /\ Len(data) <= writableBytes(buf) + ExtraSize
  /\ Fits(Len(data))
  /\ LET w == writableBytes(buf)
         first == SubSeq(data, 1, w)
         rest == SubSeq(data, w + 1, Len(data))
         b == CopyTo(buf, buf.writerIndex, first)
     IN buf' = IF Len(data) <= w
               THEN HasWritten(CopyTo(buf, buf.writerIndex, data), Len(data))
               ELSE AppendBytes([b EXCEPT !.writerIndex = b.size], rest)

\* The calls that the connections make of their buffers, and those that users can
\* make of the buffers they are given, but for shrink and swap (see above).
Next ==
  \/ \E data \in Data : \/ append(data) \/ hasWritten(data)
                        \/ prepend(data) \/ readFd(data)
  \/ \E len \in 0..MaxLen : ensureWritableBytes(len)
  \/ \E len \in 0..MaxReadable : retrieve(len)
  \/ \E end \in 0..buf.size : retrieveUntil(end)
  \/ retrieveAll

Spec == Init /\ [][Next]_vars

-----------------------------------------------------------------------------
(* Properties.                                                             *)

\* 0 <= readerIndex <= writerIndex <= size, the picture of Buffer.h:15-21,
\* which everything that copies through the indices depends on.
IndicesOrdered ==
  /\ 0 <= buf.readerIndex
  /\ buf.readerIndex <= buf.writerIndex
  /\ buf.writerIndex <= buf.size

\* The vector grows only when the bytes to keep and the kCheapPrepend bytes
\* before them do not fit; space left by retrieve is used first, also in
\* readFd (makeSpace, Buffer.h:154).
GrowsOnlyWhenFull ==
  [][(Readable(buf') # Readable(buf) /\ buf'.size > buf.size)
       => buf.size < kCheapPrepend + readableBytes(buf')]_vars

\* Whatever the indices do, the readable bytes are a queue of the bytes that
\* went in.
Queue == INSTANCE ByteQueue WITH content <- Readable(buf)
ImplementsByteQueue == Queue!Spec

\* Each call puts in exactly its bytes at its end, or takes exactly as many as
\* it says: readFd in particular, whether the bytes fit or go through extrabuf
\* and a move or a resize of the vector (Buffer.cpp:21-26).
CallsAreExact ==
  [][/\ \A data \in Data :
          /\ append(data) \/ hasWritten(data) \/ readFd(data) => Queue!PutBack(data)
          /\ prepend(data) => Queue!PutFront(data)
     /\ \A len \in 0..MaxReadable : retrieve(len) => Queue!TakeFront(len)]_vars
=============================================================================
