------------------------------- MODULE Buffer -------------------------------
(***************************************************************************)
(* muduo/net/Buffer.h and Buffer.cc: a vector of bytes with a reader and a *)
(* writer index.  It grows at the end, moves its content to the front when *)
(* that makes room enough, and keeps space before the content for headers. *)
(*                                                                         *)
(* Indices count from 0 as in the code: the byte at index i is buffer[i+1].*)
(***************************************************************************)
EXTENDS Integers, Sequences

CONSTANTS
    Byte,
    Zero,               \* the byte a vector is filled with
    kCheapPrepend,
    kInitialSize,
    ExtraBuf,           \* size of extrabuf in readFd
    Sizes,              \* the arguments of reserve and ensureWritableBytes
    Chunks              \* the byte strings users append, prepend and receive

\* What is assumed of the constants.
Constants ==
    /\ Zero \in Byte
    /\ kCheapPrepend \in Nat /\ kInitialSize \in Nat /\ ExtraBuf \in Nat
    /\ Sizes \subseteq Nat /\ Chunks \subseteq Seq(Byte)

VARIABLE b              \* the Buffer: buffer, readerIndex, writerIndex
-----------------------------------------------------------------------------
(* The member functions, on a Buffer x.                                    *)

NewBuffer(initialSize) ==
    [buffer |-> [i \in 1 .. kCheapPrepend + initialSize |-> Zero],
     readerIndex |-> kCheapPrepend, writerIndex |-> kCheapPrepend]

ReadableBytes(x) == x.writerIndex - x.readerIndex
WritableBytes(x) == Len(x.buffer) - x.writerIndex
PrependableBytes(x) == x.readerIndex

\* The bytes between the indices.
Content(x) == SubSeq(x.buffer, x.readerIndex + 1, x.writerIndex)

\* The bytes s copied into the vector, from index `at' on.
Copy(buffer, at, s) ==
    [i \in 1 .. Len(buffer) |-> IF i \in at + 1 .. at + Len(s) THEN s[i - at] ELSE buffer[i]]

\* vector::resize to n bytes.
Resized(buffer, n) == [i \in 1 .. n |-> IF i <= Len(buffer) THEN buffer[i] ELSE Zero]

MakeSpace(x, len) ==
    IF WritableBytes(x) + PrependableBytes(x) < len + kCheapPrepend
    THEN [x EXCEPT !.buffer = Resized(x.buffer, x.writerIndex + len)]
    ELSE [buffer |-> Copy(x.buffer, kCheapPrepend, Content(x)),
          readerIndex |-> kCheapPrepend,
          writerIndex |-> kCheapPrepend + ReadableBytes(x)]

EnsureWritableBytes(x, len) == IF WritableBytes(x) < len THEN MakeSpace(x, len) ELSE x

\* What is written at beginWrite, and hasWritten.
Written(x, s) ==
    [x EXCEPT !.buffer = Copy(x.buffer, x.writerIndex, s), !.writerIndex = x.writerIndex + Len(s)]

Appended(x, s) == Written(EnsureWritableBytes(x, Len(s)), s)

Prepended(x, s) ==
    [x EXCEPT !.buffer = Copy(x.buffer, x.readerIndex - Len(s), s),
              !.readerIndex = x.readerIndex - Len(s)]

Retrieved(x, len) ==
    IF len < ReadableBytes(x) THEN [x EXCEPT !.readerIndex = x.readerIndex + len]
    ELSE [x EXCEPT !.readerIndex = kCheapPrepend, !.writerIndex = kCheapPrepend]

\* readFd when readv has delivered s: what does not fit is in extrabuf, and appended.
Received(x, s) ==
    LET writable == WritableBytes(x)
    IN  IF Len(s) <= writable THEN Written(x, s)
        ELSE Appended(Written(x, SubSeq(s, 1, writable)), SubSeq(s, writable + 1, Len(s)))
-----------------------------------------------------------------------------
(* A user of one Buffer, who keeps to the assertions on the arguments.     *)

Init == \E n \in Sizes : b = NewBuffer(n)

Append_(s) == b' = Appended(b, s)

Prepend(s) == Len(s) <= PrependableBytes(b) /\ b' = Prepended(b, s)

\* retrieve, and what is built on it; n = readableBytes() is retrieveAll.
Retrieve(n) == n <= ReadableBytes(b) /\ b' = Retrieved(b, n)

Unwrite(n) == n <= ReadableBytes(b) /\ b' = [b EXCEPT !.writerIndex = b.writerIndex - n]

\* ensureWritableBytes alone, as before a write to beginWrite.
EnsureWritable(n) == b' = EnsureWritableBytes(b, n)

\* A write to beginWrite, and hasWritten.
HasWritten(s) == Len(s) <= WritableBytes(b) /\ b' = Written(b, s)

\* The new Buffer takes the content, and the two are swapped.
Shrink(reserve) ==
    b' = Appended(EnsureWritableBytes(NewBuffer(kInitialSize), ReadableBytes(b) + reserve), Content(b))

\* readv takes two buffers when the first is smaller than the second.
ReadFd(s) ==
    /\ Len(s) <= IF WritableBytes(b) < ExtraBuf THEN WritableBytes(b) + ExtraBuf ELSE WritableBytes(b)
    /\ b' = Received(b, s)

Next ==
    \/ \E s \in Chunks : Append_(s) \/ Prepend(s) \/ HasWritten(s) \/ ReadFd(s)
    \/ \E n \in 0 .. ReadableBytes(b) : Retrieve(n) \/ Unwrite(n)
    \/ \E n \in Sizes : EnsureWritable(n) \/ Shrink(n)

Spec == Init /\ [][Next]_b
-----------------------------------------------------------------------------
(* Properties.                                                             *)

\* The indices are in order, inside the vector, and the cheap prepend space is
\* never given up by growing or moving: an empty Buffer can always be reset to it.
IndicesInOrder ==
    /\ 0 <= b.readerIndex /\ b.readerIndex <= b.writerIndex /\ b.writerIndex <= Len(b.buffer)
    /\ kCheapPrepend <= Len(b.buffer)

\* The Buffer is a queue of bytes to its user, however it grows, moves and shrinks.
Queue == INSTANCE ByteQueue WITH content <- Content(b)
QueueSpec == Queue!Spec
=============================================================================
