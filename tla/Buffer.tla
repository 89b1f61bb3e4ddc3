-------------------------------- MODULE Buffer --------------------------------
(***************************************************************************)
(* Buffer (core/buffer.cpp, core/buffer.h): an array with a read and a     *)
(* write index that reuses the space in front of the unread bytes before   *)
(* it grows, and readFd(), which lets readv() fill the writable space and  *)
(* then an array on the stack.                                             *)
(*                                                                         *)
(* Positions count from 1 here, so m_buffer[i] is buffer[i + 1].  Callers  *)
(* keep to the unread bytes: TcpConnection::handleWrite() retrieves what   *)
(* write() took of them.                                                   *)
(***************************************************************************)
EXTENDS Integers, Sequences

CONSTANTS
    Bytes,         \* what a byte may be
    kPrependSize,
    InitialSize,   \* the constructor's argument, kInitialSize by default
    ExtraSize,     \* the size of readFd()'s array on the stack
    MaxReadable    \* a bound on the unread bytes, for TLC

ASSUME BufferAssumption ==
    /\ Bytes # {}
    /\ {kPrependSize, InitialSize, MaxReadable} \subseteq Nat
    /\ ExtraSize \in Nat \ {0}

VARIABLES
    buffer,        \* m_buffer
    readerIndex,   \* m_readerIndex
    writerIndex,   \* m_writerIndex
    call           \* history: what the last call was given, or how much it consumed

vars == <<buffer, readerIndex, writerIndex, call>>

Size == Len(buffer)

TypeOK ==
    /\ buffer \in Seq(Bytes)
    /\ {readerIndex, writerIndex} \subseteq Nat
    /\ kPrependSize <= readerIndex
    /\ readerIndex <= writerIndex
    /\ writerIndex <= Size

\* a byte nobody has written; resize() fills the vector with zeros as well
Zero == CHOOSE b \in Bytes : TRUE

Zeros(n) == [i \in 1 .. n |-> Zero]

Init ==
    /\ buffer = Zeros(kPrependSize + InitialSize)
    /\ readerIndex = kPrependSize
    /\ writerIndex = kPrependSize
    /\ call = <<"take", 0>>

readableBytes == writerIndex - readerIndex
writableBytes == Size - writerIndex

\* peek() and the readableBytes() bytes from there
Readable == SubSeq(buffer, readerIndex + 1, writerIndex)

-----------------------------------------------------------------------------
(* The helpers take and return the three variables as a record.            *)

State == [buf |-> buffer, r |-> readerIndex, w |-> writerIndex]

\* std::copy() of data to position at
Copied(buf, at, data) ==
    [i \in DOMAIN buf |-> IF i > at /\ i <= at + Len(data) THEN data[i - at] ELSE buf[i]]

\* mutant: the consumed space is never counted
FitsAtTail(s, len) == Len(s.buf) - s.w >= len

\* the consumed space and the writable space hold len bytes
Fits(s, len) == Len(s.buf) - s.w + s.r - kPrependSize >= len

\* mutant: the indices move and the bytes do not
MovedIndices(s) == [s EXCEPT !.r = kPrependSize, !.w = kPrependSize + s.w - s.r]

\* the unread bytes move to the front
Moved(s) ==
    [buf |-> Copied(s.buf, kPrependSize, SubSeq(s.buf, s.r + 1, s.w)),
     r   |-> kPrependSize,
     w   |-> kPrependSize + s.w - s.r]

makeSpace(s, len) ==
    IF Fits(s, len) THEN Moved(s)
    ELSE [s EXCEPT !.buf = s.buf \o Zeros(s.w + len - Len(s.buf))]

\* mutant: one byte less than asked for is enough
ensureWritableAlmost(s, len) ==
    IF Len(s.buf) - s.w < len - 1 THEN makeSpace(s, len) ELSE s

ensureWritable(s, len) == IF Len(s.buf) - s.w < len THEN makeSpace(s, len) ELSE s

append(s, data) ==
    LET e == ensureWritable(s, Len(data)) IN
    [e EXCEPT !.buf = Copied(e.buf, e.w, data), !.w = e.w + Len(data)]

Become(s) == buffer' = s.buf /\ readerIndex' = s.r /\ writerIndex' = s.w

-----------------------------------------------------------------------------
\* retrieve(len) of all there is
RetrievesAll(len) == len >= readableBytes

\* retrieve(), retrieveAll(), retrieveAsString() and retrieveAllAsString()
Retrieve(len) ==
    /\ len <= readableBytes
    /\ readerIndex' = IF RetrievesAll(len) THEN kPrependSize ELSE readerIndex + len
    /\ writerIndex' = IF RetrievesAll(len) THEN kPrependSize ELSE writerIndex
    /\ call' = <<"take", len>>
    /\ UNCHANGED buffer

AppendData(data) ==
    /\ readableBytes + Len(data) <= MaxReadable
    /\ call' = <<"put", data>>
    /\ Become(append(State, data))

EnsureWritableBytes(len) ==
    /\ readableBytes + len <= MaxReadable
    /\ Become(ensureWritable(State, len))
    /\ UNCHANGED call

\* mutant: what went to the stack is appended to a buffer not marked full
FullForgotten(s) == s

\* m_writerIndex = m_buffer.size()
Full(s) == [s EXCEPT !.w = Len(s.buf)]

\* readv() delivers data, no more than the two arrays hold
ReadFd(data) ==
    LET n      == Len(data)
        room   == writableBytes
        filled == [State EXCEPT !.buf = Copied(buffer, writerIndex, SubSeq(data, 1, room))]
    IN /\ n <= IF room < ExtraSize THEN room + ExtraSize ELSE room
       /\ readableBytes + n <= MaxReadable
       /\ call' = <<"put", data>>
       /\ IF n <= room
          THEN Become([State EXCEPT !.buf = Copied(buffer, writerIndex, data),
                                    !.w = writerIndex + n])
          ELSE Become(append(Full(filled), SubSeq(data, room + 1, n)))

Inputs == UNION {[1 .. n -> Bytes] : n \in 1 .. MaxReadable}

Next ==
    \/ \E len \in 0 .. MaxReadable : Retrieve(len) \/ EnsureWritableBytes(len)
    \/ \E data \in Inputs : AppendData(data) \/ ReadFd(data)

Spec == Init /\ [][Next]_vars

-----------------------------------------------------------------------------
\* Moving, growing, resetting the indices and the detour over the stack lose,
\* repeat and reorder no byte: the unread bytes are a queue of what append() and
\* readFd() were given, less what retrieve() was asked for.
BQ == INSTANCE ByteQueue WITH bytes <- Readable
ImplementsByteQueue == BQ!Spec

\* The consumed space is reused before the array grows: however many bytes go
\* through the buffer, it is never larger than its initial size or than twice
\* the unread bytes it was ever asked to hold.
SizeBounded ==
    LET capacity == Size - kPrependSize
    IN capacity <= InitialSize \/ capacity < 2 * MaxReadable
=============================================================================
