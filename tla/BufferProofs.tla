----------------------------- MODULE BufferProofs -----------------------------
(***************************************************************************)
(* Proofs about Buffer, for every alphabet, every size of the array and of *)
(* the array on the stack, and every bound on the unread bytes.            *)
(***************************************************************************)
EXTENDS Buffer, SequenceTheorems, TLAPS

LEMMA FunctionIsSeq ==
    ASSUME NEW S, NEW n \in Nat, NEW f \in [1 .. n -> S]
    PROVE  f \in Seq(S) /\ Len(f) = n
<1>1. f \in Seq(S)
  BY SeqDef
<1>2. DOMAIN f = 1 .. Len(f) /\ Len(f) \in Nat /\ DOMAIN f = 1 .. n
  BY <1>1, LenProperties
<1>3. Len(f) = n
  BY <1>2
<1>4. QED  BY <1>1, <1>3

LEMMA SliceProperties ==
    ASSUME NEW S, NEW q \in Seq(S), NEW m \in Nat, NEW n \in Nat, m <= n, n <= Len(q)
    PROVE  /\ SubSeq(q, m + 1, n) \in Seq(S)
           /\ Len(SubSeq(q, m + 1, n)) = n - m
           /\ \A i \in 1 .. n - m : SubSeq(q, m + 1, n)[i] = q[m + i]
  BY SMT

(* A sequence is a prefix of it and what follows.                          *)
LEMMA SplitProperties ==
    ASSUME NEW S, NEW q \in Seq(S), NEW k \in Nat, k <= Len(q)
    PROVE  /\ SubSeq(q, 1, k) \in Seq(S) /\ Len(SubSeq(q, 1, k)) = k
           /\ SubSeq(q, k + 1, Len(q)) \in Seq(S)
           /\ Len(SubSeq(q, k + 1, Len(q))) = Len(q) - k
           /\ SubSeq(q, 1, k) \o SubSeq(q, k + 1, Len(q)) = q
<1>1. /\ SubSeq(q, 1, k) \in Seq(S) /\ Len(SubSeq(q, 1, k)) = k
      /\ \A i \in 1 .. k : SubSeq(q, 1, k)[i] = q[i]
  BY SMT
<1>2. Len(q) \in Nat
  BY LenProperties
<1>3. /\ SubSeq(q, k + 1, Len(q)) \in Seq(S)
      /\ Len(SubSeq(q, k + 1, Len(q))) = Len(q) - k
      /\ \A i \in 1 .. Len(q) - k : SubSeq(q, k + 1, Len(q))[i] = q[k + i]
  BY <1>2, SMT
<1> DEFINE a == SubSeq(q, 1, k)
           b == SubSeq(q, k + 1, Len(q))
<1>4. a \o b = q
  <2> HIDE DEF a, b
  <2>1. /\ a \in Seq(S) /\ Len(a) = k /\ \A i \in 1 .. k : a[i] = q[i]
        /\ b \in Seq(S) /\ Len(b) = Len(q) - k /\ \A i \in 1 .. Len(q) - k : b[i] = q[k + i]
    BY <1>1, <1>3 DEF a, b
  <2>2. a \o b \in Seq(S) /\ Len(a \o b) = Len(q)
    BY <1>2, <2>1
  <2>3. ASSUME NEW i \in 1 .. Len(q) PROVE (a \o b)[i] = q[i]
    <3>1. CASE i <= k
      BY <1>2, <2>1, <2>3, <3>1
    <3>2. CASE i > k
      <4>1. i - k \in 1 .. Len(q) - k /\ k + (i - k) = i
        BY <1>2, <2>3, <3>2
      <4>2. (a \o b)[i] = b[i - k]
        BY <1>2, <2>1, <2>3, <3>2
      <4>3. QED  BY <2>1, <4>1, <4>2
    <3>3. i <= k \/ i > k
      BY <1>2, <2>3
    <3>4. QED  BY <3>1, <3>2, <3>3
  <2>4. QED  BY <2>2, <2>3, SeqEqual
<1>5. QED  BY <1>1, <1>3, <1>4

LEMMA ZerosProperties ==
    ASSUME NEW n \in Nat
    PROVE  Zeros(n) \in Seq(Bytes) /\ Len(Zeros(n)) = n
<1>1. Zero \in Bytes
  BY BufferAssumption DEF Zero
<1>2. Zeros(n) \in [1 .. n -> Bytes]
  BY <1>1 DEF Zeros
<1>3. QED  BY <1>2, FunctionIsSeq

LEMMA CopiedProperties ==
    ASSUME NEW buf \in Seq(Bytes), NEW at \in Nat, NEW data \in Seq(Bytes)
    PROVE  /\ Copied(buf, at, data) \in Seq(Bytes)
           /\ Len(Copied(buf, at, data)) = Len(buf)
           /\ \A i \in 1 .. Len(buf) :
                 Copied(buf, at, data)[i] =
                    IF i > at /\ i <= at + Len(data) THEN data[i - at] ELSE buf[i]
<1>1. /\ Len(buf) \in Nat /\ DOMAIN buf = 1 .. Len(buf)
      /\ Len(data) \in Nat /\ DOMAIN data = 1 .. Len(data)
      /\ \A i \in 1 .. Len(buf) : buf[i] \in Bytes
      /\ \A i \in 1 .. Len(data) : data[i] \in Bytes
  BY LenProperties, ElementOfSeq
<1>2. \A i \in 1 .. Len(buf) : i > at /\ i <= at + Len(data) => i - at \in 1 .. Len(data)
  BY <1>1
<1>3. Copied(buf, at, data) \in [1 .. Len(buf) -> Bytes]
  BY <1>1, <1>2 DEF Copied
<1>4. QED  BY <1>1, <1>3, FunctionIsSeq DEF Copied

-----------------------------------------------------------------------------
(* The states of a buffer, as the helpers pass them, and what is in them.  *)

Valid(s) ==
    /\ s \in [buf : Seq(Bytes), r : Nat, w : Nat]
    /\ kPrependSize <= s.r /\ s.r <= s.w /\ s.w <= Len(s.buf)

Content(s) == SubSeq(s.buf, s.r + 1, s.w)

LEMMA ContentProperties ==
    ASSUME NEW s, Valid(s)
    PROVE  /\ Content(s) \in Seq(Bytes)
           /\ Len(Content(s)) = s.w - s.r
           /\ \A i \in 1 .. s.w - s.r : Content(s)[i] = s.buf[s.r + i]
<1>1. s.buf \in Seq(Bytes) /\ s.r \in Nat /\ s.w \in Nat /\ s.r <= s.w /\ s.w <= Len(s.buf)
  BY DEF Valid
<1>2. QED  BY <1>1, SliceProperties DEF Content

LEMMA SameContent ==
    ASSUME NEW s, Valid(s), NEW t, Valid(t), t.w - t.r = s.w - s.r,
           \A i \in 1 .. s.w - s.r : t.buf[t.r + i] = s.buf[s.r + i]
    PROVE  Content(t) = Content(s)
  BY ContentProperties, SeqEqual

(* makeSpace() moves the unread bytes to the front ...                     *)
LEMMA MovedKeeps ==
    ASSUME NEW s, Valid(s)
    PROVE  /\ Valid(Moved(s))
           /\ Content(Moved(s)) = Content(s)
           /\ Moved(s).w = kPrependSize + (s.w - s.r)
           /\ Moved(s).r = kPrependSize
           /\ Len(Moved(s).buf) = Len(s.buf)
<1> DEFINE b == Copied(s.buf, kPrependSize, Content(s))
<1>1. /\ s.buf \in Seq(Bytes) /\ s.r \in Nat /\ s.w \in Nat /\ kPrependSize \in Nat
      /\ kPrependSize <= s.r /\ s.r <= s.w /\ s.w <= Len(s.buf) /\ Len(s.buf) \in Nat
  BY BufferAssumption, LenProperties DEF Valid
<1>2. /\ b \in Seq(Bytes) /\ Len(b) = Len(s.buf)
      /\ \A i \in 1 .. Len(s.buf) :
            b[i] = IF i > kPrependSize /\ i <= kPrependSize + (s.w - s.r)
                   THEN Content(s)[i - kPrependSize] ELSE s.buf[i]
  BY <1>1, ContentProperties, CopiedProperties
<1>3. Moved(s) = [buf |-> b, r |-> kPrependSize, w |-> kPrependSize + s.w - s.r]
  BY DEF Moved, Content
<1> HIDE DEF b
<1>4. /\ Moved(s).buf = b /\ Moved(s).r = kPrependSize
      /\ Moved(s).w = kPrependSize + (s.w - s.r)
  BY <1>1, <1>3
<1>5. Valid(Moved(s))
  BY <1>1, <1>2, <1>3 DEF Valid
<1>6. ASSUME NEW i \in 1 .. s.w - s.r PROVE b[kPrependSize + i] = s.buf[s.r + i]
  <2>1. /\ kPrependSize + i \in 1 .. Len(s.buf) /\ kPrependSize + i > kPrependSize
        /\ kPrependSize + i <= kPrependSize + (s.w - s.r) /\ (kPrependSize + i) - kPrependSize = i
    BY <1>1
  <2>2. b[kPrependSize + i] = Content(s)[i]
    BY <1>2, <2>1
  <2>3. QED  BY <2>2, ContentProperties
<1>7. Content(Moved(s)) = Content(s)
  <2>1. /\ Moved(s).w - Moved(s).r = s.w - s.r
        /\ \A i \in 1 .. s.w - s.r : Moved(s).buf[Moved(s).r + i] = s.buf[s.r + i]
    BY <1>1, <1>4, <1>6
  <2>2. QED  BY <1>5, <2>1, SameContent, Zenon
<1>8. QED  BY <1>2, <1>4, <1>5, <1>7

(* ... or grows the array.                                                 *)
LEMMA GrownKeeps ==
    ASSUME NEW s, Valid(s), NEW len \in Nat, Len(s.buf) - s.w < len
    PROVE  LET t == [s EXCEPT !.buf = s.buf \o Zeros(s.w + len - Len(s.buf))]
           IN /\ Valid(t)
              /\ Content(t) = Content(s)
              /\ t.w = s.w /\ t.r = s.r
              /\ Len(t.buf) = s.w + len
<1> DEFINE n == s.w + len - Len(s.buf)
           b == s.buf \o Zeros(n)
           t == [s EXCEPT !.buf = b]
<1>1. /\ s.buf \in Seq(Bytes) /\ s.r \in Nat /\ s.w \in Nat
      /\ kPrependSize <= s.r /\ s.r <= s.w /\ s.w <= Len(s.buf) /\ Len(s.buf) \in Nat
      /\ s \in [buf : Seq(Bytes), r : Nat, w : Nat]
  BY LenProperties DEF Valid
<1>2. n \in Nat
  BY <1>1
<1>3. Zeros(n) \in Seq(Bytes) /\ Len(Zeros(n)) = n
  BY <1>2, ZerosProperties
<1>4. /\ b \in Seq(Bytes) /\ Len(b) = Len(s.buf) + n
      /\ \A i \in 1 .. Len(s.buf) + n : b[i] = IF i <= Len(s.buf) THEN s.buf[i] ELSE Zeros(n)[i - Len(s.buf)]
  <2>1. b \in Seq(Bytes) /\ Len(b) = Len(s.buf) + Len(Zeros(n))
    BY <1>1, <1>3, ConcatProperties, Zenon
  <2>2. \A i \in 1 .. Len(s.buf) + Len(Zeros(n)) :
            b[i] = IF i <= Len(s.buf) THEN s.buf[i] ELSE Zeros(n)[i - Len(s.buf)]
    BY <1>1, <1>3, ConcatProperties, Zenon
  <2>3. QED  BY <1>3, <2>1, <2>2
<1> HIDE DEF b
<1>5. /\ t \in [buf : Seq(Bytes), r : Nat, w : Nat]
      /\ t.buf = b /\ t.r = s.r /\ t.w = s.w
  BY <1>1, <1>4
<1>6. Len(b) = s.w + len
  BY <1>1, <1>4
<1> HIDE DEF t
<1>7. Valid(t)
  BY <1>1, <1>5, <1>6 DEF Valid
<1>8. \A i \in 1 .. s.w - s.r : t.buf[t.r + i] = s.buf[s.r + i]
  BY <1>1, <1>2, <1>4, <1>5
<1>9. Content(t) = Content(s)
  BY <1>5, <1>7, <1>8, SameContent
<1>10. QED  BY <1>5, <1>6, <1>7, <1>9 DEF t, b

\* The array is no larger than the constructor made it or than twice MaxReadable.
Bounded(s) ==
    \/ Len(s.buf) - kPrependSize <= InitialSize
    \/ Len(s.buf) - kPrependSize < 2 * MaxReadable

(* ensureWritable() makes room for len bytes and keeps the unread ones.    *)
LEMMA EnsureProperties ==
    ASSUME NEW s, Valid(s), NEW len \in Nat
    PROVE  LET t == ensureWritable(s, len)
           IN /\ Valid(t)
              /\ Content(t) = Content(s)
              /\ t.w - t.r = s.w - s.r
              /\ Len(t.buf) - t.w >= len
              /\ Bounded(s) /\ s.w - s.r + len <= MaxReadable => Bounded(t)
<1> DEFINE t == ensureWritable(s, len)
<1>1. /\ s.r \in Nat /\ s.w \in Nat /\ Len(s.buf) \in Nat
      /\ kPrependSize <= s.r /\ s.r <= s.w /\ s.w <= Len(s.buf)
      /\ kPrependSize \in Nat /\ InitialSize \in Nat /\ MaxReadable \in Nat
  BY BufferAssumption, LenProperties DEF Valid
<1>2. CASE Len(s.buf) - s.w >= len
  BY <1>1, <1>2 DEF ensureWritable
<1>3. CASE Len(s.buf) - s.w < len /\ Fits(s, len)
  <2>1. t = Moved(s)
    BY <1>3 DEF ensureWritable, makeSpace
  <2>2. Len(s.buf) - (kPrependSize + (s.w - s.r)) >= len
    BY <1>1, <1>3 DEF Fits
  <2>3. /\ Valid(Moved(s)) /\ Content(Moved(s)) = Content(s)
        /\ Moved(s).w = kPrependSize + (s.w - s.r) /\ Moved(s).r = kPrependSize
        /\ Len(Moved(s).buf) = Len(s.buf)
    BY MovedKeeps
  <2>4. QED  BY <1>1, <2>1, <2>2, <2>3 DEF Bounded
<1>4. CASE Len(s.buf) - s.w < len /\ ~Fits(s, len)
  <2>1. t = [s EXCEPT !.buf = s.buf \o Zeros(s.w + len - Len(s.buf))]
    BY <1>4 DEF ensureWritable, makeSpace
  <2>2. /\ Valid(t) /\ Content(t) = Content(s)
        /\ t.w = s.w /\ t.r = s.r /\ Len(t.buf) = s.w + len
    BY <1>4, <2>1, GrownKeeps
  \* what lies in front of the unread bytes is shorter than what is to come
  <2>3. s.r - kPrependSize < len
    BY <1>1, <1>4 DEF Fits
  <2>4. s.w - s.r + len <= MaxReadable => Bounded(t)
    BY <1>1, <2>2, <2>3 DEF Bounded
  <2>5. QED  BY <1>1, <2>2, <2>4
<1>5. QED  BY <1>1, <1>2, <1>3, <1>4

\* data is written behind the unread bytes
Filled(s, data) == [s EXCEPT !.buf = Copied(s.buf, s.w, data), !.w = s.w + Len(data)]

LEMMA FilledProperties ==
    ASSUME NEW s, Valid(s), NEW data \in Seq(Bytes), Len(data) <= Len(s.buf) - s.w
    PROVE  LET t == Filled(s, data)
           IN /\ Valid(t)
              /\ Content(t) = Content(s) \o data
              /\ Len(t.buf) = Len(s.buf)
              /\ t.w = s.w + Len(data) /\ t.r = s.r
<1> DEFINE b == Copied(s.buf, s.w, data)
           t == Filled(s, data)
           n == Len(data)
<1>1. /\ s \in [buf : Seq(Bytes), r : Nat, w : Nat]
      /\ s.buf \in Seq(Bytes) /\ s.r \in Nat /\ s.w \in Nat /\ n \in Nat /\ Len(s.buf) \in Nat
      /\ kPrependSize <= s.r /\ s.r <= s.w /\ s.w + n <= Len(s.buf)
      /\ kPrependSize \in Nat
  BY BufferAssumption, LenProperties DEF Valid
<1>2. /\ b \in Seq(Bytes) /\ Len(b) = Len(s.buf)
      /\ \A i \in 1 .. Len(s.buf) :
            b[i] = IF i > s.w /\ i <= s.w + n THEN data[i - s.w] ELSE s.buf[i]
  BY <1>1, CopiedProperties
<1> HIDE DEF b
<1>3. /\ t.buf = b /\ t.r = s.r /\ t.w = s.w + n
      /\ t \in [buf : Seq(Bytes), r : Nat, w : Nat]
  <2>1. t = [s EXCEPT !.buf = b, !.w = s.w + n]
    BY DEF Filled, b
  <2>2. s = [buf |-> s.buf, r |-> s.r, w |-> s.w]
    BY <1>1
  <2>3. t = [buf |-> b, r |-> s.r, w |-> s.w + n]
    BY <2>1, <2>2
  <2>4. QED  BY <1>1, <1>2, <2>3
<1> HIDE DEF t
<1>4. Valid(t)
  BY <1>1, <1>2, <1>3 DEF Valid
<1>5. /\ Content(s) \o data \in Seq(Bytes)
      /\ Len(Content(s) \o data) = (s.w - s.r) + n
      /\ \A i \in 1 .. (s.w - s.r) + n :
            (Content(s) \o data)[i] = IF i <= s.w - s.r THEN Content(s)[i] ELSE data[i - (s.w - s.r)]
  BY <1>1, ContentProperties
<1>6. Content(t) \in Seq(Bytes) /\ Len(Content(t)) = (s.w - s.r) + n
  BY <1>1, <1>3, <1>4, ContentProperties
<1>7. ASSUME NEW i \in 1 .. (s.w - s.r) + n PROVE Content(t)[i] = (Content(s) \o data)[i]
  <2>1. Content(t)[i] = b[s.r + i]
    <3>1. t.w - t.r = (s.w - s.r) + n
      BY <1>1, <1>3
    <3>2. Content(t)[i] = t.buf[t.r + i]
      BY <1>4, <1>7, <3>1, ContentProperties
    <3>3. QED  BY <1>3, <3>2
  <2>2. CASE i <= s.w - s.r
    <3>1. b[s.r + i] = s.buf[s.r + i]
      <4>1. s.r + i \in 1 .. Len(s.buf) /\ ~(s.r + i > s.w)
        BY <1>1, <1>7, <2>2
      <4>2. QED  BY <1>2, <4>1
    <3>2. Content(s)[i] = s.buf[s.r + i]
      BY <1>1, <1>7, <2>2, ContentProperties
    <3>3. QED  BY <1>5, <1>7, <2>1, <2>2, <3>1, <3>2
  <2>3. CASE i > s.w - s.r
    <3>1. (s.r + i) - s.w = i - (s.w - s.r)
      BY <1>1, <1>7
    <3>2. b[s.r + i] = data[(s.r + i) - s.w]
      <4>1. s.r + i \in 1 .. Len(s.buf) /\ s.r + i > s.w /\ s.r + i <= s.w + n
        BY <1>1, <1>7, <2>3
      <4>2. QED  BY <1>2, <4>1
    <3>3. QED  BY <1>1, <1>5, <1>7, <2>1, <2>3, <3>1, <3>2
  <2>4. i <= s.w - s.r \/ i > s.w - s.r
    BY <1>1, <1>7
  <2>5. QED  BY <2>2, <2>3, <2>4
<1>8. Content(t) = Content(s) \o data
  BY <1>5, <1>6, <1>7, SeqEqual
<1>9. QED  BY <1>2, <1>3, <1>4, <1>8 DEF t

LEMMA AppendKeeps ==
    ASSUME NEW s, Valid(s), NEW data \in Seq(Bytes)
    PROVE  LET t == append(s, data)
           IN /\ Valid(t)
              /\ Content(t) = Content(s) \o data
              /\ Bounded(s) /\ s.w - s.r + Len(data) <= MaxReadable => Bounded(t)
<1> DEFINE e == ensureWritable(s, Len(data))
<1>1. Len(data) \in Nat
  BY LenProperties
<1>2. /\ Valid(e) /\ Content(e) = Content(s) /\ Len(e.buf) - e.w >= Len(data)
      /\ Bounded(s) /\ s.w - s.r + Len(data) <= MaxReadable => Bounded(e)
  BY <1>1, EnsureProperties
<1>3. append(s, data) = Filled(e, data)
  BY DEF append, Filled
<1> HIDE DEF e
<1>4. Len(data) <= Len(e.buf) - e.w
  BY <1>1, <1>2, LenProperties DEF Valid
<1>5. /\ Valid(Filled(e, data)) /\ Content(Filled(e, data)) = Content(e) \o data
      /\ Len(Filled(e, data).buf) = Len(e.buf)
  BY <1>2, <1>4, FilledProperties
<1>6. QED  BY <1>2, <1>3, <1>5 DEF Bounded

-----------------------------------------------------------------------------
BufferInv == TypeOK /\ SizeBounded

LEMMA StateIsValid ==
    ASSUME BufferInv
    PROVE  /\ Valid(State) /\ Bounded(State) /\ Content(State) = Readable
           /\ Len(Readable) = readableBytes
<1>1. State.buf = buffer /\ State.r = readerIndex /\ State.w = writerIndex
  BY DEF State
<1>2. Valid(State)
  BY <1>1 DEF BufferInv, TypeOK, Valid, State, Size
<1>3. Content(State) = Readable
  BY <1>1 DEF Content, Readable
<1>4. QED
  BY <1>1, <1>2, <1>3, ContentProperties
  DEF BufferInv, SizeBounded, Size, Bounded, readableBytes

LEMMA BecomeKeeps ==
    ASSUME NEW t, Valid(t), Bounded(t), Become(t)
    PROVE  BufferInv' /\ Readable' = Content(t)
  BY DEF Become, Valid, Bounded, BufferInv, TypeOK, SizeBounded, Size, Readable, Content

LEMMA BytesAssociate ==
    \A p \in Seq(Bytes), q \in Seq(Bytes), s \in Seq(Bytes) : (p \o q) \o s = p \o (q \o s)
  BY ConcatAssociative

LEMMA InputsAreSeqs == \A data \in Inputs : data \in Seq(Bytes)
  BY BufferAssumption, FunctionIsSeq DEF Inputs

LEMMA BufferInvInit == Init => BufferInv /\ BQ!Init
<1> SUFFICES ASSUME Init PROVE BufferInv /\ BQ!Init
  OBVIOUS
<1>1. kPrependSize + InitialSize \in Nat /\ kPrependSize \in Nat
  BY BufferAssumption
<1>2. buffer \in Seq(Bytes) /\ Len(buffer) = kPrependSize + InitialSize
  BY <1>1, ZerosProperties DEF Init
<1>3. BufferInv
  BY <1>1, <1>2, BufferAssumption DEF Init, BufferInv, TypeOK, SizeBounded, Size
<1>4. Readable = <<>>
  BY <1>1, SubSeqEmpty DEF Init, Readable
<1>5. QED  BY <1>3, <1>4 DEF Init, BQ!Init

(* Each operation keeps the indices in order and the array small, and does *)
(* to the unread bytes what the queue of bytes allows.                     *)
LEMMA RetrieveStep ==
    ASSUME BufferInv, NEW len \in 0 .. MaxReadable, Retrieve(len)
    PROVE  BufferInv' /\ BQ!Take
<1>1. /\ buffer \in Seq(Bytes) /\ readerIndex \in Nat /\ writerIndex \in Nat /\ len \in Nat
      /\ kPrependSize \in Nat /\ kPrependSize <= readerIndex /\ readerIndex <= writerIndex
      /\ writerIndex <= Len(buffer) /\ Len(buffer) \in Nat
      /\ len <= writerIndex - readerIndex
  BY BufferAssumption, LenProperties DEF BufferInv, TypeOK, Size, Retrieve, readableBytes
<1>2. BufferInv'
  BY <1>1 DEF Retrieve, RetrievesAll, readableBytes, BufferInv, TypeOK, SizeBounded, Size
<1>3. /\ Readable \in Seq(Bytes) /\ Len(Readable) = writerIndex - readerIndex
      /\ \A i \in 1 .. writerIndex - readerIndex : Readable[i] = buffer[readerIndex + i]
  BY <1>1, SliceProperties DEF Readable
<1>4. Readable' = SubSeq(Readable, len + 1, Len(Readable))
  <2>1. /\ SubSeq(Readable, len + 1, Len(Readable)) \in Seq(Bytes)
        /\ Len(SubSeq(Readable, len + 1, Len(Readable))) = Len(Readable) - len
        /\ \A i \in 1 .. Len(Readable) - len :
              SubSeq(Readable, len + 1, Len(Readable))[i] = Readable[len + i]
    BY <1>1, <1>3, SliceProperties
  <2>2. CASE RetrievesAll(len)
    <3>1. Len(Readable) - len = 0
      BY <1>1, <1>3, <2>2 DEF RetrievesAll, readableBytes
    <3>2. Readable' = <<>>
      BY <1>1, <2>2, SubSeqEmpty DEF Retrieve, Readable
    <3>3. QED  BY <2>1, <3>1, <3>2
  <2>3. CASE ~RetrievesAll(len)
    <3>1. Readable' = SubSeq(buffer, (readerIndex + len) + 1, writerIndex)
      BY <2>3 DEF Retrieve, Readable
    <3>2. /\ Readable' \in Seq(Bytes) /\ Len(Readable') = writerIndex - (readerIndex + len)
          /\ \A i \in 1 .. writerIndex - (readerIndex + len) :
                Readable'[i] = buffer[(readerIndex + len) + i]
      BY <1>1, <3>1, SliceProperties
    <3>3. \A i \in 1 .. Len(Readable') : Readable'[i] = Readable[len + i]
      BY <1>1, <1>3, <3>2
    <3>4. Len(Readable') = Len(Readable) - len
      BY <1>1, <1>3, <3>2
    <3>5. QED  BY <2>1, <3>2, <3>3, <3>4, SeqEqual
  <2>4. QED  BY <2>2, <2>3
<1>5. len \in 0 .. Len(Readable)
  BY <1>1, <1>3
<1>6. QED  BY <1>2, <1>4, <1>5 DEF Retrieve, BQ!Take

LEMMA AppendStep ==
    ASSUME BufferInv, NEW data \in Inputs, AppendData(data)
    PROVE  BufferInv' /\ BQ!Put
<1>1. data \in Seq(Bytes) /\ State.w - State.r + Len(data) <= MaxReadable
  BY InputsAreSeqs DEF AppendData, readableBytes, State
<1>2. /\ Valid(append(State, data)) /\ Bounded(append(State, data))
      /\ Content(append(State, data)) = Readable \o data
  BY <1>1, StateIsValid, AppendKeeps
<1>3. BufferInv' /\ Readable' = Readable \o data
  BY <1>2, BecomeKeeps DEF AppendData
<1>4. QED  BY <1>3 DEF AppendData, BQ!Put

LEMMA EnsureStep ==
    ASSUME BufferInv, NEW len \in 0 .. MaxReadable, EnsureWritableBytes(len)
    PROVE  BufferInv' /\ UNCHANGED <<Readable, call>>
<1>1. len \in Nat /\ State.w - State.r + len <= MaxReadable
  BY BufferAssumption DEF EnsureWritableBytes, readableBytes, State
<1>2. /\ Valid(ensureWritable(State, len)) /\ Bounded(ensureWritable(State, len))
      /\ Content(ensureWritable(State, len)) = Readable
  BY <1>1, StateIsValid, EnsureProperties
<1>3. QED  BY <1>2, BecomeKeeps DEF EnsureWritableBytes

LEMMA ReadFdStep ==
    ASSUME BufferInv, NEW data \in Inputs, ReadFd(data)
    PROVE  BufferInv' /\ BQ!Put
<1> DEFINE n     == Len(data)
           room  == writableBytes
           first == SubSeq(data, 1, room)
           rest  == SubSeq(data, room + 1, n)
<1>1. /\ data \in Seq(Bytes) /\ n \in Nat /\ room \in Nat
      /\ readableBytes + n <= MaxReadable /\ readableBytes \in Nat
      /\ room = Len(State.buf) - State.w /\ State.w \in Nat /\ State.r \in Nat
      /\ State.buf = buffer /\ State.w = writerIndex /\ readableBytes = State.w - State.r
      /\ State.buf \in Seq(Bytes) /\ Len(State.buf) \in Nat
  BY InputsAreSeqs, LenProperties
  DEF ReadFd, State, writableBytes, readableBytes, BufferInv, TypeOK, Size
<1>2. CASE n <= room
  \* everything fits the writable space
  <2>1. /\ Valid(Filled(State, data)) /\ Content(Filled(State, data)) = Readable \o data
        /\ Len(Filled(State, data).buf) = Len(State.buf)
    BY <1>1, <1>2, StateIsValid, FilledProperties
  <2>2. Become(Filled(State, data))
    BY <1>1, <1>2 DEF ReadFd, Filled
  <2>3. Bounded(Filled(State, data))
    BY <2>1, StateIsValid DEF Bounded
  <2>4. Readable' = Readable \o data /\ BufferInv'
    BY <2>1, <2>2, <2>3, BecomeKeeps
  <2>5. QED  BY <2>4 DEF ReadFd, BQ!Put
<1>3. CASE n > room
  \* the rest has gone to the stack and is appended to a full buffer
  <2>1. /\ first \in Seq(Bytes) /\ Len(first) = room
        /\ rest \in Seq(Bytes) /\ Len(rest) = n - room
        /\ first \o rest = data
    <3>1. room <= Len(data)
      BY <1>1, <1>3
    <3>2. /\ SubSeq(data, 1, room) \in Seq(Bytes) /\ Len(SubSeq(data, 1, room)) = room
          /\ SubSeq(data, room + 1, Len(data)) \in Seq(Bytes)
          /\ Len(SubSeq(data, room + 1, Len(data))) = Len(data) - room
          /\ SubSeq(data, 1, room) \o SubSeq(data, room + 1, Len(data)) = data
      <4>1. data \in Seq(Bytes) /\ room \in Nat
        BY <1>1
      <4> HIDE DEF room
      <4>2. QED  BY <3>1, <4>1, SplitProperties
    <3>3. QED  BY <3>2
  <2>2. Become(append(Full([State EXCEPT !.buf = Copied(buffer, writerIndex, first)]), rest))
    BY <1>1, <1>3 DEF ReadFd
  <2> HIDE DEF first, rest
  <2>3. /\ Valid(Filled(State, first)) /\ Content(Filled(State, first)) = Readable \o first
        /\ Len(Filled(State, first).buf) = Len(State.buf)
        /\ Filled(State, first).w = State.w + room /\ Filled(State, first).r = State.r
    <3>1. Len(first) <= Len(State.buf) - State.w
      BY <1>1, <2>1
    <3>2. QED  BY <2>1, <3>1, StateIsValid, FilledProperties
  <2>4. Bounded(Filled(State, first))
    BY <2>3, StateIsValid DEF Bounded
  <2>5. Full([State EXCEPT !.buf = Copied(buffer, writerIndex, first)]) = Filled(State, first)
    <3> DEFINE b == Copied(buffer, writerIndex, first)
    <3>1. Len(b) = Len(State.buf)
      BY <1>1, <2>1, CopiedProperties
    <3>2. Filled(State, first) = [State EXCEPT !.buf = b, !.w = writerIndex + Len(first)]
      BY <1>1 DEF Filled
    <3> HIDE DEF b
    <3>3. Filled(State, first) = [buf |-> b, r |-> readerIndex, w |-> writerIndex + Len(first)]
      BY <3>2 DEF State
    <3>4. Full([State EXCEPT !.buf = b]) = [buf |-> b, r |-> readerIndex, w |-> Len(b)]
      <4>1. [State EXCEPT !.buf = b] = [buf |-> b, r |-> readerIndex, w |-> writerIndex]
        BY DEF State
      <4>2. Full([buf |-> b, r |-> readerIndex, w |-> writerIndex])
               = [buf |-> b, r |-> readerIndex, w |-> Len(b)]
        BY DEF Full
      <4>3. QED  BY <4>1, <4>2
    <3>5. Len(b) = writerIndex + Len(first)
      <4>1. room = Len(State.buf) - State.w /\ State.w = writerIndex
        BY <1>1
      <4>2. Len(State.buf) \in Nat /\ writerIndex \in Nat /\ Len(first) = room
        BY <1>1, <2>1
      <4> HIDE DEF room
      <4>3. QED  BY <3>1, <4>1, <4>2
    <3>6. QED  BY <3>3, <3>4, <3>5 DEF b
  <2>6. Filled(State, first).w - Filled(State, first).r + Len(rest) <= MaxReadable
    <3> HIDE DEF room, n
    <3>1. (State.w + room) - State.r + (n - room) = (State.w - State.r) + n
      BY <1>1
    <3>2. QED  BY <1>1, <2>1, <2>3, <3>1
  <2>7. /\ Valid(append(Filled(State, first), rest)) /\ Bounded(append(Filled(State, first), rest))
        /\ Content(append(Filled(State, first), rest)) = (Readable \o first) \o rest
    BY <2>1, <2>3, <2>4, <2>6, AppendKeeps
  <2>8. Readable \in Seq(Bytes)
    BY StateIsValid, ContentProperties
  <2>9. (Readable \o first) \o rest = Readable \o (first \o rest)
    BY <2>1, <2>8, BytesAssociate, Zenon
  <2>10. BufferInv' /\ Readable' = Readable \o data
    BY <2>1, <2>2, <2>5, <2>7, <2>9, BecomeKeeps
  <2>11. QED  BY <2>10 DEF ReadFd, BQ!Put
<1>4. QED  BY <1>1, <1>2, <1>3

LEMMA BufferStep ==
    ASSUME BufferInv, [Next]_vars
    PROVE  BufferInv' /\ [BQ!Put \/ BQ!Take]_(BQ!vars)
<1>1. CASE UNCHANGED vars
  BY <1>1 DEF vars, BufferInv, TypeOK, SizeBounded, Size, Readable, BQ!vars
<1>2. ASSUME NEW len \in 0 .. MaxReadable, EnsureWritableBytes(len)
      PROVE  BufferInv' /\ [BQ!Put \/ BQ!Take]_(BQ!vars)
  BY <1>2, EnsureStep DEF BQ!vars
<1>3. QED
  BY <1>1, <1>2, RetrieveStep, AppendStep, ReadFdStep DEF Next

LEMMA BufferInvariant == Spec => []BufferInv
  BY BufferInvInit, BufferStep, PTL DEF Spec

(* m_buffer and its two indices keep their order through every move,       *)
(* growth and reset.                                                       *)
THEOREM BufferTypeCorrect == Spec => []TypeOK
  BY BufferInvariant, PTL DEF BufferInv

(* The array never outgrows twice the most it was asked to hold.           *)
THEOREM BufferSizeBounded == Spec => []SizeBounded
  BY BufferInvariant, PTL DEF BufferInv

(* No byte is lost, repeated or reordered: what can be read is the queue   *)
(* of what was put in less what was taken out.                             *)
THEOREM BufferIsByteQueue == Spec => ImplementsByteQueue
  BY BufferInvInit, BufferStep, BufferInvariant, PTL DEF Spec, ImplementsByteQueue, BQ!Spec
=============================================================================
