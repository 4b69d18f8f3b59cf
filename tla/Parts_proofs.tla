---------------------------- MODULE Parts_proofs ----------------------------
(***************************************************************************)
(* Proofs about the components of Parts, for all values of their constants *)
(* that PartsAssumption allows.  A step of Parts is a step of one of them  *)
(* and leaves the variables of the others alone (PartsStep), so each is    *)
(* proved by itself.                                                       *)
(***************************************************************************)
EXTENDS Parts, FiniteSetTheorems, SequenceTheorems, WellFoundedInduction, TLAPS

LEMMA PartsStep ==
  ASSUME [PartsNext]_vars
  PROVE  /\ Next \/ UNCHANGED b
         /\ L!Next \/ UNCHANGED streamVars
         /\ G!Next \/ UNCHANGED loggerVars
         /\ A!Next \/ UNCHANGED acceptorVars
         /\ T!Next \/ UNCHANGED treeVars
         /\ H!Next \/ UNCHANGED heapVars
         /\ M!Next \/ UNCHANGED gameVars
         /\ I!Next \/ UNCHANGED addressVars
BY DEF PartsNext, vars

-----------------------------------------------------------------------------
(* Buffer. *)

(* A buffer as the class keeps it.                                          *)
Buffers == {c \in [buffer_ : Seq(Bytes), readIndex_ : Nat, writeIndex_ : Nat] :
               /\ kCheapPrepend <= c.readIndex_
               /\ c.readIndex_ <= c.writeIndex_
               /\ c.writeIndex_ <= Len(c.buffer_)}

LEMMA Typing == TypeOK <=> b \in Buffers
  BY DEF TypeOK, Buffers

-----------------------------------------------------------------------------
(* What copying into the vector and reading from it yield, byte by byte. *)

LEMMA ZerosTyped ==
  ASSUME ConstantsOK, NEW n \in Nat
  PROVE  Zeros(n) \in Seq(Bytes) /\ Len(Zeros(n)) = n
<1>1. Zeros(n) \in [1 .. n -> Bytes]
  BY DEF Zeros, ConstantsOK
<1> QED
  BY <1>1

LEMMA InputsTyped ==
  ASSUME NEW n \in Int, NEW data \in Inputs(n)
  PROVE  data \in Seq(Bytes)
<1>1. PICK m \in 0 .. n : data \in [1 .. m -> Bytes]
  BY DEF Inputs, BoundedSeq, SeqOf
<1> QED
  BY <1>1

LEMMA CopiedBytes ==
  ASSUME NEW bytes \in Seq(Bytes), NEW data \in Seq(Bytes), NEW at \in Nat,
         at + Len(data) <= Len(bytes)
  PROVE  /\ Copied(bytes, at, data) \in Seq(Bytes)
         /\ Len(Copied(bytes, at, data)) = Len(bytes)
         /\ \A k \in 1 .. Len(bytes) :
               Copied(bytes, at, data)[k] =
                   IF at < k /\ k <= at + Len(data) THEN data[k - at] ELSE bytes[k]
<1> DEFINE front == SubSeq(bytes, 1, at)
           rest == SubSeq(bytes, at + Len(data) + 1, Len(bytes))
           middle == front \o data
<1>1. front \in Seq(Bytes) /\ Len(front) = at /\ \A k \in 1 .. at : front[k] = bytes[k]
  OBVIOUS
<1>2. /\ rest \in Seq(Bytes) /\ Len(rest) = Len(bytes) - (at + Len(data))
      /\ \A k \in 1 .. Len(rest) : rest[k] = bytes[k + at + Len(data)]
  OBVIOUS
<1>3. Copied(bytes, at, data) = middle \o rest
  BY DEF Copied
<1> HIDE DEF front, rest
<1>4. /\ middle \in Seq(Bytes) /\ Len(middle) = at + Len(data)
      /\ \A k \in 1 .. at + Len(data) :
            middle[k] = IF k <= at THEN bytes[k] ELSE data[k - at]
  <2>1. /\ middle \in Seq(Bytes) /\ Len(middle) = Len(front) + Len(data)
        /\ \A k \in 1 .. Len(front) + Len(data) :
              middle[k] = IF k <= Len(front) THEN front[k] ELSE data[k - Len(front)]
    BY <1>1, ConcatProperties
  <2> HIDE DEF middle
  <2> QED
    BY <1>1, <2>1
<1> HIDE DEF middle
<1>5. /\ middle \o rest \in Seq(Bytes)
      /\ Len(middle \o rest) = Len(middle) + Len(rest)
      /\ \A k \in 1 .. Len(middle) + Len(rest) :
            (middle \o rest)[k] = IF k <= Len(middle) THEN middle[k] ELSE rest[k - Len(middle)]
  BY <1>2, <1>4, ConcatProperties
<1>6. Copied(bytes, at, data) \in Seq(Bytes) /\ Len(Copied(bytes, at, data)) = Len(bytes)
  BY <1>2, <1>3, <1>4, <1>5
<1>7. ASSUME NEW k \in 1 .. Len(bytes)
      PROVE  (middle \o rest)[k] =
                 IF at < k /\ k <= at + Len(data) THEN data[k - at] ELSE bytes[k]
  <2> Len(data) \in Nat /\ Len(bytes) \in Nat
    OBVIOUS
  <2>1. CASE k <= at + Len(data)
    <3>1. (middle \o rest)[k] = middle[k]
      BY <1>2, <1>4, <1>5, <2>1
    <3> QED
      BY <1>4, <2>1, <3>1
  <2>2. CASE k > at + Len(data)
    <3>1. (middle \o rest)[k] = rest[k - (at + Len(data))]
      BY <1>2, <1>4, <1>5, <2>2
    <3>2. k - (at + Len(data)) \in 1 .. Len(rest)
      BY <1>2, <2>2
    <3> QED
      BY <1>2, <2>2, <3>1, <3>2
  <2>3. k <= at + Len(data) \/ k > at + Len(data)
    OBVIOUS
  <2> QED
    BY <2>1, <2>2, <2>3, Zenon
<1> QED
  BY <1>3, <1>6, <1>7

LEMMA ReadableBytes ==
  ASSUME NEW c \in Buffers, ConstantsOK
  PROVE  /\ Readable(c) \in Seq(Bytes)
         /\ Len(Readable(c)) = c.writeIndex_ - c.readIndex_
         /\ \A k \in 1 .. c.writeIndex_ - c.readIndex_ :
               Readable(c)[k] = c.buffer_[c.readIndex_ + k]
  BY DEF Readable, Buffers, ConstantsOK

(* Two buffers that hold the same bytes between their indexes.              *)
LEMMA SameReadable ==
  ASSUME ConstantsOK, NEW c \in Buffers, NEW d \in Buffers,
         d.writeIndex_ - d.readIndex_ = c.writeIndex_ - c.readIndex_,
         \A k \in 1 .. c.writeIndex_ - c.readIndex_ :
            d.buffer_[d.readIndex_ + k] = c.buffer_[c.readIndex_ + k]
  PROVE  Readable(d) = Readable(c)
<1>1. Readable(c) \in Seq(Bytes) /\ Readable(d) \in Seq(Bytes)
  BY ReadableBytes
<1>2. Len(Readable(d)) = Len(Readable(c))
  BY ReadableBytes
<1>3. \A k \in 1 .. Len(Readable(d)) : Readable(d)[k] = Readable(c)[k]
  BY ReadableBytes
<1> QED
  BY <1>1, <1>2, <1>3, SeqEqual

LEMMA PrefixByBytes ==
  ASSUME NEW s \in Seq(Bytes), NEW t \in Seq(Bytes), Len(s) <= Len(t),
         \A k \in 1 .. Len(s) : s[k] = t[k]
  PROVE  IsPrefix(s, t)
<1>1. /\ SubSeq(s, 1, Len(s)) \in Seq(Bytes) /\ Len(SubSeq(s, 1, Len(s))) = Len(s)
      /\ \A k \in 1 .. Len(s) : SubSeq(s, 1, Len(s))[k] = s[k]
  OBVIOUS
<1>2. /\ SubSeq(t, 1, Len(s)) \in Seq(Bytes) /\ Len(SubSeq(t, 1, Len(s))) = Len(s)
      /\ \A k \in 1 .. Len(s) : SubSeq(t, 1, Len(s))[k] = t[k]
  OBVIOUS
<1>3. SubSeq(s, 1, Len(s)) = SubSeq(t, 1, Len(s))
  BY <1>1, <1>2, SeqEqual
<1> QED
  BY <1>3 DEF IsPrefix

LEMMA SuffixByBytes ==
  ASSUME NEW s \in Seq(Bytes), NEW t \in Seq(Bytes), Len(s) <= Len(t),
         \A k \in 1 .. Len(s) : s[k] = t[Len(t) - Len(s) + k]
  PROVE  IsSuffix(s, t)
<1>1. /\ Reverse(s) \in Seq(Bytes) /\ Len(Reverse(s)) = Len(s)
      /\ \A k \in 1 .. Len(s) : Reverse(s)[k] = s[Len(s) - k + 1]
  BY DEF Reverse
<1>2. /\ Reverse(t) \in Seq(Bytes) /\ Len(Reverse(t)) = Len(t)
      /\ \A k \in 1 .. Len(t) : Reverse(t)[k] = t[Len(t) - k + 1]
  BY DEF Reverse
<1>3. \A k \in 1 .. Len(s) : Reverse(s)[k] = Reverse(t)[k]
  <2> TAKE k \in 1 .. Len(s)
  <2>1. Len(s) - k + 1 \in 1 .. Len(s)
    OBVIOUS
  <2>2. s[Len(s) - k + 1] = t[Len(t) - Len(s) + (Len(s) - k + 1)]
    BY <2>1
  <2>3. Len(t) - Len(s) + (Len(s) - k + 1) = Len(t) - k + 1
    OBVIOUS
  <2>4. Reverse(s)[k] = s[Len(s) - k + 1] /\ Reverse(t)[k] = t[Len(t) - k + 1]
    BY <1>1, <1>2
  <2> QED
    BY <2>2, <2>3, <2>4, Zenon
<1> QED
  BY <1>1, <1>2, <1>3, PrefixByBytes DEF IsSuffix

-----------------------------------------------------------------------------
(* The operations. *)

LEMMA EmptyTyped ==
  ASSUME ConstantsOK
  PROVE  Empty \in Buffers /\ Readable(Empty) = <<>>
<1>1. /\ Zeros(kCheapPrepend + kInitialiSize) \in Seq(Bytes)
      /\ Len(Zeros(kCheapPrepend + kInitialiSize)) = kCheapPrepend + kInitialiSize
  BY ZerosTyped DEF ConstantsOK
<1>2. Empty \in Buffers
  BY <1>1 DEF Empty, Buffers, ConstantsOK
<1>3. Readable(Empty) \in Seq(Bytes) /\ Len(Readable(Empty)) = 0
  BY <1>2, ReadableBytes DEF Empty, ConstantsOK
<1> QED
  BY <1>2, <1>3

LEMMA MovedKeeps ==
  ASSUME ConstantsOK, NEW c \in Buffers
  PROVE  /\ Moved(c) \in Buffers /\ Readable(Moved(c)) = Readable(c)
         /\ writableBytes(Moved(c)) = writableBytes(c) + c.readIndex_ - kCheapPrepend
<1> DEFINE moved == Copied(c.buffer_, kCheapPrepend, Readable(c))
<1>1. /\ c.buffer_ \in Seq(Bytes) /\ c.readIndex_ \in Nat /\ c.writeIndex_ \in Nat
      /\ kCheapPrepend \in Nat /\ kCheapPrepend <= c.readIndex_
      /\ c.readIndex_ <= c.writeIndex_ /\ c.writeIndex_ <= Len(c.buffer_)
  BY DEF Buffers, ConstantsOK
<1>2. /\ Readable(c) \in Seq(Bytes) /\ Len(Readable(c)) = c.writeIndex_ - c.readIndex_
      /\ \A k \in 1 .. c.writeIndex_ - c.readIndex_ :
            Readable(c)[k] = c.buffer_[c.readIndex_ + k]
  BY ReadableBytes
<1>3. kCheapPrepend + Len(Readable(c)) <= Len(c.buffer_)
  BY <1>1, <1>2
<1>4. /\ moved \in Seq(Bytes) /\ Len(moved) = Len(c.buffer_)
      /\ \A k \in 1 .. Len(c.buffer_) :
            moved[k] = IF kCheapPrepend < k /\ k <= kCheapPrepend + Len(Readable(c))
                       THEN Readable(c)[k - kCheapPrepend] ELSE c.buffer_[k]
  BY <1>1, <1>2, <1>3, CopiedBytes
<1> HIDE DEF moved
<1>5. Moved(c) = [buffer_ |-> moved, readIndex_ |-> kCheapPrepend,
                  writeIndex_ |-> kCheapPrepend + (c.writeIndex_ - c.readIndex_)]
  BY DEF Moved, moved, readableBytes
<1>6. Moved(c) \in Buffers
  BY <1>1, <1>4, <1>5 DEF Buffers
<1>7. \A k \in 1 .. c.writeIndex_ - c.readIndex_ :
         moved[kCheapPrepend + k] = c.buffer_[c.readIndex_ + k]
  <2>1. TAKE k \in 1 .. c.writeIndex_ - c.readIndex_
  <2>2. /\ kCheapPrepend + k \in 1 .. Len(c.buffer_) /\ (kCheapPrepend + k) - kCheapPrepend = k
        /\ kCheapPrepend < kCheapPrepend + k /\ kCheapPrepend + k <= kCheapPrepend + Len(Readable(c))
    BY <1>1, <1>2
  <2>3. moved[kCheapPrepend + k] = Readable(c)[k]
    BY <1>4, <2>2
  <2> QED
    BY <1>2, <2>3
<1>8. Readable(Moved(c)) = Readable(c)
  BY <1>1, <1>5, <1>6, <1>7, SameReadable
<1> QED
  BY <1>1, <1>4, <1>5, <1>6, <1>8 DEF writableBytes

LEMMA GrownKeeps ==
  ASSUME ConstantsOK, NEW c \in Buffers, NEW len \in Nat, len > writableBytes(c)
  PROVE  /\ Grown(c, len) \in Buffers /\ Readable(Grown(c, len)) = Readable(c)
         /\ writableBytes(Grown(c, len)) = len
<1> DEFINE more == c.writeIndex_ + len - Len(c.buffer_)
           grown == c.buffer_ \o Zeros(more)
<1>1. /\ c.buffer_ \in Seq(Bytes) /\ c.readIndex_ \in Nat /\ c.writeIndex_ \in Nat
      /\ kCheapPrepend \in Nat /\ kCheapPrepend <= c.readIndex_
      /\ c.readIndex_ <= c.writeIndex_ /\ c.writeIndex_ <= Len(c.buffer_)
  BY DEF Buffers, ConstantsOK
<1>2. more \in Nat
  BY <1>1 DEF writableBytes
<1>3. Zeros(more) \in Seq(Bytes) /\ Len(Zeros(more)) = more
  BY <1>2, ZerosTyped
<1>4. /\ grown \in Seq(Bytes) /\ Len(grown) = Len(c.buffer_) + Len(Zeros(more))
      /\ \A k \in 1 .. Len(c.buffer_) + Len(Zeros(more)) :
            grown[k] = IF k <= Len(c.buffer_) THEN c.buffer_[k]
                       ELSE Zeros(more)[k - Len(c.buffer_)]
  BY <1>1, <1>3, ConcatProperties
<1>5. more = c.writeIndex_ + len - Len(c.buffer_) /\ Len(c.buffer_) \in Nat
  BY <1>1
<1>6. Grown(c, len) = [buffer_ |-> grown, readIndex_ |-> c.readIndex_,
                        writeIndex_ |-> c.writeIndex_]
  <2>1. c = [buffer_ |-> c.buffer_, readIndex_ |-> c.readIndex_,
             writeIndex_ |-> c.writeIndex_]
    BY DEF Buffers
  <2>2. Grown(c, len) = [c EXCEPT !.buffer_ = grown]
    BY DEF Grown
  <2> HIDE DEF grown
  <2> QED
    BY <2>1, <2>2
<1> HIDE DEF more, grown
<1>7. Len(grown) = c.writeIndex_ + len
  BY <1>1, <1>3, <1>4, <1>5
<1>8. \A k \in 1 .. Len(c.buffer_) : grown[k] = c.buffer_[k]
  BY <1>1, <1>2, <1>3, <1>4
<1>9. Grown(c, len) \in Buffers
  BY <1>1, <1>4, <1>7, <1>6 DEF Buffers
<1>10. Readable(Grown(c, len)) = Readable(c)
  <2>1. \A k \in 1 .. c.writeIndex_ - c.readIndex_ :
           Grown(c, len).buffer_[Grown(c, len).readIndex_ + k]
               = c.buffer_[c.readIndex_ + k]
    <3>1. TAKE k \in 1 .. c.writeIndex_ - c.readIndex_
    <3>2. c.readIndex_ + k \in 1 .. Len(c.buffer_)
      BY <1>1
    <3> QED
      BY <1>6, <1>8, <3>2
  <2>2. Grown(c, len).writeIndex_ - Grown(c, len).readIndex_
            = c.writeIndex_ - c.readIndex_
    BY <1>6
  <2> QED
    BY <1>9, <2>1, <2>2, SameReadable
<1> QED
  BY <1>1, <1>7, <1>6, <1>9, <1>10 DEF writableBytes

(* ensureWritableBytes makes the room it is asked for: its assertion        *)
(* (Buffer.hpp:98) holds, and what can be read stays.                       *)
LEMMA EnsureKeeps ==
  ASSUME ConstantsOK, NEW c \in Buffers, NEW len \in Nat
  PROVE  /\ ensureWritableBytes(c, len) \in Buffers
         /\ Readable(ensureWritableBytes(c, len)) = Readable(c)
         /\ len <= writableBytes(ensureWritableBytes(c, len))
<1>1. CASE len > writableBytes(c) /\ Moves(c, len)
  BY <1>1, MovedKeeps
     DEF ensureWritableBytes, makeSpace, Moves, writableBytes, Buffers, ConstantsOK
<1>2. CASE len > writableBytes(c) /\ ~Moves(c, len)
  BY <1>2, GrownKeeps DEF ensureWritableBytes, makeSpace
<1>3. CASE ~(len > writableBytes(c))
  BY <1>3 DEF ensureWritableBytes, writableBytes, Buffers
<1> QED
  BY <1>1, <1>2, <1>3

(* append changes nothing that can be read.                                 *)
LEMMA AppendedKeeps ==
  ASSUME ConstantsOK, NEW c \in Buffers, NEW data \in Seq(Bytes)
  PROVE  Appended(c, data) \in Buffers /\ Readable(Appended(c, data)) = Readable(c)
<1> DEFINE room == ensureWritableBytes(c, Len(data))
           bytes == Copied(room.buffer_, room.writeIndex_, data)
<1>1. room \in Buffers /\ Readable(room) = Readable(c) /\ Len(data) <= writableBytes(room)
  BY EnsureKeeps
<1> HIDE DEF room
<1>2. /\ room.buffer_ \in Seq(Bytes) /\ room.readIndex_ \in Nat /\ room.writeIndex_ \in Nat
      /\ room.readIndex_ <= room.writeIndex_
      /\ room.writeIndex_ + Len(data) <= Len(room.buffer_)
  BY <1>1 DEF Buffers, writableBytes
<1>3. /\ bytes \in Seq(Bytes) /\ Len(bytes) = Len(room.buffer_)
      /\ \A k \in 1 .. Len(room.buffer_) :
            bytes[k] = IF room.writeIndex_ < k /\ k <= room.writeIndex_ + Len(data)
                       THEN data[k - room.writeIndex_] ELSE room.buffer_[k]
  BY <1>2, CopiedBytes
<1>4. Appended(c, data) = [buffer_ |-> bytes, readIndex_ |-> room.readIndex_,
                           writeIndex_ |-> room.writeIndex_]
  BY <1>1 DEF Appended, Buffers, room
<1> HIDE DEF bytes
<1>5. Appended(c, data) \in Buffers
  BY <1>1, <1>2, <1>3, <1>4 DEF Buffers
<1>6. \A k \in 1 .. room.writeIndex_ - room.readIndex_ :
         bytes[room.readIndex_ + k] = room.buffer_[room.readIndex_ + k]
  BY <1>2, <1>3
<1>7. Readable(Appended(c, data)) = Readable(room)
  <2>1. \A k \in 1 .. room.writeIndex_ - room.readIndex_ :
           Appended(c, data).buffer_[Appended(c, data).readIndex_ + k]
               = room.buffer_[room.readIndex_ + k]
    BY <1>4, <1>6
  <2>2. Appended(c, data).writeIndex_ - Appended(c, data).readIndex_
            = room.writeIndex_ - room.readIndex_
    BY <1>4
  <2> QED
    BY <1>1, <1>5, <2>1, <2>2, SameReadable
<1> QED
  BY <1>1, <1>5, <1>7

(* What readFd makes readable are the bytes it read, as many as had room.   *)
LEMMA ReadFdKeeps ==
  ASSUME ConstantsOK, b \in Buffers, NEW data \in Seq(Bytes), readFd(data)
  PROVE  /\ b' \in Buffers
         /\ IsPrefix(Readable(b), Readable(b'))
         /\ IsPrefix(Readable(b'), Readable(b) \o data)
<1> DEFINE n == IF Len(data) < writableBytes(b) THEN Len(data) ELSE writableBytes(b)
           fits == Copied(b.buffer_, b.writeIndex_, SubSeq(data, 1, n))
           got == [buffer_ |-> fits, readIndex_ |-> b.readIndex_,
                   writeIndex_ |-> b.writeIndex_ + n]
           old == b.writeIndex_ - b.readIndex_
<1>1. /\ b.buffer_ \in Seq(Bytes) /\ b.readIndex_ \in Nat /\ b.writeIndex_ \in Nat
      /\ kCheapPrepend \in Nat /\ kCheapPrepend <= b.readIndex_
      /\ b.readIndex_ <= b.writeIndex_ /\ b.writeIndex_ <= Len(b.buffer_)
      /\ b = [buffer_ |-> b.buffer_, readIndex_ |-> b.readIndex_,
              writeIndex_ |-> b.writeIndex_]
  BY DEF Buffers, ConstantsOK
<1>2. /\ n \in Nat /\ n <= Len(data) /\ b.writeIndex_ + n <= Len(b.buffer_)
      /\ old \in Nat
  BY <1>1 DEF writableBytes
<1>3. (Len(data) < writableBytes(b) /\ n = Len(data))
         \/ (~(Len(data) < writableBytes(b)) /\ b.writeIndex_ + n = Len(b.buffer_))
  BY <1>1 DEF writableBytes
<1> HIDE DEF n
<1>4. /\ SubSeq(data, 1, n) \in Seq(Bytes) /\ Len(SubSeq(data, 1, n)) = n
      /\ \A k \in 1 .. n : SubSeq(data, 1, n)[k] = data[k]
  BY <1>2
<1>5. /\ fits \in Seq(Bytes) /\ Len(fits) = Len(b.buffer_)
      /\ \A k \in 1 .. Len(b.buffer_) :
            fits[k] = IF b.writeIndex_ < k /\ k <= b.writeIndex_ + n
                      THEN SubSeq(data, 1, n)[k - b.writeIndex_] ELSE b.buffer_[k]
  <2>1. b.writeIndex_ + Len(SubSeq(data, 1, n)) <= Len(b.buffer_)
    BY <1>2, <1>4
  <2> QED
    BY <1>1, <1>4, <2>1, CopiedBytes
<1> HIDE DEF fits
<1>6. got \in Buffers
  BY <1>1, <1>2, <1>5 DEF Buffers
<1>7. /\ Readable(b) \in Seq(Bytes) /\ Len(Readable(b)) = old
      /\ \A k \in 1 .. old : Readable(b)[k] = b.buffer_[b.readIndex_ + k]
  BY ReadableBytes
<1>8. /\ Readable(got) \in Seq(Bytes) /\ Len(Readable(got)) = old + n
      /\ \A k \in 1 .. old + n : Readable(got)[k] = fits[b.readIndex_ + k]
  <2>1. got.writeIndex_ - got.readIndex_ = old + n
    BY <1>1, <1>2
  <2>2. /\ Readable(got) \in Seq(Bytes)
        /\ Len(Readable(got)) = got.writeIndex_ - got.readIndex_
        /\ \A k \in 1 .. got.writeIndex_ - got.readIndex_ :
              Readable(got)[k] = got.buffer_[got.readIndex_ + k]
    BY <1>6, ReadableBytes
  <2> QED
    BY <2>1, <2>2
<1>9. b' \in Buffers /\ Readable(b') = Readable(got)
  <2>1. CASE Len(data) < writableBytes(b) /\ n = Len(data)
    <3>1. b' = got
      BY <1>1, <2>1 DEF readFd, n, fits
    <3> QED
      BY <1>6, <3>1
  <2>2. CASE ~(Len(data) < writableBytes(b)) /\ b.writeIndex_ + n = Len(b.buffer_)
    <3> DEFINE left == SubSeq(data, writableBytes(b) + 1, Len(data))
    <3>1. b' = Appended([buffer_ |-> fits, readIndex_ |-> b.readIndex_,
                         writeIndex_ |-> Len(b.buffer_)], left)
      BY <2>2 DEF readFd, n, fits
    <3>2. b' = Appended(got, left)
      BY <2>2, <3>1
    <3>3. left \in Seq(Bytes)
      BY <1>1 DEF writableBytes
    <3> HIDE DEF left, got
    <3> QED
      BY <1>6, <3>2, <3>3, AppendedKeeps
  <2> QED
    BY <1>3, <2>1, <2>2
<1>10. \A k \in 1 .. old : Readable(got)[k] = Readable(b)[k]
  <2> TAKE k \in 1 .. old
  <2>1. b.readIndex_ + k \in 1 .. Len(b.buffer_) /\ b.readIndex_ + k <= b.writeIndex_
    BY <1>1
  <2>2. Readable(got)[k] = fits[b.readIndex_ + k]
    BY <1>2, <1>8
  <2> QED
    BY <1>1, <1>5, <1>7, <2>1, <2>2
<1>11. \A k \in old + 1 .. old + n : Readable(got)[k] = data[k - old]
  <2> TAKE k \in old + 1 .. old + n
  <2>1. /\ b.readIndex_ + k \in 1 .. Len(b.buffer_)
        /\ b.writeIndex_ < b.readIndex_ + k /\ b.readIndex_ + k <= b.writeIndex_ + n
        /\ (b.readIndex_ + k) - b.writeIndex_ = k - old
        /\ k - old \in 1 .. n
    BY <1>1, <1>2
  <2>2. Readable(got)[k] = fits[b.readIndex_ + k]
    BY <1>2, <1>8
  <2>3. fits[b.readIndex_ + k] = SubSeq(data, 1, n)[(b.readIndex_ + k) - b.writeIndex_]
    BY <1>5, <2>1
  <2> QED
    BY <1>4, <2>1, <2>2, <2>3
<1> HIDE DEF got, old
<1>12. IsPrefix(Readable(b), Readable(got))
  BY <1>2, <1>7, <1>8, <1>10, PrefixByBytes
<1>13. IsPrefix(Readable(got), Readable(b) \o data)
  <2>1. /\ Readable(b) \o data \in Seq(Bytes)
        /\ Len(Readable(b) \o data) = Len(Readable(b)) + Len(data)
        /\ \A k \in 1 .. Len(Readable(b)) + Len(data) : (Readable(b) \o data)[k] =
              IF k <= Len(Readable(b)) THEN Readable(b)[k] ELSE data[k - Len(Readable(b))]
    BY <1>7, ConcatProperties
  <2>2. \A k \in 1 .. Len(Readable(got)) : Readable(got)[k] = (Readable(b) \o data)[k]
    <3> TAKE k \in 1 .. Len(Readable(got))
    <3>1. k \in 1 .. old + n /\ k \in 1 .. Len(Readable(b)) + Len(data)
      BY <1>2, <1>7, <1>8
    <3>2. (Readable(b) \o data)[k] = IF k <= old THEN Readable(b)[k] ELSE data[k - old]
      BY <1>7, <2>1, <3>1
    <3>3. CASE k <= old
      BY <1>2, <1>10, <3>1, <3>2, <3>3
    <3>4. CASE k > old
      BY <1>2, <1>11, <3>1, <3>2, <3>4
    <3> QED
      BY <1>2, <3>1, <3>3, <3>4
  <2>3. Len(Readable(got)) <= Len(Readable(b) \o data)
    BY <1>2, <1>7, <1>8, <2>1
  <2> QED
    BY <1>8, <2>1, <2>2, <2>3, PrefixByBytes
<1> QED
  BY <1>9, <1>12, <1>13

LEMMA HasWritenKeeps ==
  ASSUME ConstantsOK, b \in Buffers, NEW len \in Nat, hasWriten(len)
  PROVE  b' \in Buffers /\ IsPrefix(Readable(b), Readable(b'))
<1>1. /\ b.buffer_ \in Seq(Bytes) /\ b.readIndex_ \in Nat /\ b.writeIndex_ \in Nat
      /\ kCheapPrepend <= b.readIndex_ /\ kCheapPrepend \in Nat
      /\ b.readIndex_ <= b.writeIndex_ /\ b.writeIndex_ <= Len(b.buffer_)
      /\ b = [buffer_ |-> b.buffer_, readIndex_ |-> b.readIndex_,
              writeIndex_ |-> b.writeIndex_]
  BY DEF Buffers, ConstantsOK
<1>2. /\ b' = [buffer_ |-> b.buffer_, readIndex_ |-> b.readIndex_,
               writeIndex_ |-> b.writeIndex_ + len]
      /\ b.writeIndex_ + len <= Len(b.buffer_)
  BY <1>1 DEF hasWriten, writableBytes
<1>3. b' \in Buffers
  BY <1>1, <1>2 DEF Buffers
<1>4. /\ Readable(b) \in Seq(Bytes) /\ Len(Readable(b)) = b.writeIndex_ - b.readIndex_
      /\ \A k \in 1 .. b.writeIndex_ - b.readIndex_ :
            Readable(b)[k] = b.buffer_[b.readIndex_ + k]
  BY ReadableBytes
<1>5. /\ Readable(b') \in Seq(Bytes)
      /\ Len(Readable(b')) = b'.writeIndex_ - b'.readIndex_
      /\ \A k \in 1 .. b'.writeIndex_ - b'.readIndex_ :
            Readable(b')[k] = b'.buffer_[b'.readIndex_ + k]
  BY <1>3, ReadableBytes
<1>6. \A k \in 1 .. Len(Readable(b)) : Readable(b)[k] = Readable(b')[k]
  BY <1>1, <1>2, <1>4, <1>5
<1>7. Len(Readable(b)) <= Len(Readable(b'))
  BY <1>1, <1>2, <1>4, <1>5
<1> QED
  BY <1>3, <1>4, <1>5, <1>6, <1>7, PrefixByBytes

LEMMA EmptyIsSuffixOf ==
  ASSUME NEW s \in Seq(Bytes)
  PROVE  IsSuffix(<<>>, s)
<1>1. <<>> \in Seq(Bytes) /\ Len(<<>>) = 0
  OBVIOUS
<1>2. Len(<<>>) <= Len(s) /\ 1 .. Len(<<>>) = {}
  OBVIOUS
<1> QED
  BY <1>1, <1>2, SuffixByBytes

LEMMA RetrieveAllKeeps ==
  ASSUME ConstantsOK, b \in Buffers, retrieveAll
  PROVE  b' \in Buffers /\ IsSuffix(Readable(b'), Readable(b))
<1>1. /\ b.buffer_ \in Seq(Bytes) /\ b.readIndex_ \in Nat /\ b.writeIndex_ \in Nat
      /\ kCheapPrepend <= b.readIndex_ /\ kCheapPrepend \in Nat
      /\ b.readIndex_ <= b.writeIndex_ /\ b.writeIndex_ <= Len(b.buffer_)
      /\ b = [buffer_ |-> b.buffer_, readIndex_ |-> b.readIndex_,
              writeIndex_ |-> b.writeIndex_]
  BY DEF Buffers, ConstantsOK
<1>2. b' = [buffer_ |-> b.buffer_, readIndex_ |-> kCheapPrepend,
            writeIndex_ |-> kCheapPrepend]
  BY <1>1 DEF retrieveAll
<1>3. b' \in Buffers
  BY <1>1, <1>2 DEF Buffers
<1>4. Readable(b') \in Seq(Bytes) /\ Len(Readable(b')) = 0
  BY <1>1, <1>2, <1>3, ReadableBytes
<1>5. Readable(b') = <<>>
  BY <1>4
<1> QED
  BY <1>3, <1>5, ReadableBytes, EmptyIsSuffixOf

LEMMA RetrieveKeeps ==
  ASSUME ConstantsOK, b \in Buffers, NEW len \in Nat, retrieve(len)
  PROVE  b' \in Buffers /\ IsSuffix(Readable(b'), Readable(b))
<1>1. /\ b.buffer_ \in Seq(Bytes) /\ b.readIndex_ \in Nat /\ b.writeIndex_ \in Nat
      /\ kCheapPrepend <= b.readIndex_ /\ kCheapPrepend \in Nat
      /\ b.readIndex_ <= b.writeIndex_ /\ b.writeIndex_ <= Len(b.buffer_)
      /\ b = [buffer_ |-> b.buffer_, readIndex_ |-> b.readIndex_,
              writeIndex_ |-> b.writeIndex_]
  BY DEF Buffers, ConstantsOK
<1>2. CASE len < readableBytes(b)
  <2>1. /\ b' = [buffer_ |-> b.buffer_, readIndex_ |-> b.readIndex_ + len,
                 writeIndex_ |-> b.writeIndex_]
        /\ b.readIndex_ + len <= b.writeIndex_
    BY <1>1, <1>2 DEF retrieve, readableBytes
  <2>2. b' \in Buffers
    BY <1>1, <2>1 DEF Buffers
  <2>3. /\ Readable(b) \in Seq(Bytes) /\ Len(Readable(b)) = b.writeIndex_ - b.readIndex_
        /\ \A k \in 1 .. b.writeIndex_ - b.readIndex_ :
              Readable(b)[k] = b.buffer_[b.readIndex_ + k]
    BY ReadableBytes
  <2>4. /\ Readable(b') \in Seq(Bytes)
        /\ Len(Readable(b')) = b'.writeIndex_ - b'.readIndex_
        /\ \A k \in 1 .. b'.writeIndex_ - b'.readIndex_ :
              Readable(b')[k] = b'.buffer_[b'.readIndex_ + k]
    BY <2>2, ReadableBytes
  <2>5. Len(Readable(b)) - Len(Readable(b')) = len /\ Len(Readable(b')) <= Len(Readable(b))
    BY <1>1, <2>1, <2>3, <2>4
  <2>6. \A k \in 1 .. Len(Readable(b')) :
           Readable(b')[k] = Readable(b)[Len(Readable(b)) - Len(Readable(b')) + k]
    <3> TAKE k \in 1 .. Len(Readable(b'))
    <3>1. k \in 1 .. b'.writeIndex_ - b'.readIndex_ /\ len + k \in 1 .. b.writeIndex_ - b.readIndex_
      <4>1. /\ Len(Readable(b')) = b.writeIndex_ - (b.readIndex_ + len)
            /\ b'.writeIndex_ - b'.readIndex_ = b.writeIndex_ - (b.readIndex_ + len)
        BY <2>1, <2>4
      <4> QED
        BY <1>1, <4>1
    <3>2. Readable(b')[k] = b.buffer_[(b.readIndex_ + len) + k]
      BY <2>1, <2>4, <3>1
    <3>3. Readable(b)[len + k] = b.buffer_[b.readIndex_ + (len + k)]
      BY <2>3, <3>1
    <3>4. (b.readIndex_ + len) + k = b.readIndex_ + (len + k)
      BY <1>1
    <3> QED
      BY <2>5, <3>2, <3>3, <3>4
  <2> QED
    BY <2>2, <2>3, <2>4, <2>5, <2>6, SuffixByBytes
<1>3. CASE ~(len < readableBytes(b))
  BY <1>3, RetrieveAllKeeps DEF retrieve
<1> QED
  BY <1>2, <1>3

-----------------------------------------------------------------------------
(* The theorems. *)

(* Every step but readFd's, seen from the bytes that can be read.           *)
LEMMA BufferStepKeeps ==
  ASSUME ConstantsOK, b \in Buffers, Next
  PROVE  /\ b' \in Buffers
         /\ IsPrefix(Readable(b), Readable(b')) \/ IsSuffix(Readable(b'), Readable(b))
<1>1. Readable(b) \in Seq(Bytes)
  BY ReadableBytes
<1>2. ASSUME NEW data \in Inputs(MaxSize), append(data)
      PROVE  b' \in Buffers /\ IsPrefix(Readable(b), Readable(b'))
  <2>1. data \in Seq(Bytes)
    BY InputsTyped DEF ConstantsOK
  <2>2. b' \in Buffers /\ Readable(b') = Readable(b)
    BY <1>2, <2>1, AppendedKeeps DEF append
  <2> QED
    BY <1>1, <2>2, PrefixByBytes
<1>3. ASSUME NEW len \in 0 .. writableBytes(b), hasWriten(len)
      PROVE  b' \in Buffers /\ IsPrefix(Readable(b), Readable(b'))
  BY <1>3, HasWritenKeeps
<1>4. ASSUME NEW len \in 0 .. MaxSize, retrieve(len) \/ retrieveAsString(len)
      PROVE  b' \in Buffers /\ IsSuffix(Readable(b'), Readable(b))
  BY <1>4, RetrieveKeeps DEF retrieveAsString
<1>5. ASSUME retrieveAll
      PROVE  b' \in Buffers /\ IsSuffix(Readable(b'), Readable(b))
  BY <1>5, RetrieveAllKeeps
<1>6. ASSUME NEW data \in Inputs(writableBytes(b) + ExtraSize), readFd(data)
      PROVE  b' \in Buffers /\ IsPrefix(Readable(b), Readable(b'))
  <2>1. writableBytes(b) + ExtraSize \in Int
    BY DEF Buffers, writableBytes, ConstantsOK
  <2>2. data \in Seq(Bytes)
    BY <2>1, InputsTyped
  <2> QED
    BY <1>6, <2>2, ReadFdKeeps
<1>7. ASSUME swap
      PROVE  b' \in Buffers /\ IsSuffix(Readable(b'), Readable(b))
  BY <1>1, <1>7, EmptyTyped, EmptyIsSuffixOf DEF swap
<1> QED
  BY <1>2, <1>3, <1>4, <1>5, <1>6, <1>7 DEF Next

(* The indexes lie in the vector, in their order and behind the room that   *)
(* is kept in front (Buffer.hpp:109-111).                                   *)
THEOREM BufferTypeCorrect == PartsSpec => []TypeOK
<1>1. PartsInit => b \in Buffers
  BY EmptyTyped, PartsAssumption DEF PartsInit, Init
<1>2. b \in Buffers /\ [PartsNext]_vars => (b \in Buffers)'
  BY BufferStepKeeps, PartsStep, PartsAssumption
<1>3. b \in Buffers => TypeOK
  BY Typing
<1> QED
  BY <1>1, <1>2, <1>3, PTL DEF PartsSpec

(* makeSpace moves the data only when there is room before it: the          *)
(* assertion of Buffer.cpp:49 holds, whatever length is asked for.          *)
MakeSpaceAsserts ==
  \A len \in Nat :
     len > writableBytes(b) /\ Moves(b, len) => kCheapPrepend < b.readIndex_

THEOREM MakeSpaceAssertsHold == PartsSpec => []MakeSpaceAsserts
<1>1. TypeOK => MakeSpaceAsserts
  BY PartsAssumption DEF TypeOK, MakeSpaceAsserts, Moves, writableBytes, ConstantsOK
<1> QED
  BY <1>1, BufferTypeCorrect, PTL

(* Bytes join what can be read at its end only and leave it at its front    *)
(* only, and readFd makes readable the bytes it read, in their order.       *)
THEOREM StreamIsOrdered == PartsSpec => StreamOrder
<1> DEFINE Joined == Readable(b') # Readable(b) =>
          /\ \/ IsPrefix(Readable(b), Readable(b'))
             \/ IsSuffix(Readable(b'), Readable(b))
          /\ \A data \in Inputs(writableBytes(b) + ExtraSize) :
                readFd(data) => IsPrefix(Readable(b'), Readable(b) \o data)
<1>1. b \in Buffers /\ Next => Joined
  <2> SUFFICES ASSUME b \in Buffers, Next
               PROVE  Joined
    OBVIOUS
  <2>1. ASSUME NEW data \in Inputs(writableBytes(b) + ExtraSize), readFd(data)
        PROVE  IsPrefix(Readable(b'), Readable(b) \o data)
    <3>1. writableBytes(b) + ExtraSize \in Int
      BY PartsAssumption DEF Buffers, writableBytes, ConstantsOK
    <3>2. data \in Seq(Bytes)
      BY <3>1, InputsTyped
    <3> QED
      BY <2>1, <3>2, ReadFdKeeps, PartsAssumption
  <2> QED
    BY <2>1, BufferStepKeeps, PartsAssumption
<1>2. TypeOK /\ [PartsNext]_vars => [Joined]_b
  BY <1>1, Typing, PartsStep
<1> QED
  BY <1>2, BufferTypeCorrect, PTL DEF PartsSpec, StreamOrder

-----------------------------------------------------------------------------
(* LogStream. *)

(* Nothing behind the end has been written, and there is room for a byte.   *)
StreamInv == /\ cur_ \in Nat /\ last \in Int
             /\ cur_ < SIZE /\ last < SIZE /\ -1 <= last

(* The later of two writes.                                                 *)
LEMMA LaterOfTwo ==
  ASSUME NEW x \in Int, NEW y \in Int
  PROVE  L!Max({x, y}) \in {x, y} /\ L!Max({x, y}) >= x /\ L!Max({x, y}) >= y
<1> DEFINE m == IF x >= y THEN x ELSE y
<1>1. m \in {x, y} /\ \A z \in {x, y} : m >= z
  OBVIOUS
<1>2. \E z \in {x, y} : \A w \in {x, y} : z >= w
  BY <1>1
<1> QED
  BY <1>2 DEF L!Max

LEMMA WrittenFits ==
  ASSUME NEW byte \in Int, StreamInv, -1 <= byte, byte < SIZE, SIZE \in Nat,
         L!Written(byte)
  PROVE  last' \in Int /\ last' < SIZE /\ -1 <= last'
  BY LaterOfTwo DEF L!Written, StreamInv

(* append leaves the last byte free.                                        *)
LEMMA AppendFits ==
  ASSUME L!ConstantsOK, StreamInv, NEW len \in Nat, L!append(len)
  PROVE  StreamInv'
<1>1. CASE L!avail > len
  <2>1. cur_' = cur_ + len /\ L!Written(cur_ + len - 1) /\ cur_ + len < SIZE
    BY <1>1 DEF L!append, L!avail, StreamInv, L!ConstantsOK
  <2> QED
    BY <2>1, WrittenFits DEF StreamInv, L!ConstantsOK
<1>2. CASE ~(L!avail > len)
  BY <1>2 DEF L!append, StreamInv
<1> QED
  BY <1>1, <1>2

(* A number of less than kMaxNumericSize bytes leaves the last byte free.   *)
LEMMA InPlaceFits ==
  ASSUME L!ConstantsOK, StreamInv, NEW len \in 0 .. kMaxNumericSize - 1, L!InPlace(len)
  PROVE  StreamInv'
<1>1. CASE L!avail >= kMaxNumericSize
  <2>1. cur_' = cur_ + len /\ L!Written(cur_ + len) /\ cur_ + len < SIZE
    BY <1>1 DEF L!InPlace, L!avail, StreamInv, L!ConstantsOK
  <2> QED
    BY <2>1, WrittenFits DEF StreamInv, L!ConstantsOK
<1>2. CASE ~(L!avail >= kMaxNumericSize)
  BY <1>2 DEF L!InPlace, StreamInv
<1> QED
  BY <1>1, <1>2

(* Decimal and Hex are recursive functions.  That they exist, that what they*)
(* return is not longer than its number and stands for it is shown by       *)
(* induction on the size of the number, as a set of numbers that holds 0    *)
(* and with n holds n + 1.                                                  *)
LEMMA AllNumbers ==
  ASSUME NEW Goal \in SUBSET Nat, 0 \in Goal, \A n \in Goal : n + 1 \in Goal
  PROVE  Goal = Nat
<1> SUFFICES ASSUME Goal # Nat PROVE FALSE
  OBVIOUS
<1> DEFINE Rest == Nat \ Goal
           Less == {ss \in Nat \X Nat : ss[1] < ss[2]}
<1>1. Rest \subseteq Nat /\ Rest # {}
  OBVIOUS
<1>2. IsWellFoundedOn(Less, Nat)
  BY NatLessThanWellFounded, Zenon DEF OpToRel
<1>3. \A x, m \in Nat : <<x, m>> \notin Less => m <= x
  OBVIOUS
<1> HIDE DEF Less
<1>4. PICK m \in Rest : \A x \in Rest : <<x, m>> \notin Less
  <2> HIDE DEF Rest
  <2> QED
    BY <1>1, <1>2, WFMin, Zenon
<1>5. m # 0 /\ m - 1 \in Nat
  OBVIOUS
<1>6. m - 1 \notin Rest
  <2> SUFFICES ASSUME m - 1 \in Rest PROVE FALSE
    OBVIOUS
  <2>1. m <= m - 1
    BY <1>3, <1>4, <1>5
  <2> QED
    BY <1>5, <2>1
<1>7. (m - 1) + 1 \in Goal
  BY <1>5, <1>6
<1> QED
  BY <1>5, <1>7

(* Every step from x to next[x] that does not reach 0 makes size smaller.   *)
Descends(Dom, next, final, size) ==
    /\ next \in [Dom -> Dom] /\ final \in [Dom -> Nat] /\ size \in [Dom -> Nat]
    /\ \A x \in Dom : next[x] # 0 => size[next[x]] < size[x]

(* F is the recursive function that appends final[x] to what it returns for *)
(* next[x].                                                                 *)
Solves(F, Dom, next, final) ==
    F = [x \in Dom |-> (IF next[x] = 0 THEN <<>> ELSE F[next[x]]) \o <<final[x]>>]

(* There is one: for each n take a function on the x of a size below n; they*)
(* agree where they meet.                                                   *)
LEMMA Recursion ==
  ASSUME NEW Dom, NEW next, NEW final, NEW size, Descends(Dom, next, final, size)
  PROVE  \E F : Solves(F, Dom, next, final)
<1> DEFINE Below(n) == {x \in Dom : size[x] < n}
           Step(f, x) == (IF next[x] = 0 THEN <<>> ELSE f[next[x]]) \o <<final[x]>>
           Fits(f, n) == f = [x \in Below(n) |-> Step(f, x)]
           Goal == {n \in Nat : \E f : Fits(f, n)}
<1>0. /\ next \in [Dom -> Dom] /\ size \in [Dom -> Nat]
      /\ \A x \in Dom : next[x] # 0 => size[next[x]] < size[x]
  BY DEF Descends
<1> USE <1>0
<1>1. Goal = Nat
  <2>1. 0 \in Goal
    <3> DEFINE f == [x \in Below(0) |-> Step(<<>>, x)]
    <3>1. Below(0) = {}
      OBVIOUS
    <3>2. f = [x \in Below(0) |-> Step(f, x)]
      <4> HIDE DEF Step
      <4> QED
        BY <3>1
    <3> HIDE DEF f
    <3> QED
      BY <3>2
  <2>2. ASSUME NEW n \in Goal PROVE n + 1 \in Goal
    <3>1. PICK f : Fits(f, n)
      BY <2>2
    <3> DEFINE g == [x \in Below(n + 1) |-> Step(f, x)]
    <3>2. ASSUME NEW x \in Below(n + 1) PROVE g[x] = Step(g, x)
      <4>1. g[x] = Step(f, x)
        OBVIOUS
      <4>2. CASE next[x] = 0
        BY <4>1, <4>2
      <4>3. CASE next[x] # 0
        <5>1. next[x] \in Below(n) /\ next[x] \in Below(n + 1)
          BY <3>2, <4>3
        <5>2. f[next[x]] = Step(f, next[x])
          <6> HIDE DEF Step, Below
          <6> QED
            BY <3>1, <5>1
        <5>3. g[next[x]] = Step(f, next[x])
          <6> HIDE DEF Step, Below
          <6> QED
            BY <5>1
        <5> QED
          BY <4>1, <5>2, <5>3
      <4> QED
        BY <4>2, <4>3
    <3>3. g = [x \in Below(n + 1) |-> Step(g, x)]
      <4>1. g = [x \in Below(n + 1) |-> g[x]]
        <5> HIDE DEF Step, Below
        <5> QED
          OBVIOUS
      <4> HIDE DEF g, Step, Below
      <4> QED
        BY <3>2, <4>1
    <3> HIDE DEF g
    <3>4. Fits(g, n + 1)
      BY <3>3
    <3>5. n + 1 \in Nat
      OBVIOUS
    <3> HIDE DEF Fits
    <3> QED
      BY <3>4, <3>5
  <2> HIDE DEF Goal
  <2>3. Goal \in SUBSET Nat
    BY DEF Goal
  <2> QED
    BY <2>1, <2>2, <2>3, AllNumbers
<1>2. ASSUME NEW f1, NEW f2, NEW n1 \in Nat, NEW n2 \in Nat, Fits(f1, n1), Fits(f2, n2)
      PROVE  \A x \in Below(n1) \cap Below(n2) : f1[x] = f2[x]
  <2> DEFINE Same == {n \in Nat : \A x \in Below(n) \cap Below(n1) \cap Below(n2) : f1[x] = f2[x]}
  <2>1. 0 \in Same
    OBVIOUS
  <2>2. ASSUME NEW n \in Same PROVE n + 1 \in Same
    <3>1. ASSUME NEW x \in Below(n + 1) \cap Below(n1) \cap Below(n2) PROVE f1[x] = f2[x]
      <4>1. f1[x] = Step(f1, x) /\ f2[x] = Step(f2, x)
        <5> HIDE DEF Step, Below
        <5> QED
          BY <1>2, <3>1
      <4>2. CASE next[x] = 0
        BY <4>1, <4>2
      <4>3. CASE next[x] # 0
        <5>1. next[x] \in Below(n) \cap Below(n1) \cap Below(n2)
          BY <3>1, <4>3
        <5>2. f1[next[x]] = f2[next[x]]
          BY <2>2, <5>1
        <5> QED
          BY <4>1, <5>2
      <4> QED
        BY <4>2, <4>3
    <3> HIDE DEF Below
    <3> QED
      BY <2>2, <3>1
  <2> HIDE DEF Same
  <2>3. Same = Nat
    <3>1. Same \in SUBSET Nat
      BY DEF Same
    <3> QED
      BY <2>1, <2>2, <3>1, AllNumbers
  <2>4. \A x \in Dom : size[x] + 1 \in Nat /\ x \in Below(size[x] + 1)
    OBVIOUS
  <2> QED
    BY <2>3, <2>4 DEF Same
<1> HIDE DEF Goal
<1> DEFINE Part(x) == CHOOSE f : Fits(f, size[x] + 1)
           F == [x \in Dom |-> Part(x)[x]]
<1>3. ASSUME NEW x \in Dom PROVE F[x] = Step(F, x)
  <2>1. \A j \in Dom : size[j] + 1 \in Nat /\ Fits(Part(j), size[j] + 1)
    <3>1. ASSUME NEW j \in Dom PROVE size[j] + 1 \in Nat /\ \E f : Fits(f, size[j] + 1)
      <4>1. size[j] + 1 \in Goal
        BY <1>1
      <4> QED
        BY <4>1 DEF Goal
    <3> HIDE DEF Fits
    <3> QED
      BY <3>1, Zenon
  <2> HIDE DEF Part
  <2>2. Part(x)[x] = Step(Part(x), x)
    <3>1. x \in Below(size[x] + 1)
      OBVIOUS
    <3> HIDE DEF Step, Below
    <3> QED
      BY <2>1, <3>1
  <2>3. CASE next[x] = 0
    BY <2>2, <2>3
  <2>4. CASE next[x] # 0
    <3>1. next[x] \in Dom /\ next[x] \in Below(size[x] + 1) \cap Below(size[next[x]] + 1)
      BY <2>4
    <3>2. Part(x)[next[x]] = Part(next[x])[next[x]]
      <4> HIDE DEF Fits, Below
      <4> QED
        BY <1>2, <2>1, <3>1
    <3> QED
      BY <2>2, <3>1, <3>2
  <2> QED
    BY <2>3, <2>4
<1>4. F = [x \in Dom |-> Step(F, x)]
  <2> HIDE DEF Step, Part
  <2>1. F = [x \in Dom |-> F[x]]
    OBVIOUS
  <2> HIDE DEF F
  <2> QED
    BY <1>3, <2>1
<1> HIDE DEF F
<1>5. Solves(F, Dom, next, final)
  BY <1>4 DEF Solves
<1> QED
  BY <1>5

-----------------------------------------------------------------------------
(* The equations of the two digit functions. *)

(* How far j is from 0.                                                     *)
Size(j) == IF j < 0 THEN -j ELSE j

(* C's division of a negative number and the table read on both sides give  *)
(* the digits of its absolute value.                                        *)
LEMMA QuotientFacts ==
  ASSUME NEW j \in Int
  PROVE  /\ L!Quotient(j, 10) \in Int
         /\ L!Remainder(j, 10) \in -9 .. 9
         /\ L!digits[L!zero + L!Remainder(j, 10)] \in 0 .. 9
         /\ Size(j) = 10 * Size(L!Quotient(j, 10)) + L!digits[L!zero + L!Remainder(j, 10)]
         /\ L!Quotient(j, 10) # 0 => Size(L!Quotient(j, 10)) < Size(j)
<1>1. CASE j < 0
  <2>1. PICK k \in Nat : k = -j
    BY <1>1
  <2>2. k \div 10 \in Nat /\ k = 10 * (k \div 10) + (k % 10) /\ k % 10 \in 0 .. 9
    OBVIOUS
  <2>3. L!Quotient(j, 10) = -(k \div 10) /\ L!Remainder(j, 10) = -(k % 10)
    BY <1>1, <2>1, <2>2 DEF L!Quotient, L!Remainder
  <2>4. \A r \in 0 .. 9 : L!digits[10 - r] = r
    BY DEF L!digits
  <2>5. L!digits[L!zero + L!Remainder(j, 10)] = k % 10
    BY <2>2, <2>3, <2>4 DEF L!zero
  <2>6. Size(j) = k /\ Size(L!Quotient(j, 10)) = k \div 10
    BY <1>1, <2>1, <2>2, <2>3 DEF Size
  <2> QED
    BY <2>2, <2>3, <2>5, <2>6
<1>2. CASE ~(j < 0)
  <2>1. j \in Nat
    BY <1>2
  <2>2. j \div 10 \in Nat /\ j = 10 * (j \div 10) + (j % 10) /\ j % 10 \in 0 .. 9
    BY <2>1
  <2>3. L!Quotient(j, 10) = j \div 10 /\ L!Remainder(j, 10) = j % 10
    BY <1>2, <2>2 DEF L!Quotient, L!Remainder
  <2>4. \A r \in 0 .. 9 : L!digits[10 + r] = r
    BY DEF L!digits
  <2>5. L!digits[L!zero + L!Remainder(j, 10)] = j % 10
    BY <2>2, <2>3, <2>4 DEF L!zero
  <2>6. Size(j) = j /\ Size(L!Quotient(j, 10)) = j \div 10
    BY <1>2, <2>1, <2>2, <2>3 DEF Size
  <2> QED
    BY <2>2, <2>3, <2>5, <2>6
<1> QED
  BY <1>1, <1>2

(* An integer without its last digit, that digit, and how far it is from 0. *)
Tens == [j \in Int |-> L!Quotient(j, 10)]
Units == [j \in Int |-> L!digits[L!zero + L!Remainder(j, 10)]]
Sizes == [j \in Int |-> Size(j)]

Sixteens == [j \in Nat |-> j \div 16]
HexUnits == [j \in Nat |-> j % 16]
HexSizes == [j \in Nat |-> j]

(* Numbers of base digits: final is the last one and next the others.       *)
Numbers(Dom, next, final, size, base) ==
    /\ Descends(Dom, next, final, size)
    /\ \A x \in Dom : /\ size[x] = (base * size[next[x]]) + final[x]
                      /\ next[x] = 0 <=> size[next[x]] = 0

LEMMA DecimalNumbers == Numbers(Int, Tens, Units, Sizes, 10)
<1>1. Tens \in [Int -> Int] /\ Units \in [Int -> Nat] /\ Sizes \in [Int -> Nat]
  <2>1. ASSUME NEW j \in Int
        PROVE  /\ L!Quotient(j, 10) \in Int /\ Size(j) \in Nat
               /\ L!digits[L!zero + L!Remainder(j, 10)] \in Nat
    <3>1. Size(j) \in Nat
      BY DEF Size
    <3>2. L!digits[L!zero + L!Remainder(j, 10)] \in 0 .. 9 /\ L!Quotient(j, 10) \in Int
      BY QuotientFacts
    <3> QED
      BY <3>1, <3>2
  <2> QED
    BY <2>1 DEF Tens, Units, Sizes
<1>2. ASSUME NEW x \in Int
      PROVE  /\ Tens[x] \in Int /\ Tens[x] = L!Quotient(x, 10) /\ Sizes[x] = Size(x)
             /\ Units[x] = L!digits[L!zero + L!Remainder(x, 10)]
             /\ Sizes[Tens[x]] = Size(L!Quotient(x, 10))
  BY QuotientFacts DEF Tens, Units, Sizes
<1>3. ASSUME NEW x \in Int
      PROVE  /\ Sizes[x] = (10 * Sizes[Tens[x]]) + Units[x]
             /\ Tens[x] = 0 <=> Sizes[Tens[x]] = 0
             /\ Tens[x] # 0 => Sizes[Tens[x]] < Sizes[x]
  <2>1. Tens[x] = 0 <=> Size(Tens[x]) = 0
    BY <1>2 DEF Size
  <2> QED
    BY <1>2, <2>1, QuotientFacts
<1> QED
  BY <1>1, <1>3 DEF Numbers, Descends

LEMMA HexNumbers == Numbers(Nat, Sixteens, HexUnits, HexSizes, 16)
<1>1. ASSUME NEW x \in Nat
      PROVE  /\ x \div 16 \in Nat /\ x % 16 \in Nat /\ x = (16 * (x \div 16)) + (x % 16)
             /\ x \div 16 # 0 => x \div 16 < x
  OBVIOUS
<1>2. Sixteens \in [Nat -> Nat] /\ HexUnits \in [Nat -> Nat] /\ HexSizes \in [Nat -> Nat]
  BY <1>1 DEF Sixteens, HexUnits, HexSizes
<1>3. ASSUME NEW x \in Nat
      PROVE  /\ Sixteens[x] = x \div 16 /\ HexSizes[x] = x /\ HexUnits[x] = x % 16
             /\ HexSizes[Sixteens[x]] = x \div 16
  BY <1>1 DEF Sixteens, HexUnits, HexSizes
<1> QED
  BY <1>1, <1>2, <1>3 DEF Numbers, Descends

LEMMA DecimalIs == Solves(L!Decimal, Int, Tens, Units)
<1> DEFINE Right(F) == F = [j \in Int |-> (IF L!Quotient(j, 10) = 0 THEN <<>> ELSE F[L!Quotient(j, 10)])
                                \o <<L!digits[L!zero + L!Remainder(j, 10)]>>]
<1>1. PICK F : Solves(F, Int, Tens, Units)
  BY DecimalNumbers, Recursion DEF Numbers
<1>2. \A j \in Int : Tens[j] = L!Quotient(j, 10) /\ Units[j] = L!digits[L!zero + L!Remainder(j, 10)]
  BY DEF Tens, Units
<1>3. Right(F)
  BY <1>1, <1>2 DEF Solves
<1>4. L!Decimal = CHOOSE f : Right(f)
  BY DEF L!Decimal
<1>5. Right(L!Decimal)
  <2> HIDE DEF Right
  <2> QED
    BY <1>3, <1>4
<1> QED
  BY <1>2, <1>5 DEF Solves

LEMMA HexIs == Solves(L!Hex, Nat, Sixteens, HexUnits)
<1> DEFINE Right(F) == F = [j \in Nat |-> (IF j < 16 THEN <<>> ELSE F[j \div 16]) \o <<j % 16>>]
<1>1. PICK F : Solves(F, Nat, Sixteens, HexUnits)
  BY HexNumbers, Recursion DEF Numbers
<1>2. \A j \in Nat : Sixteens[j] = j \div 16 /\ HexUnits[j] = j % 16
  BY DEF Sixteens, HexUnits
<1>3. \A j \in Nat : j < 16 <=> j \div 16 = 0
  OBVIOUS
<1>4. Right(F)
  BY <1>1, <1>2, <1>3 DEF Solves
<1>5. L!Hex = CHOOSE f : Right(f)
  BY DEF L!Hex
<1>6. Right(L!Hex)
  <2> HIDE DEF Right
  <2> QED
    BY <1>4, <1>5
<1> QED
  BY <1>2, <1>3, <1>6 DEF Solves

(* ds are digits that stand for n: w has what the first of them stand for.  *)
StandsForNumber(ds, base, n) ==
    \E w \in [0 .. Len(ds) -> Int] :
        /\ w[0] = 0 /\ w[Len(ds)] = n
        /\ \A k \in 1 .. Len(ds) : w[k] = (base * w[k - 1]) + ds[k]

(* A digit appended multiplies by the base and adds the digit.              *)
LEMMA OneMoreDigit ==
  ASSUME NEW ds \in Seq(Nat), NEW base \in Nat, NEW n \in Nat, NEW d \in Nat,
         StandsForNumber(ds, base, n)
  PROVE  StandsForNumber(ds \o <<d>>, base, (base * n) + d)
<1>1. PICK w \in [0 .. Len(ds) -> Int] :
            /\ w[0] = 0 /\ w[Len(ds)] = n
            /\ \A k \in 1 .. Len(ds) : w[k] = (base * w[k - 1]) + ds[k]
  BY DEF StandsForNumber
<1> DEFINE es == ds \o <<d>>
           v == [k \in 0 .. Len(ds) + 1 |-> IF k <= Len(ds) THEN w[k] ELSE (base * n) + d]
<1>2. /\ es \in Seq(Nat) /\ Len(es) = Len(ds) + 1 /\ es[Len(ds) + 1] = d
      /\ \A k \in 1 .. Len(ds) : es[k] = ds[k]
  OBVIOUS
<1>3. (base * n) + d \in Int
  OBVIOUS
<1>4. v \in [0 .. Len(ds) + 1 -> Int] /\ v[0] = 0 /\ v[Len(ds) + 1] = (base * n) + d
  BY <1>1, <1>3
<1>5. ASSUME NEW k \in 1 .. Len(ds) + 1
      PROVE  v[k] = (base * v[k - 1]) + es[k]
  <2>1. CASE k <= Len(ds)
    <3>1. k \in 1 .. Len(ds) /\ v[k] = w[k] /\ v[k - 1] = w[k - 1]
      BY <2>1
    <3> HIDE DEF v, es
    <3> QED
      BY <1>1, <1>2, <3>1
  <2>2. CASE k = Len(ds) + 1
    <3>1. v[k] = (base * n) + d /\ v[k - 1] = w[Len(ds)]
      BY <2>2
    <3> HIDE DEF v, es
    <3> QED
      BY <1>1, <1>2, <2>2, <3>1
  <2> QED
    BY <2>1, <2>2
<1> HIDE DEF v, es
<1>6. StandsForNumber(es, base, (base * n) + d)
  BY <1>2, <1>4, <1>5 DEF StandsForNumber
<1> QED
  BY <1>6 DEF es

(* Value finds the number.                                                  *)
LEMMA ValueIs ==
  ASSUME NEW ds \in Seq(Nat), NEW base \in Nat, NEW n \in Nat, StandsForNumber(ds, base, n)
  PROVE  L!Value(ds, base) = n
<1>1. PICK w \in [0 .. Len(ds) -> Int] :
            /\ w[0] = 0 /\ w[Len(ds)] = n
            /\ \A k \in 1 .. Len(ds) : w[k] = (base * w[k - 1]) + ds[k]
  BY DEF StandsForNumber
<1> DEFINE Right(f) == f = [k \in 0 .. Len(ds) |-> IF k = 0 THEN 0 ELSE (base * f[k - 1]) + ds[k]]
           v == CHOOSE f : Right(f)
<1>2. Right(w)
  <2>1. \A k \in 0 .. Len(ds) : w[k] = IF k = 0 THEN 0 ELSE (base * w[k - 1]) + ds[k]
    BY <1>1
  <2>2. w = [k \in 0 .. Len(ds) |-> w[k]]
    BY <1>1
  <2> QED
    BY <2>1, <2>2
<1>3. Right(v)
  <2> HIDE DEF Right
  <2> QED
    BY <1>2
<1>4. L!Value(ds, base) = v[Len(ds)]
  BY DEF L!Value
<1> HIDE DEF v
<1> DEFINE Goal == {m \in Nat : m <= Len(ds) => v[m] = w[m]}
<1>5. 0 \in Goal
  BY <1>1, <1>3
<1>6. ASSUME NEW m \in Goal PROVE m + 1 \in Goal
  <2>1. m \in Nat
    OBVIOUS
  <2>2. ASSUME m + 1 <= Len(ds) PROVE v[m + 1] = w[m + 1]
    <3>1. m + 1 \in 1 .. Len(ds) /\ (m + 1) - 1 = m /\ v[m] = w[m]
      BY <2>2
    <3>2. v[m + 1] = (base * v[m]) + ds[m + 1]
      BY <1>3, <3>1
    <3>3. w[m + 1] = (base * w[m]) + ds[m + 1]
      BY <1>1, <3>1
    <3> QED
      BY <3>1, <3>2, <3>3
  <2> QED
    BY <2>1, <2>2
<1> HIDE DEF Goal
<1>7. Goal = Nat
  <2>1. Goal \in SUBSET Nat
    BY DEF Goal
  <2> QED
    BY <1>5, <1>6, <2>1, AllNumbers
<1> QED
  BY <1>1, <1>4, <1>7 DEF Goal

(* What Decimal and Hex return: digits that stand for the number, without a *)
(* leading zero.                                                            *)
DigitsOf(ds, base, n) ==
    /\ ds \in Seq(Nat) /\ Len(ds) >= 1
    /\ StandsForNumber(ds, base, n)
    /\ Len(ds) > 1 \/ n # 0 => ds[1] # 0

LEMMA DigitsAre ==
  ASSUME NEW F, NEW Dom, NEW next, NEW final, NEW size, NEW base \in Nat,
         Numbers(Dom, next, final, size, base), Solves(F, Dom, next, final)
  PROVE  \A x \in Dom : DigitsOf(F[x], base, size[x])
<1> DEFINE Good(x) == DigitsOf(F[x], base, size[x])
           Goal == {n \in Nat : \A x \in Dom : size[x] < n => Good(x)}
<1>1. /\ next \in [Dom -> Dom] /\ final \in [Dom -> Nat] /\ size \in [Dom -> Nat]
      /\ \A x \in Dom : /\ next[x] # 0 => size[next[x]] < size[x]
                        /\ size[x] = (base * size[next[x]]) + final[x]
                        /\ next[x] = 0 <=> size[next[x]] = 0
                        /\ F[x] = (IF next[x] = 0 THEN <<>> ELSE F[next[x]]) \o <<final[x]>>
  BY DEF Numbers, Descends, Solves
<1>2. 0 \in Goal
  BY <1>1
<1>3. ASSUME NEW n \in Goal PROVE n + 1 \in Goal
  <2>1. n \in Nat /\ \A x \in Dom : size[x] < n => Good(x)
    OBVIOUS
  <2>2. ASSUME NEW x \in Dom, size[x] < n + 1 PROVE Good(x)
    <3>1. final[x] \in Nat /\ size[x] \in Nat /\ next[x] \in Dom /\ size[next[x]] \in Nat
      BY <1>1
    <3>2. CASE next[x] = 0
      <4> DEFINE none == <<>>
      <4>1. F[x] = <<final[x]>>
        <5>1. F[x] = none \o <<final[x]>>
          BY <1>1, <3>2
        <5> QED
          BY <3>1, <5>1
      <4>2. size[x] = final[x]
        <5>1. size[x] = (base * 0) + final[x]
          BY <1>1, <3>2
        <5> QED
          BY <3>1, <5>1
      <4>3. none \in Seq(Nat) /\ StandsForNumber(none, base, 0)
        <5> DEFINE w == [k \in 0 .. 0 |-> 0]
        <5>1. w \in [0 .. 0 -> Int] /\ w[0] = 0
          OBVIOUS
        <5>2. none \in Seq(Nat) /\ Len(none) = 0
          OBVIOUS
        <5> HIDE DEF none, w
        <5>3. /\ w \in [0 .. Len(none) -> Int] /\ w[0] = 0 /\ w[Len(none)] = 0
              /\ \A k \in 1 .. Len(none) : w[k] = (base * w[k - 1]) + none[k]
          BY <5>1, <5>2
        <5> QED
          BY <5>2, <5>3 DEF StandsForNumber
      <4> HIDE DEF none
      <4>4. StandsForNumber(none \o <<final[x]>>, base, (base * 0) + final[x])
        BY <3>1, <4>3, OneMoreDigit
      <4>5. none \o <<final[x]>> = <<final[x]>> /\ (base * 0) + final[x] = final[x]
        BY <3>1 DEF none
      <4>6. StandsForNumber(F[x], base, size[x])
        BY <4>1, <4>2, <4>4, <4>5
      <4>7. F[x] \in Seq(Nat) /\ Len(F[x]) = 1 /\ F[x][1] = final[x]
        BY <3>1, <4>1
      <4> QED
        BY <4>2, <4>6, <4>7 DEF DigitsOf
    <3>3. CASE next[x] # 0
      <4>1. size[next[x]] < n
        <5>1. size[next[x]] < size[x]
          BY <1>1, <3>3
        <5> QED
          BY <2>1, <2>2, <3>1, <5>1
      <4>2. DigitsOf(F[next[x]], base, size[next[x]])
        BY <2>1, <3>1, <4>1
      <4>3. F[x] = F[next[x]] \o <<final[x]>> /\ size[next[x]] # 0
        BY <1>1, <3>3
      <4>4. StandsForNumber(F[x], base, size[x])
        BY <1>1, <3>1, <4>2, <4>3, OneMoreDigit DEF DigitsOf
      <4>5. /\ F[next[x]] \in Seq(Nat) /\ Len(F[next[x]]) >= 1 /\ F[next[x]][1] # 0
        BY <4>2, <4>3 DEF DigitsOf
      <4>6. F[x] \in Seq(Nat) /\ Len(F[x]) >= 1 /\ F[x][1] # 0
        BY <3>1, <4>3, <4>5
      <4> QED
        BY <4>4, <4>6 DEF DigitsOf
    <3> QED
      BY <3>2, <3>3
  <2> HIDE DEF Good
  <2> QED
    BY <2>1, <2>2
<1> HIDE DEF Goal
<1>4. Goal = Nat
  <2>1. Goal \in SUBSET Nat
    BY DEF Goal
  <2> QED
    BY <1>2, <1>3, <2>1, AllNumbers
<1>5. ASSUME NEW x \in Dom PROVE Good(x)
  <2>1. size[x] + 1 \in Nat /\ size[x] < size[x] + 1
    BY <1>1
  <2> HIDE DEF Good
  <2> QED
    BY <1>4, <2>1 DEF Goal
<1> QED
  BY <1>5

(* One digit more than the number without its last.                         *)
LengthOf(F, next, x) == Len(F[x]) = 1 + (IF next[x] = 0 THEN 0 ELSE Len(F[next[x]]))

LEMMA LengthsAre ==
  ASSUME NEW F, NEW Dom, NEW next, NEW final, NEW size, NEW base \in Nat,
         Numbers(Dom, next, final, size, base), Solves(F, Dom, next, final)
  PROVE  \A x \in Dom : LengthOf(F, next, x)
<1> SUFFICES ASSUME NEW x \in Dom PROVE LengthOf(F, next, x)
  OBVIOUS
<1>1. next[x] \in Dom /\ final[x] \in Nat
  BY DEF Numbers, Descends
<1>2. F[x] = (IF next[x] = 0 THEN <<>> ELSE F[next[x]]) \o <<final[x]>>
  BY DEF Solves
<1>3. F[next[x]] \in Seq(Nat)
  BY <1>1, DigitsAre DEF DigitsOf
<1> QED
  BY <1>1, <1>2, <1>3 DEF LengthOf

LEMMA DecimalDigits ==
  ASSUME NEW j \in Int
  PROVE  DigitsOf(L!Decimal[j], 10, Size(j)) /\ L!Value(L!Decimal[j], 10) = Size(j)
<1>1. DigitsOf(L!Decimal[j], 10, Sizes[j])
  BY DecimalNumbers, DecimalIs, DigitsAre
<1>2. Sizes[j] = Size(j) /\ Size(j) \in Nat
  BY DEF Sizes, Size
<1>3. DigitsOf(L!Decimal[j], 10, Size(j))
  BY <1>1, <1>2
<1> QED
  BY <1>2, <1>3, ValueIs DEF DigitsOf

LEMMA HexDigits ==
  ASSUME NEW j \in Nat
  PROVE  DigitsOf(L!Hex[j], 16, j) /\ L!Value(L!Hex[j], 16) = j
<1>1. DigitsOf(L!Hex[j], 16, HexSizes[j])
  BY HexNumbers, HexIs, DigitsAre
<1>2. HexSizes[j] = j
  BY DEF HexSizes
<1>3. DigitsOf(L!Hex[j], 16, j)
  BY <1>1, <1>2
<1> QED
  BY <1>3, ValueIs DEF DigitsOf

(* Numbers of at most four digits.                                          *)
LEMMA DecimalLength ==
  ASSUME NEW n \in Nat, n < 10000
  PROVE  /\ Len(L!Decimal[n]) \in Nat /\ Len(L!Decimal[n]) <= 4
         /\ n < 1000 => Len(L!Decimal[n]) <= 3
<1> DEFINE len(j) == Len(L!Decimal[j])
<1>1. ASSUME NEW j \in Nat, NEW q \in Nat, q = j \div 10
      PROVE  len(j) = 1 + (IF q = 0 THEN 0 ELSE len(q))
  <2>1. Tens[j] = q
    BY <1>1 DEF Tens, L!Quotient
  <2>2. LengthOf(L!Decimal, Tens, j)
    <3>1. j \in Int
      OBVIOUS
    <3> QED
      BY <3>1, DecimalNumbers, DecimalIs, LengthsAre
  <2> QED
    BY <2>1, <2>2 DEF LengthOf
<1> HIDE DEF len
<1>2. ASSUME NEW j \in Nat, j < 10 PROVE len(j) = 1
  <2>1. 0 = j \div 10
    BY <1>2
  <2> QED
    BY <1>1, <2>1
<1>3. ASSUME NEW j \in Nat, 10 <= j, j < 100 PROVE len(j) = 2
  <2>1. PICK q \in Nat : q = j \div 10 /\ 0 < q /\ q < 10
    BY <1>3
  <2> QED
    BY <1>1, <1>2, <2>1
<1>4. ASSUME NEW j \in Nat, 100 <= j, j < 1000 PROVE len(j) = 3
  <2>1. PICK q \in Nat : q = j \div 10 /\ 10 <= q /\ q < 100
    BY <1>4
  <2> QED
    BY <1>1, <1>3, <2>1
<1>5. ASSUME NEW j \in Nat, 1000 <= j, j < 10000 PROVE len(j) = 4
  <2>1. PICK q \in Nat : q = j \div 10 /\ 100 <= q /\ q < 1000
    BY <1>5
  <2> QED
    BY <1>1, <1>4, <2>1
<1> QED
  <2>1. len(n) \in Nat /\ len(n) <= 4 /\ (n < 1000 => len(n) <= 3)
    BY <1>2, <1>3, <1>4, <1>5
  <2> QED
    BY <2>1 DEF len

(* Three digits, a point and the letters of a unit.                         *)
LEMMA UnitWidth ==
  ASSUME NEW c, NEW n \in Nat, n < 10000, NEW d \in Nat,
         c.digits = n, c.decimals = d, c.kind \in {"si", "iec"}
  PROVE  /\ L!Width(c) \in Nat
         /\ c.kind = "si" /\ n < 1000 => L!Width(c) <= 5
         /\ c.kind = "iec" /\ (n < 1000 \/ d = 0) => L!Width(c) <= 6
<1>1. L!Width(c) = Len(L!Decimal[n]) + (IF c.decimals > 0 THEN 1 ELSE 0)
                       + (IF c.unit = "" THEN 0 ELSE IF c.kind = "si" THEN 1 ELSE 2)
  <2>1. c.kind # "int" /\ c.kind # "hex" /\ c.digits = n
    OBVIOUS
  <2> QED
    BY ONLY <2>1, Zenon DEF L!Width
<1>2. Len(L!Decimal[n]) \in Nat
  BY DecimalLength
<1> DEFINE point == IF c.decimals > 0 THEN 1 ELSE 0
           unit == IF c.unit = "" THEN 0 ELSE IF c.kind = "si" THEN 1 ELSE 2
<1>3. /\ point \in Nat /\ point <= 1 /\ (d = 0 => point = 0)
      /\ unit \in Nat /\ unit <= 2 /\ (c.kind = "si" => unit <= 1)
  <2>1. point \in {0, 1} /\ (d = 0 => point = 0)
    OBVIOUS
  <2>2. unit \in {0, 1, 2}
    OBVIOUS
  <2>3. ASSUME c.kind = "si" PROVE unit \in {0, 1}
    BY <2>3
  <2> HIDE DEF point, unit
  <2> QED
    BY <2>1, <2>2, <2>3
<1>4. L!Width(c) = Len(L!Decimal[n]) + point + unit
  BY <1>1, Zenon
<1> HIDE DEF point, unit
<1>5. L!Width(c) \in Nat
  BY <1>2, <1>3, <1>4
<1>6. CASE c.kind = "si"
  BY <1>2, <1>3, <1>4, <1>5, <1>6, DecimalLength
<1>7. CASE c.kind = "iec"
  BY <1>2, <1>3, <1>4, <1>5, <1>7, DecimalLength
<1> QED
  BY <1>5, <1>6, <1>7

(* Rounding is off by half of the divisor at most.                          *)
LEMMA NearestIs ==
  ASSUME NEW x \in Nat, NEW d \in {10, 100, 1024}, NEW n \in L!Nearest(x, d)
  PROVE  n \in Nat /\ -d <= 2 * (x - (n * d)) /\ 2 * (x - (n * d)) <= d
<1>1. x \div d \in Nat
  BY SMT
<1> QED
  BY <1>1 DEF L!Nearest

LEMMA SINumber ==
  ASSUME L!ConstantsOK, NEW s \in L!SINumbers
  PROVE  /\ s.m \in Nat /\ s.m < 10000
         /\ s.e \in Nat /\ s.e <= 15
         /\ s.b \in Nat /\ s.b <= 1 /\ s.b <= s.m
         /\ s.e > 0 => s.m >= 1000
         /\ s.e = 15 => s.m < 9223
<1>1. /\ s \in [m : Mantissas, e : 0 .. 15, b : 0 .. 1]
      /\ s.e > 0 => s.m >= 1000
      /\ s.e = 15 => s.m < 9223
      /\ s.m >= s.b
  BY DEF L!SINumbers
<1>2. s.m \in Mantissas /\ s.e \in 0 .. 15 /\ s.b \in 0 .. 1
  BY <1>1
<1>3. \A m \in Mantissas : m \in Nat /\ m < 10000
  BY DEF L!ConstantsOK
<1> QED
  BY <1>1, <1>2, <1>3

(* The test of the ladder that a number passes first.                       *)
LEMMA LadderStep ==
  ASSUME L!ConstantsOK, NEW s \in L!SINumbers
  PROVE  L!Min({15} \cup {j \in 0 .. 14 : L!Below(s, j)}) =
             IF s.m - s.b < 9995 THEN s.e ELSE s.e + 1
<1> DEFINE steps == {15} \cup {j \in 0 .. 14 : L!Below(s, j)}
           k == IF s.m - s.b < 9995 THEN s.e ELSE s.e + 1
<1>1. k \in steps /\ \A j \in steps : k <= j /\ j \in Int
  BY SINumber DEF L!Below
<1> HIDE DEF k, steps
<1>2. \A j \in steps : (\A l \in steps : j <= l) => j = k
  BY <1>1
<1>3. L!Min(steps) = k
  BY <1>1, <1>2 DEF L!Min
<1> QED
  BY <1>3 DEF k, steps

(* formatSI: the rounding of printf leaves three digits on both sides of    *)
(* each threshold, save for an inexact tie.                                 *)
LEMMA SIIsRight ==
  ASSUME L!ConstantsOK, NEW s \in L!SINumbers, NEW c \in L!formatSI(s)
  PROVE  c.kind = "si" /\ L!Width(c) \in Nat /\ L!SIRight(c)
<1> DEFINE k == IF s.m - s.b < 9995 THEN s.e ELSE s.e + 1
           plain == s.e = 0 /\ s.m - s.b < 1000
           d == IF plain THEN 0 ELSE 2 - (k % 3)
           unit == IF plain THEN "" ELSE L!SIUnits[1 + (k \div 3)]
<1>1. PICK n :
         /\ n \in (IF plain THEN {s.m - s.b} ELSE L!SIDigits(s, k))
         /\ c = [kind |-> "si", value |-> s, digits |-> n, decimals |-> d, unit |-> unit]
  <2>1. k = L!Min({15} \cup {j \in 0 .. 14 : L!Below(s, j)})
    BY LadderStep
  <2> HIDE DEF k
  <2> QED
    BY <2>1, Zenon DEF L!formatSI
<1>2. /\ s.m \in Nat /\ s.m < 10000 /\ s.e \in Nat /\ s.e <= 15
      /\ s.b \in Nat /\ s.b <= 1 /\ s.b <= s.m
      /\ s.e > 0 => s.m >= 1000
      /\ s.e = 15 => s.m < 9223
  BY SINumber
<1>3. k \in Nat
  BY <1>2
<1>4. d \in Nat
  <2> HIDE DEF k, plain
  <2>1. k % 3 \in 0 .. 2
    BY <1>3
  <2> QED
    BY <2>1
<1> HIDE DEF k, d, unit
<1>5. /\ c.kind = "si" /\ c.digits = n /\ c.value = s /\ c.decimals = d /\ c.unit = unit
  BY <1>1
<1>6. ASSUME n \in Nat, n < 1000, plain \/ n >= 100
      PROVE  L!Width(c) \in Nat /\ L!SIRight(c)
  <2>1. L!Width(c) \in Nat /\ L!Width(c) <= 5
    BY <1>4, <1>5, <1>6, UnitWidth
  <2>2. plain => unit = ""
    BY DEF unit
  <2> QED
    BY <1>5, <1>6, <2>1, <2>2 DEF L!SIRight
<1>7. CASE plain
  <2>1. n = s.m - s.b
    BY <1>1, <1>7
  <2> QED
    BY <1>2, <1>5, <1>6, <1>7, <2>1
<1>8. CASE ~plain
  <2>1. n \in L!SIDigits(s, k)
    BY <1>1, <1>8
  <2>2. CASE s.e < k
    <3>1. 9995 <= s.m - s.b
      BY <1>2, <2>2 DEF k
    <3>2. n \in L!Nearest(s.m, 100)
      BY <2>1, <2>2 DEF L!SIDigits
    <3>3. n = 100
      <4>1. n \in Nat /\ -100 <= 2 * (s.m - (n * 100)) /\ 2 * (s.m - (n * 100)) <= 100
        BY <1>2, <3>2, NearestIs
      <4> QED
        BY <1>2, <3>1, <4>1, SMT
    <3> QED
      BY <1>5, <1>6, <3>3
  <2>3. CASE ~(s.e < k)
    <3>1. s.m - s.b < 9995 /\ k = s.e
      BY <1>2, <2>3 DEF k
    <3>2. s.m >= 1000
      BY <1>2, <1>8
    <3>3. CASE s.b = 1 /\ s.m % 10 = 5 /\ s.e < 12
      <4>1. n = s.m \div 10
        BY <2>1, <2>3, <3>3 DEF L!SIDigits
      <4>2. n \in Nat /\ 100 <= n /\ n < 1000
        BY <1>2, <3>2, <4>1, SMT
      <4> QED
        BY <1>5, <1>6, <4>2
    <3>4. CASE ~(s.b = 1 /\ s.m % 10 = 5 /\ s.e < 12)
      <4>1. n \in L!Nearest(s.m, 10)
        BY <2>1, <2>3, <3>4 DEF L!SIDigits
      <4>2. n \in Nat /\ -10 <= 2 * (s.m - (n * 10)) /\ 2 * (s.m - (n * 10)) <= 10
        BY <1>2, <4>1, NearestIs
      <4>3. CASE s.m <= 9994
        <5>1. n \in Nat /\ 100 <= n /\ n < 1000
          BY <1>2, <3>2, <4>2, <4>3, SMT
        <5> QED
          BY <1>5, <1>6, <5>1
      <4>4. CASE s.m = 9995
        <5>1. s.b = 1 /\ s.e >= 12
          BY <1>2, <3>1, <3>4, <4>4, SMT
        <5>2. 100 <= n /\ n < 10000
          BY <4>2, <4>4, SMT
        <5>3. L!Width(c) \in Nat
          BY <1>4, <1>5, <4>2, <5>2, UnitWidth
        <5> QED
          <6>1. L!InexactTie(s)
            BY <4>4, <5>1, SMT DEF L!InexactTie
          <6>2. c.digits >= 100
            BY <1>5, <5>2
          <6>3. L!SIRight(c)
            BY <1>5, <6>1, <6>2, Zenon DEF L!SIRight
          <6> QED
            BY <1>5, <5>3, <6>3
      <4> QED
        BY <1>2, <3>1, <4>3, <4>4, SMT
    <3> QED
      BY <3>3, <3>4
  <2> QED
    BY <2>2, <2>3
<1> QED
  BY <1>7, <1>8

(* formatIEC, on both sides of each of its three thresholds.                *)
LEMMA IECIsRight ==
  ASSUME L!ConstantsOK, NEW num \in L!IECNumbers, NEW c \in L!formatIEC(num[1], num[2])
  PROVE  c.kind = "iec" /\ L!Width(c) \in Nat /\ L!IECRight(c)
<1> DEFINE q == num[1]
           u == num[2]
           up == L!InNextUnit(q, u)
           in == IF up THEN q \div 1024 ELSE q
           decimals == L!IECDecimals(in, u)
           plain == u = 1 /\ q < 1024
           d == IF plain THEN 0 ELSE decimals
           unit == IF plain THEN "" ELSE L!IECUnits[IF up THEN u + 1 ELSE u]
           scaled == in * <<1, 10, 100>>[decimals + 1]
<1>1. PICK n :
         /\ n \in (IF plain THEN {q} ELSE L!Nearest(scaled, 1024))
         /\ c = [kind |-> "iec", value |-> <<q, u>>, digits |-> n, decimals |-> d,
                 unit |-> unit]
  BY Zenon DEF L!formatIEC
<1>2. /\ q \in Nat /\ q < 1024 * 1024
      /\ u \in Nat /\ 1 <= u /\ u <= 6
      /\ u > 1 => q >= 1024
      /\ u = 6 => q < 8192
  <2>1. num \in Quotients \X (1 .. 6) /\ (u > 1 => q >= 1024) /\ (u = 6 => q < 8192)
    BY SMT DEF L!IECNumbers
  <2>2. \A x \in Quotients : x \in Nat /\ x < 1024 * 1024
    BY SMT DEF L!ConstantsOK
  <2> HIDE DEF q, u
  <2>3. q \in Quotients /\ u \in 1 .. 6
    BY <2>1 DEF q, u
  <2> QED
    BY <2>1, <2>2, <2>3, SMT
<1> HIDE DEF q, u
<1>3. d \in {0, 1, 2} /\ decimals \in {0, 1, 2}
  BY SMT DEF L!IECDecimals
<1> HIDE DEF d, unit, scaled
<1>4. /\ c.kind = "iec" /\ c.digits = n /\ c.decimals = d /\ c.unit = unit
  BY <1>1, SMT
<1>5. ASSUME n \in Nat, n < 1000 \/ (n < 1024 /\ d = 0), plain \/ n >= 100
      PROVE  L!Width(c) \in Nat /\ L!IECRight(c)
  <2>1. n < 10000 /\ d \in Nat
    BY <1>3, <1>5, SMT
  <2>2. L!Width(c) \in Nat /\ L!Width(c) <= 6
    BY <1>4, <1>5, <2>1, UnitWidth, SMT
  <2>3. plain => unit = ""
    BY SMT DEF unit
  <2> QED
    BY <1>4, <1>5, <2>2, <2>3 DEF L!IECRight
<1>6. CASE plain
  <2>1. n = q /\ d = 0 /\ q < 1024
    BY <1>1, <1>6, SMT DEF d
  <2> QED
    BY <1>2, <1>4, <1>5, <1>6, <2>1, SMT
<1>7. CASE ~plain
  <2>1. n \in L!Nearest(scaled, 1024) /\ d = decimals /\ q >= 1024
    BY <1>1, <1>2, <1>7, SMT DEF d
  <2>2. scaled \in Nat => n \in Nat /\ -1024 <= 2 * (scaled - (n * 1024))
                                    /\ 2 * (scaled - (n * 1024)) <= 1024
    BY <2>1, NearestIs, SMT
  <2>3. CASE up
    <3>1. in = 1023 /\ decimals = 2
      BY <1>2, <2>3, SMT DEF L!InNextUnit, L!IECDecimals
    <3>2. scaled = 102300
      BY <3>1, SMT DEF scaled
    <3>3. n = 100
      BY <2>2, <3>2, SMT
    <3> QED
      BY <1>4, <1>5, <3>3, SMT
  <2>4. CASE ~up /\ q <= 10234
    <3>1. in = q /\ decimals = 2
      BY <1>2, <2>4, SMT DEF L!InNextUnit, L!IECDecimals
    <3>2. scaled = q * 100
      BY <3>1, SMT DEF scaled
    <3>3. n \in Nat /\ 100 <= n /\ n < 1000
      BY <1>2, <2>1, <2>2, <2>4, <3>2, SMT
    <3> QED
      BY <1>4, <1>5, <3>3, SMT
  <2>5. CASE ~up /\ q > 10234 /\ q <= 102348
    <3>1. in = q /\ decimals = 1
      BY <1>2, <2>5, SMT DEF L!InNextUnit, L!IECDecimals
    <3>2. scaled = q * 10
      BY <3>1, SMT DEF scaled
    <3>3. n \in Nat /\ 100 <= n /\ n < 1000
      BY <1>2, <2>2, <2>5, <3>2, SMT
    <3> QED
      BY <1>4, <1>5, <3>3, SMT
  <2>6. CASE ~up /\ q > 102348
    <3>1. in = q /\ decimals = 0 /\ q <= 1048063
      BY <1>2, <2>6, SMT DEF L!InNextUnit, L!IECDecimals
    <3>2. scaled = q * 1 /\ q * 1 = q
      BY <1>2, <3>1, SMT DEF scaled
    <3>3. n \in Nat /\ 100 <= n /\ n < 1024
      BY <1>2, <2>2, <2>6, <3>1, <3>2, SMT
    <3> QED
      BY <1>4, <1>5, <2>1, <3>1, <3>3, SMT
  <2> QED
    BY <1>2, <2>3, <2>4, <2>5, <2>6, SMT
<1> QED
  BY <1>4, <1>6, <1>7, SMT

(* FormatsAreRight of any conversion.                                       *)
Right(c) == /\ c.kind = "int" => L!IntRight(c)
            /\ c.kind = "hex" => L!HexRight(c)
            /\ c.kind = "si" => L!SIRight(c)
            /\ c.kind = "iec" => L!IECRight(c)

LEMMA IntIsRight ==
  ASSUME NEW v \in Int
  PROVE  Right(L!convert(v))
<1> DEFINE c == L!convert(v)
<1>1. /\ c.kind = "int" /\ c.value = v /\ c.digits = L!Decimal[v] /\ c.minus = (v < 0)
  BY DEF L!convert
<1>2. v = (IF v < 0 THEN -1 ELSE 1) * Size(v)
  BY DEF Size
<1>3. /\ v = (IF v < 0 THEN -1 ELSE 1) * L!Value(L!Decimal[v], 10)
      /\ Len(L!Decimal[v]) > 1 => L!Decimal[v][1] # 0
  BY <1>2, DecimalDigits, Zenon DEF DigitsOf
<1> HIDE DEF c
<1>4. L!IntRight(c)
  BY <1>1, <1>3, Zenon DEF L!IntRight
<1>5. Right(c)
  BY <1>1, <1>4 DEF Right
<1> QED
  BY <1>5 DEF c

LEMMA HexIsRight ==
  ASSUME NEW adr \in Nat
  PROVE  Right(L!convertHex(adr))
<1> DEFINE c == L!convertHex(adr)
<1>1. c.kind = "hex" /\ c.value = adr /\ c.digits = L!Hex[adr]
  BY DEF L!convertHex
<1>2. /\ adr = L!Value(L!Hex[adr], 16)
      /\ Len(L!Hex[adr]) > 1 => L!Hex[adr][1] # 0
  BY HexDigits, Zenon DEF DigitsOf
<1> HIDE DEF c
<1>3. L!HexRight(c)
  BY <1>1, <1>2, Zenon DEF L!HexRight
<1>4. Right(c)
  BY <1>1, <1>3 DEF Right
<1> QED
  BY <1>4 DEF c

(* Whatever the last conversion was, the next one is right.                 *)
LEMMA ConversionIsRight ==
  ASSUME L!ConstantsOK, L!Next, Right(shown)
  PROVE  Right(shown')
<1>1. CASE shown' = shown
  BY <1>1
<1>2. ASSUME NEW v \in Ints, shown' = L!convert(v)
      PROVE  Right(shown')
  <2>1. v \in Int
    BY DEF L!ConstantsOK
  <2> QED
    BY <1>2, <2>1, IntIsRight
<1>3. ASSUME NEW adr \in Addresses, shown' = L!convertHex(adr)
      PROVE  Right(shown')
  <2>1. adr \in Nat
    BY DEF L!ConstantsOK
  <2> QED
    BY <1>3, <2>1, HexIsRight
<1>4. ASSUME NEW s \in L!SINumbers, NEW c \in L!formatSI(s), shown' = c
      PROVE  Right(shown')
  <2>1. c.kind = "si" /\ L!SIRight(c)
    BY SIIsRight
  <2>2. Right(c)
    BY <2>1 DEF Right
  <2> QED
    BY <1>4, <2>2
<1>5. ASSUME NEW num \in L!IECNumbers, NEW c \in L!formatIEC(num[1], num[2]), shown' = c
      PROVE  Right(shown')
  <2>1. c.kind = "iec" /\ L!IECRight(c)
    BY IECIsRight
  <2>2. Right(c)
    BY <2>1 DEF Right
  <2> QED
    BY <1>5, <2>2
<1>6. \/ shown' = shown
      \/ \E v \in Ints : shown' = L!convert(v)
      \/ \E adr \in Addresses : shown' = L!convertHex(adr)
      \/ \E s \in L!SINumbers : \E c \in L!formatSI(s) : shown' = c
      \/ \E num \in L!IECNumbers : \E c \in L!formatIEC(num[1], num[2]) : shown' = c
  BY DEF L!Next, L!PutText, L!PutDouble, L!formatInteger, L!PutPointer, L!PutSI, L!PutIEC,
         L!debugString, L!resetBuffer
<1> QED
  BY <1>1, <1>2, <1>3, <1>4, <1>5, <1>6

LEMMA StreamStep ==
  ASSUME L!ConstantsOK, StreamInv, L!Next
  PROVE  StreamInv'
<1>1. ASSUME NEW len \in TextLens, L!PutText(len)
      PROVE  StreamInv'
  BY <1>1, AppendFits DEF L!PutText, L!ConstantsOK
<1>2. ASSUME NEW len \in DoubleLens, L!PutDouble(len)
      PROVE  StreamInv'
  BY <1>2, InPlaceFits DEF L!PutDouble, L!ConstantsOK, L!StaticCheck
<1>3. ASSUME NEW v \in Ints, L!formatInteger(v)
      PROVE  StreamInv'
  BY <1>3, InPlaceFits DEF L!formatInteger, L!ConstantsOK, L!StaticCheck
<1>4. ASSUME NEW a \in Addresses, L!PutPointer(a)
      PROVE  StreamInv'
  BY <1>4, InPlaceFits DEF L!PutPointer, L!ConstantsOK, L!StaticCheck
<1>5. ASSUME NEW s \in L!SINumbers, L!PutSI(s)
      PROVE  StreamInv'
  <2>1. PICK c \in L!formatSI(s) : L!append(L!Width(c))
    BY <1>5 DEF L!PutSI
  <2>2. L!Width(c) \in Nat
    BY <2>1, SIIsRight
  <2> QED
    BY <2>1, <2>2, AppendFits
<1>6. ASSUME NEW n \in L!IECNumbers, L!PutIEC(n[1], n[2])
      PROVE  StreamInv'
  <2>1. PICK c \in L!formatIEC(n[1], n[2]) : L!append(L!Width(c))
    BY <1>6 DEF L!PutIEC
  <2>2. L!Width(c) \in Nat
    BY <2>1, IECIsRight
  <2> QED
    BY <2>1, <2>2, AppendFits
<1>7. ASSUME L!debugString
      PROVE  StreamInv'
  BY <1>7, WrittenFits DEF L!debugString, StreamInv, L!ConstantsOK
<1>8. ASSUME L!resetBuffer
      PROVE  StreamInv'
  BY <1>8 DEF L!resetBuffer, StreamInv, L!ConstantsOK
<1> QED
  BY <1>1, <1>2, <1>3, <1>4, <1>5, <1>6, <1>7, <1>8 DEF L!Next

LEMMA StreamInvariant == PartsSpec => []StreamInv
<1>1. L!ConstantsOK
  BY PartsAssumption
<1>2. PartsInit => StreamInv
  BY <1>1 DEF PartsInit, L!Init, StreamInv, L!ConstantsOK
<1>3. StreamInv /\ [PartsNext]_vars => StreamInv'
  <2>1. StreamInv /\ UNCHANGED streamVars => StreamInv'
    BY DEF StreamInv, streamVars
  <2> QED
    BY <1>1, <2>1, PartsStep, StreamStep
<1> QED
  BY <1>2, <1>3, PTL DEF PartsSpec

(* Whatever is streamed, neither a piece nor the zero behind it is written  *)
(* past the end of data_ (LogStream.hpp:21, LogStream.cpp:231), for every   *)
(* size of the buffer and every set of lengths and numbers that passes      *)
(* staticCheck.                                                             *)
THEOREM TerminatorAlwaysFits == PartsSpec => []TerminatorFits
<1>1. StreamInv => TerminatorFits
  BY DEF StreamInv, TerminatorFits, L!TerminatorFits
<1> QED
  BY <1>1, StreamInvariant, PTL

(* The writing position stays inside the buffer.                            *)
THEOREM StreamTypeCorrect == PartsSpec => []L!TypeOK
<1>1. StreamInv => L!TypeOK
  BY PartsAssumption DEF StreamInv, L!TypeOK, L!ConstantsOK
<1> QED
  BY <1>1, StreamInvariant, PTL

(* Every number is shown by digits that stand for it, and a size no longer  *)
(* than its comment promises: so the thresholds of formatSI and formatIEC   *)
(* (LogStream.cpp:95, 143) lie where printf's rounding reaches the next     *)
(* digit, for every integer and pointer, every size m * 10^e - b and every  *)
(* q of 1024ths of a unit.                                                  *)
THEOREM FormatsAlwaysRight == PartsSpec => []FormatsAreRight
<1>1. L!ConstantsOK
  BY PartsAssumption
<1>2. PartsInit => Right(shown)
  BY DEF PartsInit, L!Init, Right
<1>3. Right(shown) /\ [PartsNext]_vars => Right(shown)'
  <2>1. Right(shown) /\ UNCHANGED streamVars => Right(shown')
    BY DEF streamVars
  <2> QED
    BY <1>1, <2>1, PartsStep, ConversionIsRight
<1>4. Right(shown) => FormatsAreRight
  BY DEF Right, FormatsAreRight, L!FormatsAreRight
<1> QED
  BY <1>2, <1>3, <1>4, PTL DEF PartsSpec

-----------------------------------------------------------------------------
(* Logging. *)

Lines ==
    {G!NoLine}
    \cup [at : {"time", "date"}, level : G!Levels, second : Seconds]
    \cup [at : {"text"}, level : G!Levels, second : Seconds, date : G!Dates,
          Z : BOOLEAN]

LogTypes ==
    /\ now \in Seconds
    /\ t_lastSecond \in [Threads -> Seconds \cup {0}]
    /\ t_time \in [Threads -> G!Dates]
    /\ spell \in [Threads -> G!Spells]
    /\ g_logTimeZone \in Zones \cup {Utc}
    /\ g_logLevel \in G!Levels
    /\ line \in [Threads -> Lines]
    /\ aborted \in BOOLEAN

(* A thread's date is of the second it noted.  The zone of the moment is one*)
(* of the thread's spell, and so is that of its date when the date is of the*)
(* spell's second, as it is from formatTime to the next line's start.       *)
CacheIsTrue ==
    \A t \in Threads :
        /\ t_time[t].second = t_lastSecond[t]
        /\ g_logTimeZone \in spell[t].zones
        /\ t_lastSecond[t] = spell[t].second => t_time[t].zone \in spell[t].zones
        /\ line[t].at # "none" => line[t].second = spell[t].second
        /\ line[t].at # "time" => t_lastSecond[t] = spell[t].second

LogInv == LogTypes /\ CacheIsTrue /\ G!StampIsTrue

LEMMA LogInit == PartsInit => LogInv
<1> SUFFICES ASSUME PartsInit PROVE LogInv
  OBVIOUS
<1>1. G!ConstantsOK /\ G!Init
  BY PartsAssumption DEF PartsInit
<1>2. LogTypes
  <2>1. now \in Seconds /\ g_logTimeZone \in Zones \cup {Utc} /\ aborted \in BOOLEAN
    BY <1>1 DEF G!Init
  <2>2. g_logLevel \in G!Levels
    BY <1>1 DEF G!Init, G!initLogLevel, G!INFO, G!Levels
  <2>3. /\ t_lastSecond \in [Threads -> Seconds \cup {0}]
    BY <1>1 DEF G!Init
  <2>4. t_time \in [Threads -> G!Dates]
    BY <1>1 DEF G!Init, G!NoDate, G!Dates
  <2>5. line \in [Threads -> Lines]
    BY <1>1 DEF G!Init, Lines
  <2>6. spell \in [Threads -> G!Spells]
    BY <1>1 DEF G!Init, G!NoSpell, G!Spells
  <2> QED
    BY <2>1, <2>2, <2>3, <2>4, <2>5, <2>6 DEF LogTypes
<1>3. CacheIsTrue
  BY <1>1 DEF G!Init, CacheIsTrue, G!NoDate, G!NoLine, G!NoSpell
<1>4. G!StampIsTrue
  BY <1>1 DEF G!Init, G!StampIsTrue, G!NoLine
<1> QED
  BY <1>2, <1>3, <1>4 DEF LogInv

(* Only the thread's own line changes in these steps.                       *)
LEMMA LoggerKeeps ==
  ASSUME LogInv, NEW t \in Threads, NEW level \in G!Levels, G!Logger(t, level)
  PROVE  LogInv'
<1> DEFINE begun == IF spell[t].second = now THEN spell[t]
                    ELSE [second |-> now, zones |-> {g_logTimeZone}]
<1>1. /\ line[t] = G!NoLine
      /\ line' = [line EXCEPT ![t] = [at |-> "time", level |-> level, second |-> now]]
      /\ spell' = [spell EXCEPT ![t] = begun]
      /\ UNCHANGED <<now, g_logLevel, g_logTimeZone, t_lastSecond, t_time, aborted>>
  BY DEF G!Logger, G!Impl, G!globals, G!cache
<1>2. [at |-> "time", level |-> level, second |-> now] \in Lines
  BY DEF LogInv, LogTypes, Lines
<1>3. begun \in G!Spells
  BY DEF LogInv, LogTypes, G!Spells
<1>4. LogTypes'
  BY <1>1, <1>2, <1>3 DEF LogInv, LogTypes
<1>5. /\ line'[t] = [at |-> "time", level |-> level, second |-> now]
      /\ spell'[t] = begun
      /\ \A u \in Threads \ {t} : line'[u] = line[u] /\ spell'[u] = spell[u]
  BY <1>1 DEF LogInv, LogTypes
<1>6. begun.second = now /\ g_logTimeZone \in begun.zones
  BY DEF LogInv, CacheIsTrue
<1>7. t_lastSecond[t] = begun.second => t_time[t].zone \in begun.zones
  BY <1>1 DEF LogInv, CacheIsTrue, G!NoLine
<1>8. CacheIsTrue'
  BY <1>1, <1>5, <1>6, <1>7 DEF LogInv, CacheIsTrue
<1>9. G!StampIsTrue'
  BY <1>5 DEF LogInv, G!StampIsTrue
<1> QED
  BY <1>4, <1>8, <1>9 DEF LogInv

LEMMA FormatTimeKeeps ==
  ASSUME LogInv, NEW t \in Threads, G!formatTime(t)
  PROVE  LogInv'
<1>1. /\ line[t].at = "time" /\ line \in [Threads -> Lines]
      /\ line' = [line EXCEPT ![t].at = "date"]
      /\ UNCHANGED <<now, g_logLevel, g_logTimeZone, spell, aborted>>
  BY DEF G!formatTime, G!globals, LogInv, LogTypes
<1>2. /\ line[t] \in [at : {"time", "date"}, level : G!Levels, second : Seconds]
      /\ line[t].second \in Seconds
  BY <1>1 DEF Lines, G!NoLine
<1>3. /\ line'[t] \in [at : {"time", "date"}, level : G!Levels, second : Seconds]
      /\ line'[t].second = line[t].second
      /\ line'[t].at = "date"
      /\ \A u \in Threads \ {t} : line'[u] = line[u]
      /\ line' \in [Threads -> Lines]
  BY <1>1, <1>2 DEF Lines
<1>4. CASE line[t].second # t_lastSecond[t]
  <2>1. /\ t_lastSecond' = [t_lastSecond EXCEPT ![t] = line[t].second]
        /\ t_time' = [t_time EXCEPT ![t] = [second |-> line[t].second,
                                            zone |-> g_logTimeZone]]
    BY <1>4 DEF G!formatTime, G!Outdated
  <2>2. [second |-> line[t].second, zone |-> g_logTimeZone] \in G!Dates
    BY <1>2 DEF G!Dates, LogInv, LogTypes
  <2>3. LogTypes'
    BY <1>1, <1>2, <1>3, <2>1, <2>2 DEF LogInv, LogTypes
  <2>4. CacheIsTrue'
    BY <1>1, <1>3, <2>1 DEF LogInv, LogTypes, CacheIsTrue
  <2> QED
    BY <1>1, <1>3, <2>3, <2>4 DEF LogInv, G!StampIsTrue
<1>5. CASE line[t].second = t_lastSecond[t]
  <2>1. UNCHANGED <<t_lastSecond, t_time>>
    BY <1>5 DEF G!formatTime, G!Outdated, G!cache
  <2>2. LogTypes'
    BY <1>1, <1>3, <2>1 DEF LogInv, LogTypes
  <2>3. CacheIsTrue'
    BY <1>1, <1>3, <1>5, <2>1 DEF LogInv, CacheIsTrue
  <2> QED
    BY <1>1, <1>3, <2>2, <2>3 DEF LogInv, G!StampIsTrue
<1> QED
  BY <1>4, <1>5

LEMMA FormatZoneKeeps ==
  ASSUME LogInv, NEW t \in Threads, G!formatZone(t)
  PROVE  LogInv'
<1> DEFINE text == [at |-> "text", level |-> line[t].level, second |-> line[t].second,
                    date |-> t_time[t], Z |-> g_logTimeZone = Utc]
<1>1. /\ line[t].at = "date" /\ line \in [Threads -> Lines]
      /\ line' = [line EXCEPT ![t] = text]
      /\ UNCHANGED <<now, g_logLevel, g_logTimeZone, t_lastSecond, t_time, spell, aborted>>
  BY DEF G!formatZone, G!globals, G!cache, LogInv, LogTypes
<1>2. line[t] \in [at : {"time", "date"}, level : G!Levels, second : Seconds]
  BY <1>1 DEF Lines, G!NoLine
<1>3. /\ line[t].second = t_lastSecond[t] /\ line[t].second = spell[t].second
      /\ line[t].second \in Seconds /\ line[t].second # 0
  BY <1>1, <1>2, PartsAssumption DEF LogInv, CacheIsTrue, G!ConstantsOK
<1>4. text \in Lines
  BY <1>2 DEF LogInv, LogTypes, Lines
<1>5. LogTypes'
  BY <1>1, <1>4 DEF LogInv, LogTypes
<1>6. line'[t] = text /\ \A u \in Threads \ {t} : line'[u] = line[u]
  BY <1>1
<1>7. CacheIsTrue'
  BY <1>1, <1>6 DEF LogInv, CacheIsTrue
<1>8. /\ text.date.second = text.second
      /\ text.date.zone \in spell[t].zones
      /\ g_logTimeZone \in spell[t].zones /\ text.Z = (g_logTimeZone = Utc)
  BY <1>1, <1>3 DEF LogInv, CacheIsTrue
<1>9. G!StampIsTrue'
  BY <1>1, <1>6, <1>8 DEF LogInv, G!StampIsTrue
<1> QED
  BY <1>5, <1>7, <1>9 DEF LogInv

LEMMA OutputKeeps ==
  ASSUME LogInv, NEW t \in Threads, G!Output(t)
  PROVE  LogInv'
<1>1. /\ line[t].at = "text"
      /\ line' = [line EXCEPT ![t] = G!NoLine] /\ line \in [Threads -> Lines]
      /\ aborted' \in BOOLEAN
      /\ UNCHANGED <<now, g_logLevel, g_logTimeZone, t_lastSecond, t_time, spell>>
  BY DEF G!Output, G!globals, G!cache, LogInv, LogTypes
<1>2. LogTypes'
  BY <1>1 DEF LogInv, LogTypes, Lines
<1>3. ASSUME NEW u \in Threads
      PROVE  \/ line'[u] = line[u]
             \/ line'[u].at = "none" /\ line[u].at = "text"
  BY <1>1 DEF G!NoLine
<1>4. CacheIsTrue' /\ G!StampIsTrue'
  BY <1>1, <1>3 DEF LogInv, CacheIsTrue, G!StampIsTrue
<1> QED
  BY <1>2, <1>4 DEF LogInv

LEMMA LogNext == ASSUME LogInv, G!Next PROVE LogInv'
<1>1. G!ConstantsOK
  BY PartsAssumption
<1>2. ASSUME NEW t \in Threads, NEW level \in UsedLevels, G!Logger(t, level)
      PROVE  LogInv'
  BY <1>1, <1>2, LoggerKeeps DEF G!ConstantsOK
<1>3. ASSUME NEW t \in Threads, G!CheckNotNull(t)
      PROVE  LogInv'
  BY <1>3, LoggerKeeps DEF G!CheckNotNull, G!FATAL, G!Levels
<1>4. ASSUME NEW level \in UsedLevels, G!setLogLevel(level)
      PROVE  LogInv'
  <2>1. /\ g_logLevel' = level /\ level \in G!Levels
        /\ UNCHANGED <<now, g_logTimeZone, t_lastSecond, t_time, spell, line, aborted>>
    BY <1>1, <1>4 DEF G!setLogLevel, G!cache, G!ConstantsOK
  <2> QED
    BY <2>1 DEF LogInv, LogTypes, CacheIsTrue, G!StampIsTrue
<1>5. ASSUME NEW tz \in Zones \cup {Utc}, G!setTimeZone(tz)
      PROVE  LogInv'
  <2>1. /\ g_logTimeZone' = tz
        /\ spell' = [t \in Threads |-> [spell[t] EXCEPT !.zones = @ \cup {tz}]]
        /\ UNCHANGED <<now, g_logLevel, t_lastSecond, t_time, line, aborted>>
    BY <1>5 DEF G!setTimeZone, G!cache
  <2>2. ASSUME NEW t \in Threads
        PROVE  /\ spell'[t] \in G!Spells
               /\ spell'[t].second = spell[t].second
               /\ spell'[t].zones = spell[t].zones \cup {tz}
    BY <2>1 DEF LogInv, LogTypes, G!Spells
  <2>3. LogTypes'
    BY <2>1, <2>2 DEF LogInv, LogTypes
  <2>4. CacheIsTrue'
    BY <2>1, <2>2 DEF LogInv, CacheIsTrue
  <2>5. G!StampIsTrue'
    BY <2>1, <2>2 DEF LogInv, G!StampIsTrue
  <2> QED
    BY <2>3, <2>4, <2>5 DEF LogInv
<1>6. ASSUME NEW s \in Seconds, G!ClockSteps(s)
      PROVE  LogInv'
  <2>1. /\ now' = s
        /\ UNCHANGED <<g_logLevel, g_logTimeZone, t_lastSecond, t_time, spell, line,
                       aborted>>
    BY <1>6 DEF G!ClockSteps, G!cache
  <2> QED
    BY <2>1 DEF LogInv, LogTypes, CacheIsTrue, G!StampIsTrue
<1> QED
  BY <1>2, <1>3, <1>4, <1>5, <1>6, FormatTimeKeeps, FormatZoneKeeps, OutputKeeps DEF G!Next

LEMMA LogInvariant == PartsSpec => []LogInv
<1>1. LogInv /\ [PartsNext]_vars => LogInv'
  <2>1. LogInv /\ UNCHANGED loggerVars => LogInv'
    BY DEF LogInv, LogTypes, CacheIsTrue, G!StampIsTrue, loggerVars
  <2> QED
    BY <2>1, PartsStep, LogNext
<1> QED
  BY LogInit, <1>1, PTL DEF PartsSpec

(* The date on every line is that of the line's own second; its zone, and   *)
(* the zone the Z behind it speaks of, were in force since the thread's     *)
(* first line of that second in a row, however the threads interleave, the  *)
(* clock steps and zones are set (Logging.cpp:129-163, 219-222).            *)
THEOREM StampsAreTrue == PartsSpec => []StampIsTrue
<1>1. LogInv => StampIsTrue
  BY DEF LogInv, StampIsTrue
<1> QED
  BY <1>1, LogInvariant, PTL

-----------------------------------------------------------------------------
(* Acceptor. *)

(* The kernel's choice of a number is one that is free.                     *)
LEMMA LowestIsFree ==
  ASSUME A!Free # {}, MaxFd \in Nat
  PROVE  A!Lowest \in A!Fds /\ owner[A!Lowest] = "free"
<1> DEFINE S == A!Free
           R == {ss \in Nat \X Nat : ss[1] < ss[2]}
<1>1. S \in SUBSET Nat
  BY DEF A!Free, A!Fds
<1>2. IsWellFoundedOn(R, Nat)
  BY NatLessThanWellFounded, Zenon DEF OpToRel
<1>3. \A x, m \in S : <<x, m>> \notin R => m <= x
  BY <1>1
<1> HIDE DEF R
<1>4. PICK m \in S : \A x \in S : <<x, m>> \notin R
  BY <1>1, <1>2, WFMin, Zenon
<1>5. \A x \in S : m <= x
  BY <1>3, <1>4
<1>6. A!Lowest \in S
  BY <1>5 DEF A!Lowest, A!Min
<1> QED
  BY <1>6 DEF A!Free

FdTypes ==
    /\ owner \in [A!Fds -> A!Owners]
    /\ sockfd_ \in A!Fds \cup {A!None}
    /\ idleFd_ \in A!Fds \cup {A!None}
    /\ connfd \in A!Fds \cup {A!None}
    /\ channelFd \in A!Fds \cup {A!None}

HoldsReserve == {"Bind", "-", "Accept", "Deliver", "CloseIdle"}

(* The numbers the acceptor knows stand for what it thinks they do.  While  *)
(* the reserve is given up and not yet opened again, idleFd_ is stale.      *)
NumbersMean ==
    /\ pc \notin {"Socket", "gone"} => sockfd_ \in A!Fds /\ owner[sockfd_] = "socket"
    /\ pc \in {"Socket", "Idle"} => idleFd_ = A!None
    /\ pc \in HoldsReserve /\ idleFd_ # A!None => owner[idleFd_] = "idle"
    /\ pc = "CloseAccepted" /\ idleFd_ # A!None => owner[idleFd_] = "connection"
    /\ IF pc = "Deliver" THEN connfd \in A!Fds /\ owner[connfd] = "connection"
                         ELSE connfd = A!None

(* And what is open for the acceptor is one of these numbers.               *)
NothingForgotten ==
    \A fd \in A!Fds :
        /\ owner[fd] = "socket" => pc \notin {"Socket", "gone"} /\ fd = sockfd_
        /\ owner[fd] = "idle" => pc \in HoldsReserve /\ fd = idleFd_
        /\ owner[fd] = "connection" =>
              fd = 0 \/ fd = connfd \/ (pc = "CloseAccepted" /\ fd = idleFd_)

AcceptorInv == FdTypes /\ NumbersMean /\ NothingForgotten

LEMMA AcceptorInit == PartsInit => AcceptorInv
BY DEF PartsInit, A!Init, AcceptorInv, FdTypes, NumbersMean, NothingForgotten, HoldsReserve,
       A!Owners

(* Steps that open or close nothing of the acceptor's.                      *)
LEMMA AcceptorIdles ==
  ASSUME AcceptorInv,
         UNCHANGED <<owner, sockfd_, idleFd_, connfd, channelFd>>,
         pc' = pc \/ (pc \in {"Bind", "-"} /\ pc' \in {"-", "Accept"})
  PROVE  AcceptorInv'
BY DEF AcceptorInv, FdTypes, NumbersMean, NothingForgotten, HoldsReserve

LEMMA OthersKeep ==
  ASSUME AcceptorInv, MaxFd \in Nat,
         UNCHANGED <<sockfd_, idleFd_, connfd, channelFd, pc>>,
         A!OthersOpen \/ \E fd \in A!Fds : A!OthersClose(fd)
  PROVE  AcceptorInv'
<1>1. PICK fd \in A!Fds : /\ owner[fd] \in {"free", "other"}
                          /\ owner'[fd] \in {"free", "other"}
                          /\ \A f \in A!Fds : f # fd => owner'[f] = owner[f]
                          /\ owner' \in [A!Fds -> A!Owners]
  <2>1. CASE A!OthersOpen
    BY <2>1, LowestIsFree DEF A!OthersOpen, AcceptorInv, FdTypes, A!Owners
  <2>2. ASSUME NEW fd \in A!Fds, A!OthersClose(fd)
        PROVE  /\ owner[fd] = "other" /\ owner'[fd] = "free"
               /\ \A f \in A!Fds : f # fd => owner'[f] = owner[f]
               /\ owner' \in [A!Fds -> A!Owners]
    BY <2>2 DEF A!OthersClose, A!Closed, AcceptorInv, FdTypes, A!Owners
  <2> QED
    BY <2>1, <2>2
<1>2. FdTypes'
  BY <1>1 DEF AcceptorInv, FdTypes
<1>3. NumbersMean'
  BY <1>1 DEF AcceptorInv, FdTypes, NumbersMean
<1>4. NothingForgotten'
  BY <1>1 DEF AcceptorInv, NothingForgotten
<1> QED
  BY <1>2, <1>3, <1>4 DEF AcceptorInv

(* The constructor.                                                         *)
LEMMA OpensKeep ==
  ASSUME AcceptorInv, MaxFd \in Nat, A!Free # {},
         A!CreateNonblockingOrDie \/ A!OpenIdle \/ A!Reopen
  PROVE  AcceptorInv'
<1>1. A!Lowest \in A!Fds /\ owner[A!Lowest] = "free" /\ A!Lowest # A!None
  BY LowestIsFree DEF A!Fds, A!None
<1>2. CASE A!CreateNonblockingOrDie
  <2>1. FdTypes'
    BY <1>1, <1>2 DEF A!CreateNonblockingOrDie, AcceptorInv, FdTypes, A!Owners
  <2>2. NumbersMean'
    BY <1>1, <1>2
    DEF A!CreateNonblockingOrDie, AcceptorInv, FdTypes, NumbersMean, HoldsReserve
  <2>3. NothingForgotten'
    BY <1>1, <1>2
    DEF A!CreateNonblockingOrDie, AcceptorInv, FdTypes, NothingForgotten, HoldsReserve
  <2> QED
    BY <2>1, <2>2, <2>3 DEF AcceptorInv
<1>3. CASE A!OpenIdle \/ A!Reopen
  <2>1. /\ owner' = [owner EXCEPT ![A!Lowest] = "idle"]
        /\ idleFd_' = A!Lowest
        /\ pc \in {"Idle", "Reopen"} /\ pc' \in {"Bind", "-"}
        /\ UNCHANGED <<sockfd_, connfd, channelFd>>
    BY <1>3 DEF A!OpenIdle, A!Reopen, A!settings
  <2>2. FdTypes'
    BY <1>1, <2>1 DEF AcceptorInv, FdTypes, A!Owners
  <2>3. NumbersMean'
    BY <1>1, <2>1 DEF AcceptorInv, FdTypes, NumbersMean, HoldsReserve
  <2>4. NothingForgotten'
    BY <1>1, <2>1 DEF AcceptorInv, FdTypes, NothingForgotten, HoldsReserve
  <2> QED
    BY <2>2, <2>3, <2>4 DEF AcceptorInv
<1> QED
  BY <1>2, <1>3

(* /dev/null cannot be opened again: idleFd_ is -1 from now on.             *)
LEMMA ReopenFails ==
  ASSUME AcceptorInv, A!Free = {}, A!Reopen
  PROVE  AcceptorInv'
BY DEF A!Reopen, A!settings, AcceptorInv, FdTypes, NumbersMean, NothingForgotten, HoldsReserve

LEMMA AcceptKeeps ==
  ASSUME AcceptorInv, MaxFd \in Nat, NEW fd \in A!Fds, A!Accepts(fd),
         UNCHANGED <<sockfd_, channelFd>>,
         \/ /\ pc = "Accept" /\ pc' = "Deliver"
            /\ connfd' = fd /\ UNCHANGED idleFd_
         \/ /\ pc = "AcceptIdle" /\ pc' = "CloseAccepted"
            /\ idleFd_' = fd /\ UNCHANGED connfd
  PROVE  AcceptorInv'
<1>1. /\ owner[fd] = "free" /\ fd # A!None
      /\ owner' = [owner EXCEPT ![fd] = "connection"]
  BY LowestIsFree DEF A!Accepts, A!Fds, A!None
<1>2. FdTypes'
  BY <1>1 DEF AcceptorInv, FdTypes, A!Owners
<1>3. NumbersMean'
  BY <1>1 DEF AcceptorInv, FdTypes, NumbersMean, HoldsReserve
<1>4. connfd = A!None /\ \A f \in A!Fds : f # A!None
  BY DEF AcceptorInv, NumbersMean, A!Fds, A!None
<1>5. NothingForgotten'
  BY <1>1, <1>4 DEF AcceptorInv, FdTypes, NothingForgotten, HoldsReserve
<1> QED
  BY <1>2, <1>3, <1>5 DEF AcceptorInv

LEMMA DeliverKeeps ==
  ASSUME AcceptorInv, A!Deliver \/ A!TakeZeroForFailure
  PROVE  AcceptorInv'
<1>1. /\ connfd \in A!Fds /\ owner[connfd] = "connection" /\ pc = "Deliver"
      /\ pc' \in {"-", "CloseIdle"} /\ connfd' = A!None
      /\ UNCHANGED <<sockfd_, idleFd_, channelFd>>
  BY DEF A!Deliver, A!TakeZeroForFailure, A!settings, AcceptorInv, NumbersMean
<1>2. /\ owner' \in [A!Fds -> A!Owners]
      /\ \A f \in A!Fds : f # connfd => owner'[f] = owner[f]
      /\ \/ owner'[connfd] \in {"free", "other"}
         \/ connfd = 0 /\ owner'[connfd] = owner[connfd]
  BY <1>1 DEF A!Deliver, A!TakeZeroForFailure, A!Closed, AcceptorInv, FdTypes, A!Owners
<1>3. FdTypes'
  BY <1>1, <1>2 DEF AcceptorInv, FdTypes
<1>4. NumbersMean'
  BY <1>1, <1>2 DEF AcceptorInv, FdTypes, NumbersMean, HoldsReserve
<1>5. NothingForgotten'
  BY <1>1, <1>2 DEF AcceptorInv, FdTypes, NothingForgotten, HoldsReserve
<1> QED
  BY <1>3, <1>4, <1>5 DEF AcceptorInv

(* handleRead closes idleFd_ twice: the reserve, then what took its place.  *)
LEMMA CloseKeeps ==
  ASSUME AcceptorInv, A!CloseIdle \/ A!CloseAccepted
  PROVE  AcceptorInv'
<1>1. /\ owner' = A!Closed(idleFd_)
      /\ \/ pc = "CloseIdle" /\ pc' = "AcceptIdle"
         \/ pc = "CloseAccepted" /\ pc' = "Reopen"
      /\ UNCHANGED <<sockfd_, idleFd_, connfd, channelFd>>
  BY DEF A!CloseIdle, A!CloseAccepted, A!settings
<1>2. /\ owner' \in [A!Fds -> A!Owners]
      /\ \A f \in A!Fds : owner'[f] = IF f = idleFd_ THEN "free" ELSE owner[f]
  BY <1>1 DEF A!Closed, AcceptorInv, FdTypes, A!Owners
<1>3. FdTypes'
  BY <1>1, <1>2 DEF AcceptorInv, FdTypes
<1>4. sockfd_ # idleFd_
  BY <1>1 DEF AcceptorInv, NumbersMean, HoldsReserve, A!Fds, A!None
<1>5. NumbersMean'
  BY <1>1, <1>2, <1>4 DEF AcceptorInv, FdTypes, NumbersMean, HoldsReserve
<1>6. NothingForgotten'
  BY <1>1, <1>2 DEF AcceptorInv, FdTypes, NothingForgotten, HoldsReserve
<1> QED
  BY <1>3, <1>5, <1>6 DEF AcceptorInv

LEMMA DestroyKeeps ==
  ASSUME AcceptorInv, A!Destroy
  PROVE  AcceptorInv'
<1>1. CASE UNCHANGED <<owner, pc>>
  BY <1>1, AcceptorIdles DEF A!Destroy, A!Dies, A!settings
<1>2. CASE /\ owner' = [f \in A!Fds |-> IF f \in {idleFd_, sockfd_} THEN "free" ELSE owner[f]]
           /\ pc = "-" /\ pc' = "gone"
           /\ UNCHANGED <<sockfd_, idleFd_, connfd, channelFd>>
  <2>1. FdTypes'
    BY <1>2 DEF AcceptorInv, FdTypes, A!Owners
  <2>2. NumbersMean' /\ NothingForgotten'
    BY <1>2 DEF AcceptorInv, FdTypes, NumbersMean, NothingForgotten, HoldsReserve
  <2> QED
    BY <2>1, <2>2 DEF AcceptorInv
<1> QED
  BY <1>1, <1>2 DEF A!Destroy, A!Dies, A!settings

LEMMA AcceptorNext == ASSUME AcceptorInv, A!Next PROVE AcceptorInv'
<1>1. MaxFd \in Nat
  BY PartsAssumption DEF A!ConstantsOK
<1>2. ASSUME NEW why, A!Dies(why)
      PROVE  AcceptorInv'
  BY <1>2, AcceptorIdles DEF A!Dies, A!settings
<1>3. CASE A!CreateNonblockingOrDie
  BY <1>1, <1>2, <1>3, OpensKeep DEF A!CreateNonblockingOrDie
<1>4. CASE A!OpenIdle
  BY <1>1, <1>2, <1>4, OpensKeep DEF A!OpenIdle
<1>5. CASE A!BindOrDie
  BY <1>2, <1>5, AcceptorIdles DEF A!BindOrDie, A!settings
<1>6. CASE A!SetNewConnectionCallback
  BY <1>6, AcceptorIdles DEF A!SetNewConnectionCallback
<1>7. CASE A!Listen
  BY <1>7, AcceptorIdles DEF A!Listen
<1>8. CASE A!HandleRead
  BY <1>8, AcceptorIdles DEF A!HandleRead, A!settings
<1>9. CASE A!Accept
  BY <1>1, <1>2, <1>9, AcceptKeeps DEF A!Accept, A!settings
<1>10. CASE A!Deliver \/ A!TakeZeroForFailure
  BY <1>10, DeliverKeeps
<1>11. CASE A!CloseIdle \/ A!CloseAccepted
  BY <1>11, CloseKeeps
<1>12. CASE A!AcceptIdle
  <2>1. CASE \E fd \in A!Fds : A!Accepts(fd) /\ idleFd_' = fd
    BY <1>1, <1>12, <2>1, AcceptKeeps DEF A!AcceptIdle, A!settings
  <2>2. CASE idleFd_' = A!None /\ UNCHANGED owner
    BY <1>12, <2>2
    DEF A!AcceptIdle, A!settings, AcceptorInv, FdTypes, NumbersMean, NothingForgotten,
        HoldsReserve
  <2> QED
    BY <1>12, <2>1, <2>2 DEF A!AcceptIdle
<1>13. CASE A!Reopen
  BY <1>1, <1>13, OpensKeep, ReopenFails
<1>14. CASE A!Destroy
  BY <1>14, DestroyKeeps
<1>15. CASE A!OthersOpen \/ \E fd \in A!Fds : A!OthersClose(fd)
  BY <1>1, <1>15, OthersKeep DEF A!OthersOpen, A!OthersClose, A!settings
<1>16. CASE A!OpenFails \/ A!PeerConnects \/ A!PeerGivesUp
  BY <1>16, AcceptorIdles DEF A!OpenFails, A!PeerConnects, A!PeerGivesUp, A!settings
<1> QED
  BY <1>3, <1>4, <1>5, <1>6, <1>7, <1>8, <1>9, <1>10, <1>11, <1>12, <1>13, <1>14, <1>15,
     <1>16 DEF A!Next

LEMMA AcceptorInvariant == PartsSpec => []AcceptorInv
<1>1. AcceptorInv /\ [PartsNext]_vars => AcceptorInv'
  <2>1. AcceptorInv /\ UNCHANGED acceptorVars => AcceptorInv'
    BY DEF AcceptorInv, FdTypes, NumbersMean, NothingForgotten, acceptorVars
  <2> QED
    BY <2>1, PartsStep, AcceptorNext
<1> QED
  BY AcceptorInit, <1>1, PTL DEF PartsSpec

(* The acceptor closes nothing but its own descriptors and forgets none but *)
(* a connection with number 0, wherever other threads open and close theirs *)
(* (Acceptor.cpp:40-59), for every size of the table of descriptors.        *)
THEOREM DescriptorsStayOwned == PartsSpec => []DescriptorsOwned
<1>1. AcceptorInv => A!DescriptorsOwned
  BY DEF AcceptorInv, FdTypes, NumbersMean, NothingForgotten, HoldsReserve,
         A!DescriptorsOwned
<1>2. AcceptorInv => DescriptorsOwned
  BY <1>1 DEF DescriptorsOwned
<1> QED
  BY <1>2, AcceptorInvariant, PTL

-----------------------------------------------------------------------------
(* Game. *)

GameInv == currentMap_ \in DOMAIN Map /\ M!NotInWall

LEMMA GameInit == PartsInit => GameInv
BY PartsAssumption
DEF PartsInit, M!Init, M!ConstantsOK, GameInv, M!NotInWall, M!TileBox, M!Hitbox

(* handleEvent leaves the player on the tile behind the portal, ahead, or   *)
(* where it was, and none of them is in a wall.                             *)
LEMMA WalkKeeps ==
  ASSUME GameInv, NEW key, M!Walk(key)
  PROVE  GameInv'
<1> DEFINE player == M!Ahead(key)
           here == Map[currentMap_]
           stand == IF M!Teleports(player) THEN M!TileBox(here.newX, here.newY)
                                           ELSE M!Stopped(player)
<1>1. M!ConstantsOK /\ currentMap_ \in DOMAIN Map
  BY PartsAssumption DEF GameInv
<1>2. x_' = stand.x /\ y_' = stand.y
  BY DEF M!Walk
<1>3. CASE M!Teleports(player)
  <2>1. /\ currentMap_' = here.nextMap /\ trigerZone_' = M!tpPoint(here.nextMap)
        /\ M!Hitbox(x_', y_') = M!TileBox(here.newX, here.newY)
    BY <1>2, <1>3 DEF M!Walk, M!Tp, M!TileBox, M!Hitbox
  <2>2. /\ here.nextMap \in DOMAIN Map
        /\ ~M!is_blocked(here.nextMap, M!TileBox(here.newX, here.newY))
    BY <1>1 DEF M!ConstantsOK
  <2> QED
    BY <2>1, <2>2 DEF GameInv, M!NotInWall
<1>4. CASE ~M!Teleports(player)
  <2>1. UNCHANGED <<currentMap_, trigerZone_>> /\ stand = M!Stopped(player)
    BY <1>4 DEF M!Walk
  <2>2. CASE M!is_blocked(currentMap_, player)
    <3>1. M!Hitbox(x_', y_') = M!Hitbox(x_, y_)
      BY <1>2, <2>1, <2>2 DEF M!Stopped, M!Hitbox
    <3> QED
      BY <1>1, <2>1, <3>1 DEF GameInv, M!NotInWall
  <2>3. CASE ~M!is_blocked(currentMap_, player)
    <3>1. x_' = player.x /\ y_' = player.y
      BY <1>2, <2>1, <2>3 DEF M!Stopped
    <3>2. ~M!is_blocked(currentMap_, M!Hitbox(x_', y_'))
      BY <2>3, <3>1 DEF M!is_blocked, M!Touches, M!check_x, M!check_y, M!Hitbox
    <3> QED
      BY <1>1, <2>1, <3>2 DEF GameInv, M!NotInWall
  <2> QED
    BY <2>2, <2>3
<1> QED
  BY <1>3, <1>4

LEMMA GameNext == ASSUME GameInv, M!Next PROVE GameInv'
<1>1. ASSUME UNCHANGED <<x_, y_, trigerZone_, currentMap_>>
      PROVE  GameInv'
  BY <1>1 DEF GameInv, M!NotInWall
<1>2. CASE M!init \/ M!clean
  BY <1>1, <1>2 DEF M!init, M!clean, M!scene
<1>3. ASSUME NEW keystates \in SUBSET M!Directions, M!Frame(keystates)
      PROVE  GameInv'
  <2>1. CASE M!Stand
    BY <1>1, <2>1 DEF M!Stand
  <2>2. CASE M!Walk(M!Key(keystates))
    BY <2>2, WalkKeeps
  <2> QED
    BY <1>3, <2>1, <2>2 DEF M!Frame
<1> QED
  BY <1>2, <1>3 DEF M!Next

(* On every map whose portal leads to a free tile the player never overlaps *)
(* a wall, and the portal it tests for is that of the map it is on          *)
(* (Player.cpp:73-89).                                                      *)
THEOREM NeverInWall == PartsSpec => []NotInWall
<1>1. GameInv /\ [PartsNext]_vars => GameInv'
  <2>1. GameInv /\ UNCHANGED gameVars => GameInv'
    BY DEF GameInv, M!NotInWall, gameVars
  <2> QED
    BY <2>1, PartsStep, GameNext
<1>2. GameInv => NotInWall
  BY DEF GameInv, NotInWall
<1> QED
  BY GameInit, <1>1, <1>2, PTL DEF PartsSpec

-----------------------------------------------------------------------------
(* InetAddress. *)

(* The byte orders: a number is its bytes, and turning them round twice     *)
(* gives them back.                                                         *)
LEMMA SwapOfTwo ==
  ASSUME NEW a, NEW c
  PROVE  I!Reverse(<<a, c>>) = <<c, a>>
BY DEF I!Reverse

LEMMA SwapOfFour ==
  ASSUME NEW a, NEW c, NEW d, NEW e
  PROVE  I!Reverse(<<a, c, d, e>>) = <<e, d, c, a>>
BY DEF I!Reverse

OnTheWire(port) == I!hostToNetwork16(I!Bytes16(port))

LEMMA PortComesBack ==
  ASSUME NEW port \in 0 .. I!UINT16_MAX
  PROVE  I!Number16(I!networkToHost16(OnTheWire(port))) = port
<1>1. I!networkToHost16(OnTheWire(port)) = <<port % 256, port \div 256>>
  BY SwapOfTwo DEF OnTheWire, I!hostToNetwork16, I!networkToHost16, I!Bytes16
<1>2. port \in Nat
  BY DEF I!UINT16_MAX
<1>3. (port % 256) + (256 * (port \div 256)) = port
  BY <1>2
<1> QED
  BY <1>1, <1>3 DEF I!Number16

(* An address is one of the two families, with the port it was asked for.   *)
AddrShape ==
    /\ asked.port \in 0 .. I!UINT16_MAX
    /\ asked = [port |-> asked.port, ip |-> asked.ip, refused |-> asked.refused]
    /\ addr.family \in {"AF_INET", "AF_INET6"}
    /\ addr.port = OnTheWire(asked.port)
    /\ addr = [family |-> addr.family, port |-> addr.port, word |-> addr.word,
               ip6 |-> addr.ip6, scope |-> addr.scope]

GoesWhereAsked ==
    \/ ~asked.refused /\ I!toPortIp(addr).ip = asked.ip
    \/ asked.refused /\ I!toPortIp(addr).ip \in {I!kInaddrAny, I!in6addr_any}
    \/ addr.family = "AF_INET6" /\ addr.word = asked.ip

(* A connected socket has two IPv4 ends, and this end has an address.       *)
EndsShape ==
    \/ local = I!Zeroed /\ peer = I!Zeroed /\ selfConnected = "unknown"
    \/ /\ \E ip \in LocalIps, port \in Ports : local = I!sockaddr4(ip, port)
       /\ \E ip, port : peer = I!sockaddr4(ip, port)

SelfMeansSelf ==
    /\ selfConnected = "yes" => local = peer
    /\ selfConnected = "no" => local # peer

AddrInv == AddrShape /\ GoesWhereAsked /\ EndsShape /\ SelfMeansSelf

LEMMA Sockaddr4 ==
  ASSUME NEW ip, NEW port
  PROVE  I!sockaddr4(ip, port) = [family |-> "AF_INET", port |-> OnTheWire(port),
                                  word |-> ip, ip6 |-> I!in6addr_any, scope |-> 0]
<1> DEFINE a1 == [I!Zeroed EXCEPT !.family = "AF_INET"]
           a2 == [a1 EXCEPT !.word = ip]
<1>1. a1 = [family |-> "AF_INET", port |-> <<0, 0>>, word |-> <<0, 0, 0, 0>>,
            ip6 |-> I!in6addr_any, scope |-> 0]
  BY DEF I!Zeroed
<1>2. I!sockaddr4(ip, port) = [a2 EXCEPT !.port = OnTheWire(port)]
  BY DEF I!sockaddr4, OnTheWire
<1> HIDE DEF a1
<1>3. a2 = [family |-> "AF_INET", port |-> <<0, 0>>, word |-> ip,
            ip6 |-> I!in6addr_any, scope |-> 0]
  BY <1>1
<1> HIDE DEF a2
<1> QED
  BY <1>2, <1>3

LEMMA Sockaddr6 ==
  ASSUME NEW ip, NEW port
  PROVE  I!sockaddr6(ip, port) = [family |-> "AF_INET6", port |-> OnTheWire(port),
                                  word |-> <<0, 0, 0, 0>>, ip6 |-> ip, scope |-> 0]
<1> DEFINE a1 == [I!Zeroed EXCEPT !.family = "AF_INET6"]
           a2 == [a1 EXCEPT !.ip6 = ip]
<1>1. a1 = [family |-> "AF_INET6", port |-> <<0, 0>>, word |-> <<0, 0, 0, 0>>,
            ip6 |-> I!in6addr_any, scope |-> 0]
  BY DEF I!Zeroed
<1>2. I!sockaddr6(ip, port) = [a2 EXCEPT !.port = OnTheWire(port)]
  BY DEF I!sockaddr6, OnTheWire
<1> HIDE DEF a1
<1>3. a2 = [family |-> "AF_INET6", port |-> <<0, 0>>, word |-> <<0, 0, 0, 0>>,
            ip6 |-> ip, scope |-> 0]
  BY <1>1
<1> HIDE DEF a2
<1> QED
  BY <1>2, <1>3

(* What each family's address stands for.                                   *)
LEMMA StandsFor ==
  ASSUME NEW ip, NEW port
  PROVE  /\ I!toPortIp(I!sockaddr4(ip, port)).ip = ip
         /\ I!toPortIp(I!sockaddr6(ip, port)).ip = ip
BY Sockaddr4, Sockaddr6 DEF I!toPortIp

(* An address made anew for a port.                                         *)
LEMMA MadeForPort ==
  ASSUME NEW port \in 0 .. I!UINT16_MAX, NEW ip, NEW wanted, NEW refused \in BOOLEAN,
         addr' \in {I!sockaddr4(ip, port), I!sockaddr6(ip, port)},
         asked' = [port |-> port, ip |-> wanted, refused |-> refused],
         ~refused => ip = wanted,
         refused => ip \in {I!kInaddrAny, I!in6addr_any}
  PROVE  AddrShape' /\ GoesWhereAsked'
<1>1. AddrShape'
  BY Sockaddr4, Sockaddr6 DEF AddrShape
<1>2. I!toPortIp(addr').ip = ip
  BY StandsFor
<1>3. I!toPortIp(addr)' = I!toPortIp(addr')
  BY DEF I!toPortIp, I!Port
<1> QED
  BY <1>1, <1>2, <1>3 DEF GoesWhereAsked

LEMMA AddrInit == PartsInit => AddrInv
<1> SUFFICES ASSUME PartsInit PROVE AddrInv
  OBVIOUS
<1>1. I!Init
  BY DEF PartsInit
<1>2. addr = I!sockaddr4(I!kInaddrAny, 0)
  BY <1>1, SwapOfFour DEF I!Init, I!OfPort, I!hostToNetwork32, I!kInaddrAny
<1>3. /\ asked = [port |-> 0, ip |-> I!kInaddrAny, refused |-> FALSE]
      /\ addr = [family |-> "AF_INET", port |-> OnTheWire(0), word |-> I!kInaddrAny,
                 ip6 |-> I!in6addr_any, scope |-> 0]
  BY <1>1, <1>2, Sockaddr4 DEF I!Init
<1>4. /\ asked.port \in 0 .. I!UINT16_MAX
      /\ addr.family \in {"AF_INET", "AF_INET6"} /\ addr.port = OnTheWire(asked.port)
  BY <1>3 DEF I!UINT16_MAX
<1>5. AddrShape
  BY <1>3, <1>4 DEF AddrShape
<1>6. GoesWhereAsked
  BY <1>1, <1>2, StandsFor DEF I!Init, GoesWhereAsked
<1> QED
  BY <1>1, <1>5, <1>6 DEF I!Init, AddrInv, EndsShape, SelfMeansSelf

LEMMA PortMade ==
  ASSUME NEW port \in 0 .. I!UINT16_MAX, NEW loopbackOnly \in BOOLEAN, NEW ipv6 \in BOOLEAN,
         I!MakeOfPort(port, loopbackOnly, ipv6)
  PROVE  AddrShape' /\ GoesWhereAsked'
<1> DEFINE ip == CASE ipv6 /\ loopbackOnly -> I!in6addr_loopback
                   [] ipv6 /\ ~loopbackOnly -> I!in6addr_any
                   [] ~ipv6 /\ loopbackOnly -> <<127, 0, 0, 1>>
                   [] OTHER -> I!kInaddrAny
<1>1. /\ I!hostToNetwork32(I!kInaddrLoopback) = <<127, 0, 0, 1>>
      /\ I!hostToNetwork32(I!kInaddrAny) = I!kInaddrAny
  BY SwapOfFour DEF I!hostToNetwork32, I!kInaddrLoopback, I!kInaddrAny
<1>2. I!OfPort(port, loopbackOnly, ipv6) \in {I!sockaddr4(ip, port), I!sockaddr6(ip, port)}
  BY <1>1 DEF I!OfPort
<1>3. asked' = [port |-> port, ip |-> ip, refused |-> FALSE]
  BY DEF I!MakeOfPort
<1>4. addr' = I!OfPort(port, loopbackOnly, ipv6)
  BY DEF I!MakeOfPort
<1> HIDE DEF ip
<1> QED
  BY <1>2, <1>3, <1>4, MadeForPort

LEMMA TextMade ==
  ASSUME NEW text \in I!Texts, NEW port \in 0 .. I!UINT16_MAX, NEW ipv6 \in BOOLEAN,
         I!MakeOfText(text, port, ipv6)
  PROVE  AddrShape' /\ GoesWhereAsked'
<1> DEFINE refused == text.form = "none" \/ (ipv6 /\ text.form = "AF_INET")
<1>1. /\ addr' = I!OfText(text, port, ipv6)
      /\ asked' = [port |-> port, ip |-> text.ip, refused |-> refused]
  BY DEF I!MakeOfText
<1>2. CASE refused
  <2>1. \E ip \in {I!kInaddrAny, I!in6addr_any} :
           I!OfText(text, port, ipv6) \in {I!sockaddr4(ip, port), I!sockaddr6(ip, port)}
    BY <1>2 DEF I!OfText, I!fromIpPort, I!Texts
  <2> QED
    BY <1>1, <1>2, <2>1, MadeForPort
<1>3. CASE ~refused
  <2>1. I!OfText(text, port, ipv6) \in {I!sockaddr4(text.ip, port), I!sockaddr6(text.ip, port)}
    BY <1>3 DEF I!OfText, I!fromIpPort, I!Texts
  <2> QED
    BY <1>1, <1>3, <2>1, MadeForPort
<1> QED
  BY <1>2, <1>3

LEMMA Resolved ==
  ASSUME AddrInv, NEW ip, I!resolve(ip) \/ I!setScopeId(1)
  PROVE  AddrShape' /\ GoesWhereAsked'
<1>1. CASE I!resolve(ip)
  BY <1>1 DEF I!resolve, AddrInv, AddrShape, GoesWhereAsked, I!toPortIp
<1>2. CASE I!setScopeId(1)
  BY <1>2 DEF I!setScopeId, AddrInv, AddrShape, GoesWhereAsked, I!toPortIp
<1> QED
  BY <1>1, <1>2

(* The address of this end is not the zeros that stand for a lost peer, and *)
(* two IPv4 ends with the same port and address are one.                    *)
LEMMA SelfFound ==
  ASSUME AddrInv, I!isSlefConnect
  PROVE  SelfMeansSelf'
<1>1. PICK ip \in LocalIps, port \in Ports : local = I!sockaddr4(ip, port)
  BY DEF AddrInv, EndsShape, I!isSlefConnect
<1>2. PICK ip2, port2 : peer = I!sockaddr4(ip2, port2)
  BY DEF AddrInv, EndsShape, I!isSlefConnect
<1>3. ip # <<0, 0, 0, 0>>
  BY PartsAssumption DEF I!ConstantsOK, I!kInaddrAny
<1>4. ~I!SameEnd(local, I!Zeroed)
  BY <1>1, <1>3, Sockaddr4 DEF I!SameEnd, I!Zeroed
<1>5. I!SameEnd(local, peer) <=> local = peer
  BY <1>1, <1>2, Sockaddr4 DEF I!SameEnd
<1>6. PICK there \in I!getPeerAddr :
         selfConnected' = IF I!SameEnd(local, there) THEN "yes" ELSE "no"
  BY DEF I!isSlefConnect
<1>7. there = peer \/ (there = I!Zeroed /\ local # peer)
  BY <1>6 DEF I!getPeerAddr
<1> QED
  BY <1>4, <1>5, <1>6, <1>7 DEF I!isSlefConnect, SelfMeansSelf

LEMMA AddrNext == ASSUME AddrInv, I!Next PROVE AddrInv'
<1>1. \A port \in Ports : port \in 0 .. I!UINT16_MAX
  BY PartsAssumption DEF I!ConstantsOK
<1>2. ASSUME UNCHANGED I!socket, AddrShape', GoesWhereAsked'
      PROVE  AddrInv'
  BY <1>2 DEF AddrInv, EndsShape, SelfMeansSelf, I!socket
<1>3. ASSUME UNCHANGED <<addr, asked>>, EndsShape', SelfMeansSelf'
      PROVE  AddrInv'
  BY <1>3 DEF AddrInv, AddrShape, GoesWhereAsked, I!toPortIp, I!Port
<1>4. ASSUME NEW port \in Ports, NEW loopbackOnly \in BOOLEAN, NEW ipv6 \in BOOLEAN,
             I!MakeOfPort(port, loopbackOnly, ipv6)
      PROVE  AddrInv'
  BY <1>1, <1>2, <1>4, PortMade DEF I!MakeOfPort
<1>5. ASSUME NEW text \in I!Texts, NEW port \in Ports, NEW ipv6 \in BOOLEAN,
             I!MakeOfText(text, port, ipv6)
      PROVE  AddrInv'
  BY <1>1, <1>2, <1>5, TextMade DEF I!MakeOfText
<1>6. ASSUME NEW ip \in Ips \cup {I!NoHost}, I!resolve(ip) \/ I!setScopeId(1)
      PROVE  AddrInv'
  BY <1>2, <1>6, Resolved DEF I!resolve, I!setScopeId, I!socket
<1>7. ASSUME NEW ip \in Ips, NEW port \in Ports, I!setSockAddrInet6(ip, port)
      PROVE  AddrInv'
  BY <1>1, <1>2, <1>7, MadeForPort DEF I!setSockAddrInet6
<1>8. CASE I!connect
  BY <1>3, <1>8 DEF I!connect, EndsShape, SelfMeansSelf
<1>9. CASE I!isSlefConnect
  BY <1>3, <1>9, SelfFound DEF I!isSlefConnect, AddrInv, EndsShape
<1>10. CASE I!closeSocket
  BY <1>3, <1>10 DEF I!closeSocket, EndsShape, SelfMeansSelf
<1>11. \E ip : ip \in Ips
  BY PartsAssumption DEF I!ConstantsOK
<1> QED
  BY <1>4, <1>5, <1>6, <1>7, <1>8, <1>9, <1>10, <1>11 DEF I!Next

(* An address goes where it was asked to, whatever the byte orders on the   *)
(* way, and isSlefConnect says yes only of a socket that is its own peer    *)
(* and no only of one that is not (SocketOps.cpp:239-252, InetAddress.cpp:28-54),  *)
(* for all ports, addresses and texts.                                      *)
THEOREM AddressesAlwaysAgree == PartsSpec => []AddressesAgree
<1>1. AddrInv /\ [PartsNext]_vars => AddrInv'
  <2>1. AddrInv /\ UNCHANGED addressVars => AddrInv'
    BY DEF AddrInv, AddrShape, GoesWhereAsked, EndsShape, SelfMeansSelf, I!toPortIp,
           I!Port, addressVars
  <2> QED
    BY <2>1, PartsStep, AddrNext
<1>2. AddrInv => I!AddressesAgree
  <2>1. AddrInv => I!toPortIp(addr).port = asked.port
    BY PortComesBack DEF AddrInv, AddrShape, I!toPortIp, I!Port
  <2> QED
    BY <2>1 DEF AddrInv, GoesWhereAsked, SelfMeansSelf, I!AddressesAgree
<1>3. AddrInv => AddressesAgree
  BY <1>2 DEF AddressesAgree
<1> QED
  BY AddrInit, <1>1, <1>3, PTL DEF PartsSpec

-----------------------------------------------------------------------------
(* Heap. *)

Kids(k) == {H!left(k), H!right(k)}

(* Every node from lo on but hole has no larger child, and a node that has  *)
(* the hole for a child is not smaller than what is below the hole.         *)
InHeapOrder(v, size, lo, hole) ==
    \A k \in lo .. size - 1 :
        k # hole => \A c \in Kids(k) : c < size => H!At(v, c) <= H!At(v, k)

Spans(v, size, lo, hole) ==
    \A k \in lo .. size - 1 :
        hole \in Kids(k) => \A c \in Kids(hole) : c < size => H!At(v, c) <= H!At(v, k)

BehindIsSorted(v, size) ==
    \A k \in size .. Len(v) - 1 : \A j \in 0 .. k : H!At(v, j) <= H!At(v, k)

SiftAt(lo) ==
    InHeapOrder(vec, heapsize, lo, index) /\ Spans(vec, heapsize, lo, index)

HeapTypes ==
    /\ vec \in Seq(Values) /\ given \in Seq(Values) /\ Len(vec) = Len(given)
    /\ i \in Int /\ heapsize \in 0 .. Len(vec)
    /\ index = H!none \/ index \in Nat
    /\ sorting \in {"init", "sort", "done"}

HeapPhase ==
    /\ sorting = "init" =>
          /\ heapsize = Len(vec) /\ -1 <= i /\ i < Len(vec)
          /\ index # H!none => i + 1 <= index /\ index < heapsize
          /\ SiftAt(i + 1)
    /\ sorting = "sort" =>
          /\ i = heapsize
          /\ index # H!none => index = 0 \/ index < heapsize
          /\ SiftAt(0)
    /\ sorting = "done" => heapsize = 0 /\ index = H!none
    /\ sorting \in {"sort", "done"} => BehindIsSorted(vec, heapsize)

NothingLost == \A x \in Values : H!Copies(vec, x) = H!Copies(given, x)

HeapInv == HeapTypes /\ HeapPhase /\ NothingLost

LEMMA HeapConstants == \A x \in Values : x \in Int
BY PartsAssumption DEF H!ConstantsOK

LEMMA ElementsAreNumbers ==
  ASSUME NEW v \in Seq(Values), NEW k \in 0 .. Len(v) - 1
  PROVE  H!At(v, k) \in Values /\ H!At(v, k) \in Int
<1>1. k + 1 \in 1 .. Len(v)
  OBVIOUS
<1>2. v[k + 1] \in Values
  BY <1>1
<1> QED
  BY <1>2, HeapConstants DEF H!At

(* An exchange of two elements.                                             *)
LEMMA SwapFacts ==
  ASSUME NEW v \in Seq(Values), NEW j \in 0 .. Len(v) - 1, NEW k \in 0 .. Len(v) - 1
  PROVE  LET w == H!Swapped(v, j, k)
         IN  /\ w \in Seq(Values) /\ Len(w) = Len(v)
             /\ H!At(w, j) = H!At(v, k) /\ H!At(w, k) = H!At(v, j)
             /\ \A m \in 0 .. Len(v) - 1 : m # j /\ m # k => H!At(w, m) = H!At(v, m)
<1> DEFINE u == [v EXCEPT ![j + 1] = H!At(v, k)]
           w == [u EXCEPT ![k + 1] = H!At(v, j)]
<1>1. w = H!Swapped(v, j, k)
  BY DEF H!Swapped
<1>2. H!At(v, j) \in Values /\ H!At(v, k) \in Values
  BY ElementsAreNumbers
<1>3. /\ u \in Seq(Values) /\ Len(u) = Len(v)
      /\ u[j + 1] = H!At(v, k)
      /\ \A m \in 1 .. Len(v) : m # j + 1 => u[m] = v[m]
  BY <1>2
<1> HIDE DEF u
<1>4. /\ w \in Seq(Values) /\ Len(w) = Len(v)
      /\ w[k + 1] = H!At(v, j)
      /\ \A m \in 1 .. Len(v) : m # k + 1 => w[m] = u[m]
  BY <1>2, <1>3
<1> HIDE DEF w
<1>5. H!At(w, k) = H!At(v, j)
  BY <1>4 DEF H!At
<1>6. H!At(w, j) = H!At(v, k)
  BY <1>3, <1>4 DEF H!At
<1>7. ASSUME NEW m \in 0 .. Len(v) - 1, m # j, m # k
      PROVE  H!At(w, m) = H!At(v, m)
  BY <1>3, <1>4, <1>7 DEF H!At
<1> QED
  BY <1>1, <1>4, <1>5, <1>6, <1>7

(* Heap's Cardinality is that of the theorems.                              *)
LEMMA SameCardinality == ASSUME NEW S PROVE H!Cardinality(S) = Cardinality(S)
BY DEF Cardinality, H!Cardinality

(* ... loses nothing.                                                       *)
LEMMA SwapKeepsCopies ==
  ASSUME NEW v \in Seq(Values), NEW j \in 0 .. Len(v) - 1, NEW k \in 0 .. Len(v) - 1,
         NEW x
  PROVE  H!Copies(H!Swapped(v, j, k), x) = H!Copies(v, x)
<1> DEFINE w == H!Swapped(v, j, k)
           Sv == {m \in DOMAIN v : v[m] = x}
           Sw == {m \in DOMAIN w : w[m] = x}
           other(m) == IF m = j + 1 THEN k + 1 ELSE IF m = k + 1 THEN j + 1 ELSE m
           f == [m \in Sv |-> other(m)]
<1>1. /\ DOMAIN v = 1 .. Len(v) /\ DOMAIN w = 1 .. Len(v)
      /\ w[j + 1] = v[k + 1] /\ w[k + 1] = v[j + 1]
  BY SwapFacts DEF H!At
<1>2. ASSUME NEW m \in 1 .. Len(v), m # j + 1, m # k + 1
      PROVE  w[m] = v[m]
  <2>1. m - 1 \in 0 .. Len(v) - 1 /\ m - 1 # j /\ m - 1 # k /\ (m - 1) + 1 = m
    BY <1>2
  <2>2. H!At(w, m - 1) = H!At(v, m - 1)
    BY <2>1, SwapFacts
  <2> QED
    BY <2>1, <2>2 DEF H!At
<1> HIDE DEF w
<1>3. \A m \in 1 .. Len(v) : /\ other(m) \in 1 .. Len(v)
                             /\ other(other(m)) = m
                             /\ w[other(m)] = v[m] /\ v[other(m)] = w[m]
  BY <1>1, <1>2
<1> HIDE DEF other
<1>4. f \in [Sv -> Sw] /\ \A m, n \in Sv : f[m] = f[n] => m = n
  BY <1>1, <1>3
<1>5. \A n \in Sw : other(n) \in Sv /\ f[other(n)] = n
  BY <1>1, <1>3
<1>6. IsFiniteSet(Sv)
  <2>1. Sv \in SUBSET (1 .. Len(v)) /\ IsFiniteSet(1 .. Len(v))
    BY <1>1, FS_Interval
  <2> QED
    BY <2>1, FS_Subset
<1>7. ExistsBijection(Sv, Sw)
  <2> HIDE DEF Sv, Sw, f
  <2>1. f \in Injection(Sv, Sw)
    BY <1>4 DEF Injection, IsInjective
  <2>2. f \in Surjection(Sv, Sw)
    BY <1>4, <1>5 DEF Surjection
  <2> QED
    BY <2>1, <2>2 DEF ExistsBijection, Bijection
<1>8. Cardinality(Sv) = Cardinality(Sw)
  <2> HIDE DEF Sv, Sw, f
  <2> QED
    BY <1>6, <1>7, FS_Bijection
<1>9. H!Copies(v, x) = Cardinality(Sv) /\ H!Copies(w, x) = Cardinality(Sw)
  BY SameCardinality DEF H!Copies
<1> QED
  BY <1>8, <1>9 DEF w

(* The root of a heap is its largest element.                               *)
LEMMA RootIsLargest ==
  ASSUME NEW v \in Seq(Values), NEW size \in 1 .. Len(v), NEW hole \in Int, hole < 0,
         InHeapOrder(v, size, 0, hole),
         NEW j \in 0 .. size - 1
  PROVE  H!At(v, j) <= H!At(v, 0)
<1> DEFINE S == {m \in 0 .. size - 1 : ~(H!At(v, m) <= H!At(v, 0))}
           R == {ss \in Nat \X Nat : ss[1] < ss[2]}
<1> SUFFICES ASSUME S # {} PROVE FALSE
  OBVIOUS
<1>1. S \in SUBSET Nat
  OBVIOUS
<1>2. IsWellFoundedOn(R, Nat)
  BY NatLessThanWellFounded, Zenon DEF OpToRel
<1>3. \A x, m \in S : <<x, m>> \notin R => m <= x
  BY <1>1
<1> HIDE DEF R
<1>4. PICK m \in S : \A x \in S : <<x, m>> \notin R
  BY <1>1, <1>2, WFMin, Zenon
<1>5. \A x \in S : m <= x
  BY <1>3, <1>4
<1>6. m \in 0 .. size - 1 /\ ~(H!At(v, m) <= H!At(v, 0))
  BY <1>4
<1>7. m # 0
  BY <1>6, ElementsAreNumbers
<1> DEFINE p == (m - 1) \div 2
<1>8. p \in 0 .. size - 1 /\ p < m /\ (m = (2 * p) + 1 \/ m = (2 * p) + 2)
  BY <1>6, <1>7
<1> HIDE DEF p
<1>9. H!At(v, m) <= H!At(v, p)
  <2>1. m \in Kids(p) /\ m < size /\ p # hole
    BY <1>6, <1>8 DEF Kids, H!left, H!right
  <2> QED
    BY <1>8, <2>1 DEF InHeapOrder
<1>10. H!At(v, p) <= H!At(v, 0)
  BY <1>5, <1>8
<1>11. /\ H!At(v, m) \in Int /\ H!At(v, p) \in Int /\ H!At(v, 0) \in Int
  BY <1>6, <1>8, ElementsAreNumbers
<1> QED
  BY <1>6, <1>9, <1>10, <1>11

(* The larger of the children, if it is larger than the node.               *)
LEMMA LargestFacts ==
  ASSUME NEW v \in Seq(Values), NEW size \in 0 .. Len(v), NEW k \in Nat,
         k < size \/ size = 0
  PROVE  LET largest == H!Largest(v, k, size)
         IN  /\ largest = k =>
                   \A c \in Kids(k) : c < size => H!At(v, c) <= H!At(v, k)
             /\ largest # k =>
                   /\ largest \in Kids(k) /\ largest < size
                   /\ H!At(v, k) < H!At(v, largest)
                   /\ \A c \in Kids(k) : c < size => H!At(v, c) <= H!At(v, largest)
<1> DEFINE l == H!left(k)
           r == H!right(k)
<1>1. l \in Nat /\ r \in Nat /\ l > k /\ r > k
  BY DEF H!left, H!right
<1>2. \A c \in {k, l, r} : c < size => H!At(v, c) \in Int
  BY <1>1, ElementsAreNumbers
<1>3. H!Largest(v, k, size) = H!Larger(v, r, H!Larger(v, l, k, size), size)
  BY DEF H!Largest
<1>4. Kids(k) = {l, r}
  BY DEF Kids
<1> HIDE DEF l, r
<1>5. CASE size = 0
  BY <1>1, <1>3, <1>4, <1>5 DEF H!Larger
<1>6. CASE k < size
  BY <1>1, <1>2, <1>3, <1>4, <1>6 DEF H!Larger
<1> QED
  BY <1>5, <1>6

LEMMA HeapInit == PartsInit => HeapInv
<1> SUFFICES ASSUME PartsInit PROVE HeapInv
  OBVIOUS
<1>1. H!Init
  BY DEF PartsInit
<1>2. HeapTypes
  BY <1>1 DEF H!Init, HeapTypes
<1>3. HeapPhase
  BY <1>1 DEF H!Init, HeapPhase, BehindIsSorted
<1>4. NothingLost
  BY <1>1 DEF H!Init, NothingLost
<1> QED
  BY <1>2, <1>3, <1>4 DEF HeapInv

(* No node of the second half has children.                                 *)
LEMMA HeapStarts ==
  ASSUME HeapInv, NEW v \in H!Vectors, H!heapSort(v)
  PROVE  HeapInv'
<1>1. v \in Seq(Values)
  BY DEF H!Vectors, H!BoundedSeq, H!SeqOf
<1>2. /\ vec' = v /\ given' = v /\ i' = (Len(v) \div 2) - 1 /\ heapsize' = Len(v)
      /\ sorting' = "init" /\ index' = H!none
  BY DEF H!heapSort, HeapInv, HeapPhase
<1>3. HeapTypes'
  BY <1>1, <1>2 DEF HeapTypes
<1>4. -1 <= i' /\ i' < Len(v)
  BY <1>1, <1>2
<1>5. SiftAt(i + 1)'
  BY <1>1, <1>2 DEF SiftAt, InHeapOrder, Spans, Kids, H!left, H!right, H!none
<1>6. HeapPhase'
  BY <1>2, <1>4, <1>5 DEF HeapPhase
<1> QED
  BY <1>2, <1>3, <1>6 DEF HeapInv, NothingLost

(* The node above a heap is the hole that maxHeapfiy starts from.           *)
LEMMA InitKeeps ==
  ASSUME HeapInv, H!init
  PROVE  HeapInv'
<1>1. /\ sorting = "init" /\ index = H!none /\ UNCHANGED <<vec, given, heapsize>>
      /\ heapsize = Len(vec) /\ SiftAt(i + 1) /\ -1 <= i /\ i < Len(vec) /\ i \in Int
  BY DEF H!init, HeapInv, HeapPhase, HeapTypes
<1>2. CASE i >= 0
  <2>1. index' = i /\ i' = i - 1 /\ sorting' = "init"
    BY <1>1, <1>2 DEF H!init
  <2>2. HeapTypes'
    BY <1>1, <1>2, <2>1 DEF HeapInv, HeapTypes
  <2>3. SiftAt(i + 1)'
    BY <1>1, <1>2, <2>1 DEF SiftAt, InHeapOrder, Spans, Kids, H!left, H!right, H!none
  <2>4. HeapPhase'
    BY <1>1, <1>2, <2>1, <2>3 DEF HeapPhase
  <2> QED
    BY <1>1, <2>2, <2>4 DEF HeapInv, NothingLost
<1>3. CASE ~(i >= 0)
  <2>1. i' = Len(vec) /\ sorting' = "sort" /\ index' = index
    BY <1>1, <1>3 DEF H!init
  <2>2. HeapTypes'
    BY <1>1, <2>1 DEF HeapInv, HeapTypes
  <2>3. i + 1 = 0
    BY <1>1, <1>3
  <2>4. SiftAt(0)'
    BY <1>1, <2>1, <2>3 DEF SiftAt
  <2>5. BehindIsSorted(vec, heapsize)'
    BY <1>1, <2>2 DEF BehindIsSorted, HeapTypes
  <2>6. HeapPhase'
    BY <1>1, <2>1, <2>4, <2>5 DEF HeapPhase
  <2> QED
    BY <1>1, <2>2, <2>6 DEF HeapInv, NothingLost
<1> QED
  BY <1>2, <1>3

(* What stands behind the heap does not care how the heap is ordered.       *)
LEMMA SwapBelow ==
  ASSUME NEW v \in Seq(Values), NEW size \in 0 .. Len(v),
         NEW j \in 0 .. size - 1, NEW k \in 0 .. size - 1,
         BehindIsSorted(v, size)
  PROVE  BehindIsSorted(H!Swapped(v, j, k), size)
<1> DEFINE w == H!Swapped(v, j, k)
<1>1. j \in 0 .. Len(v) - 1 /\ k \in 0 .. Len(v) - 1
  OBVIOUS
<1>2. /\ Len(w) = Len(v) /\ H!At(w, j) = H!At(v, k) /\ H!At(w, k) = H!At(v, j)
      /\ \A m \in 0 .. Len(v) - 1 : m # j /\ m # k => H!At(w, m) = H!At(v, m)
  BY <1>1, SwapFacts
<1> HIDE DEF w
<1>3. ASSUME NEW m \in size .. Len(w) - 1, NEW n \in 0 .. m
      PROVE  H!At(w, n) <= H!At(w, m)
  <2>1. H!At(w, m) = H!At(v, m)
    BY <1>2
  <2>2. \E p \in 0 .. m : H!At(w, n) = H!At(v, p)
    BY <1>2
  <2>3. \A p \in 0 .. m : H!At(v, p) <= H!At(v, m)
    BY <1>2 DEF BehindIsSorted
  <2> QED
    BY <2>1, <2>2, <2>3
<1> QED
  BY <1>3 DEF BehindIsSorted, w

(* The root goes behind the heap: nothing before it is larger.              *)
LEMMA RootBehind ==
  ASSUME NEW v \in Seq(Values), NEW size \in 1 .. Len(v), NEW hole \in Int, hole < 0,
         InHeapOrder(v, size, 0, hole), BehindIsSorted(v, size)
  PROVE  BehindIsSorted(H!Swapped(v, 0, size - 1), size - 1)
<1> DEFINE w == H!Swapped(v, 0, size - 1)
           last_ == size - 1
<1>1. 0 \in 0 .. Len(v) - 1 /\ last_ \in 0 .. Len(v) - 1
  OBVIOUS
<1>2. /\ Len(w) = Len(v) /\ H!At(w, 0) = H!At(v, last_) /\ H!At(w, last_) = H!At(v, 0)
      /\ \A m \in 0 .. Len(v) - 1 : m # 0 /\ m # last_ => H!At(w, m) = H!At(v, m)
  BY <1>1, SwapFacts
<1>3. BehindIsSorted(w, size)
  <2>1. 0 \in 0 .. size - 1 /\ size - 1 \in 0 .. size - 1 /\ size \in 0 .. Len(v)
    OBVIOUS
  <2> QED
    BY <2>1, SwapBelow
<1> HIDE DEF w
<1>4. ASSUME NEW n \in 0 .. last_
      PROVE  H!At(w, n) <= H!At(w, last_)
  <2>1. \E p \in 0 .. size - 1 : H!At(w, n) = H!At(v, p)
    BY <1>2
  <2>2. \A p \in 0 .. size - 1 : H!At(v, p) <= H!At(v, 0)
    BY RootIsLargest
  <2> QED
    BY <1>2, <2>1, <2>2
<1>5. ASSUME NEW m \in last_ .. Len(w) - 1, NEW n \in 0 .. m
      PROVE  H!At(w, n) <= H!At(w, m)
  <2>1. CASE m = last_
    BY <1>4, <2>1
  <2>2. CASE m # last_
    <3>1. m \in size .. Len(w) - 1
      BY <2>2
    <3> QED
      BY <1>3, <3>1 DEF BehindIsSorted
  <2> QED
    BY <2>1, <2>2
<1> QED
  BY <1>5 DEF BehindIsSorted, w

LEMMA SortKeeps ==
  ASSUME HeapInv, H!sort
  PROVE  HeapInv'
<1>1. /\ sorting = "sort" /\ index = H!none /\ UNCHANGED given
      /\ i = heapsize /\ SiftAt(0) /\ BehindIsSorted(vec, heapsize)
  BY DEF H!sort, HeapInv, HeapPhase
<1>2. vec \in Seq(Values) /\ heapsize \in 0 .. Len(vec) /\ H!none \in Int /\ H!none < 0
  BY DEF HeapInv, HeapTypes, H!none
<1>3. CASE i > 0
  <2> DEFINE w == H!Swapped(vec, 0, heapsize - 1)
  <2>1. /\ vec' = w /\ heapsize' = heapsize - 1 /\ index' = 0 /\ i' = heapsize - 1
        /\ sorting' = "sort"
    BY <1>1, <1>3 DEF H!sort
  <2>2. heapsize \in 1 .. Len(vec) /\ heapsize - 1 \in 0 .. Len(vec) - 1 /\ 0 \in 0 .. Len(vec) - 1
    BY <1>1, <1>2, <1>3
  <2>3. /\ w \in Seq(Values) /\ Len(w) = Len(vec)
        /\ \A m \in 0 .. Len(vec) - 1 : m # 0 /\ m # heapsize - 1 => H!At(w, m) = H!At(vec, m)
    BY <1>2, <2>2, SwapFacts
  <2>4. InHeapOrder(vec, heapsize, 0, H!none)
    BY <1>1 DEF SiftAt
  <2>5. BehindIsSorted(w, heapsize - 1)
    BY <1>1, <1>2, <2>2, <2>4, RootBehind
  <2>6. NothingLost'
    BY <1>1, <1>2, <2>1, <2>2, SwapKeepsCopies DEF HeapInv, NothingLost
  <2> HIDE DEF w
  <2>7. HeapTypes'
    BY <1>1, <2>1, <2>2, <2>3 DEF HeapInv, HeapTypes
  <2>8. InHeapOrder(w, heapsize - 1, 0, 0)
    <3> SUFFICES ASSUME NEW k \in 0 .. heapsize - 2, k # 0,
                        NEW c \in Kids(k), c < heapsize - 1
                 PROVE  H!At(w, c) <= H!At(w, k)
      BY <2>2 DEF InHeapOrder
    <3>1. c \in Nat /\ c # 0
      BY DEF Kids, H!left, H!right
    <3>2. H!At(w, c) = H!At(vec, c) /\ H!At(w, k) = H!At(vec, k)
      BY <2>2, <2>3, <3>1
    <3>3. k \in 0 .. heapsize - 1 /\ k # H!none /\ c < heapsize
      BY <1>2, <2>2, <3>1
    <3>4. H!At(vec, c) <= H!At(vec, k)
      BY <2>4, <3>3 DEF InHeapOrder
    <3> QED
      BY <3>2, <3>4
  <2>9. Spans(w, heapsize - 1, 0, 0)
    BY DEF Spans, Kids, H!left, H!right
  <2>10. SiftAt(0)'
    BY <2>1, <2>8, <2>9 DEF SiftAt
  <2>11. HeapPhase'
    BY <2>1, <2>5, <2>10 DEF HeapPhase
  <2> QED
    BY <2>6, <2>7, <2>11 DEF HeapInv
<1>4. CASE ~(i > 0)
  <2>1. heapsize = 0
    BY <1>1, <1>2, <1>4
  <2>2. UNCHANGED <<vec, given, heapsize, index, i>> /\ sorting' = "done"
    BY <1>1, <1>4 DEF H!sort
  <2> QED
    BY <1>1, <2>1, <2>2 DEF HeapInv, HeapTypes, HeapPhase, NothingLost, BehindIsSorted
<1> QED
  BY <1>3, <1>4

(* maxHeapfiy moves the hole down, or finds that there is none.             *)
LEMMA SiftDown ==
  ASSUME NEW v \in Seq(Values), NEW size \in 0 .. Len(v), NEW lo \in Nat,
         NEW hole \in 0 .. size - 1, lo <= hole,
         InHeapOrder(v, size, lo, hole), Spans(v, size, lo, hole),
         NEW c \in Kids(hole), c < size, H!At(v, hole) < H!At(v, c),
         \A d \in Kids(hole) : d < size => H!At(v, d) <= H!At(v, c)
  PROVE  LET w == H!Swapped(v, hole, c)
         IN  InHeapOrder(w, size, lo, c) /\ Spans(w, size, lo, c)
<1> DEFINE w == H!Swapped(v, hole, c)
<1>1. /\ hole \in 0 .. Len(v) - 1 /\ c \in 0 .. Len(v) - 1 /\ hole < c
  BY DEF Kids, H!left, H!right
<1>2. /\ H!At(w, hole) = H!At(v, c) /\ H!At(w, c) = H!At(v, hole)
      /\ \A m \in 0 .. Len(v) - 1 : m # hole /\ m # c => H!At(w, m) = H!At(v, m)
  BY <1>1, SwapFacts
<1>3. \A m \in 0 .. Len(v) - 1 : H!At(v, m) \in Int
  BY ElementsAreNumbers
<1> HIDE DEF w
<1>4. ASSUME NEW k \in lo .. size - 1, k # c, NEW d \in Kids(k), d < size
      PROVE  H!At(w, d) <= H!At(w, k)
  <2>1. d \in 0 .. Len(v) - 1 /\ k \in 0 .. Len(v) - 1 /\ k < d
    BY <1>4 DEF Kids, H!left, H!right
  <2>2. CASE k = hole
    BY <1>1, <1>2, <1>3, <1>4, <2>1, <2>2
  <2>3. CASE k # hole
    <3>1. H!At(w, k) = H!At(v, k)
      BY <1>2, <1>4, <2>1, <2>3
    <3>2. d # c
      BY <2>3 DEF Kids, H!left, H!right
    <3>3. CASE d = hole
      <4>1. H!At(v, c) <= H!At(v, k)
        BY <3>3 DEF Spans
      <4> QED
        BY <1>2, <3>1, <3>3, <4>1
    <3>4. CASE d # hole
      BY <1>2, <1>4, <2>1, <2>3, <3>1, <3>2, <3>4 DEF InHeapOrder
    <3> QED
      BY <3>3, <3>4
  <2> QED
    BY <2>2, <2>3
<1>5. ASSUME NEW k \in lo .. size - 1, c \in Kids(k), NEW d \in Kids(c), d < size
      PROVE  H!At(w, d) <= H!At(w, k)
  <2>1. k = hole
    BY <1>5 DEF Kids, H!left, H!right
  <2>2. d \in 0 .. Len(v) - 1 /\ d # hole /\ d # c
    BY <1>1, <1>5 DEF Kids, H!left, H!right
  <2>3. c \in lo .. size - 1 /\ c # hole
    BY <1>1
  <2>4. H!At(v, d) <= H!At(v, c)
    BY <1>5, <2>3 DEF InHeapOrder
  <2> QED
    BY <1>2, <2>1, <2>2, <2>4
<1>6. InHeapOrder(w, size, lo, c)
  BY <1>4 DEF InHeapOrder
<1>7. Spans(w, size, lo, c)
  BY <1>5 DEF Spans
<1> QED
  BY <1>6, <1>7 DEF w

LEMMA HeapfiyKeeps ==
  ASSUME HeapInv, H!maxHeapfiy
  PROVE  HeapInv'
<1> DEFINE largest == H!Largest(vec, index, heapsize)
           lo == IF sorting = "init" THEN i + 1 ELSE 0
<1>1. /\ vec \in Seq(Values) /\ heapsize \in 0 .. Len(vec) /\ index \in Nat /\ lo \in Nat
      /\ sorting \in {"init", "sort"} /\ index # H!none
      /\ UNCHANGED <<given, i, heapsize, sorting>>
      /\ lo <= index /\ (index < heapsize \/ (index = 0 /\ heapsize = 0))
      /\ InHeapOrder(vec, heapsize, lo, index) /\ Spans(vec, heapsize, lo, index)
  BY DEF H!maxHeapfiy, HeapInv, HeapTypes, HeapPhase, SiftAt, H!none
<1>2. /\ largest = index =>
            \A c \in Kids(index) : c < heapsize => H!At(vec, c) <= H!At(vec, index)
      /\ largest # index =>
            /\ largest \in Kids(index) /\ largest < heapsize
            /\ H!At(vec, index) < H!At(vec, largest)
            /\ \A c \in Kids(index) : c < heapsize => H!At(vec, c) <= H!At(vec, largest)
  BY <1>1, LargestFacts
<1>3. /\ largest = index => index' = H!none /\ UNCHANGED vec
      /\ largest # index => vec' = H!Swapped(vec, index, largest) /\ index' = largest
  BY DEF H!maxHeapfiy
<1> HIDE DEF largest
<1>4. CASE largest = index
  <2>1. HeapTypes'
    BY <1>1, <1>3, <1>4 DEF HeapInv, HeapTypes
  <2>2. InHeapOrder(vec', heapsize', lo, index')
    BY <1>1, <1>2, <1>3, <1>4 DEF InHeapOrder
  <2>3. Spans(vec', heapsize', lo, index')
    BY <1>1, <1>3, <1>4 DEF Spans, Kids, H!left, H!right, H!none
  <2>4. HeapPhase'
    BY <1>1, <1>3, <1>4, <2>2, <2>3 DEF HeapInv, HeapPhase, SiftAt
  <2> QED
    BY <1>1, <1>3, <1>4, <2>1, <2>4 DEF HeapInv, NothingLost
<1>5. CASE largest # index
  <2>1. /\ index \in 0 .. heapsize - 1 /\ largest \in 0 .. heapsize - 1
        /\ index \in 0 .. Len(vec) - 1 /\ largest \in 0 .. Len(vec) - 1
        /\ index < largest /\ largest \in Nat /\ largest # H!none
    BY <1>1, <1>2, <1>5 DEF Kids, H!left, H!right, H!none
  <2>2. vec' \in Seq(Values) /\ Len(vec') = Len(vec)
    BY <1>1, <1>3, <1>5, <2>1, SwapFacts
  <2>3. HeapTypes'
    BY <1>1, <1>3, <1>5, <2>1, <2>2 DEF HeapInv, HeapTypes
  <2>4. InHeapOrder(vec', heapsize', lo, index') /\ Spans(vec', heapsize', lo, index')
    BY <1>1, <1>2, <1>3, <1>5, <2>1, SiftDown
  <2>5. BehindIsSorted(vec, heapsize) => BehindIsSorted(vec', heapsize')
    BY <1>1, <1>3, <1>5, <2>1, SwapBelow
  <2>6. HeapPhase'
    BY <1>1, <1>3, <1>5, <2>1, <2>2, <2>4, <2>5 DEF HeapInv, HeapPhase, SiftAt
  <2>7. NothingLost'
    BY <1>1, <1>3, <1>5, <2>1, SwapKeepsCopies DEF HeapInv, NothingLost
  <2> QED
    BY <2>3, <2>6, <2>7 DEF HeapInv
<1> QED
  BY <1>4, <1>5

LEMMA HeapInvariant == PartsSpec => []HeapInv
<1>1. HeapInv /\ [PartsNext]_vars => HeapInv'
  <2>1. HeapInv /\ UNCHANGED heapVars => HeapInv'
    BY DEF HeapInv, HeapTypes, HeapPhase, SiftAt, InHeapOrder, Spans, BehindIsSorted,
           NothingLost, heapVars
  <2>2. HeapInv /\ H!Next => HeapInv'
    BY HeapStarts, InitKeeps, SortKeeps, HeapfiyKeeps DEF H!Next
  <2> QED
    BY <2>1, <2>2, PartsStep
<1> QED
  BY HeapInit, <1>1, PTL DEF PartsSpec

(* heapSort of any vector of numbers loses no element, keeps every node at  *)
(* or behind i above its children while the heap is built, and leaves what  *)
(* is behind the heap sorted and not smaller than what is in it, so that    *)
(* the vector is sorted at the end (heap.cpp:24-40).                        *)
THEOREM HeapSortSorts == PartsSpec => []SortLoop
<1>1. HeapInv => H!SortLoop
  <2> SUFFICES ASSUME HeapInv PROVE H!SortLoop
    OBVIOUS
  <2>1. \A x \in Values : H!Copies(vec, x) = H!Copies(given, x)
    BY DEF HeapInv, NothingLost
  <2>2. sorting \in {"sort", "done"} => H!SortedBehind
    BY DEF HeapInv, HeapPhase, BehindIsSorted, H!SortedBehind
  <2>3. ASSUME NEW lo \in Nat, index = H!none, SiftAt(lo)
        PROVE  H!HeapFrom(lo)
    BY <2>3 DEF SiftAt, InHeapOrder, Kids, H!HeapFrom, H!none
  <2>4. sorting = "init" /\ index = H!none => H!HeapFrom(i + 1)
    BY <2>3 DEF HeapInv, HeapTypes, HeapPhase
  <2>5. sorting = "sort" /\ index = H!none => H!HeapFrom(0)
    BY <2>3 DEF HeapInv, HeapPhase
  <2>6. sorting = "done" => heapsize = 0
    BY DEF HeapInv, HeapPhase
  <2> QED
    BY <2>1, <2>2, <2>4, <2>5, <2>6 DEF H!SortLoop
<1>2. HeapInv => SortLoop
  BY <1>1 DEF SortLoop
<1> QED
  BY <1>2, HeapInvariant, PTL

(* So heapSort returns what it was given, in order.                         *)
THEOREM VectorIsSorted ==
    PartsSpec => [](sorting = "done" =>
        /\ \A j, k \in DOMAIN vec : j <= k => vec[j] <= vec[k]
        /\ \A x \in Values : H!Copies(vec, x) = H!Copies(given, x))
<1>1. ASSUME HeapInv, sorting = "done", NEW j \in DOMAIN vec, NEW k \in DOMAIN vec, j <= k
      PROVE  vec[j] <= vec[k]
  <2>1. heapsize = 0 /\ BehindIsSorted(vec, 0) /\ vec \in Seq(Values)
    BY <1>1 DEF HeapInv, HeapPhase, HeapTypes
  <2>2. k - 1 \in 0 .. Len(vec) - 1 /\ j - 1 \in 0 .. k - 1
    BY <1>1, <2>1
  <2>3. H!At(vec, j - 1) <= H!At(vec, k - 1)
    BY <2>1, <2>2 DEF BehindIsSorted
  <2>4. (j - 1) + 1 = j /\ (k - 1) + 1 = k
    BY <1>1, <2>1
  <2> QED
    BY <2>3, <2>4 DEF H!At
<1>2. HeapInv => (sorting = "done" =>
                    /\ \A j, k \in DOMAIN vec : j <= k => vec[j] <= vec[k]
                    /\ \A x \in Values : H!Copies(vec, x) = H!Copies(given, x))
  BY <1>1 DEF HeapInv, NothingLost
<1> QED
  BY <1>2, HeapInvariant, PTL

-----------------------------------------------------------------------------
(* SearchTree: the theorems of SearchTree_proofs, about the tree of Parts.   *)

S == INSTANCE SearchTree_proofs WITH t <- tree

(* S and T define the same steps, each under its own names.                 *)
LEMMA SameSteps ==
  /\ T!Init <=> S!Init
  /\ T!Next <=> S!Next
  /\ T!ConstantsOK <=> S!ConstantsOK
<1>1. T!Init <=> S!Init
  BY DEF T!Init, S!Init, T!EmptyTree, S!EmptyTree, T!Nodes, S!Nodes, T!nullptr, S!nullptr, T!Idle, S!Idle, T!NoAnswer, S!NoAnswer
<1>2. T!ConstantsOK <=> S!ConstantsOK
  BY DEF T!ConstantsOK, S!ConstantsOK
<1>3. \A key \in Keys : T!insert(key) <=> S!insert(key)
  BY DEF T!insert, S!insert, T!Min, S!Min, T!Nodes, S!Nodes, T!nullptr,
         S!nullptr, T!Idle, S!Idle, T!NoAnswer, S!NoAnswer
<1>4. \A key \in Keys : T!search(key) <=> S!search(key)
  BY DEF T!search, S!search, T!nullptr, S!nullptr, T!Idle, S!Idle, T!NoAnswer,
         S!NoAnswer
<1>5. \A key \in Keys : T!remove(key) <=> S!remove(key)
  BY DEF T!remove, S!remove, T!nullptr, S!nullptr, T!Idle, S!Idle, T!NoAnswer,
         S!NoAnswer
<1>6. T!insertDown <=> S!insertDown
  BY DEF T!insertDown, S!insertDown, T!nullptr, S!nullptr, T!Idle, S!Idle,
         T!NoAnswer, S!NoAnswer
<1>7. T!insertLink <=> S!insertLink
  BY DEF T!insertLink, S!insertLink, T!Linked, S!Linked, T!nullptr, S!nullptr,
         T!Idle, S!Idle, T!NoAnswer, S!NoAnswer
<1>8. T!searchDown <=> S!searchDown
  BY DEF T!searchDown, S!searchDown, T!Stopped, S!Stopped, T!nullptr, S!nullptr,
         T!Idle, S!Idle, T!NoAnswer, S!NoAnswer
<1>9. T!searchReturn <=> S!searchReturn
  BY DEF T!searchReturn, S!searchReturn, T!Stopped, S!Stopped, T!nullptr,
         S!nullptr, T!Idle, S!Idle, T!NoAnswer, S!NoAnswer
<1>10. T!inorderPrint <=> S!inorderPrint
  BY DEF T!inorderPrint, S!inorderPrint, T!nullptr, S!nullptr, T!Idle, S!Idle,
         T!NoAnswer, S!NoAnswer
<1>11. T!printLeft <=> S!printLeft
  BY DEF T!printLeft, S!printLeft, T!nullptr, S!nullptr, T!Idle, S!Idle,
         T!NoAnswer, S!NoAnswer
<1>12. T!printNode <=> S!printNode
  BY DEF T!printNode, S!printNode, T!nullptr, S!nullptr, T!Idle, S!Idle,
         T!NoAnswer, S!NoAnswer
<1>13. T!printReturn <=> S!printReturn
  BY DEF T!printReturn, S!printReturn, T!nullptr, S!nullptr, T!Idle, S!Idle,
         T!NoAnswer, S!NoAnswer
<1>14. T!removeNothing <=> S!removeNothing
  BY DEF T!removeNothing, S!removeNothing, T!nullptr, S!nullptr, T!Idle, S!Idle,
         T!NoAnswer, S!NoAnswer
<1>15. T!removeNode <=> S!removeNode
  BY DEF T!removeNode, S!removeNode, T!Unhooked, S!Unhooked, T!transplant,
         S!transplant, T!Deleted, S!Deleted, T!Stopped, S!Stopped, T!nullptr,
         S!nullptr, T!Idle, S!Idle, T!NoAnswer, S!NoAnswer
<1>16. T!minimunDown <=> S!minimunDown
  BY DEF T!minimunDown, S!minimunDown, T!nullptr, S!nullptr, T!Idle, S!Idle,
         T!NoAnswer, S!NoAnswer
<1>17. T!removeReplaced <=> S!removeReplaced
  <2>1. \A tr, source, target : T!transplant(tr, source, target) = S!transplant(tr, source, target)
    BY DEF T!transplant, S!transplant, T!nullptr, S!nullptr
  <2>2. \A target, replace : T!Replaced(target, replace) = S!Replaced(target, replace)
    <3>1. TAKE target, replace
    <3> DEFINE out == T!transplant(tree, replace, tree.right[replace])
               taken == [out EXCEPT !.right[replace] = out.right[target],
                                    !.parent[out.right[target]] = replace]
               freed == IF tree.parent[replace] = target THEN tree ELSE taken
               moved == T!transplant(freed, target, replace)
               final == [moved EXCEPT !.left[replace] = moved.left[target],
                                      !.parent[moved.left[target]] = replace]
    <3>2. T!Replaced(target, replace) = final
      BY DEF T!Replaced
    <3>3. S!transplant(tree, replace, tree.right[replace]) = out
      BY <2>1
    <3>4. S!transplant(freed, target, replace) = moved
      BY <2>1
    <3>5. S!Replaced(target, replace) = final
      <4> HIDE DEF out
      <4>1. S!Replaced(target, replace) =
              LET there == S!transplant(freed, target, replace)
              IN  [there EXCEPT !.left[replace] = there.left[target],
                                !.parent[there.left[target]] = replace]
        BY <3>3 DEF S!Replaced
      <4> HIDE DEF freed, moved
      <4> QED
        BY <3>4, <4>1
    <3> HIDE DEF final
    <3> QED
      BY <3>2, <3>5
  <2>3. \A target, tr : T!Unhooked(target, tr) <=> S!Unhooked(target, tr)
    BY DEF T!Unhooked, S!Unhooked, T!Deleted, S!Deleted, T!Idle, S!Idle, T!nullptr, S!nullptr
  <2> QED
    BY <2>2, <2>3 DEF T!removeReplaced, S!removeReplaced, T!nullptr, S!nullptr
<1>18. T!destroy <=> S!destroy
  BY DEF T!destroy, S!destroy, T!nullptr, S!nullptr, T!Idle, S!Idle, T!NoAnswer,
         S!NoAnswer
<1>19. T!destroyLeft <=> S!destroyLeft
  BY DEF T!destroyLeft, S!destroyLeft, T!nullptr, S!nullptr, T!Idle, S!Idle,
         T!NoAnswer, S!NoAnswer
<1>20. T!destroyBack <=> S!destroyBack
  BY DEF T!destroyBack, S!destroyBack, T!nullptr, S!nullptr, T!Idle, S!Idle,
         T!NoAnswer, S!NoAnswer
<1>21. T!destroyReturn <=> S!destroyReturn
  BY DEF T!destroyReturn, S!destroyReturn, T!EmptyTree, S!EmptyTree, T!Nodes,
         S!Nodes, T!nullptr, S!nullptr, T!Idle, S!Idle, T!NoAnswer, S!NoAnswer
<1> QED
  BY <1>1, <1>2, <1>3, <1>4, <1>5, <1>6, <1>7, <1>8, <1>9, <1>10, <1>11, <1>12,
     <1>13, <1>14, <1>15, <1>16, <1>17, <1>18, <1>19, <1>20, <1>21 DEF T!Next,
     S!Next

(* And the same bag.                                                        *)
LEMMA SameBags ==
  /\ T!Bag = S!Bag
  /\ T!Promise!Init <=> S!Promise!Init
  /\ T!Promise!Next <=> S!Promise!Next
<1>1. T!Bag = S!Bag
  BY DEF T!Bag, S!Bag, T!Held, S!Held, T!Cardinality, S!Cardinality
<1>2. T!Promise!Init <=> S!Promise!Init
  BY <1>1 DEF T!Promise!Init, S!Promise!Init, T!Promise!EmptyBag, S!Promise!EmptyBag,
              T!Promise!NoAnswer, S!Promise!NoAnswer
<1>3. T!Bag' = S!Bag'
  BY DEF T!Bag, S!Bag, T!Held, S!Held, T!Cardinality, S!Cardinality
<1>4. T!Promise!Next <=> S!Promise!Next
  <2>1. \A k \in Keys : /\ T!Promise!Insert(k) <=> S!Promise!Insert(k)
                        /\ T!Promise!Remove(k) <=> S!Promise!Remove(k)
                        /\ T!Promise!Search(k) <=> S!Promise!Search(k)
    BY <1>1, <1>3 DEF T!Promise!Insert, S!Promise!Insert, T!Promise!Remove, S!Promise!Remove,
       T!Promise!Search, S!Promise!Search, T!Promise!NoAnswer, S!Promise!NoAnswer
  <2>2. T!Promise!Begin <=> S!Promise!Begin
    BY <1>1, <1>3 DEF T!Promise!Begin, S!Promise!Begin, T!Promise!NoAnswer, S!Promise!NoAnswer
  <2>3. T!Promise!Listing <=> S!Promise!Listing
    <3>1. \A X : T!Promise!Cardinality(X) = S!Promise!Cardinality(X)
      BY DEF T!Promise!Cardinality, S!Promise!Cardinality
    <3> QED
      BY <1>1, <1>3, <3>1 DEF T!Promise!Listing, S!Promise!Listing
  <2>4. T!Promise!Destroy <=> S!Promise!Destroy
    BY <1>1, <1>3 DEF T!Promise!Destroy, S!Promise!Destroy, T!Promise!NoAnswer,
       S!Promise!NoAnswer, T!Promise!EmptyBag, S!Promise!EmptyBag
  <2> QED
    BY <2>1, <2>2, <2>3, <2>4 DEF T!Promise!Next, S!Promise!Next
<1> QED
  BY <1>1, <1>2, <1>4

(* The tree of Parts answers as a bag of keys would, step by step of its    *)
(* operations (binarySearchTree.cpp:4-107).                                 *)
THEOREM TreeIsBag == PartsSpec => ImplementsBag
<1>1. PartsInit => S!Inv /\ T!Promise!Init
  BY SameSteps, SameBags, S!InitFollows DEF PartsInit
<1>2. S!Inv /\ [PartsNext]_vars => S!Inv' /\ [T!Promise!Next]_<<T!Bag, answer>>
  <2> SUFFICES ASSUME S!Inv, [PartsNext]_vars
               PROVE  S!Inv' /\ [T!Promise!Next]_<<T!Bag, answer>>
    OBVIOUS
  <2>1. [S!Next]_S!vars /\ S!ConstantsOK
    BY PartsStep, PartsAssumption, SameSteps DEF treeVars, S!vars
  <2>2. S!Follows
    BY <2>1, S!NextFollows
  <2>3. T!Bag' = S!Bag'
    BY DEF T!Bag, S!Bag, T!Held, S!Held, T!Cardinality, S!Cardinality
  <2> QED
    BY <2>2, <2>3, SameBags DEF S!Follows
<1> QED
  BY <1>1, <1>2, PTL DEF PartsSpec, ImplementsBag, T!ImplementsBag, T!Promise!Spec
=============================================================================
