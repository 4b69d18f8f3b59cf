------------------------------- MODULE Buffer -------------------------------
(***************************************************************************)
(* myMuduo/lib/Buffer.hpp and Buffer.cpp: a vector of bytes with a reader  *)
(* and a writer index.  What lies between the indexes can be read; the     *)
(* bytes before readIndex_ are room that makeSpace may take back.          *)
(*                                                                         *)
(* The object is one record b with the fields of the class; offset i of    *)
(* the vector is place i + 1 of the sequence b.buffer_.  findCRLF, peek    *)
(* and the other queries change nothing and are left out.                  *)
(***************************************************************************)
EXTENDS Integers, Sequences, SequencesExt

CONSTANTS Bytes,           \* the bytes a peer or a caller may write
          Zero,            \* the byte resize() and the constructor fill in
          kCheapPrepend,   \* the room kept before the data
          kInitialiSize,   \* the room for data at first
          ExtraSize,       \* sizeof(extrabuf) of readFd
          MaxSize          \* bound: the length of buffer_

(* What the constants of the class fulfil.                                  *)
ConstantsOK ==
    /\ Zero \in Bytes
    /\ kCheapPrepend \in Nat /\ kInitialiSize \in Nat
    /\ ExtraSize \in Nat /\ MaxSize \in Nat

VARIABLE b

Zeros(n) == [k \in 1 .. n |-> Zero]

Empty == [buffer_ |-> Zeros(kCheapPrepend + kInitialiSize),
          readIndex_ |-> kCheapPrepend, writeIndex_ |-> kCheapPrepend]

readableBytes(c) == c.writeIndex_ - c.readIndex_
writableBytes(c) == Len(c.buffer_) - c.writeIndex_
Readable(c) == SubSeq(c.buffer_, c.readIndex_ + 1, c.writeIndex_)

TypeOK ==
    /\ b \in [buffer_ : Seq(Bytes), readIndex_ : Nat, writeIndex_ : Nat]
    /\ kCheapPrepend <= b.readIndex_
    /\ b.readIndex_ <= b.writeIndex_
    /\ b.writeIndex_ <= Len(b.buffer_)

Init == b = Empty

(* std::copy of data to offset at.                                          *)
Copied(bytes, at, data) ==
    SubSeq(bytes, 1, at) \o data \o SubSeq(bytes, at + Len(data) + 1, Len(bytes))

(* makeSpace moves what is readable to the front, or grows the vector.      *)
Moves(c, len) == writableBytes(c) + c.readIndex_ >= len + kCheapPrepend

Moved(c) ==
    [buffer_ |-> Copied(c.buffer_, kCheapPrepend, Readable(c)),
     readIndex_ |-> kCheapPrepend,
     writeIndex_ |-> kCheapPrepend + readableBytes(c)]

Grown(c, len) ==
    [c EXCEPT !.buffer_ = @ \o Zeros(c.writeIndex_ + len - Len(@))]

(* Mutant: the indexes move to the front, the bytes stay.                   *)
makeSpaceCopiesNothing(c, len) ==
    IF Moves(c, len) THEN [Moved(c) EXCEPT !.buffer_ = c.buffer_]
                     ELSE Grown(c, len)

makeSpace(c, len) == IF Moves(c, len) THEN Moved(c) ELSE Grown(c, len)

ensureWritableBytes(c, len) ==
    IF len > writableBytes(c) THEN makeSpace(c, len) ELSE c

(* append(data,len) copies behind what is readable and leaves writeIndex_.  *)
Appended(c, data) ==
    LET room == ensureWritableBytes(c, Len(data))
    IN  [room EXCEPT !.buffer_ = Copied(@, room.writeIndex_, data)]

-----------------------------------------------------------------------------
Inputs(n) == BoundedSeq(Bytes, n)

append(data) == b' = Appended(b, data)

hasWriten(len) ==
    /\ len <= writableBytes(b)
    /\ b' = [b EXCEPT !.writeIndex_ = @ + len]

retrieveAll ==
    b' = [b EXCEPT !.readIndex_ = kCheapPrepend, !.writeIndex_ = kCheapPrepend]

retrieve(len) ==
    IF len < readableBytes(b)
    THEN b' = [b EXCEPT !.readIndex_ = @ + len]
    ELSE retrieveAll

(* The string returned is the first len bytes of Readable.                  *)
retrieveAsString(len) ==
    /\ len <= readableBytes(b)
    /\ retrieve(len)

(* readv fills the room behind the data and then extrabuf; what is in       *)
(* extrabuf is appended, which does not make it readable.  A failing readv  *)
(* changes nothing.                                                         *)
readFd(data) ==
    LET writable == writableBytes(b)
        fits == Copied(b.buffer_, b.writeIndex_,
                       SubSeq(data, 1, IF Len(data) < writable THEN Len(data)
                                                               ELSE writable))
    IN  IF Len(data) < writable
        THEN b' = [b EXCEPT !.buffer_ = fits, !.writeIndex_ = @ + Len(data)]
        ELSE b' = Appended([buffer_ |-> fits, readIndex_ |-> b.readIndex_,
                            writeIndex_ |-> Len(b.buffer_)],
                           SubSeq(data, writable + 1, Len(data)))

(* swap with a buffer just made, the way one hands its content on.          *)
swap == b' = Empty

Next ==
    /\ \/ \E data \in Inputs(MaxSize) : append(data)
       \/ \E len \in 0 .. writableBytes(b) : hasWriten(len)
       \/ \E len \in 0 .. MaxSize : retrieve(len) \/ retrieveAsString(len)
       \/ retrieveAll
       \/ \E data \in Inputs(writableBytes(b) + ExtraSize) : readFd(data)
       \/ swap
    /\ Len(b'.buffer_) <= MaxSize

Spec == Init /\ [][Next]_b

-----------------------------------------------------------------------------
(* Whatever is called, bytes join what can be read only at its end and      *)
(* leave only from its front; and what readFd makes readable are the bytes  *)
(* it read, in their order, and none that lay in the vector before.  When   *)
(* makeSpace moves the data (Buffer.cpp:48-56) it must carry every byte and *)
(* both indexes along.                                                      *)
StreamOrder ==
    [][Readable(b') # Readable(b) =>
          /\ \/ IsPrefix(Readable(b), Readable(b'))
             \/ IsSuffix(Readable(b'), Readable(b))
          /\ \A data \in Inputs(writableBytes(b) + ExtraSize) :
                readFd(data) => IsPrefix(Readable(b'), Readable(b) \o data)]_b

(* "从这里开始写消息,也就是可读消息到此为止" (Buffer.hpp:111): writing starts    *)
(* here, so what can be read ends here.  By that, bytes that were appended  *)
(* can be read.  The code breaks it: append copies and does not advance     *)
(* writeIndex_ (Buffer.hpp:83-86).                                          *)
AppendedIsReadable ==
    [][\A data \in Inputs(MaxSize) :
          append(data) => Readable(b') = Readable(b) \o data]_b
=============================================================================
