----------------------------- MODULE WireFormat -----------------------------
(***************************************************************************)
(* The primitives of the generated protobuf code (the .pb.go files under   *)
(* src/x/gnovm/types): varints, tags, sizes, and the skipping of a field   *)
(* the message does not declare.  Bytes are the integers 0..255 and an     *)
(* offset counts from 0, as in the code.  A varint groups 7 bits per byte; *)
(* the code computes in 64 bits, so ten bytes hold a varint and only one   *)
(* bit of the tenth counts.  Word keeps that shape (7n + 1) at a size that *)
(* TLC can compute with.  Every file holds its own copy of these           *)
(* functions; the copies of tx.pb.go stand for them all.                   *)
(***************************************************************************)
EXTENDS Integers, Sequences, FiniteSetsExt

CONSTANTS
    Word,       \* bits of uint64 and int: 64 in the code
    FieldWord   \* bits of the int32 a field number is cut to: 32 in the code

\* What follows relies on: the sign bit of a length is in the last group, a
\* field number has fewer bits than a tag leaves it, and the numbers a tag of
\* one byte can hold are positive.
ASSUME WordAssumption ==
    /\ Word \in Nat /\ FieldWord \in Nat
    /\ Word % 7 = 1 /\ 5 <= FieldWord /\ FieldWord < Word - 3

\* The result of reading at an offset, and of reading a whole message.
At(v, n)  == [err |-> "None", val |-> v, next |-> n]
Done(m)   == [err |-> "None", msg |-> m]
Failed(e) == [err |-> e]
Ok(r)     == r.err = "None"

\* Powers of two, up to the word's.
Pow2[n \in 0..Word] == IF n = 0 THEN 1 ELSE 2 * Pow2[n - 1]
Uint64 == Pow2[Word]              \* a uint64 is below it, and an int below
Half == Pow2[Word - 1]          \* half of it
FieldUint == Pow2[FieldWord]

\* A bit pattern that has size values, read as a signed integer.
Signed(x, size) == IF 2 * x >= size THEN x - size ELSE x

-----------------------------------------------------------------------------
(* Reading. *)

\* The varint at offset i takes n bytes when each before the last of them
\* announces another; they hold seven bits each, the lowest first.
Groups == (Word + 6) \div 7
Takes(b, i, n) ==
    i + n <= Len(b) /\ b[i + n] < 128 /\ \A k \in 1 .. n - 1 : b[i + k] >= 128
Value(b, i, n) ==
    LET from[k \in 0..n] == IF k = n THEN 0 ELSE (b[i + k + 1] % 128) + 128 * from[k + 1]
    IN  from[0]

\* The loop "for shift := uint(0); ; shift += 7": an overflow is noticed
\* before the end of the input is, and bits beyond the word are dropped.
ReadVarint(b, i) ==
    IF \E n \in 1..Groups : Takes(b, i, n)
    THEN LET n == CHOOSE n \in 1..Groups : Takes(b, i, n)
         IN  At(Value(b, i, n) % Uint64, i + n)
    ELSE Failed(IF i + Groups <= Len(b) THEN "IntOverflow" ELSE "UnexpectedEOF")

\* fieldNum := int32(wire >> 3); wireType := int(wire & 0x7)
FieldNum(tag) == Signed((tag \div 8) % FieldUint, FieldUint)
WireType(tag) == tag % 8

\* A length prefix r, read as a varint, and the end of what it announces
\* (postIndex).
LengthOf(r) ==
    IF ~Ok(r) THEN r
    ELSE IF Signed(r.val, Uint64) < 0 \/ r.next + r.val >= Half
         THEN Failed("InvalidLength")
    ELSE At(r.next + r.val, r.next)
ReadLength(b, i) == LengthOf(ReadVarint(b, i))

\* dAtA[iNdEx:postIndex], which panics when the bounds are not in the buffer.
Slice(b, from, to) == IF to > Len(b) THEN Failed("Panic") ELSE Done(SubSeq(b, from + 1, to))

\* The offset behind the value of a field of wire type wt, in skipTx.
PastValue(b, wt, i) ==
    CASE wt = 0        -> ReadVarint(b, i)
      [] wt = 1        -> At(0, i + 8)
      [] wt = 2        -> LET r == ReadLength(b, i) IN IF Ok(r) THEN At(0, r.val) ELSE r
      [] wt \in {3, 4} -> At(0, i)
      [] wt = 5        -> At(0, i + 4)
      [] OTHER         -> Failed("IllegalWireType")

\* One pass of skipTx's loop, in a group nested depth deep: where it is then,
\* and how deep.
Behind(past, depth) ==
    IF Ok(past) THEN [err |-> "None", next |-> past.next, depth |-> depth] ELSE past
SkipTagged(b, tag, depth) ==
    LET wt == WireType(tag.val)
    IN  IF ~Ok(tag) THEN tag
        ELSE IF wt = 4 /\ depth = 0 THEN Failed("UnexpectedEndOfGroup")
        ELSE Behind(PastValue(b, wt, tag.next),
                    CASE wt = 3 -> depth + 1 [] wt = 4 -> depth - 1 [] OTHER -> depth)
SkipOne(b, i, depth) ==
    IF i >= Len(b) THEN Failed("UnexpectedEOF") ELSE SkipTagged(b, ReadVarint(b, i), depth)

\* A pass that fails or leaves the outermost group is the last.
Ended(s) == ~Ok(s) \/ s.depth = 0

\* skipTx: one field, or a group with everything in it (start to end).  Every
\* pass takes a byte or ends it, and nothing changes after the last.
Skip(b, i) ==
    LET after[k \in 1 .. Len(b) + 1] ==
          LET s == after[k - 1]
          IN  IF k = 1 THEN SkipOne(b, i, 0)
              ELSE IF Ended(s) THEN s ELSE SkipOne(b, s.next, s.depth)
    IN  after[CHOOSE k \in 1 .. Len(b) + 1 : Ended(after[k]) \/ k = Len(b) + 1]

-----------------------------------------------------------------------------
(* Writing. *)

\* math_bits.Len64
Len64(x) == CHOOSE n \in 0..Word : Pow2[n] > x /\ (n > 0 => Pow2[n - 1] <= x)

(* Faulty variant: a zero has no bits, so it takes no byte. *)
SovOfZero(x) == (Len64(x) + 6) \div 7

\* sovTx: the bytes a varint takes.
Sov(x) == (Len64(IF x = 0 THEN 1 ELSE x) + 6) \div 7

\* The bytes the loop of encodeVarintTx writes: seven bits of what is left of
\* v each, until fewer are left.
VarintBytes(v) ==
    LET left[k \in 1..Groups] == IF k = 1 THEN v ELSE left[k - 1] \div 128
        n == CHOOSE n \in 1..Groups : left[n] < 128 /\ \A k \in 1 .. n - 1 : left[k] >= 128
    IN  [k \in 1..n |-> IF k = n THEN left[k] ELSE 128 + (left[k] % 128)]

\* encodeVarintTx: the varint is written, from its first byte on, into the
\* Sov(v) bytes reserved before what the buffer already holds.
Overwritten(room, bytes) ==
    [k \in DOMAIN room |-> IF k <= Len(bytes) THEN bytes[k] ELSE room[k]]
EncodeVarint(v, rest) == Overwritten([k \in 1..Sov(v) |-> 0] \o rest, VarintBytes(v))

\* A length-delimited field (wire type 2) and its part of the size.
Put(num, payload) == <<num * 8 + 2>> \o EncodeVarint(Len(payload), payload)
FieldSize(l)      == 1 + l + Sov(l)

\* Marshal: a buffer of Size() bytes is filled from its end with what
\* MarshalToSizedBuffer writes, n bytes, and its first n bytes are returned.
\* Writing more than the buffer holds indexes below 0.
Marshalled(bytes, size) ==
    IF Len(bytes) > size THEN Failed("Panic")
    ELSE Done(SubSeq([k \in 1..(size - Len(bytes)) |-> 0] \o bytes, 1, Len(bytes)))
=============================================================================
