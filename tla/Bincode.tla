------------------------------ MODULE Bincode ------------------------------
(***************************************************************************)
(* The codec of Bincode.hpp: BincodeBuf's pack and unpack primitives for   *)
(* scalars, bytes and lists of integers, as operators over sequences of    *)
(* bytes.                                                                  *)
(*                                                                         *)
(* A packing buffer is [bytes, len, abort]: what was written, the buffer's *)
(* length, and whether an ALWAYS_ASSERT (ensureSizeOrPanic) aborted the    *)
(* process.  An unpacking buffer is [bytes, cursor, exc, ub, abort]: the   *)
(* input, the bytes consumed, whether a BincodeException was thrown,       *)
(* whether a memcpy read past the end, and whether an ALWAYS_ASSERT        *)
(* aborted.  A thrown exception or an abort ends the unpacking, so every   *)
(* operator leaves a failed buffer alone.                                  *)
(*                                                                         *)
(* A scalar is packed as its little-endian bytes.  Unpacked scalars stay   *)
(* bytes, since a u64 does not fit TLC's integers; the lengths and counts  *)
(* the code computes with (u8, u16) are turned back into numbers.          *)
(***************************************************************************)
EXTENDS Naturals, Sequences, SequencesExt

\* the little-endian bytes of x in a scalar of w bytes (packScalar's memcpy)
RECURSIVE LE(_, _)
LE(x, w) == IF w = 0 THEN <<>> ELSE <<x % 256>> \o LE(x \div 256, w - 1)

\* the number little-endian bytes stand for (a u8 or u16 length)
FromLE(s) == FoldRight(LAMBDA b, acc : b + 256 * acc, s, 0)

-----------------------------------------------------------------------------
(* Packing *)

\* BincodeBuf(buf, len) on a buffer to pack into
PackBuf(len) == [bytes |-> <<>>, len |-> len, abort |-> FALSE]

\* remaining(): end - cursor
Remaining(b) == b.len - Len(b.bytes)

\* ensureSizeOrPanic(Len(s)), then the memcpy of s at the cursor
Put(b, s) ==
  IF Remaining(b) < Len(s) THEN [b EXCEPT !.abort = TRUE]
  ELSE [b EXCEPT !.bytes = @ \o s]

\* packScalar<A>(x), sizeof(A) = w
PackScalar(b, x, w) == IF b.abort THEN b ELSE Put(b, LE(x, w))

\* packBytes(x): room for the length byte and the bytes, then both
PackBytes(b, s) ==
  IF b.abort THEN b
  ELSE IF Remaining(b) < 1 + Len(s) THEN [b EXCEPT !.abort = TRUE]
  ELSE [b EXCEPT !.bytes = @ \o LE(Len(s), 1) \o s]

\* packList(xs) of an integral type of w bytes: the u16 count, then one
\* memcpy of the elements
PackList(b, xs, w) ==
  IF b.abort THEN b
  ELSE IF Len(xs) >= 65536 THEN [b EXCEPT !.abort = TRUE]
  ELSE LET c == PackScalar(b, Len(xs), 2) IN
       IF xs = <<>> \/ c.abort THEN c
       ELSE Put(c, FoldLeft(LAMBDA acc, x : acc \o LE(x, w), <<>>, xs))

\* BincodeBytes::packedSize, BincodeList::packedSize (integral elements)
BytesPackedSize(s) == 1 + Len(s)
ListPackedSize(xs, w) == 2 + Len(xs) * w

-----------------------------------------------------------------------------
(* Unpacking; each operator returns [buf, val] *)

\* BincodeBuf(buf, len) on received bytes
UnpackBuf(s) ==
  [bytes |-> s, cursor |-> 0, exc |-> FALSE, ub |-> FALSE, abort |-> FALSE]

Left(b) == Len(b.bytes) - b.cursor
Failed(b) == b.exc \/ b.ub \/ b.abort
Unchanged(b) == [buf |-> b, val |-> <<>>]
Throw(b) == [buf |-> [b EXCEPT !.exc = TRUE], val |-> <<>>]

\* memcpy of n bytes at the cursor, then cursor += n; past the end of the
\* input the read is undefined behaviour
Take(b, n) ==
  IF b.cursor + n > Len(b.bytes) THEN [buf |-> [b EXCEPT !.ub = TRUE], val |-> <<>>]
  ELSE [buf |-> [b EXCEPT !.cursor = @ + n],
        val |-> SubSeq(b.bytes, b.cursor + 1, b.cursor + n)]

\* unpackScalar<A>(), sizeof(A) = w: too few bytes throw
UnpackScalar(b, w) ==
  IF Failed(b) THEN Unchanged(b)
  ELSE IF Left(b) < w THEN Throw(b)
  ELSE Take(b, w)

\* Mutant: the remaining bytes are not checked against the length
UnpackBytes_Unchecked(b) ==
  LET l == UnpackScalar(b, 1) IN
  IF Failed(l.buf) THEN l ELSE Take(l.buf, FromLE(l.val))

\* unpackBytes(x): the u8 length, then that many bytes
UnpackBytes(b) ==
  LET l == UnpackScalar(b, 1) IN
  IF Failed(l.buf) THEN l
  ELSE IF Left(l.buf) < FromLE(l.val) THEN Throw(l.buf)
  ELSE Take(l.buf, FromLE(l.val))

\* unpackList(xs) of an integral type of w bytes: the list is resized to
\* the u16 count before the remaining bytes are checked; val is the list of
\* the elements' bytes
UnpackList(b, w) ==
  LET c == UnpackScalar(b, 2)
      n == FromLE(c.val)
  IN IF Failed(c.buf) THEN c
     ELSE IF n = 0 THEN Unchanged(c.buf)
     ELSE IF Left(c.buf) < w * n THEN Throw(c.buf)
     ELSE LET t == Take(c.buf, w * n) IN
          [buf |-> t.buf,
           val |-> [i \in 1..n |-> SubSeq(t.val, (i - 1) * w + 1, i * w)]]

====
