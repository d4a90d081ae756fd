---------------------------- MODULE PipeWorkQueue ----------------------------
(***************************************************************************)
(* PAMI::PipeWorkQueue of common/default: a byte queue between one         *)
(* producer and one consumer, kept by two counters that only grow.  Of the *)
(* three varieties the flat buffer (as many bytes as the operation moves,  *)
(* never reused) and the circular buffer (a power of two of bytes, reused) *)
(* are here; the non-contiguous one adds a datatype cursor and no control. *)
(*                                                                         *)
(* A queue is a record of its size, whether it is flat, the two counters   *)
(* and the buffer.  size_t is modelled with SizeMod values, of which the   *)
(* size of a circular queue is a divisor, as it is of 2^64.                *)
(***************************************************************************)
EXTENDS Integers

CONSTANT SizeMod      \* the number of values of size_t

\* configure() of a flat buffer: size bytes, of which bufinit are there already.
configure_flat(size, fill, bufinit) ==
  [flat |-> TRUE, size |-> size, produced |-> bufinit, consumed |-> 0, buffer |-> fill]

\* configure() of a circular buffer: empty, with counters of zero; base is what both
\* have reached when that many bytes have passed.
configure_circular(size, fill, base) ==
  [flat |-> FALSE, size |-> size, produced |-> base % SizeMod,
   consumed |-> base % SizeMod, buffer |-> fill]

\* po and co: the offsets of the counters in the buffer.
Offset(q, n) == IF q.flat THEN n ELSE n % q.size

\* Mutant: a full queue is taken for an empty one.
RoomWhenFull(q) ==
  LET po == Offset(q, q.produced)
      co == Offset(q, q.consumed)
  IN  IF q.flat THEN q.size - q.produced
      ELSE IF po < co THEN co - po ELSE q.size - po

\* bytesAvailableToProduce_impl: room up to the end of the buffer or the tail.
bytesAvailableToProduce(q) ==
  LET po == Offset(q, q.produced)
      co == Offset(q, q.consumed)
  IN  IF q.flat THEN q.size - q.produced
      ELSE IF po > co THEN q.size - po
      ELSE IF po < co THEN co - po
      ELSE IF q.produced = q.consumed THEN q.size - po ELSE 0

\* A counter moved on by the size of the queue.
Bump(q, n) == (n + q.size) % SizeMod

\* Mutant: the counters are taken as they are.
SpansNever(q) == FALSE

\* The produced count has wrapped and the consumed count has not: bumping both by
\* the size of the queue changes which is the larger.
SpansWrap(q) ==
  q.produced < q.consumed /\ Bump(q, q.produced) > Bump(q, q.consumed)

\* bytesAvailableToConsume_impl: bytes up to the head or the end of the buffer.
bytesAvailableToConsume(q) ==
  LET p  == IF SpansWrap(q) THEN Bump(q, q.produced) ELSE q.produced
      c  == IF SpansWrap(q) THEN Bump(q, q.consumed) ELSE q.consumed
      po == Offset(q, p)
      co == Offset(q, c)
  IN  IF q.flat THEN q.produced - q.consumed
      ELSE IF po > co THEN po - co
      ELSE IF po < co \/ p > c THEN q.size - co ELSE 0

\* bufferToConsume_impl, read for n bytes: the bytes at the consumer's offset.
Bytes(q, n) == [i \in 1..n |-> q.buffer[Offset(q, q.consumed) + i]]

\* bufferToProduce_impl, written with the bytes bs.
Fill(q, bs) ==
  LET po == Offset(q, q.produced)
  IN  [q EXCEPT !.buffer = [o \in DOMAIN q.buffer |->
         IF o - po \in DOMAIN bs THEN bs[o - po] ELSE q.buffer[o]]]

produceBytes(q, n) == [q EXCEPT !.produced = (@ + n) % SizeMod]

consumeBytes(q, n) == [q EXCEPT !.consumed = (@ + n) % SizeMod]
===============================================================================
