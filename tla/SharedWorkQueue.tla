--------------------------- MODULE SharedWorkQueue ---------------------------
(***************************************************************************)
(* SharedWorkQueue of components/devices/workqueue: a circular buffer in   *)
(* shared memory with several producers, which work on the same bytes one  *)
(* after the other (producer 0 writes, producer k combines what producer   *)
(* k-1 left), and several consumers, which each read all the bytes.  Every *)
(* producer and every consumer has a counter of its own.                   *)
(*                                                                         *)
(* The counters are size_t, SizeMod values; the code computes with them as *)
(* unsigned, UnsignedMod values.  QSize divides both.                      *)
(***************************************************************************)
EXTENDS Integers, FiniteSetsExt

CONSTANTS QSize,        \* _qsize, bytes of the buffer, a power of two
          WorkSize,     \* _worksize, most bytes one step works on
          UnsignedMod,  \* number of values of unsigned
          SizeMod       \* number of values of size_t

Unsigned(n) == n % UnsignedMod

\* Mutant: the producer asks the first consumer only.
FirstConsumed(f, n) == Unsigned(f[0])

\* The loop over the n consumers, whose counters are f: the running minimum is an
\* unsigned, each counter it is compared with a size_t.
MinConsumed(f, n) ==
  LET min[i \in 0..n - 1] ==
        IF i = 0 THEN Unsigned(f[0]) ELSE Unsigned(Min({min[i - 1], f[i]}))
  IN  min[n - 1]

\* Room from the head of the queue to its tail or to the end of the buffer.
Room(produced, consumed) ==
  LET head == produced % QSize
      tail == consumed % QSize
  IN  IF head > tail THEN QSize - head
      ELSE IF head < tail THEN tail - head
      ELSE IF produced = consumed THEN QSize - head ELSE 0

\* bytesAvailableToProduce(producer): producer 0 may fill the room the consumers
\* have left; producer k may work on what producer k-1 has done.
bytesAvailableToProduce(q, k, consumers) ==
  Min({WorkSize,
       IF k = 0 THEN Room(Unsigned(q.producer[0]), MinConsumed(q.consumer, consumers))
       ELSE Unsigned(q.producer[k - 1] - q.producer[k])})

\* Mutant: the first producer's bytes are taken for finished.
FirstProduced(q, producers) == Unsigned(q.producer[0])

\* What is there for a consumer is what the last producer has done.
LastProduced(q, producers) == Unsigned(q.producer[producers - 1])

\* bytesAvailableToConsume(consumer), with the bump over the wrap point of a
\* PipeWorkQueue.
bytesAvailableToConsume(q, c, producers) ==
  LET pbytes == LastProduced(q, producers)
      cbytes == Unsigned(q.consumer[c])
      bump(n) == Unsigned(n + QSize)
      spans == pbytes < cbytes /\ bump(pbytes) > bump(cbytes)
      p     == IF spans THEN bump(pbytes) ELSE pbytes
      d     == IF spans THEN bump(cbytes) ELSE cbytes
      head  == p % QSize
      tail  == d % QSize
  IN  Min({WorkSize, IF head > tail THEN head - tail
                     ELSE IF head < tail \/ p > d THEN QSize - tail ELSE 0})

\* bufferToProduce(producer) and bufferToConsume(consumer): the n bytes there.  A
\* byte past the end of the buffer is not one of the queue's: <<>>.
BytesAt(q, counter, n) ==
  LET o == counter % QSize
  IN  [i \in 1..n |-> IF o + i <= QSize THEN q.buffer[o + i] ELSE <<>>]

\* n bytes written at bufferToProduce(producer).
FillAt(q, k, bs) ==
  LET head == q.producer[k] % QSize
  IN  [q EXCEPT !.buffer = [o \in DOMAIN q.buffer |->
         IF o - head \in DOMAIN bs THEN bs[o - head] ELSE q.buffer[o]]]

produceBytes(q, k, n) == [q EXCEPT !.producer[k] = (@ + n) % SizeMod]

consumeBytes(q, c, n) == [q EXCEPT !.consumer[c] = (@ + n) % SizeMod]
===============================================================================
