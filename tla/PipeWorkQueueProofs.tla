------------------------- MODULE PipeWorkQueueProofs -------------------------
(***************************************************************************)
(* What the circular PipeWorkQueue promises, for every size of queue and   *)
(* every width of size_t: the amounts it answers are exact on both sides   *)
(* of the point where a counter wraps, and a producer and a consumer that  *)
(* move no more than the amounts they were given keep the queue sound.     *)
(* The lemmas before the queue's are facts about % by a symbolic divisor.  *)
(***************************************************************************)
EXTENDS PipeWorkQueue, TLAPS

\* A number has one remainder: offsets in a buffer are unambiguous.
LEMMA QuotientUnique ==
  ASSUME NEW Q \in Nat \ {0}, NEW j \in Int, NEW k \in Int,
         NEW r \in 0..Q - 1, NEW s \in 0..Q - 1, Q * j + r = Q * k + s
  PROVE  r = s
<1>1. CASE j = k
  BY <1>1
<1>2. CASE j > k
  <2>1. Q * j >= Q * (k + 1)
    BY <1>2
  <2>2. Q * (k + 1) = Q * k + Q
    OBVIOUS
  <2> QED BY <2>1, <2>2
<1>3. CASE j < k
  <2>1. Q * k >= Q * (j + 1)
    BY <1>3
  <2>2. Q * (j + 1) = Q * j + Q
    OBVIOUS
  <2> QED BY <2>1, <2>2
<1> QED BY <1>1, <1>2, <1>3

\* The division equation the other facts about offsets rest on.
LEMMA Division ==
  ASSUME NEW Q \in Nat \ {0}, NEW n \in Int
  PROVE  /\ n % Q \in 0..Q - 1
         /\ n \div Q \in Int
         /\ n = Q * (n \div Q) + (n % Q)
OBVIOUS

\* A number written as a multiple and a rest has that rest as its remainder.
LEMMA Remainder ==
  ASSUME NEW Q \in Nat \ {0}, NEW n \in Int, NEW k \in Int, NEW r \in 0..Q - 1,
         n = Q * k + r
  PROVE  n % Q = r
BY Division, QuotientUnique

\* A counter that has not wrapped is its own value.
LEMMA SmallRemainder ==
  ASSUME NEW Q \in Nat \ {0}, NEW r \in 0..Q - 1
  PROVE  r % Q = r
<1>1. r = Q * 0 + r /\ 0 \in Int /\ r \in Int
  OBVIOUS
<1> QED BY <1>1, Remainder

\* A counter that has just wrapped lost one whole range.
LEMMA OnceAround ==
  ASSUME NEW Q \in Nat \ {0}, NEW n \in Nat, n - Q \in 0..Q - 1
  PROVE  n % Q = n - Q
<1>1. n = Q * 1 + (n - Q) /\ 1 \in Int /\ n \in Int
  OBVIOUS
<1> QED BY <1>1, Remainder

\* The offset of a counter moved by at most one buffer.
LEMMA ShiftedOffset ==
  ASSUME NEW Q \in Nat \ {0}, NEW c \in Nat, NEW d \in 0..Q
  PROVE  (c + d) % Q = IF (c % Q) + d < Q THEN (c % Q) + d ELSE (c % Q) + d - Q
<1>0. /\ c \div Q \in Int /\ c % Q \in 0..Q - 1
      /\ c = Q * (c \div Q) + (c % Q)
  BY Division
<1>1. PICK k \in Int, r \in 0..Q - 1 : r = c % Q /\ c = Q * k + r
  BY <1>0, Zenon
<1>2. CASE r + d < Q
  <2>1. c + d = Q * k + (r + d) /\ r + d \in 0..Q - 1 /\ c + d \in Int
    BY <1>1, <1>2
  <2>2. (c + d) % Q = r + d
    BY <2>1, Remainder
  <2> QED BY <1>1, <1>2, <2>2
<1>3. CASE ~(r + d < Q)
  <2>1. Q * (k + 1) = Q * k + Q
    OBVIOUS
  <2>2. c + d = Q * (k + 1) + (r + d - Q)
    BY <1>1, <2>1
  <2>3. r + d - Q \in 0..Q - 1 /\ k + 1 \in Int /\ c + d \in Int
    BY <1>1, <1>3
  <2>4. (c + d) % Q = r + d - Q
    BY <2>2, <2>3, Remainder
  <2> QED BY <1>1, <1>3, <2>4
<1> QED BY <1>2, <1>3

\* Moving a counter by the size of the queue leaves its offset alone (the bump).
LEMMA OneTurn ==
  ASSUME NEW Q \in Nat \ {0}, NEW n \in Nat
  PROVE  (n + Q) % Q = n % Q
<1>1. n % Q \in 0..Q - 1 /\ Q \in 0..Q
  BY Division
<1>2. (n + Q) % Q = IF (n % Q) + Q < Q THEN (n % Q) + Q ELSE (n % Q) + Q - Q
  BY <1>1, ShiftedOffset
<1> QED BY <1>1, <1>2

\* Losing whole turns of the buffer at the wrap leaves the offset alone.
LEMMA WrappedOffset ==
  ASSUME NEW Q \in Nat \ {0}, NEW K \in Nat, NEW n \in Nat
  PROVE  (n - Q * K) % Q = n % Q
<1> DEFINE k == n \div Q
           r == n % Q
<1>1. k \in Int /\ r \in 0..Q - 1 /\ n = Q * k + r
  BY Division
<1> HIDE DEF k, r
<1>2. n - Q * K = Q * (k - K) + r
  BY <1>1
<1>3. (n - Q * K) % Q = r
  BY <1>1, <1>2, Remainder
<1> QED BY <1>3 DEF r
-----------------------------------------------------------------------------
\* The number of bytes in the queue, whichever counter has wrapped.
Held(q) == (q.produced - q.consumed) % SizeMod

\* A circular queue in use: at least two queues' worth of values in size_t, and no
\* more bytes in the queue than it has room for.
Circular(q) ==
  /\ q = [flat |-> FALSE, size |-> q.size, produced |-> q.produced,
          consumed |-> q.consumed, buffer |-> q.buffer]
  /\ q.size \in Nat \ {0}
  /\ \E K \in Nat : K >= 2 /\ SizeMod = q.size * K
  /\ q.produced \in 0..SizeMod - 1 /\ q.consumed \in 0..SizeMod - 1
  /\ Held(q) <= q.size

\* The counters are the bytes held apart, across the wrap of the produced count.
LEMMA Positions ==
  ASSUME NEW Q \in Nat \ {0}, NEW W \in Nat, W >= 2 * Q,
         NEW p \in 0..W - 1, NEW c \in 0..W - 1, (p - c) % W <= Q
  PROVE  /\ (p - c) % W \in 0..Q
         /\ p >= c => p = c + ((p - c) % W)
         /\ p < c => /\ p = c + ((p - c) % W) - W
                     /\ (p - c) % W > 0
<1>1. W \in Nat \ {0} /\ p - c \in Int
  OBVIOUS
<1>2. CASE p >= c
  <2>1. p - c = W * 0 + (p - c) /\ p - c \in 0..W - 1 /\ 0 \in Int
    BY <1>2
  <2>2. (p - c) % W = p - c
    BY <1>1, <2>1, Remainder
  <2> QED BY <1>2, <2>2
<1>3. CASE p < c
  <2>1. p - c = W * (-1) + (p - c + W) /\ p - c + W \in 0..W - 1 /\ -1 \in Int
    BY <1>3
  <2>2. (p - c) % W = p - c + W
    BY <1>1, <2>1, Remainder
  <2> QED BY <1>3, <2>2
<1> QED BY <1>2, <1>3

\* Where the head of a circular queue is: the bytes held past the tail, around the
\* end of the buffer, whichever counter has wrapped.
LEMMA HeadOffset ==
  ASSUME NEW q, Circular(q)
  PROVE  LET p == q.produced
             c == q.consumed
             d == Held(q)
             Q == q.size
         IN  /\ Q \in Nat \ {0} /\ SizeMod \in Nat /\ SizeMod >= 2 * Q
             /\ p \in 0..SizeMod - 1 /\ c \in 0..SizeMod - 1 /\ q.flat = FALSE
             /\ d \in 0..Q
             /\ p >= c => p = c + d
             /\ p < c => p = c + d - SizeMod /\ d > 0
             /\ c % Q \in 0..Q - 1
             /\ p % Q = IF (c % Q) + d < Q THEN (c % Q) + d ELSE (c % Q) + d - Q
<1>1. PICK K \in Nat : K >= 2 /\ SizeMod = q.size * K
  BY DEF Circular
<1> DEFINE Q == q.size
           p == q.produced
           c == q.consumed
           d == Held(q)
<1>2. /\ Q \in Nat \ {0} /\ SizeMod \in Nat /\ SizeMod >= 2 * Q /\ q.flat = FALSE
      /\ p \in 0..SizeMod - 1 /\ c \in 0..SizeMod - 1 /\ (p - c) % SizeMod <= Q
  BY <1>1 DEF Circular, Held
<1>3. /\ d \in 0..Q
      /\ p >= c => p = c + d
      /\ p < c => p = c + d - SizeMod /\ d > 0
  BY <1>2, Positions DEF Held
<1>10. SizeMod = Q * K
  BY <1>1
<1> HIDE DEF Q, p, c, d
<1>4. c % Q \in 0..Q - 1 /\ p \in Nat /\ c \in Nat
  BY <1>2, Division
<1>5. p % Q = IF (c % Q) + d < Q THEN (c % Q) + d ELSE (c % Q) + d - Q
  <2>1. /\ c + d \in Nat
        /\ (c + d) % Q = IF (c % Q) + d < Q THEN (c % Q) + d ELSE (c % Q) + d - Q
    <3>1. Q \in Nat \ {0} /\ c \in Nat /\ d \in 0..Q /\ c + d \in Nat
      BY <1>2, <1>3, <1>4
    <3>2. (c + d) % Q = IF (c % Q) + d < Q THEN (c % Q) + d ELSE (c % Q) + d - Q
      BY <3>1, ShiftedOffset
    <3> QED BY <3>1, <3>2
  <2>2. ((c + d) - Q * K) % Q = (c + d) % Q
    BY <1>2, <2>1, WrappedOffset
  <2>3. p = c + d \/ p = (c + d) - Q * K
    BY <1>2, <1>3, <1>10
  <2> QED BY <2>1, <2>2, <2>3
<1> QED BY <1>2, <1>3, <1>4, <1>5 DEF Q, p, c, d

\* bytesAvailableToConsume is exact, for every size of queue and width of size_t,
\* on both sides of the wrap point: all the bytes held, as far as they lie in one
\* piece.  It is zero only for an empty queue and never passes the buffer's end.
THEOREM ConsumeExact ==
  ASSUME NEW q, Circular(q)
  PROVE  LET piece == q.size - (q.consumed % q.size)
         IN  bytesAvailableToConsume(q) = IF Held(q) < piece THEN Held(q) ELSE piece
<1>1. PICK K \in Nat : K >= 2 /\ SizeMod = q.size * K
  BY DEF Circular
<1> DEFINE Q == q.size
           p == q.produced
           c == q.consumed
           d == Held(q)
<1>2. /\ Q \in Nat \ {0} /\ SizeMod \in Nat /\ SizeMod >= 2 * Q /\ q.flat = FALSE
      /\ p \in 0..SizeMod - 1 /\ c \in 0..SizeMod - 1
  BY HeadOffset
<1>3. /\ d \in 0..Q
      /\ p >= c => p = c + d
      /\ p < c => p = c + d - SizeMod /\ d > 0
  BY HeadOffset
<1>4. c % Q \in 0..Q - 1 /\ p \in Nat /\ c \in Nat
  BY <1>2, HeadOffset
<1>5. p % Q = IF (c % Q) + d < Q THEN (c % Q) + d ELSE (c % Q) + d - Q
  BY HeadOffset
<1>10. SizeMod = Q * K
  BY <1>1
<1> HIDE DEF Q, p, c, d
<1>6. CASE p >= c
  <2>1. ~SpansWrap(q)
    BY <1>2, <1>6 DEF SpansWrap, p, c
  <2>2. p > c <=> d > 0
    BY <1>2, <1>3, <1>6
  <2> QED BY <1>2, <1>3, <1>4, <1>5, <2>1, <2>2
          DEF bytesAvailableToConsume, Offset, Q, p, c, d
<1>7. CASE p < c
  <2>1. /\ (p + Q) % SizeMod > (c + Q) % SizeMod
        /\ ((p + Q) % SizeMod) % Q = p % Q /\ ((c + Q) % SizeMod) % Q = c % Q
    <3>1. /\ p + Q \in 0..SizeMod - 1
          /\ c + Q - SizeMod \in 0..SizeMod - 1
          /\ SizeMod \in Nat \ {0} /\ c + Q \in Nat
      BY <1>2, <1>3, <1>7
    <3>2. (p + Q) % SizeMod = p + Q
      BY <3>1, SmallRemainder
    <3>3. (c + Q) % SizeMod = c + Q - SizeMod
      <4>1. PICK n \in Nat : n = c + Q
        BY <3>1
      <4>2. n - SizeMod \in 0..SizeMod - 1
        BY <1>2, <1>4, <3>1, <4>1
      <4>3. n % SizeMod = n - SizeMod
        BY <3>1, <4>2, OnceAround
      <4> QED BY <1>2, <1>4, <4>1, <4>3
    <3>4. (p + Q) % Q = p % Q /\ (c + Q) % Q = c % Q
      BY <1>2, <1>4, OneTurn
    <3>5. ((c + Q) - Q * K) % Q = (c + Q) % Q
      BY <1>2, <3>1, WrappedOffset
    <3>6. c + Q - SizeMod = (c + Q) - Q * K /\ p + Q > c + Q - SizeMod
      BY <1>2, <1>3, <1>7, <1>10
    <3> QED BY <3>2, <3>3, <3>4, <3>5, <3>6
  <2>2. SpansWrap(q)
    BY <1>7, <2>1 DEF SpansWrap, Bump, Q, p, c
  <2>3. d > 0
    BY <1>3, <1>7
  <2> QED BY <1>2, <1>3, <1>4, <1>5, <2>1, <2>2, <2>3
          DEF bytesAvailableToConsume, Offset, Bump, Q, p, c, d
<1> QED BY <1>2, <1>4, <1>6, <1>7

\* bytesAvailableToProduce is exact in the same way: all the room there is, as far
\* as it lies in one piece.  It is zero only for a full queue, so a producer that
\* fills what it is given never overwrites a byte that was not consumed.
THEOREM ProduceExact ==
  ASSUME NEW q, Circular(q)
  PROVE  LET piece == q.size - (q.produced % q.size)
             room  == q.size - Held(q)
         IN  bytesAvailableToProduce(q) = IF room < piece THEN room ELSE piece
<1> DEFINE Q == q.size
           p == q.produced
           c == q.consumed
           d == Held(q)
<1>1. /\ Q \in Nat \ {0} /\ SizeMod \in Nat /\ SizeMod >= 2 * Q /\ q.flat = FALSE
      /\ p \in 0..SizeMod - 1 /\ c \in 0..SizeMod - 1 /\ d \in 0..Q
      /\ p >= c => p = c + d
      /\ p < c => p = c + d - SizeMod /\ d > 0
      /\ c % Q \in 0..Q - 1
      /\ p % Q = IF (c % Q) + d < Q THEN (c % Q) + d ELSE (c % Q) + d - Q
  BY HeadOffset
<1> HIDE DEF Q, p, c, d
<1>2. p = c <=> d = 0
  BY <1>1
<1>3. bytesAvailableToProduce(q) =
        IF p % Q > c % Q THEN Q - (p % Q)
        ELSE IF p % Q < c % Q THEN (c % Q) - (p % Q)
        ELSE IF p = c THEN Q - (p % Q) ELSE 0
  BY <1>1, Zenon DEF bytesAvailableToProduce, Offset, Q, p, c
<1>4. PICK b \in 0..Q - 1 : b = c % Q
  BY <1>1
<1>5. PICK a \in Int : a = p % Q
  BY <1>1
<1>6. a = IF b + d < Q THEN b + d ELSE b + d - Q
  BY <1>1, <1>4, <1>5
<1>7. bytesAvailableToProduce(q) =
        IF a > b THEN Q - a
        ELSE IF a < b THEN b - a ELSE IF d = 0 THEN Q - a ELSE 0
  BY <1>2, <1>3, <1>4, <1>5
<1>8. Q \in Nat \ {0} /\ d \in 0..Q
  BY <1>1
<1>9. bytesAvailableToProduce(q) = IF Q - d < Q - a THEN Q - d ELSE Q - a
  BY <1>6, <1>7, <1>8
<1> QED BY <1>5, <1>9 DEF Q, p, d

\* What a counter moved within the queue does to the difference of the two.
LEMMA MovedCounters ==
  ASSUME NEW W \in Nat \ {0}, NEW p \in 0..W - 1, NEW c \in 0..W - 1,
         NEW n \in 0..W - 1
  PROVE  /\ (p + n) % W \in 0..W - 1
         /\ ((p - c) % W) + n < W
              => (((p + n) % W) - c) % W = ((p - c) % W) + n
         /\ n <= (p - c) % W
              => (p - ((c + n) % W)) % W = ((p - c) % W) - n
<1>1. \A a \in 0..W - 1 : (a + n) % W = IF a + n < W THEN a + n ELSE a + n - W
  <2>1. TAKE a \in 0..W - 1
  <2>2. CASE a + n < W
    BY <2>2, SmallRemainder
  <2>3. CASE ~(a + n < W)
    BY <2>3, OnceAround
  <2> QED BY <2>2, <2>3
<1>2. \A a, b \in 0..W - 1 : (a - b) % W = IF a >= b THEN a - b ELSE a - b + W
  <2>1. TAKE a \in 0..W - 1, b \in 0..W - 1
  <2>2. CASE a >= b
    BY <2>2, SmallRemainder
  <2>3. CASE ~(a >= b)
    <3>1. a - b = W * (-1) + (a - b + W) /\ a - b + W \in 0..W - 1 /\ -1 \in Int
      BY <2>3
    <3> QED BY <2>3, <3>1, Remainder
  <2> QED BY <2>2, <2>3
<1>3. PICK P \in 0..W - 1 : P = (p + n) % W
  BY <1>1
<1>4. PICK C \in 0..W - 1 : C = (c + n) % W
  BY <1>1
<1>5. /\ P = IF p + n < W THEN p + n ELSE p + n - W
      /\ C = IF c + n < W THEN c + n ELSE c + n - W
  BY <1>1, <1>3, <1>4
<1>6. /\ (p - c) % W = IF p >= c THEN p - c ELSE p - c + W
      /\ (P - c) % W = IF P >= c THEN P - c ELSE P - c + W
      /\ (p - C) % W = IF p >= C THEN p - C ELSE p - C + W
  BY <1>2
<1> QED BY <1>3, <1>4, <1>5, <1>6

\* A producer that keeps to the room there is and a consumer that keeps to the bytes
\* there are (what produceBytes and consumeBytes require of their callers) leave a
\* sound queue, with the difference moved by exactly the bytes they moved.
THEOREM QueueStaysSound ==
  ASSUME NEW q, Circular(q), NEW n \in Nat
  PROVE  /\ n <= q.size - Held(q) => /\ Circular(produceBytes(q, n))
                                     /\ Held(produceBytes(q, n)) = Held(q) + n
         /\ n <= Held(q) => /\ Circular(consumeBytes(q, n))
                            /\ Held(consumeBytes(q, n)) = Held(q) - n
<1> DEFINE W == SizeMod
           p == q.produced
           c == q.consumed
<1>1. /\ q.size \in Nat \ {0} /\ W \in Nat \ {0} /\ W >= 2 * q.size
      /\ p \in 0..W - 1 /\ c \in 0..W - 1 /\ Held(q) \in 0..q.size
      /\ Held(q) = (p - c) % W
  <2>1. /\ q.size \in Nat \ {0} /\ W \in Nat /\ W >= 2 * q.size
        /\ p \in 0..W - 1 /\ c \in 0..W - 1 /\ Held(q) \in 0..q.size
    BY HeadOffset
  <2>2. Held(q) = (p - c) % W
    BY DEF Held
  <2> QED BY <2>1, <2>2
<1>2. SUFFICES ASSUME n <= q.size
               PROVE  /\ n <= q.size - Held(q)
                          => /\ Circular(produceBytes(q, n))
                             /\ Held(produceBytes(q, n)) = Held(q) + n
                      /\ n <= Held(q)
                          => /\ Circular(consumeBytes(q, n))
                             /\ Held(consumeBytes(q, n)) = Held(q) - n
  BY <1>1
<1>3. n \in 0..W - 1
  BY <1>1, <1>2
<1>4. /\ (p + n) % W \in 0..W - 1 /\ (c + n) % W \in 0..W - 1
      /\ Held(q) + n < W => (((p + n) % W) - c) % W = Held(q) + n
      /\ n <= Held(q) => (p - ((c + n) % W)) % W = Held(q) - n
  <2> HIDE DEF p, c
  <2>1. /\ (p + n) % W \in 0..W - 1
        /\ ((p - c) % W) + n < W => (((p + n) % W) - c) % W = ((p - c) % W) + n
        /\ n <= (p - c) % W => (p - ((c + n) % W)) % W = ((p - c) % W) - n
    BY <1>1, <1>3, MovedCounters
  <2>2. (c + n) % W \in 0..W - 1
    BY <1>1, <1>3, MovedCounters
  <2> QED BY <1>1, <2>1, <2>2
<1>5. /\ produceBytes(q, n) = [flat |-> FALSE, size |-> q.size, produced |-> (p + n) % W,
                                consumed |-> c, buffer |-> q.buffer]
      /\ consumeBytes(q, n) = [flat |-> FALSE, size |-> q.size, produced |-> p,
                                consumed |-> (c + n) % W, buffer |-> q.buffer]
  <2>1. PICK f, s, a, b, m : /\ f = FALSE
                             /\ q = [flat |-> f, size |-> s, produced |-> a,
                                     consumed |-> b, buffer |-> m]
    BY Zenon DEF Circular
  <2>2. q.size = s /\ q.produced = a /\ q.consumed = b /\ q.buffer = m
    BY <2>1
  <2>3. \A x : /\ [q EXCEPT !.produced = x]
                    = [flat |-> f, size |-> s, produced |-> x, consumed |-> b, buffer |-> m]
               /\ [q EXCEPT !.consumed = x]
                    = [flat |-> f, size |-> s, produced |-> a, consumed |-> x, buffer |-> m]
    BY <2>1
  <2> QED BY Zenon, <2>1, <2>2, <2>3 DEF produceBytes, consumeBytes
<1>6. ASSUME n <= q.size - Held(q)
      PROVE  /\ Circular(produceBytes(q, n))
             /\ Held(produceBytes(q, n)) = Held(q) + n
  <2>1. Held(produceBytes(q, n)) = Held(q) + n
    BY <1>1, <1>4, <1>5, <1>6 DEF Held
  <2> QED BY <1>1, <1>4, <1>5, <1>6, <2>1 DEF Circular
<1>7. ASSUME n <= Held(q)
      PROVE  /\ Circular(consumeBytes(q, n))
             /\ Held(consumeBytes(q, n)) = Held(q) - n
  <2>1. Held(consumeBytes(q, n)) = Held(q) - n
    BY <1>4, <1>5, <1>7 DEF Held
  <2> QED BY <1>1, <1>4, <1>5, <1>7, <2>1 DEF Circular
<1> QED BY <1>6, <1>7
===============================================================================
