-------------------------- MODULE WorkQueueMessages --------------------------
(***************************************************************************)
(* The node-local collectives of components/devices/workqueue: a broadcast *)
(* a reduce and an allreduce that pass all the bytes through one           *)
(* SharedWorkQueue, and a broadcast and a reduce that hand the bytes round *)
(* a ring of circular PipeWorkQueues.  The peers are processes of a node;  *)
(* each posts the operations of a program in order, possibly ahead of the  *)
(* completion of earlier ones, and polls the message at the head of its    *)
(* queue (SubDeviceSuppt.h).  Nothing but the work queues synchronises     *)
(* them, unless the program has a barrier between its operations (meet): a *)
(* peer may be two operations ahead of another.                            *)
(*                                                                         *)
(* An advance routine reads the counters, moves bytes, then stores the new *)
(* counters; the other peers run between those steps.  A byte is the       *)
(* sequence of contributions combined into it, a contribution the peer,    *)
(* the operation and the position it comes from.  Elements are one byte.   *)
(***************************************************************************)
EXTENDS Integers, Sequences, FiniteSets, FiniteSetsExt, Functions

CONSTANTS NPeers,       \* _npeers, at least two processes on the node
          MaxProcs,     \* PAMI_MAX_PROC_PER_NODE, counters of either kind
          Programs,     \* records: kind, ops (root and len each), fresh, base, meet
          QSize, WorkSize, UnsignedMod, SizeMod,
          MaxPolls,     \* values the master's poll count of barrier_reset goes round
          RingSize      \* bytes of a queue of the ring (8192 in the code)

VARIABLES prog,     \* the program the node runs
          shared,   \* the SharedWorkQueue: producer, consumer, buffer
          ring,     \* ring[x]: the circular PipeWorkQueue _wq[x]
          peer      \* per process: see Idle

vars == <<prog, shared, ring, peer>>

Pipe == INSTANCE PipeWorkQueue
Shared == INSTANCE SharedWorkQueue

Peers == 0..NPeers - 1
Kind == prog.kind
OnRing == Kind \in {"ring_bcast", "ring_reduce"}
Op(k) == prog.ops[k]
Nothing == <<>>

\* The operation a peer works on, and its root.
Current(m) == Op(m.done + 1)
After(p) == (p + 1) % NPeers

\* The consumer number of a peer in a broadcast; the root has no use for one.
BcastConsumer(p, root) == IF p > root THEN p - 1 ELSE IF p = root THEN 0 ELSE p

\* setProducers and setConsumers for an operation with this root: by the
\* constructor for an allreduce, and at each post for a broadcast and a reduce.
Role(kind, p, root) ==
  CASE kind = "bcast" ->
         [producers |-> 1, producer |-> 0, consumers |-> NPeers - 1,
          consumer |-> BcastConsumer(p, root)]
    [] kind = "reduce" ->
         [producers |-> NPeers - 1, consumers |-> 1, consumer |-> 0,
          producer |-> IF p = root THEN 0 ELSE (p + NPeers - root - 1) % NPeers]
    [] OTHER ->
         [producers |-> NPeers, producer |-> p, consumers |-> NPeers, consumer |-> p]

\* The user's buffers of operation k, flat queues: a full source, an empty result.
Source(p, k) ==
  LET len == Op(k).len
  IN  Pipe!configure_flat(len, [i \in 1..len |-> << <<p, k, i>> >>], len)
Result(k) ==
  LET len == Op(k).len IN Pipe!configure_flat(len, [i \in 1..len |-> Nothing], 0)
Buffers(p, m) ==
  IF m.done < Len(prog.ops)
  THEN [m EXCEPT !.src = Source(p, m.done + 1), !.res = Result(m.done + 1)] ELSE m

\* A peer before its first post.  posted and done count operations; role is the
\* peer's own copy of the queue's producer and consumer numbers, src and res the
\* buffers of the current operation; pc, move and n say where in the advance
\* routine the peer is and how many bytes it has decided to move.
Idle(p) ==
  Buffers(p, [posted |-> 0, done |-> 0, role |-> Role("allreduce", p, 0),
              src |-> Nothing, res |-> Nothing, move |-> 1, n |-> 0,
              pc |-> IF prog.fresh THEN "reset" ELSE "idle"])

\* A fresh program starts with the constructors, in shared memory that holds
\* anything, here base in every counter; the others when base bytes have passed.
Init ==
  /\ prog \in Programs
  /\ shared = [producer |-> [k \in 0..MaxProcs - 1 |-> prog.base % SizeMod],
               consumer |-> [k \in 0..MaxProcs - 1 |-> prog.base % SizeMod],
               buffer   |-> [o \in 1..QSize |-> Nothing]]
  /\ ring = [x \in Peers |->
               Pipe!configure_circular(RingSize, [o \in 1..RingSize |-> Nothing], prog.base)]
  /\ peer = [p \in Peers |-> Idle(p)]
-----------------------------------------------------------------------------
\* barrier_reset, local_barriered_shmemzero of util/common.h: peer 0 zeroes the
\* header while the others are kept out.  The barrier counts in the last two
\* words of the header, which are the counters of the last two producers: c0 tells
\* the others that the master is there, then that it is done; c1 counts arrivals.
c0 == MaxProcs - 2
c1 == MaxProcs - 1

Goto(p, pc, n) == peer' = [peer EXCEPT ![p].pc = pc, ![p].n = n]

Add(k) == shared' = [shared EXCEPT !.producer[k] = (@ + 1) % SizeMod]

\* The master counts its polls in c0.  The count does not come round to zero; what
\* the others tell apart is whether it moved, so it goes round MaxPolls values.
Poll == shared' = [shared EXCEPT !.producer[c0] =
                     IF @ = prog.base + MaxPolls THEN prog.base + 1 ELSE @ + 1]

MasterEnters ==
  /\ peer[0].pc = "reset"
  /\ Goto(0, "count", (shared.producer[c1] + NPeers) % SizeMod)
  /\ shared' = [shared EXCEPT !.consumer = [k \in DOMAIN @ |-> 0],
                              !.producer = [k \in DOMAIN @ |-> IF k < c0 THEN 0 ELSE @[k]]]

MasterCounts == peer[0].pc = "count" /\ Goto(0, "await", peer[0].n) /\ Add(c1)

MasterAwaits ==
  /\ peer[0].pc = "await"
  /\ IF shared.producer[c1] # peer[0].n THEN Poll /\ UNCHANGED peer
     ELSE /\ shared' = [shared EXCEPT !.producer[c1] = 0]
          /\ Goto(0, "leave", 0)

MasterLeaves ==
  /\ peer[0].pc = "leave" /\ Goto(0, "idle", 0)
  /\ shared' = [shared EXCEPT !.producer[c0] = 0]

OtherEnters(p) ==
  peer[p].pc = "reset" /\ Goto(p, "await", shared.producer[c0]) /\ UNCHANGED shared

OtherCounts(p) ==
  peer[p].pc = "await" /\ shared.producer[c0] # peer[p].n /\ Goto(p, "leave", 0) /\ Add(c1)

OtherLeaves(p) ==
  peer[p].pc = "leave" /\ shared.producer[c0] = 0 /\ Goto(p, "idle", 0) /\ UNCHANGED shared

barrier_reset(p) ==
  /\ IF p = 0 THEN MasterEnters \/ MasterCounts \/ MasterAwaits \/ MasterLeaves
     ELSE OtherEnters(p) \/ OtherCounts(p) \/ OtherLeaves(p)
  /\ UNCHANGED <<prog, ring>>
-----------------------------------------------------------------------------
\* What one call of __advanceThread moves, in order.
Moves(p, m) ==
  LET root == Current(m).root
  IN  CASE Kind = "bcast"     -> IF p = root THEN <<"Q2Q">> ELSE <<"Q2Qr">>
        [] Kind = "reduce"    -> IF p = After(root) THEN <<"Q2Q">>
                                 ELSE IF p = root THEN <<"reduce2Q">>
                                 ELSE <<"reduceInPlace">>
        [] Kind = "allreduce" -> <<IF p = 0 THEN "Q2Q" ELSE "reduceInPlace", "Q2Qr">>
        [] OTHER              -> <<Kind>>

\* The ring's roles: whether a peer reads, and writes, a queue of the ring.  A
\* broadcast goes up the ring from the root, a reduce down it to the root.
Reads(p, m)  == LET root == Current(m).root
                IN IF Kind = "ring_bcast" THEN p # root ELSE After(p) # root \/ p = root
Writes(p, m) == LET root == Current(m).root
                IN IF Kind = "ring_bcast" THEN After(p) # root ELSE p # root
InQueue(p)   == IF Kind = "ring_bcast" THEN p ELSE After(p)
OutQueue(p)  == IF Kind = "ring_bcast" THEN After(p) ELSE p

\* The user's buffers a peer reads and writes in this operation.
UsesSource(p, m) == LET root == Current(m).root
                    IN CASE Kind \in {"bcast", "ring_bcast"} -> p = root [] OTHER -> TRUE
UsesResult(p, m) == LET root == Current(m).root
                    IN CASE Kind \in {"bcast", "ring_bcast"} -> p # root
                         [] Kind = "allreduce" -> TRUE
                         [] OTHER -> p = root

\* _bytesLeft of the ring messages.
BytesLeft(p, m) == IF UsesSource(p, m) THEN m.src.size - m.src.consumed
                   ELSE m.res.size - m.res.produced

\* The number of bytes a move may carry: the minimum over the queues involved.
Amount(p, m, move) ==
  LET fromSrc    == Pipe!bytesAvailableToConsume(m.src)
      toRes      == Pipe!bytesAvailableToProduce(m.res)
      toShared   == Shared!bytesAvailableToProduce(shared, m.role.producer, m.role.consumers)
      fromShared == Shared!bytesAvailableToConsume(shared, m.role.consumer, m.role.producers)
  IN  CASE move \in {"Q2Q", "reduceInPlace"} -> Min({fromSrc, toShared})
        [] move = "Q2Qr"     -> Min({fromShared, toRes})
        [] move = "reduce2Q" -> Min({fromSrc, fromShared, toRes})
        [] OTHER -> Min({BytesLeft(p, m)}
             \cup (IF UsesSource(p, m) THEN {fromSrc} ELSE {})
             \cup (IF UsesResult(p, m) THEN {toRes} ELSE {})
             \cup (IF Reads(p, m) THEN {Pipe!bytesAvailableToConsume(ring[InQueue(p)])} ELSE {})
             \cup (IF Writes(p, m) THEN {Pipe!bytesAvailableToProduce(ring[OutQueue(p)])} ELSE {}))

\* Whether the message is done: the root of a broadcast and the peers that feed a
\* reduce when their source is used up, whoever has a result when it is full.
Complete(p, m) ==
  CASE OnRing -> BytesLeft(p, m) = 0
    [] UsesResult(p, m) -> Pipe!bytesAvailableToProduce(m.res) = 0
    [] OTHER -> Pipe!bytesAvailableToConsume(m.src) = 0

\* The message leaves the queue, and the next one, if posted, is started at once.
Dequeue(p, m) ==
  Buffers(p, [m EXCEPT !.done = @ + 1, !.move = 1, !.n = 0,
                       !.pc = IF m.done + 1 < m.posted THEN "look" ELSE "idle"])

\* A move is over: the next move of the routine, or its final test.
EndMove(p, m) ==
  IF m.move < Len(Moves(p, m)) THEN [m EXCEPT !.move = @ + 1, !.n = 0, !.pc = "look"]
  ELSE IF Complete(p, m) THEN Dequeue(p, m)
  ELSE [m EXCEPT !.move = 1, !.n = 0, !.pc = "idle"]
-----------------------------------------------------------------------------
\* postMulticast_impl and postMulticombine_impl: the queue object gets the
\* producer and consumer numbers of the new operation, whatever it is in the
\* middle of, and a message that finds the queue empty is started at once.
Post(p) ==
  LET m == peer[p]
      k == m.posted + 1
  IN  /\ m.pc = "idle" /\ k <= Len(prog.ops)
      /\ prog.meet => \A q \in Peers : peer[q].done >= m.posted
      /\ peer' = [peer EXCEPT ![p] =
                    [m EXCEPT !.posted = k,
                              !.role = IF OnRing THEN @ ELSE Role(Kind, p, Op(k).root),
                              !.pc = IF m.done = m.posted THEN "look" ELSE @]]
      /\ UNCHANGED <<prog, shared, ring>>

\* The counters are read.  With nothing to move, a ring message gives up until
\* the next poll and the others go on with the routine.
Look(p) ==
  LET m == peer[p]
      n == Amount(p, m, Moves(p, m)[m.move])
  IN  /\ m.pc = "look" \/ (m.pc = "idle" /\ m.done < m.posted)
      /\ peer' = [peer EXCEPT ![p] =
                    IF n > 0 THEN [m EXCEPT !.n = n, !.pc = "copy"]
                    ELSE IF OnRing THEN [m EXCEPT !.pc = "idle"]
                    ELSE EndMove(p, m)]
      /\ UNCHANGED <<prog, shared, ring>>

Combine(as, bs) == [i \in DOMAIN as |-> as[i] \o bs[i]]

\* func: the bytes are copied or combined into the queue or the result.
CopyShared(p) ==
  LET m    == peer[p]
      move == Moves(p, m)[m.move]
      own  == Pipe!Bytes(m.src, m.n)
      mine == Shared!BytesAt(shared, shared.producer[m.role.producer], m.n)
      next == Shared!BytesAt(shared, shared.consumer[m.role.consumer], m.n)
  IN  /\ ~OnRing /\ m.pc = "copy"
      /\ shared' = CASE move = "Q2Q" -> Shared!FillAt(shared, m.role.producer, own)
                     [] move = "reduceInPlace" ->
                          Shared!FillAt(shared, m.role.producer, Combine(mine, own))
                     [] OTHER -> shared
      /\ peer' = [peer EXCEPT ![p] =
           [m EXCEPT !.pc = "update",
                     !.res = CASE move = "Q2Qr" -> Pipe!Fill(@, next)
                               [] move = "reduce2Q" -> Pipe!Fill(@, Combine(own, next))
                               [] OTHER -> @]]
      /\ UNCHANGED <<prog, ring>>

\* produceBytes and consumeBytes after the copy; one of them is on the shared queue.
UpdateShared(p) ==
  LET m    == peer[p]
      move == Moves(p, m)[m.move]
  IN  /\ ~OnRing /\ m.pc = "update"
      /\ shared' = IF move \in {"Q2Q", "reduceInPlace"}
                   THEN Shared!produceBytes(shared, m.role.producer, m.n)
                   ELSE Shared!consumeBytes(shared, m.role.consumer, m.n)
      /\ peer' = [peer EXCEPT ![p] = EndMove(p,
           [m EXCEPT !.src = IF move = "Q2Qr" THEN @ ELSE Pipe!consumeBytes(@, m.n),
                     !.res = IF move \in {"Q2Qr", "reduce2Q"}
                             THEN Pipe!produceBytes(@, m.n) ELSE @])]
      /\ UNCHANGED <<prog, ring>>

\* memcpy or _func of a ring message: from the source or the ring, or from both
\* combined, to the result and the ring.  The user's buffers are private, so
\* their counters move with the copy.
CopyRing(p) ==
  LET m   == peer[p]
      own == Pipe!Bytes(m.src, m.n)
      got == Pipe!Bytes(ring[InQueue(p)], m.n)
      bs  == IF ~Reads(p, m) THEN own
             ELSE IF UsesSource(p, m) THEN Combine(own, got) ELSE got
  IN  /\ OnRing /\ m.pc = "copy"
      /\ ring' = IF Writes(p, m) THEN [ring EXCEPT ![OutQueue(p)] = Pipe!Fill(@, bs)] ELSE ring
      /\ peer' = [peer EXCEPT ![p] =
           [m EXCEPT !.pc  = "update",
                     !.src = IF UsesSource(p, m) THEN Pipe!consumeBytes(@, m.n) ELSE @,
                     !.res = IF UsesResult(p, m) THEN Pipe!produceBytes(Pipe!Fill(@, bs), m.n)
                             ELSE @]]
      /\ UNCHANGED <<prog, shared>>

\* The two stores to counters of the ring.  A broadcast passes the bytes on before
\* it frees them, a reduce frees what it combined before it passes the result on.
PassOn(p, m) ==
  IF Writes(p, m) THEN [ring EXCEPT ![OutQueue(p)] = Pipe!produceBytes(@, m.n)] ELSE ring
Release(p, m) ==
  IF Reads(p, m) THEN [ring EXCEPT ![InQueue(p)] = Pipe!consumeBytes(@, m.n)] ELSE ring

FirstStore(p) ==
  /\ OnRing /\ peer[p].pc = "update"
  /\ ring' = IF Kind = "ring_bcast" THEN PassOn(p, peer[p]) ELSE Release(p, peer[p])
  /\ peer' = [peer EXCEPT ![p].pc = "store"]
  /\ UNCHANGED <<prog, shared>>

SecondStore(p) ==
  /\ OnRing /\ peer[p].pc = "store"
  /\ ring' = IF Kind = "ring_bcast" THEN Release(p, peer[p]) ELSE PassOn(p, peer[p])
  /\ peer' = [peer EXCEPT ![p] = EndMove(p, @)]
  /\ UNCHANGED <<prog, shared>>

Step(p) ==
  \/ Post(p) \/ Look(p)
  \/ CopyShared(p) \/ UpdateShared(p)
  \/ CopyRing(p) \/ FirstStore(p) \/ SecondStore(p)

Next == \E p \in Peers : barrier_reset(p) \/ Step(p)

Spec == Init /\ [][Next]_vars

\* Every process posts its program and polls its queue (GenericDevice advance).
\* The loops of barrier_reset look at a counter that the master may move between
\* two looks, but not in step with them: what a loop waits for again and again it
\* sees at last.
FairSpec ==
  Spec /\ \A p \in Peers : WF_vars(Step(p)) /\ SF_vars(barrier_reset(p))
-----------------------------------------------------------------------------
\* The contributions that belong in byte i of the result of operation k.
Contributions(k, i) ==
  IF Kind \in {"bcast", "ring_bcast"} THEN {<<Op(k).root, k, i>>}
  ELSE {<<q, k, i>> : q \in Peers}

\* Every byte a peer has in its result is the one that belongs there: the root's
\* byte of this operation for a broadcast, each peer's byte once for a reduce or
\* an allreduce.  It takes the counters, the reuse of the buffer and the peers
\* that are operations ahead (LocalBcastWQMessage.h, LocalReduceWQMessage.h,
\* LocalAllreduceWQMessage.h, WQRingBcastMsg.h, WQRingReduceMsg.h).
ResultsExact ==
  \A p \in Peers :
    LET m == peer[p]
    IN  m.done < m.posted =>
          \A i \in 1..m.res.produced :
            /\ Range(m.res.buffer[i]) = Contributions(m.done + 1, i)
            /\ Len(m.res.buffer[i]) = Cardinality(Contributions(m.done + 1, i))

\* "The number of bytes that may be produced is calculated by determining the
\* difference between the minimum number of bytes consumed by all consumers and
\* the number of bytes produced" (SharedWorkQueue.h:230): the bytes producer 0 is
\* about to write, counted from the slowest consumer, fit the buffer.
RoomIsReal ==
  \A p \in Peers :
    LET m == peer[p]
    IN  (~OnRing /\ m.pc \in {"copy", "update"} /\ Moves(p, m)[m.move] = "Q2Q") =>
          \A c \in 0..m.role.consumers - 1 :
            ((shared.producer[0] - shared.consumer[c]) % SizeMod) + m.n <= QSize

\* The bytes of the shared queue that a peer is about to copy from or to.
SharedBytes(p) ==
  LET m     == peer[p]
      start == IF Moves(p, m)[m.move] \in {"Q2Q", "reduceInPlace"}
               THEN shared.producer[m.role.producer] ELSE shared.consumer[m.role.consumer]
  IN  (start % QSize) + 1 .. (start % QSize) + m.n

Copying(p) == peer[p].pc = "copy"

\* "Return the maximum number of bytes that can be produced into this work queue.
\* Bytes must be produced into the memory location returned by bufferToProduce()"
\* (SharedWorkQueue.h:224), and the queue is a "fixed-size shared memory buffer"
\* (SharedWorkQueue.h:49): the bytes a peer is about to copy are bytes of the buffer.
StaysInBuffer ==
  \A p \in Peers : (~OnRing /\ Copying(p)) => SharedBytes(p) \subseteq 1..QSize

\* What a peer in the middle of a copy reads and writes: bytes of the shared buffer,
\* or of the queues of the ring.
Touched(p, writes) ==
  LET m == peer[p]
      moveWrites == Moves(p, m)[m.move] \in {"Q2Q", "reduceInPlace"}
      part(x, counter) ==
        LET o == Pipe!Offset(ring[x], counter) IN {x} \X (o + 1 .. o + m.n)
  IN  CASE ~OnRing -> IF writes = moveWrites THEN {0} \X SharedBytes(p) ELSE {}
        [] OnRing /\ writes  -> IF Writes(p, m)
                               THEN part(OutQueue(p), ring[OutQueue(p)].produced) ELSE {}
        [] OnRing /\ ~writes -> IF Reads(p, m)
                               THEN part(InQueue(p), ring[InQueue(p)].consumed) ELSE {}

\* A copy takes time, and the counters are all that keeps the peers apart: what one
\* peer is writing no other peer is reading or writing, whether it is a consumer that
\* is behind, the next producer of a reduction or the next peer of the ring, and in
\* whatever operation it is (WorkQueue.h:557, WQRingReduceMsg.h:110).
CopiesApart ==
  \A p, q \in Peers :
    (p # q /\ Copying(p) /\ Copying(q)) =>
      Touched(p, TRUE) \cap (Touched(q, TRUE) \cup Touched(q, FALSE)) = {}

AllDone == \A p \in Peers : peer[p].done = Len(prog.ops)

\* Every peer completes every operation of its program: nobody waits for room, or
\* for bytes, that never come.
EveryOperationDone == <>[]AllDone
===============================================================================
