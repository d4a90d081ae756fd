------------------------------ MODULE PacketFifo ------------------------------
(***************************************************************************)
(* What a packet fifo of components/fifo promises its users, independent   *)
(* of the implementation (FifoInterface.h): many producers, one consumer,  *)
(* bounded room, and every accepted packet handed to the consumer once, in *)
(* the order in which the packets were accepted.  WrapFifo and LinearFifo  *)
(* are shown to implement it.                                              *)
(***************************************************************************)
EXTENDS Naturals, Sequences

CONSTANTS Procs,      \* processes that hold a fifo object and may produce
          Size        \* T_Size, the number of packets the fifo can hold

VARIABLES queue,      \* accepted packets the consumer has not read
          delivered   \* packets read by the consumer, oldest first

vars == <<queue, delivered>>

Init == queue = <<>> /\ delivered = <<>>

\* producePacket returns true: the packet joins the queue.  A packet is known
\* by its producer and by its place among all accepted packets.
Accept(p) ==
  /\ Len(queue) < Size
  /\ queue' = Append(queue, [src |-> p, seq |-> Len(delivered) + Len(queue)])
  /\ UNCHANGED delivered

\* consumePacket returns true: the oldest packet is read.
Deliver ==
  /\ queue # <<>>
  /\ delivered' = Append(delivered, Head(queue))
  /\ queue' = Tail(queue)

Next == (\E p \in Procs : Accept(p)) \/ Deliver

Spec == Init /\ [][Next]_vars
===============================================================================
