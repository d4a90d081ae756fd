------------------------------- MODULE WrapFifo -------------------------------
(***************************************************************************)
(* components/fifo/wrap/WrapFifo.h: a ring of T_Size packets in shared     *)
(* memory.  Producers claim a ticket from a bounded counter, fill the slot *)
(* the ticket maps to and raise its "active" flag.  The single consumer    *)
(* polls the flag of the slot at *_head, reads the packet, advances *_head *)
(* and raises the bound of the counter.                                    *)
(*                                                                         *)
(* One action is one access to shared memory (or one run of accesses no    *)
(* other process can tell apart).  The Memory::sync calls of the code keep *)
(* these accesses in program order, which is the order modelled here.      *)
(***************************************************************************)
EXTENDS Integers, Sequences

CONSTANTS Procs,        \* the processes of the node; each has a fifo object
          Owner,        \* the process that consumes from this fifo
          Size,         \* T_Size
          Synchronized, \* do the processes meet between initialize() and use?
          MaxPackets    \* bound on the packets claimed in a behaviour

ASSUME ProcsAssumption == Owner \in Procs
ASSUME SizeAssumption == Size \in Nat \ {0}
ASSUME SynchronizedAssumption == Synchronized \in BOOLEAN
ASSUME MaxPacketsAssumption == MaxPackets \in Nat

VARIABLES
  ready,      \* processes whose initialize() has returned
  count,      \* the bounded counter in shared memory: its value
  upper,      \* and its upper bound
  head,       \* *_head
  active,     \* _active[], one flag per slot
  packet,     \* _packet[], the contents of the slots
  pc,         \* where each producer is in producePacket
  tail,       \* its local variable: the ticket it claimed
  last,       \* _last_packet_produced of its fifo object
  cpc,        \* where the consumer is in consumePacket
  chead,      \* its local variable head
  sent,       \* history: the packet of every ticket, in ticket order
  delivered   \* history: what packet.consume() read, in order

vars == <<ready, count, upper, head, active, packet, pc, tail, last, cpc,
          chead, sent, delivered>>

shared == <<count, upper, head, active, packet>>
history == <<sent, delivered>>

Slots == 0..(Size - 1)

\* A packet is known by its producer and its ticket.
Packet == [src : Procs, seq : Nat]
NoPacket == [src |-> Owner, seq |-> 0]

\* tail & mask, for a T_Size that is a power of two
index(n) == n % Size

lastPacketProduced(p) == last[p]
\* Mutant: the identifier of the packet that comes next.
lastPacketConsumedNext == head

lastPacketConsumed == head - 1

\* ShmemDevice::activePackets: packets of p may still be in the fifo.
activePackets(p) == lastPacketConsumed < lastPacketProduced(p)

Init ==
  /\ ready = {}
  /\ count = 0
  /\ upper = 0
  /\ head = 0
  /\ active = [s \in Slots |-> FALSE]
  /\ packet = [s \in Slots |-> NoPacket]
  /\ pc = [p \in Procs |-> "idle"]
  /\ tail = [p \in Procs |-> 0]
  /\ last = [p \in Procs |-> -1]
  /\ cpc = "idle"
  /\ chead = 0
  /\ sent = <<>>
  /\ delivered = <<>>

\* initialize_impl: the memory manager lets the first process run
\* packet_initialize, which raises the bound T_Size times; then every process
\* clears *_head.
Initialize(p) ==
  /\ p \notin ready
  /\ ready' = ready \cup {p}
  /\ upper' = IF ready = {} THEN Size ELSE upper
  /\ head' = 0
  /\ UNCHANGED <<count, active, packet, pc, tail, last, cpc, chead, history>>

\* A process uses the fifo once it has initialised it and, when the processes of
\* the node meet before the first of them returns from context creation, once all
\* have.  They meet in the node barriers of the message unit's factory, which runs
\* after the factory of shared memory; with the message unit switched off ("S" in
\* common/bgq/Global.h) they do not.
MayUse(p) == p \in ready /\ (Synchronized => ready = Procs)

\* fetch_and_inc_bounded: a ticket, unless the counter is at its bound.
Claim(p) ==
  /\ MayUse(p)
  /\ pc[p] = "idle"
  /\ count < upper
  /\ count < MaxPackets
  /\ tail' = [tail EXCEPT ![p] = count]
  /\ count' = count + 1
  /\ pc' = [pc EXCEPT ![p] = "produce"]
  /\ sent' = Append(sent, [src |-> p, seq |-> count])
  /\ UNCHANGED <<ready, upper, head, active, packet, last, cpc, chead, delivered>>

\* packet.produce (_packet[index])
Produce(p) ==
  /\ pc[p] = "produce"
  /\ packet' = [packet EXCEPT ![index(tail[p])] = sent[tail[p] + 1]]
  /\ pc' = [pc EXCEPT ![p] = "activate"]
  /\ UNCHANGED <<ready, count, upper, head, active, tail, last, cpc, chead, history>>

\* _active[index] = 1; _last_packet_produced = tail
Activate(p) ==
  /\ pc[p] = "activate"
  /\ active' = [active EXCEPT ![index(tail[p])] = TRUE]
  /\ last' = [last EXCEPT ![p] = tail[p]]
  /\ pc' = [pc EXCEPT ![p] = "idle"]
  /\ UNCHANGED <<ready, count, upper, head, packet, tail, cpc, chead, history>>

\* Mutant: the slot is given back before the packet is read.
ConsumeBeginEarlyBound ==
  /\ MayUse(Owner)
  /\ cpc = "idle"
  /\ active[index(head)]
  /\ active' = [active EXCEPT ![index(head)] = FALSE]
  /\ upper' = upper + 1
  /\ chead' = head
  /\ cpc' = "consume"
  /\ UNCHANGED <<ready, count, head, packet, pc, tail, last, history>>

\* The flag at *_head is up: clear it.
ConsumeBegin ==
  /\ MayUse(Owner)
  /\ cpc = "idle"
  /\ active[index(head)]
  /\ active' = [active EXCEPT ![index(head)] = FALSE]
  /\ chead' = head
  /\ cpc' = "consume"
  /\ UNCHANGED <<ready, count, upper, head, packet, pc, tail, last, history>>

\* Mutant: the packet of the next slot is read.
ConsumeNext ==
  /\ cpc = "consume"
  /\ delivered' = Append(delivered, packet[index(chead + 1)])
  /\ cpc' = "head"
  /\ UNCHANGED <<ready, shared, pc, tail, last, chead, sent>>

\* packet.consume (_packet[index])
Consume ==
  /\ cpc = "consume"
  /\ delivered' = Append(delivered, packet[index(chead)])
  /\ cpc' = "head"
  /\ UNCHANGED <<ready, shared, pc, tail, last, chead, sent>>

\* Mutant: *_head skips a slot.
ConsumeHeadSkip ==
  /\ cpc = "head"
  /\ head' = chead + 2
  /\ cpc' = "bound"
  /\ UNCHANGED <<ready, count, upper, active, packet, pc, tail, last, chead, history>>

\* *_head = head + 1
ConsumeHead ==
  /\ cpc = "head"
  /\ head' = chead + 1
  /\ cpc' = "bound"
  /\ UNCHANGED <<ready, count, upper, active, packet, pc, tail, last, chead, history>>

\* bound_upper_store_and_add: the slot may be claimed again.
ConsumeBound ==
  /\ cpc = "bound"
  /\ upper' = upper + 1
  /\ cpc' = "idle"
  /\ UNCHANGED <<ready, count, head, active, packet, pc, tail, last, chead, history>>

consumePacket == ConsumeBegin \/ Consume \/ ConsumeHead \/ ConsumeBound

producePacket(p) == Claim(p) \/ Produce(p) \/ Activate(p)

Next ==
  \/ \E p \in Procs : Initialize(p) \/ producePacket(p)
  \/ consumePacket

Spec == Init /\ [][Next]_vars
-------------------------------------------------------------------------------
\* The shared words, the flags and the locals of producePacket_impl and
\* consumePacket_impl keep their types.
TypeOK ==
  /\ ready \subseteq Procs
  /\ count \in Nat
  /\ upper \in Nat
  /\ head \in Nat
  /\ active \in [Slots -> BOOLEAN]
  /\ packet \in [Slots -> Packet]
  /\ pc \in [Procs -> {"idle", "produce", "activate"}]
  /\ tail \in [Procs -> Nat]
  /\ last \in [Procs -> Int]
  /\ cpc \in {"idle", "consume", "head", "bound"}
  /\ chead \in Nat
  /\ sent \in Seq(Packet)
  /\ delivered \in Seq(Packet)

Filling(p) == pc[p] \in {"produce", "activate"}

\* The slot a producer is filling belongs to it: no other producer fills the
\* same slot and the consumer is not reading it (producePacket_impl and
\* consumePacket_impl never touch one _packet[index] at a time).
SlotOwnership ==
  \A p \in Procs : Filling(p) =>
    /\ \A q \in Procs \ {p} : Filling(q) => index(tail[q]) # index(tail[p])
    /\ cpc = "consume" => index(chead) # index(tail[p])

\* What consume() has read is, packet for packet, what was claimed, in ticket
\* order: nothing is lost, duplicated, reordered or corrupted.
FifoOrder ==
  /\ Len(delivered) <= Len(sent)
  /\ \A i \in 1..Len(delivered) : delivered[i] = sent[i]

\* activePackets(p) may be false only when every packet of p was consumed; the
\* fence and the ordered dma operations of the shmem device rest on it.
FenceSafe ==
  \A p \in Procs :
    (pc[p] = "idle" /\ ~activePackets(p)) =>
      \A i \in 1..Len(sent) : sent[i].src = p => i <= Len(delivered)

\* FifoInterface.h: the identifier of the last packet consumed is a
\* monotonically increasing integer.
MonotoneLastConsumed == [][lastPacketConsumed' >= lastPacketConsumed]_vars

Abstract == INSTANCE PacketFifo
  WITH queue <- SubSeq(sent, Len(delivered) + 1, Len(sent))

\* The fifo implements the abstract packet fifo: a packet is accepted when its
\* ticket is claimed and delivered when consume() reads it.
ImplementsPacketFifo == Abstract!Spec

\* Every packet whose ticket was claimed is read by the consumer: no claimed
\* slot is skipped or waited for in vain by consumePacket_impl.
EveryPacketDelivered == <>[](Len(delivered) = Len(sent))

-------------------------------------------------------------------------------
(* The inductive invariant behind the safety properties. *)

\* The first ticket the consumer has not taken up.
Taken == IF cpc \in {"consume", "head"} THEN head + 1 ELSE head

\* Until all processes have initialised the fifo nothing has happened to it.
Pristine ==
  ready # Procs =>
    /\ head = 0 /\ count = 0 /\ cpc = "idle"
    /\ \A p \in Procs : pc[p] = "idle"
    /\ \A s \in Slots : ~active[s]

\* How the counter, its bound, *_head and the histories are related.
Bounds ==
  /\ ready = {} => upper = 0
  /\ ready # {} => upper = head + Size - (IF cpc = "bound" THEN 1 ELSE 0)
  /\ Taken <= count
  /\ count <= upper
  /\ Len(sent) = count
  /\ Len(delivered) = head + (IF cpc = "head" THEN 1 ELSE 0)
  /\ \A i \in 1..Len(sent) : sent[i].seq = i - 1

\* A producer in producePacket holds a ticket of its own that was not taken up.
Tickets ==
  \A p \in Procs : Filling(p) =>
    /\ tail[p] \in Taken..(count - 1)
    /\ sent[tail[p] + 1].src = p
    /\ ~active[index(tail[p])]
    /\ pc[p] = "activate" => packet[index(tail[p])] = sent[tail[p] + 1]
    /\ \A q \in Procs \ {p} : Filling(q) => tail[q] # tail[p]

\* A raised flag belongs to a ticket not taken up, whose packet is in place.
Flags ==
  /\ \A s \in Slots : active[s] =>
       \E t \in Taken..(count - 1) : index(t) = s
  /\ \A t \in Taken..(count - 1) : active[index(t)] =>
       packet[index(t)] = sent[t + 1]

\* The packet being read stays in place, and what was read is what was sent.
Reading ==
  /\ cpc \in {"consume", "head"} => chead = head
  /\ cpc = "consume" => packet[index(head)] = sent[head + 1]
  /\ \A i \in 1..Len(delivered) : delivered[i] = sent[i]

\* No ticket of a process is above the one it holds or finished last.
Lasts ==
  \A p \in Procs : \A i \in 1..Len(sent) :
    sent[i].src = p => i - 1 <= IF Filling(p) THEN tail[p] ELSE last[p]

\* While the processes are synchronised after initialize(), all of the above.
IInv == /\ Pristine /\ Bounds /\ Tickets
        /\ Flags /\ Reading /\ Lasts
===============================================================================
