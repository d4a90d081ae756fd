------------------------------ MODULE LinearFifo ------------------------------
(***************************************************************************)
(* components/fifo/linear/LinearFifo.h: the fifo used where the atomic     *)
(* counter has no bound.  Producers take an index with fetch_and_inc and   *)
(* give up when it is past the last slot; the consumer clears the counter  *)
(* when it has read the last slot.  The slots are thus filled in rounds.   *)
(*                                                                         *)
(* One action is one access to shared memory, in the order the             *)
(* Memory::sync calls of the code enforce.                                 *)
(***************************************************************************)
EXTENDS Integers, Sequences

CONSTANTS Procs,        \* the processes of the node; each has a fifo object
          Owner,        \* the process that consumes from this fifo
          Size,         \* T_Size
          MaxPackets,   \* bound on the packets claimed in a behaviour
          MaxRefused    \* bound on how far the counter runs past T_Size

VARIABLES
  count,      \* _tail, the atomic counter in shared memory
  head,       \* *_head
  active,     \* _active[], one flag per slot
  packet,     \* _packet[], the contents of the slots
  pc,         \* where each producer is in producePacket
  tail,       \* its local variable index
  msg,        \* the packet its functor will write
  last,       \* _last_packet_produced of its fifo object
  cpc,        \* where the consumer is in consumePacket
  chead,      \* its local variable head
  sent,       \* history: the packets that got a slot, in claim order
  delivered   \* history: what packet.consume() read, in order

vars == <<count, head, active, packet, pc, tail, msg, last, cpc, chead,
          sent, delivered>>

producer == <<pc, tail, msg, last>>
history == <<sent, delivered>>

Slots == 0..(Size - 1)

Packet == [src : Procs, seq : Nat]
NoPacket == [src |-> Owner, seq |-> 0]

\* head & mask, for a T_Size that is a power of two
index(n) == n % Size

lastPacketProduced(p) == last[p]
lastPacketConsumed == head - 1

\* ShmemDevice::activePackets: packets of p may still be in the fifo.
activePackets(p) == lastPacketConsumed < lastPacketProduced(p)

\* After initialize_impl of every process.
Init ==
  /\ count = 0
  /\ head = 0
  /\ active = [s \in Slots |-> FALSE]
  /\ packet = [s \in Slots |-> NoPacket]
  /\ pc = [p \in Procs |-> "idle"]
  /\ tail = [p \in Procs |-> 0]
  /\ msg = [p \in Procs |-> NoPacket]
  /\ last = [p \in Procs |-> -1]
  /\ cpc = "idle"
  /\ chead = 0
  /\ sent = <<>>
  /\ delivered = <<>>

\* fetch_and_inc returns an index below T_Size: the slot is claimed.
Claim(p) ==
  /\ pc[p] = "idle"
  /\ count < Size
  /\ Len(sent) < MaxPackets
  /\ count' = count + 1
  /\ tail' = [tail EXCEPT ![p] = count]
  /\ msg' = [msg EXCEPT ![p] = [src |-> p, seq |-> Len(sent)]]
  /\ sent' = Append(sent, [src |-> p, seq |-> Len(sent)])
  /\ pc' = [pc EXCEPT ![p] = "produce"]
  /\ UNCHANGED <<head, active, packet, last, cpc, chead, delivered>>

\* fetch_and_inc returns T_Size or more: producePacket returns false, and the
\* counter has moved all the same.
Refuse(p) ==
  /\ pc[p] = "idle"
  /\ count >= Size
  /\ count < Size + MaxRefused
  /\ count' = count + 1
  /\ UNCHANGED <<head, active, packet, producer, cpc, chead, history>>

\* packet.produce (_packet[index])
Produce(p) ==
  /\ pc[p] = "produce"
  /\ packet' = [packet EXCEPT ![tail[p]] = msg[p]]
  /\ pc' = [pc EXCEPT ![p] = "activate"]
  /\ UNCHANGED <<count, head, active, tail, msg, last, cpc, chead, history>>

\* _active[index] = 1; _last_packet_produced = index
Activate(p) ==
  /\ pc[p] = "activate"
  /\ active' = [active EXCEPT ![tail[p]] = TRUE]
  /\ last' = [last EXCEPT ![p] = tail[p]]
  /\ pc' = [pc EXCEPT ![p] = "idle"]
  /\ UNCHANGED <<count, head, packet, tail, msg, cpc, chead, history>>

\* The flag at *_head is up: clear it.
ConsumeBegin ==
  /\ cpc = "idle"
  /\ active[index(head)]
  /\ active' = [active EXCEPT ![index(head)] = FALSE]
  /\ chead' = head
  /\ cpc' = "consume"
  /\ UNCHANGED <<count, head, packet, producer, history>>

\* packet.consume (_packet[index])
Consume ==
  /\ cpc = "consume"
  /\ delivered' = Append(delivered, packet[index(chead)])
  /\ cpc' = "head"
  /\ UNCHANGED <<count, head, active, packet, producer, chead, sent>>

\* *_head = head + 1
ConsumeHead ==
  /\ cpc = "head"
  /\ head' = chead + 1
  /\ cpc' = IF index(chead) = Size - 1 THEN "clear" ELSE "idle"
  /\ UNCHANGED <<count, active, packet, producer, chead, history>>

\* The last slot was read: _tail.clear() opens the next round.
ConsumeClear ==
  /\ cpc = "clear"
  /\ count' = 0
  /\ cpc' = "idle"
  /\ UNCHANGED <<head, active, packet, producer, chead, history>>

producePacket(p) == Claim(p) \/ Refuse(p) \/ Produce(p) \/ Activate(p)
consumePacket == ConsumeBegin \/ Consume \/ ConsumeHead \/ ConsumeClear

Next == (\E p \in Procs : producePacket(p)) \/ consumePacket

Spec == Init /\ [][Next]_vars
-------------------------------------------------------------------------------

\* ShmemDmaModel.h: when no packet is active the fence is complete, so a false
\* answer means that every packet of the process was consumed.
FenceSafe ==
  \A p \in Procs :
    (pc[p] = "idle" /\ ~activePackets(p)) =>
      \A i \in 1..Len(sent) : sent[i].src = p => i <= Len(delivered)
===============================================================================
