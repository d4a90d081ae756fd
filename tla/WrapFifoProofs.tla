---------------------------- MODULE WrapFifoProofs ----------------------------
(***************************************************************************)
(* Proofs about WrapFifo for any set of processes, any ring size and any   *)
(* number of packets.  Type correctness needs no assumption; the safety    *)
(* properties are proved for processes that meet between initialize() and  *)
(* the first use of the fifo (Synchronized), by way of IInv.               *)
(***************************************************************************)
EXTENDS WrapFifo, TLAPS, SequenceTheorems

\* A ticket maps to a slot of the ring (tail & mask in producePacket_impl).
LEMMA IndexInSlots == ASSUME NEW t \in Nat PROVE index(t) \in Slots
  BY SizeAssumption DEF index, Slots

\* Two tickets of one window of T_Size tickets map to different slots.
LEMMA IndexInjective ==
  ASSUME NEW h \in Nat, NEW s \in h..(h + Size - 1), NEW t \in h..(h + Size - 1),
         index(s) = index(t)
  PROVE  s = t
<1>1. s = Size * (s \div Size) + (s % Size) /\ s \div Size \in Int
  BY SizeAssumption
<1>2. t = Size * (t \div Size) + (t % Size) /\ t \div Size \in Int
  BY SizeAssumption
<1>3. s - t = Size * ((s \div Size) - (t \div Size))
  BY <1>1, <1>2, SizeAssumption DEF index
<1>4. -Size < s - t /\ s - t < Size
  BY SizeAssumption
<1>. DEFINE d == (s \div Size) - (t \div Size)
<1>5. d \in Int /\ -Size < Size * d /\ Size * d < Size
  BY <1>1, <1>2, <1>3, <1>4
<1>. HIDE DEF d
<1>6. d = 0
  BY <1>5, SizeAssumption
<1>7. QED
  BY <1>3, <1>6, SizeAssumption DEF d
-------------------------------------------------------------------------------
\* A ticket in the hands of a producer was counted, so its packet is known;
\* with this TypeOK is inductive.
Claimed ==
  /\ Len(sent) = count
  /\ \A p \in Procs : Filling(p) => tail[p] < count

\* The initial state is well typed.
LEMMA TypeInit == Init => TypeOK /\ Claimed
  BY ProcsAssumption, SizeAssumption
     DEF Init, TypeOK, Claimed, Filling, Packet, NoPacket

\* Every step keeps the types.
LEMMA TypeStep == TypeOK /\ Claimed /\ [Next]_vars => TypeOK' /\ Claimed'
<1>. SUFFICES ASSUME TypeOK, Claimed, [Next]_vars PROVE TypeOK' /\ Claimed'
  OBVIOUS
<1>. USE DEF TypeOK, Claimed, Filling, shared, history
<1>1. ASSUME NEW p \in Procs, Initialize(p) PROVE TypeOK' /\ Claimed'
  BY <1>1, SizeAssumption DEF Initialize
<1>2. ASSUME NEW p \in Procs, Claim(p) PROVE TypeOK' /\ Claimed'
  <2>. DEFINE new == [src |-> p, seq |-> count]
  <2>1. new \in Packet
    BY DEF Packet
  <2>. HIDE DEF new
  <2>2. sent' = Append(sent, new)
    BY <1>2 DEF Claim, new
  <2>3. sent' \in Seq(Packet) /\ Len(sent') = Len(sent) + 1
    BY <2>1, <2>2
  <2>4. TypeOK'
    BY <1>2, <2>3 DEF Claim
  <2>5. Claimed'
    BY <1>2, <2>3 DEF Claim
  <2>6. QED
    BY <2>4, <2>5
<1>3. ASSUME NEW p \in Procs, Produce(p) PROVE TypeOK' /\ Claimed'
  <2>1. sent[tail[p] + 1] \in Packet
    BY <1>3 DEF Produce
  <2>2. QED
    BY <1>3, <2>1 DEF Produce
<1>4. ASSUME NEW p \in Procs, Activate(p) PROVE TypeOK' /\ Claimed'
  <2>1. active' \in [Slots -> BOOLEAN]
    BY <1>4, Zenon DEF Activate
  <2>2. QED
    BY <1>4, <2>1 DEF Activate
<1>5. CASE ConsumeBegin
  BY <1>5 DEF ConsumeBegin
<1>6. CASE Consume
  <2>1. packet[index(chead)] \in Packet
    BY IndexInSlots
  <2>2. QED
    BY <1>6, <2>1 DEF Consume
<1>7. CASE ConsumeHead
  BY <1>7 DEF ConsumeHead
<1>8. CASE ConsumeBound
  BY <1>8 DEF ConsumeBound
<1>9. CASE UNCHANGED vars
  BY <1>9 DEF vars
<1>10. QED
  BY <1>1, <1>2, <1>3, <1>4, <1>5, <1>6, <1>7, <1>8, <1>9
     DEF Next, producePacket, consumePacket

\* The variables of the fifo keep their types, whether or not the processes are
\* synchronised (the state of WrapFifo.h and its bounded counter).
THEOREM TypeCorrect == Spec => []TypeOK
  BY TypeInit, TypeStep, PTL DEF Spec
-------------------------------------------------------------------------------
(* IInv is inductive: one lemma per action. *)

\* The tickets between *_head and the counter are at most T_Size.
LEMMA Window ==
  ASSUME TypeOK, Bounds
  PROVE  \A t \in Taken..(count - 1) : t \in head..(head + Size - 1)
<1>1. CASE ready = {}
  BY <1>1, SizeAssumption DEF Bounds, Taken, TypeOK
<1>2. CASE ready # {}
  BY <1>2, SizeAssumption DEF Bounds, Taken, TypeOK
<1>3. QED
  BY <1>1, <1>2

\* So different tickets not taken up have different slots.
LEMMA DistinctSlots ==
  ASSUME TypeOK, Bounds,
         NEW s \in Taken..(count - 1), NEW t \in Taken..(count - 1),
         index(s) = index(t)
  PROVE  s = t
  BY Window, IndexInjective DEF TypeOK

\* The invariant holds before initialize().
LEMMA IInvInit == Init => IInv
  BY ProcsAssumption, SizeAssumption
     DEF Init, IInv, Pristine, Bounds, Tickets, Flags, Reading, Lasts,
         Taken, Filling

\* A process that initialises before anybody uses the fifo keeps the invariant.
LEMMA IInvInitialize ==
  ASSUME TypeOK, IInv, NEW p \in Procs, Initialize(p)
  PROVE  IInv'
<1>. USE DEF IInv, Initialize, history
<1>1. ready # Procs /\ head = 0 /\ head' = 0 /\ count = 0 /\ cpc = "idle"
  BY DEF Pristine
<1>2. Pristine'
  BY <1>1 DEF Pristine
<1>3. Bounds'
  BY <1>1, SizeAssumption DEF Bounds, Taken, TypeOK
<1>4. Tickets' /\ Flags' /\ Reading' /\ Lasts'
  BY <1>1 DEF Tickets, Flags, Reading, Lasts, Taken, Filling
<1>5. QED
  BY <1>2, <1>3, <1>4

\* fetch_and_inc_bounded keeps the invariant.
LEMMA IInvClaim ==
  ASSUME TypeOK, IInv, Synchronized, NEW p \in Procs, Claim(p)
  PROVE  IInv'
<1>. USE DEF IInv, Claim
<1>. DEFINE new == [src |-> p, seq |-> count]
<1>1. /\ Len(sent') = count + 1 /\ sent'[count + 1] = new
      /\ \A i \in 1..count : sent'[i] = sent[i]
  <2>1. sent \in Seq(Packet) /\ Len(sent) = count /\ count \in Nat
    BY DEF Bounds, TypeOK
  <2>2. new \in Packet /\ sent' = Append(sent, new)
    BY DEF Packet, TypeOK
  <2>. HIDE DEF new
  <2>3. QED
    BY ONLY <2>1, <2>2
<1>2. ready = Procs
  BY DEF MayUse
<1>3. Pristine'
  BY <1>2 DEF Pristine
<1>4. Taken' = Taken /\ count' - 1 = count
  BY DEF Taken, TypeOK
<1>5. Bounds'
  <2>1. /\ count < upper /\ count' = count + 1 /\ upper' = upper /\ ready' = ready
        /\ head' = head /\ cpc' = cpc /\ delivered' = delivered
    OBVIOUS
  <2>2. count \in Nat /\ upper \in Nat /\ Taken \in Nat
    BY DEF TypeOK, Taken
  <2>3. /\ ready = {} => upper = 0
        /\ ready # {} => upper = head + Size - (IF cpc = "bound" THEN 1 ELSE 0)
        /\ Taken <= count
        /\ Len(delivered) = head + (IF cpc = "head" THEN 1 ELSE 0)
        /\ \A i \in 1..count : sent[i].seq = i - 1
    BY DEF Bounds
  <2>4. \A i \in 1..Len(sent') : sent'[i].seq = i - 1
    <3>1. ASSUME NEW i \in 1..(count + 1) PROVE sent'[i].seq = i - 1
      <4>1. CASE i = count + 1
        <5>1. new.seq = count
          BY ONLY DEF new
        <5>2. QED
          BY ONLY <1>1, <2>2, <4>1, <5>1
      <4>2. CASE i \in 1..count
        BY ONLY <1>1, <2>3, <4>2
      <4>3. i = count + 1 \/ i \in 1..count
        BY <2>2
      <4>4. QED
        BY ONLY <4>1, <4>2, <4>3
    <3>2. QED
      BY ONLY <1>1, <3>1
  <2>5. Taken' <= count' /\ count' <= upper' /\ Len(sent') = count'
    BY ONLY <1>1, <1>4, <2>1, <2>2, <2>3
  <2>6. QED
    BY ONLY <2>1, <2>3, <2>4, <2>5 DEF Bounds
<1>6. ~active[index(count)]
  <2>1. SUFFICES ASSUME active[index(count)] PROVE FALSE
    OBVIOUS
  <2>2. PICK t \in Taken..(count - 1) : index(t) = index(count)
    BY <2>1, IndexInSlots DEF Flags, TypeOK
  <2>3. t \in head..(head + Size - 1) /\ count \in head..(head + Size - 1)
    BY <1>2, SizeAssumption, ProcsAssumption DEF Bounds, Taken, TypeOK
  <2>4. t = count
    BY <2>2, <2>3, IndexInjective DEF TypeOK
  <2>5. QED
    BY <2>4
<1>7. Tickets'
  <2>1. SUFFICES ASSUME NEW q \in Procs, Filling(q)'
                 PROVE  /\ tail'[q] \in Taken..count
                        /\ sent'[tail'[q] + 1].src = q
                        /\ ~active[index(tail'[q])]
                        /\ pc'[q] = "activate" =>
                             packet[index(tail'[q])] = sent'[tail'[q] + 1]
                        /\ \A r \in Procs \ {q} : Filling(r)' => tail'[r] # tail'[q]
    BY <1>4 DEF Tickets
  <2>2. CASE q = p
    BY <2>2, <1>1, <1>6 DEF Tickets, Filling, TypeOK, Bounds
  <2>3. CASE q # p
    <3>1. Filling(q) /\ tail'[q] = tail[q] /\ pc'[q] = pc[q]
      BY <2>1, <2>3 DEF Filling, TypeOK
    <3>2. tail[q] \in Taken..(count - 1)
      BY <3>1 DEF Tickets
    <3>3. tail[q] + 1 \in 1..count
      BY <3>2 DEF Taken, TypeOK
    <3>4. sent'[tail[q] + 1] = sent[tail[q] + 1]
      BY <3>3, <1>1
    <3>5. \A r \in Procs \ {q} : Filling(r)' => tail'[r] # tail[q]
      BY <3>1, <3>2 DEF Tickets, Filling, TypeOK
    <3>6. tail[q] \in Taken..count
      BY <3>2 DEF Taken, TypeOK
    <3>7. /\ sent[tail[q] + 1].src = q
          /\ ~active[index(tail[q])]
          /\ pc[q] = "activate" => packet[index(tail[q])] = sent[tail[q] + 1]
      BY <3>1 DEF Tickets
    <3>8. QED
      BY <3>1, <3>4, <3>5, <3>6, <3>7
  <2>4. QED
    BY <2>2, <2>3
<1>8. Flags'
  <2>1. \A s \in Slots : active[s] => \E t \in Taken..count : index(t) = s
    BY DEF Flags, TypeOK
  <2>2. \A t \in Taken..count : active[index(t)] => packet[index(t)] = sent'[t + 1]
    <3>1. SUFFICES ASSUME NEW t \in Taken..count, active[index(t)]
                   PROVE  packet[index(t)] = sent'[t + 1]
      OBVIOUS
    <3>9. t # count
      BY <1>6, <3>1
    <3>2. t \in Taken..(count - 1) /\ t + 1 \in 1..count
      BY <3>9 DEF Taken, TypeOK
    <3>3. QED
      BY <3>1, <3>2, <1>1 DEF Flags
  <2>3. QED
    BY <1>4, <2>1, <2>2 DEF Flags
<1>9. Reading'
  BY <1>1 DEF Reading, Bounds, Taken, TypeOK
<1>10. Lasts'
  <2>1. SUFFICES ASSUME NEW q \in Procs, NEW i \in 1..(count + 1), sent'[i].src = q
                 PROVE  i - 1 <= IF Filling(q)' THEN tail'[q] ELSE last[q]
    BY <1>1 DEF Lasts
  <2>2. CASE q = p
    BY <2>1, <2>2 DEF Filling, TypeOK
  <2>3. CASE q # p
    <3>1. i \in 1..count /\ sent[i].src = q
      BY <2>1, <2>3, <1>1 DEF TypeOK
    <3>2. QED
      BY <2>3, <3>1 DEF Lasts, Filling, TypeOK, Bounds
  <2>4. QED
    BY <2>2, <2>3
<1>11. QED
  BY <1>3, <1>5, <1>7, <1>8, <1>9, <1>10

\* Writing the packet keeps the invariant.
LEMMA IInvProduce ==
  ASSUME TypeOK, IInv, NEW p \in Procs, Produce(p)
  PROVE  IInv'
<1>. USE DEF IInv, Produce, history
<1>1. Filling(p) /\ tail[p] \in Taken..(count - 1) /\ ~active[index(tail[p])]
  BY DEF Tickets, Filling
<1>2. packet'[index(tail[p])] = sent[tail[p] + 1]
  BY IndexInSlots DEF TypeOK
<1>3. ASSUME NEW t \in Nat, index(t) # index(tail[p])
      PROVE  packet'[index(t)] = packet[index(t)]
  BY <1>3, IndexInSlots DEF TypeOK
<1>4. Taken' = Taken
  BY DEF Taken
<1>5. Pristine' /\ Bounds'
  BY <1>1, <1>4 DEF Pristine, Bounds, Filling, TypeOK
<1>6. Tickets'
  <2>1. SUFFICES ASSUME NEW q \in Procs, Filling(q)'
                 PROVE  /\ tail[q] \in Taken..(count - 1)
                        /\ sent[tail[q] + 1].src = q
                        /\ ~active[index(tail[q])]
                        /\ pc'[q] = "activate" =>
                             packet'[index(tail[q])] = sent[tail[q] + 1]
                        /\ \A r \in Procs \ {q} : Filling(r)' => tail[r] # tail[q]
    BY <1>4 DEF Tickets
  <2>2. \A r \in Procs : Filling(r)' => Filling(r)
    BY <1>1 DEF Filling, TypeOK
  <2>3. /\ tail[q] \in Taken..(count - 1)
        /\ sent[tail[q] + 1].src = q
        /\ ~active[index(tail[q])]
        /\ pc[q] = "activate" => packet[index(tail[q])] = sent[tail[q] + 1]
        /\ \A r \in Procs \ {q} : Filling(r)' => tail[r] # tail[q]
    BY <2>1, <2>2 DEF Tickets
  <2>4. CASE q = p
    BY <2>3, <2>4, <1>2
  <2>5. CASE q # p
    <3>1. pc'[q] = pc[q] /\ tail[q] # tail[p]
      BY <2>1, <2>2, <2>5, <1>1 DEF Tickets, TypeOK
    <3>2. index(tail[q]) # index(tail[p])
      BY <1>1, <2>3, <3>1, DistinctSlots
    <3>3. QED
      BY <2>3, <3>1, <3>2, <1>3 DEF TypeOK
  <2>6. QED
    BY <2>4, <2>5
<1>7. Flags'
  <2>1. ASSUME NEW t \in Taken..(count - 1), active[index(t)]
        PROVE  packet'[index(t)] = sent[t + 1]
    <3>1. index(t) # index(tail[p])
      BY <1>1, <2>1
    <3>2. QED
      BY <2>1, <3>1, <1>3 DEF Flags, Taken, TypeOK
  <2>2. QED
    BY <1>4, <2>1 DEF Flags
<1>8. Reading'
  <2>1. ASSUME cpc = "consume" PROVE packet'[index(head)] = sent[head + 1]
    <3>1. head # tail[p] /\ head \in head..(head + Size - 1)
      BY <1>1, <2>1, SizeAssumption DEF Taken, TypeOK
    <3>2. index(head) # index(tail[p])
      BY <1>1, <3>1, Window, IndexInjective DEF TypeOK
    <3>3. QED
      BY <2>1, <3>2, <1>3 DEF Reading, TypeOK
  <2>2. QED
    BY <2>1 DEF Reading
<1>9. Lasts'
  BY DEF Lasts, Filling, TypeOK
<1>10. QED
  BY <1>5, <1>6, <1>7, <1>8, <1>9

\* Raising the flag keeps the invariant.
LEMMA IInvActivate ==
  ASSUME TypeOK, IInv, NEW p \in Procs, Activate(p)
  PROVE  IInv'
<1>. USE DEF IInv, Activate, history
<1>1. Filling(p) /\ tail[p] \in Taken..(count - 1)
  BY DEF Tickets, Filling
<1>2. \A s \in Slots : s # index(tail[p]) => active'[s] = active[s]
  BY DEF TypeOK
<1>3. Taken' = Taken
  BY DEF Taken
<1>4. Pristine' /\ Bounds'
  BY <1>1, <1>3 DEF Pristine, Bounds, Filling, TypeOK
<1>5. Tickets'
  <2>1. SUFFICES ASSUME NEW q \in Procs, Filling(q)'
                 PROVE  /\ tail[q] \in Taken..(count - 1)
                        /\ sent[tail[q] + 1].src = q
                        /\ ~active'[index(tail[q])]
                        /\ pc'[q] = "activate" =>
                             packet[index(tail[q])] = sent[tail[q] + 1]
                        /\ \A r \in Procs \ {q} : Filling(r)' => tail[r] # tail[q]
    BY <1>3 DEF Tickets
  <2>2. q # p /\ pc'[q] = pc[q] /\ \A r \in Procs : Filling(r)' => Filling(r)
    BY <1>1, <2>1 DEF Filling, TypeOK
  <2>3. /\ tail[q] \in Taken..(count - 1)
        /\ sent[tail[q] + 1].src = q
        /\ ~active[index(tail[q])]
        /\ pc[q] = "activate" => packet[index(tail[q])] = sent[tail[q] + 1]
        /\ \A r \in Procs \ {q} : Filling(r) => tail[r] # tail[q]
    BY <2>1, <2>2 DEF Tickets
  <2>4. index(tail[q]) # index(tail[p])
    BY <1>1, <2>2, <2>3, DistinctSlots
  <2>5. ~active'[index(tail[q])]
    BY <1>2, <2>3, <2>4, IndexInSlots DEF TypeOK
  <2>6. QED
    BY <2>2, <2>3, <2>5
<1>6. Flags'
  <2>1. ASSUME NEW s \in Slots, active'[s]
        PROVE  \E t \in Taken..(count - 1) : index(t) = s
    BY <1>1, <1>2, <2>1 DEF Flags
  <2>2. ASSUME NEW t \in Taken..(count - 1), active'[index(t)]
        PROVE  packet[index(t)] = sent[t + 1]
    <3>1. CASE t = tail[p]
      BY <1>1, <3>1 DEF Tickets
    <3>2. CASE t # tail[p]
      <4>1. index(t) # index(tail[p])
        BY <1>1, <3>2, DistinctSlots
      <4>2. active[index(t)]
        BY <1>2, <2>2, <4>1, IndexInSlots DEF Taken, TypeOK
      <4>3. QED
        BY <4>2 DEF Flags
    <3>3. QED
      BY <3>1, <3>2
  <2>3. QED
    BY <1>3, <2>1, <2>2 DEF Flags
<1>7. Reading'
  BY DEF Reading
<1>8. Lasts'
  <2>1. SUFFICES ASSUME NEW q \in Procs, NEW i \in 1..Len(sent), sent[i].src = q
                 PROVE  i - 1 <= IF Filling(q)' THEN tail[q] ELSE last'[q]
    BY DEF Lasts
  <2>2. i - 1 <= IF Filling(q) THEN tail[q] ELSE last[q]
    BY <2>1 DEF Lasts
  <2>3. CASE q = p
    BY <1>1, <2>2, <2>3 DEF Filling, TypeOK
  <2>4. CASE q # p
    BY <2>2, <2>4 DEF Filling, TypeOK
  <2>5. QED
    BY <2>3, <2>4
<1>9. QED
  BY <1>4, <1>5, <1>6, <1>7, <1>8

\* Taking up the packet at *_head keeps the invariant.
LEMMA IInvConsumeBegin ==
  ASSUME TypeOK, IInv, Synchronized, ConsumeBegin
  PROVE  IInv'
<1>. USE DEF IInv, ConsumeBegin, history
<1>1. ready = Procs
  BY DEF MayUse
<1>2. Taken = head /\ Taken' = head + 1
  BY DEF Taken
<1>3. head < count
  <2>1. PICK t \in head..(count - 1) : index(t) = index(head)
    BY <1>2, IndexInSlots DEF Flags, TypeOK
  <2>2. QED
    BY <2>1 DEF TypeOK
<1>4. packet[index(head)] = sent[head + 1]
  BY <1>2, <1>3 DEF Flags, TypeOK
<1>5. \A s \in Slots : active'[s] => active[s]
  BY DEF TypeOK
<1>6. ~active'[index(head)]
  BY IndexInSlots DEF TypeOK
<1>7. Pristine'
  BY <1>1 DEF Pristine
<1>8. Bounds'
  BY <1>2, <1>3 DEF Bounds, TypeOK
<1>9. Tickets'
  <2>1. SUFFICES ASSUME NEW q \in Procs, Filling(q)
                 PROVE  /\ tail[q] \in (head + 1)..(count - 1)
                        /\ sent[tail[q] + 1].src = q
                        /\ ~active'[index(tail[q])]
                        /\ pc[q] = "activate" =>
                             packet[index(tail[q])] = sent[tail[q] + 1]
                        /\ \A r \in Procs \ {q} : Filling(r) => tail[r] # tail[q]
    BY <1>2 DEF Tickets, Filling
  <2>2. /\ tail[q] \in head..(count - 1)
        /\ sent[tail[q] + 1].src = q
        /\ ~active[index(tail[q])]
        /\ pc[q] = "activate" => packet[index(tail[q])] = sent[tail[q] + 1]
        /\ \A r \in Procs \ {q} : Filling(r) => tail[r] # tail[q]
    BY <1>2, <2>1 DEF Tickets
  <2>3. ~active'[index(tail[q])]
    BY <1>5, <2>2, IndexInSlots DEF TypeOK
  <2>4. tail[q] # head
    BY <2>2
  <2>5. tail[q] \in (head + 1)..(count - 1)
    BY <2>2, <2>4 DEF TypeOK
  <2>6. QED
    BY <2>2, <2>3, <2>5
<1>10. Flags'
  <2>1. ASSUME NEW s \in Slots, active'[s]
        PROVE  \E t \in (head + 1)..(count - 1) : index(t) = s
    <3>1. PICK t \in head..(count - 1) : index(t) = s
      BY <1>2, <1>5, <2>1 DEF Flags
    <3>2. t # head
      BY <1>6, <2>1, <3>1
    <3>3. t \in (head + 1)..(count - 1)
      BY <3>2 DEF TypeOK
    <3>4. QED
      BY <3>1, <3>3
  <2>2. ASSUME NEW t \in (head + 1)..(count - 1), active'[index(t)]
        PROVE  packet[index(t)] = sent[t + 1]
    <3>1. t \in head..(count - 1) /\ t \in Nat
      BY DEF TypeOK
    <3>2. active[index(t)]
      BY <1>5, <2>2, <3>1, IndexInSlots
    <3>3. QED
      BY <1>2, <3>1, <3>2 DEF Flags
  <2>3. QED
    BY <1>2, <2>1, <2>2 DEF Flags
<1>11. Reading'
  BY <1>4 DEF Reading
<1>12. Lasts'
  BY DEF Lasts, Filling
<1>13. QED
  BY <1>7, <1>8, <1>9, <1>10, <1>11, <1>12

\* Reading the packet and lowering its flag keeps the invariant.
LEMMA IInvConsume ==
  ASSUME TypeOK, IInv, Consume
  PROVE  IInv'
<1>. USE DEF IInv, Consume, shared
<1>1. packet[index(chead)] = sent[head + 1] /\ Len(delivered) = head
  BY DEF Reading, Bounds, TypeOK
<1>2. packet[index(chead)] \in Packet
  BY IndexInSlots DEF TypeOK
<1>3. /\ Len(delivered') = head + 1 /\ delivered'[head + 1] = sent[head + 1]
      /\ \A i \in 1..head : delivered'[i] = delivered[i]
  BY <1>1, <1>2 DEF TypeOK
<1>4. Taken' = Taken
  BY DEF Taken
<1>5. Pristine' /\ Bounds'
  BY <1>3, <1>4 DEF Pristine, Bounds, TypeOK
<1>6. Tickets' /\ Flags'
  BY <1>4 DEF Tickets, Flags, Filling
<1>7. Reading'
  BY <1>1, <1>3 DEF Reading, TypeOK
<1>8. Lasts'
  BY DEF Lasts, Filling
<1>9. QED
  BY <1>5, <1>6, <1>7, <1>8

\* Moving *_head keeps the invariant.
LEMMA IInvConsumeHead ==
  ASSUME TypeOK, IInv, ConsumeHead
  PROVE  IInv'
<1>. USE DEF IInv, ConsumeHead, history
<1>1. Taken' = Taken /\ head' = head + 1
  BY DEF Taken, Reading
<1>2. ready = Procs
  BY DEF Pristine
<1>3. Pristine' /\ Bounds'
  BY <1>1, <1>2, SizeAssumption DEF Pristine, Bounds, TypeOK
<1>4. Tickets' /\ Flags'
  BY <1>1 DEF Tickets, Flags, Filling
<1>5. Reading' /\ Lasts'
  BY DEF Reading, Lasts, Filling
<1>6. QED
  BY <1>3, <1>4, <1>5

\* Raising the bound keeps the invariant.
LEMMA IInvConsumeBound ==
  ASSUME TypeOK, IInv, ConsumeBound
  PROVE  IInv'
<1>. USE DEF IInv, ConsumeBound, history
<1>1. Taken' = Taken
  BY DEF Taken
<1>2. ready = Procs /\ ready # {}
  BY ProcsAssumption DEF Pristine
<1>3. Pristine' /\ Bounds'
  BY <1>1, <1>2, SizeAssumption DEF Pristine, Bounds, TypeOK
<1>4. Tickets' /\ Flags'
  BY <1>1 DEF Tickets, Flags, Filling
<1>5. Reading' /\ Lasts'
  BY DEF Reading, Lasts, Filling
<1>6. QED
  BY <1>3, <1>4, <1>5

\* Stuttering keeps the invariant.
LEMMA IInvStutter == IInv /\ UNCHANGED vars => IInv'
  BY DEF IInv, vars, Pristine, Bounds, Tickets, Flags, Reading, Lasts,
         Taken, Filling

\* Every step keeps the invariant.
LEMMA IInvStep ==
  ASSUME Synchronized
  PROVE  TypeOK /\ IInv /\ [Next]_vars => IInv'
  BY IInvInitialize, IInvClaim, IInvProduce, IInvActivate, IInvConsumeBegin,
     IInvConsume, IInvConsumeHead, IInvConsumeBound, IInvStutter
     DEF Next, producePacket, consumePacket

\* When the processes meet after initialize(), IInv holds in every state.
THEOREM Invariance == ASSUME Synchronized PROVE Spec => []IInv
  BY TypeCorrect, IInvInit, IInvStep, PTL DEF Spec
-------------------------------------------------------------------------------
(* What IInv gives. *)

\* No two producers fill one slot, and no producer fills the slot the consumer
\* is reading (producePacket_impl, consumePacket_impl), for any ring size.
THEOREM SlotsOwned == ASSUME Synchronized PROVE Spec => []SlotOwnership
<1>1. TypeOK /\ IInv => SlotOwnership
  <2>1. SUFFICES ASSUME TypeOK, IInv, NEW p \in Procs, Filling(p)
                 PROVE  /\ \A q \in Procs \ {p} : Filling(q) =>
                              index(tail[q]) # index(tail[p])
                        /\ cpc = "consume" => index(chead) # index(tail[p])
    BY DEF SlotOwnership
  <2>2. tail[p] \in Taken..(count - 1)
    BY <2>1 DEF IInv, Tickets
  <2>3. ASSUME NEW q \in Procs \ {p}, Filling(q)
        PROVE  index(tail[q]) # index(tail[p])
    <3>1. tail[q] \in Taken..(count - 1) /\ tail[q] # tail[p]
      BY <2>1, <2>3 DEF IInv, Tickets
    <3>2. QED
      BY <2>1, <2>2, <3>1, DistinctSlots DEF IInv
  <2>4. ASSUME cpc = "consume" PROVE index(chead) # index(tail[p])
    <3>1. chead = head /\ head # tail[p] /\ head \in head..(head + Size - 1)
      BY <2>1, <2>2, <2>4, SizeAssumption DEF Taken, TypeOK, IInv, Reading
    <3>2. QED
      BY <2>1, <2>2, <3>1, Window, IndexInjective DEF IInv, TypeOK
  <2>5. QED
    BY <2>3, <2>4
<1>2. QED
  BY <1>1, TypeCorrect, Invariance, PTL

\* The consumer reads exactly what was claimed, in ticket order.
THEOREM DeliveredInOrder == ASSUME Synchronized PROVE Spec => []FifoOrder
<1>1. TypeOK /\ IInv => FifoOrder
  BY DEF TypeOK, IInv, Bounds, Reading, FifoOrder, Taken
<1>2. QED
  BY <1>1, TypeCorrect, Invariance, PTL

\* The fence test of the shmem device, activePackets, is never false while a
\* packet of the process is unread.
THEOREM FenceIsSafe == ASSUME Synchronized PROVE Spec => []FenceSafe
<1>1. TypeOK /\ IInv => FenceSafe
  <2>1. SUFFICES ASSUME TypeOK, IInv, NEW p \in Procs, pc[p] = "idle",
                        ~activePackets(p), NEW i \in 1..Len(sent), sent[i].src = p
                 PROVE  i <= Len(delivered)
    BY DEF FenceSafe
  <2>2. last[p] <= head - 1
    BY <2>1 DEF activePackets, lastPacketConsumed, lastPacketProduced, TypeOK
  <2>3. i - 1 <= last[p]
    BY <2>1 DEF IInv, Lasts, Filling
  <2>4. head <= Len(delivered)
    BY <2>1 DEF IInv, Bounds, TypeOK
  <2>5. QED
    BY <2>1, <2>2, <2>3, <2>4 DEF TypeOK
<1>2. QED
  BY <1>1, TypeCorrect, Invariance, PTL

\* The identifier of the last packet consumed never decreases: *_head is only
\* cleared while nothing has been consumed (FifoInterface.h, WrapFifo.h).
THEOREM ConsumedIsMonotone ==
  ASSUME Synchronized PROVE Spec => MonotoneLastConsumed
<1>1. TypeOK /\ IInv /\ [Next]_vars =>
        [lastPacketConsumed' >= lastPacketConsumed]_vars
  <2>1. SUFFICES ASSUME TypeOK, IInv, Next PROVE head' \in Nat /\ head' >= head
    BY DEF lastPacketConsumed, TypeOK
  <2>2. ASSUME NEW p \in Procs, Initialize(p) PROVE head' \in Nat /\ head' >= head
    BY <2>1, <2>2 DEF IInv, Pristine, Initialize
  <2>3. ASSUME NEW p \in Procs, producePacket(p) PROVE head' \in Nat /\ head' >= head
    BY <2>1, <2>3 DEF producePacket, Claim, Produce, Activate, TypeOK
  <2>4. ASSUME consumePacket PROVE head' \in Nat /\ head' >= head
    BY <2>1, <2>4 DEF consumePacket, ConsumeBegin, Consume, ConsumeHead,
                      ConsumeBound, TypeOK, shared, IInv, Reading
  <2>5. QED
    BY <2>1, <2>2, <2>3, <2>4 DEF Next
<1>2. QED
  BY <1>1, TypeCorrect, Invariance, PTL DEF Spec, MonotoneLastConsumed
-------------------------------------------------------------------------------
(* The fifo implements the abstract packet fifo. *)

\* What is left of a sequence after its first n elements.
LEMMA Suffix ==
  ASSUME NEW S, NEW s \in Seq(S), NEW n \in 0..Len(s)
  PROVE  /\ SubSeq(s, n + 1, Len(s)) \in Seq(S)
         /\ Len(SubSeq(s, n + 1, Len(s))) = Len(s) - n
         /\ \A i \in 1..(Len(s) - n) : SubSeq(s, n + 1, Len(s))[i] = s[n + i]
<1>1. Len(s) \in Nat /\ \A i \in (n + 1)..Len(s) : s[i] \in S
  OBVIOUS
<1>2. /\ SubSeq(s, n + 1, Len(s)) \in Seq(S)
      /\ Len(SubSeq(s, n + 1, Len(s))) =
           IF n + 1 <= Len(s) THEN Len(s) - (n + 1) + 1 ELSE 0
      /\ \A i \in 1..(Len(s) - (n + 1) + 1) :
           SubSeq(s, n + 1, Len(s))[i] = s[(n + 1) + i - 1]
  BY <1>1, SubSeqProperties
<1>3. Len(s) - (n + 1) + 1 = Len(s) - n
  BY <1>1
<1>4. Len(SubSeq(s, n + 1, Len(s))) = Len(s) - n
  BY <1>1, <1>2
<1>5. ASSUME NEW i \in 1..(Len(s) - n)
      PROVE  SubSeq(s, n + 1, Len(s))[i] = s[n + i]
  <2>1. (n + 1) + i - 1 = n + i
    BY <1>1
  <2>2. QED
    BY <1>2, <1>3, <2>1
<1>6. QED
  BY <1>2, <1>4, <1>5

\* The unread suffix of a sequence that was appended to.
LEMMA SuffixOfAppend ==
  ASSUME NEW S, NEW s \in Seq(S), NEW n \in 0..Len(s), NEW e \in S
  PROVE  SubSeq(Append(s, e), n + 1, Len(Append(s, e)))
           = Append(SubSeq(s, n + 1, Len(s)), e)
<1>. DEFINE a == Append(s, e)
            l == SubSeq(a, n + 1, Len(a))
            q == SubSeq(s, n + 1, Len(s))
            r == Append(q, e)
<1>1. /\ a \in Seq(S) /\ Len(a) = Len(s) + 1 /\ a[Len(s) + 1] = e
      /\ \A i \in 1..Len(s) : a[i] = s[i]
  OBVIOUS
<1>2. Len(s) \in Nat /\ n \in 0..Len(a)
  BY <1>1
<1>. HIDE DEF a
<1>3. /\ l \in Seq(S) /\ Len(l) = Len(s) + 1 - n
      /\ \A i \in 1..(Len(s) + 1 - n) : l[i] = a[n + i]
  BY <1>1, <1>2, Suffix
<1>4. /\ q \in Seq(S) /\ Len(q) = Len(s) - n
      /\ \A i \in 1..(Len(s) - n) : q[i] = s[n + i]
  BY Suffix
<1>. HIDE DEF l, q
<1>5. /\ r \in Seq(S) /\ Len(r) = Len(q) + 1 /\ r[Len(q) + 1] = e
      /\ \A i \in 1..Len(q) : r[i] = q[i]
  BY <1>4
<1>. HIDE DEF r
<1>6. ASSUME NEW i \in 1..Len(l) PROVE l[i] = r[i]
  <2>1. CASE i = Len(s) + 1 - n
    <3>1. l[i] = a[n + i] /\ n + i = Len(s) + 1
      BY <1>2, <1>3, <2>1
    <3>2. i = Len(q) + 1
      BY <1>2, <1>4, <2>1
    <3>3. QED
      BY <1>1, <1>5, <3>1, <3>2
  <2>2. CASE i \in 1..(Len(s) - n)
    <3>1. l[i] = a[n + i] /\ n + i \in 1..Len(s)
      BY <1>2, <1>3, <2>2
    <3>2. QED
      BY <1>1, <1>4, <1>5, <2>2, <3>1
  <2>3. i \in 1..(Len(s) + 1 - n)
    BY <1>3
  <2>4. i = Len(s) + 1 - n \/ i \in 1..(Len(s) - n)
    BY <1>2, <2>3
  <2>5. QED
    BY <2>1, <2>2, <2>4
<1>7. Len(l) = Len(r)
  BY <1>2, <1>3, <1>4, <1>5
<1>8. l = r
  BY <1>3, <1>5, <1>6, <1>7, SeqEqual
<1>9. QED
  BY <1>8 DEF l, r, q, a

\* The queue of the abstract fifo: the claimed packets not yet read.
Queue == SubSeq(sent, Len(delivered) + 1, Len(sent))

\* The length of the abstract queue, from the invariant.
LEMMA QueueLength ==
  ASSUME TypeOK, IInv
  PROVE  /\ Len(delivered) \in 0..Len(sent)
         /\ Len(Queue) = count - Len(delivered)
<1>1. Len(delivered) \in 0..Len(sent) /\ Len(sent) = count
  BY SizeAssumption DEF TypeOK, IInv, Bounds, Taken
<1>2. QED
  BY <1>1, Suffix DEF Queue, TypeOK

\* Claiming a ticket is the abstract fifo's Accept.
LEMMA ClaimIsAccept ==
  ASSUME TypeOK, IInv, Synchronized, NEW p \in Procs, Claim(p)
  PROVE  Abstract!Accept(p)
<1>. DEFINE new == [src |-> p, seq |-> count]
<1>1. Len(Queue) < Size /\ Len(delivered) + Len(Queue) = count
  <2>1. ready # {} /\ count < upper
    BY ProcsAssumption DEF Claim, MayUse
  <2>2. /\ upper = head + Size - (IF cpc = "bound" THEN 1 ELSE 0)
        /\ Len(delivered) = head + (IF cpc = "head" THEN 1 ELSE 0)
    BY <2>1 DEF IInv, Bounds
  <2>3. head \in Nat /\ count \in Nat /\ Len(Queue) = count - Len(delivered)
    BY QueueLength DEF TypeOK
  <2>4. QED
    BY ONLY <2>1, <2>2, <2>3, SizeAssumption
<1>2. sent' = Append(sent, new) /\ delivered' = delivered /\ new \in Packet
  BY DEF Claim, TypeOK, Packet
<1>3. Queue' = Append(Queue, new)
  <2>1. sent \in Seq(Packet) /\ Len(delivered) \in 0..Len(sent)
    BY QueueLength DEF TypeOK
  <2>2. new \in Packet
    BY <1>2
  <2>. HIDE DEF new
  <2>3. SubSeq(Append(sent, new), Len(delivered) + 1, Len(Append(sent, new)))
          = Append(SubSeq(sent, Len(delivered) + 1, Len(sent)), new)
    BY ONLY <2>1, <2>2, SuffixOfAppend
  <2>4. Queue' = SubSeq(Append(sent, new), Len(delivered) + 1, Len(Append(sent, new)))
    BY ONLY <1>2 DEF Queue
  <2>5. QED
    BY ONLY <2>3, <2>4 DEF Queue
<1>4. QED
  BY <1>1, <1>2, <1>3 DEF Abstract!Accept, Queue

\* Reading a packet is the abstract fifo's Deliver.
LEMMA ConsumeIsDeliver ==
  ASSUME TypeOK, IInv, Consume
  PROVE  Abstract!Deliver
<1>1. /\ Len(delivered) = head /\ head < count /\ Len(sent) = count
      /\ packet[index(chead)] = sent[head + 1]
  BY DEF Consume, IInv, Bounds, Reading, Taken, TypeOK
<1>2. packet[index(chead)] \in Packet
  BY IndexInSlots DEF TypeOK
<1>3. Len(delivered') = head + 1 /\ sent' = sent
  BY <1>1, <1>2 DEF Consume, TypeOK
<1>4. /\ sent \in Seq(Packet) /\ head + 1 \in 1..Len(sent)
      /\ Len(sent) \in (head + 1)..Len(sent)
  BY <1>1 DEF TypeOK
<1>5. /\ Head(SubSeq(sent, head + 1, Len(sent))) = sent[head + 1]
      /\ Tail(SubSeq(sent, head + 1, Len(sent)))
           = SubSeq(sent, (head + 1) + 1, Len(sent))
  BY <1>4, HeadTailOfSubSeq
<1>6. Head(Queue) = sent[head + 1] /\ Tail(Queue) = Queue'
  BY <1>1, <1>3, <1>5 DEF Queue
<1>7. Queue # <<>>
  BY <1>1, QueueLength DEF TypeOK
<1>8. QED
  BY <1>1, <1>6, <1>7 DEF Abstract!Deliver, Consume, Queue

\* The fifo implements the abstract packet fifo: every step claims a packet,
\* reads the oldest one, or changes nothing the users of a fifo can see.
THEOREM Refinement == ASSUME Synchronized PROVE Spec => ImplementsPacketFifo
<1>1. Init => Abstract!Init
  BY DEF Init, Abstract!Init
<1>2. TypeOK /\ IInv /\ [Next]_vars => [Abstract!Next]_(Abstract!vars)
  <2>1. SUFFICES ASSUME TypeOK, IInv, [Next]_vars
                 PROVE  [Abstract!Next]_(Abstract!vars)
    OBVIOUS
  <2>2. ASSUME UNCHANGED history PROVE UNCHANGED Abstract!vars
    BY <2>2 DEF history, Abstract!vars
  <2>3. ASSUME NEW p \in Procs, Claim(p) PROVE Abstract!Next
    BY <2>1, <2>3, ClaimIsAccept DEF Abstract!Next
  <2>4. CASE Consume
    BY <2>1, <2>4, ConsumeIsDeliver DEF Abstract!Next
  <2>5. ASSUME NEW p \in Procs, Initialize(p) \/ Produce(p) \/ Activate(p)
        PROVE  UNCHANGED history
    BY <2>5 DEF Initialize, Produce, Activate
  <2>6. ASSUME ConsumeBegin \/ ConsumeHead \/ ConsumeBound
        PROVE  UNCHANGED history
    BY <2>6 DEF ConsumeBegin, ConsumeHead, ConsumeBound
  <2>7. CASE UNCHANGED vars
    BY <2>2, <2>7 DEF vars, history
  <2>8. QED
    BY <2>1, <2>2, <2>3, <2>4, <2>5, <2>6, <2>7
       DEF Next, producePacket, consumePacket
<1>3. QED
  BY <1>1, <1>2, TypeCorrect, Invariance, PTL
     DEF Spec, ImplementsPacketFifo, Abstract!Spec
===============================================================================
