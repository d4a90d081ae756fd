----------------------------- MODULE ShmemDevice -----------------------------
(***************************************************************************)
(* The sending side of components/devices/shmem: one origin context, the   *)
(* send queue it keeps for each destination, and the generic device that   *)
(* makes progress on the message at the head of each queue.  Packets go    *)
(* through the destination's packet fifo, modelled by its abstract         *)
(* specification PacketFifo, which other processes also write to.          *)
(*                                                                         *)
(* Messages are numbered in the order in which they are posted.  The kinds *)
(* are those of ShmemPacketModel.h and of the ordered ShmemDmaModel.h:     *)
(*   "packet"     postPacket and postMultiPacket                           *)
(*   "immediate"  postPacket without a state buffer                        *)
(*   "roput"      postDmaPut by a request packet, with a callback          *)
(*   "quiet"      the same without a callback                              *)
(*   "get"        postDmaGet, a shared address read                        *)
(*   "put"        postDmaPut, a shared address write                       *)
(*   "copy"       postDmaGet and postDmaPut without a state buffer         *)
(*   "fence"      postDmaFence                                             *)
(* A message has a length: packets to write, or pieces to copy.            *)
(***************************************************************************)
EXTENDS AdvanceLoop, Integers, FiniteSets

CONSTANTS Dests,      \* destination fifos (fnum)
          Self,       \* the origin, as a producer
          Others,     \* other producers of these fifos
          Size,       \* packets a fifo holds
          Kinds,      \* kinds of message this origin posts
          MaxLen,     \* bound on the length of a message
          MaxPosts,   \* bound on the messages posted in a behaviour
          MaxOthers   \* bound on the packets of the other producers

AllKinds == {"packet", "immediate", "roput", "quiet", "get", "put", "copy", "fence"}

ASSUME SelfAssumption == Self \notin Others
ASSUME SizeAssumption == Size \in Nat \ {0}
ASSUME KindsAssumption == Kinds \subseteq AllKinds
ASSUME MaxLenAssumption == MaxLen \in Nat \ {0}
ASSUME BoundsAssumption == MaxPosts \in Nat /\ MaxOthers \in Nat

VARIABLES
  queue,      \* PacketFifo: unread packets of each destination's fifo
  delivered,  \* PacketFifo: packets each destination has read
  msgs,       \* the messages posted: kind, destination and length
  left,       \* what each message has still to write or copy
  done,       \* messages whose status is Done
  sendq,      \* _sendQ[fnum]
  compq,      \* __GenericQueue: messages waiting for completion
  nxtmsg,     \* the loop variable over __GenericQueue, 0 for NULL
  writing,    \* who is in the middle of a run of producePacket calls: a "post",
              \* a "thread" of the generic device, or "none"
  wire,       \* history: the origin's packets in each fifo, as written
  called      \* history: the completion callbacks, in the order of the calls

fifos == <<queue, delivered>>
vars == <<queues, fifos, msgs, left, done, sendq, compq, nxtmsg, writing,
          wire, called>>

Dest(m) == msgs[m].dest
Kind(m) == msgs[m].kind

\* _last_packet_produced of the origin's own fifo object
lastPacketProduced(d) == IF wire[d] = <<>> THEN -1 ELSE wire[d][Len(wire[d])].seq
lastPacketConsumed(d) == Len(delivered[d]) - 1

activePackets(d) == lastPacketConsumed(d) < lastPacketProduced(d)
isSendQueueEmpty(d) == sendq[d] = <<>>

Init ==
  /\ posted = <<>> /\ threads = <<>> /\ batch = <<>> /\ loop = "idle" /\ at = 1
  /\ queue = [d \in Dests |-> <<>>]
  /\ delivered = [d \in Dests |-> <<>>]
  /\ msgs = <<>> /\ left = <<>> /\ done = {}
  /\ sendq = [d \in Dests |-> <<>>]
  /\ compq = <<>> /\ nxtmsg = 0
  /\ writing = "none"
  /\ wire = [d \in Dests |-> <<>>]
  /\ called = <<>>

-----------------------------------------------------------------------------
(* The fifos. *)

Room(d) == Len(queue[d]) < Size

\* producePacket by p returns true.
Accept(p, d) ==
  /\ Room(d)
  /\ queue' = [queue EXCEPT ![d] =
                 Append(@, [src |-> p, seq |-> Len(delivered[d]) + Len(@)])]
  /\ UNCHANGED delivered

\* Another process writes a packet.
OtherProduces(p, d) ==
  /\ Len(SelectSeq(delivered[d] \o queue[d], LAMBDA k : k.src # Self)) < MaxOthers
  /\ Accept(p, d)
  /\ UNCHANGED <<queues, msgs, left, done, sendq, compq, nxtmsg, writing, wire, called>>

\* The destination's advance() reads a packet.
Consume(d) ==
  /\ queue[d] # <<>>
  /\ delivered' = [delivered EXCEPT ![d] = Append(@, Head(queue[d]))]
  /\ queue' = [queue EXCEPT ![d] = Tail(@)]
  /\ UNCHANGED <<queues, msgs, left, done, sendq, compq, nxtmsg, writing, wire, called>>

\* The origin writes one packet for a message to d.
Produce(m, d) ==
  /\ Accept(Self, d)
  /\ wire' = [wire EXCEPT ![d] =
                Append(@, [msg |-> m, seq |-> Len(delivered[d]) + Len(queue[d])])]

-----------------------------------------------------------------------------
(* Posting. *)

MsgWork(m) == [type |-> "message", msg |-> m, sequence |-> 0]
RecPacketWork(m, s) == [type |-> "completion", msg |-> m, sequence |-> s]

\* SendQueue::post: a message that finds the queue empty is started, that is,
\* handed to the generic device; then it is queued.
post(m, d) ==
  /\ IF isSendQueueEmpty(d)
     THEN compq' = Append(compq, m) /\ posted' = Append(posted, MsgWork(m))
     ELSE UNCHANGED <<compq, posted>>
  /\ sendq' = [sendq EXCEPT ![d] = Append(@, m)]

\* executeCallback for a message of kind k, with the posting queue p so far.  A
\* put by request packet is not complete yet: its callback, when the user gave
\* one, is left to work that waits for the packet to be consumed.
executeCallback(m, k, p, last) ==
  /\ called' = IF k \in {"immediate", "roput", "quiet"} THEN called ELSE Append(called, m)
  /\ posted' = IF k = "roput" THEN Append(p, RecPacketWork(m, last)) ELSE p

\* A message is about to be posted.  That happens outside advance(), in a work
\* function and in a callback, but not within a run of producePacket calls.
NewMessage(k, d, n, l) ==
  /\ k \in Kinds
  /\ writing = "none"
  /\ Len(msgs) < MaxPosts
  /\ msgs' = Append(msgs, [kind |-> k, dest |-> d, len |-> n])
  /\ left' = Append(left, l)
  /\ UNCHANGED <<done, nxtmsg, threads, batch, loop, at>>

New == Len(msgs) + 1

\* Mutant: the send queue is not looked at before the packet is written.
FastPathAny(d) == Room(d)

\* A packet may be written at once only when no message waits for the fifo.
FastPath(d) == isSendQueueEmpty(d) /\ Room(d)

\* postPacket, postMultiPacket and postDmaPut by request packet: write what
\* fits if the send queue is empty, and leave the rest to a message.
postPackets(k, d, n) ==
  /\ k \in {"packet", "roput", "quiet"}
  /\ k # "packet" => n = 1
  /\ NewMessage(k, d, n, IF FastPath(d) THEN n - 1 ELSE n)
  /\ IF FastPath(d)
     THEN /\ Produce(New, d)
          /\ IF n = 1
             THEN executeCallback(New, k, posted, Len(delivered[d]) + Len(queue[d]))
             ELSE UNCHANGED <<called, posted>>
          /\ writing' = IF n = 1 THEN "none" ELSE "post"
          /\ UNCHANGED <<sendq, compq>>
     ELSE /\ post(New, d)
          /\ UNCHANGED <<fifos, wire, called, writing>>

\* The next producePacket of postMultiPacket.
postContinue ==
  /\ writing = "post"
  /\ LET m == Len(msgs)
         d == Dest(m)
     IN  IF Room(d)
         THEN /\ Produce(m, d)
              /\ left' = [left EXCEPT ![m] = @ - 1]
              /\ IF left[m] = 1
                 THEN executeCallback(m, Kind(m), posted, Len(delivered[d]) + Len(queue[d]))
                 ELSE UNCHANGED <<called, posted>>
              /\ writing' = IF left[m] = 1 THEN "none" ELSE "post"
              /\ UNCHANGED <<sendq, compq>>
         ELSE /\ post(m, d)
              /\ writing' = "none"
              /\ UNCHANGED <<fifos, left, wire, called>>
  /\ UNCHANGED <<msgs, done, nxtmsg, threads, batch, loop, at>>

\* postPacket "immediate": one packet now, or nothing at all.
postImmediate(d) ==
  /\ FastPath(d)
  /\ NewMessage("immediate", d, 1, 0)
  /\ Produce(New, d)
  /\ UNCHANGED <<posted, sendq, compq, writing, called>>

\* Mutant: packets still in the fifo are overlooked.
QuietChannelAny(d) == isSendQueueEmpty(d)

\* Nothing of this origin is on its way to d.
QuietChannel(d) == isSendQueueEmpty(d) /\ ~activePackets(d)

\* postDmaFence: complete at once when nothing is on its way.
postDmaFence(d) ==
  /\ NewMessage("fence", d, 0, 0)
  /\ IF QuietChannel(d)
     THEN called' = Append(called, New) /\ UNCHANGED <<sendq, compq, posted>>
     ELSE post(New, d) /\ UNCHANGED called
  /\ UNCHANGED <<fifos, wire, writing>>

\* postDmaGet, ordered: when nothing is on its way, copy what the shared address
\* read gives; a message copies the rest.
postDmaGet(d, n) ==
  /\ \E copied \in IF QuietChannel(d) THEN 1..n ELSE {0} :
       /\ NewMessage("get", d, n, n - copied)
       /\ IF copied = n
          THEN called' = Append(called, New) /\ UNCHANGED <<sendq, compq, posted>>
          ELSE post(New, d) /\ UNCHANGED called
  /\ UNCHANGED <<fifos, wire, writing>>

\* postDmaPut, ordered, where shared address writes are supported.
postDmaPut(d, n) ==
  /\ NewMessage("put", d, n, n)
  /\ post(New, d)
  /\ UNCHANGED <<fifos, wire, writing, called>>

\* postDmaGet and postDmaPut "immediate", ordered: all now, or nothing at all.  A read
\* that gives fewer bytes than asked for returns false: it happens under the same
\* guard, posts nothing and leaves the device as it was, so it is no step here.
postDmaImmediate(d) ==
  /\ QuietChannel(d)
  /\ NewMessage("copy", d, 1, 0)
  /\ UNCHANGED <<fifos, wire, writing, called, posted, sendq, compq>>

-----------------------------------------------------------------------------
(* Progress: the work functions, called by the loops of Device::advance. *)

AdvanceStart ==
  /\ AdvanceBegin /\ writing = "none"
  /\ UNCHANGED <<fifos, msgs, left, done, sendq, compq, nxtmsg, writing, wire, called>>

PostedStart ==
  /\ PostedBegin /\ writing = "none"
  /\ UNCHANGED <<fifos, msgs, left, done, sendq, compq, nxtmsg, writing, wire, called>>

\* The running loop is at the work of message m.
Executing(m) == Visiting /\ Current = MsgWork(m) /\ writing # "post"

\* PacketMessage::write: one producePacket of its loop.
write(m) ==
  /\ Executing(m)
  /\ Kind(m) \in {"packet", "roput", "quiet"}
  /\ IF Room(Dest(m))
     THEN /\ Produce(m, Dest(m))
          /\ left' = [left EXCEPT ![m] = @ - 1]
          /\ IF left[m] = 1
             THEN Finish /\ done' = done \cup {m} /\ writing' = "none"
             ELSE writing' = "thread" /\ UNCHANGED <<done, threads, batch, loop, at>>
     ELSE /\ Keep
          /\ writing' = "none"
          /\ UNCHANGED <<fifos, wire, left, done>>
  /\ UNCHANGED <<posted, msgs, sendq, compq, nxtmsg, called>>

\* Mutant: the fence message completes when it reaches the head of the queue.
advance_fence_now(m) ==
  /\ Executing(m)
  /\ Kind(m) = "fence"
  /\ Finish /\ done' = done \cup {m}
  /\ UNCHANGED <<posted, fifos, msgs, left, sendq, compq, nxtmsg, writing, wire, called>>

\* FenceMessage::advance
advance_fence(m) ==
  /\ Executing(m)
  /\ Kind(m) = "fence"
  /\ IF activePackets(Dest(m))
     THEN Keep /\ UNCHANGED done
     ELSE Finish /\ done' = done \cup {m}
  /\ UNCHANGED <<posted, fifos, msgs, left, sendq, compq, nxtmsg, writing, wire, called>>

\* DmaMessage::advance_mr_read and advance_mr_write: a call copies some of what
\* is left.
advance_mr(m) ==
  /\ Executing(m)
  /\ Kind(m) \in {"get", "put"}
  /\ \/ /\ activePackets(Dest(m))
        /\ Keep
        /\ UNCHANGED <<left, done>>
     \/ /\ ~activePackets(Dest(m))
        /\ \E copied \in 1..left[m] :
             /\ left' = [left EXCEPT ![m] = @ - copied]
             /\ IF copied = left[m]
                THEN Finish /\ done' = done \cup {m}
                ELSE Keep /\ UNCHANGED done
  /\ UNCHANGED <<posted, fifos, msgs, sendq, compq, nxtmsg, writing, wire, called>>

\* Mutant: the work completes one packet early.
advance_with_callback_early(m) ==
  /\ Visiting /\ writing = "none"
  /\ Current.type = "completion" /\ Current.msg = m
  /\ IF Current.sequence - 1 <= lastPacketConsumed(Dest(m))
     THEN Finish /\ called' = Append(called, m)
     ELSE Keep /\ UNCHANGED called
  /\ UNCHANGED <<posted, fifos, msgs, left, done, sendq, compq, nxtmsg, writing, wire>>

\* RecPacketWork::advance_with_callback
advance_with_callback(m) ==
  /\ Visiting /\ writing = "none"
  /\ Current.type = "completion" /\ Current.msg = m
  /\ IF Current.sequence <= lastPacketConsumed(Dest(m))
     THEN Finish /\ called' = Append(called, m)
     ELSE Keep /\ UNCHANGED called
  /\ UNCHANGED <<posted, fifos, msgs, left, done, sendq, compq, nxtmsg, writing, wire>>

\* The loop over the completion queue starts at its head.
CompletionStart ==
  /\ loop = "posted" /\ batch = <<>> /\ writing = "none"
  /\ loop' = "completion"
  /\ nxtmsg' = IF compq = <<>> THEN 0 ELSE Head(compq)
  /\ UNCHANGED <<posted, threads, batch, at, fifos, msgs, left, done, sendq, compq, writing, wire, called>>

\* The queues are doubly linked: an element knows its place.
Place(q, m) == CHOOSE i \in DOMAIN q : q[i] = m

After(q, m) == LET i == Place(q, m) IN IF i = Len(q) THEN 0 ELSE q[i + 1]

Without(q, m) == Unlink(q, Place(q, m))

\* Mutant: the next message of the send queue is not started.
CompleteAlone ==
  /\ loop = "completion" /\ nxtmsg # 0 /\ writing = "none"
  /\ LET m == nxtmsg
         d == Dest(m)
     IN  /\ nxtmsg' = After(compq, m)
         /\ IF m \in done
            THEN /\ sendq' = [sendq EXCEPT ![d] = Without(@, m)]
                 /\ compq' = Without(compq, m)
                 /\ executeCallback(m, Kind(m), posted, lastPacketProduced(d))
            ELSE UNCHANGED <<sendq, compq, posted, called>>
  /\ UNCHANGED <<threads, batch, loop, at, fifos, msgs, left, done, writing, wire>>

\* Mutant: the message posted last is started next.
CompleteLifo ==
  /\ loop = "completion" /\ nxtmsg # 0 /\ writing = "none"
  /\ LET m == nxtmsg
         d == Dest(m)
         rest == Without(sendq[d], m)
         start == rest # <<>>
     IN  /\ nxtmsg' = After(compq, m)
         /\ IF m \in done
            THEN /\ sendq' = [sendq EXCEPT ![d] = rest]
                 /\ compq' = Without(compq, m) \o (IF start THEN <<rest[Len(rest)]>> ELSE <<>>)
                 /\ executeCallback(m, Kind(m),
                      IF start THEN Append(posted, MsgWork(rest[Len(rest)])) ELSE posted,
                      lastPacketProduced(d))
            ELSE UNCHANGED <<sendq, compq, posted, called>>
  /\ UNCHANGED <<threads, batch, loop, at, fifos, msgs, left, done, writing, wire>>

\* One message of the completion queue: when it is Done it leaves both queues,
\* the next message of its send queue is started, and its callback is called.
Complete ==
  /\ loop = "completion" /\ nxtmsg # 0 /\ writing = "none"
  /\ LET m == nxtmsg
         d == Dest(m)
         rest == Without(sendq[d], m)
         start == rest # <<>>
     IN  /\ nxtmsg' = After(compq, m)
         /\ IF m \in done
            THEN /\ sendq' = [sendq EXCEPT ![d] = rest]
                 /\ compq' = Without(compq, m) \o (IF start THEN <<Head(rest)>> ELSE <<>>)
                 /\ executeCallback(m, Kind(m),
                      IF start THEN Append(posted, MsgWork(Head(rest))) ELSE posted,
                      lastPacketProduced(d))
            ELSE UNCHANGED <<sendq, compq, posted, called>>
  /\ UNCHANGED <<threads, batch, loop, at, fifos, msgs, left, done, writing, wire>>

AdvanceEnd ==
  /\ loop = "completion" /\ nxtmsg = 0 /\ writing = "none"
  /\ loop' = "idle"
  /\ UNCHANGED <<posted, threads, batch, at, fifos, msgs, left, done, sendq, compq, nxtmsg, writing, wire, called>>

Post == \E d \in Dests :
          \/ \E n \in 1..MaxLen, k \in {"packet", "roput", "quiet"} : postPackets(k, d, n)
          \/ \E n \in 1..MaxLen : postDmaGet(d, n) \/ postDmaPut(d, n)
          \/ postImmediate(d) \/ postDmaImmediate(d) \/ postDmaFence(d)

\* The steps of the origin's thread once it has called advance() or a post.
Progress == \/ AdvanceStart \/ PostedStart \/ CompletionStart \/ Complete \/ AdvanceEnd
            \/ postContinue
            \/ \E m \in DOMAIN msgs : \/ write(m) \/ advance_fence(m)
                                      \/ advance_mr(m) \/ advance_with_callback(m)

Next == \/ Post \/ Progress
        \/ \E d \in Dests : Consume(d) \/ \E p \in Others : OtherProduces(p, d)

Spec == Init /\ [][Next]_vars

\* The origin advances its context again and again and returns from the calls it
\* makes; every destination advances its own.  Nobody is obliged to send.
Fairness == WF_vars(Progress) /\ \A d \in Dests : WF_vars(Consume(d))

-----------------------------------------------------------------------------
(* Properties. *)

Messages == DOMAIN msgs

\* The device calls itself deterministic (ShmemDevice.h:298): a packet is written only
\* when every message posted earlier to that destination has written or copied all
\* it had to, whether the packet goes out at once, is written by a work function,
\* or belongs to a message that only partly fitted into the fifo.
PostOrder ==
  \A d \in Dests : \A i \in DOMAIN wire[d] : \A m \in Messages :
    Dest(m) = d /\ m < wire[d][i].msg => left[m] = 0

\* All a destination was sent by the messages posted before m has arrived.
SettledBefore(m) ==
  LET d == Dest(m)
  IN  /\ \A i \in 1..(m - 1) : Dest(i) = d => left[i] = 0
      /\ \A i \in DOMAIN wire[d] :
           wire[d][i].msg < m => wire[d][i].seq <= lastPacketConsumed(d)

\* The callback of a fence means that every packet sent before it was consumed
\* and every copy requested before it was made (ShmemDmaModel.h:592-603).
FenceOrders ==
  \A m \in Messages : Kind(m) = "fence" /\ m \in Range(called) => SettledBefore(m)

\* An ordered shared address operation touches memory only after all previous
\* packets from this origin context have been received (ShmemDmaMessage.h:75).
CopyOrders ==
  \A m \in Messages :
    Kind(m) \in {"get", "put", "copy"} /\ left[m] < msgs[m].len => SettledBefore(m)

\* The callback of a put by request packet means that the target has consumed
\* that very packet, although it is only known by the sequence number its fifo
\* object had when the message left the send queue (ShmemPacketMessage.h:77).
RemoteCompletion ==
  \A m \in Messages : Kind(m) = "roput" /\ m \in Range(called) =>
    \E i \in DOMAIN wire[Dest(m)] :
      wire[Dest(m)][i].msg = m /\ wire[Dest(m)][i].seq <= lastPacketConsumed(Dest(m))

\* No callback is called twice, and those of the messages to one destination are
\* called in the order of the posts; only a put by request packet may be late.
CallbackOrder ==
  /\ IsInjective(called)
  /\ \A i, j \in DOMAIN called :
       /\ i < j
       /\ Dest(called[i]) = Dest(called[j])
       /\ Kind(called[j]) # "roput" /\ Kind(called[i]) # "roput"
       => called[i] < called[j]

\* Every message with a callback completes, whatever it waits for: room in the
\* fifo, its turn in the send queue, or packets being consumed.
EveryMessageCompletes ==
  <>[](\A m \in Messages :
         Kind(m) \in {"packet", "roput", "get", "put", "fence"} => m \in Range(called))
===============================================================================
