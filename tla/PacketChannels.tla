--------------------------- MODULE PacketChannels ---------------------------
(***************************************************************************)
(* The packet device as the protocols use it, PacketInterface.h, with the  *)
(* packet model of shared memory behind it, ShmemPacketModel.h: reliable   *)
(* ordered channels between endpoints.  A post either completes inside the *)
(* call, and then its completion function runs inside the call too, or is  *)
(* queued behind the earlier posts to the same destination and completes   *)
(* in a later advance.  The nesting of calls that this allows is `stack`.  *)
(***************************************************************************)
EXTENDS Integers, Sequences

CONSTANTS
    Endpoints,  \* the communicating contexts
    Payload     \* bytes of one packet, and of one typed pipeline buffer

VARIABLES
    sendq,      \* per origin and target, device messages not fully injected
    net,        \* per origin and target, packets on the way
    stack       \* per endpoint, the calls in progress, innermost first

channels == <<sendq, net>>

ChannelsInit ==
    /\ sendq = [e \in Endpoints |-> [d \in Endpoints |-> <<>>]]
    /\ net = [e \in Endpoints |-> [d \in Endpoints |-> <<>>]]
    /\ stack = [e \in Endpoints |-> <<>>]

Least(a, b) == IF a <= b THEN a ELSE b

\* A post: packet type, transfer, the model_state_t it occupies, the data
\* bytes from+1 .. from+len, and the completion function.
Post(type, m, slot, from, len, done) ==
    [op |-> "post", type |-> type, msg |-> m, slot |-> slot,
     from |-> from, len |-> len, done |-> done]

Call(op, m) == [op |-> op, msg |-> m]

\* The packets of one post; a post of no bytes is one packet.
Packets(x) ==
    LET n == IF x.len = 0 THEN 1 ELSE (x.len + Payload - 1) \div Payload
    IN  [i \in 1 .. n |->
            [type |-> x.type, msg |-> x.msg, from |-> x.from + (i - 1) * Payload,
             len |-> Least(Payload, x.len - (i - 1) * Payload)]]

Completion(x) == IF x.done = "none" THEN <<>> ELSE <<Call(x.done, x.msg)>>

Top(e, op) == stack[e] # <<>> /\ Head(stack[e]).op = op

\* The application may start a transfer between advances and from inside a
\* callback.
MaySend(e) == stack[e] # <<>> => Head(stack[e]).op = "callback"

\* A post on an idle channel with room injects every packet and runs the
\* completion function before it returns.
PostNowTo(e, d) ==
    /\ Top(e, "post")
    /\ sendq[e][d] = <<>>
    /\ net' = [net EXCEPT ![e][d] = @ \o Packets(Head(stack[e]))]
    /\ stack' = [stack EXCEPT ![e] = Completion(Head(@)) \o Tail(@)]
    /\ UNCHANGED sendq

\* Any other post is queued behind the earlier ones; on an idle channel the packets
\* that still found room are injected first.
PostQueuedTo(e, d) ==
    /\ Top(e, "post")
    /\ LET x == Head(stack[e])
           all == Packets(x)
       IN  \E k \in 0 .. Len(all) - 1 :
             /\ k > 0 => sendq[e][d] = <<>>
             /\ net' = [net EXCEPT ![e][d] = @ \o SubSeq(all, 1, k)]
             /\ sendq' = [sendq EXCEPT ![e][d] =
                             Append(@, [post |-> x, left |-> SubSeq(all, k + 1, Len(all))])]
    /\ stack' = [stack EXCEPT ![e] = Tail(@)]

\* An advance of the origin's device injects the next packet of the oldest
\* queued post, and completes the post after its last packet.
InjectTo(e, d) ==
    /\ stack[e] = <<>> /\ sendq[e][d] # <<>>
    /\ LET h == Head(sendq[e][d])
       IN  /\ net' = [net EXCEPT ![e][d] = Append(@, Head(h.left))]
           /\ IF Len(h.left) > 1
              THEN /\ sendq' = [sendq EXCEPT ![e][d][1].left = Tail(@)]
                   /\ UNCHANGED stack
              ELSE /\ sendq' = [sendq EXCEPT ![e][d] = Tail(@)]
                   /\ stack' = [stack EXCEPT ![e] = Completion(h.post)]

\* The application returns from a callback.
ReturnFrom(e) ==
    /\ Top(e, "callback")
    /\ stack' = [stack EXCEPT ![e] = Tail(@)]
    /\ UNCHANGED channels

\* One advance of d dispatches one packet of origin e.
Arrives(d, e, types) ==
    stack[d] = <<>> /\ net[e][d] # <<>> /\ Head(net[e][d]).type \in types

Consume(d, e) == net' = [net EXCEPT ![e][d] = Tail(@)]

\* Packing into a pipeline buffer changes what a post of that buffer that is
\* still queued will send.
Repack(e, d, m, slot, from) ==
    sendq' = [sendq EXCEPT ![e][d] =
        [i \in DOMAIN @ |->
            IF @[i].post.msg = m /\ @[i].post.slot = slot
            THEN [@[i] EXCEPT !.left = [k \in DOMAIN @ |-> [@[k] EXCEPT !.from = from]]]
            ELSE @[i]]]

=============================================================================
