---------------------------- MODULE EagerSimple ----------------------------
(***************************************************************************)
(* The eager send protocol, p2p/protocols/send/eager/EagerSimple*.h: a     *)
(* message travels as one packed packet ("short"), or as an envelope       *)
(* (possibly a metadata packet and a long header) followed by data         *)
(* packets that the target matches to the envelope by the single           *)
(* connection it keeps per origin.  A request for a remote completion      *)
(* callback is a ping after the last data packet and a pong back.          *)
(* Underneath are the channels of PacketChannels.                          *)
(***************************************************************************)
EXTENDS PacketChannels, SequencesExt

CONSTANTS
    MaxImmediate,   \* packet_model_immediate_bytes
    MaxShort,       \* maximum_short_packet_payload
    MaxEager,       \* maximum_eager_packet_payload
    Configurations, \* template instances T_Option: sets of configuration flags
    Shapes,         \* [kind, header, data, remote] of the sends to try
    MaxSends        \* bound: sends in a behaviour

Deployment ==
    /\ Payload \in Nat \ {0}
    /\ MaxImmediate \in 0 .. Payload
    /\ MaxShort \in 0 .. Payload
    /\ MaxEager \in 0 .. Payload
    /\ MaxSends \in Nat

VARIABLES
    option,     \* T_Option of this instance, fixed by the template
    msgs,       \* the sends accepted so far: shape, origin and target
    origin,     \* eager_state_t::origin of each send
    conn,       \* per target and origin, the device's _connection entry
    dispatched, \* per endpoint, sends whose dispatch function ran, in order
    got,        \* per send, the data bytes the target copied
    called      \* per send, completion callbacks that ran

vars == <<option, msgs, origin, sendq, net, stack, conn, dispatched, got, called>>

target == <<conn, dispatched, got>>

Sends == DOMAIN msgs

NoConnection == [msg |-> 0, header |-> 0, data |-> 0]

Init ==
    /\ option \in Configurations
    /\ msgs = <<>> /\ origin = <<>> /\ got = <<>> /\ called = <<>>
    /\ ChannelsInit
    /\ conn = [d \in Endpoints |-> [e \in Endpoints |-> NoConnection]]
    /\ dispatched = [e \in Endpoints |-> <<>>]

\* The destination of a post: the pong of an acknowledgement goes back to
\* the origin of the send, everything else to its target.
Destination(x) == IF x.type = "pong" THEN msgs[x.msg].from ELSE msgs[x.msg].to

-----------------------------------------------------------------------------
(* The origin.                                                             *)

\* The short protocol is forced, or not forbidden and header and data fit.
IsShort(p) ==
    \/ "FORCEON" \in option
    \/ "FORCEOFF" \notin option /\ p.header + p.data <= MaxShort

\* What the ERROR_CHECKS of immediate, simple and typed accept.
Valid(p) ==
    /\ p.kind = "immediate" => p.header + p.data <= MaxImmediate
    /\ p.kind # "immediate" =>
          /\ "FORCEON" \in option => p.header + p.data <= MaxShort
          /\ ~IsShort(p) /\ "LONG_HEADER_DISABLE" \in option => p.header <= MaxEager

send_envelope(m, p, done) ==
    IF "LONG_HEADER_DISABLE" \notin option /\ p.header > MaxEager
    THEN <<Post("longmeta", m, "metadata", 0, 0, "none"),
           Post("longheader", m, "header", 0, p.header, done)>>
    ELSE <<Post("envelope", m, "envelope", 0, 0, done)>>

\* Mutant: the completion function is on the first width, not the last.
SendDataEarly(m, p) ==
    IF p.kind = "simple" \/ p.data <= Payload
    THEN <<Post("data", m, "data0", 0, p.data, "send_complete")>>
    ELSE <<Post("data", m, "data0", 0, Payload, "send_complete"),
           Post("data", m, "data1", Payload, p.data - Payload, "none")>>

\* Mutant: the second width is packed without moving the cursor.
SendDataCursor(m, p) ==
    IF p.kind = "simple" \/ p.data <= Payload
    THEN <<Post("data", m, "data0", 0, p.data, "send_complete")>>
    ELSE <<Post("data", m, "data0", 0, Payload, "none"),
           Post("data", m, "data1", 0, p.data - Payload, "send_complete")>>

\* A typed send of one or two pipeline buffers posts them outright; a longer
\* one posts two and refills each from complete_data (module EagerPipeline).
send_data(m, p) ==
    CASE p.kind = "simple" \/ p.data <= Payload ->
            <<Post("data", m, "data0", 0, p.data, "send_complete")>>
      [] p.kind = "typed" /\ p.data > Payload /\ p.data <= 2 * Payload ->
            <<Post("data", m, "data0", 0, Payload, "none"),
              Post("data", m, "data1", Payload, p.data - Payload, "send_complete")>>
      [] OTHER ->
            <<Post("data", m, "data0", 0, Payload, "complete_data"),
              Call("second_width", m)>>

\* Mutant: the envelope completes the send although data follows.
SendCallsEnvelope(m, p) ==
    IF IsShort(p) THEN <<Post("short", m, "short", 0, 0, "send_complete")>>
    ELSE send_envelope(m, p, "send_complete")
         \o (IF p.data = 0 THEN <<>> ELSE send_data(m, p))

\* The calls simple_impl and typed_impl make, in order.
SendCalls(m, p) ==
    IF IsShort(p) THEN <<Post("short", m, "short", 0, 0, "send_complete")>>
    ELSE IF p.data = 0 THEN send_envelope(m, p, "send_complete")
    ELSE send_envelope(m, p, "none") \o send_data(m, p)

\* The eager_state_t of a send.  A typed send of more than two widths starts
\* with bytes_remaining at the full length.
OriginState(p, state) ==
    [state |-> state, remaining |-> p.data, start_count |-> 2, cursor |-> Payload]

Accept(e, d, p, state) ==
    /\ msgs' = Append(msgs, [shape |-> p, from |-> e, to |-> d])
    /\ origin' = Append(origin, OriginState(p, state))
    /\ got' = Append(got, <<>>)
    /\ called' = Append(called, {})

Send(e, d, p) ==
    /\ Len(msgs) < MaxSends /\ MaySend(e) /\ Valid(p) /\ p.kind # "immediate"
    /\ Accept(e, d, p, "live")
    /\ stack' = [stack EXCEPT ![e] = SendCalls(Len(msgs) + 1, p) \o @]
    /\ UNCHANGED <<option, channels, conn, dispatched>>

\* Mutant: an immediate post does not look at the queue.
SendImmediateOvertakes(e, d, p) ==
    /\ Len(msgs) < MaxSends /\ MaySend(e) /\ Valid(p) /\ p.kind = "immediate"
    /\ Accept(e, d, p, "none")
    /\ net' = [net EXCEPT ![e][d] =
                  @ \o Packets(Post("short", Len(msgs) + 1, "none", 0, 0, "none"))]
    /\ UNCHANGED <<option, sendq, stack, conn, dispatched>>

\* The immediate post needs an idle channel with room.
SendImmediate(e, d, p) ==
    /\ Len(msgs) < MaxSends /\ MaySend(e) /\ Valid(p) /\ p.kind = "immediate"
    /\ sendq[e][d] = <<>>
    /\ Accept(e, d, p, "none")
    /\ net' = [net EXCEPT ![e][d] =
                  @ \o Packets(Post("short", Len(msgs) + 1, "none", 0, 0, "none"))]
    /\ UNCHANGED <<option, sendq, stack, conn, dispatched>>

\* When the immediate post fails the message is copied and queued, unless
\* QUEUE_IMMEDIATE_DISABLE, where PAMI_EAGAIN leaves the protocol unchanged.
QueueImmediate(e, d, p) ==
    /\ Len(msgs) < MaxSends /\ MaySend(e) /\ Valid(p) /\ p.kind = "immediate"
    /\ "QUEUE_IMMEDIATE_DISABLE" \notin option
    /\ Accept(e, d, p, "live")
    /\ stack' = [stack EXCEPT ![e] =
          <<Post("short", Len(msgs) + 1, "short", 0, 0, "send_complete")>> \o @]
    /\ UNCHANGED <<option, channels, conn, dispatched>>

-----------------------------------------------------------------------------
(* The calls in progress at an endpoint.                                   *)

PostNow(e) ==
    /\ Top(e, "post") /\ PostNowTo(e, Destination(Head(stack[e])))
    /\ UNCHANGED <<option, msgs, origin, target, called>>

PostQueued(e) ==
    /\ Top(e, "post") /\ PostQueuedTo(e, Destination(Head(stack[e])))
    /\ UNCHANGED <<option, msgs, origin, target, called>>

\* The last post of a send completed: the application's local callback.
send_complete(e) ==
    /\ Top(e, "send_complete")
    /\ LET m     == Head(stack[e]).msg
           local == msgs[m].shape.kind # "immediate"
       IN  /\ called' = [called EXCEPT ![m] = IF local THEN @ \cup {"local"} ELSE @]
           /\ stack' = [stack EXCEPT ![e] =
                 (IF local THEN <<Call("callback", m)>> ELSE <<>>)
                 \o <<Call("free_state", m)>> \o Tail(@)]
    /\ UNCHANGED <<option, msgs, origin, channels, target>>

\* The rest of send_complete: the state goes back to its allocator, and the
\* remote callback, if wanted, is asked for with a ping.
free_state(e) ==
    /\ Top(e, "free_state")
    /\ LET m == Head(stack[e]).msg
       IN  /\ origin' = [origin EXCEPT ![m].state = "freed"]
           /\ stack' = [stack EXCEPT ![e] =
                 (IF msgs[m].shape.remote
                  THEN <<Post("ping", m, "ack", 0, 0, "none")>> ELSE <<>>) \o Tail(@)]
    /\ UNCHANGED <<option, msgs, channels, target, called>>

Return(e) ==
    /\ ReturnFrom(e)
    /\ UNCHANGED <<option, msgs, origin, target, called>>

Inject(e, d) ==
    /\ InjectTo(e, d)
    /\ UNCHANGED <<option, msgs, origin, target, called>>

-----------------------------------------------------------------------------
(* The target.                                                             *)

\* The dispatch function, during which the application may send.
Dispatch(d, m) ==
    /\ dispatched' = [dispatched EXCEPT ![d] = Append(@, m)]
    /\ stack' = [stack EXCEPT ![d] = <<Call("callback", m)>>]

\* dispatch_packed: header and data are delivered in one call.
dispatch_packed(d, e) ==
    /\ Arrives(d, e, {"short"})
    /\ LET m == Head(net[e][d]).msg
       IN  /\ Dispatch(d, m)
           /\ got' = [got EXCEPT ![m] = [i \in 1 .. msgs[m].shape.data |-> <<m, i>>]]
           /\ called' = [called EXCEPT ![m] = @ \cup {"received"}]
    /\ Consume(d, e)
    /\ UNCHANGED <<option, msgs, origin, sendq, conn>>

\* A single-packet envelope: dispatch, then set the connection if data follows.
dispatch_envelope_packed(d, e) ==
    /\ Arrives(d, e, {"envelope"})
    /\ LET m == Head(net[e][d]).msg
           p == msgs[m].shape
       IN  /\ Dispatch(d, m)
           /\ IF p.data = 0
              THEN /\ called' = [called EXCEPT ![m] = @ \cup {"received"}]
                   /\ UNCHANGED conn
              ELSE /\ conn[d][e] = NoConnection
                   /\ conn' = [conn EXCEPT ![d][e] =
                                  [msg |-> m, header |-> p.header, data |-> 0]]
                   /\ UNCHANGED called
    /\ Consume(d, e)
    /\ UNCHANGED <<option, msgs, origin, sendq, got>>

\* The metadata packet of a long header.
dispatch_envelope_metadata(d, e) ==
    /\ Arrives(d, e, {"longmeta"})
    /\ conn[d][e] = NoConnection
    /\ conn' = [conn EXCEPT ![d][e] =
                   [msg |-> Head(net[e][d]).msg, header |-> 0, data |-> 0]]
    /\ Consume(d, e)
    /\ UNCHANGED <<option, msgs, origin, sendq, stack, dispatched, got, called>>

\* Mutant: the connection waits for data that a header alone does not have.
HeaderAwaitsData(d, e) ==
    /\ Arrives(d, e, {"longheader"})
    /\ conn[d][e] # NoConnection
    /\ LET c == conn[d][e]
           p == msgs[c.msg].shape
           n == c.header + Least(Head(net[e][d]).len, p.header - c.header)
       IN  /\ IF n = p.header THEN Dispatch(d, c.msg) ELSE UNCHANGED <<dispatched, stack>>
           /\ conn' = [conn EXCEPT ![d][e] = [c EXCEPT !.header = n]]
    /\ Consume(d, e)
    /\ UNCHANGED <<option, msgs, origin, sendq, got, called>>

\* A packet of a long header; the dispatch function runs at its last byte.
dispatch_envelope_header(d, e) ==
    /\ Arrives(d, e, {"longheader"})
    /\ conn[d][e] # NoConnection
    /\ LET c == conn[d][e]
           p == msgs[c.msg].shape
           n == c.header + Least(Head(net[e][d]).len, p.header - c.header)
           whole == n = p.header
       IN  /\ IF whole THEN Dispatch(d, c.msg) ELSE UNCHANGED <<dispatched, stack>>
           /\ conn' = [conn EXCEPT ![d][e] =
                 IF whole /\ p.data = 0 THEN NoConnection ELSE [c EXCEPT !.header = n]]
           /\ called' = [called EXCEPT ![c.msg] =
                 IF whole /\ p.data = 0 THEN @ \cup {"received"} ELSE @]
    /\ Consume(d, e)
    /\ UNCHANGED <<option, msgs, origin, sendq, got>>

\* Mutant: off by one in the test for the last data packet.
DataOffByOne(d, e) ==
    /\ Arrives(d, e, {"data"})
    /\ conn[d][e] # NoConnection
    /\ LET c     == conn[d][e]
           k     == Head(net[e][d])
           total == msgs[c.msg].shape.data
           ncopy == Least(total - c.data, k.len)
           whole == c.data + k.len > total
       IN  /\ got' = [got EXCEPT ![c.msg] =
                         @ \o [i \in 1 .. ncopy |-> <<k.msg, k.from + i>>]]
           /\ conn' = [conn EXCEPT ![d][e] =
                 IF whole THEN NoConnection ELSE [c EXCEPT !.data = @ + ncopy]]
           /\ called' = [called EXCEPT ![c.msg] =
                 IF whole THEN @ \cup {"received"} ELSE @]
           /\ stack' = [stack EXCEPT ![d] =
                 IF whole THEN <<Call("callback", c.msg)>> ELSE <<>>]
    /\ Consume(d, e)
    /\ UNCHANGED <<option, msgs, origin, sendq, dispatched>>

\* A data packet is copied up to the length the envelope announced; the
\* packet that reaches it clears the connection and completes the receive.
dispatch_data(d, e) ==
    /\ Arrives(d, e, {"data"})
    /\ conn[d][e] # NoConnection
    /\ LET c     == conn[d][e]
           k     == Head(net[e][d])
           total == msgs[c.msg].shape.data
           ncopy == Least(total - c.data, k.len)
           whole == c.data + k.len >= total
       IN  /\ got' = [got EXCEPT ![c.msg] =
                         @ \o [i \in 1 .. ncopy |-> <<k.msg, k.from + i>>]]
           /\ conn' = [conn EXCEPT ![d][e] =
                 IF whole THEN NoConnection ELSE [c EXCEPT !.data = @ + ncopy]]
           /\ called' = [called EXCEPT ![c.msg] =
                 IF whole THEN @ \cup {"received"} ELSE @]
           /\ stack' = [stack EXCEPT ![d] =
                 IF whole THEN <<Call("callback", c.msg)>> ELSE <<>>]
    /\ Consume(d, e)
    /\ UNCHANGED <<option, msgs, origin, sendq, dispatched>>

\* An acknowledgement: a ping is returned as a pong, a pong runs remote_fn.
dispatch_remotefn(d, e) ==
    /\ Arrives(d, e, {"ping", "pong"})
    /\ LET k == Head(net[e][d])
       IN  IF k.type = "pong"
           THEN /\ called' = [called EXCEPT ![k.msg] = @ \cup {"remote"}]
                /\ stack' = [stack EXCEPT ![d] = <<Call("callback", k.msg)>>]
           ELSE /\ stack' = [stack EXCEPT ![d] =
                                <<Post("pong", k.msg, "ack", 0, 0, "none")>>]
                /\ UNCHANGED called
    /\ Consume(d, e)
    /\ UNCHANGED <<option, msgs, origin, sendq, target>>

-----------------------------------------------------------------------------
Run(e) ==
    \/ PostNow(e) \/ PostQueued(e) \/ send_complete(e) \/ free_state(e) \/ Return(e)

Receive(d, e) ==
    \/ dispatch_packed(d, e)
    \/ dispatch_envelope_packed(d, e)
    \/ dispatch_envelope_metadata(d, e)
    \/ dispatch_envelope_header(d, e)
    \/ dispatch_data(d, e)
    \/ dispatch_remotefn(d, e)

Application(e, d, p) ==
    Send(e, d, p) \/ SendImmediate(e, d, p) \/ QueueImmediate(e, d, p)

Advance(e) ==
    Run(e) \/ \E d \in Endpoints \ {e} : Inject(e, d) \/ Receive(e, d)

Next ==
    \/ \E e \in Endpoints : Advance(e)
    \/ \E e, d \in Endpoints, p \in Shapes : e # d /\ Application(e, d, p)

Spec == Init /\ [][Next]_vars

\* Contexts are advanced as long as one of them has something to do; the
\* application is never obliged to send.
Fairness == WF_vars(\E e \in Endpoints : Advance(e))

FairSpec == Spec /\ Fairness

-----------------------------------------------------------------------------
(* Properties.                                                             *)

Opens(k) == k.type = "longmeta" \/ (k.type = "envelope" /\ msgs[k.msg].shape.data > 0)

Follows(k) == k.type \in {"longheader", "data"}

\* The assertions of the device's setConnection and getConnection: an
\* envelope finds the connection of its origin clear, and a header or data
\* packet finds it set.
ConnectionSet ==
    \A e, d \in Endpoints :
        net[e][d] # <<>> =>
            LET k == Head(net[e][d])
            IN  /\ Opens(k) => conn[d][e] = NoConnection
                /\ Follows(k) => conn[d][e] # NoConnection

\* The single connection per origin is enough: a header or data packet always
\* arrives while the connection is that of its own send, whatever the
\* application sends from inside callbacks in between.
ConnectionMatches ==
    /\ ConnectionSet
    /\ \A e, d \in Endpoints :
          net[e][d] # <<>> =>
              LET k == Head(net[e][d])
              IN  Follows(k) => conn[d][e].msg = k.msg

\* Point-to-point order: the dispatch functions of the sends from one origin
\* run at the target in the order of the sends, whichever mix of immediate,
\* short, envelope and long-header protocols carried them.
DispatchOrder ==
    \A e, d \in Endpoints :
        IsPrefix(SelectSeq(dispatched[d], LAMBDA m : msgs[m].from = e),
                 SelectSeq([i \in Sends |-> i],
                           LAMBDA m : msgs[m].from = e /\ msgs[m].to = d))

\* When the receive completes, the target buffer holds exactly the bytes of
\* that send, each once and in order.
DataIntact ==
    \A m \in Sends : "received" \in called[m] =>
        got[m] = [i \in 1 .. msgs[m].shape.data |-> <<m, i>>]

\* The remote completion callback means what it says: it runs only after the
\* target completed the receive and after the local callback.
RemoteAfterReceive ==
    \A m \in Sends : "remote" \in called[m] => {"local", "received"} \subseteq called[m]

Uses(x, m) == x.msg = m /\ IF x.op = "post" THEN x.slot # "ack" ELSE x.op # "callback"

\* The send state outlives every use of it: once freeState ran, no queued
\* post and no pending completion refers to it, and no two queued posts
\* share one of its model_state_t.
StateInUse ==
    \A m \in Sends :
        LET e == msgs[m].from
            q == sendq[e][msgs[m].to]
        IN  /\ origin[m].state = "freed" =>
                  /\ \A i \in DOMAIN q : ~Uses(q[i].post, m)
                  /\ \A i \in DOMAIN stack[e] : ~Uses(stack[e][i], m)
            /\ \A i, j \in DOMAIN q :
                  i # j /\ Uses(q[i].post, m) /\ Uses(q[j].post, m)
                  => q[i].post.slot # q[j].post.slot

Finished(m) ==
    /\ m \in Sends
    /\ "received" \in called[m]
    /\ msgs[m].shape.kind # "immediate" => "local" \in called[m]
    /\ msgs[m].shape.remote => "remote" \in called[m]
    /\ origin[m].state # "live"

\* Every accepted send is received, its callbacks run and its state is freed.
\* Sends are finitely many, so that this is a state the system reaches and keeps.
EverySendCompletes == <>[](\A m \in Sends : Finished(m))

=============================================================================
