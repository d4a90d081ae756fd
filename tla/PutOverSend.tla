---------------------------- MODULE PutOverSend ----------------------------
(***************************************************************************)
(* p2p/protocols/put/PutOverSend*.h.  A put of few bytes is one packet;    *)
(* any other is a header, the serialized target type when there is one,    *)
(* and data packets, matched by the connection of their origin.  Typed     *)
(* data is packed into two buffers that are refilled as they complete.     *)
(***************************************************************************)
EXTENDS Rma

CONSTANTS
    MaxPacked,      \* maximum_packed_packet_payload
    MetadataFits    \* sizeof(metadata_packed_t) <= packet_model_metadata_bytes

put_send_envelope(i, p) ==
    <<Post("put_header", i, "header", 0, 0, "none")>>
    \o (IF p.type = 0 THEN <<>> ELSE <<Post("put_type", i, "type", 0, p.type, "none")>>)

\* Mutant: the completion function is on the first of two widths.
PutDataEarly(i, p) ==
    CASE p.type = 0 \/ p.bytes <= Payload ->
            <<Post("put_data", i, "data0", 0, p.bytes, "complete_origin")>>
      [] p.type > 0 /\ p.bytes > Payload /\ p.bytes <= 2 * Payload ->
            <<Post("put_data", i, "data0", 0, Payload, "complete_origin"),
              Post("put_data", i, "data1", Payload, p.bytes - Payload, "none")>>
      [] OTHER ->
            <<Post("put_data", i, "data0", 0, Payload, "put_complete_data"),
              Call("put_second_width", i)>>

put_send_data(i, p) ==
    CASE p.type = 0 \/ p.bytes <= Payload ->
            <<Post("put_data", i, "data0", 0, p.bytes, "complete_origin")>>
      [] p.type > 0 /\ p.bytes > Payload /\ p.bytes <= 2 * Payload ->
            <<Post("put_data", i, "data0", 0, Payload, "none"),
              Post("put_data", i, "data1", Payload, p.bytes - Payload, "complete_origin")>>
      [] OTHER ->
            <<Post("put_data", i, "data0", 0, Payload, "put_complete_data"),
              Call("put_second_width", i)>>

\* start_internal, for simple and typed puts.
put_start(e) ==
    /\ Begin(e, "put")
    /\ LET i == started + 1
           p == program[i]
       IN  /\ isPeer(p.to)
           /\ state' = [state EXCEPT ![i] = "live"]
           /\ IF p.bytes <= MaxPacked
              THEN Push(e, <<Post("packed", i, "packed", 0, p.bytes, "complete_origin")>>)
              ELSE Push(e, put_send_envelope(i, p) \o put_send_data(i, p))
           /\ pipe' = [pipe EXCEPT ![i] =
                 [remaining |-> p.bytes - 2 * Payload, start_count |-> 2, cursor |-> Payload]]
    /\ UNCHANGED <<channels, program, target, conn, got, called>>

\* The rest of send_data for more than two widths: the second buffer, packed
\* from where the cursor of the type machine stands by then.
put_second_width(e) ==
    /\ Top(e, "put_second_width")
    /\ LET i == Head(stack[e]).msg
       IN  /\ Repack(e, program[i].to, i, "data1", pipe[i].cursor)
           /\ pipe' = [pipe EXCEPT ![i].cursor = @ + Payload]
           /\ Replace(e, <<Post("put_data", i, "data1", pipe[i].cursor, Payload,
                                "put_complete_data")>>)
    /\ UNCHANGED <<net, program, started, state, target, conn, got, called>>

\* A pipeline buffer completed: refill the buffer that start_count names.  The
\* last width leaves bytes_remaining as it is.
put_complete_data(e) ==
    /\ Top(e, "put_complete_data")
    /\ LET i     == Head(stack[e]).msg
           q     == pipe[i]
           slot  == IF q.start_count % 2 = 0 THEN "data0" ELSE "data1"
           last  == q.remaining <= Payload
           width == IF last THEN q.remaining ELSE Payload
           done  == IF last THEN "complete_origin"
                    ELSE IF q.remaining <= 2 * Payload THEN "none" ELSE "put_complete_data"
       IN  /\ Repack(e, program[i].to, i, slot, q.cursor)
           /\ pipe' = [pipe EXCEPT ![i] =
                 [start_count |-> q.start_count + 1, cursor |-> q.cursor + width,
                  remaining |-> IF last THEN q.remaining ELSE q.remaining - Payload]]
           /\ Replace(e, <<Post("put_data", i, slot, q.cursor, width, done)>>)
    /\ UNCHANGED <<net, program, started, state, target, conn, got, called>>

\* The last data was handed to the device: done_fn ...
complete_origin(e) ==
    /\ Top(e, "complete_origin")
    /\ LET i == Head(stack[e]).msg
       IN  Done(i) /\ Replace(e, <<Call("callback", i), Call("put_return", i)>>)
    /\ UNCHANGED <<channels, program, started, state, target, pipe, conn, got>>

\* ... then send_remotefn, if a remote completion is wanted, and returnObject.
put_return(e) ==
    /\ Top(e, "put_return")
    /\ LET i == Head(stack[e]).msg
       IN  /\ FreeOrigin(i)
           /\ Replace(e, IF program[i].remote
                         THEN <<Post("put_ping", i, "ack", 0, 0, "none")>> ELSE <<>>)
    /\ UNCHANGED <<channels, program, started, target, pipe, conn, got, called>>

-----------------------------------------------------------------------------
(* The target.                                                             *)

\* A typed put in one packet carries the source packed by the target's type,
\* and where the metadata is in the payload, a buffer nobody filled.
PackedByte(i, k) ==
    LET p == program[i]
    IN  IF p.type = 0 \/ (MetadataFits /\ p.sametype) THEN <<i, k>> ELSE <<0, 0>>

put_dispatch_packed(d, e) ==
    /\ Arrives(d, e, {"packed"})
    /\ LET i == Head(net[e][d]).msg
       IN  got' = [got EXCEPT ![i] = [k \in 1 .. program[i].bytes |-> PackedByte(i, k)]]
    /\ Consume(d, e)
    /\ UNCHANGED <<sendq, stack, program, started, state, target, pipe, conn, called>>

put_dispatch_header(d, e) ==
    /\ Arrives(d, e, {"put_header"})
    /\ conn[d][e] = 0
    /\ LET i == Head(net[e][d]).msg
       IN  /\ conn' = [conn EXCEPT ![d][e] = i]
           /\ target' = [target EXCEPT ![i] =
                 [state |-> "live", type |-> program[i].type, data |-> program[i].bytes]]
    /\ Consume(d, e)
    /\ UNCHANGED <<sendq, stack, program, started, state, pipe, got, called>>

put_dispatch_type(d, e) ==
    /\ Arrives(d, e, {"put_type"})
    /\ conn[d][e] # 0
    /\ target' = [target EXCEPT ![conn[d][e]].type = @ - Least(Head(net[e][d]).len, @)]
    /\ Consume(d, e)
    /\ UNCHANGED <<sendq, stack, program, started, state, pipe, conn, got, called>>

\* Mutant: the connection is cleared one packet too early.
PutDataClearsEarly(d, e) ==
    /\ Arrives(d, e, {"put_data"})
    /\ conn[d][e] # 0
    /\ LET c     == conn[d][e]
           k     == Head(net[e][d])
           ncopy == Least(k.len, target[c].data)
           left  == target[c].data - ncopy
       IN  /\ got' = [got EXCEPT ![c] = @ \o Bytes(k.msg, k.from, ncopy)]
           /\ target' = [target EXCEPT ![c] =
                 [@ EXCEPT !.data = left, !.state = IF left <= Payload THEN "freed" ELSE @]]
           /\ conn' = [conn EXCEPT ![d][e] = IF left <= Payload THEN 0 ELSE c]
    /\ Consume(d, e)
    /\ UNCHANGED <<sendq, stack, program, started, state, pipe, called>>

put_dispatch_data(d, e) ==
    /\ Arrives(d, e, {"put_data"})
    /\ conn[d][e] # 0
    /\ LET c     == conn[d][e]
           k     == Head(net[e][d])
           ncopy == Least(k.len, target[c].data)
           left  == target[c].data - ncopy
       IN  /\ got' = [got EXCEPT ![c] = @ \o Bytes(k.msg, k.from, ncopy)]
           /\ target' = [target EXCEPT ![c] =
                 [@ EXCEPT !.data = left, !.state = IF left = 0 THEN "freed" ELSE @]]
           /\ conn' = [conn EXCEPT ![d][e] = IF left = 0 THEN 0 ELSE c]
    /\ Consume(d, e)
    /\ UNCHANGED <<sendq, stack, program, started, state, pipe, called>>

\* A ping is returned as a pong, a pong runs the remote completion function.
put_dispatch_remotefn(d, e) ==
    /\ Arrives(d, e, {"put_ping", "put_pong"})
    /\ LET k == Head(net[e][d])
       IN  IF k.type = "put_pong"
           THEN /\ called' = [called EXCEPT ![k.msg].remote = @ + 1]
                /\ Push(d, <<Call("callback", k.msg)>>)
           ELSE /\ Push(d, <<Post("put_pong", k.msg, "ack", 0, 0, "none")>>)
                /\ UNCHANGED called
    /\ Consume(d, e)
    /\ UNCHANGED <<sendq, program, started, state, target, pipe, conn, got>>

-----------------------------------------------------------------------------
PutRun(e) ==
    put_second_width(e) \/ put_complete_data(e) \/ complete_origin(e) \/ put_return(e)

PutReceive(d, e) ==
    \/ put_dispatch_packed(d, e) \/ put_dispatch_header(d, e) \/ put_dispatch_type(d, e)
    \/ put_dispatch_data(d, e) \/ put_dispatch_remotefn(d, e)

=============================================================================
