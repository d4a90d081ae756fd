---------------------------- MODULE GetOverSend ----------------------------
(***************************************************************************)
(* p2p/protocols/get/GetOverSend*.h.  The origin sends a header, and the   *)
(* serialized type of the target's data when it is not contiguous; the     *)
(* target sends the data back in packets that name the origin's state.     *)
(***************************************************************************)
EXTENDS Rma

\* The header, and the type when the target's data is not contiguous.
get_send_envelope(i, p) ==
    <<Post("get_header", i, "header", 0, 0, "none")>>
      \o (IF p.type = 0 THEN <<>>
          ELSE <<Post("get_type", i, "type", 0, p.type, "none")>>)

\* get, for simple and typed parameters.
get_start(e) ==
    /\ Begin(e, "get")
    /\ LET i == started + 1
           p == program[i]
       IN  /\ isPeer(p.to)
           /\ state' = [state EXCEPT ![i] = "live"]
           /\ Push(e, get_send_envelope(i, p))
    /\ UNCHANGED <<channels, program, target, pipe, conn, got, called>>

-----------------------------------------------------------------------------
(* The target.                                                             *)

\* Contiguous data is sent at once; a type is awaited on the connection.
get_dispatch_header(d, e) ==
    /\ Arrives(d, e, {"get_header"})
    /\ LET i == Head(net[e][d]).msg
           p == program[i]
       IN  /\ target' = [target EXCEPT ![i] =
                 [state |-> "live", type |-> p.type, data |-> p.bytes]]
           /\ IF p.type = 0
              THEN /\ Push(d, <<Post("get_data", i, "tdata0", 0, p.bytes, "get_complete_data")>>)
                   /\ UNCHANGED <<pipe, conn>>
              ELSE /\ conn[d][e] = 0
                   /\ conn' = [conn EXCEPT ![d][e] = i]
                   /\ pipe' = [pipe EXCEPT ![i].remaining = p.bytes]
                   /\ UNCHANGED stack
    /\ Consume(d, e)
    /\ UNCHANGED <<sendq, program, started, state, got, called>>

\* send_data for a type.  Up to two widths are posted outright, and neither
\* bytes_remaining nor start_count is set for them.
get_send_data(i, n) ==
    CASE n <= Payload ->
            <<Post("get_data", i, "tdata0", 0, n, "get_complete_data")>>
      [] n > Payload /\ n <= 2 * Payload ->
            <<Post("get_data", i, "tdata0", 0, Payload, "none"),
              Post("get_data", i, "tdata1", Payload, n - Payload, "get_complete_data")>>
      [] OTHER ->
            <<Post("get_data", i, "tdata0", 0, Payload, "get_complete_data"),
              Call("get_second_width", i)>>

\* A packet of the type; the last one clears the connection and sends.
get_dispatch_type(d, e) ==
    /\ Arrives(d, e, {"get_type"})
    /\ conn[d][e] # 0
    /\ LET c    == conn[d][e]
           left == target[c].type - Least(Head(net[e][d]).len, target[c].type)
           n    == pipe[c].remaining
       IN  /\ target' = [target EXCEPT ![c].type = left]
           /\ IF left > 0
              THEN UNCHANGED <<pipe, conn, stack>>
              ELSE /\ conn' = [conn EXCEPT ![d][e] = 0]
                   /\ Push(d, get_send_data(c, n))
                   /\ IF n <= 2 * Payload
                      THEN \E s \in {0, 1} :
                              pipe' = [pipe EXCEPT ![c] =
                                 [remaining |-> n, start_count |-> s, cursor |-> n]]
                      ELSE pipe' = [pipe EXCEPT ![c] =
                              [remaining |-> n - 2 * Payload, start_count |-> 2,
                               cursor |-> Payload]]
    /\ Consume(d, e)
    /\ UNCHANGED <<sendq, program, started, state, got, called>>

get_second_width(e) ==
    /\ Top(e, "get_second_width")
    /\ LET i == Head(stack[e]).msg
       IN  /\ Repack(e, program[i].from, i, "tdata1", pipe[i].cursor)
           /\ pipe' = [pipe EXCEPT ![i].cursor = @ + Payload]
           /\ Replace(e, <<Post("get_data", i, "tdata1", pipe[i].cursor, Payload,
                                "get_complete_data")>>)
    /\ UNCHANGED <<net, program, started, state, target, conn, got, called>>

\* A data post completed.  With nothing remaining the state is returned; else
\* the buffer that start_count names is refilled.
get_complete_data(e) ==
    /\ Top(e, "get_complete_data")
    /\ LET i     == Head(stack[e]).msg
           q     == pipe[i]
           slot  == IF q.start_count % 2 = 0 THEN "tdata0" ELSE "tdata1"
           width == Least(q.remaining, Payload)
           done  == IF q.remaining > Payload /\ q.remaining <= 2 * Payload
                    THEN "none" ELSE "get_complete_data"
       IN  IF q.remaining = 0
           THEN /\ FreeTarget(i)
                /\ Replace(e, <<>>)
                /\ UNCHANGED <<sendq, pipe>>
           ELSE /\ Repack(e, program[i].from, i, slot, q.cursor)
                /\ pipe' = [pipe EXCEPT ![i] =
                      [start_count |-> q.start_count + 1, cursor |-> q.cursor + width,
                       remaining |-> q.remaining - width]]
                /\ Replace(e, <<Post("get_data", i, slot, q.cursor, width, done)>>)
                /\ UNCHANGED target
    /\ UNCHANGED <<net, program, started, state, conn, got, called>>

-----------------------------------------------------------------------------
(* The origin.                                                             *)

\* Data is copied up to the length asked for; the last byte completes the get.
get_dispatch_data(d, e) ==
    /\ Arrives(d, e, {"get_data"})
    /\ LET k     == Head(net[e][d])
           i     == k.msg
           ncopy == Least(k.len, program[i].bytes - Len(got[i]))
       IN  /\ state[i] = "live"
           /\ got' = [got EXCEPT ![i] = @ \o Bytes(i, k.from, ncopy)]
           /\ IF Len(got[i]) + ncopy = program[i].bytes
              THEN Done(i) /\ Push(d, <<Call("callback", i), Call("get_return", i)>>)
              ELSE UNCHANGED <<called, stack>>
    /\ Consume(d, e)
    /\ UNCHANGED <<sendq, program, started, state, target, pipe, conn>>

get_return(e) ==
    /\ Top(e, "get_return")
    /\ FreeOrigin(Head(stack[e]).msg)
    /\ Replace(e, <<>>)
    /\ UNCHANGED <<channels, program, started, target, pipe, conn, got, called>>

-----------------------------------------------------------------------------
GetRun(e) == get_second_width(e) \/ get_complete_data(e) \/ get_return(e)

GetReceive(d, e) ==
    get_dispatch_header(d, e) \/ get_dispatch_type(d, e) \/ get_dispatch_data(d, e)

=============================================================================
