---------------------------- MODULE RmwOverSend ----------------------------
(***************************************************************************)
(* p2p/protocols/rmw/RmwOverSend.h: read-modify-write of one word at the   *)
(* target, applied by the dispatch of its only packet.  A fetch is         *)
(* complete when the original value comes back, any other operation when   *)
(* its packet was handed to the device.                                    *)
(***************************************************************************)
EXTENDS Rma, Bitwise

CONSTANT Width      \* bits of the word

VARIABLES
    word,       \* per endpoint, the word that operations modify
    original,   \* per operation, the value its target state sends back
    local,      \* per operation, the value stored for a fetch
    applied     \* per endpoint, the operations that modified its word, in order

rmwVars == <<word, original, local, applied>>

RmwInit ==
    /\ word = [e \in Endpoints |-> 0]
    /\ original = [i \in Operations |-> 0]
    /\ local = [i \in Operations |-> -1]
    /\ applied = [e \in Endpoints |-> <<>>]

\* The new value of a word w: a comparison that fails changes nothing, and a
\* modify operation outside the five is none.
Modified(p, w) ==
    IF p.compare /\ p.test # w THEN w
    ELSE CASE p.modify = "SET" -> p.value
           [] p.modify = "ADD" -> (w + p.value) % 2^Width
           [] p.modify = "OR"  -> w | p.value
           [] p.modify = "AND" -> w & p.value
           [] p.modify = "XOR" -> w ^^ p.value
           [] OTHER -> w

rmw_start(e) ==
    /\ Begin(e, "rmw")
    /\ LET i == started + 1
           p == program[i]
       IN  /\ isPeer(p.to)
           /\ state' = [state EXCEPT ![i] = "live"]
           /\ Push(e, <<Post("rmw", i, "msg", 0, 0,
                             IF p.fetch THEN "none" ELSE "origin_done")>>)
    /\ UNCHANGED <<channels, program, target, pipe, conn, got, called, rmwVars>>

origin_done(e) ==
    /\ Top(e, "origin_done")
    /\ LET i == Head(stack[e]).msg
       IN  Done(i) /\ Replace(e, <<Call("callback", i), Call("rmw_return", i)>>)
    /\ UNCHANGED <<channels, program, started, state, target, pipe, conn, got, rmwVars>>

rmw_return(e) ==
    /\ Top(e, "rmw_return")
    /\ FreeOrigin(Head(stack[e]).msg)
    /\ Replace(e, <<>>)
    /\ UNCHANGED <<channels, program, started, target, pipe, conn, got, called, rmwVars>>

\* Mutant: the value sent back is read after the modification.
DispatchReturnsNew(d, e) ==
    /\ Arrives(d, e, {"rmw"})
    /\ LET i == Head(net[e][d]).msg
           p == program[i]
       IN  /\ word' = [word EXCEPT ![d] = Modified(p, @)]
           /\ applied' = [applied EXCEPT ![d] = Append(@, i)]
           /\ IF p.fetch
              THEN /\ target' = [target EXCEPT ![i].state = "live"]
                   /\ original' = [original EXCEPT ![i] = Modified(p, word[d])]
                   /\ Push(d, <<Post("rmw_ack", i, "tmsg", 0, 0, "target_done")>>)
              ELSE UNCHANGED <<target, original, stack>>
    /\ Consume(d, e)
    /\ UNCHANGED <<sendq, program, started, state, pipe, conn, got, called, local>>

\* dispatch_fn
rmw_dispatch(d, e) ==
    /\ Arrives(d, e, {"rmw"})
    /\ LET i == Head(net[e][d]).msg
           p == program[i]
       IN  /\ word' = [word EXCEPT ![d] = Modified(p, @)]
           /\ applied' = [applied EXCEPT ![d] = Append(@, i)]
           /\ IF p.fetch
              THEN /\ target' = [target EXCEPT ![i].state = "live"]
                   /\ original' = [original EXCEPT ![i] = word[d]]
                   /\ Push(d, <<Post("rmw_ack", i, "tmsg", 0, 0, "target_done")>>)
              ELSE UNCHANGED <<target, original, stack>>
    /\ Consume(d, e)
    /\ UNCHANGED <<sendq, program, started, state, pipe, conn, got, called, local>>

\* Mutant: the target's state is never returned.
TargetKept(e) ==
    /\ Top(e, "target_done")
    /\ Replace(e, <<>>)
    /\ UNCHANGED <<channels, program, started, state, target, pipe, conn, got, called, rmwVars>>

target_done(e) ==
    /\ Top(e, "target_done")
    /\ FreeTarget(Head(stack[e]).msg)
    /\ Replace(e, <<>>)
    /\ UNCHANGED <<channels, program, started, state, pipe, conn, got, called, rmwVars>>

\* dispatch_ack_fn
rmw_dispatch_ack(d, e) ==
    /\ Arrives(d, e, {"rmw_ack"})
    /\ LET i == Head(net[e][d]).msg
       IN  /\ local' = [local EXCEPT ![i] = original[i]]
           /\ Done(i)
           /\ Push(d, <<Call("callback", i), Call("rmw_return", i)>>)
    /\ Consume(d, e)
    /\ UNCHANGED <<sendq, program, started, state, target, pipe, conn, got,
                   word, original, applied>>

RmwRun(e) == origin_done(e) \/ rmw_return(e) \/ target_done(e)

RmwReceive(d, e) == rmw_dispatch(d, e) \/ rmw_dispatch_ack(d, e)

=============================================================================
