--------------------------- MODULE EagerPipeline ---------------------------
(***************************************************************************)
(* Typed eager sends of more than two pipeline widths,                     *)
(* EagerSimple_data_impl.h: send_data packs and posts two buffers, and     *)
(* complete_data packs and posts again as each completes, inside the post  *)
(* itself when the device completes it there.                              *)
(***************************************************************************)
EXTENDS EagerSimple

\* The second pipeline buffer, packed from where the cursor of the type
\* machine stands by then.
second_width(e) ==
    /\ Top(e, "second_width")
    /\ LET m == Head(stack[e]).msg
       IN  /\ Repack(e, msgs[m].to, m, "data1", origin[m].cursor)
           /\ origin' = [origin EXCEPT ![m].cursor = @ + Payload]
           /\ stack' = [stack EXCEPT ![e] =
                 <<Post("data", m, "data1", origin[m].cursor, Payload, "complete_data")>>
                 \o Tail(@)]
    /\ UNCHANGED <<option, msgs, net, target, called>>

\* A pipeline buffer completed: refill the buffer start_count points at.
complete_data(e) ==
    /\ Top(e, "complete_data")
    /\ LET m     == Head(stack[e]).msg
           o     == origin[m]
           slot  == IF o.start_count % 2 = 0 THEN "data0" ELSE "data1"
           last  == o.remaining <= Payload
           width == IF last THEN o.remaining ELSE Payload
           done  == IF last THEN "send_complete"
                    ELSE IF o.remaining <= 2 * Payload THEN "none" ELSE "complete_data"
       IN  /\ Repack(e, msgs[m].to, m, slot, o.cursor)
           /\ origin' = [origin EXCEPT
                 ![m].start_count = @ + 1,
                 ![m].cursor = @ + width,
                 ![m].remaining = IF last THEN @ ELSE @ - Payload]
           /\ stack' = [stack EXCEPT ![e] =
                 <<Post("data", m, slot, o.cursor, width, done)>> \o Tail(@)]
    /\ UNCHANGED <<option, msgs, net, target, called>>

PipelineNext == Next \/ \E e \in Endpoints : second_width(e) \/ complete_data(e)

PipelineSpec == Init /\ [][PipelineNext]_vars

=============================================================================
