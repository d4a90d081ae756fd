------------------------- MODULE DeterministicFence -------------------------
(***************************************************************************)
(* p2p/protocols/fence/deterministic/DeterministicFence.h.  The fence of   *)
(* one endpoint is an rts packet, its ack, and a fence of the dma model;   *)
(* the fence of all endpoints keeps up to AtOnce of them going and walks   *)
(* task and context numbers until `total` were started and completed.      *)
(***************************************************************************)
EXTENDS Rma, FiniteSetsExt

CONSTANT AtOnce     \* endpoint fences that all() starts, 4 in the code

VARIABLES
    fences,     \* the endpoint fences: origin, target, operation, `active`
    dma,        \* endpoint fences whose dma fence has not completed
    all         \* per operation, the all_state_t of a fence of all endpoints

fenceVars == <<fences, dma, all>>

Total == TaskCount * ContextCount

\* Mutant: the origin's own endpoint counts as completed from the start.
AllStateSelfDone ==
    [started |-> 0, completed |-> 1, next |-> 0, count |-> Least(Total, AtOnce)]

\* fence_state_t::all, with `count` for the local variable of all().
AllState ==
    [started |-> 0, completed |-> 0, next |-> 0, count |-> Least(Total, AtOnce)]

FenceInit ==
    /\ fences = <<>>
    /\ dma = {}
    /\ all = [i \in Operations |-> AllState]

\* The endpoint that task_next = context_next = n stand for.
Endpoint(i, n) == <<(n + program[i].from[1]) % TaskCount, n % ContextCount>>

\* endpoint(): two completions are awaited.  The caller goes on with `rest`.
endpoint(e, d, i, rest) ==
    LET f == Len(fences) + 1
    IN  /\ fences' = Append(fences, [from |-> e, to |-> d, op |-> i, active |-> 2])
        /\ stack' = [stack EXCEPT ![e] =
              <<Post("rts", f, "pkt", 0, 0, "none"), Call("postDmaFence", f)>> \o rest]

fence_start(e) ==
    /\ Begin(e, "fence")
    /\ LET i == started + 1
       IN  /\ isPeer(program[i].to)
           /\ endpoint(e, program[i].to, i, stack[e])
    /\ UNCHANGED <<channels, program, state, target, pipe, conn, got, called, dma, all>>

\* The dma fence completes inside the call or later.
postDmaFence(e) ==
    /\ Top(e, "postDmaFence")
    /\ LET f == Head(stack[e]).msg
       IN  \/ Replace(e, <<Call("dma_done", f)>>) /\ UNCHANGED dma
           \/ Replace(e, <<>>) /\ dma' = dma \cup {f}
    /\ UNCHANGED <<channels, rmaVars, fences, all>>

advanceDma(e) ==
    /\ stack[e] = <<>>
    /\ \E f \in dma :
          /\ fences[f].from = e
          /\ Push(e, <<Call("dma_done", f)>>)
          /\ dma' = dma \ {f}
    /\ UNCHANGED <<channels, rmaVars, fences, all>>

\* Mutant: the first of the two completions completes the fence.
CompleteFirst(e, f, rest) ==
    /\ fences' = [fences EXCEPT ![f].active = 0]
    /\ stack' = [stack EXCEPT ![e] =
          (IF fences[f].active = 2 THEN <<Call("fence_fn", f)>> ELSE <<>>) \o rest]

\* The last of the two completions runs done_fn and returns the state.
Complete(e, f, rest) ==
    /\ fences' = [fences EXCEPT ![f].active = @ - 1]
    /\ stack' = [stack EXCEPT ![e] =
          (IF fences[f].active = 1 THEN <<Call("fence_fn", f)>> ELSE <<>>) \o rest]

dma_done(e) ==
    /\ Top(e, "dma_done")
    /\ Complete(e, Head(stack[e]).msg, Tail(stack[e]))
    /\ UNCHANGED <<channels, rmaVars, dma, all>>

rts_dispatch(d, e) ==
    /\ Arrives(d, e, {"rts"})
    /\ Push(d, <<Post("ack", Head(net[e][d]).msg, "ack", 0, 0, "none")>>)
    /\ Consume(d, e)
    /\ UNCHANGED <<sendq, rmaVars, fenceVars>>

ack_dispatch(d, e) ==
    /\ Arrives(d, e, {"ack"})
    /\ Complete(d, Head(net[e][d]).msg, <<>>)
    /\ Consume(d, e)
    /\ UNCHANGED <<sendq, rmaVars, dma, all>>

\* done_fn of an endpoint fence: the application's, or fence_done.
fence_fn(e) ==
    /\ Top(e, "fence_fn")
    /\ LET i == fences[Head(stack[e]).msg].op
       IN  IF program[i].kind = "fence"
           THEN Done(i) /\ Replace(e, <<Call("callback", i)>>)
           ELSE Replace(e, <<Call("fence_done", i)>>) /\ UNCHANGED called
    /\ UNCHANGED <<channels, program, started, state, target, pipe, conn, got, fenceVars>>

-----------------------------------------------------------------------------
(* The fence of all endpoints.                                             *)

all_start(e) ==
    /\ Begin(e, "all")
    /\ state' = [state EXCEPT ![started + 1] = "live"]
    /\ Push(e, <<Call("all_loop", started + 1)>>)
    /\ UNCHANGED <<channels, program, target, pipe, conn, got, called, fenceVars>>

\* One turn of the loop in all(): `count` endpoint fences are started, and
\* endpoints that the device does not reach count as started and completed.
all_loop(e) ==
    /\ Top(e, "all_loop")
    /\ LET i    == Head(stack[e]).msg
           a    == all[i]
           d    == Endpoint(i, a.next)
       IN  IF a.count = 0
           THEN Replace(e, <<>>) /\ UNCHANGED <<fences, all>>
           ELSE IF isPeer(d)
           THEN /\ all' = [all EXCEPT ![i] = [a EXCEPT
                      !.started = @ + 1, !.next = @ + 1, !.count = @ - 1]]
                /\ endpoint(e, d, i, stack[e])
           ELSE /\ all' = [all EXCEPT ![i] = [a EXCEPT
                      !.started = @ + 1, !.next = @ + 1, !.completed = @ + 1]]
                /\ UNCHANGED <<stack, fences>>
    /\ UNCHANGED <<channels, rmaVars, dma>>

\* How many endpoints the loop in fence_done passes over: those that the
\* device does not reach, up to the next peer or to `total`.
Skipped(i, a) ==
    IF a.started >= Total THEN 0
    ELSE Min({k \in 0 .. Total - a.started :
                 k = Total - a.started \/ isPeer(Endpoint(i, a.next + k))})

\* An endpoint fence completed: start the next one, or complete the whole.
fence_done(e) ==
    /\ Top(e, "fence_done")
    /\ LET i == Head(stack[e]).msg
           a == all[i]
           k == Skipped(i, a)
           b == [a EXCEPT !.completed = @ + 1 + k, !.started = @ + k, !.next = @ + k]
       IN  /\ state[i] = "live"
           /\ IF b.started < Total
              THEN /\ all' = [all EXCEPT ![i] = [b EXCEPT !.started = @ + 1, !.next = @ + 1]]
                   /\ endpoint(e, Endpoint(i, b.next), i, Tail(stack[e]))
                   /\ UNCHANGED <<state, called>>
              ELSE /\ all' = [all EXCEPT ![i] = b]
                   /\ UNCHANGED fences
                   /\ IF b.completed = Total
                      THEN /\ FreeOrigin(i) /\ Done(i)
                           /\ Replace(e, <<Call("callback", i)>>)
                      ELSE Replace(e, <<>>) /\ UNCHANGED <<state, called>>
    /\ UNCHANGED <<channels, program, started, target, pipe, conn, got, dma>>

FenceRun(e) ==
    \/ postDmaFence(e) \/ advanceDma(e) \/ dma_done(e)
    \/ fence_fn(e) \/ all_loop(e) \/ fence_done(e)

FenceReceive(d, e) == rts_dispatch(d, e) \/ ack_dispatch(d, e)

=============================================================================
