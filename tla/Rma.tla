-------------------------------- MODULE Rma --------------------------------
(***************************************************************************)
(* What the one-sided protocols over packets share: the operations that    *)
(* the application starts, their origin and target states, and the         *)
(* device's one connection per origin.  Data bytes are pairs <<i, k>>:     *)
(* byte k of operation i.                                                  *)
(***************************************************************************)
EXTENDS PacketChannels

CONSTANTS
    Programs,       \* the sequences of operations to try
    TaskCount,      \* tasks of the job, 0 .. TaskCount - 1
    ContextCount,   \* contexts of a task
    LocalTasks      \* the tasks that the device reaches

VARIABLES
    program,    \* the operations of this behaviour, in the order they start
    started,    \* how many of them were started
    state,      \* per operation, its state object at the origin
    target,     \* per operation, its state object at the target
    pipe,       \* per operation, the pipeline that packs and sends typed data
    conn,       \* per target and origin, the operation in _connection, or 0
    got,        \* per operation, the data bytes stored so far, in order
    called      \* per operation, how often each callback of it ran

rmaVars == <<program, started, state, target, pipe, conn, got, called>>

Operations == DOMAIN program

Started == 1 .. started

isPeer(e) == e[1] \in LocalTasks

RmaInit ==
    /\ ChannelsInit
    /\ program \in Programs
    /\ started = 0
    /\ state = [i \in Operations |-> "none"]
    /\ target = [i \in Operations |-> [state |-> "none", type |-> 0, data |-> 0]]
    /\ pipe = [i \in Operations |-> [remaining |-> 0, start_count |-> 0, cursor |-> 0]]
    /\ conn = [d \in Endpoints |-> [e \in Endpoints |-> 0]]
    /\ got = [i \in Operations |-> <<>>]
    /\ called = [i \in Operations |-> [done |-> 0, remote |-> 0]]

\* The application at e starts the next operation, of the given kind.
Begin(e, kind) ==
    /\ started < Len(program) /\ MaySend(e)
    /\ program[started + 1].kind = kind /\ program[started + 1].from = e
    /\ started' = started + 1

Push(e, calls) == stack' = [stack EXCEPT ![e] = calls \o @]

\* The innermost call returns and makes further calls.
Replace(e, calls) == stack' = [stack EXCEPT ![e] = calls \o Tail(@)]

Bytes(i, from, len) == [k \in 1 .. len |-> <<i, from + k>>]

\* done_fn, then the rest of the handler.
Done(i) == called' = [called EXCEPT ![i].done = @ + 1]

\* returnObject of the origin's and of the target's state.
FreeOrigin(i) == state' = [state EXCEPT ![i] = "freed"]

FreeTarget(i) == target' = [target EXCEPT ![i].state = "freed"]

=============================================================================
