------------------------------ MODULE OneSided ------------------------------
(***************************************************************************)
(* The one-sided protocols of a context on one packet device: put, get,    *)
(* read-modify-write and fence share its channels and its connections.     *)
(***************************************************************************)
EXTENDS PutOverSend, GetOverSend, RmwOverSend, DeterministicFence

vars == <<sendq, net, stack, rmaVars, rmwVars, fenceVars>>

Init == RmaInit /\ RmwInit /\ FenceInit

\* Replies go to the origin of their operation.
Destination(x) ==
    CASE x.type = "rts" -> fences[x.msg].to
      [] x.type = "ack" -> fences[x.msg].from
      [] x.type \in {"put_pong", "get_data", "rmw_ack"} -> program[x.msg].from
      [] OTHER -> program[x.msg].to

PostNow(e) ==
    /\ Top(e, "post") /\ PostNowTo(e, Destination(Head(stack[e])))
    /\ UNCHANGED <<rmaVars, rmwVars, fenceVars>>

PostQueued(e) ==
    /\ Top(e, "post") /\ PostQueuedTo(e, Destination(Head(stack[e])))
    /\ UNCHANGED <<rmaVars, rmwVars, fenceVars>>

Return(e) == ReturnFrom(e) /\ UNCHANGED <<rmaVars, rmwVars, fenceVars>>

Inject(e, d) == InjectTo(e, d) /\ UNCHANGED <<rmaVars, rmwVars, fenceVars>>

\* The application starts an operation.
Start(e) ==
    \/ (put_start(e) \/ get_start(e)) /\ UNCHANGED <<rmwVars, fenceVars>>
    \/ rmw_start(e) /\ UNCHANGED fenceVars
    \/ (fence_start(e) \/ all_start(e)) /\ UNCHANGED rmwVars

Run(e) ==
    \/ PostNow(e) \/ PostQueued(e) \/ Return(e)
    \/ (PutRun(e) \/ GetRun(e)) /\ UNCHANGED <<rmwVars, fenceVars>>
    \/ RmwRun(e) /\ UNCHANGED fenceVars
    \/ FenceRun(e) /\ UNCHANGED rmwVars

Receive(d, e) ==
    \/ (PutReceive(d, e) \/ GetReceive(d, e)) /\ UNCHANGED <<rmwVars, fenceVars>>
    \/ RmwReceive(d, e) /\ UNCHANGED fenceVars
    \/ FenceReceive(d, e) /\ UNCHANGED rmwVars

\* An advance of a context: it goes on with a call, injects or dispatches.
Advance(e) == Run(e) \/ \E d \in Endpoints : Inject(e, d) \/ Receive(e, d)

Next == \E e \in Endpoints : Start(e) \/ Advance(e)

Spec == Init /\ [][Next]_vars

\* Contexts are advanced as long as one of them has something to do; the
\* application is never obliged to start an operation.
Fairness == WF_vars(\E e \in Endpoints : Advance(e))

FairSpec == Spec /\ Fairness

-----------------------------------------------------------------------------
(* Properties.                                                             *)

Transfers == {i \in Operations : program[i].kind \in {"put", "get"}}

Rmws == {i \in Operations : program[i].kind = "rmw"}

\* The assertions on _connection, which all protocols of the device share: a
\* header that needs the connection of its origin finds it clear, and every
\* packet that follows finds the connection of its own operation, with the
\* whole type before any typed data.
ConnectionsKept ==
    \A e, d \in Endpoints :
        net[e][d] # <<>> =>
            LET k == Head(net[e][d])
            IN  /\ k.type = "put_header"
                   \/ (k.type = "get_header" /\ program[k.msg].type > 0)
                   => conn[d][e] = 0
                /\ k.type \in {"put_type", "get_type", "put_data"} => conn[d][e] = k.msg
                /\ k.type = "put_data" => target[k.msg].type = 0

\* What a completion means: when the done function of a get ran, all its bytes
\* are in place and in order; when the remote completion of a put ran, all its
\* bytes are at the target; and no callback runs twice.
CompletionMeansDone ==
    \A i \in Transfers :
        /\ called[i].done <= 1 /\ called[i].remote <= called[i].done
        /\ (program[i].kind = "get" /\ called[i].done = 1) \/ called[i].remote = 1
           => got[i] = Bytes(i, 0, program[i].bytes)

\* Effects: all bytes stored, or the word modified.
TookEffect(i) ==
    IF i \in Transfers THEN Len(got[i]) = program[i].bytes
    ELSE \E k \in DOMAIN applied[program[i].to] : applied[program[i].to][k] = i

\* A fence synchronizes: when its done function runs, every transfer that its
\* origin started before, to the fenced endpoint or to any endpoint for a
\* fence of all, has taken effect.
FenceFlushes ==
    \A i \in Operations :
        program[i].kind \in {"fence", "all"} /\ called[i].done > 0 =>
            \A j \in (Transfers \cup Rmws) \cap 1 .. i :
                /\ program[j].from = program[i].from
                /\ program[i].kind = "all" \/ program[j].to = program[i].to
                => TookEffect(j)

\* The fence of all endpoints completes once, and only after the fence of
\* every endpoint that the device reaches has completed: those that all()
\* starts and those that fence_done starts as others complete.  Tasks have one
\* context each, and the device reaches at least AtOnce of them.
AllMeansAll ==
    \A i \in Operations :
        program[i].kind = "all" =>
            /\ called[i].done <= 1
            /\ called[i].done = 1 =>
                  \A d \in Endpoints : isPeer(d) =>
                      \E f \in DOMAIN fences :
                          fences[f].op = i /\ fences[f].to = d /\ fences[f].active = 0

\* The value of a word after the operations s, starting from zero.
After[s \in Seq(Nat)] ==
    IF s = <<>> THEN 0
    ELSE Modified(program[s[Len(s)]], After[SubSeq(s, 1, Len(s) - 1)])

\* Read-modify-writes of all origins take effect one at a time and once each,
\* those of one origin in the order it started them, and every fetch returns
\* the value that the word had just before.
RmwSequential ==
    \A d \in Endpoints :
        LET s == applied[d]
        IN  /\ word[d] = After[s]
            /\ \A j, k \in DOMAIN s :
                  j < k => s[j] # s[k] /\ (program[s[j]].from = program[s[k]].from => s[j] < s[k])
            /\ \A k \in DOMAIN s : local[s[k]] # -1 => local[s[k]] = After[SubSeq(s, 1, k - 1)]

TargetSlots == {"tdata0", "tdata1", "tmsg"}

\* A post or call that refers to the origin's or the target's state of i.
UsesOrigin(x, i) ==
    /\ x.msg = i
    /\ IF x.op = "post"
       THEN x.type \notin {"rts", "ack"} /\ x.slot \notin TargetSlots \cup {"ack"}
       ELSE x.op \in {"put_second_width", "put_complete_data", "complete_origin",
                      "put_return", "origin_done", "get_return", "rmw_return", "fence_done"}

UsesTarget(x, i) ==
    /\ x.msg = i
    /\ IF x.op = "post" THEN x.type \notin {"rts", "ack"} /\ x.slot \in TargetSlots
       ELSE x.op \in {"get_second_width", "get_complete_data", "target_done"}

\* "No more data packets will be received on this connection"
\* (GetOverSend_data_impl.h:328): when the origin has the last byte of a get
\* and has returned its state, no data packet for it is on the way.
NoMoreData ==
    \A e, d \in Endpoints :
        \A k \in DOMAIN net[e][d] :
            net[e][d][k].type = "get_data" => state[net[e][d][k].msg] # "freed"

\* The transfers whose typed data is packed into two buffers in turn.
Pipelined(i) ==
    /\ i \in Transfers /\ program[i].type > 0
    /\ program[i].kind = "get" \/ program[i].bytes > 2 * Payload

\* State objects outlive their uses, of every operation but the pipelined
\* transfers: once complete_origin, dispatch_data, origin_done or fence_done has
\* returned one, no queued post and no pending call refers to it, although the
\* posts before the last one have no completion function; and no two queued
\* posts share a buffer.
StateInUse ==
    \A i \in {j \in Operations : ~Pipelined(j)}, e, d \in Endpoints :
        LET q == sendq[e][d]
        IN  /\ \A j, k \in DOMAIN q :
                  LET x == q[j].post
                      y == q[k].post
                  IN  j < k /\ x.msg = i /\ y.msg = i /\ x.slot = y.slot
                      => x.slot = "ack" \/ x.type # y.type
            /\ state[i] = "freed" =>
                  /\ \A k \in DOMAIN q : ~UsesOrigin(q[k].post, i)
                  /\ \A k \in DOMAIN stack[e] : ~UsesOrigin(stack[e][k], i)
            /\ target[i].state = "freed" =>
                  /\ \A k \in DOMAIN q : ~UsesTarget(q[k].post, i)
                  /\ \A k \in DOMAIN stack[e] : ~UsesTarget(stack[e][k], i)

Finished(i) ==
    LET p == program[i]
    IN  /\ called[i].done = 1
        /\ state[i] # "live" /\ target[i].state # "live"
        /\ p.kind = "put" /\ p.remote => called[i].remote = 1

\* Every operation completes, and its states are returned.  Programs are
\* finite, so that this is a state the system reaches and stays in.
EveryOperationCompletes == <>[](\A i \in Started : Finished(i))

=============================================================================
