------------------------ MODULE PointToPointPrograms ------------------------
(***************************************************************************)
(* What the applications of MCPointToPoint, MCEagerSimple and MCOneSided   *)
(* send: shapes of eager sends and programs of one-sided operations.       *)
(* Packets and pipeline buffers have two bytes.                            *)
(***************************************************************************)
EXTENDS Integers

\* Four of six tasks are on the node.  From X the fence of all endpoints meets
\* X, a task elsewhere and Y, and starts the fences of Z and W as those complete.
X == <<0, 0>>
Y == <<2, 0>>
Z == <<3, 0>>
W == <<5, 0>>

SidedEndpoints == {X, Y, Z, W}

TwoEndpoints == {X, <<1, 0>>}

EagerEndpoints == {X, Y}
-----------------------------------------------------------------------------
EagerConfigurations ==
    {{}, {"FORCEOFF", "LONG_HEADER_DISABLE"}, {"QUEUE_IMMEDIATE_DISABLE"}, {"FORCEON"}}

Shape(kind, header, data, remote) ==
    [kind |-> kind, header |-> header, data |-> data, remote |-> remote]

\* A packet for each protocol: immediate, short, envelope alone, envelope and
\* data, long header alone, long header and data, one and two typed widths.
EagerShapes ==
    { Shape("immediate", 1, 1, FALSE), Shape("simple", 0, 1, TRUE),
      Shape("simple", 1, 0, FALSE), Shape("simple", 1, 3, TRUE),
      Shape("simple", 3, 0, FALSE), Shape("simple", 3, 2, FALSE),
      Shape("typed", 1, 2, FALSE), Shape("typed", 1, 3, TRUE) }

\* A typed send of more than two pipeline widths.
TypedShapes == { Shape("typed", 1, 5, FALSE) }
-----------------------------------------------------------------------------
put(a, b, n, t, r) ==
    [kind |-> "put", from |-> a, to |-> b, bytes |-> n, type |-> t, remote |-> r,
     sametype |-> TRUE]

get(a, b, n, t) == [kind |-> "get", from |-> a, to |-> b, bytes |-> n, type |-> t]

rmw(a, b, f, m, v) ==
    [kind |-> "rmw", from |-> a, to |-> b, fetch |-> f, compare |-> FALSE, modify |-> m,
     value |-> v, test |-> 0]

cas(a, b, t, v) ==
    [kind |-> "rmw", from |-> a, to |-> b, fetch |-> TRUE, compare |-> TRUE,
     modify |-> "SET", value |-> v, test |-> t]

fence(a, b) == [kind |-> "fence", from |-> a, to |-> b]

fence_all(a) == [kind |-> "all", from |-> a]

\* Typed gets of more than three and up to four widths, and typed puts of up to
\* two and of four: with other lengths states or buffers are used too long.
SidedPrograms ==
    {<<put(X, Y, 3, 0, TRUE), put(X, Y, 4, 3, TRUE), fence(X, Y)>>,
     <<put(X, Y, 1, 0, FALSE), get(X, Y, 7, 3), put(X, Y, 3, 1, TRUE)>>,
     <<put(X, Y, 8, 1, TRUE), put(Z, Y, 3, 0, FALSE), rmw(X, Y, FALSE, "ADD", 1)>>,
     <<rmw(X, Y, TRUE, "ADD", 3), cas(Z, Y, 3, 2), rmw(X, Y, FALSE, "XOR", 1)>>,
     <<rmw(X, Y, TRUE, "OR", 2), rmw(X, Y, TRUE, "AND", 1), rmw(Y, Y, TRUE, "ADD", 2)>>,
     <<put(X, W, 2, 0, FALSE), fence_all(X)>>,
     <<rmw(Z, X, FALSE, "ADD", 1), fence_all(Z)>>,
     <<get(X, Y, 8, 1), get(X, Y, 3, 0), fence(Y, X)>>,
     <<fence(X, Y), rmw(Y, X, FALSE, "SET", 1), fence(Y, X)>>}

\* A fence of all endpoints when half of the tasks are on other nodes.
FenceAllPrograms == {<<fence_all(X)>>}

\* A typed get that fits one packet.
TypedGetPrograms == {<<get(X, Y, 2, 1)>>}
=============================================================================
