-------------------------- MODULE MultinomialTree --------------------------
(***************************************************************************)
(* algorithms/schedule/MultinomialTree.h on TopologyMap of                 *)
(* MultinomialMap.h: who sends to whom in which phase of a barrier,        *)
(* allreduce, reduce or broadcast.  A power of two of the ranks exchange   *)
(* in phases 1, 2, ...; each of the others, an auxiliary, hands over to a  *)
(* peer before them and hears from it after them.                          *)
(*                                                                         *)
(* n is the number of ranks, t is T_MaxRadix and p a rank relative to the  *)
(* root.  The codes ALL_PHASES, NOT_RECV_PHASE... are sets of phases.      *)
(***************************************************************************)
EXTENDS Integers, Bitwise, FiniteSetsExt

Log2(n) == Max({k \in 0 .. n : 2^k <= n})

getRadix(n, t) ==
    IF t >= 8 /\ n <= 4096 /\ Log2(n) % 3 = 0 THEN 8
    ELSE IF t >= 4 /\ Log2(n) % 2 = 0 THEN 4
    ELSE 2

logradix(n, t) == Log2(getRadix(n, t))

nphbino(n, t) == Log2(n) \div logradix(n, t)

hnranks(n) == 2^Log2(n)

isAuxProc(n, p) == p >= hnranks(n)

isPeerProc(n, p) == p < n - hnranks(n)

\* hasAuxPhases adds one to the phases of the power of two, which start at 1.
maxphases(n, t) == nphbino(n, t) + 1 + (IF hnranks(n) # n THEN 1 ELSE 0)

\* ffs: the position of the lowest bit set, from 1.
ffs(p) == 1 + Min({k \in 0 .. p : (p \div 2^k) % 2 = 1})

\* Mutant: the comparison is off by one.
ReachPhaseEarly(n, t, p) == Min({k \in 1 .. p + 1 : getRadix(n, t)^k >= p})

\* The first phase of a broadcast in which p is within reach of the root.
ReachPhase(n, t, p) == Min({k \in 1 .. p + 1 : getRadix(n, t)^k >= p + 1})

\* setupContext of an auxiliary.
AuxContext(n, t, op) ==
    LET last == maxphases(n, t) - 1
    IN  [start   |-> IF op = "BROADCAST" THEN last ELSE 0,
         nphases |-> IF op \in {"BROADCAST", "REDUCE"} THEN 1 ELSE nphbino(n, t) + 2,
         send    |-> {}, recv |-> {},
         auxsend |-> IF op = "BROADCAST" THEN {} ELSE {0},
         auxrecv |-> IF op = "REDUCE" THEN {} ELSE {last}]

\* setupContext of a rank of the power of two.
BinoContext(n, t, op, p) ==
    LET last  == maxphases(n, t) - 1
        peer  == isPeerProc(n, p)
        all   == 1 .. nphbino(n, t)
        first == IF peer /\ op # "BROADCAST" THEN 0 ELSE 1
        end   == IF peer /\ op # "REDUCE" THEN last ELSE nphbino(n, t)
        c     == [start |-> first, nphases |-> end - first + 1,
                  auxrecv |-> IF peer /\ op # "BROADCAST" THEN {0} ELSE {},
                  auxsend |-> IF peer /\ op # "REDUCE" THEN {last} ELSE {},
                  send |-> all, recv |-> all]
    IN  CASE op \in {"BARRIER", "ALLREDUCE"} -> c
          [] op = "REDUCE" /\ p = 0 -> [c EXCEPT !.send = {}]
          [] op = "BROADCAST" /\ p = 0 -> [c EXCEPT !.recv = {}]
          [] op = "REDUCE" /\ p # 0 ->
                [c EXCEPT !.nphases = ffs(p) + 1 - first, !.send = {ffs(p)},
                          !.recv = all \ {ffs(p)}]
          [] op = "BROADCAST" /\ p # 0 ->
                LET r == ReachPhase(n, t, p)
                IN  [c EXCEPT !.start = r, !.nphases = @ - (r - 1), !.recv = {r},
                              !.send = all \ {r}]

Context(n, t, op, p) ==
    IF isAuxProc(n, p) THEN AuxContext(n, t, op) ELSE BinoContext(n, t, op, p)

Phases(c) == c.start .. c.start + c.nphases - 1

\* BINO: the ranks that differ from p in one digit.
BINO(n, t, p, ph) ==
    {p ^^ (r * 2^((ph - 1) * logradix(n, t))) : r \in 1 .. getRadix(n, t) - 1}

\* getPeerForAux and getAuxForPeer
Partner(n, p) == IF isAuxProc(n, p) THEN p - hnranks(n) ELSE p + hnranks(n)

\* NEXT_NODES, for the phases in which p sends (bino) or turns to its partner.
NEXT_NODES(n, t, p, ph, bino, aux) ==
    CASE ph \in aux -> {Partner(n, p)}
      [] ph \in bino \ aux -> BINO(n, t, p, ph)
      [] OTHER -> {}

getDstTopology(n, t, op, p, ph) ==
    LET c == Context(n, t, op, p) IN NEXT_NODES(n, t, p, ph, c.send, c.auxsend)

getSrcTopology(n, t, op, p, ph) ==
    LET c == Context(n, t, op, p) IN NEXT_NODES(n, t, p, ph, c.recv, c.auxrecv)

=============================================================================
