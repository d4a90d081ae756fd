------------------------- MODULE ShmemDispatchProofs -------------------------
(***************************************************************************)
(* Proofs about ShmemDispatch: the packets of a protocol are received in   *)
(* the order in which they arrived, none is lost, and none is left on the  *)
(* queue of a protocol that has registered all its receive functions.      *)
(***************************************************************************)
EXTENDS ShmemDispatch, TLAPS, FiniteSetTheorems, SequenceTheorems, WellFoundedInduction

USE ZenonT(60)

Total == SetCount * SetSize

TypeOK == /\ function \in [Ids -> {"unexpected", "user", "system"}]
          /\ ueQ \in [Sets -> Seq(Nat)]
          /\ arrived \in Seq(Ids)
          /\ received \in Seq(Nat)

\* The identifiers of the device are the last ones.  Nothing arrives and no
\* protocol registers before the device has them all.
SystemsAre(c) ==
  /\ \A i \in Ids : function[i] = "system" <=> i >= Total - c
  /\ c < SystemCount => arrived = <<>> /\ \A i \in Ids : function[i] # "user"

SystemLast == \E c \in 0..SystemCount : SystemsAre(c)

\* The identifiers of a protocol are the first ones of its set.
UsersAre(s, k) == \A i \in Ids : SetOf(i) = s => (function[i] = "user" <=> i % SetSize < k)

UsersFirst == \A s \in Sets : \E k \in 0..Needed[s] : UsersAre(s, k)

\* The queue of a set holds packets of the set, for functions its protocol is
\* going to register, in order of arrival.  The first of them has to wait.
QueueOf(s) ==
  /\ \A i \in DOMAIN ueQ[s] :
       /\ ueQ[s][i] \in DOMAIN arrived
       /\ SetOf(arrived[ueQ[s][i]]) = s
       /\ arrived[ueQ[s][i]] % SetSize < Needed[s]
  /\ \A i, j \in DOMAIN ueQ[s] : i < j => ueQ[s][i] < ueQ[s][j]
  /\ ueQ[s] # <<>> => function[arrived[ueQ[s][1]]] = "unexpected"

\* What was received had a receive function.
Known == \A i \in DOMAIN received : /\ received[i] \in DOMAIN arrived
                                    /\ function[arrived[received[i]]] # "unexpected"

\* What was received of a protocol arrived before what is still on its queue.
ReceivedFirst ==
  \A i \in DOMAIN received, s \in Sets : \A j \in DOMAIN ueQ[s] :
    SetOf(arrived[received[i]]) = s /\ function[arrived[received[i]]] = "user"
      => received[i] < ueQ[s][j]

\* Every packet that arrived was received or is on the queue of its set.
Accounted ==
  \A n \in DOMAIN arrived : \/ \E i \in DOMAIN received : received[i] = n
                            \/ \E i \in DOMAIN ueQ[SetOf(arrived[n])] :
                                 ueQ[SetOf(arrived[n])][i] = n

Queues == \A s \in Sets : QueueOf(s)

IInv == /\ TypeOK /\ SystemLast /\ UsersFirst
        /\ Queues /\ Known /\ ReceivedFirst /\ Accounted /\ SetOrder

-----------------------------------------------------------------------------
(* Identifiers and sets.                                                   *)

\* Least elements: the library's theorem on well-founded relations for < on Nat.
LEMMA LeastExists ==
  ASSUME NEW T, T \subseteq Nat, T # {}
  PROVE  \E x \in T : \A y \in T : x <= y
<1>. DEFINE R == OpToRel(<, Nat)
<1>1. IsWellFoundedOn(R, Nat)
  BY NatLessThanWellFounded
<1>2. \A x, y \in Nat : <<x, y>> \in R <=> x < y
  BY DEF OpToRel
<1>. HIDE DEF R
<1>3. PICK x \in T : \A y \in T : ~(<<y, x>> \in R)
  BY <1>1, WFMin
<1>4. \A y \in T : ~(y < x)
  BY <1>2, <1>3
<1>5. \A y \in T : x <= y
  BY SMTT(60), <1>4
<1>6. QED
  BY <1>5

LEMMA MinIs ==
  ASSUME NEW T \in SUBSET Nat, NEW m \in T, \A y \in T : m <= y
  PROVE  Min(T) = m
<1>1. \A x \in T : (\A y \in T : x <= y) => x = m
  BY SMTT(60)
<1>2. QED
  BY <1>1 DEF Min

LEMMA MaxIs ==
  ASSUME NEW T \in SUBSET Nat, NEW m \in T, \A y \in T : m >= y
  PROVE  Max(T) = m
<1>1. \A x \in T : (\A y \in T : x >= y) => x = m
  BY SMTT(60)
<1>2. QED
  BY <1>1 DEF Max

\* Multiples of a number are as far apart as the number is large.
LEMMA Multiples ==
  ASSUME NEW Q \in Nat \ {0}, NEW j \in Int, NEW k \in Int, j < k
  PROVE  j * Q + Q <= k * Q
<1>1. (j + 1) * Q <= k * Q
  BY SMTT(60)
<1>2. (j + 1) * Q = j * Q + Q
  BY SMTT(60)
<1>3. QED
  BY <1>1, <1>2

\* A number is a multiple and a rest in one way only.
LEMMA OneWay ==
  ASSUME NEW Q \in Nat \ {0}, NEW j \in Int, NEW k \in Int,
         NEW r \in 0..(Q - 1), NEW t \in 0..(Q - 1), j * Q + r = k * Q + t
  PROVE  j = k /\ r = t
<1>1. PICK a \in Int, b \in Int : a = j * Q /\ b = k * Q
  BY SMTT(60)
<1>2. j < k => a + Q <= b
  BY <1>1, Multiples
<1>3. k < j => b + Q <= a
  BY <1>1, Multiples
<1>4. j = k
  BY SMTT(60), <1>1, <1>2, <1>3
<1>5. QED
  BY SMTT(60), <1>1, <1>4

LEMMA Division ==
  ASSUME NEW Q \in Nat \ {0}, NEW n \in Int
  PROVE  n % Q \in 0..(Q - 1) /\ n \div Q \in Int /\ n = (n \div Q) * Q + (n % Q)
<1>1. n % Q \in 0..(Q - 1) /\ n \div Q \in Int /\ n = Q * (n \div Q) + (n % Q)
  BY SMTT(60)
<1>2. PICK d \in Int : d = n \div Q
  BY <1>1
<1>3. Q * d = d * Q
  BY SMTT(60)
<1>4. QED
  BY <1>1, <1>2, <1>3

\* SetOf and % take an identifier apart ...
LEMMA Parts ==
  ASSUME Deployment, NEW i \in Ids
  PROVE  /\ SetOf(i) \in Sets /\ i % SetSize \in 0..(SetSize - 1)
         /\ i = SetOf(i) * SetSize + (i % SetSize)
<1>1. SetSize \in Nat \ {0} /\ SetCount \in Nat \ {0} /\ Total \in Nat
  BY SMTT(60) DEF Deployment, Total
<1>2. i \in Nat /\ i < Total
  BY SMTT(60), <1>1 DEF Ids, Total
<1>. DEFINE d == i \div SetSize  r == i % SetSize
<1>3. r \in 0..(SetSize - 1) /\ d \in Int /\ i = d * SetSize + r
  BY SMTT(60), <1>1, <1>2, Division
<1>. HIDE DEF d, r
<1>4. d >= 0
  <2>1. SUFFICES ASSUME d < 0 PROVE FALSE
    BY SMTT(60), <1>3
  <2>2. d * SetSize + SetSize <= 0 * SetSize
    BY SMTT(60), <1>1, <1>3, <2>1, Multiples
  <2>3. PICK a \in Int : a = d * SetSize
    BY SMTT(60), <1>1, <1>3
  <2>4. 0 * SetSize = 0
    BY SMTT(60), <1>1
  <2>5. QED
    BY SMTT(60), <1>1, <1>2, <1>3, <2>2, <2>3, <2>4
<1>5. d < SetCount
  <2>1. SUFFICES ASSUME SetCount <= d PROVE FALSE
    BY SMTT(60), <1>1, <1>3
  <2>2. SetCount * SetSize <= d * SetSize
    BY SMTT(60), <1>1, <1>3, <2>1
  <2>3. PICK a \in Int : a = d * SetSize
    BY SMTT(60), <1>1, <1>3
  <2>4. Total <= a
    BY <2>2, <2>3 DEF Total
  <2>5. QED
    BY SMTT(60), <1>1, <1>2, <1>3, <2>3, <2>4
<1>6. d \in Sets
  BY SMTT(60), <1>1, <1>3, <1>4, <1>5 DEF Sets
<1>7. SetOf(i) = d /\ i % SetSize = r
  BY DEF SetOf, d, r
<1>8. QED
  BY <1>3, <1>6, <1>7

\* ... and a set and an offset make an identifier.
LEMMA Made ==
  ASSUME Deployment, NEW s \in Sets, NEW r \in 0..(SetSize - 1), NEW i, i = s * SetSize + r
  PROVE  i \in Ids /\ SetOf(i) = s /\ i % SetSize = r
<1>1. SetSize \in Nat \ {0} /\ SetCount \in Nat \ {0} /\ Total \in Nat
  BY SMTT(60) DEF Deployment, Total
<1>2. s \in Nat /\ s < SetCount
  BY SMTT(60), <1>1 DEF Sets
<1>3. PICK a \in Nat : a = s * SetSize
  BY SMTT(60), <1>1, <1>2
<1>4. a + SetSize <= Total
  BY SMTT(60), <1>1, <1>2, <1>3, Multiples DEF Total
<1>5. i \in Nat /\ i < Total
  BY SMTT(60), <1>1, <1>3, <1>4
<1>6. i \in Ids /\ i \in Int
  BY SMTT(60), <1>1, <1>5 DEF Ids, Total
<1>. DEFINE d == i \div SetSize  t == i % SetSize
<1>7. t \in 0..(SetSize - 1) /\ d \in Int /\ i = d * SetSize + t
  BY <1>1, <1>6, Division, Zenon
<1>. HIDE DEF d, t
<1>8. d = s /\ t = r
  BY SMTT(60), <1>1, <1>2, <1>7, OneWay
<1>9. QED
  BY <1>6, <1>8 DEF SetOf, d, t

\* The numbers the code's counters stand for.
LEMMA Sizes ==
  ASSUME Deployment
  PROVE  /\ SetSize \in Nat \ {0} /\ SetCount \in Nat \ {0} /\ Total \in Nat \ {0}
         /\ SystemCount \in 0..(Total - 1) /\ Ids = 0..(Total - 1)
         /\ \A s \in Sets : Needed[s] \in 0..SetSize
<1>1. SetSize \in Nat \ {0} /\ SetCount \in Nat \ {0} /\ SystemCount \in 0..(Total - 1)
  BY DEF Deployment, Total
<1>2. Total \in Int
  BY SMTT(60), <1>1 DEF Total
<1>3. Total \in Nat \ {0}
  BY SMTT(60), <1>1, <1>2
<1>4. QED
  BY <1>1, <1>3 DEF Deployment, Ids, Total

\* Cardinality(Users(s)) is the number of the first identifiers that are taken.
LEMMA UsersCounted ==
  ASSUME Deployment, NEW s \in Sets, NEW k \in 0..Needed[s], UsersAre(s, k)
  PROVE  Cardinality(Users(s)) = k
<1>1. SetSize \in Nat \ {0} /\ Needed[s] \in 0..SetSize /\ k \in Nat /\ k <= SetSize
  BY SMTT(60), Sizes
<1>2. PICK b \in Nat : b = s * SetSize
  BY SMTT(60), <1>1, Sizes DEF Sets
<1>3. ASSUME NEW i \in Users(s) PROVE i \in b..(b + k - 1)
  <2>1. i \in Ids /\ SetOf(i) = s /\ function[i] = "user"
    BY DEF Users
  <2>2. i % SetSize < k
    BY <2>1 DEF UsersAre
  <2>3. PICK r \in 0..(SetSize - 1) : r = i % SetSize
    BY <2>1, Parts
  <2>4. i = b + r
    BY <1>2, <2>1, <2>3, Parts
  <2>5. QED
    BY SMTT(60), <1>1, <2>2, <2>3, <2>4
<1>4. ASSUME NEW i \in b..(b + k - 1) PROVE i \in Users(s)
  <2>1. PICK r \in 0..(SetSize - 1) : i = b + r /\ r < k
    BY SMTT(60), <1>1
  <2>2. i \in Ids /\ SetOf(i) = s /\ i % SetSize = r
    BY <1>2, <2>1, Made
  <2>3. QED
    BY <2>1, <2>2 DEF Users, UsersAre
<1>5. Users(s) = b..(b + k - 1)
  BY <1>3, <1>4
<1>6. Cardinality(b..(b + k - 1)) = k
  BY SMTT(60), <1>1, FS_Interval
<1>7. QED
  BY <1>5, <1>6

LEMMA SystemsCounted ==
  ASSUME Deployment, NEW c \in 0..SystemCount, SystemsAre(c)
  PROVE  SystemReady <=> c = SystemCount
<1>1. Total \in Nat \ {0} /\ SystemCount \in 0..(Total - 1) /\ Ids = 0..(Total - 1)
  BY Sizes
<1>2. {i \in Ids : function[i] = "system"} = (Total - c)..(Total - 1)
  <2>1. \A i \in Ids : function[i] = "system" <=> i >= Total - c
    BY DEF SystemsAre
  <2>2. QED
    BY SMTT(60), <1>1, <2>1
<1>3. Cardinality((Total - c)..(Total - 1)) = c
  BY SMTT(60), <1>1, FS_Interval
<1>4. QED
  BY <1>2, <1>3 DEF SystemReady

\* registerUserDispatch finds the identifier after the ones the protocol has.
LEMMA FirstFree ==
  ASSUME Deployment, TypeOK, NEW s \in Sets, NEW k \in 0..(Needed[s] - 1), UsersAre(s, k),
         SystemsAre(SystemCount)
  PROVE  \E id \in Ids :
           /\ id = Min({i \in Ids : SetOf(i) = s /\ function[i] = "unexpected"})
           /\ SetOf(id) = s /\ id % SetSize = k /\ function[id] = "unexpected"
<1>1. /\ SetSize \in Nat \ {0} /\ Needed[s] \in 0..SetSize /\ k \in 0..(SetSize - 1)
      /\ k < Needed[s]
  BY SMTT(60), Sizes
<1>2. PICK b \in Nat : b = s * SetSize
  BY SMTT(60), <1>1, Sizes DEF Sets
<1>. DEFINE id == b + k
            T == {i \in Ids : SetOf(i) = s /\ function[i] = "unexpected"}
<1>3. id \in Ids /\ SetOf(id) = s /\ id % SetSize = k
  BY <1>1, <1>2, Made
<1>4. function[id] # "user"
  <2>1. ~(id % SetSize < k)
    BY SMTT(60), <1>1, <1>3
  <2>2. QED
    BY <1>3, <2>1 DEF UsersAre
<1>5. function[id] # "system"
  <2>1. id % SetSize < Needed[SetOf(id)]
    BY <1>1, <1>3
  <2>2. id < Total - SystemCount
    BY <1>3, <2>1 DEF Deployment, Total
  <2>3. ~(id >= Total - SystemCount)
    BY SMTT(60), <1>1, <2>2, Sizes
  <2>4. QED
    BY <1>3, <2>3 DEF SystemsAre
<1>6. function[id] = "unexpected"
  BY <1>3, <1>4, <1>5 DEF TypeOK
<1>7. ASSUME NEW i \in T PROVE id <= i
  <2>1. i \in Ids /\ SetOf(i) = s /\ function[i] = "unexpected"
    OBVIOUS
  <2>2. ~(i % SetSize < k)
    BY <2>1 DEF UsersAre
  <2>3. PICK r \in 0..(SetSize - 1) : r = i % SetSize
    BY <2>1, Parts
  <2>4. i = b + r
    BY <1>2, <2>1, <2>3, Parts
  <2>5. QED
    BY SMTT(60), <1>1, <2>2, <2>3, <2>4
<1>8. T \in SUBSET Nat /\ id \in T
  BY SMTT(60), <1>3, <1>6, Sizes
<1>. HIDE DEF id, T
<1>9. Min(T) = id
  BY <1>7, <1>8, MinIs
<1>10. QED
  BY <1>3, <1>6, <1>9 DEF T

\* registerSystemDispatch finds the identifier before the ones the device has.
LEMMA LastFree ==
  ASSUME Deployment, TypeOK, NEW c \in 0..(SystemCount - 1), SystemsAre(c)
  PROVE  \E id \in Ids :
           /\ id = Max({i \in Ids \ {0} : function[i] = "unexpected"})
           /\ id = Total - (c + 1) /\ function[id] = "unexpected"
<1>1. Total \in Nat \ {0} /\ SystemCount \in 0..(Total - 1) /\ Ids = 0..(Total - 1)
  BY Sizes
<1>. DEFINE id == Total - (c + 1)
            T == {i \in Ids \ {0} : function[i] = "unexpected"}
<1>2. id \in Ids /\ id # 0 /\ ~(id >= Total - c)
  BY SMTT(60), <1>1
<1>3. \A i \in Ids : function[i] # "user" /\ (function[i] = "system" <=> i >= Total - c)
  BY SMTT(60), <1>1 DEF SystemsAre
<1>4. function[id] = "unexpected"
  BY <1>2, <1>3 DEF TypeOK
<1>5. T \in SUBSET Nat /\ id \in T
  BY SMTT(60), <1>1, <1>2, <1>4
<1>6. ASSUME NEW i \in T PROVE id >= i
  <2>1. i \in Ids /\ ~(i >= Total - c)
    BY <1>3
  <2>2. QED
    BY SMTT(60), <1>1, <2>1
<1>. HIDE DEF id, T
<1>7. Max(T) = id
  BY <1>5, <1>6, MaxIs
<1>8. QED
  BY <1>2, <1>4, <1>7 DEF id, T

\* The packets registerUserDispatch delivers have a function then; the first one
\* that stays has none.
LEMMA Delivered ==
  ASSUME TypeOK, NEW s \in Sets, NEW id
  PROVE  LET q == ueQ[s]
             Waits(n) == arrived[n] # id /\ function[arrived[n]] = "unexpected"
         IN  /\ Deliverable(s, id) \in 0..Len(q)
             /\ \A i \in 1..Deliverable(s, id) : ~Waits(q[i])
             /\ Deliverable(s, id) < Len(q) => Waits(q[Deliverable(s, id) + 1])
<1>. DEFINE q == ueQ[s]
            Waits(n) == arrived[n] # id /\ function[arrived[n]] = "unexpected"
            I == {i \in DOMAIN q : Waits(q[i])}
            n == Deliverable(s, id)
<1>1. q \in Seq(Nat) /\ Len(q) \in Nat /\ DOMAIN q = 1..Len(q)
  BY SMTT(60) DEF TypeOK
<1>2. n = IF I # {} THEN Min(I) - 1 ELSE Len(q)
  BY <1>1 DEF Deliverable
<1>3. \A i \in 1..Len(q) : i \in I <=> Waits(q[i])
  BY <1>1
<1>4. I \subseteq 1..Len(q)
  BY <1>1
<1>. HIDE DEF q, Waits, I, n
<1>5. CASE I = {}
  BY SMTT(60), <1>1, <1>2, <1>3, <1>5 DEF q, Waits, n
<1>6. CASE I # {}
  <2>1. I \in SUBSET Nat
    BY SMTT(60), <1>1, <1>4
  <2>2. PICK m \in I : \A j \in I : m <= j
    BY <1>6, <2>1, LeastExists
  <2>3. Min(I) = m
    BY <2>1, <2>2, MinIs
  <2>4. n = m - 1 /\ m \in 1..Len(q)
    BY <1>2, <1>4, <1>6, <2>3
  <2>5. n \in 0..Len(q) /\ n + 1 = m /\ n \in Nat
    BY SMTT(60), <1>1, <2>4
  <2>6. ASSUME NEW i \in 1..n PROVE ~Waits(q[i])
    <3>1. i \in 1..Len(q) /\ ~(m <= i)
      BY SMTT(60), <1>1, <2>4, <2>5
    <3>2. QED
      BY <1>3, <2>2, <3>1
  <2>7. Waits(q[n + 1])
    BY <1>3, <2>2, <2>4, <2>5
  <2>8. QED
    BY <2>5, <2>6, <2>7 DEF q, Waits, n
<1>7. QED
  BY <1>5, <1>6

-----------------------------------------------------------------------------
(* The steps.                                                              *)

LEMMA Initially ==
  ASSUME Deployment, Init PROVE IInv
<1>1. TypeOK
  BY EmptySeq DEF Init, TypeOK
<1>2. SystemLast
  <2>1. SystemsAre(0)
    BY SMTT(60), Sizes DEF SystemsAre, Init
  <2>2. 0 \in 0..SystemCount
    BY SMTT(60), Sizes
  <2>3. QED
    BY <2>1, <2>2 DEF SystemLast
<1>3. UsersFirst
  <2>1. SUFFICES ASSUME NEW s \in Sets PROVE \E k \in 0..Needed[s] : UsersAre(s, k)
    BY DEF UsersFirst
  <2>2. UsersAre(s, 0)
    <3>1. SUFFICES ASSUME NEW i \in Ids PROVE function[i] = "unexpected" /\ ~(i % SetSize < 0)
      BY DEF UsersAre
    <3>2. i % SetSize \in 0..(SetSize - 1)
      BY Parts
    <3>3. ~(i % SetSize < 0)
      BY SMTT(60), <3>2, Sizes
    <3>4. QED
      BY <3>3 DEF Init
  <2>3. 0 \in 0..Needed[s]
    BY SMTT(60), Sizes
  <2>4. QED
    BY <2>2, <2>3
<1>4. Queues /\ Known /\ ReceivedFirst /\ Accounted /\ SetOrder
  BY SMTT(60) DEF Init, Queues, QueueOf, Known, ReceivedFirst, Accounted, SetOrder
<1>5. QED
  BY <1>1, <1>2, <1>3, <1>4 DEF IInv

\* A protocol that has registered everything has received everything.
LEMMA Emptied ==
  ASSUME Deployment, IInv, NEW s \in Sets, Cardinality(Users(s)) = Needed[s]
  PROVE  ueQ[s] = <<>>
<1>1. SUFFICES ASSUME ueQ[s] # <<>> PROVE FALSE
  OBVIOUS
<1>2. TypeOK /\ UsersFirst /\ QueueOf(s)
  BY DEF IInv, Queues
<1>3. ueQ[s] \in Seq(Nat) /\ 1 \in DOMAIN ueQ[s]
  BY SMTT(60), <1>1, <1>2, EmptySeq DEF TypeOK
<1>4. PICK id : id = arrived[ueQ[s][1]]
  OBVIOUS
<1>5. id \in Ids
  <2>1. ueQ[s][1] \in DOMAIN arrived /\ arrived \in Seq(Ids)
    BY <1>2, <1>3 DEF QueueOf, TypeOK
  <2>2. QED
    BY SMTT(60), <1>4, <2>1, ElementOfSeq
<1>6. SetOf(id) = s /\ id % SetSize < Needed[s] /\ function[id] = "unexpected"
  BY <1>1, <1>2, <1>3, <1>4 DEF QueueOf
<1>7. PICK k \in 0..Needed[s] : UsersAre(s, k)
  BY <1>2 DEF UsersFirst
<1>8. k = Needed[s]
  BY <1>7, UsersCounted
<1>9. function[id] = "user"
  BY <1>5, <1>6, <1>7, <1>8 DEF UsersAre
<1>10. QED
  BY <1>6, <1>9

\* The device takes one more identifier: nothing has arrived yet.
LEMMA StepSystem ==
  ASSUME Deployment, IInv, registerSystemDispatch PROVE IInv'
<1>1. TypeOK /\ UsersFirst /\ Queues /\ Known
  BY DEF IInv
<1>2. PICK c \in 0..SystemCount : SystemsAre(c)
  BY DEF IInv, SystemLast
<1>3. c \in 0..(SystemCount - 1) /\ c + 1 \in 0..SystemCount /\ c < SystemCount
  BY SMTT(60), <1>2, SystemsCounted, Sizes DEF registerSystemDispatch
<1>4. PICK id \in Ids : /\ id = Max({i \in Ids \ {0} : function[i] = "unexpected"})
                       /\ id = Total - (c + 1) /\ function[id] = "unexpected"
  BY <1>1, <1>2, <1>3, LastFree
<1>5. /\ function' = [function EXCEPT ![id] = "system"]
      /\ ueQ' = ueQ /\ arrived' = arrived /\ received' = received
  BY <1>4 DEF registerSystemDispatch
<1>6. arrived = <<>> /\ \A i \in Ids : function[i] # "user"
  BY <1>2, <1>3 DEF SystemsAre
<1>7. received = <<>> /\ \A s \in Sets : ueQ[s] = <<>>
  <2>1. DOMAIN arrived = {}
    BY SMTT(60), <1>6
  <2>2. received = <<>>
    <3>1. received \in Seq(Nat) /\ (received # <<>> => 1 \in DOMAIN received)
      BY SMTT(60), <1>1, EmptySeq DEF TypeOK
    <3>2. QED
      BY <1>1, <2>1, <3>1 DEF Known
  <2>3. ASSUME NEW s \in Sets PROVE ueQ[s] = <<>>
    <3>1. ueQ[s] \in Seq(Nat) /\ (ueQ[s] # <<>> => 1 \in DOMAIN ueQ[s])
      BY SMTT(60), <1>1, EmptySeq DEF TypeOK
    <3>2. QED
      BY <1>1, <2>1, <3>1 DEF Queues, QueueOf
  <2>4. QED
    BY <2>2, <2>3
<1>8. TypeOK'
  BY <1>1, <1>5 DEF TypeOK
<1>9. /\ function'[id] = "system"
      /\ \A i \in Ids : i # id => function'[i] = function[i]
  BY <1>1, <1>5 DEF TypeOK
<1>10. SystemLast'
  <2>1. ASSUME NEW i \in Ids PROVE function'[i] = "system" <=> i >= Total - (c + 1)
    <3>1. i \in Int /\ Total \in Int /\ c \in Int
      BY SMTT(60), Sizes
    <3>2. CASE i = id
      BY SMTT(60), <1>4, <1>9, <3>1, <3>2
    <3>3. CASE i # id
      <4>1. function'[i] = "system" <=> i >= Total - c
        BY <1>2, <1>9, <3>3 DEF SystemsAre
      <4>2. QED
        BY SMTT(60), <1>4, <3>1, <3>3, <4>1
    <3>4. QED
      BY <3>2, <3>3
  <2>2. arrived' = <<>> /\ \A i \in Ids : function'[i] # "user"
    BY <1>5, <1>6, <1>9
  <2>3. SystemsAre(c + 1)'
    BY <2>1, <2>2 DEF SystemsAre
  <2>4. QED
    BY <1>3, <2>3 DEF SystemLast
<1>11. UsersFirst'
  <2>1. \A i \in Ids : function'[i] = "user" <=> function[i] = "user"
    BY <1>4, <1>9
  <2>2. QED
    BY <1>1, <2>1 DEF UsersFirst, UsersAre
<1>12. (Queues /\ Known /\ ReceivedFirst /\ Accounted /\ SetOrder)'
  <2>1. DOMAIN <<>> = {}
    BY SMTT(60)
  <2>2. arrived' = <<>> /\ received' = <<>> /\ \A s \in Sets : ueQ'[s] = <<>>
    BY <1>5, <1>6, <1>7
  <2>3. QED
    BY <2>1, <2>2 DEF Queues, QueueOf, Known, ReceivedFirst, Accounted, SetOrder
<1>13. QED
  BY <1>8, <1>10, <1>11, <1>12 DEF IInv

\* A packet arrives: what was there is where it was.
LEMMA Arrives ==
  ASSUME TypeOK, NEW id \in Ids, arrived' = Append(arrived, id), NEW n, n = Len(arrived) + 1
  PROVE  /\ n \in Nat /\ DOMAIN arrived' = DOMAIN arrived \cup {n} /\ n \notin DOMAIN arrived
         /\ arrived' \in Seq(Ids) /\ arrived'[n] = id
         /\ \A m \in DOMAIN arrived : arrived'[m] = arrived[m] /\ m < n /\ arrived[m] \in Ids
<1>1. arrived \in Seq(Ids) /\ Len(arrived) \in Nat /\ DOMAIN arrived = 1..Len(arrived)
  BY SMTT(60) DEF TypeOK
<1>2. /\ arrived' \in Seq(Ids) /\ Len(arrived') = n /\ arrived'[n] = id
      /\ \A m \in 1..Len(arrived) : arrived'[m] = arrived[m]
  BY SMTT(60), <1>1, AppendProperties
<1>3. DOMAIN arrived' = 1..n
  BY SMTT(60), <1>2
<1>4. 1..n = (1..Len(arrived)) \cup {n} /\ n \in Nat /\ \A m \in 1..Len(arrived) : m < n
  BY SMTT(60), <1>1
<1>5. \A m \in 1..Len(arrived) : arrived[m] \in Ids
  BY <1>1, ElementOfSeq
<1>6. QED
  BY SMTT(60), <1>1, <1>2, <1>3, <1>4, <1>5

\* A packet for an identifier without a function goes to the end of its queue.
LEMMA StepQueue ==
  ASSUME Deployment, IInv, NEW id \in Ids, consume(id), function[id] = "unexpected"
  PROVE  IInv'
<1>1. TypeOK /\ SystemLast /\ UsersFirst /\ Queues /\ Known /\ ReceivedFirst /\ Accounted /\ SetOrder
  BY DEF IInv
<1>2. PICK n : n = Len(arrived) + 1
  OBVIOUS
<1>3. PICK t \in Sets : t = SetOf(id)
  BY Parts
<1>4. /\ arrived' = Append(arrived, id) /\ ueQ' = [ueQ EXCEPT ![t] = Append(@, n)]
      /\ SystemReady /\ Expected(id)
  BY <1>2, <1>3 DEF consume
<1>5. function' = function /\ received' = received
  BY DEF consume
<1>6. /\ n \in Nat /\ DOMAIN arrived' = DOMAIN arrived \cup {n} /\ n \notin DOMAIN arrived
      /\ arrived' \in Seq(Ids) /\ arrived'[n] = id
      /\ \A m \in DOMAIN arrived : arrived'[m] = arrived[m] /\ m < n /\ arrived[m] \in Ids
  BY <1>1, <1>2, <1>4, Arrives
<1>7. SystemsAre(SystemCount)
  BY <1>1, <1>4, SystemsCounted DEF SystemLast
<1>8. id % SetSize < Needed[t]
  BY <1>3, <1>4, <1>7 DEF Expected, SystemsAre, Total
<1>. DEFINE q == ueQ[t]  m == Len(ueQ[t]) + 1
<1>9. /\ q \in Seq(Nat) /\ DOMAIN q = 1..Len(q) /\ Len(q) \in Nat /\ m = Len(q) + 1
      /\ ueQ'[t] = Append(q, n) /\ \A s \in Sets : s # t => ueQ'[s] = ueQ[s]
  BY SMTT(60), <1>1, <1>4 DEF TypeOK
<1>. HIDE DEF q, m
<1>10. /\ ueQ'[t] \in Seq(Nat) /\ ueQ'[t][m] = n /\ ueQ'[t] # <<>>
      /\ Len(ueQ'[t]) = m /\ \A i \in 1..Len(q) : ueQ'[t][i] = q[i]
  <2>1. q \in Seq(Nat) /\ n \in Nat
    BY <1>6, <1>9
  <2>2. /\ Append(q, n) \in Seq(Nat) /\ Append(q, n)[Len(q) + 1] = n /\ Append(q, n) # <<>>
        /\ Len(Append(q, n)) = Len(q) + 1 /\ \A i \in 1..Len(q) : Append(q, n)[i] = q[i]
    BY SMTT(60), <2>1, AppendProperties
  <2>3. ueQ'[t] = Append(q, n) /\ m = Len(q) + 1
    BY <1>9
  <2>4. QED
    BY <2>2, <2>3
<1>11. /\ DOMAIN ueQ'[t] = DOMAIN q \cup {m} /\ m \in Nat
       /\ \A i \in DOMAIN q : i < m /\ ueQ'[t][i] = q[i] /\ i \in Nat
  <2>1. DOMAIN ueQ'[t] = 1..m
    BY SMTT(60), <1>10
  <2>2. 1..m = (1..Len(q)) \cup {m} /\ m \in Nat /\ \A i \in 1..Len(q) : i < m /\ i \in Nat
    BY SMTT(60), <1>9
  <2>3. QED
    BY <1>9, <1>10, <2>1, <2>2
<1>12. TypeOK'
  BY <1>5, <1>1, <1>4, <1>6, <1>10 DEF TypeOK
<1>13. SystemLast'
  <2>1. SystemsAre(SystemCount)'
    BY SMTT(60), <1>5, <1>7, Sizes DEF SystemsAre
  <2>2. QED
    BY SMTT(60), <2>1, Sizes DEF SystemLast
<1>14. UsersFirst'
  BY <1>5, <1>1 DEF UsersFirst, UsersAre
<1>15. QueueOf(t)
  BY <1>1 DEF Queues
<1>16. QueueOf(t)'
  <2>1. ASSUME NEW i \in DOMAIN ueQ'[t]
        PROVE  /\ ueQ'[t][i] \in DOMAIN arrived'
               /\ SetOf(arrived'[ueQ'[t][i]]) = t
               /\ arrived'[ueQ'[t][i]] % SetSize < Needed[t]
    <3>1. CASE i = m
      BY <1>3, <1>6, <1>8, <1>10, <3>1
    <3>2. CASE i \in DOMAIN q
      BY <1>6, <1>11, <1>15, <3>2 DEF QueueOf, q
    <3>3. QED
      BY <1>11, <3>1, <3>2
  <2>2. ASSUME NEW i \in DOMAIN ueQ'[t], NEW j \in DOMAIN ueQ'[t], i < j
        PROVE  ueQ'[t][i] < ueQ'[t][j]
    <3>1. i \in DOMAIN q
      BY SMTT(60), <1>11, <2>2
    <3>2. ueQ'[t][i] = q[i] /\ q[i] \in DOMAIN arrived
      BY <1>11, <1>15, <3>1 DEF QueueOf, q
    <3>3. CASE j = m
      BY <1>6, <1>10, <3>2, <3>3
    <3>4. CASE j \in DOMAIN q
      BY <1>11, <1>15, <2>2, <3>1, <3>4 DEF QueueOf, q
    <3>5. QED
      BY <1>11, <3>3, <3>4
  <2>3. function'[arrived'[ueQ'[t][1]]] = "unexpected"
    <3>1. CASE q = <<>>
      <4>1. m = 1
        BY SMTT(60), <1>9, <3>1
      <4>2. QED
        BY <1>5, <1>6, <1>10, <4>1
    <3>2. CASE q # <<>>
      <4>1. 1 \in DOMAIN q
        BY SMTT(60), <1>9, <3>2, EmptySeq
      <4>2. q[1] \in DOMAIN arrived /\ function[arrived[q[1]]] = "unexpected"
        BY <1>15, <3>2, <4>1 DEF QueueOf, q
      <4>3. QED
        BY <1>5, <1>6, <1>11, <4>1, <4>2
    <3>3. QED
      BY <3>1, <3>2
  <2>4. QED
    BY <2>1, <2>2, <2>3 DEF QueueOf
<1>17. Queues'
  <2>1. ASSUME NEW s \in Sets, s # t PROVE QueueOf(s)'
    <3>1. ueQ'[s] = ueQ[s] /\ QueueOf(s)
      BY <1>1, <1>9, <2>1 DEF Queues
    <3>2. \A i \in DOMAIN ueQ[s] : arrived'[ueQ[s][i]] = arrived[ueQ[s][i]]
      BY <1>6, <3>1 DEF QueueOf
    <3>3. ueQ[s] # <<>> => 1 \in DOMAIN ueQ[s]
      BY SMTT(60), <1>1, EmptySeq DEF TypeOK
    <3>4. QED
      BY SMTT(60), <1>5, <1>6, <3>1, <3>2, <3>3 DEF QueueOf
  <2>2. QED
    BY <1>16, <2>1 DEF Queues
<1>18. Known'
  BY <1>5, <1>1, <1>6 DEF Known
<1>19. \A i \in DOMAIN received : arrived'[received[i]] = arrived[received[i]] /\ received[i] < n
  BY <1>1, <1>6 DEF Known
<1>20. ReceivedFirst'
  <2>1. SUFFICES ASSUME NEW i \in DOMAIN received, NEW s \in Sets, NEW j \in DOMAIN ueQ'[s],
                        SetOf(arrived[received[i]]) = s, function[arrived[received[i]]] = "user"
                 PROVE  received[i] < ueQ'[s][j]
    BY <1>5, <1>19 DEF ReceivedFirst
  <2>2. CASE s # t
    BY <1>1, <1>9, <2>1, <2>2 DEF ReceivedFirst
  <2>3. CASE s = t /\ j = m
    BY <1>10, <1>19, <2>3
  <2>4. CASE s = t /\ j \in DOMAIN q
    BY <1>1, <1>11, <2>1, <2>4 DEF ReceivedFirst, q
  <2>5. QED
    BY <1>11, <2>2, <2>3, <2>4
<1>21. Accounted'
  <2>1. SUFFICES ASSUME NEW k \in DOMAIN arrived'
                 PROVE  \/ \E i \in DOMAIN received : received[i] = k
                        \/ \E i \in DOMAIN ueQ'[SetOf(arrived'[k])] : ueQ'[SetOf(arrived'[k])][i] = k
    BY <1>5 DEF Accounted
  <2>2. CASE k = n
    BY <1>3, <1>6, <1>10, <1>11, <2>2
  <2>3. CASE k \in DOMAIN arrived
    <3>1. arrived'[k] = arrived[k] /\ SetOf(arrived[k]) \in Sets
      BY <1>6, <2>3, Parts
    <3>2. CASE \E i \in DOMAIN received : received[i] = k
      BY <3>2
    <3>3. CASE \E i \in DOMAIN ueQ[SetOf(arrived[k])] : ueQ[SetOf(arrived[k])][i] = k
      <4>1. CASE SetOf(arrived[k]) = t
        BY <1>11, <3>1, <3>3, <4>1 DEF q
      <4>2. CASE SetOf(arrived[k]) # t
        BY <1>9, <3>1, <3>3, <4>2
      <4>3. QED
        BY <4>1, <4>2
    <3>4. QED
      BY <1>1, <2>3, <3>2, <3>3 DEF Accounted
  <2>4. QED
    BY <1>6, <2>2, <2>3
<1>22. SetOrder'
  BY SMTT(60), <1>5, <1>1, <1>19 DEF SetOrder
<1>23. QED
  BY <1>12, <1>13, <1>14, <1>17, <1>18, <1>20, <1>21, <1>22 DEF IInv

\* A packet for an identifier with a function is received: the queue of its set
\* is empty when the function is a protocol's, as the context is not advanced
\* while a protocol registers.
LEMMA StepReceive ==
  ASSUME Deployment, IInv, NEW id \in Ids, consume(id), function[id] # "unexpected"
  PROVE  IInv'
<1>1. TypeOK /\ SystemLast /\ UsersFirst /\ Queues /\ Known /\ ReceivedFirst /\ Accounted /\ SetOrder
  BY DEF IInv
<1>2. PICK n : n = Len(arrived) + 1
  OBVIOUS
<1>3. PICK t \in Sets : t = SetOf(id)
  BY Parts
<1>4. function' = function /\ ueQ' = ueQ
  BY DEF consume
<1>5. /\ arrived' = Append(arrived, id) /\ received' = Append(received, n)
      /\ SystemReady /\ ~Registering
  BY <1>2 DEF consume
<1>6. /\ n \in Nat /\ DOMAIN arrived' = DOMAIN arrived \cup {n} /\ n \notin DOMAIN arrived
      /\ arrived' \in Seq(Ids) /\ arrived'[n] = id
      /\ \A k \in DOMAIN arrived : arrived'[k] = arrived[k] /\ k < n /\ arrived[k] \in Ids
  BY <1>1, <1>2, <1>5, Arrives
<1>7. SystemsAre(SystemCount)
  BY <1>1, <1>5, SystemsCounted DEF SystemLast
<1>8. function[id] = "user" => ueQ[t] = <<>>
  <2>1. SUFFICES ASSUME function[id] = "user" PROVE Cardinality(Users(t)) = Needed[t]
    BY Emptied
  <2>2. PICK k \in 0..Needed[t] : UsersAre(t, k)
    BY <1>1 DEF UsersFirst
  <2>3. Cardinality(Users(t)) = k
    BY <2>2, UsersCounted
  <2>4. id % SetSize < k /\ id % SetSize \in 0..(SetSize - 1)
    BY <1>3, <2>1, <2>2, Parts DEF UsersAre
  <2>5. k # 0
    BY SMTT(60), <2>4, Sizes
  <2>6. k \notin 1..(Needed[t] - 1)
    BY <1>5, <2>3 DEF Registering
  <2>7. QED
    BY SMTT(60), <2>3, <2>5, <2>6, Sizes
<1>9. PICK m \in Nat :
        /\ m = Len(received) + 1 /\ received' \in Seq(Nat) /\ received'[m] = n
        /\ DOMAIN received' = DOMAIN received \cup {m}
        /\ \A i \in DOMAIN received : received'[i] = received[i] /\ i < m
  <2>1. received \in Seq(Nat) /\ Len(received) \in Nat /\ DOMAIN received = 1..Len(received)
    BY SMTT(60), <1>1 DEF TypeOK
  <2>2. /\ Append(received, n) \in Seq(Nat) /\ Append(received, n)[Len(received) + 1] = n
        /\ Len(Append(received, n)) = Len(received) + 1
        /\ \A i \in 1..Len(received) : Append(received, n)[i] = received[i]
    BY SMTT(60), <1>6, <2>1, AppendProperties
  <2>3. PICK m \in Nat : m = Len(received) + 1
    BY SMTT(60), <2>1
  <2>4. 1..m = (1..Len(received)) \cup {m} /\ \A i \in 1..Len(received) : i < m
    BY SMTT(60), <2>1, <2>3
  <2>5. received' = Append(received, n)
    BY <1>5
  <2>6. DOMAIN received' = 1..m
    BY SMTT(60), <2>2, <2>3, <2>5
  <2>7. /\ received' \in Seq(Nat) /\ received'[m] = n
        /\ \A i \in 1..Len(received) : received'[i] = received[i]
    BY <2>2, <2>3, <2>5
  <2>8. QED
    BY <2>1, <2>3, <2>4, <2>6, <2>7
<1>10. TypeOK'
  BY <1>1, <1>4, <1>6, <1>9 DEF TypeOK
<1>11. SystemLast'
  <2>1. SystemsAre(SystemCount)'
    BY SMTT(60), <1>4, <1>7, Sizes DEF SystemsAre
  <2>2. QED
    BY SMTT(60), <2>1, Sizes DEF SystemLast
<1>12. UsersFirst'
  BY <1>1, <1>4 DEF UsersFirst, UsersAre
<1>13. Queues'
  <2>1. ASSUME NEW s \in Sets PROVE QueueOf(s)'
    <3>1. QueueOf(s)
      BY <1>1 DEF Queues
    <3>2. \A i \in DOMAIN ueQ[s] : arrived'[ueQ[s][i]] = arrived[ueQ[s][i]]
      BY <1>6, <3>1 DEF QueueOf
    <3>3. ueQ[s] # <<>> => 1 \in DOMAIN ueQ[s]
      BY SMTT(60), <1>1, EmptySeq DEF TypeOK
    <3>4. QED
      BY <1>4, <1>6, <3>1, <3>2, <3>3 DEF QueueOf
  <2>2. QED
    BY <2>1 DEF Queues
<1>14. /\ arrived'[received'[m]] = id
       /\ \A i \in DOMAIN received : /\ received[i] \in DOMAIN arrived
                                    /\ received'[i] = received[i] /\ received[i] < n /\ i < m
                                    /\ arrived'[received'[i]] = arrived[received[i]]
  BY <1>1, <1>6, <1>9 DEF Known
<1>15. Known'
  BY <1>1, <1>4, <1>6, <1>9, <1>14 DEF Known
<1>16. ReceivedFirst'
  <2>1. SUFFICES ASSUME NEW i \in DOMAIN received', NEW s \in Sets, NEW j \in DOMAIN ueQ[s],
                        SetOf(arrived'[received'[i]]) = s, function[arrived'[received'[i]]] = "user"
                 PROVE  received'[i] < ueQ[s][j]
    BY <1>4 DEF ReceivedFirst
  <2>2. CASE i = m
    BY SMTT(60), <1>3, <1>8, <1>14, <2>1, <2>2
  <2>3. CASE i \in DOMAIN received
    BY <1>1, <1>14, <2>1, <2>3 DEF ReceivedFirst
  <2>4. QED
    BY <1>9, <2>2, <2>3
<1>17. Accounted'
  <2>1. SUFFICES ASSUME NEW k \in DOMAIN arrived'
                 PROVE  \/ \E i \in DOMAIN received' : received'[i] = k
                        \/ \E i \in DOMAIN ueQ[SetOf(arrived'[k])] : ueQ[SetOf(arrived'[k])][i] = k
    BY <1>4 DEF Accounted
  <2>2. CASE k = n
    BY <1>9, <2>2
  <2>3. CASE k \in DOMAIN arrived
    <3>1. arrived'[k] = arrived[k]
      BY <1>6, <2>3
    <3>2. \/ \E i \in DOMAIN received : received[i] = k
          \/ \E i \in DOMAIN ueQ[SetOf(arrived[k])] : ueQ[SetOf(arrived[k])][i] = k
      BY <1>1, <2>3 DEF Accounted
    <3>3. QED
      BY <1>9, <3>1, <3>2
  <2>4. QED
    BY <1>6, <2>2, <2>3
<1>18. SetOrder'
  <2>1. SUFFICES ASSUME NEW i \in DOMAIN received', NEW j \in DOMAIN received', i < j,
                        SetOf(arrived'[received'[i]]) = SetOf(arrived'[received'[j]]),
                        function[arrived'[received'[i]]] = "user",
                        function[arrived'[received'[j]]] = "user"
                 PROVE  received'[i] < received'[j]
    BY <1>4 DEF SetOrder
  <2>2. i \in DOMAIN received
    <3>1. CASE j = m
      BY SMTT(60), <1>9, <2>1, <3>1
    <3>2. CASE j \in DOMAIN received /\ i = m
      <4>1. i \in Nat /\ j \in Nat /\ j < i
        BY SMTT(60), <1>1, <1>9, <3>2 DEF TypeOK
      <4>2. QED
        BY SMTT(60), <2>1, <4>1
    <3>3. QED
      BY <1>9, <3>1, <3>2
  <2>3. CASE j = m
    BY <1>9, <1>14, <2>2, <2>3
  <2>4. CASE j \in DOMAIN received
    BY <1>1, <1>14, <2>1, <2>2, <2>4 DEF SetOrder
  <2>5. QED
    BY <1>9, <2>3, <2>4
<1>19. QED
  BY <1>10, <1>11, <1>12, <1>13, <1>15, <1>16, <1>17, <1>18 DEF IInv

\* A queue q cut after its first n packets: what r becomes, and what is left.
Given(r, q, n) == r \o SubSeq(q, 1, n)
Left(q, n) == SubSeq(q, n + 1, Len(q))

IsCut(r, q, n, a, b) ==
  /\ a \in Seq(Nat) /\ b \in Seq(Nat) /\ Len(a) = Len(r) + n /\ Len(b) = Len(q) - n
  /\ \A i \in 1..Len(r) : a[i] = r[i]
  /\ \A i \in 1..n : a[Len(r) + i] = q[i]
  /\ \A i \in 1..(Len(q) - n) : b[i] = q[n + i]

LEMMA Cut ==
  ASSUME NEW q \in Seq(Nat), NEW r \in Seq(Nat), NEW n \in 0..Len(q)
  PROVE  IsCut(r, q, n, Given(r, q, n), Left(q, n))
<1>1. Len(q) \in Nat /\ n \in Nat /\ n <= Len(q) /\ Len(r) \in Nat
  BY SMTT(60)
<1>2. \A i \in 1..Len(q) : q[i] \in Nat
  BY ElementOfSeq
<1>. DEFINE f == SubSeq(q, 1, n)  a == Given(r, q, n)  b == Left(q, n)
<1>3. f \in Seq(Nat) /\ Len(f) = n /\ \A i \in 1..n : f[i] = q[i]
  BY SMTT(60), <1>1, <1>2, SubSeqProperties
<1>4. b \in Seq(Nat) /\ Len(b) = Len(q) - n /\ \A i \in 1..(Len(q) - n) : b[i] = q[n + i]
  BY SMTT(60), <1>1, <1>2, SubSeqProperties DEF Left
<1>5. a = r \o f
  BY DEF Given
<1>. HIDE DEF f, a, b
<1>6. /\ a \in Seq(Nat) /\ Len(a) = Len(r) + n
      /\ \A i \in 1..(Len(r) + n) : a[i] = IF i <= Len(r) THEN r[i] ELSE f[i - Len(r)]
  <2>1. /\ r \o f \in Seq(Nat) /\ Len(r \o f) = Len(r) + Len(f)
        /\ \A i \in 1..(Len(r) + Len(f)) : (r \o f)[i] = IF i <= Len(r) THEN r[i] ELSE f[i - Len(r)]
    <3>1. f \in Seq(Nat)
      BY <1>3
    <3>2. QED
      BY <3>1, ConcatProperties
  <2>2. QED
    BY <1>3, <1>5, <2>1
<1>7. \A i \in 1..Len(r) : a[i] = r[i]
  BY SMTT(60), <1>1, <1>6
<1>8. ASSUME NEW i \in 1..n PROVE a[Len(r) + i] = q[i]
  <2>1. PICK j \in 1..(Len(r) + n) : j = Len(r) + i /\ ~(j <= Len(r)) /\ j - Len(r) = i
    BY SMTT(60), <1>1
  <2>2. a[j] = f[i]
    BY <1>6, <2>1
  <2>3. QED
    BY <1>3, <2>1, <2>2
<1>9. QED
  BY <1>4, <1>6, <1>7, <1>8 DEF a, b, IsCut

\* A protocol registers a function: the front of its queue is received, up to
\* the first packet that still has no function.
LEMMA StepUser ==
  ASSUME Deployment, IInv, NEW s \in Sets, registerUserDispatch(s) PROVE IInv'
<1>1. TypeOK /\ SystemLast /\ UsersFirst /\ Queues /\ Known /\ ReceivedFirst /\ Accounted /\ SetOrder
  BY DEF IInv
<1>2. SystemsAre(SystemCount)
  BY <1>1, SystemsCounted DEF SystemLast, registerUserDispatch
<1>3. PICK k \in 0..Needed[s] : UsersAre(s, k)
  BY <1>1 DEF UsersFirst
<1>4. k \in 0..(Needed[s] - 1) /\ k + 1 \in 0..Needed[s] /\ k \in Nat
  BY SMTT(60), <1>3, UsersCounted, Sizes DEF registerUserDispatch
<1>5. PICK id \in Ids : /\ id = Min({i \in Ids : SetOf(i) = s /\ function[i] = "unexpected"})
                       /\ SetOf(id) = s /\ id % SetSize = k /\ function[id] = "unexpected"
  BY <1>1, <1>2, <1>3, <1>4, FirstFree
<1>6. PICK n : n = Deliverable(s, id)
  OBVIOUS
<1>. DEFINE q == ueQ[s]
<1>7. /\ function' = [function EXCEPT ![id] = "user"] /\ arrived' = arrived
      /\ received' = received \o SubSeq(q, 1, n)
      /\ ueQ' = [ueQ EXCEPT ![s] = SubSeq(q, n + 1, Len(q))]
  BY <1>5, <1>6 DEF registerUserDispatch
<1>8. /\ q \in Seq(Nat) /\ received \in Seq(Nat) /\ arrived \in Seq(Ids)
      /\ DOMAIN q = 1..Len(q) /\ DOMAIN received = 1..Len(received)
      /\ Len(q) \in Nat /\ Len(received) \in Nat
  BY SMTT(60), <1>1 DEF TypeOK
<1>9. /\ n \in 0..Len(q) /\ n \in Nat
      /\ \A i \in 1..n : arrived[q[i]] = id \/ function[arrived[q[i]]] # "unexpected"
      /\ n < Len(q) => arrived[q[n + 1]] # id /\ function[arrived[q[n + 1]]] = "unexpected"
  BY SMTT(60), <1>1, <1>6, <1>8, Delivered
<1>10. arrived' = arrived
  BY <1>7
<1>11. received' = received \o SubSeq(q, 1, n)
  BY <1>7
<1>. HIDE DEF q
<1>12. n \in Nat /\ n <= Len(q) /\ Len(q) \in Nat /\ DOMAIN q = 1..Len(q)
  BY SMTT(60), <1>8, <1>9
<1>13. /\ function'[id] = "user" /\ \A i \in Ids : i # id => function'[i] = function[i]
       /\ function' \in [Ids -> {"unexpected", "user", "system"}]
  BY <1>1, <1>7 DEF TypeOK
<1>14. Len(received) \in Nat
  BY <1>8
<1>. DEFINE a == Given(received, q, n)  b == Left(q, n)
<1>15. received' = a /\ ueQ' = [ueQ EXCEPT ![s] = b] /\ ueQ \in [Sets -> Seq(Nat)]
  BY <1>1, <1>7, <1>11 DEF TypeOK, Given, Left, q
<1>16. IsCut(received, q, n, a, b)
  <2>1. q \in Seq(Nat) /\ received \in Seq(Nat) /\ n \in 0..Len(q)
    BY <1>8, <1>9
  <2>2. QED
    BY <2>1, Cut
<1>. HIDE DEF a, b
<1>17. DOMAIN a = 1..(Len(received) + n) /\ DOMAIN b = 1..(Len(q) - n) /\ b \in Seq(Nat)
  BY SMTT(60), <1>16 DEF IsCut
<1>18. ueQ' \in [Sets -> Seq(Nat)] /\ ueQ'[s] = b /\ \A u \in Sets : u # s => ueQ'[u] = ueQ[u]
  BY <1>15, <1>17
<1>19. PICK L \in Nat : L = Len(received)
  BY <1>14
<1>20. /\ received' \in Seq(Nat) /\ DOMAIN received' = 1..(L + n)
       /\ \A i \in 1..L : received'[i] = received[i]
       /\ \A i \in 1..n : received'[L + i] = q[i]
  BY <1>15, <1>16, <1>17, <1>19 DEF IsCut
<1>21. /\ ueQ' \in [Sets -> Seq(Nat)] /\ DOMAIN ueQ'[s] = 1..(Len(q) - n)
       /\ \A i \in 1..(Len(q) - n) : ueQ'[s][i] = q[n + i]
       /\ \A u \in Sets : u # s => ueQ'[u] = ueQ[u]
  BY <1>16, <1>17, <1>18 DEF IsCut
<1>22. QueueOf(s)
  BY <1>1 DEF Queues
<1>23. ASSUME NEW i \in DOMAIN ueQ'[s]
       PROVE  n + i \in DOMAIN q /\ ueQ'[s][i] = q[n + i] /\ n < n + i /\ i \in Nat
  <2>1. i \in 1..(Len(q) - n) /\ ueQ'[s][i] = q[n + i]
    BY <1>21
  <2>2. QED
    BY SMTT(60), <1>12, <2>1
<1>24. ASSUME NEW i \in DOMAIN received'
       PROVE  \/ i \in DOMAIN received /\ received'[i] = received[i] /\ i <= L
              \/ \E j \in 1..n : i = L + j /\ j \in DOMAIN q /\ received'[i] = q[j]
  <2>1. CASE i <= L
    BY SMTT(60), <1>8, <1>19, <1>20, <2>1
  <2>2. CASE ~(i <= L)
    <3>1. i \in 1..(L + n)
      BY <1>20
    <3>11. PICK j \in 1..n : i = L + j
      BY SMTT(60), <1>12, <2>2, <3>1
    <3>2. j \in DOMAIN q /\ received'[i] = q[j]
      BY SMTT(60), <1>20, <1>12, <3>11
    <3>3. QED
      BY <3>11, <3>2
  <2>3. QED
    BY <2>1, <2>2
<1>25. \A i \in DOMAIN q : /\ q[i] \in DOMAIN arrived /\ q[i] \in Nat /\ arrived[q[i]] \in Ids
                           /\ SetOf(arrived[q[i]]) = s /\ arrived[q[i]] % SetSize < Needed[s]
  <2>1. \A i \in DOMAIN q : /\ q[i] \in DOMAIN arrived /\ SetOf(arrived[q[i]]) = s
                            /\ arrived[q[i]] % SetSize < Needed[s]
    BY <1>22 DEF QueueOf, q
  <2>2. \A i \in DOMAIN arrived : arrived[i] \in Ids /\ i \in Nat
    BY SMTT(60), <1>8, ElementOfSeq
  <2>3. QED
    BY <2>1, <2>2
<1>26. \A i, j \in DOMAIN q : i < j => q[i] < q[j]
  BY <1>22 DEF QueueOf, q
<1>27. \A i \in DOMAIN received : /\ received[i] \in DOMAIN arrived /\ arrived[received[i]] \in Ids
                                  /\ function[arrived[received[i]]] # "unexpected"
                                  /\ function'[arrived[received[i]]] = function[arrived[received[i]]]
  <2>1. \A i \in DOMAIN received : /\ received[i] \in DOMAIN arrived
                                   /\ function[arrived[received[i]]] # "unexpected"
    BY <1>1 DEF Known
  <2>2. \A i \in DOMAIN arrived : arrived[i] \in Ids
    BY SMTT(60), <1>8, ElementOfSeq
  <2>3. QED
    BY <1>5, <1>13, <2>1, <2>2
<1>28. TypeOK'
  BY <1>7, <1>8, <1>13, <1>20, <1>21 DEF TypeOK
<1>29. SystemLast'
  <2>1. \A i \in Ids : function'[i] = "system" <=> function[i] = "system"
    BY <1>5, <1>13
  <2>2. \A i \in Ids : function'[i] = "system" <=> i >= Total - SystemCount
    BY <1>2, <2>1 DEF SystemsAre
  <2>3. ~(SystemCount < SystemCount) /\ SystemCount \in 0..SystemCount
    BY SMTT(60), Sizes
  <2>4. QED
    BY <2>2, <2>3 DEF SystemLast, SystemsAre
<1>30. UsersFirst'
  <2>1. ASSUME NEW u \in Sets, u # s PROVE \E j \in 0..Needed[u] : UsersAre(u, j)'
    <3>1. PICK j \in 0..Needed[u] : UsersAre(u, j)
      BY <1>1 DEF UsersFirst
    <3>2. UsersAre(u, j)'
      BY <1>5, <1>13, <2>1, <3>1 DEF UsersAre
    <3>3. QED
      BY <3>2
  <2>2. UsersAre(s, k + 1)'
    <3>1. SUFFICES ASSUME NEW i \in Ids, SetOf(i) = s
                   PROVE  function'[i] = "user" <=> i % SetSize < k + 1
      BY DEF UsersAre
    <3>2. PICK r \in Nat : r = i % SetSize /\ i = s * SetSize + r
      BY SMTT(60), <3>1, Parts, Sizes
    <3>3. CASE i = id
      BY SMTT(60), <1>4, <1>5, <1>13, <3>3
    <3>4. CASE i # id
      <4>1. r # k
        BY <1>5, <3>2, <3>4, Parts
      <4>2. function'[i] = "user" <=> i % SetSize < k
        BY <1>3, <1>13, <3>1, <3>4 DEF UsersAre
      <4>3. r < k <=> r < k + 1
        BY SMTT(60), <1>4, <4>1
      <4>4. QED
        BY <3>2, <4>2, <4>3
    <3>5. QED
      BY <3>3, <3>4
  <2>3. QED
    BY <1>4, <2>1, <2>2 DEF UsersFirst
<1>31. Queues'
  <2>1. QueueOf(s)'
    <3>1. ASSUME NEW i \in DOMAIN ueQ'[s]
          PROVE  /\ ueQ'[s][i] \in DOMAIN arrived
                 /\ SetOf(arrived[ueQ'[s][i]]) = s
                 /\ arrived[ueQ'[s][i]] % SetSize < Needed[s]
      BY <1>23, <1>25
    <3>2. ASSUME NEW i \in DOMAIN ueQ'[s], NEW j \in DOMAIN ueQ'[s], i < j
          PROVE  ueQ'[s][i] < ueQ'[s][j]
      <4>1. n + i < n + j
        BY SMTT(60), <1>9, <1>23, <3>2
      <4>2. QED
        BY <1>23, <1>26, <4>1
    <3>3. ASSUME ueQ'[s] # <<>> PROVE function'[arrived[ueQ'[s][1]]] = "unexpected"
      <4>1. 1 \in DOMAIN ueQ'[s]
        <5>1. ueQ'[s] \in Seq(Nat)
          BY <1>21
        <5>2. QED
          BY SMTT(60), <3>3, <5>1, EmptySeq
      <4>2. ueQ'[s][1] = q[n + 1] /\ n + 1 \in DOMAIN q /\ n < Len(q)
        BY SMTT(60), <1>8, <1>9, <1>23, <4>1
      <4>3. arrived[q[n + 1]] # id /\ function[arrived[q[n + 1]]] = "unexpected"
        BY <1>9, <4>2
      <4>4. arrived[q[n + 1]] \in Ids
        BY <1>25, <4>2
      <4>5. QED
        BY <1>13, <4>2, <4>3, <4>4
    <3>4. arrived' = arrived
      BY <1>7
    <3>5. QED
      BY <3>1, <3>2, <3>3, <3>4 DEF QueueOf
  <2>2. ASSUME NEW u \in Sets, u # s PROVE QueueOf(u)'
    <3>1. ueQ'[u] = ueQ[u] /\ QueueOf(u) /\ arrived' = arrived
      BY <1>1, <1>7, <1>21, <2>2 DEF Queues
    <3>2. ASSUME ueQ[u] # <<>> PROVE function'[arrived[ueQ[u][1]]] = "unexpected"
      <4>1. 1 \in DOMAIN ueQ[u]
        BY SMTT(60), <1>1, <3>2, EmptySeq DEF TypeOK
      <4>2. /\ ueQ[u][1] \in DOMAIN arrived /\ SetOf(arrived[ueQ[u][1]]) = u
            /\ function[arrived[ueQ[u][1]]] = "unexpected"
        BY <3>1, <3>2, <4>1 DEF QueueOf
      <4>3. arrived[ueQ[u][1]] \in Ids /\ arrived[ueQ[u][1]] # id
        BY SMTT(60), <1>5, <1>8, <2>2, <4>2, ElementOfSeq
      <4>4. QED
        BY <1>13, <4>2, <4>3
    <3>3. QED
      BY <3>1, <3>2 DEF QueueOf
  <2>3. QED
    BY <2>1, <2>2 DEF Queues
<1>32. \A i \in DOMAIN received' : \A j \in 1..n :
         i = L + j /\ j \in DOMAIN q /\ received'[i] = q[j]
           => /\ received'[i] \in DOMAIN arrived /\ SetOf(arrived[received'[i]]) = s
              /\ function'[arrived[received'[i]]] # "unexpected"
  BY SMTT(60), <1>9, <1>13, <1>25
<1>33. Known'
  <2>1. ASSUME NEW i \in DOMAIN received'
        PROVE  received'[i] \in DOMAIN arrived /\ function'[arrived[received'[i]]] # "unexpected"
    BY <1>24, <1>27, <1>32
  <2>2. arrived' = arrived
    BY <1>7
  <2>3. QED
    BY <2>1, <2>2 DEF Known
<1>34. ReceivedFirst'
  <2>1. SUFFICES ASSUME NEW i \in DOMAIN received', NEW u \in Sets, NEW j \in DOMAIN ueQ'[u],
                        SetOf(arrived[received'[i]]) = u,
                        function'[arrived[received'[i]]] = "user"
                 PROVE  received'[i] < ueQ'[u][j]
    BY <1>10 DEF ReceivedFirst
  <2>2. CASE i \in DOMAIN received /\ received'[i] = received[i]
    <3>1. \A v \in DOMAIN ueQ[u] : received[i] < ueQ[u][v]
      BY <1>1, <1>27, <2>1, <2>2 DEF ReceivedFirst
    <3>2. CASE u = s
      BY <1>23, <2>1, <2>2, <3>1, <3>2 DEF q
    <3>3. CASE u # s
      <4>1. ueQ'[u] = ueQ[u]
        BY <1>21, <3>3
      <4>2. QED
        BY <2>1, <2>2, <3>1, <4>1
    <3>4. QED
      BY <3>2, <3>3
  <2>3. CASE \E v \in 1..n : i = L + v /\ v \in DOMAIN q /\ received'[i] = q[v]
    <3>1. PICK v \in 1..n : i = L + v /\ v \in DOMAIN q /\ received'[i] = q[v]
      BY <2>3
    <3>2. u = s
      BY <1>32, <2>1, <3>1
    <3>3. n + j \in DOMAIN q /\ ueQ'[s][j] = q[n + j] /\ v < n + j
      BY SMTT(60), <1>9, <1>23, <2>1, <3>1, <3>2
    <3>4. QED
      BY <1>26, <3>1, <3>2, <3>3
  <2>4. QED
    BY <1>24, <2>2, <2>3
<1>35. Accounted'
  <2>1. SUFFICES ASSUME NEW v \in DOMAIN arrived
                 PROVE  \/ \E i \in DOMAIN received' : received'[i] = v
                        \/ \E i \in DOMAIN ueQ'[SetOf(arrived[v])] : ueQ'[SetOf(arrived[v])][i] = v
    BY <1>10 DEF Accounted
  <2>2. \A i \in DOMAIN received : i \in DOMAIN received' /\ received'[i] = received[i]
    <3>1. 1..L \subseteq 1..(L + n)
      BY SMTT(60), <1>9
    <3>2. QED
      BY <1>8, <1>19, <1>20, <3>1
  <2>3. CASE \E i \in DOMAIN received : received[i] = v
    BY <2>2, <2>3
  <2>4. ASSUME NEW i \in DOMAIN ueQ[SetOf(arrived[v])], ueQ[SetOf(arrived[v])][i] = v,
               SetOf(arrived[v]) = s
        PROVE  \/ \E j \in DOMAIN received' : received'[j] = v
               \/ \E j \in DOMAIN ueQ'[s] : ueQ'[s][j] = v
    <3>1. i \in DOMAIN q /\ q[i] = v
      BY <2>4 DEF q
    <3>2. CASE i <= n
      <4>1. PICK j \in DOMAIN received' : j = L + i
        BY SMTT(60), <1>8, <1>9, <1>20, <3>1, <3>2
      <4>2. received'[j] = v
        BY SMTT(60), <1>8, <1>9, <1>20, <3>1, <3>2, <4>1
      <4>3. QED
        BY <4>2
    <3>3. CASE ~(i <= n)
      <4>1. PICK j \in 1..(Len(q) - n) : i = n + j
        <5>1. i \in 1..Len(q)
          BY <1>12, <3>1
        <5>2. i - n \in 1..(Len(q) - n) /\ i = n + (i - n)
          BY SMTT(60), <1>12, <3>3, <5>1
        <5>3. QED
          BY <5>2
      <4>2. j \in DOMAIN ueQ'[s] /\ ueQ'[s][j] = v
        BY <1>21, <3>1, <4>1
      <4>3. QED
        BY <4>2
    <3>4. QED
      BY <3>2, <3>3
  <2>5. ASSUME NEW i \in DOMAIN ueQ[SetOf(arrived[v])], ueQ[SetOf(arrived[v])][i] = v,
               SetOf(arrived[v]) # s
        PROVE  \E j \in DOMAIN ueQ'[SetOf(arrived[v])] : ueQ'[SetOf(arrived[v])][j] = v
    <3>1. SetOf(arrived[v]) \in Sets
      BY SMTT(60), <1>8, ElementOfSeq, Parts
    <3>2. ueQ'[SetOf(arrived[v])] = ueQ[SetOf(arrived[v])]
      BY <1>21, <2>5, <3>1
    <3>3. QED
      BY <2>5, <3>2
  <2>6. QED
    BY <1>1, <2>3, <2>4, <2>5 DEF Accounted
<1>36. SetOrder'
  <2>1. SUFFICES ASSUME NEW i \in DOMAIN received', NEW j \in DOMAIN received', i < j,
                        SetOf(arrived[received'[i]]) = SetOf(arrived[received'[j]]),
                        function'[arrived[received'[i]]] = "user",
                        function'[arrived[received'[j]]] = "user"
                 PROVE  received'[i] < received'[j]
    BY <1>10 DEF SetOrder
  <2>2. CASE j \in DOMAIN received /\ received'[j] = received[j] /\ j <= L
    <3>1. i \in DOMAIN received /\ received'[i] = received[i]
      BY SMTT(60), <1>8, <1>19, <1>20, <2>1, <2>2
    <3>2. QED
      BY <1>1, <1>27, <2>1, <2>2, <3>1 DEF SetOrder
  <2>3. CASE \E v \in 1..n : j = L + v /\ v \in DOMAIN q /\ received'[j] = q[v]
    <3>1. PICK v \in 1..n : j = L + v /\ v \in DOMAIN q /\ received'[j] = q[v]
      BY <2>3
    <3>2. SetOf(arrived[received'[i]]) = s
      BY <1>32, <2>1, <3>1
    <3>3. CASE i \in DOMAIN received /\ received'[i] = received[i]
      BY SMTT(60), <1>1, <1>27, <2>1, <3>1, <3>2, <3>3 DEF ReceivedFirst, q
    <3>4. CASE \E w \in 1..n : i = L + w /\ w \in DOMAIN q /\ received'[i] = q[w]
      <4>1. PICK w \in 1..n : i = L + w /\ w \in DOMAIN q /\ received'[i] = q[w]
        BY <3>4
      <4>2. w < v
        BY SMTT(60), <1>9, <1>19, <2>1, <3>1, <4>1
      <4>3. QED
        BY <1>26, <3>1, <4>1, <4>2
    <3>5. QED
      BY <1>24, <3>3, <3>4
  <2>4. QED
    BY <1>24, <2>2, <2>3
<1>37. QED
  BY <1>28, <1>29, <1>30, <1>31, <1>33, <1>34, <1>35, <1>36 DEF IInv

LEMMA Step ==
  ASSUME Deployment, IInv, [Next]_vars PROVE IInv'
<1>1. ASSUME NEW s \in Sets, registerUserDispatch(s) PROVE IInv'
  BY <1>1, StepUser
<1>2. CASE registerSystemDispatch
  BY <1>2, StepSystem
<1>3. ASSUME NEW id \in Ids, consume(id) PROVE IInv'
  BY <1>3, StepQueue, StepReceive
<1>4. CASE UNCHANGED vars
  BY <1>4 DEF vars, IInv, TypeOK, SystemLast, SystemsAre, UsersFirst, UsersAre, Queues, QueueOf,
              Known, ReceivedFirst, Accounted, SetOrder
<1>5. QED
  BY <1>1, <1>2, <1>3, <1>4 DEF Next

\* The table and the queues of the dispatch: the device's identifiers are the
\* last, a protocol's the first of its set, a queue starts with a packet that has
\* no function, and what was received of a protocol precedes what is queued.
THEOREM Invariance == ASSUME Deployment PROVE Spec => []IInv
<1>1. Init => IInv
  BY Initially
<1>2. IInv /\ [Next]_vars => IInv'
  BY Step
<1>3. QED
  BY <1>1, <1>2, PTL DEF Spec

\* registerUserDispatch stops at the first packet it cannot deliver
\* (ShmemDispatch.h:187): so the packets of a protocol are received in the order
\* in which they arrived, for tables of every size.
THEOREM ReceivedInOrder == ASSUME Deployment PROVE Spec => []SetOrder
<1>1. IInv => SetOrder
  BY DEF IInv
<1>2. QED
  BY <1>1, Invariance, PTL

\* A protocol that has registered all its functions has no packet on its queue:
\* stopping at the first undeliverable packet never strands one.
THEOREM NoneStranded == ASSUME Deployment PROVE Spec => []NothingStuck
<1>1. IInv => NothingStuck
  BY Emptied DEF NothingStuck
<1>2. QED
  BY <1>1, Invariance, PTL

\* A packet that arrived was received or is on the queue of its set: none is lost
\* when registerUserDispatch empties the front of a queue.
THEOREM NoneLost == ASSUME Deployment PROVE Spec => []Accounted
<1>1. IInv => Accounted
  BY DEF IInv
<1>2. QED
  BY <1>1, Invariance, PTL
===============================================================================
