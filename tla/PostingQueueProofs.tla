-------------------------- MODULE PostingQueueProofs --------------------------
(***************************************************************************)
(* Proofs about PostingQueue for any set of posters, any size of the array *)
(* and any number of elements: the iterator gives elements out once each   *)
(* and in the order of the calls of enqueue.                               *)
(*                                                                         *)
(* The argument gives every element a ticket, its number in the order in   *)
(* which elements are given out.  The ticket is read off the place where   *)
(* the element is (given out, in the list being walked, in the array, in   *)
(* the overflow list), and no step of either side changes the ticket of an *)
(* element that has one; an element that gets its place gets the next one. *)
(***************************************************************************)
EXTENDS PostingQueue, TLAPS, SequenceTheorems

USE ZenonT(60)

\* The poster has a position of the array and has yet to store its element.
Owes(p) == pc[p] \in {"store", "storelocked"}

\* The first position of the array that has not been given out.
Low == IF cpc = "end" THEN head + 1 ELSE head

\* How much of the array is claimed, and how much comes before it and before
\* the overflow list.  Once the bound is raised, and until the list is taken,
\* positions can be claimed that come after the list; at any other time the
\* list comes last.
Claims == Producer - Low
Walked == Len(visited) + Len(curr)
ArrayBase == Walked + (IF cpc = "removeAll" THEN Len(overflow) ELSE 0)
ListBase == Walked + (IF cpc = "removeAll" THEN 0 ELSE Claims)
Tickets == Walked + Claims + Len(overflow)

\* Position pos of the array is the place of e, which may have yet to be stored.
InSlot(e, pos) == \/ array[Slot(pos)] = e
                  \/ Owes(e.by) /\ claimed[e.by] = pos /\ e = Elm(e.by)

\* e is the n-th element to be given out: it has been, or is in the list being
\* walked, in the array or in the overflow list.
AtVisited(e, n) == n \in 1..Len(visited) /\ visited[n] = e
AtCurr(e, n) == n - Len(visited) \in 1..Len(curr) /\ curr[n - Len(visited)] = e
AtArray(e, n) == n - ArrayBase \in 1..Claims /\ InSlot(e, Low + (n - ArrayBase) - 1)
AtList(e, n) == n - ListBase \in 1..Len(overflow) /\ overflow[n - ListBase] = e

At(e, n) == AtVisited(e, n) \/ AtCurr(e, n) \/ AtArray(e, n) \/ AtList(e, n)

-----------------------------------------------------------------------------
(* The inductive invariant. *)

TypeOK ==
  /\ Producer \in Nat /\ Consumer \in Nat /\ UpperBound \in Nat
  /\ array \in [0..(Size - 1) -> Elements \cup {NULL}]
  /\ overflow \in Seq(Elements)
  /\ mutex \in Posters \cup {"nobody", "advance"}
  /\ pc \in [Posters -> {"idle", "store", "acquire", "again", "storelocked", "release"}]
  /\ claimed \in [Posters -> Nat]
  /\ count \in [Posters -> 0..MaxEach]
  /\ \A p \in Posters : pc[p] # "idle" => count[p] # 0
  /\ cpc \in {"idle", "check", "end", "acquire", "peek", "raise", "removeAll", "release"}
  /\ head \in Nat /\ tail \in Nat
  /\ curr \in Seq(Elements)
  /\ returned \in SUBSET Elements
  /\ before \in [Elements -> SUBSET Elements]
  /\ visited \in Seq(Elements)

\* The walk over the array stays below what is claimed, what is claimed below
\* the bound, and the bound within one turn of the array.
Walk ==
  /\ head <= tail /\ tail <= Producer
  /\ Producer <= UpperBound /\ UpperBound <= head + Size
  /\ cpc = "end" => head < tail
  /\ cpc \notin {"check", "end"} => head = tail
  /\ head = tail => Consumer = head
  /\ curr # <<>> => head = tail /\ cpc \in {"check", "release"}

\* _ovf_mtx has one holder.
Lock ==
  /\ \A p \in Posters : pc[p] \in {"again", "storelocked", "release"} <=> mutex = p
  /\ cpc \in {"peek", "raise", "removeAll", "release"} <=> mutex = "advance"

\* While there is an overflow list the array takes no element, except after the
\* bound was raised for the list to be taken: then the array had been emptied.
Fallback ==
  /\ overflow # <<>> => Producer = UpperBound \/ cpc = "removeAll"
  /\ cpc = "raise" /\ overflow # <<>> => head = Producer

\* A claimed position has one claimer, and its slot is free until it stores; so
\* are the slots that may be claimed next.
OneClaimer ==
  /\ \A p \in Posters :
       Owes(p) => claimed[p] \in Low..(Producer - 1) /\ array[Slot(claimed[p])] = NULL
  /\ \A p, r \in Posters : Owes(p) /\ Owes(r) /\ claimed[p] = claimed[r] => p = r
  /\ \A pos \in Producer..(head + Size - 1) : array[Slot(pos)] = NULL

\* The enqueue of e has come to the point where e gets its place.
Begun(e) == /\ e.n <= count[e.by]
            /\ e.n = count[e.by] => pc[e.by] \notin {"acquire", "again"}

\* An element has at most one ticket, and one that was returned before another
\* was begun has the lower one; whatever was returned has one.
TicketOnce ==
  \A e \in Elements : \A m, n \in Nat : At(e, m) /\ At(e, n) => m = n
TicketOrder ==
  \A e, f \in Elements : \A m, n \in Nat : e \in before[f] /\ At(e, m) /\ At(f, n) => m < n
TicketBegun ==
  \A e \in Elements : \A n \in Nat : At(e, n) => Begun(e)
TicketGiven ==
  /\ \A e \in returned : \E n \in Nat : At(e, n)
  /\ \A p \in Posters : pc[p] = "release" => \E n \in Nat : At(Elm(p), n)
  /\ \A e \in Elements : before[e] \subseteq returned

Placement == TicketOnce /\ TicketOrder /\ TicketBegun /\ TicketGiven

IInv == Walk /\ Lock /\ Fallback /\ OneClaimer /\ Placement

-----------------------------------------------------------------------------
(* Slots and types. *)

\* A position maps to an index of _array.
LEMMA SlotInArray ==
  ASSUME Deployment, NEW pos \in Nat PROVE Slot(pos) \in 0..(Size - 1)
  BY SMTT(60) DEF Deployment, Slot

\* A position is a number of turns of the array, and a slot.
LEMMA Turns ==
  ASSUME Deployment, NEW pos \in Nat PROVE \E k \in Int : pos = Size * k + Slot(pos)
<1>1. pos = Size * (pos \div Size) + Slot(pos) /\ pos \div Size \in Int
  BY SMTT(60) DEF Deployment, Slot
<1>2. QED
  BY <1>1

\* Two positions of one turn of the array have different slots.
LEMMA SlotInjective ==
  ASSUME Deployment, NEW low \in Nat,
         NEW i \in low..(low + Size - 1), NEW j \in low..(low + Size - 1),
         Slot(i) = Slot(j)
  PROVE  i = j
<1>1. PICK a \in Int : i = Size * a + Slot(i)
  BY SMTT(60), Turns DEF Deployment
<1>2. PICK b \in Int : j = Size * b + Slot(j)
  BY SMTT(60), Turns DEF Deployment
<1>3. Slot(i) \in 0..(Size - 1) /\ Slot(j) \in 0..(Size - 1)
  BY SMTT(60), SlotInArray DEF Deployment
<1>. DEFINE d == a - b
<1>4. d \in Int /\ i - j = Size * d
  BY SMTT(60), <1>1, <1>2, <1>3 DEF Deployment
<1>. HIDE DEF d
<1>5. -Size < Size * d /\ Size * d < Size
  BY SMTT(60), <1>4 DEF Deployment
<1>6. d = 0
  BY SMTT(60), <1>4, <1>5 DEF Deployment
<1>7. QED
  BY SMTT(60), <1>4, <1>6 DEF Deployment

\* A position has the slot of the one a turn of the array before it.
LEMMA SlotAround ==
  ASSUME Deployment, NEW pos \in Nat PROVE Slot(pos + Size) = Slot(pos)
<1>1. PICK next \in Nat : next = pos + Size
  BY SMTT(60) DEF Deployment
<1>2. PICK a \in Int : next = Size * a + Slot(next)
  BY Turns
<1>3. PICK b \in Int : pos = Size * b + Slot(pos)
  BY Turns
<1>4. Slot(next) \in 0..(Size - 1) /\ Slot(pos) \in 0..(Size - 1)
  BY SlotInArray
<1>. DEFINE d == a - b - 1
<1>5. d \in Int /\ Size * d = Size * a - Size * b - Size
  BY SMTT(60) DEF Deployment
<1>. HIDE DEF d
<1>6. Slot(pos) - Slot(next) = Size * d
  <2>1. PICK A \in Int, B \in Int, D \in Int : A = Size * a /\ B = Size * b /\ D = Size * d
    BY SMTT(60), <1>5 DEF Deployment
  <2>2. D = A - B - Size /\ next = A + Slot(next) /\ pos = B + Slot(pos)
    BY <1>2, <1>3, <1>5, <2>1
  <2>3. Slot(pos) - Slot(next) = D
    BY SMTT(60), <1>1, <1>4, <2>2 DEF Deployment
  <2>4. QED
    BY <2>1, <2>3
<1>7. -Size < Size * d /\ Size * d < Size
  BY SMTT(60), <1>4, <1>6 DEF Deployment
<1>8. d = 0
  BY SMTT(60), <1>5, <1>7 DEF Deployment
<1>9. Slot(next) = Slot(pos)
  BY SMTT(60), <1>4, <1>6, <1>8 DEF Deployment
<1>10. QED
  BY <1>1, <1>9

\* NULL is not the pointer of an element, and whoever is in enqueue has one.
LEMMA ElmType ==
  ASSUME Deployment, TypeOK
  PROVE  /\ NULL \notin Elements
         /\ \A p \in Posters : pc[p] # "idle" => Elm(p) \in Elements
         /\ \A p \in Posters : Elm(p).by = p /\ Elm(p).n = count[p]
         /\ \A e \in Elements : e.by \in Posters /\ e.n \in 1..MaxEach
                               /\ e = [by |-> e.by, n |-> e.n]
  BY SMTT(60) DEF Deployment, TypeOK, NULL, Elements, Elm

\* The initial state.
LEMMA Initially == ASSUME Deployment, Init PROVE TypeOK /\ IInv
<1>. USE DEF Init, Deployment
<1>1. TypeOK
  BY SMTT(60) DEF TypeOK
<1>2. Walk /\ Lock /\ Fallback
  BY SMTT(60) DEF Walk, Lock, Fallback
<1>3. OneClaimer
  BY SMTT(60), SlotInArray DEF OneClaimer, Owes, Low
<1>4. \A e \in Elements : \A n \in Nat : ~At(e, n)
  BY SMTT(60) DEF At, AtVisited, AtCurr, AtArray, AtList, Claims, Walked, ArrayBase, ListBase, Low
<1>5. Placement
  BY <1>4 DEF Placement, TicketOnce, TicketOrder, TicketBegun, TicketGiven
<1>6. QED
  BY <1>1, <1>2, <1>3, <1>5 DEF IInv

-----------------------------------------------------------------------------
(* What the steps do to the tickets. *)

\* The numbers that tickets are made of.
LEMMA Counts ==
  ASSUME TypeOK, Walk
  PROVE  /\ Len(visited) \in Nat /\ Len(curr) \in Nat /\ Len(overflow) \in Nat
         /\ Low \in Nat /\ Claims \in Nat /\ Walked \in Nat
         /\ ArrayBase \in Nat /\ ListBase \in Nat
         /\ Claims = Producer - Low /\ Walked = Len(visited) + Len(curr)
         /\ \/ ArrayBase = Walked + Len(overflow) /\ ListBase = Walked
            \/ ArrayBase = Walked /\ ListBase = Walked + Claims
<1>1. Len(visited) \in Nat /\ Len(curr) \in Nat /\ Len(overflow) \in Nat
  BY SMTT(60) DEF TypeOK
<1>2. Low \in Nat /\ Claims \in Nat
  BY SMTT(60) DEF TypeOK, Walk, Claims, Low
<1>3. Walked \in Nat
  BY SMTT(60), <1>1 DEF Walked
<1>4. \/ ArrayBase = Walked + Len(overflow) /\ ListBase = Walked + 0
      \/ ArrayBase = Walked + 0 /\ ListBase = Walked + Claims
  BY DEF ArrayBase, ListBase
<1>5. QED
  BY SMTT(60), <1>1, <1>2, <1>3, <1>4 DEF Claims, Walked

\* Tickets are given out in turn.
LEMMA TicketRange ==
  ASSUME Deployment, TypeOK, Walk, NEW e, NEW n \in Nat, At(e, n)
  PROVE  n \in 1..Tickets
<1>1. CASE n \in 1..Len(visited)
  BY SMTT(60), <1>1, Counts DEF Tickets
<1>2. CASE n - Len(visited) \in 1..Len(curr)
  BY SMTT(60), <1>2, Counts DEF Tickets
<1>3. CASE n - ArrayBase \in 1..Claims
  BY SMTT(60), <1>3, Counts DEF Tickets
<1>4. CASE n - ListBase \in 1..Len(overflow)
  BY SMTT(60), <1>4, Counts DEF Tickets
<1>5. QED
  BY <1>1, <1>2, <1>3, <1>4 DEF At, AtVisited, AtCurr, AtArray, AtList

\* A step that leaves the lists alone, and the element of each claimed position,
\* leaves every ticket alone.
LEMMA SameTickets ==
  ASSUME UNCHANGED <<Producer, overflow, curr, visited, Low, ArrayBase, ListBase>>,
         TypeOK, Walk,
         \A e \in Elements : \A pos \in Low..(Producer - 1) : InSlot(e, pos)' <=> InSlot(e, pos)
  PROVE  \A e \in Elements : \A n \in Nat : At(e, n)' <=> At(e, n)
<1>. SUFFICES ASSUME NEW e \in Elements, NEW n \in Nat PROVE At(e, n)' <=> At(e, n)
  OBVIOUS
<1>. DEFINE pos == Low + (n - ArrayBase) - 1
<1>1. Claims' = Claims /\ Claims = Producer - Low
  BY DEF Claims
<1>2. Low \in Nat /\ Producer \in Nat /\ ArrayBase \in Nat
  BY Counts DEF TypeOK
<1>3. n - ArrayBase \in 1..Claims => (InSlot(e, pos)' <=> InSlot(e, pos))
  BY SMTT(60), <1>1, <1>2
<1>4. QED
  BY <1>1, <1>3 DEF At, AtVisited, AtCurr, AtArray, AtList

\* Storing the element of a claimed position does not change its place.
LEMMA StoreKeepsSlots ==
  ASSUME Deployment, TypeOK, Walk, OneClaimer, NEW p \in Posters, Owes(p),
         NEW l, l \notin {"store", "storelocked"},
         array' = [array EXCEPT ![Slot(claimed[p])] = Elm(p)],
         pc' = [pc EXCEPT ![p] = l],
         UNCHANGED <<claimed, count>>
  PROVE  \A e \in Elements : \A pos \in Low..(Producer - 1) : InSlot(e, pos)' <=> InSlot(e, pos)
<1>. SUFFICES ASSUME NEW e \in Elements, NEW pos \in Low..(Producer - 1)
              PROVE  InSlot(e, pos)' <=> InSlot(e, pos)
  OBVIOUS
<1>1. claimed[p] \in Low..(Producer - 1) /\ array[Slot(claimed[p])] = NULL
  BY DEF OneClaimer
<1>2. Low \in Nat /\ Low..(Producer - 1) \subseteq head..(head + Size - 1) /\ head \in Nat
      /\ Low..(Producer - 1) \subseteq Nat
  BY SMTT(60) DEF TypeOK, Walk, Low, Deployment
<1>3. Slot(pos) \in 0..(Size - 1) /\ Slot(claimed[p]) \in 0..(Size - 1)
  BY <1>1, <1>2, SlotInArray
<1>4. NULL \notin Elements /\ e.by \in Posters /\ Elm(p).by = p
  BY ElmType
<1>5. \A r \in Posters : Elm(r)' = Elm(r)
  BY DEF Elm
<1>6. \A r \in Posters : Owes(r)' <=> r # p /\ Owes(r)
  BY DEF Owes, TypeOK
<1>7. CASE pos = claimed[p]
  <2>1. array'[Slot(pos)] = Elm(p) /\ array[Slot(pos)] = NULL
    BY <1>1, <1>3, <1>7 DEF TypeOK
  <2>2. InSlot(e, pos) <=> e = Elm(p)
    <3>1. Owes(e.by) /\ claimed[e.by] = pos => e.by = p
      BY <1>4, <1>7 DEF OneClaimer
    <3>2. QED
      BY <1>4, <1>7, <2>1, <3>1 DEF InSlot
  <2>3. InSlot(e, pos)' <=> e = Elm(p)
    <3>1. Owes(e.by)' /\ claimed'[e.by] = pos => e.by = p
      BY <1>4, <1>6, <1>7 DEF OneClaimer
    <3>2. QED
      BY <1>4, <1>6, <2>1, <3>1 DEF InSlot
  <2>4. QED
    BY <2>2, <2>3
<1>8. CASE pos # claimed[p]
  <2>1. Slot(pos) # Slot(claimed[p])
    BY <1>1, <1>2, <1>8, SlotInjective
  <2>2. array'[Slot(pos)] = array[Slot(pos)]
    BY <1>3, <2>1 DEF TypeOK
  <2>3. QED
    BY <1>4, <1>5, <1>6, <1>8, <2>2 DEF InSlot
<1>9. QED
  BY <1>7, <1>8

\* The iterator gives out the lowest position, which had the next ticket.
LEMMA VisitArrayKeeps ==
  ASSUME Deployment, TypeOK, Walk, OneClaimer, iter_check_array
  PROVE  \A e \in Elements : \A n \in Nat : At(e, n)' <=> At(e, n)
<1>. SUFFICES ASSUME NEW e \in Elements, NEW n \in Nat PROVE At(e, n)' <=> At(e, n)
  OBVIOUS
<1>. DEFINE V == Len(visited)
            x == array[Slot(head)]
<1>1. curr = <<>> /\ curr' = <<>> /\ Len(curr) = 0
  BY SMTT(60) DEF TypeOK, Walk, iter_check_array
<1>2. /\ Low = head /\ Low' = head + 1
      /\ ArrayBase = V + 0 + 0 /\ ArrayBase' = Len(visited') + 0 + 0
      /\ Claims = Producer - head /\ Claims' = Producer - (head + 1)
      /\ ListBase = V + 0 + Claims /\ ListBase' = Len(visited') + 0 + Claims'
  BY <1>1 DEF iter_check_array, IterOnly, Low, Claims, Walked, ArrayBase, ListBase
<1>3. Slot(head) \in 0..(Size - 1) /\ x \in Elements /\ x # NULL
  <2>1. Slot(head) \in 0..(Size - 1)
    BY SlotInArray DEF TypeOK
  <2>2. QED
    BY <2>1 DEF TypeOK, iter_check_array, Stored
<1>4. /\ visited' = Append(visited, x) /\ Len(visited') = V + 1 /\ V \in Nat
      /\ \A i \in 1..V : visited'[i] = visited[i]
      /\ visited'[V + 1] = x
  BY SMTT(60), <1>3, AppendProperties DEF TypeOK, iter_check_array
<1>5. head \in Nat /\ Producer \in Nat /\ head < Producer
  BY SMTT(60) DEF TypeOK, Walk, iter_check_array
<1>. HIDE DEF V
<1>6. V \in Nat /\ ArrayBase = V /\ ArrayBase' = V + 1 /\ ListBase' = ListBase
  <2>1. V \in Nat /\ Len(visited') = V + 1
    BY <1>4
  <2>2. QED
    BY SMTT(60), <1>2, <1>5, <2>1
<1>7. \A pos : InSlot(e, pos)' <=> InSlot(e, pos)
  BY DEF iter_check_array, IterOnly, poster, InSlot, Owes, Elm
<1>8. InSlot(e, head) <=> e = x
  BY SMTT(60), <1>3, ElmType DEF InSlot, OneClaimer
<1>9. AtVisited(e, n)' <=> AtVisited(e, n) \/ (n = V + 1 /\ e = x)
  BY SMTT(60), <1>4 DEF AtVisited, V
<1>10. ~AtCurr(e, n) /\ ~AtCurr(e, n)'
  BY SMTT(60), <1>1 DEF AtCurr
<1>11. AtArray(e, n) <=> AtArray(e, n)' \/ (n = V + 1 /\ e = x)
  <2>1. CASE n = V + 1
    <3>1. n - ArrayBase = 1 /\ Low + (n - ArrayBase) - 1 = head /\ 1 \in 1..Claims
      BY SMTT(60), <1>2, <1>6, <1>5, <2>1
    <3>2. ~(n - ArrayBase' \in 1..Claims')
      BY SMTT(60), <1>2, <1>6, <1>5, <2>1
    <3>3. QED
      BY <1>8, <2>1, <3>1, <3>2 DEF AtArray
  <2>2. CASE n # V + 1
    <3>1. n - ArrayBase \in 1..Claims <=> n - ArrayBase' \in 1..Claims'
      BY SMTT(60), <1>2, <1>6, <1>5, <2>2
    <3>2. PICK pos : pos = Low + (n - ArrayBase) - 1 /\ pos = Low' + (n - ArrayBase') - 1
      BY SMTT(60), <1>2, <1>6, <1>5
    <3>3. QED
      BY <1>7, <2>2, <3>1, <3>2 DEF AtArray
  <2>3. QED
    BY <2>1, <2>2
<1>12. AtList(e, n) <=> AtList(e, n)'
  BY <1>6 DEF AtList, iter_check_array, IterOnly
<1>13. QED
  BY <1>9, <1>10, <1>11, <1>12 DEF At

\* The iterator gives out the head of the list it walks.
LEMMA VisitListKeeps ==
  ASSUME Deployment, TypeOK, Walk, iter_check_list
  PROVE  \A e \in Elements : \A n \in Nat : At(e, n)' <=> At(e, n)
<1>. SUFFICES ASSUME NEW e \in Elements, NEW n \in Nat PROVE At(e, n)' <=> At(e, n)
  OBVIOUS
<1>. DEFINE V == Len(visited)
            C == Len(curr)
<1>1. /\ Head(curr) = curr[1] /\ curr[1] \in Elements /\ C \in Nat \ {0}
      /\ Len(curr') = C - 1 /\ \A i \in 1..(C - 1) : curr'[i] = curr[i + 1]
  BY SMTT(60) DEF TypeOK, iter_check_list
<1>2. /\ visited' = Append(visited, curr[1]) /\ Len(visited') = V + 1 /\ V \in Nat
      /\ \A i \in 1..V : visited'[i] = visited[i]
      /\ visited'[V + 1] = curr[1]
  BY SMTT(60), <1>1, AppendProperties DEF TypeOK, iter_check_list
<1>3. Walked' = Walked
  BY SMTT(60), <1>1, <1>2 DEF Walked
<1>4. /\ UNCHANGED <<Producer, overflow, cpc, head, pc, claimed, count, array>>
      /\ UNCHANGED <<Low, Claims, ArrayBase, ListBase>>
  BY <1>3 DEF iter_check_list, IterOnly, poster, Low, Claims, ArrayBase, ListBase
<1>5. AtVisited(e, n)' <=> AtVisited(e, n) \/ (n = V + 1 /\ e = curr[1])
  BY SMTT(60), <1>2 DEF AtVisited
<1>6. AtCurr(e, n) <=> AtCurr(e, n)' \/ (n = V + 1 /\ e = curr[1])
  <2>1. CASE n = V + 1
    BY SMTT(60), <1>1, <1>2, <2>1 DEF AtCurr
  <2>2. CASE n # V + 1
    <3>1. n - V \in 1..C <=> n - Len(visited') \in 1..Len(curr')
      BY SMTT(60), <1>1, <1>2, <2>2
    <3>2. n - V \in 1..C => curr'[n - Len(visited')] = curr[n - V]
      BY SMTT(60), <1>1, <1>2, <2>2
    <3>3. QED
      BY <2>2, <3>1, <3>2 DEF AtCurr
  <2>3. QED
    BY <2>1, <2>2
<1>7. AtArray(e, n)' <=> AtArray(e, n)
  BY <1>4 DEF AtArray, InSlot, Owes, Elm
<1>8. AtList(e, n)' <=> AtList(e, n)
  BY <1>4 DEF AtList
<1>9. QED
  BY <1>5, <1>6, <1>7, <1>8 DEF At

\* The overflow list becomes the list that is walked next.
LEMMA RemoveAllKeeps ==
  ASSUME Deployment, TypeOK, Walk, iter_end_removeAll
  PROVE  \A e \in Elements : \A n \in Nat : At(e, n)' <=> At(e, n)
<1>. SUFFICES ASSUME NEW e \in Elements, NEW n \in Nat PROVE At(e, n)' <=> At(e, n)
  OBVIOUS
<1>1. /\ curr = <<>> /\ Len(curr) = 0 /\ curr' = overflow
      /\ overflow' = <<>> /\ Len(overflow') = 0
      /\ UNCHANGED <<Producer, head, pc, claimed, count, array, visited>>
  BY DEF Walk, iter_end_removeAll, poster
<1>2. /\ ArrayBase = (Len(visited) + 0) + Len(overflow)
      /\ ArrayBase' = (Len(visited) + Len(overflow)) + 0
      /\ ListBase = (Len(visited) + 0) + 0
      /\ UNCHANGED <<Low, Claims>>
  BY <1>1 DEF iter_end_removeAll, ArrayBase, ListBase, Walked, Low, Claims
<1>3. Len(visited) \in Nat /\ Len(overflow) \in Nat
  BY Counts
<1>4. ArrayBase' = ArrayBase /\ ListBase = Len(visited)
  BY SMTT(60), <1>2, <1>3
<1>5. AtVisited(e, n)' <=> AtVisited(e, n)
  BY <1>1 DEF AtVisited
<1>6. ~AtCurr(e, n) /\ ~AtList(e, n)' /\ (AtCurr(e, n)' <=> AtList(e, n))
  BY SMTT(60), <1>1, <1>4 DEF AtCurr, AtList
<1>7. AtArray(e, n)' <=> AtArray(e, n)
  BY <1>1, <1>2, <1>4 DEF AtArray, InSlot, Owes, Elm
<1>8. QED
  BY <1>5, <1>6, <1>7 DEF At

\* A poster that gets a position of the array gets the next ticket.
LEMMA ClaimAdds ==
  ASSUME Deployment, TypeOK, Walk, Fallback, OneClaimer,
         NEW p \in Posters, ~Owes(p), Elm(p)' \in Elements,
         LoadIncrementBounded(p),
         pc'[p] \in {"store", "storelocked"},
         \A r \in Posters : r # p => pc'[r] = pc[r] /\ count'[r] = count[r],
         UNCHANGED <<array, overflow, cpc, head, curr, visited>>
  PROVE  \A e \in Elements : \A n \in Nat :
           At(e, n)' <=> At(e, n) \/ (e = Elm(p)' /\ n = Tickets + 1)
<1>. SUFFICES ASSUME NEW e \in Elements, NEW n \in Nat
              PROVE  At(e, n)' <=> At(e, n) \/ (e = Elm(p)' /\ n = Tickets + 1)
  OBVIOUS
<1>1. Producer \in Nat /\ Producer < UpperBound /\ Producer' = Producer + 1
      /\ UpperBound \in Nat /\ head \in Nat /\ Size \in Nat
      /\ Low' = Low /\ Low \in Nat /\ Low <= Producer
  BY SMTT(60), Counts DEF TypeOK, Walk, LoadIncrementBounded, Low, Deployment
<1>2. claimed'[p] = Producer /\ \A r \in Posters : r # p => claimed'[r] = claimed[r]
  BY DEF TypeOK, LoadIncrementBounded
<1>3. Claims = Producer - Low /\ Claims' = Claims + 1 /\ Claims \in Nat
  BY SMTT(60), <1>1 DEF Claims
<1>4. ArrayBase' = ArrayBase /\ ArrayBase \in Nat
  BY Counts DEF ArrayBase, Walked
<1>5. Tickets = ArrayBase + Claims
  <2>1. CASE cpc = "removeAll"
    BY SMTT(60), <1>3, <2>1, Counts DEF Tickets, ArrayBase
  <2>2. CASE cpc # "removeAll"
    <3>1. Len(overflow) = 0 /\ ArrayBase = Walked + 0
      BY SMTT(60), <1>1, <2>2 DEF Fallback, ArrayBase
    <3>2. QED
      BY SMTT(60), <1>3, <3>1, Counts DEF Tickets
  <2>3. QED
    BY <2>1, <2>2
<1>6. AtList(e, n)' <=> AtList(e, n)
  <2>1. CASE cpc = "removeAll"
    BY <2>1 DEF AtList, ListBase, Walked
  <2>2. CASE cpc # "removeAll"
    <3>1. overflow = <<>> /\ overflow' = <<>>
      BY SMTT(60), <1>1, <2>2 DEF Fallback
    <3>2. QED
      BY SMTT(60), <3>1 DEF AtList
  <2>3. QED
    BY <2>1, <2>2
<1>7. (AtVisited(e, n)' <=> AtVisited(e, n)) /\ (AtCurr(e, n)' <=> AtCurr(e, n))
  BY DEF AtVisited, AtCurr
<1>8. e.by \in Posters
  BY ElmType
<1>9. \A pos \in Low..(Producer - 1) : InSlot(e, pos)' <=> InSlot(e, pos)
  <2>. SUFFICES ASSUME NEW pos \in Low..(Producer - 1)
                PROVE  InSlot(e, pos)' <=> InSlot(e, pos)
    OBVIOUS
  <2>1. CASE e.by = p
    <3>1. claimed'[e.by] # pos /\ ~Owes(e.by)
      BY SMTT(60), <1>1, <1>2, <2>1
    <3>2. QED
      BY <3>1 DEF InSlot
  <2>2. CASE e.by # p
    BY <1>2, <1>8, <2>2 DEF InSlot, Owes, Elm
  <2>3. QED
    BY <2>1, <2>2
<1>. DEFINE x == Elm(p)'
<1>10. PICK last \in Nat : last = Producer
  BY <1>1
<1>11. InSlot(e, last)' <=> e = x
  <2>1. array'[Slot(last)] = NULL /\ NULL # e
    BY SMTT(60), <1>1, <1>10, ElmType DEF OneClaimer, Walk
  <2>2. \A r \in Posters : r # p => ~(Owes(r)' /\ claimed'[r] = last)
    BY SMTT(60), <1>1, <1>2, <1>10 DEF OneClaimer, Owes
  <2>3. Owes(p)' /\ Elm(p)'.by = p
    BY DEF Owes, Elm
  <2>4. QED
    BY <1>2, <1>8, <1>10, <2>1, <2>2, <2>3 DEF InSlot
<1>12. AtArray(e, n)' <=> AtArray(e, n) \/ (e = Elm(p)' /\ n = Tickets + 1)
  <2>1. CASE n = Tickets + 1
    <3>1. Low' + (n - ArrayBase') - 1 = last /\ n - ArrayBase' \in 1..Claims'
          /\ n - ArrayBase \notin 1..Claims
      BY SMTT(60), <1>1, <1>3, <1>4, <1>5, <1>10, <2>1
    <3>2. QED
      BY <1>11, <2>1, <3>1 DEF AtArray
  <2>2. CASE n # Tickets + 1
    <3>1. n - ArrayBase' \in 1..Claims' <=> n - ArrayBase \in 1..Claims
      BY SMTT(60), <1>1, <1>3, <1>4, <1>5, <2>2
    <3>2. PICK pos : pos = Low + (n - ArrayBase) - 1 /\ pos = Low' + (n - ArrayBase') - 1
      BY <1>1, <1>4
    <3>3. n - ArrayBase \in 1..Claims => pos \in Low..(Producer - 1)
      BY SMTT(60), <1>1, <1>3, <1>4, <3>2
    <3>4. QED
      BY <1>9, <2>2, <3>1, <3>2, <3>3 DEF AtArray
  <2>3. QED
    BY <2>1, <2>2
<1>13. QED
  BY <1>6, <1>7, <1>12 DEF At

\* A poster that finds the array full gets the next ticket for its place at the
\* end of the overflow list.
LEMMA AppendAdds ==
  ASSUME Deployment, TypeOK, Walk, NEW p \in Posters, Elm(p) \in Elements,
         cpc # "removeAll", ~Owes(p), ~Owes(p)',
         overflow' = Append(overflow, Elm(p)),
         \A r \in Posters : r # p => pc'[r] = pc[r],
         UNCHANGED <<Producer, array, claimed, count, cpc, head, curr, visited>>
  PROVE  \A e \in Elements : \A n \in Nat :
           At(e, n)' <=> At(e, n) \/ (e = Elm(p) /\ n = Tickets + 1)
<1>. SUFFICES ASSUME NEW e \in Elements, NEW n \in Nat
              PROVE  At(e, n)' <=> At(e, n) \/ (e = Elm(p) /\ n = Tickets + 1)
  OBVIOUS
<1>1. /\ UNCHANGED <<Low, Claims, ArrayBase, ListBase>>
      /\ ListBase = Walked + Claims /\ Walked \in Nat /\ Claims \in Nat
  BY Counts DEF Low, Claims, Walked, ArrayBase, ListBase
<1>2. /\ Len(overflow') = Len(overflow) + 1 /\ Len(overflow) \in Nat
      /\ \A i \in 1..Len(overflow) : overflow'[i] = overflow[i]
      /\ overflow'[Len(overflow) + 1] = Elm(p)
  BY SMTT(60), AppendProperties DEF TypeOK
<1>3. Tickets = ListBase + Len(overflow)
  BY <1>1 DEF Tickets
<1>4. e.by \in Posters
  BY ElmType
<1>5. \A pos : InSlot(e, pos)' <=> InSlot(e, pos)
  <2>1. Owes(e.by)' <=> Owes(e.by)
    BY <1>4 DEF Owes
  <2>2. QED
    BY <2>1 DEF InSlot, Elm
<1>6. AtArray(e, n)' <=> AtArray(e, n)
  BY <1>1, <1>5 DEF AtArray
<1>7. (AtVisited(e, n)' <=> AtVisited(e, n)) /\ (AtCurr(e, n)' <=> AtCurr(e, n))
  BY DEF AtVisited, AtCurr
<1>8. AtList(e, n)' <=> AtList(e, n) \/ (e = Elm(p) /\ n = Tickets + 1)
  <2>1. PICK i \in Int : i = n - ListBase
    BY SMTT(60), <1>1
  <2>2. n = Tickets + 1 <=> i = Len(overflow) + 1
    BY SMTT(60), <1>1, <1>2, <1>3, <2>1
  <2>3. QED
    BY SMTT(60), <1>1, <1>2, <2>1, <2>2 DEF AtList
<1>9. QED
  BY <1>6, <1>7, <1>8 DEF At

\* A step after which every element has the ticket it had.
LEMMA PlacementKept ==
  ASSUME TypeOK, TypeOK', Placement,
         \A e \in Elements : \A n \in Nat : At(e, n)' <=> At(e, n),
         \A f \in Elements : before'[f] = before[f]
                             \/ (before'[f] = returned /\ \A n \in Nat : ~At(f, n)),
         \A e \in Elements : Begun(e) => Begun(e)',
         returned \subseteq returned',
         \A e \in returned' : \E n \in Nat : At(e, n),
         \A p \in Posters : pc'[p] = "release" =>
                              Elm(p)' \in Elements /\ \E n \in Nat : At([by |-> p, n |-> count'[p]], n)
  PROVE  Placement'
<1>. USE DEF Placement
<1>1. TicketOnce'
  BY DEF TicketOnce
<1>2. TicketOrder'
  BY DEF TicketOrder
<1>3. TicketBegun'
  BY DEF TicketBegun
<1>4. \A e \in returned' : \E n \in Nat : At(e, n)'
  BY DEF TypeOK
<1>5. ASSUME NEW p \in Posters, pc'[p] = "release" PROVE \E n \in Nat : At(Elm(p), n)'
  <2>1. PICK n \in Nat : At([by |-> p, n |-> count'[p]], n)
    BY <1>5
  <2>2. PICK x \in Elements : x = Elm(p)' /\ At(x, n)
    BY <1>5, <2>1 DEF Elm
  <2>3. At(x, n)'
    BY <2>2
  <2>4. QED
    BY <2>2, <2>3
<1>6. \A e \in Elements : before'[e] \subseteq returned'
  BY DEF TicketGiven
<1>7. TicketGiven'
  BY <1>4, <1>5, <1>6 DEF TicketGiven
<1>8. QED
  BY <1>1, <1>2, <1>3, <1>7

\* A step that gives one element its place, and with it the next ticket.
LEMMA PlacementAdds ==
  ASSUME Deployment, TypeOK, TypeOK', Walk, Placement, NEW x \in Elements,
         \A e \in Elements : \A n \in Nat :
           At(e, n)' <=> At(e, n) \/ (e = x /\ n = Tickets + 1),
         \A n \in Nat : ~At(x, n),
         \A f \in Elements : f # x => before'[f] = before[f],
         before'[x] \subseteq returned,
         \A e \in Elements : Begun(e) \/ e = x => Begun(e)',
         returned' = returned,
         \A p \in Posters : pc'[p] = "release" =>
           Elm(p)' = x \/ (pc[p] = "release" /\ count'[p] = count[p])
  PROVE  Placement'
<1>. USE DEF Placement
<1>1. \A e \in Elements : \A n \in Nat : At(e, n) => n < Tickets + 1
  BY SMTT(60), TicketRange, Counts DEF Tickets
<1>2. Tickets + 1 \in Nat
  BY SMTT(60), Counts DEF Tickets
<1>3. x \notin returned
  BY DEF TicketGiven
<1>4. TicketOnce'
  BY SMTT(60) DEF TicketOnce
<1>5. TicketOrder'
  <2>. SUFFICES ASSUME NEW e \in Elements, NEW f \in Elements, NEW m \in Nat, NEW n \in Nat,
                       e \in before'[f], At(e, m)', At(f, n)'
                PROVE  m < n
    BY DEF TicketOrder
  <2>1. e \in returned /\ e # x /\ At(e, m)
    BY <1>3 DEF TicketGiven
  <2>2. CASE f = x
    BY <1>1, <2>1, <2>2
  <2>3. CASE f # x
    BY <2>1, <2>3 DEF TicketOrder
  <2>4. QED
    BY <2>2, <2>3
<1>6. TicketBegun'
  BY DEF TicketBegun
<1>7. \A e \in returned' : \E n \in Nat : At(e, n)'
  BY DEF TicketGiven, TypeOK
<1>8. ASSUME NEW p \in Posters, pc'[p] = "release" PROVE \E n \in Nat : At(Elm(p), n)'
  <2>1. CASE Elm(p)' = x
    <3>1. PICK n \in Nat : n = Tickets + 1
      BY <1>2
    <3>2. At(x, n)'
      BY <3>1
    <3>3. QED
      BY <2>1, <3>2
  <2>2. CASE pc[p] = "release" /\ count'[p] = count[p]
    <3>1. PICK n \in Nat : At(Elm(p), n)
      BY <2>2 DEF TicketGiven
    <3>2. Elm(p)' = Elm(p) /\ Elm(p) \in Elements
      BY <2>2, ElmType DEF Elm
    <3>3. PICK y \in Elements : y = Elm(p)
      BY <3>2
    <3>4. At(y, n)'
      BY <3>1, <3>3
    <3>5. QED
      BY <3>2, <3>3, <3>4
  <2>3. QED
    BY <1>8, <2>1, <2>2
<1>9. \A e \in Elements : before'[e] \subseteq returned'
  BY DEF TicketGiven
<1>10. TicketGiven'
  BY <1>7, <1>8, <1>9 DEF TicketGiven
<1>11. QED
  BY <1>4, <1>5, <1>6, <1>10

-----------------------------------------------------------------------------
(* Every step keeps the types. *)

\* The steps of enqueue.
LEMMA TypePost ==
  ASSUME Deployment, TypeOK, NEW p \in Posters, Enqueue(p) \/ Post(p)
  PROVE  TypeOK'
<1>. USE DEF Goto, Return, iter
<1>1. CASE Enqueue(p)
  <2>1. count' \in [Posters -> 0..MaxEach] /\ count'[p] # 0 /\ Elm(p)' \in Elements
        /\ \A r \in Posters : r # p => count'[r] = count[r]
    BY SMTT(60), <1>1 DEF Enqueue, TypeOK, Elm, Elements, Deployment
  <2>2. before' \in [Elements -> SUBSET Elements]
    BY <1>1, <2>1 DEF Enqueue, TypeOK
  <2>3. /\ claimed' \in [Posters -> Nat] /\ Producer' \in Nat
        /\ pc' \in [Posters -> {"idle", "store", "acquire", "again", "storelocked", "release"}]
    <3>1. \/ LoadIncrementBounded(p) /\ Goto(p, "store")
          \/ Goto(p, "acquire") /\ UNCHANGED <<claimed, Producer>>
      BY <1>1 DEF Enqueue
    <3>2. claimed' \in [Posters -> Nat] /\ Producer' \in Nat
      <4>1. ASSUME LoadIncrementBounded(p) PROVE claimed' \in [Posters -> Nat] /\ Producer' \in Nat
        BY SMTT(60), <4>1 DEF LoadIncrementBounded, TypeOK
      <4>2. QED
        BY <3>1, <4>1 DEF TypeOK
    <3>3. pc' \in [Posters -> {"idle", "store", "acquire", "again", "storelocked", "release"}]
      BY <3>1 DEF TypeOK
    <3>4. QED
      BY <3>2, <3>3
  <2>4. \A r \in Posters : pc'[r] # "idle" => count'[r] # 0
    BY <1>1, <2>1 DEF Enqueue, TypeOK
  <2>5. UNCHANGED <<Consumer, UpperBound, array, overflow, mutex, returned>>
        /\ UNCHANGED <<cpc, head, tail, curr, visited>>
    BY <1>1 DEF Enqueue
  <2>6. QED
    BY <2>1, <2>2, <2>3, <2>4, <2>5 DEF TypeOK
<1>2. CASE Store(p) \/ StoreLocked(p)
  <2>1. Elm(p) \in Elements
    BY <1>2, ElmType DEF Store, StoreLocked
  <2>2. array' \in [0..(Size - 1) -> Elements \cup {NULL}]
    BY <1>2, <2>1 DEF Store, StoreLocked, TypeOK
  <2>3. QED
    BY <1>2, <2>1, <2>2 DEF Store, StoreLocked, TypeOK
<1>3. CASE Acquire(p)
  BY <1>3 DEF Acquire, TypeOK
<1>4. CASE Again(p)
  <2>1. Elm(p) \in Elements
    BY <1>4, ElmType DEF Again
  <2>2. UNCHANGED <<Consumer, UpperBound, array, mutex, count, returned, before>>
        /\ UNCHANGED <<cpc, head, tail, curr, visited>>
    BY <1>4 DEF Again
  <2>3. CASE LoadIncrementBounded(p) /\ Goto(p, "storelocked") /\ UNCHANGED overflow
    BY SMTT(60), <1>4, <2>2, <2>3 DEF Again, LoadIncrementBounded, TypeOK
  <2>4. CASE /\ overflow' = Append(overflow, Elm(p)) /\ Goto(p, "release")
             /\ UNCHANGED <<claimed, Producer>>
    <3>1. overflow' \in Seq(Elements)
      BY <2>1, <2>4, AppendProperties DEF TypeOK
    <3>2. QED
      BY <1>4, <2>2, <2>4, <3>1 DEF Again, TypeOK
  <2>5. QED
    BY <1>4, <2>3, <2>4 DEF Again
<1>5. CASE Release(p)
  <2>1. Elm(p) \in Elements
    BY <1>5, ElmType DEF Release
  <2>2. QED
    BY <1>5, <2>1 DEF Release, TypeOK
<1>6. QED
  BY <1>1, <1>2, <1>3, <1>4, <1>5 DEF Post

\* The steps of the advancing thread.
LEMMA TypeAdvance ==
  ASSUME Deployment, TypeOK, Advance
  PROVE  TypeOK'
<1>. USE DEF IterOnly, poster
<1>1. CASE iter_begin \/ iter_check_done \/ iter_end_acquire \/ iter_end_peek
           \/ iter_end_release
  BY <1>1 DEF iter_begin, iter_check_done, iter_end_acquire, iter_end_peek,
              iter_end_release, TypeOK
<1>2. CASE iter_check_array
  <2>1. array[Slot(head)] \in Elements
    <3>1. Slot(head) \in 0..(Size - 1)
      BY SlotInArray DEF TypeOK
    <3>2. QED
      BY <1>2, <3>1 DEF iter_check_array, Stored, TypeOK
  <2>2. visited' \in Seq(Elements)
    BY SMTT(60), <1>2, <2>1 DEF iter_check_array, TypeOK
  <2>3. QED
    BY <1>2, <2>2 DEF iter_check_array, TypeOK
<1>3. CASE iter_check_list
  <2>1. Head(curr) \in Elements /\ Tail(curr) \in Seq(Elements)
    BY SMTT(60), <1>3 DEF iter_check_list, TypeOK
  <2>2. visited' \in Seq(Elements)
    BY SMTT(60), <1>3, <2>1 DEF iter_check_list, TypeOK
  <2>3. QED
    BY <1>3, <2>1, <2>2 DEF iter_check_list, TypeOK
<1>4. CASE iter_end_array
  <2>1. array' \in [0..(Size - 1) -> Elements \cup {NULL}]
    BY <1>4 DEF iter_end_array, TypeOK
  <2>2. QED
    BY SMTT(60), <1>4, <2>1 DEF iter_end_array, TypeOK
<1>5. CASE iter_end_raise
  BY SMTT(60), <1>5 DEF iter_end_raise, NewBound, TypeOK, Deployment
<1>6. CASE iter_end_removeAll
  BY SMTT(60), <1>6 DEF iter_end_removeAll, TypeOK
<1>7. QED
  BY <1>1, <1>2, <1>3, <1>4, <1>5, <1>6 DEF Advance

-----------------------------------------------------------------------------
(* Every step keeps the invariant: the steps of enqueue. *)

\* Enqueue and Again when the bounded counter gives a position: the slot is free
\* and nobody else has it.
LEMMA ClaimKeepsClaimers ==
  ASSUME Deployment, TypeOK, Walk, OneClaimer, NEW p \in Posters, ~Owes(p),
         LoadIncrementBounded(p),
         \A r \in Posters : r # p => pc'[r] = pc[r],
         UNCHANGED <<array, cpc, head>>
  PROVE  OneClaimer'
<1>1. /\ Producer' = Producer + 1 /\ claimed'[p] = Producer
      /\ \A r \in Posters : r # p => claimed'[r] = claimed[r]
      /\ Producer < UpperBound
  BY DEF LoadIncrementBounded, TypeOK
<1>2. Low' = Low /\ Low \in Nat /\ Low <= Producer /\ Producer \in Nat
      /\ head \in Nat /\ Size \in Nat /\ Producer \in Producer..(head + Size - 1)
  BY SMTT(60), <1>1, Counts DEF Low, TypeOK, Walk, Deployment
<1>3. \A r \in Posters : Owes(r)' => r = p \/ Owes(r)
  BY DEF Owes
<1>4. array[Slot(Producer)] = NULL
  BY <1>2 DEF OneClaimer
<1>5. \A r \in Posters :
        Owes(r)' => claimed'[r] \in Low'..(Producer' - 1) /\ array'[Slot(claimed'[r])] = NULL
  <2>. SUFFICES ASSUME NEW r \in Posters, Owes(r)'
                PROVE  claimed'[r] \in Low'..(Producer' - 1) /\ array'[Slot(claimed'[r])] = NULL
    OBVIOUS
  <2>1. CASE r = p
    BY SMTT(60), <1>1, <1>2, <1>4, <2>1
  <2>2. CASE r # p
    <3>1. claimed[r] \in Low..(Producer - 1) /\ array[Slot(claimed[r])] = NULL
      BY <1>3, <2>2 DEF OneClaimer
    <3>2. QED
      BY SMTT(60), <1>1, <1>2, <2>2, <3>1
  <2>3. QED
    BY <2>1, <2>2
<1>6. \A r, t \in Posters : Owes(r)' /\ Owes(t)' /\ claimed'[r] = claimed'[t] => r = t
  <2>1. \A r \in Posters : r # p /\ Owes(r)' => claimed'[r] # Producer
    BY SMTT(60), <1>1, <1>2, <1>3 DEF OneClaimer
  <2>2. QED
    BY <1>1, <1>3, <2>1 DEF OneClaimer
<1>7. \A pos \in Producer'..(head' + Size - 1) : array'[Slot(pos)] = NULL
  BY SMTT(60), <1>1, <1>2 DEF OneClaimer
<1>8. QED
  BY <1>5, <1>6, <1>7 DEF OneClaimer

\* enqueue is called.
LEMMA StepEnqueue ==
  ASSUME Deployment, TypeOK, IInv, NEW p \in Posters, Enqueue(p)
  PROVE  IInv'
<1>. USE DEF IInv
<1>1. TypeOK'
  BY TypePost
<1>2. PICK x : x = Elm(p)'
  OBVIOUS
<1>3. /\ pc[p] = "idle" /\ count'[p] = count[p] + 1
      /\ \A r \in Posters : r # p => count'[r] = count[r] /\ pc'[r] = pc[r]
      /\ before' = [before EXCEPT ![x] = returned]
      /\ UNCHANGED <<Consumer, UpperBound, array, overflow, mutex, returned>>
      /\ UNCHANGED <<cpc, head, tail, curr, visited>>
  BY <1>2 DEF Enqueue, Goto, TypeOK, iter
<1>4. \/ LoadIncrementBounded(p) /\ Goto(p, "store")
      \/ Producer = UpperBound /\ Goto(p, "acquire") /\ UNCHANGED <<claimed, Producer>>
  BY DEF Enqueue
<1>5. pc'[p] \in {"store", "acquire"} /\ ~Owes(p)
  BY <1>3, <1>4 DEF Goto, TypeOK, Owes
<1>6. x = [by |-> p, n |-> count'[p]] /\ x \in Elements
  BY SMTT(60), <1>1, <1>5, <1>2 DEF TypeOK, Elm, Elements
<1>7. \A n \in Nat : ~At(x, n)
  <2>1. ~Begun(x)
    BY SMTT(60), <1>3, <1>6 DEF Begun, TypeOK
  <2>2. QED
    BY <1>6, <2>1 DEF Placement, TicketBegun
<1>8. \A e \in Elements : Begun(e) => Begun(e)'
  <2>. SUFFICES ASSUME NEW e \in Elements, Begun(e) PROVE Begun(e)'
    OBVIOUS
  <2>1. e.by \in Posters /\ e.n \in Nat /\ count[e.by] \in Nat
    BY SMTT(60), ElmType DEF TypeOK
  <2>2. QED
    BY SMTT(60), <1>3, <2>1 DEF Begun
<1>9. \A f \in Elements : before'[f] = IF f = x THEN returned ELSE before[f]
  BY <1>3, <1>6 DEF TypeOK
<1>10. Walk' /\ Lock' /\ Fallback'
  <2>1. Walk'
    BY SMTT(60), <1>3, <1>4 DEF Walk, LoadIncrementBounded, TypeOK
  <2>2. Lock'
    BY <1>3, <1>5 DEF Lock
  <2>3. Fallback'
    BY SMTT(60), <1>3, <1>4 DEF Fallback, LoadIncrementBounded, Walk, TypeOK
  <2>4. QED
    BY <2>1, <2>2, <2>3
<1>11. \A r \in Posters : pc'[r] = "release" => pc[r] = "release" /\ count'[r] = count[r]
  BY <1>3, <1>5
<1>12. CASE LoadIncrementBounded(p) /\ Goto(p, "store")
  <2>1. OneClaimer'
    BY <1>3, <1>5, <1>12, ClaimKeepsClaimers
  <2>2. pc'[p] = "store"
    BY <1>12 DEF Goto, TypeOK
  <2>3. \A e \in Elements : \A n \in Nat : At(e, n)' <=> At(e, n) \/ (e = x /\ n = Tickets + 1)
    BY <1>3, <1>5, <1>6, <1>12, <1>2, <2>2, ClaimAdds
  <2>4. Begun(x)'
    BY SMTT(60), <1>1, <1>3, <1>6, <2>2 DEF Begun, TypeOK
  <2>5. Placement'
    <3>1. Walk /\ Placement /\ x \in Elements /\ returned' = returned
      BY <1>3, <1>6
    <3>2. (\A f \in Elements : f # x => before'[f] = before[f]) /\ before'[x] \subseteq returned
      BY <1>6, <1>9
    <3>3. \A e \in Elements : Begun(e) \/ e = x => Begun(e)'
      BY <1>8, <2>4
    <3>4. \A r \in Posters : pc'[r] = "release" =>
            Elm(r)' = x \/ (pc[r] = "release" /\ count'[r] = count[r])
      BY <1>11
    <3>. HIDE DEF IInv
    <3>5. QED
      BY <1>1, <1>7, <2>3, <3>1, <3>2, <3>3, <3>4, PlacementAdds
  <2>6. QED
    BY <1>10, <2>1, <2>5
<1>13. CASE Producer = UpperBound /\ Goto(p, "acquire") /\ UNCHANGED <<claimed, Producer>>
  <2>1. \A r \in Posters : Owes(r)' <=> Owes(r)
    BY <1>3, <1>13 DEF Owes, Goto, TypeOK
  <2>2. UNCHANGED <<Low, Walked, Claims, ArrayBase, ListBase>>
    BY <1>3, <1>13 DEF Low, Walked, Claims, ArrayBase, ListBase
  <2>3. OneClaimer'
    BY <1>3, <1>13, <2>1, <2>2 DEF OneClaimer
  <2>4. \A e \in Elements : \A pos \in Low..(Producer - 1) : InSlot(e, pos)' <=> InSlot(e, pos)
    <3>. SUFFICES ASSUME NEW e \in Elements, NEW pos \in Low..(Producer - 1)
                  PROVE  InSlot(e, pos)' <=> InSlot(e, pos)
      OBVIOUS
    <3>1. e.by \in Posters /\ (e.by = p => ~Owes(e.by))
      BY <1>5, ElmType
    <3>2. e.by # p => Elm(e.by)' = Elm(e.by)
      BY <1>3, <3>1 DEF Elm
    <3>3. QED
      BY <1>3, <1>13, <2>1, <3>1, <3>2 DEF InSlot
  <2>5. \A e \in Elements : \A n \in Nat : At(e, n)' <=> At(e, n)
    BY <1>3, <1>13, <2>2, <2>4, SameTickets
  <2>6. ASSUME NEW r \in Posters, pc'[r] = "release"
        PROVE  Elm(r)' \in Elements /\ \E n \in Nat : At([by |-> r, n |-> count'[r]], n)
    <3>1. Elm(r)' = [by |-> r, n |-> count'[r]] /\ Elm(r) = [by |-> r, n |-> count[r]]
      BY DEF Elm
    <3>2. pc[r] = "release" /\ count'[r] = count[r]
      BY <1>11, <2>6
    <3>3. QED
      BY SMTT(60), <3>1, <3>2, ElmType DEF Placement, TicketGiven
  <2>7. Placement'
    <3>1. \A e \in returned' : \E n \in Nat : At(e, n)
      BY <1>3 DEF Placement, TicketGiven
    <3>2. QED
      BY <1>1, <1>3, <1>7, <1>8, <1>9, <2>5, <2>6, <3>1, PlacementKept
  <2>8. QED
    BY <1>10, <2>3, <2>7
<1>14. QED
  BY <1>4, <1>12, <1>13

\* The element of a claimed position has a ticket before it is stored.
LEMMA OwedHasTicket ==
  ASSUME Deployment, TypeOK, Walk, OneClaimer, NEW p \in Posters, Owes(p)
  PROVE  \E n \in Nat : At(Elm(p), n)
<1>1. Low \in Nat /\ ArrayBase \in Nat /\ Producer \in Nat /\ Claims = Producer - Low
  BY Counts DEF TypeOK
<1>2. PICK c \in Nat : c = claimed[p] /\ c \in Low..(Producer - 1)
  BY DEF OneClaimer, TypeOK
<1>3. PICK n \in Nat : n = ArrayBase + (c - Low) + 1
  BY SMTT(60), <1>2, <1>1
<1>4. n - ArrayBase \in 1..Claims /\ Low + (n - ArrayBase) - 1 = c
  BY SMTT(60), <1>2, <1>3, <1>1
<1>5. InSlot(Elm(p), c)
  BY <1>2, ElmType DEF InSlot
<1>6. QED
  BY <1>4, <1>5 DEF At, AtArray

\* Storing an element keeps the slots of the other claimers free.
LEMMA StoreKeepsClaimers ==
  ASSUME Deployment, TypeOK, Walk, OneClaimer, NEW p \in Posters, Owes(p),
         NEW l, l \notin {"store", "storelocked"},
         array' = [array EXCEPT ![Slot(claimed[p])] = Elm(p)],
         pc' = [pc EXCEPT ![p] = l],
         UNCHANGED <<claimed, Producer, cpc, head>>
  PROVE  OneClaimer'
<1>1. Low' = Low /\ claimed[p] \in Low..(Producer - 1)
  BY DEF OneClaimer, Low
<1>2. /\ Low \in Nat /\ head \in Nat /\ Producer \in Nat /\ Size \in Nat
      /\ head <= Low /\ Producer <= head + Size
  BY SMTT(60), Counts DEF TypeOK, Walk, Deployment, Low
<1>3. \A r \in Posters : Owes(r)' <=> r # p /\ Owes(r)
  BY DEF Owes, TypeOK
<1>4. ASSUME NEW pos \in head..(head + Size - 1), pos # claimed[p]
      PROVE  array'[Slot(pos)] = array[Slot(pos)]
  <2>1. claimed[p] \in head..(head + Size - 1) /\ pos \in Nat
    BY SMTT(60), <1>1, <1>2
  <2>2. Slot(pos) # Slot(claimed[p]) /\ Slot(pos) \in 0..(Size - 1)
    BY <1>2, <1>4, <2>1, SlotInjective, SlotInArray
  <2>3. QED
    BY <2>2 DEF TypeOK
<1>5. ASSUME NEW r \in Posters, Owes(r)'
      PROVE  claimed'[r] \in Low'..(Producer' - 1) /\ array'[Slot(claimed'[r])] = NULL
  <2>1. Owes(r) /\ claimed[r] # claimed[p]
    BY <1>3, <1>5 DEF OneClaimer
  <2>2. claimed[r] \in Low..(Producer - 1) /\ array[Slot(claimed[r])] = NULL
    BY <2>1 DEF OneClaimer
  <2>3. claimed[r] \in head..(head + Size - 1)
    BY SMTT(60), <1>2, <2>2
  <2>4. QED
    BY <1>1, <1>4, <2>1, <2>2, <2>3
<1>6. \A r, t \in Posters : Owes(r)' /\ Owes(t)' /\ claimed'[r] = claimed'[t] => r = t
  BY <1>3 DEF OneClaimer
<1>7. ASSUME NEW pos \in Producer'..(head' + Size - 1)
      PROVE  array'[Slot(pos)] = NULL
  <2>1. pos \in head..(head + Size - 1) /\ pos # claimed[p]
        /\ pos \in Producer..(head + Size - 1)
    BY SMTT(60), <1>1, <1>2
  <2>2. QED
    BY <1>4, <2>1 DEF OneClaimer
<1>8. QED
  BY <1>5, <1>6, <1>7 DEF OneClaimer

\* A step of enqueue that moves the poster on to label l and neither calls
\* enqueue nor gives an element a ticket.
LEMMA MovesOn ==
  ASSUME Deployment, TypeOK, TypeOK', IInv, NEW p \in Posters,
         NEW l, pc' = [pc EXCEPT ![p] = l],
         l \in {"idle", "again", "release"},
         l = "again" => pc[p] = "acquire",
         l # "again" => pc[p] \in {"store", "storelocked", "release"},
         pc[p] = "release" => l = "idle",
         returned' = IF l = "idle" THEN returned \cup {Elm(p)} ELSE returned,
         \A e \in Elements : \A n \in Nat : At(e, n)' <=> At(e, n),
         UNCHANGED <<before, count>>
  PROVE  Placement'
<1>1. \A r \in Posters : pc'[r] = IF r = p THEN l ELSE pc[r]
  BY DEF TypeOK
<1>2. \A e \in Elements : Begun(e) => Begun(e)'
  <2>. SUFFICES ASSUME NEW e \in Elements, Begun(e) PROVE Begun(e)'
    OBVIOUS
  <2>1. e.by \in Posters
    BY ElmType
  <2>2. QED
    BY <1>1, <2>1 DEF Begun
<1>3. pc[p] \in {"store", "storelocked", "release"} => \E n \in Nat : At(Elm(p), n)
  BY OwedHasTicket DEF IInv, Placement, TicketGiven, Owes
<1>4. \A e \in returned' : \E n \in Nat : At(e, n)
  BY <1>3 DEF IInv, Placement, TicketGiven
<1>5. ASSUME NEW r \in Posters, pc'[r] = "release"
      PROVE  Elm(r)' \in Elements /\ \E n \in Nat : At([by |-> r, n |-> count'[r]], n)
  <2>1. Elm(r)' = Elm(r) /\ Elm(r) = [by |-> r, n |-> count'[r]]
    BY DEF Elm
  <2>2. Elm(r) \in Elements
    BY <1>1, <1>5, ElmType
  <2>3. \E n \in Nat : At(Elm(r), n)
    BY <1>1, <1>3, <1>5 DEF IInv, Placement, TicketGiven
  <2>4. QED
    BY <2>1, <2>2, <2>3
<1>6. QED
  BY <1>2, <1>4, <1>5, PlacementKept DEF IInv

\* array_queue stores the element, outside the mutex or under it.
LEMMA StepStore ==
  ASSUME Deployment, TypeOK, IInv, NEW p \in Posters, Store(p) \/ StoreLocked(p)
  PROVE  IInv'
<1>. USE DEF IInv
<1>1. TypeOK'
  BY TypePost DEF Post
<1>2. /\ array' = [array EXCEPT ![Slot(claimed[p])] = Elm(p)]
      /\ UNCHANGED <<Producer, Consumer, UpperBound, overflow, mutex, claimed, count, before>>
      /\ UNCHANGED <<cpc, head, tail, curr, visited>>
  BY DEF Store, StoreLocked, iter
<1>3. PICK l : /\ pc' = [pc EXCEPT ![p] = l]
               /\ returned' = IF l = "idle" THEN returned \cup {Elm(p)} ELSE returned
               /\ \/ pc[p] = "store" /\ l = "idle"
                  \/ pc[p] = "storelocked" /\ l = "release"
  BY DEF Store, StoreLocked, Return, Goto
<1>4. Owes(p) /\ l \notin {"store", "storelocked"}
  BY <1>3 DEF Owes
<1>5. UNCHANGED <<Low, Walked, Claims, ArrayBase, ListBase>>
  BY <1>2 DEF Low, Walked, Claims, ArrayBase, ListBase
<1>6. \A e \in Elements : \A pos \in Low..(Producer - 1) : InSlot(e, pos)' <=> InSlot(e, pos)
  BY <1>2, <1>3, <1>4, StoreKeepsSlots
<1>7. \A e \in Elements : \A n \in Nat : At(e, n)' <=> At(e, n)
  BY <1>2, <1>5, <1>6, SameTickets
<1>8. Placement'
  BY <1>1, <1>2, <1>3, <1>7, MovesOn
<1>9. OneClaimer'
  BY <1>2, <1>3, <1>4, StoreKeepsClaimers
<1>10. Walk' /\ Fallback'
  BY <1>2 DEF Walk, Fallback
<1>11. Lock'
  BY <1>2, <1>3 DEF Lock, TypeOK
<1>12. QED
  BY <1>8, <1>9, <1>10, <1>11

\* The mutex is acquired or released by a poster.
LEMMA StepMutex ==
  ASSUME Deployment, TypeOK, IInv, NEW p \in Posters, Acquire(p) \/ Release(p)
  PROVE  IInv'
<1>. USE DEF IInv
<1>1. TypeOK'
  BY TypePost DEF Post
<1>2. /\ UNCHANGED <<Producer, Consumer, UpperBound, array, overflow, claimed, count, before>>
      /\ UNCHANGED <<cpc, head, tail, curr, visited>>
  BY DEF Acquire, Release, iter
<1>3. PICK l : /\ pc' = [pc EXCEPT ![p] = l]
               /\ returned' = IF l = "idle" THEN returned \cup {Elm(p)} ELSE returned
               /\ \/ pc[p] = "acquire" /\ l = "again" /\ mutex = "nobody" /\ mutex' = p
                  \/ pc[p] = "release" /\ l = "idle" /\ mutex' = "nobody"
  BY DEF Acquire, Release, Return, Goto
<1>4. \A r \in Posters : Owes(r)' <=> Owes(r)
  BY <1>3 DEF Owes, TypeOK
<1>5. UNCHANGED <<Low, Walked, Claims, ArrayBase, ListBase>>
  BY <1>2 DEF Low, Walked, Claims, ArrayBase, ListBase
<1>6. \A e \in Elements : \A pos \in Low..(Producer - 1) : InSlot(e, pos)' <=> InSlot(e, pos)
  BY <1>2, <1>4, ElmType DEF InSlot, Elm
<1>7. \A e \in Elements : \A n \in Nat : At(e, n)' <=> At(e, n)
  BY <1>2, <1>5, <1>6, SameTickets
<1>8. Placement'
  BY <1>1, <1>2, <1>3, <1>7, MovesOn
<1>9. OneClaimer'
  BY <1>2, <1>4, <1>5 DEF OneClaimer
<1>10. Walk' /\ Fallback'
  BY <1>2 DEF Walk, Fallback
<1>11. Lock'
  BY <1>2, <1>3 DEF Lock, TypeOK, Deployment
<1>12. QED
  BY <1>8, <1>9, <1>10, <1>11

\* The second try, under the mutex: a position of the array or the overflow list.
LEMMA StepAgain ==
  ASSUME Deployment, TypeOK, IInv, NEW p \in Posters, Again(p)
  PROVE  IInv'
<1>. USE DEF IInv
<1>1. TypeOK'
  BY TypePost DEF Post
<1>2. /\ pc[p] = "again"
      /\ UNCHANGED <<Consumer, UpperBound, array, mutex, count, returned, before>>
      /\ UNCHANGED <<cpc, head, tail, curr, visited>>
  BY DEF Again, iter
<1>3. PICK l : /\ pc' = [pc EXCEPT ![p] = l]
               /\ \/ LoadIncrementBounded(p) /\ l = "storelocked" /\ UNCHANGED overflow
                  \/ /\ Producer = UpperBound /\ overflow' = Append(overflow, Elm(p))
                     /\ l = "release" /\ UNCHANGED <<claimed, Producer>>
  BY DEF Again, Goto
<1>4. \A r \in Posters : pc'[r] = IF r = p THEN l ELSE pc[r]
  BY <1>3 DEF TypeOK
<1>5. mutex = p /\ cpc \notin {"peek", "raise", "removeAll", "release"}
  BY <1>2 DEF Lock, Deployment
<1>6. PICK x \in Elements : x = Elm(p) /\ x = Elm(p)'
  BY <1>2, ElmType DEF Elm
<1>7. x.by = p /\ x.n = count[p] /\ count[p] \in Nat
  <2>1. Elm(p).by = p /\ Elm(p).n = count[p]
    BY DEF Elm
  <2>2. QED
    BY SMTT(60), <1>6, <2>1 DEF TypeOK
<1>8. ~Owes(p) /\ \A n \in Nat : ~At(x, n)
  <2>1. ~Begun(x)
    BY <1>2, <1>7 DEF Begun
  <2>2. QED
    BY <1>2, <2>1 DEF Placement, TicketBegun, Owes
<1>9. \A e \in Elements : Begun(e) \/ e = x => Begun(e)'
  <2>. SUFFICES ASSUME NEW e \in Elements, Begun(e) \/ e = x PROVE Begun(e)'
    OBVIOUS
  <2>1. e.by \in Posters
    BY ElmType
  <2>2. QED
    BY SMTT(60), <1>2, <1>3, <1>4, <1>7, <2>1 DEF Begun
<1>10. before[x] \subseteq returned
  BY DEF Placement, TicketGiven
<1>11. Lock'
  BY <1>2, <1>3, <1>4 DEF Lock
<1>12. \A r \in Posters : pc'[r] = "release" =>
         Elm(r)' = x \/ (pc[r] = "release" /\ count'[r] = count[r])
  BY <1>2, <1>4, <1>6
<1>13. CASE LoadIncrementBounded(p) /\ l = "storelocked" /\ UNCHANGED overflow
  <2>1. Walk'
    BY SMTT(60), <1>2, <1>13 DEF Walk, LoadIncrementBounded, TypeOK
  <2>6. Fallback'
    BY SMTT(60), <1>2, <1>13 DEF Walk, Fallback, LoadIncrementBounded, TypeOK
  <2>2. OneClaimer'
    BY <1>2, <1>4, <1>8, <1>13, ClaimKeepsClaimers
  <2>3. \A e \in Elements : \A n \in Nat : At(e, n)' <=> At(e, n) \/ (e = x /\ n = Tickets + 1)
    BY <1>2, <1>4, <1>6, <1>8, <1>13, ClaimAdds
  <2>4. Placement'
    BY <1>1, <1>2, <1>8, <1>9, <1>10, <1>12, <2>3, PlacementAdds
  <2>5. QED
    BY <1>11, <2>1, <2>2, <2>4, <2>6
<1>14. CASE /\ Producer = UpperBound /\ overflow' = Append(overflow, Elm(p))
            /\ l = "release" /\ UNCHANGED <<claimed, Producer>>
  <2>1. Walk' /\ Fallback'
    BY <1>2, <1>5, <1>14 DEF Walk, Fallback
  <2>2. \A r \in Posters : Owes(r)' <=> Owes(r)
    BY <1>2, <1>4, <1>14 DEF Owes
  <2>3. OneClaimer'
    BY <1>2, <1>14, <2>2 DEF OneClaimer, Low
  <2>4. \A e \in Elements : \A n \in Nat : At(e, n)' <=> At(e, n) \/ (e = x /\ n = Tickets + 1)
    BY <1>2, <1>4, <1>5, <1>6, <1>8, <1>14, <2>2, AppendAdds
  <2>5. Placement'
    BY <1>1, <1>2, <1>8, <1>9, <1>10, <1>12, <2>4, PlacementAdds
  <2>6. QED
    BY <1>11, <2>1, <2>3, <2>5
<1>15. QED
  BY <1>3, <1>13, <1>14

-----------------------------------------------------------------------------
(* Every step keeps the invariant: the advancing thread. *)

\* A step of the advancing thread that keeps the tickets keeps their order.
LEMMA AdvanceKeeps ==
  ASSUME Deployment, TypeOK, TypeOK', IInv, UNCHANGED poster,
         \A e \in Elements : \A n \in Nat : At(e, n)' <=> At(e, n)
  PROVE  Placement'
<1>. USE DEF IInv, poster
<1>1. \A e \in Elements : Begun(e) => Begun(e)'
  BY DEF Begun
<1>2. \A e \in returned' : \E n \in Nat : At(e, n)
  BY DEF Placement, TicketGiven
<1>3. ASSUME NEW r \in Posters, pc'[r] = "release"
      PROVE  Elm(r)' \in Elements /\ \E n \in Nat : At([by |-> r, n |-> count'[r]], n)
  <2>1. Elm(r)' = Elm(r) /\ Elm(r) = [by |-> r, n |-> count'[r]]
    BY DEF Elm
  <2>2. QED
    BY <1>3, <2>1, ElmType DEF Placement, TicketGiven
<1>4. QED
  BY <1>1, <1>2, <1>3, PlacementKept

\* iter_begin, the end of the loop, the mutex and the look at the list: nothing
\* moves.
LEMMA StepQuiet ==
  ASSUME Deployment, TypeOK, IInv,
         \/ iter_begin \/ iter_check_done
         \/ iter_end_acquire \/ iter_end_peek \/ iter_end_release
  PROVE  IInv'
<1>. USE DEF IInv, IterOnly
<1>1. TypeOK'
  BY TypeAdvance DEF Advance
<1>2. /\ UNCHANGED poster
      /\ UNCHANGED <<Producer, Consumer, UpperBound, array, overflow, curr, visited, head>>
  BY DEF iter_begin, iter_check_done, iter_end_acquire, iter_end_peek, iter_end_release,
         Walk
<1>3. cpc \notin {"end", "removeAll"} /\ cpc' \notin {"end", "removeAll"}
  BY DEF iter_begin, iter_check_done, iter_end_acquire, iter_end_peek, iter_end_release
<1>4. UNCHANGED <<Low, Walked, Claims, ArrayBase, ListBase>>
  BY <1>2, <1>3 DEF Low, Walked, Claims, ArrayBase, ListBase
<1>5. \A e \in Elements : \A pos \in Low..(Producer - 1) : InSlot(e, pos)' <=> InSlot(e, pos)
  BY <1>2 DEF InSlot, Owes, Elm, poster
<1>6. \A e \in Elements : \A n \in Nat : At(e, n)' <=> At(e, n)
  BY <1>2, <1>4, <1>5, SameTickets
<1>7. Placement'
  BY <1>1, <1>2, <1>6, AdvanceKeeps
<1>8. OneClaimer'
  BY <1>2, <1>4 DEF OneClaimer, Owes, poster
<1>9. Walk'
  BY SMTT(60), <1>2 DEF Walk, TypeOK, iter_begin, iter_check_done, iter_end_acquire, iter_end_peek,
              iter_end_release
<1>10. Lock'
  BY <1>2 DEF Lock, Deployment, poster, iter_begin, iter_check_done, iter_end_acquire,
              iter_end_peek, iter_end_release
<1>11. Fallback'
  BY <1>2, <1>3 DEF Fallback, MayRaise, iter_begin, iter_check_done, iter_end_acquire,
              iter_end_peek, iter_end_release
<1>12. QED
  BY <1>7, <1>8, <1>9, <1>10, <1>11

\* iter_check and iter_current on the array.
LEMMA StepVisitArray ==
  ASSUME Deployment, TypeOK, IInv, iter_check_array
  PROVE  IInv'
<1>. USE DEF IInv, IterOnly
<1>1. TypeOK'
  BY TypeAdvance DEF Advance
<1>2. /\ UNCHANGED poster /\ cpc = "check" /\ cpc' = "end" /\ head < tail
      /\ UNCHANGED <<Producer, Consumer, UpperBound, array, overflow, mutex, curr, head, tail>>
      /\ array[Slot(head)] # NULL
  BY DEF iter_check_array, Stored
<1>3. Placement'
  BY <1>1, <1>2, VisitArrayKeeps, AdvanceKeeps
<1>4. Walk' /\ Lock' /\ Fallback'
  BY SMTT(60), <1>2 DEF Walk, Lock, Fallback, TypeOK, poster
<1>5. OneClaimer'
  <2>1. Low = head /\ Low' = head + 1 /\ head \in Nat /\ Producer \in Nat
    BY <1>2 DEF Low, TypeOK
  <2>2. \A r \in Posters : Owes(r) =>
          claimed[r] # head /\ claimed[r] \in Low..(Producer - 1) /\ array[Slot(claimed[r])] = NULL
    BY <1>2 DEF OneClaimer
  <2>3. \A r \in Posters : Owes(r) => claimed[r] \in Low'..(Producer - 1)
    BY SMTT(60), <2>1, <2>2
  <2>4. \A r \in Posters : Owes(r)' <=> Owes(r)
    BY <1>2 DEF Owes, poster
  <2>5. QED
    BY <1>2, <2>2, <2>3, <2>4 DEF OneClaimer, poster
<1>6. QED
  BY <1>3, <1>4, <1>5

\* iter_check and iter_current on the list.
LEMMA StepVisitList ==
  ASSUME Deployment, TypeOK, IInv, iter_check_list
  PROVE  IInv'
<1>. USE DEF IInv, IterOnly
<1>1. TypeOK'
  BY TypeAdvance DEF Advance
<1>2. /\ UNCHANGED poster /\ curr # <<>>
      /\ UNCHANGED <<Producer, Consumer, UpperBound, array, overflow, mutex, cpc, head, tail>>
  BY DEF iter_check_list
<1>3. Placement'
  BY <1>1, <1>2, VisitListKeeps, AdvanceKeeps
<1>4. Walk' /\ Lock' /\ Fallback'
  BY <1>2 DEF Walk, Lock, Fallback, poster
<1>5. OneClaimer'
  BY <1>2 DEF OneClaimer, Owes, Low, poster
<1>6. QED
  BY <1>3, <1>4, <1>5

\* iter_end clears the slot it has given out.
LEMMA StepClear ==
  ASSUME Deployment, TypeOK, IInv, iter_end_array
  PROVE  IInv'
<1>. USE DEF IInv, IterOnly
<1>1. TypeOK'
  BY TypeAdvance DEF Advance
<1>2. /\ UNCHANGED poster /\ cpc = "end" /\ cpc' \in {"acquire", "check"} /\ head' = head + 1
      /\ array' = [array EXCEPT ![Slot(head)] = NULL]
      /\ UNCHANGED <<Producer, UpperBound, overflow, mutex, curr, visited, tail>>
      /\ head' = tail => Consumer' = head' /\ cpc' = "acquire"
      /\ head' # tail => cpc' = "check"
  BY DEF iter_end_array
<1>3. /\ head \in Nat /\ Producer \in Nat /\ Size \in Nat \ {0} /\ head < Producer
      /\ Producer <= head + Size /\ Low = head + 1 /\ Low' = head + 1
  BY SMTT(60), <1>2 DEF TypeOK, Walk, Deployment, Low
<1>4. UNCHANGED <<Low, Walked, Claims, ArrayBase, ListBase>>
  BY <1>2, <1>3 DEF Walked, Claims, ArrayBase, ListBase
<1>5. ASSUME NEW pos \in Low..(Producer - 1) PROVE array'[Slot(pos)] = array[Slot(pos)]
  <2>1. /\ pos \in head..(head + Size - 1) /\ head \in head..(head + Size - 1)
        /\ pos \in Nat /\ pos # head
    BY SMTT(60), <1>3
  <2>2. Slot(pos) # Slot(head) /\ Slot(pos) \in 0..(Size - 1)
    BY <1>3, <2>1, SlotInjective, SlotInArray
  <2>3. QED
    BY <1>2, <2>2 DEF TypeOK
<1>6. \A e \in Elements : \A pos \in Low..(Producer - 1) : InSlot(e, pos)' <=> InSlot(e, pos)
  BY <1>2, <1>5 DEF InSlot, Owes, Elm, poster
<1>7. \A e \in Elements : \A n \in Nat : At(e, n)' <=> At(e, n)
  BY <1>2, <1>4, <1>6, SameTickets
<1>8. Placement'
  BY <1>1, <1>2, <1>7, AdvanceKeeps
<1>9. Walk'
  BY SMTT(60), <1>2, <1>3 DEF Walk, TypeOK
<1>10. Lock' /\ Fallback'
  BY <1>2 DEF Lock, Fallback, poster
<1>11. OneClaimer'
  <2>1. ASSUME NEW pos \in Producer'..(head' + Size - 1) PROVE array'[Slot(pos)] = NULL
    <3>1. pos \in Nat /\ Slot(pos) \in 0..(Size - 1)
      BY SMTT(60), <1>2, <1>3, SlotInArray
    <3>2. CASE pos = head + Size
      BY <1>2, <1>3, <3>1, <3>2, SlotAround DEF TypeOK
    <3>3. CASE pos # head + Size
      <4>1. pos \in Producer..(head + Size - 1)
        BY SMTT(60), <1>2, <1>3, <3>3
      <4>2. array[Slot(pos)] = NULL
        BY <4>1 DEF OneClaimer
      <4>3. QED
        BY <1>2, <3>1, <4>2 DEF TypeOK
    <3>4. QED
      BY <3>2, <3>3
  <2>2. \A r \in Posters : Owes(r)' <=> Owes(r)
    BY <1>2 DEF Owes, poster
  <2>3. \A r \in Posters : Owes(r) =>
          claimed[r] \in Low..(Producer - 1) /\ array'[Slot(claimed[r])] = NULL
    BY <1>5 DEF OneClaimer
  <2>4. QED
    BY <1>2, <1>4, <2>1, <2>2, <2>3 DEF OneClaimer, poster
<1>12. QED
  BY <1>8, <1>9, <1>10, <1>11

\* The bound is raised; when there is an overflow list the array is empty, and
\* from here on the list comes before what is claimed.
LEMMA StepRaise ==
  ASSUME Deployment, TypeOK, IInv, iter_end_raise
  PROVE  IInv'
<1>. USE DEF IInv
<1>1. TypeOK'
  BY TypeAdvance DEF Advance
<1>2. /\ UNCHANGED poster /\ cpc = "raise" /\ UpperBound' = head + Size
      /\ UNCHANGED <<Producer, Consumer, array, overflow, mutex, curr, visited, head, tail>>
      /\ cpc' = IF overflow = <<>> THEN "release" ELSE "removeAll"
  BY DEF iter_end_raise, NewBound
<1>3. Low = head /\ Low' = head /\ Claims' = Claims /\ Walked' = Walked
  BY <1>2 DEF Low, Claims, Walked
<1>4. \A e \in Elements : \A pos : InSlot(e, pos)' <=> InSlot(e, pos)
  BY <1>2 DEF InSlot, Owes, Elm, poster
<1>5. \A e \in Elements : \A n \in Nat : At(e, n)' <=> At(e, n)
  <2>1. CASE overflow = <<>>
    <3>1. UNCHANGED <<ArrayBase, ListBase>>
      BY <1>2, <1>3, <2>1 DEF ArrayBase, ListBase
    <3>2. QED
      BY <1>2, <1>3, <1>4, <3>1, SameTickets
  <2>2. CASE overflow # <<>>
    <3>1. head = Producer /\ Claims = 0
      BY SMTT(60), <1>2, <1>3, <2>2 DEF Fallback, Claims, TypeOK
    <3>2. ListBase' = ListBase
      BY <1>2, <1>3, <2>2, <3>1 DEF ListBase
    <3>3. \A e \in Elements : \A n \in Nat : ~AtArray(e, n) /\ ~AtArray(e, n)'
      BY SMTT(60), <1>3, <3>1 DEF AtArray
    <3>4. QED
      BY <1>2, <3>2, <3>3 DEF At, AtVisited, AtCurr, AtList
  <2>3. QED
    BY <2>1, <2>2
<1>6. Placement'
  BY <1>1, <1>2, <1>5, AdvanceKeeps
<1>7. Walk' /\ Lock' /\ Fallback'
  <2>1. Walk'
    BY SMTT(60), <1>2 DEF Walk, TypeOK, Deployment
  <2>2. Lock' /\ Fallback'
    BY <1>2 DEF Lock, Fallback, poster
  <2>3. QED
    BY <2>1, <2>2
<1>8. OneClaimer'
  BY <1>2, <1>3 DEF OneClaimer, Owes, poster
<1>9. QED
  BY <1>6, <1>7, <1>8

\* The overflow list is taken.
LEMMA StepRemoveAll ==
  ASSUME Deployment, TypeOK, IInv, iter_end_removeAll
  PROVE  IInv'
<1>. USE DEF IInv
<1>1. TypeOK'
  BY TypeAdvance DEF Advance
<1>2. /\ UNCHANGED poster /\ cpc = "removeAll" /\ cpc' = "release" /\ overflow' = <<>>
      /\ UNCHANGED <<Producer, Consumer, UpperBound, array, mutex, visited, head, tail>>
  BY DEF iter_end_removeAll
<1>3. Placement'
  BY <1>1, <1>2, RemoveAllKeeps, AdvanceKeeps
<1>4. Walk' /\ Lock' /\ Fallback'
  BY <1>2 DEF Walk, Lock, Fallback, poster
<1>5. OneClaimer'
  BY <1>2 DEF OneClaimer, Owes, Low, poster
<1>6. QED
  BY <1>3, <1>4, <1>5

\* Every step keeps the invariant.
LEMMA Step == ASSUME Deployment PROVE TypeOK /\ IInv /\ [Next]_vars => TypeOK' /\ IInv'
<1>. SUFFICES ASSUME TypeOK, IInv, [Next]_vars PROVE TypeOK' /\ IInv'
  OBVIOUS
<1>1. CASE Advance
  BY <1>1, TypeAdvance, StepQuiet, StepVisitArray, StepVisitList, StepClear, StepRaise,
     StepRemoveAll DEF Advance
<1>2. ASSUME NEW p \in Posters, Enqueue(p) \/ Post(p) PROVE TypeOK' /\ IInv'
  BY <1>2, TypePost, StepEnqueue, StepStore, StepMutex, StepAgain DEF Post
<1>3. CASE UNCHANGED vars
  <2>. USE <1>3 DEF vars, shared, poster, iter
  <2>1. TypeOK'
    BY DEF TypeOK
  <2>2. UNCHANGED <<Low, Walked, Claims, ArrayBase, ListBase>>
    BY DEF Low, Walked, Claims, ArrayBase, ListBase
  <2>3. \A e \in Elements : \A pos \in Low..(Producer - 1) : InSlot(e, pos)' <=> InSlot(e, pos)
    BY DEF InSlot, Owes, Elm
  <2>4. \A e \in Elements : \A n \in Nat : At(e, n)' <=> At(e, n)
    BY <2>2, <2>3, SameTickets DEF IInv
  <2>5. Placement'
    BY <2>1, <2>4, AdvanceKeeps
  <2>6. Walk' /\ Lock' /\ Fallback' /\ OneClaimer'
    BY <2>2 DEF IInv, Walk, Lock, Fallback, OneClaimer, Owes
  <2>7. QED
    BY <2>1, <2>5, <2>6 DEF IInv
<1>4. QED
  BY <1>1, <1>2, <1>3 DEF Next

-----------------------------------------------------------------------------
(* What follows. *)

\* The variables of the queue keep their types.
THEOREM TypeCorrect == ASSUME Deployment PROVE Spec => []TypeOK
  BY Initially, Step, PTL DEF Spec

\* Array positions, the overflow list and its mutex work together so that every
\* element has one ticket for good.
THEOREM Invariance == ASSUME Deployment PROVE Spec => []IInv
  BY Initially, Step, PTL DEF Spec

\* The iterator gives elements out once each, and an element whose enqueue had
\* returned before another was called first, whichever of the array and the
\* overflow list each took.
THEOREM InOrder == ASSUME Deployment PROVE Spec => []VisitedInOrder
<1>1. TypeOK /\ IInv => VisitedInOrder
  <2>. SUFFICES ASSUME TypeOK, IInv PROVE VisitedInOrder
    OBVIOUS
  <2>. USE DEF IInv, Placement
  <2>1. /\ DOMAIN visited = 1..Len(visited) /\ Len(visited) \in Nat
        /\ \A i \in 1..Len(visited) : visited[i] \in Elements /\ i \in Nat
    BY SMTT(60) DEF TypeOK
  <2>2. \A i \in 1..Len(visited) : At(visited[i], i)
    BY DEF At, AtVisited
  <2>3. \A i, j \in DOMAIN visited : visited[i] = visited[j] => i = j
    BY <2>1, <2>2 DEF TicketOnce
  <2>4. ASSUME NEW j \in DOMAIN visited, NEW e \in before[visited[j]]
        PROVE  e \in {visited[i] : i \in 1..(j - 1)}
    <3>1. visited[j] \in Elements /\ At(visited[j], j) /\ j \in Nat /\ j \in 1..Len(visited)
      BY <2>1, <2>2
    <3>2. e \in returned /\ e \in Elements
      BY <3>1 DEF TicketGiven, TypeOK
    <3>3. PICK n \in Nat : At(e, n)
      BY <3>2 DEF TicketGiven
    <3>4. n < j
      BY <3>1, <3>2, <3>3 DEF TicketOrder
    <3>5. n \in 1..(j - 1)
      BY SMTT(60), <3>1, <3>3, <3>4, TicketRange, Counts DEF Tickets
    <3>6. visited[n] = e
      <4>1. Len(visited) \in Nat /\ n \in Nat /\ n <= Len(visited)
        BY SMTT(60), <2>1, <3>1, <3>5
      <4>2. /\ ArrayBase \in Nat /\ ListBase \in Nat
            /\ Len(visited) <= ArrayBase /\ Len(visited) <= ListBase
        BY SMTT(60), Counts
      <4>3. ~AtCurr(e, n) /\ ~AtArray(e, n) /\ ~AtList(e, n)
        BY SMTT(60), <4>1, <4>2 DEF AtCurr, AtArray, AtList
      <4>4. QED
        BY <3>3, <4>3 DEF At, AtVisited
    <3>7. QED
      BY <3>5, <3>6
  <2>5. QED
    BY <2>3, <2>4 DEF VisitedInOrder
<1>2. QED
  BY <1>1, TypeCorrect, Invariance, PTL
===============================================================================
