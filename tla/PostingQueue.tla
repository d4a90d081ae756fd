----------------------------- MODULE PostingQueue -----------------------------
(***************************************************************************)
(* util/queue/bgq/ArrayBasedPostingQueue.h, the posting queue (__Posted)   *)
(* of the generic device: posters claim array positions from a bounded L2  *)
(* counter and fall back to a list under a mutex when the array is full;   *)
(* the one advancing thread walks the array up to a snapshot of the        *)
(* counter, then raises the bound and takes the list.                      *)
(*                                                                         *)
(* One action is one access to shared memory.  The build without           *)
(* DO_NOT_BLOCK is modelled.                                               *)
(***************************************************************************)
EXTENDS Naturals, Sequences

CONSTANTS Posters,   \* threads that post
          Size,      \* DEFAULT_SIZE
          MaxEach    \* bound on the elements each poster posts

VARIABLES
  Producer, Consumer, UpperBound,  \* _array_q
  array,      \* _array, NULL where nothing is queued
  overflow,   \* _overflow
  mutex,      \* who holds _ovf_mtx, "nobody" if it is free
  pc,         \* where each poster is in enqueue
  claimed,    \* its local variable index
  count,      \* how many elements it has begun to post
  cpc,        \* where the advancing thread is in its loop over the iterator
  head, tail, \* iter->head, iter->tail
  curr,       \* the list from iter->curr on
  returned,   \* history: elements whose enqueue has returned
  before,     \* history: for each element, those returned when it was begun
  visited     \* history: the elements the iterator gave out, in order

shared == <<Producer, Consumer, UpperBound, array, overflow, mutex>>
poster == <<pc, claimed, count, returned, before>>
iter == <<cpc, head, tail, curr, visited>>
vars == <<shared, poster, iter>>

\* What the code takes for granted: the array has room for an element, and the
\* values that say who holds the mutex differ.
Deployment == /\ Size \in Nat \ {0} /\ MaxEach \in Nat
              /\ "nobody" \notin Posters /\ "advance" \notin Posters

NULL == [by |-> "nobody", n |-> 0]
Elements == [by : Posters, n : 1..MaxEach]
Slot(pos) == pos % Size

\* The element p is posting.
Elm(p) == [by |-> p, n |-> count[p]]

Init ==
  /\ Producer = 0 /\ Consumer = 0 /\ UpperBound = Size
  /\ array = [i \in 0..(Size - 1) |-> NULL]
  /\ overflow = <<>> /\ mutex = "nobody"
  /\ pc = [p \in Posters |-> "idle"]
  /\ claimed = [p \in Posters |-> 0]
  /\ count = [p \in Posters |-> 0]
  /\ cpc = "idle" /\ head = 0 /\ tail = 0 /\ curr = <<>>
  /\ returned = {} /\ before = [e \in Elements |-> {}] /\ visited = <<>>

-----------------------------------------------------------------------------
(* enqueue *)

Goto(p, l) == pc' = [pc EXCEPT ![p] = l]

Return(p) == Goto(p, "idle") /\ returned' = returned \cup {Elm(p)}

\* L2_AtomicLoadIncrementBounded(&_array_q.Producer), when it is not full
LoadIncrementBounded(p) ==
  /\ Producer < UpperBound
  /\ claimed' = [claimed EXCEPT ![p] = Producer]
  /\ Producer' = Producer + 1

\* enqueue is called and tries the array.
Enqueue(p) ==
  /\ pc[p] = "idle"
  /\ count[p] < MaxEach
  /\ count' = [count EXCEPT ![p] = @ + 1]
  /\ before' = [before EXCEPT ![Elm(p)'] = returned]
  /\ \/ LoadIncrementBounded(p) /\ Goto(p, "store")
     \/ Producer = UpperBound /\ Goto(p, "acquire") /\ UNCHANGED <<claimed, Producer>>
  /\ UNCHANGED <<Consumer, UpperBound, array, overflow, mutex, returned, iter>>

\* array_queue(index, element) outside the mutex
Store(p) ==
  /\ pc[p] = "store"
  /\ array' = [array EXCEPT ![Slot(claimed[p])] = Elm(p)]
  /\ Return(p)
  /\ UNCHANGED <<Producer, Consumer, UpperBound, overflow, mutex, claimed, count, before, iter>>

Acquire(p) ==
  /\ pc[p] = "acquire"
  /\ mutex = "nobody"
  /\ mutex' = p
  /\ Goto(p, "again")
  /\ UNCHANGED <<Producer, Consumer, UpperBound, array, overflow, claimed, count, returned, before, iter>>

\* Mutant: the array is not tried again under the mutex.
AgainNot(p) ==
  /\ pc[p] = "again"
  /\ overflow' = Append(overflow, Elm(p))
  /\ Goto(p, "release")
  /\ UNCHANGED <<Producer, Consumer, UpperBound, array, mutex, claimed, count, returned, before, iter>>

\* "must check again to avoid race"
Again(p) ==
  /\ pc[p] = "again"
  /\ \/ LoadIncrementBounded(p) /\ Goto(p, "storelocked") /\ UNCHANGED overflow
     \/ /\ Producer = UpperBound
        /\ overflow' = Append(overflow, Elm(p))
        /\ Goto(p, "release")
        /\ UNCHANGED <<claimed, Producer>>
  /\ UNCHANGED <<Consumer, UpperBound, array, mutex, count, returned, before, iter>>

\* array_queue(index, element) under the mutex
StoreLocked(p) ==
  /\ pc[p] = "storelocked"
  /\ array' = [array EXCEPT ![Slot(claimed[p])] = Elm(p)]
  /\ Goto(p, "release")
  /\ UNCHANGED <<Producer, Consumer, UpperBound, overflow, mutex, claimed, count, returned, before, iter>>

Release(p) ==
  /\ pc[p] = "release"
  /\ mutex' = "nobody"
  /\ Return(p)
  /\ UNCHANGED <<Producer, Consumer, UpperBound, array, overflow, claimed, count, before, iter>>

Post(p) == Store(p) \/ Acquire(p) \/ Again(p) \/ StoreLocked(p) \/ Release(p)

-----------------------------------------------------------------------------
(* The advancing thread: iter_begin, then while iter_check, the element of   *)
(* iter_current is used and iter_end moves on (Generic/Device.h advance).    *)

IterOnly == UNCHANGED <<Producer, UpperBound, overflow, poster>>

iter_begin ==
  /\ cpc = "idle"
  /\ tail' = Producer
  /\ head' = Consumer
  /\ cpc' = "check"
  /\ UNCHANGED <<Consumer, array, mutex, curr, visited>> /\ IterOnly

\* The wait for the enqueuer that claimed the slot and has yet to store.
Stored(e) == e # NULL

\* iter_check is true and iter_current gives the array's element
iter_check_array ==
  /\ cpc = "check"
  /\ head < tail
  /\ Stored(array[Slot(head)])
  /\ visited' = Append(visited, array[Slot(head)])
  /\ cpc' = "end"
  /\ UNCHANGED <<Consumer, array, mutex, head, tail, curr>> /\ IterOnly

\* iter_check is true and iter_current gives the list's element; iter_end
\* steps to the one after it
iter_check_list ==
  /\ cpc = "check"
  /\ head = tail
  /\ curr # <<>>
  /\ visited' = Append(visited, Head(curr))
  /\ curr' = Tail(curr)
  /\ UNCHANGED <<cpc, Consumer, array, mutex, head, tail>> /\ IterOnly

\* iter_check is false: the loop is over
iter_check_done ==
  /\ cpc = "check"
  /\ head = tail
  /\ curr = <<>>
  /\ cpc' = "idle"
  /\ UNCHANGED <<Consumer, array, mutex, head, tail, curr, visited>> /\ IterOnly

\* iter_end up to _ovf_mtx.acquire(): the slot is cleared
iter_end_array ==
  /\ cpc = "end"
  /\ array' = [array EXCEPT ![Slot(head)] = NULL]
  /\ head' = head + 1
  /\ IF head' = tail THEN Consumer' = head' /\ cpc' = "acquire"
                     ELSE UNCHANGED Consumer /\ cpc' = "check"
  /\ UNCHANGED <<mutex, tail, curr, visited>> /\ IterOnly

iter_end_acquire ==
  /\ cpc = "acquire"
  /\ mutex = "nobody"
  /\ mutex' = "advance"
  /\ cpc' = "peek"
  /\ UNCHANGED <<Consumer, array, head, tail, curr, visited>> /\ IterOnly

\* Mutant: the list is taken although the array was filled meanwhile.
MayRaiseAlways == TRUE

\* The bound is raised when nobody noticed the array full, or when the array
\* has been emptied.
MayRaise == overflow = <<>> \/ head = Producer

iter_end_peek ==
  /\ cpc = "peek"
  /\ cpc' = IF MayRaise THEN "raise" ELSE "release"
  /\ UNCHANGED <<Consumer, array, mutex, head, tail, curr, visited>> /\ IterOnly

NewBound == head + Size

iter_end_raise ==
  /\ cpc = "raise"
  /\ UpperBound' = NewBound
  /\ cpc' = IF overflow = <<>> THEN "release" ELSE "removeAll"
  /\ UNCHANGED <<Producer, Consumer, array, overflow, mutex, poster, head, tail, curr, visited>>

iter_end_removeAll ==
  /\ cpc = "removeAll"
  /\ curr' = overflow
  /\ overflow' = <<>>
  /\ cpc' = "release"
  /\ UNCHANGED <<Producer, Consumer, UpperBound, array, mutex, poster, head, tail, visited>>

iter_end_release ==
  /\ cpc = "release"
  /\ mutex' = "nobody"
  /\ cpc' = "check"
  /\ UNCHANGED <<Consumer, array, head, tail, curr, visited>> /\ IterOnly

Advance ==
  \/ iter_begin \/ iter_check_array \/ iter_check_list \/ iter_check_done
  \/ iter_end_array \/ iter_end_acquire \/ iter_end_peek \/ iter_end_raise
  \/ iter_end_removeAll \/ iter_end_release

Next == Advance \/ \E p \in Posters : Enqueue(p) \/ Post(p)

Spec == Init /\ [][Next]_vars

-----------------------------------------------------------------------------
(* Properties *)

\* Elements are given out once each, and in order: when an enqueue returned
\* before another was called, on the same thread or not, the iterator gives
\* the first one's element first, whichever of array and list each took.
VisitedInOrder ==
  /\ \A i, j \in DOMAIN visited : visited[i] = visited[j] => i = j
  /\ \A j \in DOMAIN visited :
       before[visited[j]] \subseteq {visited[i] : i \in 1..(j - 1)}

\* Whatever has been posted is eventually given out by the iterator, also when
\* no other post follows: neither the snapshot of Producer nor the fallback to
\* the list forgets an element.
EveryPostVisited ==
  <>[](\A e \in Elements : count[e.by] >= e.n => \E i \in DOMAIN visited : visited[i] = e)

=============================================================================
