----------------------------- MODULE AdvanceLoop -----------------------------
(***************************************************************************)
(* The two loops over work objects in Device::advance                      *)
(* (components/devices/generic/Device.h): first the work kept from earlier *)
(* passes (__Threads), then the work posted since (__Posted).  Work that   *)
(* returns PAMI_EAGAIN is kept, anything else is dropped.  GenericDevice   *)
(* runs the loops with arbitrary work, ShmemDevice with its messages.      *)
(***************************************************************************)
EXTENDS Naturals, Sequences, Functions

VARIABLES posted,    \* __Posted: work posted and not yet picked up
          threads,   \* __Threads: work kept from earlier passes
          batch,     \* what the iterator over __Posted still has to visit
          loop,      \* the loop of advance() that is running, "idle" if none
          at         \* the iterator over __Threads, an index

queues == <<posted, threads, batch, loop, at>>

\* advance() is called: the first loop starts at the oldest kept work.
AdvanceBegin ==
  /\ loop = "idle"
  /\ loop' = "threads"
  /\ at' = 1
  /\ UNCHANGED <<posted, threads, batch>>

\* The first loop is over: the posting queue's iterator takes what is there.
PostedBegin ==
  /\ loop = "threads"
  /\ at > Len(threads)
  /\ loop' = "posted"
  /\ batch' = posted
  /\ posted' = <<>>
  /\ UNCHANGED <<threads, at>>

Visiting == \/ loop = "threads" /\ at <= Len(threads)
            \/ loop = "posted" /\ batch # <<>>

\* The work object the running loop is at.
Current == IF loop = "threads" THEN threads[at] ELSE Head(batch)

\* A linked list without its i-th element: the neighbours are linked.
Unlink(q, i) == SubSeq(q, 1, i - 1) \o SubSeq(q, i + 1, Len(q))

\* The work is dropped: iter_remove from __Threads, or not enqueued there.
Finish ==
  /\ IF loop = "threads"
     THEN threads' = Unlink(threads, at) /\ UNCHANGED <<batch, at>>
     ELSE batch' = Tail(batch) /\ UNCHANGED <<threads, at>>
  /\ UNCHANGED loop

\* Mutant: work on its first call is not moved to __Threads.
KeepForgetful ==
  /\ IF loop = "threads"
     THEN at' = at + 1 /\ UNCHANGED <<threads, batch>>
     ELSE batch' = Tail(batch) /\ UNCHANGED <<threads, at>>
  /\ UNCHANGED loop

\* The work stays: left where it is in __Threads, or moved there.
Keep ==
  /\ IF loop = "threads"
     THEN at' = at + 1 /\ UNCHANGED <<threads, batch>>
     ELSE /\ threads' = Append(threads, Head(batch))
          /\ batch' = Tail(batch)
          /\ UNCHANGED at
  /\ UNCHANGED loop
===============================================================================
