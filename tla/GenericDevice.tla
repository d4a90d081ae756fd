---------------------------- MODULE GenericDevice ----------------------------
(***************************************************************************)
(* components/devices/generic/Device.h: the progress engine of a context.  *)
(* Work objects ("threads") are posted from anywhere; advance(), which one *)
(* thread runs at a time, calls them until they are done.  Here the work   *)
(* is arbitrary, and third parties change the status of work objects.      *)
(***************************************************************************)
EXTENDS AdvanceLoop

CONSTANTS Work,      \* the work objects (GenericThread)
          MaxPosts   \* bound on the postThread calls of a behaviour

VARIABLES status,    \* getStatus() of each work object
          pending,   \* history: work posted and not yet dropped
          posts      \* postThread calls so far

vars == <<queues, status, pending, posts>>

ThreadStatus == {"New", "Idle", "Ready", "Complete"}

Queued == Range(posted) \cup Range(batch) \cup Range(threads)

Init ==
  /\ posted = <<>> /\ threads = <<>> /\ batch = <<>>
  /\ loop = "idle" /\ at = 1
  /\ status = [w \in Work |-> "New"]
  /\ pending = {}
  /\ posts = 0

\* postThread, from any thread of the process.  Its documentation forbids
\* posting an object that is queued.  The object was constructed with a work
\* function (Ready) or without (New).
postThread(w, s) ==
  /\ posts < MaxPosts
  /\ w \notin Queued
  /\ posted' = Append(posted, w)
  /\ status' = [status EXCEPT ![w] = s]
  /\ pending' = pending \cup {w}
  /\ posts' = posts + 1
  /\ UNCHANGED <<threads, batch, loop, at>>

\* setStatus by a third party, at any time.
setStatus(w, s) ==
  /\ w \in pending
  /\ status' = [status EXCEPT ![w] = s]
  /\ UNCHANGED <<queues, pending, posts>>

\* The work function of w is called.  It returns PAMI_EAGAIN or not.
executeThread(w) ==
  /\ Visiting
  /\ Current = w
  /\ status[w] = "Ready"
  /\ \/ Keep /\ UNCHANGED pending
     \/ Finish /\ pending' = pending \ {w}
  /\ UNCHANGED <<posted, status, posts>>

\* Mutant: work that is not Ready is dropped by the second loop.
SkipDrop(w) ==
  /\ Visiting
  /\ Current = w
  /\ status[w] # "Ready"
  /\ IF loop = "posted" THEN Finish /\ UNCHANGED pending ELSE Keep /\ UNCHANGED pending
  /\ UNCHANGED <<posted, status, posts>>

\* w is not Ready: the first loop passes over it, the second one drops it when
\* it is Complete and keeps it otherwise.
Skip(w) ==
  /\ Visiting
  /\ Current = w
  /\ status[w] # "Ready"
  /\ IF loop = "posted" /\ status[w] = "Complete"
     THEN Finish /\ pending' = pending \ {w}
     ELSE Keep /\ UNCHANGED pending
  /\ UNCHANGED <<posted, status, posts>>

\* advance() returns (its last loop, over messages, is in ShmemDevice).
AdvanceEnd ==
  /\ loop = "posted"
  /\ batch = <<>>
  /\ loop' = "idle"
  /\ UNCHANGED <<posted, threads, batch, at, status, pending, posts>>

AdvanceStart == AdvanceBegin /\ UNCHANGED <<status, pending, posts>>
PostedStart == PostedBegin /\ UNCHANGED <<status, pending, posts>>

Advance == \/ AdvanceStart \/ PostedStart \/ AdvanceEnd
           \/ \E w \in Work : executeThread(w) \/ Skip(w)

Next == \/ \E w \in Work, s \in {"New", "Ready"} : postThread(w, s)
        \/ \E w \in Work, s \in ThreadStatus \ {"New"} : setStatus(w, s)
        \/ Advance

Spec == Init /\ [][Next]_vars

\* The context that owns the device is advanced again and again.
FairSpec == Spec /\ WF_vars(Advance)

-----------------------------------------------------------------------------
(* Properties. *)

\* A work object that was posted and not dropped is on exactly one queue of the
\* device, once; no other is on any.  So no work is lost when it moves from the
\* posting queue to the persistent one, and none is called twice in a pass or
\* again after it has returned anything but PAMI_EAGAIN (Device.h:370-407).
QueuedOnce ==
  LET all == posted \o batch \o threads
  IN  /\ Range(all) = pending
      /\ IsInjective(all)

\* The iterator over __Threads visits every kept work object in each pass: a
\* pass never ends with a work object it has neither called nor passed over.
\* Work that stays Ready and pending is therefore called again and again, no
\* matter what is posted or removed meanwhile.
ReadyIsCalled ==
  \A w \in Work :
    <>[](w \in pending /\ status[w] = "Ready") => []<><<executeThread(w)>>_vars

\* ThreadStatus (AdvanceThread.h:48): "Complete  ///< Thread should be
\* dequeued (do not call)".  Work whose status a third party sets to Complete
\* for good leaves the device.
CompleteIsDequeued ==
  \A w \in Work : <>[](status[w] = "Complete") => []<>(w \notin pending)
===============================================================================
