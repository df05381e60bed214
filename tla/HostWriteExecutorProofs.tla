----------------------- MODULE HostWriteExecutorProofs ----------------------
(***************************************************************************)
(* The write executor keeps its counters, applies every mutation ID at     *)
(* most once and implements MutationLedger.  The inductive invariant says  *)
(* where a submission can be (entering, queued, at the worker, answered),  *)
(* that it is at one place only, and that a job about to commit found no   *)
(* receipt.                                                                *)
(***************************************************************************)
EXTENDS HostWriteExecutor, TLAPS

-----------------------------------------------------------------------------
(***************************************************************************)
(* The inductive strengthening.                                            *)
(***************************************************************************)
\* A process that is gone holds nothing; shutdown() runs between two calls.
Quiet ==
    /\ app = "down" => /\ queue = <<>> /\ callbacks = <<>>
                       /\ entering = NotEntering /\ worker = Idle
    /\ app = "stopping" => entering = NotEntering

\* The queue may shrink, never grow, while enqueue() decides.
Capacity ==
    /\ Len(queue) <= MaximumQueuedMutations
    /\ entering # NotEntering => Len(queue) <= entering.before

\* Work is held only for IDs whose receipts are kept, and a job about to commit
\* has found no receipt.
HeldIdsKept ==
    /\ entering # NotEntering => entering.request.id \notin retired
    /\ \A k \in 1 .. Len(queue) : queue[k].id \notin retired
    /\ worker # Idle => worker.job.id \notin retired
    /\ At("executed") => receipts[worker.job.id] = None

\* A commit whose callback has not run is not published yet.
CommitsAwaitPublication ==
    /\ \A i \in Ids : executions[i] = 0 => published[i] = 0
    /\ \A k \in 1 .. Len(callbacks) : callbacks[k].kind = "result" =>
         /\ executions[callbacks[k].request.id] = 1
         /\ published[callbacks[k].request.id] = 0
         /\ \A l \in 1 .. Len(callbacks) :
              (callbacks[l].kind = "result" /\ l # k)
                => callbacks[l].request.id # callbacks[k].request.id
    /\ \A i \in Ids : published[i] \in {0, 1}

\* Each submission is at one place: entering, queued, at the worker, or answered.
Holds(t) ==
    \/ entering # NotEntering /\ entering.request.ticket = t
    \/ \E k \in 1 .. Len(queue) : queue[k].ticket = t
    \/ worker # Idle /\ worker.at # "finishing" /\ worker.job.ticket = t

HeldApart ==
    /\ \A k, l \in 1 .. Len(queue) : queue[k].ticket = queue[l].ticket => k = l
    /\ worker # Idle /\ worker.at # "finishing" =>
         \A k \in 1 .. Len(queue) : queue[k].ticket # worker.job.ticket
    /\ entering # NotEntering =>
         /\ \A k \in 1 .. Len(queue) : queue[k].ticket # entering.request.ticket
         /\ worker # Idle /\ worker.at # "finishing" =>
              worker.job.ticket # entering.request.ticket

AnsweredApart ==
    /\ \A k \in 1 .. Len(callbacks) : ~Holds(callbacks[k].request.ticket)
    /\ \A c \in responses : ~Holds(c.request.ticket)
    /\ \A k, l \in 1 .. Len(callbacks) :
         callbacks[k].request.ticket = callbacks[l].request.ticket => k = l
    /\ \A k \in 1 .. Len(callbacks), c \in responses :
         callbacks[k].request.ticket # c.request.ticket

\* A submission whose mutation committed is no longer held.
CommittedApart == \A i \in Ids : committedBy[i] \in Tickets => ~Holds(committedBy[i])

\* Tickets are given out in order.
TicketsIssued ==
    /\ \A t \in Tickets : Holds(t) => t <= issued
    /\ \A k \in 1 .. Len(callbacks) : callbacks[k].request.ticket <= issued
    /\ \A c \in responses : c.request.ticket <= issued
    /\ \A i \in Ids : committedBy[i] <= issued

\* What a callback will say is true when it is posted and stays true.
CallbacksTrue == \A k \in 1 .. Len(callbacks) : Ledger!True(callbacks[k])

Places == HeldApart /\ AnsweredApart /\ CommittedApart /\ TicketsIssued

Inductive ==
    /\ TypeOK /\ Quiet /\ CountersExact /\ Capacity
    /\ AtMostOnce /\ HeldIdsKept /\ Places /\ CallbacksTrue

-----------------------------------------------------------------------------
(***************************************************************************)
(* Types and counters.                                                     *)
(***************************************************************************)
\* A job at the worker is a request, and moving on keeps the job.
LEMMA BusyJob == ASSUME TypeOK, worker # Idle
                 PROVE  worker \in Busy /\ worker.job \in Requests
BY DEF TypeOK, Busy

LEMMA GotoKeepsJob ==
    ASSUME TypeOK, worker # Idle,
           NEW w \in {"dequeued", "counted", "executed", "finishing"}, Goto(w)
    PROVE  /\ worker' \in Busy /\ worker' # Idle
           /\ worker'.at = w /\ worker'.job = worker.job
<1>1. worker \in Busy
  BY BusyJob
<1>2. worker' = [at |-> w, job |-> worker.job]
  BY <1>1 DEF Goto, Busy
<1> QED BY <1>1, <1>2 DEF Busy, Idle

LEMMA RespondTyped ==
    ASSUME TypeOK, NEW r \in Requests, NEW k \in Kinds, Respond(r, k)
    PROVE  callbacks' \in Seq(Callbacks)
<1>1. [request |-> r, kind |-> k] \in Callbacks
  BY DEF Callbacks
<1> QED BY <1>1 DEF Respond, TypeOK


LEMMA TypeStep == TypeOK /\ Quiet /\ CountersExact /\ [Next]_vars => TypeOK'
<1> SUFFICES ASSUME TypeOK, Quiet, CountersExact, [Next]_vars PROVE TypeOK'
  OBVIOUS
<1>1. ASSUME NEW i \in Ids, NEW p \in Payloads, Enqueue(i, p) PROVE TypeOK'
  <2>1. NewRequest(i, p) \in Requests
    BY <1>1, WriteAssumption DEF Enqueue, NewRequest, Requests, Tickets, TypeOK
  <2>2. callbacks' \in Seq(Callbacks)
    BY <1>1, <2>1, RespondTyped DEF Enqueue, TypeOK, Kinds
  <2>3. queued' \in Nat /\ entering' \in Reserved \cup {NotEntering}
    BY <1>1, <2>1 DEF Enqueue, TypeOK, Reserved
  <2>4. issued' \in 0 .. MaxTickets
    BY <1>1, WriteAssumption DEF Enqueue, TypeOK
  <2> QED BY <1>1, <2>2, <2>3, <2>4 DEF Enqueue, database, TypeOK
<1>2. CASE EnqueueDecide
  <2>1. entering \in Reserved /\ entering.request \in Requests
    BY <1>2 DEF EnqueueDecide, TypeOK, Reserved
  <2>2. callbacks' \in Seq(Callbacks)
    BY <1>2, <2>1, RespondTyped DEF EnqueueDecide, TypeOK, Kinds
  <2>3. queue' = queue \/ queue' = Append(queue, entering.request)
    BY <1>2 DEF EnqueueDecide
  <2>5. queue' \in Seq(Requests)
    <3>1. queue \in Seq(Requests)
      BY DEF TypeOK
    <3>2. Append(queue, entering.request) \in Seq(Requests)
      BY <2>1, <3>1
    <3> QED BY <2>3, <3>1, <3>2
  <2>4. queued' \in Nat
    BY <1>2 DEF EnqueueDecide, TypeOK, CountersExact, Reservation
  <2> QED BY <1>2, <2>2, <2>4, <2>5 DEF EnqueueDecide, database, TypeOK
<1>3. CASE RunCallback
  <2>1. Head(callbacks) \in Callbacks /\ Tail(callbacks) \in Seq(Callbacks)
    BY <1>3 DEF RunCallback, TypeOK
  <2>2. Head(callbacks).request.id \in Ids
    BY <2>1 DEF Callbacks, Requests
  <2>3. published' \in [Ids -> Nat]
    BY <1>3, <2>2 DEF RunCallback, TypeOK
  <2> QED BY <1>3, <2>1, <2>3 DEF RunCallback, database, TypeOK
<1>4. CASE SetAccepting
  BY <1>4 DEF SetAccepting, database, TypeOK
<1>5. CASE Shutdown
  <2>1. stops' \in 0 .. MaxStops
    BY <1>5, WriteAssumption DEF Shutdown, TypeOK
  <2> QED BY <1>5, <2>1 DEF Shutdown, database, TypeOK
<1>6. CASE ShutdownReturns
  BY <1>6 DEF ShutdownReturns, database, TypeOK
<1>7. CASE Dequeue
  <2>1. Head(queue) \in Requests /\ queue' \in Seq(Requests)
    BY <1>7 DEF Dequeue, TypeOK
  <2>2. queued' \in Nat
    BY <1>7 DEF Dequeue, TypeOK, CountersExact, Reservation
  <2>3. worker' \in Busy
    BY <1>7, <2>1 DEF Dequeue, Busy
  <2> QED BY <1>7, <2>1, <2>2, <2>3 DEF Dequeue, database, TypeOK
<1>8. CASE CountActive
  <2>1. worker' \in Busy
    BY <1>8, GotoKeepsJob DEF CountActive, At
  <2>2. active' \in 0 .. 1
    BY <1>8 DEF CountActive, At, TypeOK, Quiet, CountersExact, WorkerCounted
  <2> QED BY <1>8, <2>1, <2>2 DEF CountActive, database, TypeOK
<1>9. CASE Examine
  <2>1. worker' \in Busy
    BY <1>9, GotoKeepsJob DEF Examine, At
  <2>2. callbacks' \in Seq(Callbacks)
    BY <1>9, BusyJob, RespondTyped DEF Examine, At, Verdicts, Kinds, TypeOK
  <2> QED BY <1>9, <2>1, <2>2 DEF Examine, database, TypeOK
<1>10. CASE Commit
  <2>1. worker.job \in Requests
    BY <1>10, BusyJob DEF Commit, At
  <2>2. worker' \in Busy
    BY <1>10, GotoKeepsJob DEF Commit, At
  <2>3. callbacks' \in Seq(Callbacks)
    BY <1>10, <2>1, RespondTyped DEF Commit, Kinds
  <2>4. /\ receipts' \in [Ids -> Payloads \cup {None}]
        /\ executions' \in [Ids -> Nat]
        /\ committedBy' \in [Ids -> Tickets \cup {0}]
        /\ retired' \subseteq Ids
    <3>1. CASE Store(worker.job)
      BY <2>1, <3>1 DEF Store, TypeOK, Requests
    <3>2. CASE UNCHANGED database
      BY <3>2 DEF database, TypeOK
    <3> QED BY <1>10, <3>1, <3>2 DEF Commit
  <2> QED BY <1>10, <2>2, <2>3, <2>4 DEF Commit, TypeOK
<1>11. CASE Finish
  BY <1>11 DEF Finish, At, database, TypeOK, Quiet, CountersExact, WorkerCounted
<1>12. CASE Crash
  BY <1>12, WriteAssumption DEF Crash, database, TypeOK
<1>13. CASE Start
  BY <1>13 DEF Start, CleanExpiredReceipts, TypeOK
<1>14. CASE UNCHANGED vars
  BY <1>14 DEF vars, memory, database, TypeOK
<1> QED
  BY <1>1, <1>2, <1>3, <1>4, <1>5, <1>6, <1>7, <1>8, <1>9, <1>10, <1>11, <1>12,
     <1>13, <1>14 DEF Next, Application, Worker

\* Only a running process holds work.
LEMMA QuietStep == TypeOK /\ Quiet /\ [Next]_vars => Quiet'
<1> SUFFICES ASSUME TypeOK /\ Quiet, [Next]_vars PROVE Quiet'
  OBVIOUS
<1>1. CASE \E i \in Ids, p \in Payloads : Enqueue(i, p)
  BY <1>1, WriteAssumption DEF Enqueue, AtEventLoop, Respond, NewRequest,
     database, Quiet, TypeOK, Requests, Callbacks, Kinds, Busy, Reserved, Idle,
     NotEntering, Tickets
<1>2. CASE EnqueueDecide
  BY <1>2, WriteAssumption DEF EnqueueDecide, Full, Respond, database, Quiet,
     TypeOK, Requests, Callbacks, Kinds, Busy, Reserved, Idle, NotEntering,
     Tickets
<1>3. CASE RunCallback
  BY <1>3, WriteAssumption DEF RunCallback, AtEventLoop, Publishes, database,
     Quiet, TypeOK, Requests, Callbacks, Kinds, Busy, Reserved, Idle,
     NotEntering, Tickets
<1>4. CASE SetAccepting
  BY <1>4, WriteAssumption DEF SetAccepting, AtEventLoop, database, Quiet,
     TypeOK, Requests, Callbacks, Kinds, Busy, Reserved, Idle, NotEntering,
     Tickets
<1>5. CASE Shutdown
  BY <1>5, WriteAssumption DEF Shutdown, AtEventLoop, database, Quiet, TypeOK,
     Requests, Callbacks, Kinds, Busy, Reserved, Idle, NotEntering, Tickets
<1>6. CASE ShutdownReturns
  BY <1>6, WriteAssumption DEF ShutdownReturns, database, Quiet, TypeOK,
     Requests, Callbacks, Kinds, Busy, Reserved, Idle, NotEntering, Tickets
<1>7. CASE Dequeue
  BY <1>7, WriteAssumption DEF Dequeue, database, Quiet, TypeOK, Requests,
     Callbacks, Kinds, Busy, Reserved, Idle, NotEntering, Tickets
<1>8. CASE CountActive
  BY <1>8, WriteAssumption DEF CountActive, At, Goto, database, Quiet, TypeOK,
     Requests, Callbacks, Kinds, Busy, Reserved, Idle, NotEntering, Tickets
<1>9. CASE Examine
  BY <1>9, WriteAssumption DEF Examine, At, Goto, Respond, Verdicts, database,
     Quiet, TypeOK, Requests, Callbacks, Kinds, Busy, Reserved, Idle,
     NotEntering, Tickets
<1>10. CASE Commit
  BY <1>10, WriteAssumption DEF Commit, At, Goto, Respond, Store, database,
     Quiet, TypeOK, Requests, Callbacks, Kinds, Busy, Reserved, Idle,
     NotEntering, Tickets
<1>11. CASE Finish
  BY <1>11, WriteAssumption DEF Finish, At, database, Quiet, TypeOK, Requests,
     Callbacks, Kinds, Busy, Reserved, Idle, NotEntering, Tickets
<1>12. CASE Crash
  BY <1>12, WriteAssumption DEF Crash, database, Quiet, TypeOK, Requests,
     Callbacks, Kinds, Busy, Reserved, Idle, NotEntering, Tickets
<1>13. CASE Start
  BY <1>13, WriteAssumption DEF Start, CleanExpiredReceipts, Quiet, TypeOK,
     Requests, Callbacks, Kinds, Busy, Reserved, Idle, NotEntering, Tickets
<1>14. CASE UNCHANGED vars
  BY <1>14 DEF vars, memory, database, Quiet, TypeOK, Requests, Callbacks, Kinds,
     Busy, Reserved, Idle, NotEntering, Tickets
<1> QED
  BY <1>1, <1>2, <1>3, <1>4, <1>5, <1>6, <1>7, <1>8, <1>9, <1>10,
     <1>11, <1>12, <1>13, <1>14
  DEF Next, Application, Worker

\* The two counters follow the queue and the worker.
LEMMA CountsStep ==
    TypeOK /\ Quiet /\ CountersExact /\ [Next]_vars
      => CountersExact'
<1> SUFFICES ASSUME TypeOK /\ Quiet /\ CountersExact, [Next]_vars
             PROVE  CountersExact'
  OBVIOUS
<1>1. CASE \E i \in Ids, p \in Payloads : Enqueue(i, p)
  BY <1>1, WriteAssumption DEF Enqueue, AtEventLoop, Respond, NewRequest,
     database, Quiet, CountersExact, Reservation, WorkerCounted, TypeOK,
     Requests, Callbacks, Kinds, Busy, Reserved, Idle, NotEntering, Tickets
<1>2. CASE EnqueueDecide
  BY <1>2, WriteAssumption DEF EnqueueDecide, Full, Respond, database, Quiet,
     CountersExact, Reservation, WorkerCounted, TypeOK, Requests, Callbacks,
     Kinds, Busy, Reserved, Idle, NotEntering, Tickets
<1>3. CASE RunCallback
  BY <1>3, WriteAssumption DEF RunCallback, AtEventLoop, Publishes, database,
     Quiet, CountersExact, Reservation, WorkerCounted, TypeOK, Requests,
     Callbacks, Kinds, Busy, Reserved, Idle, NotEntering, Tickets
<1>4. CASE SetAccepting
  BY <1>4, WriteAssumption DEF SetAccepting, AtEventLoop, database, Quiet,
     CountersExact, Reservation, WorkerCounted, TypeOK, Requests, Callbacks,
     Kinds, Busy, Reserved, Idle, NotEntering, Tickets
<1>5. CASE Shutdown
  BY <1>5, WriteAssumption DEF Shutdown, AtEventLoop, database, Quiet,
     CountersExact, Reservation, WorkerCounted, TypeOK, Requests, Callbacks,
     Kinds, Busy, Reserved, Idle, NotEntering, Tickets
<1>6. CASE ShutdownReturns
  BY <1>6, WriteAssumption DEF ShutdownReturns, database, Quiet, CountersExact,
     Reservation, WorkerCounted, TypeOK, Requests, Callbacks, Kinds, Busy,
     Reserved, Idle, NotEntering, Tickets
<1>7. CASE Dequeue
  BY <1>7, WriteAssumption DEF Dequeue, database, Quiet, CountersExact,
     Reservation, WorkerCounted, TypeOK, Requests, Callbacks, Kinds, Busy,
     Reserved, Idle, NotEntering, Tickets
<1>8. CASE CountActive
  BY <1>8, WriteAssumption DEF CountActive, At, Goto, database, Quiet,
     CountersExact, Reservation, WorkerCounted, TypeOK, Requests, Callbacks,
     Kinds, Busy, Reserved, Idle, NotEntering, Tickets
<1>9. CASE Examine
  BY <1>9, WriteAssumption DEF Examine, At, Goto, Respond, Verdicts, database,
     Quiet, CountersExact, Reservation, WorkerCounted, TypeOK, Requests,
     Callbacks, Kinds, Busy, Reserved, Idle, NotEntering, Tickets
<1>10. CASE Commit
  BY <1>10, WriteAssumption DEF Commit, At, Goto, Respond, Store, database,
     Quiet, CountersExact, Reservation, WorkerCounted, TypeOK, Requests,
     Callbacks, Kinds, Busy, Reserved, Idle, NotEntering, Tickets
<1>11. CASE Finish
  BY <1>11, WriteAssumption DEF Finish, At, database, Quiet, CountersExact,
     Reservation, WorkerCounted, TypeOK, Requests, Callbacks, Kinds, Busy,
     Reserved, Idle, NotEntering, Tickets
<1>12. CASE Crash
  BY <1>12, WriteAssumption DEF Crash, database, Quiet, CountersExact,
     Reservation, WorkerCounted, TypeOK, Requests, Callbacks, Kinds, Busy,
     Reserved, Idle, NotEntering, Tickets
<1>13. CASE Start
  BY <1>13, WriteAssumption DEF Start, CleanExpiredReceipts, Quiet,
     CountersExact, Reservation, WorkerCounted, TypeOK, Requests, Callbacks,
     Kinds, Busy, Reserved, Idle, NotEntering, Tickets
<1>14. CASE UNCHANGED vars
  BY <1>14 DEF vars, memory, database, Quiet, CountersExact, Reservation,
     WorkerCounted, TypeOK, Requests, Callbacks, Kinds, Busy, Reserved, Idle,
     NotEntering, Tickets
<1> QED
  BY <1>1, <1>2, <1>3, <1>4, <1>5, <1>6, <1>7, <1>8, <1>9, <1>10,
     <1>11, <1>12, <1>13, <1>14
  DEF Next, Application, Worker

\* The place is reserved before the limit is read, so the queue stays within it.
LEMMA CapacityStep ==
    TypeOK /\ Quiet /\ CountersExact /\ Capacity /\ [Next]_vars
      => Capacity'
<1> SUFFICES ASSUME TypeOK /\ Quiet /\ CountersExact /\ Capacity, [Next]_vars
             PROVE  Capacity'
  OBVIOUS
<1>1. CASE \E i \in Ids, p \in Payloads : Enqueue(i, p)
  BY <1>1, WriteAssumption DEF Enqueue, AtEventLoop, Respond, NewRequest,
     database, Quiet, CountersExact, Reservation, WorkerCounted, Capacity,
     TypeOK, Requests, Callbacks, Kinds, Busy, Reserved, Idle, NotEntering,
     Tickets
<1>2. CASE EnqueueDecide
  BY <1>2, WriteAssumption DEF EnqueueDecide, Full, Respond, database, Quiet,
     CountersExact, Reservation, WorkerCounted, Capacity, TypeOK, Requests,
     Callbacks, Kinds, Busy, Reserved, Idle, NotEntering, Tickets
<1>3. CASE RunCallback
  BY <1>3, WriteAssumption DEF RunCallback, AtEventLoop, Publishes, database,
     Quiet, CountersExact, Reservation, WorkerCounted, Capacity, TypeOK,
     Requests, Callbacks, Kinds, Busy, Reserved, Idle, NotEntering, Tickets
<1>4. CASE SetAccepting
  BY <1>4, WriteAssumption DEF SetAccepting, AtEventLoop, database, Quiet,
     CountersExact, Reservation, WorkerCounted, Capacity, TypeOK, Requests,
     Callbacks, Kinds, Busy, Reserved, Idle, NotEntering, Tickets
<1>5. CASE Shutdown
  BY <1>5, WriteAssumption DEF Shutdown, AtEventLoop, database, Quiet,
     CountersExact, Reservation, WorkerCounted, Capacity, TypeOK, Requests,
     Callbacks, Kinds, Busy, Reserved, Idle, NotEntering, Tickets
<1>6. CASE ShutdownReturns
  BY <1>6, WriteAssumption DEF ShutdownReturns, database, Quiet, CountersExact,
     Reservation, WorkerCounted, Capacity, TypeOK, Requests, Callbacks, Kinds,
     Busy, Reserved, Idle, NotEntering, Tickets
<1>7. CASE Dequeue
  BY <1>7, WriteAssumption DEF Dequeue, database, Quiet, CountersExact,
     Reservation, WorkerCounted, Capacity, TypeOK, Requests, Callbacks, Kinds,
     Busy, Reserved, Idle, NotEntering, Tickets
<1>8. CASE CountActive
  BY <1>8, WriteAssumption DEF CountActive, At, Goto, database, Quiet,
     CountersExact, Reservation, WorkerCounted, Capacity, TypeOK, Requests,
     Callbacks, Kinds, Busy, Reserved, Idle, NotEntering, Tickets
<1>9. CASE Examine
  BY <1>9, WriteAssumption DEF Examine, At, Goto, Respond, Verdicts, database,
     Quiet, CountersExact, Reservation, WorkerCounted, Capacity, TypeOK,
     Requests, Callbacks, Kinds, Busy, Reserved, Idle, NotEntering, Tickets
<1>10. CASE Commit
  BY <1>10, WriteAssumption DEF Commit, At, Goto, Respond, Store, database,
     Quiet, CountersExact, Reservation, WorkerCounted, Capacity, TypeOK,
     Requests, Callbacks, Kinds, Busy, Reserved, Idle, NotEntering, Tickets
<1>11. CASE Finish
  BY <1>11, WriteAssumption DEF Finish, At, database, Quiet, CountersExact,
     Reservation, WorkerCounted, Capacity, TypeOK, Requests, Callbacks, Kinds,
     Busy, Reserved, Idle, NotEntering, Tickets
<1>12. CASE Crash
  BY <1>12, WriteAssumption DEF Crash, database, Quiet, CountersExact,
     Reservation, WorkerCounted, Capacity, TypeOK, Requests, Callbacks, Kinds,
     Busy, Reserved, Idle, NotEntering, Tickets
<1>13. CASE Start
  BY <1>13, WriteAssumption DEF Start, CleanExpiredReceipts, Quiet,
     CountersExact, Reservation, WorkerCounted, Capacity, TypeOK, Requests,
     Callbacks, Kinds, Busy, Reserved, Idle, NotEntering, Tickets
<1>14. CASE UNCHANGED vars
  BY <1>14 DEF vars, memory, database, Quiet, CountersExact, Reservation,
     WorkerCounted, Capacity, TypeOK, Requests, Callbacks, Kinds, Busy, Reserved,
     Idle, NotEntering, Tickets
<1> QED
  BY <1>1, <1>2, <1>3, <1>4, <1>5, <1>6, <1>7, <1>8, <1>9, <1>10,
     <1>11, <1>12, <1>13, <1>14
  DEF Next, Application, Worker

-----------------------------------------------------------------------------
(***************************************************************************)
(* Sequences, index by index.                                              *)
(***************************************************************************)
LEMMA AppendIndices ==
    ASSUME NEW S, NEW s \in Seq(S), NEW e \in S
    PROVE  /\ Append(s, e) \in Seq(S)
           /\ Len(Append(s, e)) = Len(s) + 1
           /\ \A k \in 1 .. Len(s) + 1 :
                Append(s, e)[k] = IF k = Len(s) + 1 THEN e ELSE s[k]
OBVIOUS

LEMMA TailIndices ==
    ASSUME NEW S, NEW s \in Seq(S), s # <<>>
    PROVE  /\ Tail(s) \in Seq(S)
           /\ Head(s) \in S /\ Head(s) = s[1] /\ Len(s) \in Nat \ {0}
           /\ Len(Tail(s)) = Len(s) - 1
           /\ \A k \in 1 .. Len(s) - 1 : Tail(s)[k] = s[k + 1]
OBVIOUS

-----------------------------------------------------------------------------
(***************************************************************************)
(* Where a submission is.                                                  *)
(***************************************************************************)
\* A decided enqueue() releases its submission or moves it to the queue.
LEMMA DecideHolds ==
    ASSUME TypeOK, HeldApart, EnqueueDecide
    PROVE  /\ \A t : Holds(t)' => Holds(t)
           /\ Holds(entering.request.ticket)
           /\ entering.request \in Requests
           /\ Respond(entering.request, "error")
                => \A t : t = entering.request.ticket => ~Holds(t)'
<1>1. entering # NotEntering /\ entering' = NotEntering /\ worker' = worker
  BY DEF EnqueueDecide
<1>2. entering.request \in Requests
  BY <1>1 DEF TypeOK, Reserved
<1>3. CASE queue' = queue /\ Respond(entering.request, "error")
  <2>1. \A t : Holds(t)' => Holds(t)
    BY <1>1, <1>3 DEF Holds
  <2>2. \A t : t = entering.request.ticket => ~Holds(t)'
    BY <1>1, <1>3 DEF Holds, HeldApart
  <2> QED BY <1>1, <1>2, <2>1, <2>2 DEF Holds
<1>4. CASE queue' = Append(queue, entering.request) /\ callbacks' = callbacks
  <2>1. queue \in Seq(Requests) /\ callbacks \in Seq(Callbacks)
    BY DEF TypeOK
  <2>2. /\ Len(queue') = Len(queue) + 1
        /\ \A k \in 1 .. Len(queue) + 1 :
             queue'[k] = IF k = Len(queue) + 1 THEN entering.request ELSE queue[k]
    BY <1>2, <1>4, <2>1, AppendIndices
  <2>3. \A t : Holds(t)' => Holds(t)
    BY <1>1, <2>1, <2>2 DEF Holds
  <2>4. ~Respond(entering.request, "error")
    BY <1>4, <2>1 DEF Respond
  <2> QED BY <1>1, <1>2, <2>3, <2>4 DEF Holds
<1> QED BY <1>3, <1>4 DEF EnqueueDecide

\* Taking a job off the queue moves its submission to the worker.
LEMMA DequeueHolds ==
    ASSUME TypeOK, Dequeue
    PROVE  \A t : Holds(t)' => Holds(t)
<1>1. queue \in Seq(Requests) /\ queue # <<>>
  BY DEF TypeOK, Dequeue
<1>2. /\ Head(queue) = queue[1] /\ Len(queue) \in Nat \ {0}
      /\ Len(queue') = Len(queue) - 1
      /\ \A k \in 1 .. Len(queue) - 1 : queue'[k] = queue[k + 1]
  BY <1>1, TailIndices DEF Dequeue
<1>3. worker'.job = Head(queue) /\ entering' = entering
  BY DEF Dequeue
<1>4. ASSUME NEW t, NEW k \in 1 .. Len(queue'), queue'[k].ticket = t PROVE Holds(t)
  <2>1. k + 1 \in 1 .. Len(queue) /\ queue[k + 1].ticket = t
    BY <1>2, <1>4
  <2> QED BY <2>1 DEF Holds
<1>5. ASSUME NEW t, Head(queue).ticket = t PROVE Holds(t)
  BY <1>2, <1>5 DEF Holds
<1> QED BY <1>3, <1>4, <1>5 DEF Holds

\* The worker's answer releases its submission.
LEMMA WorkerAnswerHolds ==
    ASSUME TypeOK, HeldApart, Examine \/ Commit
    PROVE  /\ \A t : Holds(t)' => Holds(t)
           /\ worker.job \in Requests
           /\ Holds(worker.job.ticket)
           /\ callbacks' # callbacks
                => \A t : t = worker.job.ticket => ~Holds(t)'
<1>1. worker # Idle /\ worker.at \in {"counted", "executed"}
  BY DEF Examine, Commit, At
<1>2. worker \in Busy /\ worker.job \in Requests
  BY <1>1, BusyJob
<1>3. queue' = queue /\ entering' = entering
  BY DEF Examine, Commit
<1>4. CASE Goto("executed") /\ callbacks' = callbacks
  BY <1>1, <1>2, <1>3, <1>4, GotoKeepsJob DEF Holds
<1>5. CASE Goto("finishing")
  <2>1. worker'.at = "finishing"
    BY <1>1, <1>5, GotoKeepsJob
  <2>2. \A t : Holds(t)' => Holds(t)
    BY <1>3, <2>1 DEF Holds
  <2>3. \A t : t = worker.job.ticket => ~Holds(t)'
    BY <1>1, <1>3, <2>1 DEF Holds, HeldApart
  <2> QED BY <1>1, <1>2, <2>2, <2>3 DEF Holds
<1> QED BY <1>4, <1>5 DEF Examine, Commit

\* No other step but enqueue() changes what is held.
LEMMA HoldsOnlyMoves ==
    ASSUME TypeOK, Quiet, HeldApart, [Next]_vars,
           ~ \E i \in Ids, p \in Payloads : Enqueue(i, p)
    PROVE  \A t : Holds(t)' => Holds(t)
<1>1. CASE EnqueueDecide
  BY <1>1, DecideHolds
<1>2. CASE Dequeue
  BY <1>2, DequeueHolds
<1>3. CASE Examine \/ Commit
  BY <1>3, WorkerAnswerHolds
<1>4. CASE CountActive
  BY <1>4, GotoKeepsJob, BusyJob DEF CountActive, At, Holds
<1>5. CASE \/ RunCallback \/ SetAccepting \/ Shutdown \/ ShutdownReturns
           \/ Start \/ UNCHANGED vars
  BY <1>5 DEF RunCallback, SetAccepting, Shutdown, ShutdownReturns, Start,
              vars, memory, Holds
<1>6. CASE Finish
  BY <1>6 DEF Finish, At, Holds
<1>7. CASE Crash
  BY <1>7 DEF Crash, Holds
<1> QED BY <1>1, <1>2, <1>3, <1>4, <1>5, <1>6, <1>7 DEF Next, Application, Worker

\* A request that enters holds the newest ticket.
LEMMA EnqueueHolds ==
    ASSUME TypeOK, NEW i \in Ids, NEW p \in Payloads, Enqueue(i, p)
    PROVE  /\ issued' = issued + 1
           /\ \A t : Holds(t)' => Holds(t) \/ (t = issued + 1 /\ callbacks' = callbacks)
<1>1. queue' = queue /\ worker' = worker /\ issued' = issued + 1
  BY DEF Enqueue
<1>2. CASE entering' = entering
  BY <1>1, <1>2 DEF Holds
<1>3. CASE entering'.request = NewRequest(i, p) /\ callbacks' = callbacks
  BY <1>1, <1>3 DEF Holds, NewRequest
<1> QED BY <1>1, <1>2, <1>3 DEF Enqueue

-----------------------------------------------------------------------------
(***************************************************************************)
(* Every submission is at one place.                                       *)
(***************************************************************************)
LEMMA HeldApartStep == TypeOK /\ Quiet /\ Places /\ [Next]_vars => HeldApart'
<1> SUFFICES ASSUME TypeOK, Quiet, HeldApart, TicketsIssued, [Next]_vars
             PROVE  HeldApart'
  BY DEF Places
<1>1. ASSUME NEW i \in Ids, NEW p \in Payloads, Enqueue(i, p) PROVE HeldApart'
  <2>1. queue' = queue /\ worker' = worker /\ entering = NotEntering
    BY <1>1 DEF Enqueue, AtEventLoop
  <2>2. CASE entering' = entering
    BY <2>1, <2>2 DEF HeldApart
  <2>3. CASE entering'.request.ticket = issued + 1
    <3>1. issued + 1 \in Tickets /\ issued \in Nat
      BY <1>1, WriteAssumption DEF Enqueue, Tickets, TypeOK
    <3>2. ~Holds(issued + 1)
      BY <3>1 DEF TicketsIssued
    <3> QED BY <2>1, <2>3, <3>2 DEF HeldApart, Holds
  <2> QED BY <1>1, <2>2, <2>3 DEF Enqueue, NewRequest
<1>2. CASE EnqueueDecide
  <2>1. /\ entering # NotEntering /\ entering' = NotEntering /\ worker' = worker
        /\ entering.request \in Requests
    BY <1>2, DecideHolds DEF EnqueueDecide
  <2>2. CASE queue' = queue
    BY <2>1, <2>2 DEF HeldApart
  <2>3. CASE queue' = Append(queue, entering.request)
    <3>1. queue \in Seq(Requests)
      BY DEF TypeOK
    <3>2. /\ Len(queue') = Len(queue) + 1 /\ Len(queue) \in Nat
          /\ \A k \in 1 .. Len(queue) + 1 :
               queue'[k] = IF k = Len(queue) + 1 THEN entering.request ELSE queue[k]
      BY <2>1, <2>3, <3>1, AppendIndices
    <3> QED BY <2>1, <3>2 DEF HeldApart
  <2> QED BY <1>2, <2>2, <2>3 DEF EnqueueDecide
<1>3. CASE Dequeue
  <2>1. queue \in Seq(Requests) /\ queue # <<>> /\ entering' = entering
    BY <1>3 DEF TypeOK, Dequeue
  <2>2. /\ Head(queue) = queue[1] /\ Len(queue) \in Nat \ {0}
        /\ Len(queue') = Len(queue) - 1
        /\ \A k \in 1 .. Len(queue) - 1 : queue'[k] = queue[k + 1]
    BY <1>3, <2>1, TailIndices DEF Dequeue
  <2>3. worker'.job = queue[1]
    BY <1>3, <2>2 DEF Dequeue
  <2> QED BY <2>1, <2>2, <2>3 DEF HeldApart
<1>4. CASE CountActive \/ Examine \/ Commit
  <2>1. queue' = queue /\ entering' = entering /\ worker # Idle
    BY <1>4 DEF CountActive, Examine, Commit, At
  <2>2. worker'.job = worker.job /\ worker.at # "finishing"
    BY <1>4, <2>1, GotoKeepsJob DEF CountActive, Examine, Commit, At
  <2> QED BY <2>1, <2>2 DEF HeldApart
<1>5. CASE Finish
  BY <1>5 DEF Finish, HeldApart
<1>6. CASE Crash
  BY <1>6 DEF Crash, HeldApart
<1>7. CASE \/ RunCallback \/ SetAccepting \/ Shutdown \/ ShutdownReturns
           \/ Start \/ UNCHANGED vars
  BY <1>7 DEF RunCallback, SetAccepting, Shutdown, ShutdownReturns, Start,
              vars, memory, HeldApart
<1> QED BY <1>1, <1>2, <1>3, <1>4, <1>5, <1>6, <1>7 DEF Next, Application, Worker

\* A submission that nobody holds any more, and nobody answered, is answered.
LEMMA PostAnswer ==
    ASSUME TypeOK, AnsweredApart, NEW r \in Requests, NEW k \in Kinds,
           Respond(r, k), responses' = responses,
           \A t : Holds(t)' => Holds(t),
           \A t : t = r.ticket => ~Holds(t)',
           \A n \in 1 .. Len(callbacks) : callbacks[n].request.ticket # r.ticket,
           \A c \in responses : c.request.ticket # r.ticket
    PROVE  AnsweredApart'
<1> DEFINE c == [request |-> r, kind |-> k]
<1>1. callbacks \in Seq(Callbacks) /\ c \in Callbacks
  BY DEF TypeOK, Callbacks
<1>2. /\ Len(callbacks') = Len(callbacks) + 1 /\ Len(callbacks) \in Nat
      /\ \A n \in 1 .. Len(callbacks) + 1 :
           callbacks'[n] = IF n = Len(callbacks) + 1 THEN c ELSE callbacks[n]
  BY <1>1, AppendIndices DEF Respond
<1>3. c.request = r
  OBVIOUS
<1> HIDE DEF c
<1> QED BY <1>2, <1>3 DEF AnsweredApart

LEMMA AnsweredApartStep ==
    TypeOK /\ Quiet /\ Places /\ [Next]_vars
      => AnsweredApart'
<1> SUFFICES ASSUME TypeOK, Quiet, HeldApart, AnsweredApart, TicketsIssued,
                    [Next]_vars
             PROVE  AnsweredApart'
  BY DEF Places
<1>1. ASSUME NEW i \in Ids, NEW p \in Payloads, Enqueue(i, p)
      PROVE  AnsweredApart'
  <2>1. issued + 1 \in Tickets /\ issued \in Nat /\ responses' = responses
    BY <1>1, WriteAssumption DEF Enqueue, Tickets, TypeOK
  <2>2. ~Holds(issued + 1)
    BY <2>1 DEF TicketsIssued
  <2>3. /\ \A n \in 1 .. Len(callbacks) : callbacks[n].request.ticket # issued + 1
        /\ \A c \in responses : c.request.ticket # issued + 1
    <3>1. \A c \in Callbacks : c.request.ticket \in Nat
      BY WriteAssumption DEF Callbacks, Requests, Tickets
    <3>2. \A n \in 1 .. Len(callbacks) : callbacks[n] \in Callbacks
      BY DEF TypeOK
    <3>3. responses \subseteq Callbacks
      BY DEF TypeOK
    <3> QED BY <2>1, <3>1, <3>2, <3>3 DEF TicketsIssued
  <2>4. CASE callbacks' = callbacks
    <3>1. \A t : Holds(t)' => Holds(t) \/ t = issued + 1
      BY <1>1, EnqueueHolds
    <3> QED BY <2>1, <2>3, <2>4, <3>1 DEF AnsweredApart
  <2>5. CASE Respond(NewRequest(i, p), "error") /\ entering' = entering
    <3>1. NewRequest(i, p) \in Requests /\ NewRequest(i, p).ticket = issued + 1
      BY <2>1 DEF NewRequest, Requests
    <3>2. \A t : Holds(t)' => Holds(t)
      BY <1>1, <2>5 DEF Enqueue, Holds
    <3>3. \A t : t = NewRequest(i, p).ticket => ~Holds(t)'
      BY <2>2, <3>1, <3>2
    <3>4. "error" \in Kinds
      BY DEF Kinds
    <3> HIDE DEF NewRequest
    <3> QED BY <2>1, <2>3, <2>5, <3>1, <3>2, <3>3, <3>4, PostAnswer
  <2> QED BY <1>1, <2>4, <2>5 DEF Enqueue
<1>2. CASE EnqueueDecide
  <2>1. /\ \A t : Holds(t)' => Holds(t)
        /\ Holds(entering.request.ticket)
        /\ entering.request \in Requests
        /\ Respond(entering.request, "error")
             => \A t : t = entering.request.ticket => ~Holds(t)'
    BY <1>2, DecideHolds
  <2>2. responses' = responses
    BY <1>2 DEF EnqueueDecide
  <2>3. CASE callbacks' = callbacks
    BY <2>1, <2>2, <2>3 DEF AnsweredApart
  <2>4. CASE Respond(entering.request, "error")
    <3>1. /\ \A n \in 1 .. Len(callbacks) :
               callbacks[n].request.ticket # entering.request.ticket
          /\ \A c \in responses : c.request.ticket # entering.request.ticket
      BY <2>1 DEF AnsweredApart
    <3>2. "error" \in Kinds
      BY DEF Kinds
    <3> QED BY <2>1, <2>2, <2>4, <3>1, <3>2, PostAnswer
  <2> QED BY <1>2, <2>3, <2>4 DEF EnqueueDecide
<1>3. CASE Examine \/ Commit
  <2>1. /\ \A t : Holds(t)' => Holds(t)
        /\ worker.job \in Requests
        /\ Holds(worker.job.ticket)
        /\ callbacks' # callbacks => \A t : t = worker.job.ticket => ~Holds(t)'
    BY <1>3, WorkerAnswerHolds
  <2>2. responses' = responses
    BY <1>3 DEF Examine, Commit
  <2>3. CASE callbacks' = callbacks
    BY <2>1, <2>2, <2>3 DEF AnsweredApart
  <2>4. ASSUME NEW kind \in Kinds, Respond(worker.job, kind) PROVE AnsweredApart'
    <3>1. /\ \A n \in 1 .. Len(callbacks) :
               callbacks[n].request.ticket # worker.job.ticket
          /\ \A c \in responses : c.request.ticket # worker.job.ticket
      BY <2>1 DEF AnsweredApart
    <3>2. callbacks' # callbacks
      BY <2>4 DEF Respond, TypeOK
    <3> QED BY <2>1, <2>2, <2>4, <3>1, <3>2, PostAnswer
  <2> QED BY <1>3, <2>3, <2>4 DEF Examine, Commit, Verdicts, Kinds
<1>4. CASE RunCallback
  <2>1. callbacks \in Seq(Callbacks) /\ callbacks # <<>>
    BY <1>4 DEF RunCallback, TypeOK
  <2>2. /\ Head(callbacks) = callbacks[1] /\ Len(callbacks) \in Nat \ {0}
        /\ Len(callbacks') = Len(callbacks) - 1
        /\ \A n \in 1 .. Len(callbacks) - 1 : callbacks'[n] = callbacks[n + 1]
    BY <1>4, <2>1, TailIndices DEF RunCallback
  <2>3. responses' = responses \cup {callbacks[1]}
    BY <1>4, <2>2 DEF RunCallback
  <2>4. \A t : Holds(t)' => Holds(t)
    BY <1>4 DEF RunCallback, Holds
  <2>5. \A n \in 1 .. Len(callbacks') :
            n + 1 \in 1 .. Len(callbacks) /\ callbacks'[n] = callbacks[n + 1]
    BY <2>2
  <2>6. (\A n \in 1 .. Len(callbacks) : ~Holds(callbacks[n].request.ticket))'
    BY <2>4, <2>5 DEF AnsweredApart
  <2>7. (\A c \in responses : ~Holds(c.request.ticket))'
    BY <2>2, <2>3, <2>4 DEF AnsweredApart
  <2>8. \A k, l \in 1 .. Len(callbacks') :
          callbacks'[k].request.ticket = callbacks'[l].request.ticket => k = l
    BY <2>2, <2>5 DEF AnsweredApart
  <2>9. \A k \in 1 .. Len(callbacks'), c \in responses' :
          callbacks'[k].request.ticket # c.request.ticket
    <3>1. \A k \in 1 .. Len(callbacks') :
            callbacks'[k].request.ticket # callbacks[1].request.ticket
      BY <2>2, <2>5 DEF AnsweredApart
    <3>2. \A k \in 1 .. Len(callbacks'), c \in responses :
            callbacks'[k].request.ticket # c.request.ticket
      BY <2>5 DEF AnsweredApart
    <3> QED BY <2>3, <3>1, <3>2
  <2> QED BY <2>6, <2>7, <2>8, <2>9 DEF AnsweredApart
<1>5. CASE ShutdownReturns \/ Crash
  <2>1. callbacks' = <<>> /\ responses' = responses
    BY <1>5 DEF ShutdownReturns, Crash
  <2>2. \A t : Holds(t)' => Holds(t)
    BY <1>5 DEF ShutdownReturns, Crash, Holds
  <2> QED BY <2>1, <2>2 DEF AnsweredApart
<1>6. CASE \/ SetAccepting \/ Shutdown \/ Dequeue \/ CountActive \/ Finish
           \/ Start \/ UNCHANGED vars
  <2>1. callbacks' = callbacks /\ responses' = responses
    BY <1>6 DEF SetAccepting, Shutdown, Dequeue, CountActive, Finish, Start,
                vars, memory
  <2>2. ~ \E i \in Ids, p \in Payloads : Enqueue(i, p)
    BY <1>6 DEF SetAccepting, Shutdown, Dequeue, CountActive, Finish, Start,
                vars, Enqueue, TypeOK
  <2>3. \A t : Holds(t)' => Holds(t)
    BY <2>2, HoldsOnlyMoves
  <2> QED BY <2>1, <2>3 DEF AnsweredApart
<1> QED BY <1>1, <1>2, <1>3, <1>4, <1>5, <1>6 DEF Next, Application, Worker

LEMMA CommittedApartStep ==
    TypeOK /\ Quiet /\ Places /\ [Next]_vars => CommittedApart'
<1> SUFFICES ASSUME TypeOK, Quiet, HeldApart, CommittedApart, TicketsIssued,
                    [Next]_vars
             PROVE  CommittedApart'
  BY DEF Places
<1>1. ASSUME NEW i \in Ids, NEW p \in Payloads, Enqueue(i, p)
      PROVE  CommittedApart'
  <2>1. \A t : Holds(t)' => Holds(t) \/ t = issued + 1
    BY <1>1, EnqueueHolds
  <2>2. committedBy' = committedBy /\ \A j \in Ids : committedBy[j] # issued + 1
    BY <1>1, WriteAssumption DEF Enqueue, database, TicketsIssued, TypeOK, Tickets
  <2> QED BY <2>1, <2>2 DEF CommittedApart
<1>2. CASE committedBy' = committedBy /\ \A t : Holds(t)' => Holds(t)
  BY <1>2 DEF CommittedApart
<1>3. CASE Commit /\ Store(worker.job)
  <2>1. /\ \A t : Holds(t)' => Holds(t)
        /\ callbacks' # callbacks => \A t : t = worker.job.ticket => ~Holds(t)'
    BY <1>3, WorkerAnswerHolds
  <2>2. callbacks' # callbacks
    BY <1>3 DEF Commit, Respond, TypeOK
  <2>3. worker.job.id \in Ids
    BY <1>3, BusyJob DEF Commit, At, Requests
  <2>4. \A j \in Ids : committedBy'[j] \in {committedBy[j], worker.job.ticket}
    BY <1>3, <2>3 DEF Store, TypeOK
  <2> QED BY <2>1, <2>2, <2>4 DEF CommittedApart
<1>4. (~ \E i \in Ids, p \in Payloads : Enqueue(i, p)) => \A t : Holds(t)' => Holds(t)
  BY HoldsOnlyMoves
<1>5. \/ \E i \in Ids, p \in Payloads : Enqueue(i, p)
      \/ Commit /\ Store(worker.job)
      \/ committedBy' = committedBy
  BY DEF Next, Application, Worker, EnqueueDecide, RunCallback, SetAccepting,
         Shutdown, ShutdownReturns, Dequeue, CountActive, Examine, Commit, Finish,
         Crash, Start, vars, database
<1> QED BY <1>1, <1>2, <1>3, <1>4, <1>5

LEMMA TicketsIssuedStep ==
    TypeOK /\ Quiet /\ Places /\ [Next]_vars => TicketsIssued'
<1> SUFFICES ASSUME TypeOK, Quiet, HeldApart, TicketsIssued, [Next]_vars
             PROVE  TicketsIssued'
  BY DEF Places
<1>1. issued \in Nat /\ issued' \in Nat /\ issued <= issued'
  BY WriteAssumption DEF Next, Application, Worker, Enqueue, EnqueueDecide,
         RunCallback, SetAccepting, Shutdown, ShutdownReturns, Dequeue, CountActive,
         Examine, Commit, Finish, Crash, Start, vars, TypeOK
<1>2. \A t \in Tickets : t \in Nat
  BY DEF Tickets
<1>3. \A t \in Tickets : Holds(t)' => t <= issued'
  <2>1. ASSUME NEW i \in Ids, NEW p \in Payloads, Enqueue(i, p)
        PROVE  \A t \in Tickets : Holds(t)' => t <= issued'
    BY <1>1, <1>2, <2>1, EnqueueHolds DEF TicketsIssued
  <2>2. (~ \E i \in Ids, p \in Payloads : Enqueue(i, p))
          => \A t \in Tickets : Holds(t)' => t <= issued'
    BY <1>1, <1>2, HoldsOnlyMoves DEF TicketsIssued
  <2> QED BY <2>1, <2>2
<1>4. ASSUME NEW c \in Callbacks, c.request.ticket <= issued
      PROVE  c.request.ticket <= issued'
  <2>1. c.request.ticket \in Nat
    BY <1>2 DEF Callbacks, Requests
  <2> QED BY <1>1, <1>4, <2>1
<1>5. ASSUME NEW r \in Requests, NEW k \in Kinds, Respond(r, k), r.ticket <= issued'
      PROVE  \A n \in 1 .. Len(callbacks') : callbacks'[n].request.ticket <= issued'
  <2> DEFINE c == [request |-> r, kind |-> k]
  <2>1. callbacks \in Seq(Callbacks) /\ c \in Callbacks
    BY DEF TypeOK, Callbacks
  <2>2. /\ Len(callbacks') = Len(callbacks) + 1 /\ Len(callbacks) \in Nat
        /\ \A n \in 1 .. Len(callbacks) + 1 :
             callbacks'[n] = IF n = Len(callbacks) + 1 THEN c ELSE callbacks[n]
    BY <1>5, <2>1, AppendIndices DEF Respond
  <2>3. \A n \in 1 .. Len(callbacks) : callbacks[n].request.ticket <= issued'
    BY <1>4, <2>1 DEF TicketsIssued
  <2> QED BY <1>5, <2>2, <2>3
<1>6. \A n \in 1 .. Len(callbacks') : callbacks'[n].request.ticket <= issued'
  <2>1. CASE callbacks' = callbacks \/ callbacks' = <<>>
    BY <1>4, <2>1 DEF TicketsIssued, TypeOK
  <2>2. ASSUME NEW i \in Ids, NEW p \in Payloads, Enqueue(i, p),
               Respond(NewRequest(i, p), "error")
        PROVE  \A n \in 1 .. Len(callbacks') : callbacks'[n].request.ticket <= issued'
    <3>1. NewRequest(i, p) \in Requests /\ NewRequest(i, p).ticket <= issued'
      BY <2>2, <1>1, WriteAssumption DEF Enqueue, NewRequest, Requests, Tickets, TypeOK
    <3> QED BY <1>5, <2>2, <3>1 DEF Kinds
  <2>3. CASE EnqueueDecide
    <3>1. entering.request \in Requests /\ entering.request.ticket <= issued'
      BY <1>1, <1>2, <2>3, DecideHolds DEF TicketsIssued, Requests
    <3> QED BY <1>5, <2>1, <2>3, <3>1 DEF EnqueueDecide, Kinds
  <2>4. CASE Examine \/ Commit
    <3>1. worker.job \in Requests /\ Holds(worker.job.ticket)
      BY <2>4, WorkerAnswerHolds
    <3>2. worker.job.ticket \in Tickets
      BY <3>1 DEF Requests
    <3>4. worker.job.ticket \in Nat /\ worker.job.ticket <= issued
      BY <1>2, <3>1, <3>2 DEF TicketsIssued
    <3>3. worker.job.ticket <= issued'
      BY <1>1, <3>4
    <3> QED BY <1>5, <2>1, <2>4, <3>1, <3>3 DEF Examine, Commit, Verdicts, Kinds
  <2>5. CASE RunCallback
    <3>1. callbacks \in Seq(Callbacks) /\ callbacks # <<>>
      BY <2>5 DEF RunCallback, TypeOK
    <3>2. /\ Len(callbacks') = Len(callbacks) - 1 /\ Len(callbacks) \in Nat \ {0}
          /\ \A n \in 1 .. Len(callbacks) - 1 : callbacks'[n] = callbacks[n + 1]
      BY <2>5, <3>1, TailIndices DEF RunCallback
    <3>3. \A n \in 1 .. Len(callbacks) : callbacks[n].request.ticket <= issued'
      BY <1>4, <3>1 DEF TicketsIssued
    <3> QED BY <3>2, <3>3
  <2> QED
    BY <2>1, <2>2, <2>3, <2>4, <2>5
    DEF Next, Application, Worker, Enqueue, SetAccepting, Shutdown,
        ShutdownReturns, Dequeue, CountActive, Finish, Crash, Start, vars, memory
<1>7. \A c \in responses' : c.request.ticket <= issued'
  <2>1. \A c \in responses : c.request.ticket <= issued'
    BY <1>4 DEF TicketsIssued, TypeOK
  <2>2. CASE RunCallback
    <3>1. callbacks \in Seq(Callbacks) /\ callbacks # <<>>
      BY <2>2 DEF RunCallback, TypeOK
    <3>2. Head(callbacks) = callbacks[1] /\ Len(callbacks) \in Nat \ {0}
          /\ callbacks[1] \in Callbacks
      BY <3>1, TailIndices
    <3>3. callbacks[1].request.ticket <= issued'
      BY <1>4, <3>2 DEF TicketsIssued
    <3> QED BY <2>1, <2>2, <3>2, <3>3 DEF RunCallback
  <2> QED
    BY <2>1, <2>2
    DEF Next, Application, Worker, Enqueue, EnqueueDecide, SetAccepting, Shutdown,
        ShutdownReturns, Dequeue, CountActive, Examine, Commit, Finish, Crash, Start,
        vars
<1>8. \A i \in Ids : committedBy'[i] <= issued'
  <2>1. \A i \in Ids : committedBy[i] <= issued'
    <3>1. \A i \in Ids : committedBy[i] \in Nat
      <4>1. \A i \in Ids : committedBy[i] \in Tickets \cup {0}
        BY DEF TypeOK
      <4> QED BY <1>2, <4>1
    <3> QED BY <1>1, <3>1 DEF TicketsIssued
  <2>2. CASE Commit /\ Store(worker.job)
    <3>1. worker.job \in Requests /\ Holds(worker.job.ticket)
      BY <2>2, WorkerAnswerHolds
    <3>2. worker.job.ticket \in Tickets
      BY <3>1 DEF Requests
    <3>4. worker.job.ticket \in Nat /\ worker.job.ticket <= issued
      BY <1>2, <3>1, <3>2 DEF TicketsIssued
    <3>3. worker.job.ticket <= issued'
      BY <1>1, <3>4
    <3> QED BY <2>1, <2>2, <3>1, <3>3 DEF Store, TypeOK, Requests
  <2> QED
    BY <2>1, <2>2
    DEF Next, Application, Worker, Enqueue, EnqueueDecide, RunCallback, SetAccepting,
        Shutdown, ShutdownReturns, Dequeue, CountActive, Examine, Commit, Finish,
        Crash, Start, vars, database
<1> QED BY <1>3, <1>6, <1>7, <1>8 DEF TicketsIssued

-----------------------------------------------------------------------------
(***************************************************************************)
(* At most once.                                                           *)
(***************************************************************************)
LEMMA OnceStep ==
    TypeOK /\ Quiet /\ AtMostOnce /\ HeldIdsKept /\ [Next]_vars
      => AtMostOnce' /\ HeldIdsKept'
<1> SUFFICES ASSUME TypeOK, Quiet, AtMostOnce, HeldIdsKept, [Next]_vars
             PROVE  AtMostOnce' /\ HeldIdsKept'
  OBVIOUS
<1>1. ASSUME NEW i \in Ids, NEW p \in Payloads, Enqueue(i, p)
      PROVE  AtMostOnce' /\ HeldIdsKept'
  BY <1>1 DEF Enqueue, AtEventLoop, NewRequest, database, AtMostOnce, HeldIdsKept, At
<1>2. CASE EnqueueDecide
  <2>1. /\ entering # NotEntering /\ entering' = NotEntering /\ worker' = worker
        /\ UNCHANGED database
        /\ queue' = queue \/ queue' = Append(queue, entering.request)
    BY <1>2 DEF EnqueueDecide
  <2>2. queue \in Seq(Requests) /\ entering.request \in Requests
    BY <2>1 DEF TypeOK, Reserved
  <2>3. \A k \in 1 .. Len(queue') : queue'[k].id \notin retired
    <3>1. CASE queue' = queue
      BY <3>1 DEF HeldIdsKept
    <3>2. CASE queue' = Append(queue, entering.request)
      <4>1. /\ Len(queue') = Len(queue) + 1 /\ Len(queue) \in Nat
            /\ \A k \in 1 .. Len(queue) + 1 :
                 queue'[k] = IF k = Len(queue) + 1 THEN entering.request ELSE queue[k]
        BY <2>2, <3>2, AppendIndices
      <4> QED BY <2>1, <4>1 DEF HeldIdsKept
    <3> QED BY <2>1, <3>1, <3>2
  <2> QED BY <2>1, <2>3 DEF AtMostOnce, HeldIdsKept, At, database
<1>3. CASE Dequeue
  <2>1. queue \in Seq(Requests) /\ queue # <<>>
    BY <1>3 DEF Dequeue, TypeOK
  <2>2. /\ Head(queue) = queue[1] /\ Len(queue) \in Nat \ {0}
        /\ Len(queue') = Len(queue) - 1
        /\ \A k \in 1 .. Len(queue) - 1 : queue'[k] = queue[k + 1]
    BY <1>3, <2>1, TailIndices DEF Dequeue
  <2>3. /\ worker'.job.id \notin retired
        /\ \A k \in 1 .. Len(queue') : queue'[k].id \notin retired
    BY <1>3, <2>2 DEF Dequeue, HeldIdsKept
  <2> QED BY <1>3, <2>3 DEF Dequeue, database, AtMostOnce, HeldIdsKept, At
<1>4. CASE CountActive \/ Examine
  <2>1. worker # Idle /\ UNCHANGED <<queue, entering, database>>
    BY <1>4 DEF CountActive, Examine, At
  <2>2. /\ worker' # Idle /\ worker'.job = worker.job
        /\ worker'.at = "executed" => receipts[worker.job.id] = None
    BY <1>4, <2>1, GotoKeepsJob DEF CountActive, Examine, Verdicts
  <2> QED BY <2>1, <2>2 DEF database, AtMostOnce, HeldIdsKept, At
<1>5. CASE Commit
  <2>1. /\ worker # Idle /\ receipts[worker.job.id] = None
        /\ worker.job.id \notin retired /\ UNCHANGED <<queue, entering>>
    BY <1>5 DEF Commit, At, HeldIdsKept
  <2>2. worker.job \in Requests /\ worker' # Idle
        /\ worker'.job = worker.job /\ worker'.at = "finishing"
    BY <1>5, <2>1, BusyJob, GotoKeepsJob DEF Commit
  <2>3. CASE Store(worker.job)
    <3>1. worker.job.id \in Ids /\ worker.job.payload \in Payloads /\ worker.job.payload # None
      BY <2>2, WriteAssumption DEF Requests
    <3> QED BY <2>1, <2>2, <2>3, <3>1 DEF Store, AtMostOnce, HeldIdsKept, At, TypeOK
  <2>4. CASE UNCHANGED database
    BY <2>1, <2>2, <2>4 DEF database, AtMostOnce, HeldIdsKept, At
  <2> QED BY <1>5, <2>3, <2>4 DEF Commit
<1>6. CASE Start
  BY <1>6 DEF Start, CleanExpiredReceipts, Quiet, AtMostOnce, HeldIdsKept, At, TypeOK
<1>7. CASE Finish \/ Crash
  BY <1>7 DEF Finish, Crash, database, AtMostOnce, HeldIdsKept, At
<1>8. CASE \/ RunCallback \/ SetAccepting \/ Shutdown \/ ShutdownReturns
           \/ UNCHANGED vars
  BY <1>8 DEF RunCallback, SetAccepting, Shutdown, ShutdownReturns, vars, memory,
              database, AtMostOnce, HeldIdsKept, At
<1> QED
  BY <1>1, <1>2, <1>3, <1>4, <1>5, <1>6, <1>7, <1>8
  DEF Next, Application, Worker

-----------------------------------------------------------------------------
(***************************************************************************)
(* Answers are true.                                                       *)
(***************************************************************************)
\* An answer that is true stays true: a receipt is never replaced, only the
\* mutation of the submission at the worker commits, and a start finds no callback.
LEMMA TruthStays ==
    ASSUME TypeOK, Quiet, HeldIdsKept, [Next]_vars, app # "down",
           NEW c \in Callbacks, Ledger!True(c), ~Holds(c.request.ticket)
    PROVE  Ledger!True(c)'
<1>1. c.request.id \in Ids /\ c.request.payload # None /\ c.kind \in Kinds
  BY WriteAssumption DEF Callbacks, Requests
<1>2. CASE UNCHANGED <<receipts, committedBy>>
  BY <1>2 DEF Ledger!True
<1>3. CASE Commit /\ Store(worker.job)
  <2>1. /\ receipts[worker.job.id] = None /\ worker.job \in Requests
        /\ c.request.ticket # worker.job.ticket
    BY <1>3, BusyJob DEF Commit, At, HeldIdsKept, Holds
  <2>2. worker.job.payload # None /\ worker.job.id \in Ids
    BY <2>1, WriteAssumption DEF Requests
  <2>3. CASE c.request.id # worker.job.id
    BY <1>1, <1>3, <2>2, <2>3 DEF Store, TypeOK, Ledger!True
  <2>4. CASE c.request.id = worker.job.id
    <3>1. c.kind = "error"
      BY <1>1, <2>1, <2>4 DEF Ledger!True, Kinds
    <3> QED BY <1>3, <2>1, <2>2, <2>4, <3>1 DEF Store, TypeOK, Ledger!True
  <2> QED BY <2>3, <2>4
<1> QED
  BY <1>2, <1>3
  DEF Next, Application, Worker, Enqueue, EnqueueDecide, RunCallback, SetAccepting,
      Shutdown, ShutdownReturns, Dequeue, CountActive, Examine, Commit, Finish,
      Crash, Start, vars, database

\* A true answer posted behind true answers.
LEMMA PostTrue ==
    ASSUME TypeOK, Quiet, HeldIdsKept, AnsweredApart, CallbacksTrue,
           [Next]_vars, app # "down",
           NEW r \in Requests, NEW k \in Kinds, Respond(r, k),
           \A c \in Callbacks : c.request = r /\ c.kind = k => Ledger!True(c)'
    PROVE  CallbacksTrue'
<1> DEFINE c == [request |-> r, kind |-> k]
<1>1. callbacks \in Seq(Callbacks) /\ c \in Callbacks
  BY DEF TypeOK, Callbacks
<1>2. /\ Len(callbacks') = Len(callbacks) + 1 /\ Len(callbacks) \in Nat
      /\ \A n \in 1 .. Len(callbacks) + 1 :
           callbacks'[n] = IF n = Len(callbacks) + 1 THEN c ELSE callbacks[n]
  BY <1>1, AppendIndices DEF Respond
<1>3. Ledger!True(c)'
  BY <1>1
<1> HIDE DEF c
<1>4. ASSUME NEW n \in 1 .. Len(callbacks'), NEW d, d = callbacks'[n]
      PROVE  Ledger!True(d)'
  <2>1. CASE n = Len(callbacks) + 1
    BY <1>2, <1>3, <1>4, <2>1
  <2>2. CASE n \in 1 .. Len(callbacks)
    <3>1. d = callbacks[n] /\ d \in Callbacks
      BY <1>1, <1>2, <1>4, <2>2
    <3>2. Ledger!True(d) /\ ~Holds(d.request.ticket)
      BY <2>2, <3>1 DEF CallbacksTrue, AnsweredApart
    <3> QED BY <3>1, <3>2, TruthStays
  <2> QED BY <1>2, <2>1, <2>2
<1> QED BY <1>4 DEF CallbacksTrue, Ledger!True

LEMMA CallbacksTrueStep ==
    /\ TypeOK /\ Quiet /\ AtMostOnce /\ HeldIdsKept /\ Places /\ CallbacksTrue
    /\ [Next]_vars
    => CallbacksTrue'
<1> SUFFICES ASSUME TypeOK, Quiet, HeldIdsKept, Places, CallbacksTrue, [Next]_vars
             PROVE  CallbacksTrue'
  OBVIOUS
<1> USE DEF Places
<1>1. "error" \in Kinds /\ "result" \in Kinds
  BY DEF Kinds
<1>2. ASSUME NEW i \in Ids, NEW p \in Payloads, Enqueue(i, p),
             Respond(NewRequest(i, p), "error")
      PROVE  CallbacksTrue'
  <2>1. /\ NewRequest(i, p) \in Requests /\ NewRequest(i, p).ticket = issued + 1
        /\ app # "down" /\ UNCHANGED database
    BY <1>2, WriteAssumption DEF Enqueue, AtEventLoop, NewRequest, Requests, Tickets, TypeOK
  <2>2. \A j \in Ids : committedBy[j] # issued + 1
    BY WriteAssumption DEF TicketsIssued, TypeOK, Tickets
  <2>3. \A c \in Callbacks : c.request = NewRequest(i, p) /\ c.kind = "error"
          => Ledger!True(c)'
    BY <2>1, <2>2 DEF Ledger!True, database, Requests
  <2> HIDE DEF NewRequest
  <2> QED BY <1>1, <1>2, <2>1, <2>3, PostTrue
<1>3. CASE EnqueueDecide /\ Respond(entering.request, "error")
  <2>1. /\ entering.request \in Requests /\ Holds(entering.request.ticket)
        /\ app # "down" /\ UNCHANGED database
    BY <1>3, DecideHolds DEF EnqueueDecide
  <2>2. \A c \in Callbacks : c.request = entering.request /\ c.kind = "error"
          => Ledger!True(c)'
    BY <2>1 DEF Ledger!True, database, Requests, CommittedApart
  <2> QED BY <1>1, <1>3, <2>1, <2>2, PostTrue
<1>4. ASSUME NEW verdict \in Verdicts(worker.job) \ {"execute"},
             Examine, Respond(worker.job, verdict)
      PROVE  CallbacksTrue'
  <2>1. /\ worker.job \in Requests /\ Holds(worker.job.ticket) /\ UNCHANGED database
        /\ app # "down" /\ verdict \in Kinds
    BY <1>4, WorkerAnswerHolds DEF Examine, At, Quiet, Verdicts, Kinds
  <2>2. \A c \in Callbacks : c.request = worker.job /\ c.kind = verdict
          => Ledger!True(c)'
    BY <1>4, <2>1 DEF Verdicts, Ledger!True, database, Requests, CommittedApart
  <2> QED BY <1>4, <2>1, <2>2, PostTrue
<1>5. CASE Commit
  <2>1. /\ worker.job \in Requests /\ Holds(worker.job.ticket)
        /\ app # "down"
    BY <1>5, WorkerAnswerHolds DEF Commit, At, Quiet
  <2>2. CASE Store(worker.job) /\ Respond(worker.job, "result")
    <3>1. \A c \in Callbacks : c.request = worker.job /\ c.kind = "result"
            => Ledger!True(c)'
      BY <2>1, <2>2 DEF Store, Ledger!True, Requests, TypeOK
    <3> QED BY <1>1, <2>1, <2>2, <3>1, PostTrue
  <2>3. CASE UNCHANGED database /\ Respond(worker.job, "error")
    <3>1. \A c \in Callbacks : c.request = worker.job /\ c.kind = "error"
            => Ledger!True(c)'
      BY <2>1, <2>3 DEF database, Ledger!True, Requests, CommittedApart
    <3> QED BY <1>1, <2>1, <2>3, <3>1, PostTrue
  <2> QED BY <1>5, <2>2, <2>3 DEF Commit
<1>6. CASE RunCallback
  <2>1. callbacks \in Seq(Callbacks) /\ callbacks # <<>> /\ UNCHANGED database
    BY <1>6 DEF RunCallback, TypeOK
  <2>2. /\ Len(callbacks') = Len(callbacks) - 1 /\ Len(callbacks) \in Nat \ {0}
        /\ \A n \in 1 .. Len(callbacks) - 1 : callbacks'[n] = callbacks[n + 1]
    BY <1>6, <2>1, TailIndices DEF RunCallback
  <2>3. \A n \in 1 .. Len(callbacks') : Ledger!True(callbacks[n + 1])
    BY <2>2 DEF CallbacksTrue
  <2> QED BY <2>1, <2>2, <2>3 DEF CallbacksTrue, Ledger!True, database
<1>7. CASE callbacks' = <<>>
  BY <1>7 DEF CallbacksTrue
<1>8. CASE UNCHANGED <<callbacks, receipts, committedBy>>
  BY <1>8 DEF CallbacksTrue, Ledger!True
<1>9. CASE Start
  BY <1>9 DEF Start, Quiet, CallbacksTrue
<1> QED
  BY <1>2, <1>3, <1>4, <1>5, <1>6, <1>7, <1>8, <1>9
  DEF Next, Application, Worker, Enqueue, EnqueueDecide, SetAccepting, Shutdown,
      ShutdownReturns, Dequeue, CountActive, Examine, Finish, Crash, vars, memory,
      database

-----------------------------------------------------------------------------
(***************************************************************************)
(* One publication per commit.                                             *)
(***************************************************************************)
LEMMA PublicationStep ==
    TypeOK /\ Quiet /\ AtMostOnce /\ HeldIdsKept /\ CommitsAwaitPublication /\ [Next]_vars
      => CommitsAwaitPublication'
<1> SUFFICES ASSUME TypeOK, Quiet, AtMostOnce, HeldIdsKept, CommitsAwaitPublication,
                    [Next]_vars
             PROVE  CommitsAwaitPublication'
  OBVIOUS
<1>0. \A c \in Callbacks : c.request.id \in Ids
  BY DEF Callbacks, Requests
\* A callback posted without a commit.
<1>1. ASSUME NEW r \in Requests, NEW k \in Kinds \ {"result"}, Respond(r, k),
             UNCHANGED <<executions, published>>
      PROVE  CommitsAwaitPublication'
  <2>1. callbacks \in Seq(Callbacks) /\ [request |-> r, kind |-> k] \in Callbacks
    BY DEF TypeOK, Callbacks
  <2>2. /\ Len(callbacks') = Len(callbacks) + 1 /\ Len(callbacks) \in Nat
        /\ \A n \in 1 .. Len(callbacks) + 1 :
             IF n = Len(callbacks) + 1 THEN callbacks'[n].kind # "result"
                                       ELSE callbacks'[n] = callbacks[n]
    BY <1>1, <2>1, AppendIndices DEF Respond
  <2> QED BY <1>1, <2>2 DEF CommitsAwaitPublication
<1>2. CASE Commit /\ Store(worker.job) /\ Respond(worker.job, "result")
  <2>1. worker.job \in Requests /\ receipts[worker.job.id] = None
        /\ worker.job.id \notin retired
    BY <1>2, BusyJob DEF Commit, At, HeldIdsKept
  <2>2. worker.job.id \in Ids /\ executions[worker.job.id] = 0
    BY <2>1 DEF AtMostOnce, Requests
  <2>3. /\ executions' = [executions EXCEPT ![worker.job.id] = 1]
        /\ published' = published /\ published[worker.job.id] = 0
    BY <1>2, <2>2 DEF Commit, Store, TypeOK, CommitsAwaitPublication
  <2>4. \A n \in 1 .. Len(callbacks) : callbacks[n].kind = "result"
          => callbacks[n].request.id # worker.job.id
    BY <2>2 DEF CommitsAwaitPublication
  <2>5. callbacks \in Seq(Callbacks)
        /\ [request |-> worker.job, kind |-> "result"] \in Callbacks
    BY <2>1 DEF TypeOK, Callbacks, Kinds
  <2>6. /\ Len(callbacks') = Len(callbacks) + 1 /\ Len(callbacks) \in Nat
        /\ \A n \in 1 .. Len(callbacks) + 1 :
             IF n = Len(callbacks) + 1
             THEN callbacks'[n].kind = "result" /\ callbacks'[n].request = worker.job
             ELSE callbacks'[n] = callbacks[n] /\ callbacks[n].request.id \in Ids
    <3>1. \A n \in 1 .. Len(callbacks) : callbacks[n].request.id \in Ids
      BY <1>0, <2>5
    <3> QED BY <1>2, <2>5, <3>1, AppendIndices DEF Respond
  <2>7. executions \in [Ids -> Nat]
    BY DEF TypeOK
  <2> QED BY <2>2, <2>3, <2>4, <2>6, <2>7 DEF CommitsAwaitPublication
<1>3. CASE RunCallback
  <2>1. callbacks \in Seq(Callbacks) /\ callbacks # <<>> /\ executions' = executions
    BY <1>3 DEF RunCallback, TypeOK, database
  <2>2. /\ Head(callbacks) = callbacks[1] /\ Len(callbacks) \in Nat \ {0}
        /\ Len(callbacks') = Len(callbacks) - 1
        /\ \A n \in 1 .. Len(callbacks) - 1 : callbacks'[n] = callbacks[n + 1]
    BY <1>3, <2>1, TailIndices DEF RunCallback
  <2>3. callbacks[1].request.id \in Ids /\ published \in [Ids -> Nat]
    BY <1>0, <2>1, <2>2 DEF TypeOK
  <2>4. CASE callbacks[1].kind # "result"
    <3>1. published' = published
      BY <1>3, <2>2, <2>4 DEF RunCallback, Publishes
    <3> QED BY <2>1, <2>2, <3>1 DEF CommitsAwaitPublication
  <2>5. CASE callbacks[1].kind = "result"
    <3>1. published' = [published EXCEPT ![callbacks[1].request.id] = 1]
      <4>1. published[callbacks[1].request.id] = 0
        BY <2>2, <2>5 DEF CommitsAwaitPublication
      <4>2. published' = [published EXCEPT ![callbacks[1].request.id] =
                            published[callbacks[1].request.id] + 1]
        BY <1>3, <2>2, <2>3, <2>5 DEF RunCallback, Publishes
      <4> QED BY <4>1, <4>2
    <3>2. /\ executions[callbacks[1].request.id] = 1
          /\ \A n \in 2 .. Len(callbacks) : callbacks[n].kind = "result"
               => callbacks[n].request.id # callbacks[1].request.id
      BY <2>2, <2>5 DEF CommitsAwaitPublication
    <3>3. \A i \in Ids :
            published'[i] = IF i = callbacks[1].request.id THEN 1 ELSE published[i]
      BY <2>3, <3>1
    <3>4. \A n \in 1 .. Len(callbacks') :
            /\ n + 1 \in 2 .. Len(callbacks) /\ callbacks'[n] = callbacks[n + 1]
            /\ callbacks[n + 1].request.id \in Ids
      BY <1>0, <2>1, <2>2
    <3>5. \A i \in Ids : /\ executions'[i] = 0 => published'[i] = 0
                         /\ published'[i] \in {0, 1}
      BY <2>1, <3>2, <3>3 DEF CommitsAwaitPublication
    <3>6. \A n \in 1 .. Len(callbacks') : callbacks'[n].kind = "result" =>
            /\ executions'[callbacks'[n].request.id] = 1
            /\ published'[callbacks'[n].request.id] = 0
      BY <2>1, <2>2, <3>2, <3>3, <3>4 DEF CommitsAwaitPublication
    <3>7. \A k, l \in 1 .. Len(callbacks') :
            (callbacks'[k].kind = "result" /\ callbacks'[l].kind = "result" /\ l # k)
              => callbacks'[l].request.id # callbacks'[k].request.id
      BY <2>2, <3>4 DEF CommitsAwaitPublication
    <3> QED BY <3>5, <3>6, <3>7 DEF CommitsAwaitPublication
  <2> QED BY <2>4, <2>5
<1>4. CASE callbacks' = <<>> /\ UNCHANGED <<executions, published>>
  BY <1>4 DEF CommitsAwaitPublication
<1>5. CASE UNCHANGED <<callbacks, executions, published>>
  BY <1>5 DEF CommitsAwaitPublication
<1>6. CASE \E i \in Ids, p \in Payloads : Enqueue(i, p)
  <2>1. PICK i \in Ids, p \in Payloads : Enqueue(i, p)
    BY <1>6
  <2>2. NewRequest(i, p) \in Requests /\ "error" \in Kinds \ {"result"}
    BY <2>1, WriteAssumption DEF Enqueue, NewRequest, Requests, Tickets, TypeOK, Kinds
  <2> HIDE DEF NewRequest
  <2> QED BY <1>1, <1>5, <2>1, <2>2 DEF Enqueue, database
<1>7. CASE EnqueueDecide
  BY <1>1, <1>5, <1>7 DEF EnqueueDecide, TypeOK, Reserved, Kinds, database
<1>8. CASE Examine
  <2>1. worker.job \in Requests
    BY <1>8, BusyJob DEF Examine, At
  <2> QED BY <1>1, <1>5, <1>8, <2>1 DEF Examine, Verdicts, Kinds, database
<1>9. CASE Commit /\ UNCHANGED database /\ Respond(worker.job, "error")
  <2>1. worker.job \in Requests
    BY <1>9, BusyJob DEF Commit, At
  <2> QED BY <1>1, <1>9, <2>1 DEF Commit, Kinds, database
<1> QED
  BY <1>2, <1>3, <1>4, <1>5, <1>6, <1>7, <1>8, <1>9
  DEF Next, Application, Worker, SetAccepting, Shutdown, ShutdownReturns, Dequeue,
      CountActive, Commit, Finish, Crash, Start, vars, memory, database

-----------------------------------------------------------------------------
(***************************************************************************)
(* The invariant and what follows from it.                                 *)
(***************************************************************************)
LEMMA InductiveInit == Init => Inductive /\ CommitsAwaitPublication
<1> SUFFICES ASSUME Init PROVE Inductive /\ CommitsAwaitPublication
  OBVIOUS
<1> USE DEF Init
<1>1. TypeOK
  BY WriteAssumption DEF TypeOK
<1>2. Quiet /\ CountersExact /\ Capacity
  BY WriteAssumption DEF Quiet, CountersExact, Reservation, WorkerCounted, Capacity
<1>3. AtMostOnce /\ HeldIdsKept
  BY DEF AtMostOnce, HeldIdsKept, At
<1>4. HeldApart /\ AnsweredApart /\ CommittedApart /\ TicketsIssued /\ CallbacksTrue
  <2>1. \A t : ~Holds(t)
    BY DEF Holds
  <2> QED BY <2>1 DEF HeldApart, AnsweredApart, CommittedApart, TicketsIssued,
                      CallbacksTrue
<1>5. CommitsAwaitPublication
  BY DEF CommitsAwaitPublication
<1> QED BY <1>1, <1>2, <1>3, <1>4, <1>5 DEF Inductive, Places

LEMMA InductiveStep ==
    Inductive /\ CommitsAwaitPublication /\ [Next]_vars
      => Inductive' /\ CommitsAwaitPublication'
BY TypeStep, QuietStep, CountsStep, CapacityStep, OnceStep, HeldApartStep,
   AnsweredApartStep, CommittedApartStep, TicketsIssuedStep, CallbacksTrueStep,
   PublicationStep DEF Inductive, Places

LEMMA InductiveInvariant == Spec => [](Inductive /\ CommitsAwaitPublication)
BY InductiveInit, InductiveStep, PTL DEF Spec

\* Type correctness, for any IDs, payloads, queue length and number of crashes.
THEOREM TypeCorrect == Spec => []TypeOK
<1>1. Inductive => TypeOK
  BY DEF Inductive
<1> QED BY InductiveInvariant, <1>1, PTL

\* The two atomic counters are exact whenever the worker is not between its
\* decrement and its increment, and no more mutations wait than the maximum.
THEOREM QueueBounded == Spec => []QueueIsBounded
<1>1. Inductive => QueueIsBounded
  BY WriteAssumption DEF Inductive, Capacity, QueueIsBounded
<1> QED BY InductiveInvariant, <1>1, PTL

\* Whatever is retried, replayed, refused or interrupted, a mutation ID takes
\* effect at most once and its receipt tells whether it did.
THEOREM EffectAtMostOnce == Spec => []AtMostOnce
<1>1. Inductive => AtMostOnce
  BY DEF Inductive
<1> QED BY InductiveInvariant, <1>1, PTL

\* No commit is announced twice, and nothing is announced that did not commit.
THEOREM PublishedAtMostOnce == Spec => []InvalidatedAtMostOnce
<1>1. Inductive /\ CommitsAwaitPublication => InvalidatedAtMostOnce
  <2> SUFFICES ASSUME Inductive, CommitsAwaitPublication, NEW i \in Ids
               PROVE  published[i] <= executions[i]
    BY DEF InvalidatedAtMostOnce
  <2>1. executions[i] = 0 \/ executions[i] = 1
    BY DEF Inductive, AtMostOnce
  <2>2. published[i] = 0 \/ published[i] = 1
    BY DEF CommitsAwaitPublication
  <2>3. executions[i] = 0 => published[i] = 0
    BY DEF CommitsAwaitPublication
  <2> QED BY <2>1, <2>2, <2>3
<1> QED BY InductiveInvariant, <1>1, PTL

\* A step of the executor commits, answers, forgets old receipts, or does
\* nothing that the ledger sees.
LEMMA LedgerStep == Inductive /\ [Next]_vars => [Ledger!Next]_(Ledger!vars)
<1> SUFFICES ASSUME Inductive, [Next]_vars PROVE [Ledger!Next]_(Ledger!vars)
  OBVIOUS
<1>1. CASE Commit /\ Store(worker.job)
  <2>1. /\ worker.job \in Requests /\ Holds(worker.job.ticket)
        /\ receipts[worker.job.id] = None /\ worker.job.id \notin retired
    BY <1>1, WorkerAnswerHolds DEF Inductive, Places, HeldIdsKept, Commit, At
  <2>2. \A a \in responses : a.request.ticket # worker.job.ticket
    BY <2>1 DEF Inductive, Places, AnsweredApart
  <2>3. Ledger!Apply(worker.job)
    BY <1>1, <2>1, <2>2 DEF Commit, Store, Ledger!Apply
  <2>4. worker.job \in Ledger!Submissions
    BY <2>1 DEF Requests, Ledger!Submissions
  <2> QED BY <2>3, <2>4 DEF Ledger!Next
<1>2. CASE RunCallback
  <2>1. callbacks \in Seq(Callbacks) /\ callbacks # <<>>
    BY <1>2 DEF RunCallback, Inductive, TypeOK
  <2>2. /\ Head(callbacks) = callbacks[1] /\ callbacks[1] \in Callbacks
        /\ 1 \in 1 .. Len(callbacks)
    BY <2>1, TailIndices
  <2>3. /\ Ledger!True(callbacks[1])
        /\ \A b \in responses : b.request.ticket # callbacks[1].request.ticket
    BY <2>2 DEF Inductive, Places, CallbacksTrue, AnsweredApart
  <2>4. Ledger!Answer(callbacks[1])
    BY <1>2, <2>2, <2>3 DEF RunCallback, database, Ledger!Answer
  <2>5. callbacks[1] \in Ledger!Answers
    BY <2>2 DEF Callbacks, Requests, Kinds, Ledger!Answers, Ledger!Submissions
  <2> QED BY <2>4, <2>5 DEF Ledger!Next
<1>3. CASE Start
  <2>1. PICK old \in SUBSET {i \in Ids : receipts[i] # None} :
          /\ receipts' = [i \in Ids |-> IF i \in old THEN None ELSE receipts[i]]
          /\ retired' = retired \cup old
    BY <1>3 DEF Start, CleanExpiredReceipts
  <2>2. Ledger!Forget(old)
    BY <1>3, <2>1 DEF Start, Ledger!Forget
  <2> QED BY <2>1, <2>2 DEF Ledger!Next
<1>4. CASE UNCHANGED <<receipts, committedBy, responses, retired>>
  BY <1>4 DEF Ledger!vars
<1> QED
  BY <1>1, <1>2, <1>3, <1>4
  DEF Next, Application, Worker, Enqueue, EnqueueDecide, SetAccepting, Shutdown,
      ShutdownReturns, Dequeue, CountActive, Examine, Commit, Finish, Crash, vars,
      database

\* The executor implements the ledger: one effect per ID and only true answers.
THEOREM ImplementsLedger == Spec => AnswersAreTrue
<1>1. Init => Ledger!Init
  BY DEF Init, Ledger!Init
<1> QED BY <1>1, InductiveInvariant, LedgerStep, PTL DEF Spec, AnswersAreTrue, Ledger!Spec
=============================================================================
