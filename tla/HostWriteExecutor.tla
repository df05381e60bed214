-------------------------- MODULE HostWriteExecutor -------------------------
(***************************************************************************)
(* HostWriteExecutor: the Host's one writer.  The application thread       *)
(* enqueues remote mutations, a worker thread runs them one by one in      *)
(* SQLite transactions that also store a durable receipt per mutation ID,  *)
(* and answers go back as queued callbacks on the application thread.      *)
(*                                                                         *)
(* Two threads share the atomic counters queued and active; every access   *)
(* to them is a step.  The database work of one job is invisible until its *)
(* commit, so examining the request and committing it are one step each.   *)
(***************************************************************************)
EXTENDS Naturals, Sequences

CONSTANTS
    Ids,                     \* mutation IDs
    Payloads,                \* canonical hashes of operation and payload
    None,
    MaximumQueuedMutations,
    MaxTickets,              \* bound: requests that reach the executor
    MaxStops                 \* bound: process deaths and shutdowns

ASSUME WriteAssumption ==
    /\ None \notin Payloads
    /\ MaximumQueuedMutations \in Nat \ {0}
    /\ MaxTickets \in Nat
    /\ MaxStops \in Nat

VARIABLES
    app,          \* application thread: running, inside shutdown(), or gone
    accepting,    \* m_accepting
    queue,        \* the worker's event queue
    queued,       \* m_queued
    active,       \* m_active
    entering,     \* the enqueue() call the application thread is inside of
    worker,       \* the job the worker is at and how far it is
    callbacks,    \* queued callbacks of the application thread
    receipts,     \* remote_mutation_receipt: the payload stored for an ID
    retired,      \* history: IDs whose receipt was older than 90 days
    executions,   \* history: times the mutation of an ID was committed
    committedBy,  \* history: the ticket whose job committed an ID
    published,    \* history: invalidations published for an ID
    responses,    \* history: callbacks that ran
    issued,       \* history: tickets given to requests
    stops         \* history: process deaths and shutdowns

memory == <<accepting, queue, queued, active, entering, worker, callbacks>>
database == <<receipts, retired, executions, committedBy>>
vars == <<app, memory, database, published, responses, issued, stops>>

Tickets == 1 .. MaxTickets
Requests == [ticket : Tickets, id : Ids, payload : Payloads]
Kinds == {"result", "replayed", "conflict", "error"}
Callbacks == [request : Requests, kind : Kinds]
Idle == [at |-> "idle"]
NotEntering == [at |-> "outside"]
Busy == [at : {"dequeued", "counted", "executed", "finishing"}, job : Requests]
Reserved == [at : {"reserved"}, request : Requests, before : Nat]

TypeOK ==
    /\ app \in {"running", "stopping", "down"}
    /\ accepting \in BOOLEAN
    /\ queue \in Seq(Requests)
    /\ queued \in Nat
    /\ active \in 0 .. 1
    /\ entering \in Reserved \cup {NotEntering}
    /\ worker \in Busy \cup {Idle}
    /\ callbacks \in Seq(Callbacks)
    /\ receipts \in [Ids -> Payloads \cup {None}]
    /\ retired \subseteq Ids
    /\ executions \in [Ids -> Nat]
    /\ committedBy \in [Ids -> Tickets \cup {0}]
    /\ published \in [Ids -> Nat]
    /\ responses \subseteq Callbacks
    /\ issued \in 0 .. MaxTickets
    /\ stops \in 0 .. MaxStops

Init ==
    /\ app = "running"
    /\ accepting = TRUE
    /\ queue = <<>> /\ queued = 0 /\ active = 0
    /\ entering = NotEntering /\ worker = Idle /\ callbacks = <<>>
    /\ receipts = [i \in Ids |-> None]
    /\ retired = {}
    /\ executions = [i \in Ids |-> 0]
    /\ committedBy = [i \in Ids |-> 0]
    /\ published = [i \in Ids |-> 0]
    /\ responses = {}
    /\ issued = 0
    /\ stops = 0

-----------------------------------------------------------------------------
(***************************************************************************)
(* The application thread.  It runs one handler at a time; only enqueue()  *)
(* is split, where the worker can move between its two counter accesses.   *)
(***************************************************************************)
AtEventLoop == app = "running" /\ entering = NotEntering

Respond(request, kind) ==
    callbacks' = Append(callbacks, [request |-> request, kind |-> kind])

NewRequest(i, p) == [ticket |-> issued + 1, id |-> i, payload |-> p]

\* enqueue(): refused when stopped, else the place is reserved first.
\* Assumption: no client retries an ID after the 90 days its receipt is kept.
Enqueue(i, p) ==
    /\ AtEventLoop
    /\ issued < MaxTickets
    /\ i \notin retired
    /\ issued' = issued + 1
    /\ \/ /\ ~accepting
          /\ Respond(NewRequest(i, p), "error")
          /\ UNCHANGED <<queued, entering>>
       \/ /\ accepting
          /\ queued' = queued + 1
          /\ entering' = [at |-> "reserved", request |-> NewRequest(i, p),
                          before |-> queued]
          /\ UNCHANGED callbacks
    /\ UNCHANGED <<app, accepting, queue, active, worker, database, published,
                   responses, stops>>

\* Mutant: one place too many.
FullOffByOne(before) == before + active > MaximumQueuedMutations

Full(before) == before + active >= MaximumQueuedMutations

EnqueueDecide ==
    /\ app = "running"
    /\ entering # NotEntering
    /\ entering' = NotEntering
    /\ \/ /\ Full(entering.before)
          /\ queued' = queued - 1
          /\ Respond(entering.request, "error")
          /\ UNCHANGED queue
       \/ /\ ~Full(entering.before)
          /\ queue' = Append(queue, entering.request)
          /\ UNCHANGED <<queued, callbacks>>
    /\ UNCHANGED <<app, accepting, active, worker, database, published,
                   responses, issued, stops>>

\* Mutant: a replay is published again.
PublishesReplays(kind) == kind \in {"result", "replayed"}

\* Which answers are followed by an invalidation of the other clients.
Publishes(kind) == kind = "result"

\* A queued callback: the response first, then the invalidation.
RunCallback ==
    /\ AtEventLoop
    /\ callbacks # <<>>
    /\ LET c == Head(callbacks) IN
         /\ responses' = responses \cup {c}
         /\ published' = IF Publishes(c.kind)
                         THEN [published EXCEPT ![c.request.id] = @ + 1]
                         ELSE published
    /\ callbacks' = Tail(callbacks)
    /\ UNCHANGED <<app, accepting, queue, queued, active, entering, worker,
                   database, issued, stops>>

\* stopAccepting() and startAccepting(), called by the maintenance coordinator.
SetAccepting ==
    /\ AtEventLoop
    /\ accepting' = ~accepting
    /\ UNCHANGED <<app, queue, queued, active, entering, worker, callbacks,
                   database, published, responses, issued, stops>>

\* shutdown(): the thread posts close() behind the admitted jobs and blocks.
Shutdown ==
    /\ AtEventLoop
    /\ stops < MaxStops
    /\ app' = "stopping"
    /\ accepting' = FALSE
    /\ stops' = stops + 1
    /\ UNCHANGED <<queue, queued, active, entering, worker, callbacks,
                   database, published, responses, issued>>

\* close() ran and the thread ended: the queued callbacks die with their object.
ShutdownReturns ==
    /\ app = "stopping"
    /\ queue = <<>> /\ worker = Idle
    /\ app' = "down"
    /\ callbacks' = <<>>
    /\ UNCHANGED <<accepting, queue, queued, active, entering, worker, database,
                   published, responses, issued, stops>>

-----------------------------------------------------------------------------
(***************************************************************************)
(* The worker thread: execute().                                           *)
(***************************************************************************)
At(where) == worker # Idle /\ worker.at = where
Goto(where) == worker' = [worker EXCEPT !.at = where]

Dequeue ==
    /\ app # "down"
    /\ worker = Idle
    /\ queue # <<>>
    /\ worker' = [at |-> "dequeued", job |-> Head(queue)]
    /\ queue' = Tail(queue)
    /\ queued' = queued - 1
    /\ UNCHANGED <<app, accepting, active, entering, callbacks, database,
                   published, responses, issued, stops>>

CountActive ==
    /\ At("dequeued")
    /\ Goto("counted")
    /\ active' = active + 1
    /\ UNCHANGED <<app, accepting, queue, queued, entering, callbacks, database,
                   published, responses, issued, stops>>

\* Mutant: a replay does not compare the payload.
VerdictsIgnoringPayload(job) ==
    {"error"} \cup (IF receipts[job.id] = None THEN {"execute"} ELSE {"replayed"})

\* The outcomes of the transaction before its commit.  A busy database, a
\* failing lookup, a missing workspace and a refusal by the mutation are errors.
Verdicts(job) ==
    {"error"} \cup
    (IF receipts[job.id] = None THEN {"execute"}
     ELSE IF receipts[job.id] = job.payload THEN {"replayed"}
     ELSE {"conflict"})

\* Mutant: a path that returns without calling back.
ExamineForgetsCallback ==
    /\ At("counted")
    /\ \E verdict \in Verdicts(worker.job) :
         \/ /\ verdict = "execute"
            /\ Goto("executed")
         \/ /\ verdict # "execute"
            /\ Goto("finishing")
    /\ UNCHANGED <<app, accepting, queue, queued, active, entering, callbacks,
                   database, published, responses, issued, stops>>

Examine ==
    /\ At("counted")
    /\ \E verdict \in Verdicts(worker.job) :
         \/ /\ verdict = "execute"
            /\ Goto("executed")
            /\ UNCHANGED callbacks
         \/ /\ verdict # "execute"
            /\ Respond(worker.job, verdict)
            /\ Goto("finishing")
    /\ UNCHANGED <<app, accepting, queue, queued, active, entering, database,
                   published, responses, issued, stops>>

\* Mutant: no receipt is stored.
StoreWithoutReceipt(job) ==
    /\ executions' = [executions EXCEPT ![job.id] = @ + 1]
    /\ committedBy' = [committedBy EXCEPT ![job.id] = job.ticket]
    /\ UNCHANGED <<receipts, retired>>

\* The receipt and the mutation commit together or not at all.
Store(job) ==
    /\ receipts' = [receipts EXCEPT ![job.id] = job.payload]
    /\ executions' = [executions EXCEPT ![job.id] = @ + 1]
    /\ committedBy' = [committedBy EXCEPT ![job.id] = job.ticket]
    /\ UNCHANGED retired

Commit ==
    /\ At("executed")
    /\ \/ /\ Store(worker.job)
          /\ Respond(worker.job, "result")
       \/ /\ Respond(worker.job, "error")
          /\ UNCHANGED database
    /\ Goto("finishing")
    /\ UNCHANGED <<app, accepting, queue, queued, active, entering, published,
                   responses, issued, stops>>

\* Mutant: the worker waits for the application thread.
FinishBlocking ==
    /\ At("finishing")
    /\ AtEventLoop
    /\ worker' = Idle
    /\ active' = active - 1
    /\ UNCHANGED <<app, accepting, queue, queued, entering, callbacks, database,
                   published, responses, issued, stops>>

\* ~CountGuard
Finish ==
    /\ At("finishing")
    /\ worker' = Idle
    /\ active' = active - 1
    /\ UNCHANGED <<app, accepting, queue, queued, entering, callbacks, database,
                   published, responses, issued, stops>>

-----------------------------------------------------------------------------
(***************************************************************************)
(* The process: it may die between any two steps.  The next one starts     *)
(* with the database only, and drops the receipts older than 90 days.      *)
(***************************************************************************)
Crash ==
    /\ app # "down"
    /\ stops < MaxStops
    /\ stops' = stops + 1
    /\ app' = "down"
    /\ queue' = <<>> /\ callbacks' = <<>>
    /\ entering' = NotEntering /\ worker' = Idle
    /\ UNCHANGED <<accepting, queued, active, database, published, responses,
                   issued>>

CleanExpiredReceipts ==
    \E old \in SUBSET {i \in Ids : receipts[i] # None} :
        /\ receipts' = [i \in Ids |-> IF i \in old THEN None ELSE receipts[i]]
        /\ retired' = retired \cup old

Start ==
    /\ app = "down"
    /\ app' = "running"
    /\ accepting' = TRUE
    /\ queued' = 0 /\ active' = 0
    /\ CleanExpiredReceipts
    /\ UNCHANGED <<queue, entering, worker, callbacks, executions, committedBy,
                   published, responses, issued, stops>>

Application ==
    \/ \E i \in Ids, p \in Payloads : Enqueue(i, p)
    \/ EnqueueDecide
    \/ RunCallback
    \/ SetAccepting
    \/ Shutdown
    \/ ShutdownReturns

Worker == Dequeue \/ CountActive \/ Examine \/ Commit \/ Finish

Next == Application \/ Worker \/ Crash \/ Start

Spec == Init /\ [][Next]_vars

\* Both event loops run: the operating system schedules the two threads, and
\* SQLite gives up a lock after its 5 s busy timeout.
Fairness ==
    /\ WF_vars(Worker)
    /\ WF_vars(EnqueueDecide \/ RunCallback \/ ShutdownReturns)

FairSpec == Spec /\ Fairness

-----------------------------------------------------------------------------
(***************************************************************************)
(* Properties.                                                             *)
(***************************************************************************)
WorkerCounted == worker # Idle /\ worker.at # "dequeued"
Reservation == IF entering = NotEntering THEN 0 ELSE 1

\* However the two threads interleave, the counters never drift from what they
\* count, except for the job between --m_queued and ++m_active.
CountersExact ==
    app # "down" =>
        /\ queued = Len(queue) + Reservation
        /\ active = IF WorkerCounted THEN 1 ELSE 0

\* However the worker interleaves with enqueue(), the two atomic counters tell the
\* truth outside the one gap of the worker, and so the limit that is decided on
\* them never lets more than the maximum wait in the queue.
QueueIsBounded == CountersExact /\ Len(queue) <= MaximumQueuedMutations

\* What docs/BRICKSUITE_PROTOCOL_1_2.md:172 says, "At most 16 accepted/executing
\* mutations are held".  The executor by itself holds one more: the one that is
\* in the worker's gap is in neither counter when the next one is decided.
HeldBound ==
    Len(queue) + (IF worker = Idle THEN 0 ELSE 1) <= MaximumQueuedMutations

\* A mutation ID takes effect at most once, whatever is retried, replayed,
\* crashed or refused in between, and its receipt tells whether it did.
AtMostOnce ==
    \A i \in Ids :
        executions[i] = IF receipts[i] = None /\ i \notin retired THEN 0 ELSE 1

\* Other clients hear of every commit at most once, and of nothing else: a
\* replayed answer publishes no second invalidation.
InvalidatedAtMostOnce == \A i \in Ids : published[i] <= executions[i]

\* What the executor promises: every answer is true of its own submission, an
\* answered submission never takes effect later, and no ID takes effect twice.
Ledger == INSTANCE MutationLedger WITH
    ledger <- receipts, appliedBy <- committedBy, answers <- responses,
    forgotten <- retired
AnswersAreTrue == Ledger!Spec

Answered(t) == \E c \in responses : c.request.ticket = t

InFlight(t) ==
    \/ entering # NotEntering /\ entering.request.ticket = t
    \/ \E k \in DOMAIN queue : queue[k].ticket = t
    \/ worker # Idle /\ worker.job.ticket = t
    \/ \E k \in DOMAIN callbacks : callbacks[k].request.ticket = t

\* A submission that reached the executor is answered, unless the process
\* dies or shuts down.
SubmissionsAreAnswered ==
    \A t \in Tickets : InFlight(t) ~> (Answered(t) \/ app = "down")

\* shutdown() blocks the application thread on the worker; the worker never
\* waits for the application thread, so shutdown() returns.
ShutdownTerminates == (app = "stopping") ~> (app = "down")
=============================================================================
