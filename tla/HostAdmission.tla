---------------------------- MODULE HostAdmission --------------------------
(***************************************************************************)
(* HostRequestAdmissionController: every operational request of a client   *)
(* holds a lease from its admission until the last copy of its completion  *)
(* is gone.  The copies live in the worker's job and in the answer that is *)
(* posted to the application thread, so either thread may drop the last.   *)
(*                                                                         *)
(* Handlers of the application thread are one step each.  ~Lease has no    *)
(* lock, so on a worker thread it may be overlapped: it reads the counters *)
(* in one step and writes them in another.  MaxOverlaps bounds how often   *)
(* that happens; with 0 the model is the accounting without the race.      *)
(***************************************************************************)
EXTENDS Integers, FiniteSets

CONSTANTS
    Owners,             \* paired devices and legacy sessions
    Sessions,
    Ids,                \* request IDs that a client chooses
    OwnerOf,            \* HostRequestContext::fairnessOwner of a session
    MaximumOwner,       \* MaximumOwnerReads, MaximumOwnerWrites
    MaximumGlobal,      \* MaximumGlobalReads, MaximumGlobalWrites, and the
                        \* equal queue limits of the two executors
    MaxOverlaps

Kinds == {"read", "write"}
Requests == Sessions \X Ids
Accounts == Owners \X Kinds

ASSUME AdmissionAssumption ==
    /\ IsFiniteSet(Sessions) /\ IsFiniteSet(Ids)
    /\ OwnerOf \in [Sessions -> Owners]
    /\ MaximumOwner \in [Kinds -> Nat \ {0}]
    /\ MaximumGlobal \in [Kinds -> Nat \ {0}]
    /\ MaxOverlaps \in Nat

VARIABLES
    counts,         \* OwnerCounts::reads and writes, 0 for an absent owner
    tracked,        \* keys of State::owners
    global,         \* globalReads and globalWrites
    inFlight,       \* State::inFlightRequests
    sessions,       \* connected sessions
    kind,           \* WorkKind of the lease of a request
    job,            \* where the worker's copies of the completion are
    answers,        \* requests whose answer waits on the application thread
    read,           \* what a worker inside an overlapped ~Lease has read
    overlaps        \* how many releases were overlapped

accounting == <<counts, tracked, global, inFlight>>
race == <<read, overlaps>>
vars == <<accounting, sessions, kind, job, answers, race>>

Nothing == [inside |-> FALSE, count |-> 0, total |-> 0]

\* Only a lost update can make a counter negative.
TypeOK ==
    /\ counts \in [Accounts -> Int] /\ global \in [Kinds -> Int]
    /\ overlaps = 0 => counts \in [Accounts -> Nat] /\ global \in [Kinds -> Nat]
    /\ tracked \subseteq Owners
    /\ inFlight \subseteq Requests
    /\ sessions \subseteq Sessions
    /\ kind \in [Requests -> Kinds]
    /\ job \in [Requests -> {"none", "queued", "running", "posted", "ending"}]
    /\ answers \subseteq Requests
    /\ read \in [Kinds -> [inside : BOOLEAN, count : Int, total : Int]]
    /\ overlaps \in 0 .. MaxOverlaps

Init ==
    /\ counts = [a \in Accounts |-> 0]
    /\ tracked = {}
    /\ global = [k \in Kinds |-> 0]
    /\ inFlight = {}
    /\ sessions = Sessions
    /\ kind \in [Requests -> {"read"}]
    /\ job = [r \in Requests |-> "none"]
    /\ answers = {}
    /\ read = [k \in Kinds |-> Nothing]
    /\ overlaps = 0

OwnerOfRequest(r) == OwnerOf[r[1]]
Account(r) == <<OwnerOfRequest(r), kind[r]>>
Live(r) == job[r] # "none" \/ r \in answers
Leases(o, k) == {r \in Requests : Live(r) /\ OwnerOfRequest(r) = o /\ kind[r] = k}
GlobalLeases(k) == {r \in Requests : Live(r) /\ kind[r] = k}
Busy(k) == {r \in Requests : kind[r] = k /\ job[r] \in {"queued", "running", "posted"}}

Idle(o, c) == \A k \in Kinds : c[<<o, k>>] = 0
Forget(o, c) == IF Idle(o, c) THEN tracked \ {o} ELSE tracked

-----------------------------------------------------------------------------
(***************************************************************************)
(* Admission, on the application thread.                                   *)
(***************************************************************************)
\* Mutant: the sum over the sessions of a device is not what is compared.
OverOwnerLimitOffByOne(o, k) == counts[<<o, k>>] > MaximumOwner[k]
OverOwnerLimit(o, k) == counts[<<o, k>>] >= MaximumOwner[k]

OverGlobalLimit(k) == global[k] >= MaximumGlobal[k]

Duplicate(r) == r \in inFlight

Accept(r, k) ==
    LET o == OwnerOfRequest(r) IN
    /\ counts' = [counts EXCEPT ![<<o, k>>] = @ + 1]
    /\ tracked' = tracked \cup {o}
    /\ global' = [global EXCEPT ![k] = @ + 1]
    /\ inFlight' = inFlight \cup {r}
    /\ kind' = [kind EXCEPT ![r] = k]
    /\ job' = [job EXCEPT ![r] = "queued"]
    /\ UNCHANGED <<sessions, answers, race>>

\* admit(); the limit of the executor is never met, see RoomForAdmitted.
Admit(r, k) ==
    /\ r[1] \in sessions
    /\ ~Duplicate(r)
    /\ ~OverOwnerLimit(OwnerOfRequest(r), k)
    /\ ~OverGlobalLimit(k)
    /\ Accept(r, k)

\* Mutant: an owner that is refused at global capacity stays in the map.
RefuseAndTrack(o, k) ==
    /\ ~OverOwnerLimit(o, k)
    /\ OverGlobalLimit(k)
    /\ tracked' = tracked \cup {o}
    /\ UNCHANGED <<counts, global, inFlight, sessions, kind, job, answers, race>>

\* owners[owner] creates the entry before the global limit is known.
Refuse(o, k) ==
    /\ ~OverOwnerLimit(o, k)
    /\ OverGlobalLimit(k)
    /\ tracked' = IF Idle(o, counts) THEN tracked \ {o} ELSE tracked \cup {o}
    /\ UNCHANGED <<counts, global, inFlight, sessions, kind, job, answers, race>>

-----------------------------------------------------------------------------
(***************************************************************************)
(* ~Lease.  total is 0 for a member of the map that is gone.               *)
(***************************************************************************)
\* The leases of the requests rs, of one owner and kind, end on this thread.
Release(rs, o, k, count, total) ==
    /\ counts' = [counts EXCEPT ![<<o, k>>] = count]
    /\ global' = [global EXCEPT ![k] = total]
    /\ tracked' = Forget(o, counts')
    /\ inFlight' = inFlight \ rs

ReleaseNow(r) ==
    IF OwnerOfRequest(r) \in tracked
    THEN Release({r}, OwnerOfRequest(r), kind[r], counts[Account(r)] - 1,
                 global[kind[r]] - 1)
    ELSE inFlight' = inFlight \ {r} /\ UNCHANGED <<counts, tracked, global>>

\* Mutant: the answer gives back the place although the job still runs.
AnswerReleasing(r) ==
    /\ r \in answers
    /\ answers' = answers \ {r}
    /\ ReleaseNow(r)
    /\ UNCHANGED <<sessions, kind, job, race>>

\* The completion drops its copy before the response is sent.
Answer(r) ==
    /\ r \in answers
    /\ answers' = answers \ {r}
    /\ IF job[r] = "none" THEN ReleaseNow(r) ELSE UNCHANGED accounting
    /\ UNCHANGED <<sessions, kind, job, race>>

QueuedReads(s) ==
    {r \in Requests : r[1] = s /\ kind[r] = "read" /\ job[r] = "queued"}

Cancelled(s, rs) ==
    LET n == Cardinality(rs)
        o == OwnerOf[s]
    IN
    IF n > 0 /\ o \in tracked
    THEN Release(rs, o, "read", counts[<<o, "read">>] - n, global["read"] - n)
    ELSE inFlight' = inFlight \ rs /\ UNCHANGED <<counts, tracked, global>>

Drop(s) ==
    /\ s \in sessions
    /\ sessions' = sessions \ {s}
    /\ job' = [r \in Requests |->
                   IF r \in QueuedReads(s) THEN "none" ELSE job[r]]
    /\ UNCHANGED <<kind, answers, race>>

\* Mutant: the cancelled reads keep their completions, hence their leases.
SessionLostKeeping(s) ==
    /\ Drop(s)
    /\ UNCHANGED accounting

\* closeSession: the queued reads of the session are cancelled one by one,
\* each with the last copies of its completion.
SessionLost(s) ==
    /\ Drop(s)
    /\ Cancelled(s, QueuedReads(s))

-----------------------------------------------------------------------------
(***************************************************************************)
(* The two worker threads.                                                 *)
(***************************************************************************)
Begin(r) ==
    /\ job[r] = "queued"
    /\ \A q \in Requests :
           kind[q] = kind[r] => job[q] \in {"none", "queued"}
    /\ job' = [job EXCEPT ![r] = "running"]
    /\ UNCHANGED <<accounting, sessions, kind, answers, race>>

Post(r) ==
    /\ job[r] = "running"
    /\ job' = [job EXCEPT ![r] = "posted"]
    /\ answers' = answers \cup {r}
    /\ UNCHANGED <<accounting, sessions, kind, race>>

\* --m_active gives the place in the executor back, after the answer.
GiveBack(r) ==
    /\ job[r] = "posted"
    /\ job' = [job EXCEPT ![r] = "ending"]
    /\ UNCHANGED <<accounting, sessions, kind, answers, race>>

\* The worker's event loop destroys the job, with its copies.
Destroy(r) ==
    /\ job[r] = "ending"
    /\ ~read[kind[r]].inside
    /\ job' = [job EXCEPT ![r] = "none"]
    /\ IF r \in answers THEN UNCHANGED accounting ELSE ReleaseNow(r)
    /\ UNCHANGED <<sessions, kind, answers, race>>

\* ~Lease on a worker that a handler of the application thread overlaps.
BeginRelease(r) ==
    /\ job[r] = "ending"
    /\ ~read[kind[r]].inside
    /\ r \notin answers
    /\ OwnerOfRequest(r) \in tracked
    /\ overlaps < MaxOverlaps
    /\ overlaps' = overlaps + 1
    /\ read' = [read EXCEPT ![kind[r]] =
                    [inside |-> TRUE, count |-> counts[Account(r)],
                     total |-> global[kind[r]]]]
    /\ UNCHANGED <<accounting, sessions, kind, job, answers>>

\* It writes what it has computed.
EndRelease(r) ==
    LET k == kind[r] IN
    /\ job[r] = "ending"
    /\ read[k].inside
    /\ job' = [job EXCEPT ![r] = "none"]
    /\ read' = [read EXCEPT ![k] = Nothing]
    /\ Release({r}, OwnerOfRequest(r), k, read[k].count - 1, read[k].total - 1)
    /\ UNCHANGED <<sessions, kind, answers, overlaps>>

-----------------------------------------------------------------------------
Worker(r) ==
    \/ Begin(r) \/ Post(r) \/ GiveBack(r) \/ Destroy(r)
    \/ BeginRelease(r) \/ EndRelease(r)

Next ==
    \/ \E r \in Requests, k \in Kinds : Admit(r, k)
    \/ \E s \in sessions, k \in Kinds : Refuse(OwnerOf[s], k)
    \/ \E s \in Sessions : SessionLost(s)
    \/ \E r \in Requests : Answer(r) \/ Worker(r)

Spec == Init /\ [][Next]_vars

\* Both workers and the application's event loop run and jobs end.  The queue
\* of a worker is served in order: no job is overtaken for ever.
FairSpec ==
    /\ Spec
    /\ \A r \in Requests : WF_vars(Answer(r)) /\ SF_vars(Worker(r))

-----------------------------------------------------------------------------
Exact ==
    /\ \A o \in Owners, k \in Kinds : counts[<<o, k>>] = Cardinality(Leases(o, k))
    /\ \A k \in Kinds : global[k] = Cardinality(GlobalLeases(k))
    /\ inFlight = {r \in Requests : Live(r)}
    /\ tracked = {o \in Owners : \E k \in Kinds : Leases(o, k) # {}}

\* The counters and the two maps are exactly the leases that are alive,
\* whichever thread drops the last copy and whatever session is lost meanwhile
\* (HostRequestAdmissionController.cpp:40-60 and 97-112), until two threads
\* have collided.
AccountsAreLeases == overlaps = 0 => Exact

\* No device holds more than its share over all its sessions, and the Host no
\* more than it can queue, until two threads have collided.
SharesRespected ==
    overlaps = 0 =>
        /\ \A o \in Owners, k \in Kinds :
               Cardinality(Leases(o, k)) <= MaximumOwner[k]
        /\ \A k \in Kinds : Cardinality(GlobalLeases(k)) <= MaximumGlobal[k]

\* A request that is admitted always finds a place in its executor, whose limit
\* equals the global one: the lease outlives the place.
RoomForAdmitted ==
    overlaps = 0 =>
        \A k \in Kinds :
            global[k] < MaximumGlobal[k] =>
                Cardinality(Busy(k)) < MaximumGlobal[k]

\* Everything a lost session had under way is given back in the end.
LostSessionDrains ==
    \A s \in Sessions :
        s \notin sessions ~> \A r \in Requests : r[1] = s => r \notin inFlight

-----------------------------------------------------------------------------
\* HostRequestAdmissionControllerTest.cpp:153-156 says of the controller that
\* "natural completion releases all disconnected-session accounting".
CompletionReleasesAll ==
    (\A r \in Requests : ~Live(r)) =>
        \A k \in Kinds : global[k] = 0 /\ \A o \in Owners : counts[<<o, k>>] = 0
=============================================================================
