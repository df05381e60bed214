---------------------------- MODULE HostMaintenance ------------------------
(***************************************************************************)
(* The maintenance boundary of the Host and the first half of a Restore:   *)
(* HostMaintenanceCoordinator closes every entrance for new work, waits    *)
(* for the two executors to drain, and DatabaseRestoreCoordinator then     *)
(* closes their connections before the live database is replaced.          *)
(*                                                                         *)
(* Application-thread handlers are one step each.  The two worker threads, *)
(* the automatic backup, the set part-out and the restore worker run       *)
(* between them; a worker takes a job in two steps, --queued and ++active, *)
(* because isIdle() reads the two atomics from the other thread.           *)
(*                                                                         *)
(* What one executor does inside a job is HostWriteExecutor's matter, and  *)
(* what the restore worker does is RestoreTransaction's.                   *)
(***************************************************************************)
EXTENDS Naturals

CONSTANTS
    Clients,
    MaximumQueued       \* MaximumQueuedReads and MaximumQueuedMutations

ASSUME MaintenanceAssumption == MaximumQueued \in Nat \ {0}

Executors == {"reads", "writes"}
Entrances == Executors \cup {"admission", "local"}

VARIABLES
    state,          \* HostMaintenanceCoordinator::m_state
    open,           \* entrances that admit new work: m_accepting of the
                    \* executors, the server's gate, HostOperationalGate
    queued,         \* m_queued of an executor
    active,         \* m_active of an executor
    worker,         \* what the thread of an executor does
    close,          \* closeConnectionAsync of an executor
    activity,       \* an activityChanged is queued to the coordinator
    commits,        \* a committed change has not been broadcast yet
    suppressed,     \* clients that show Host Maintenance and ask for nothing
    partOut,        \* a set part-out on its own thread and connection
    restore,        \* how far DatabaseRestoreCoordinator is
    awaiting,       \* executors whose close has not been answered yet
    quiesced,       \* no close was answered with an error
    refused,        \* the last Restore was reported as not started
    backupStarted,  \* AutomaticBackupService::m_started
    backupRunning   \* its worker exists

executors == <<queued, active, worker, activity, commits>>
control == <<state, open, suppressed, close, restore, awaiting, quiesced>>
backup == <<backupStarted, backupRunning>>
boundaryVars == <<executors, control, partOut, refused, backup>>

BoundaryTypeOK ==
    /\ state \in {"Normal", "Entering", "Maintenance", "ShuttingDown"}
    /\ open \subseteq Entrances
    /\ queued \in [Executors -> 0 .. MaximumQueued]
    /\ active \in [Executors -> 0 .. 1]
    /\ worker \in [Executors -> {"idle", "gap", "active"}]
    /\ close \in [Executors -> {"none", "refused", "posted", "closed"}]
    /\ activity \in BOOLEAN
    /\ commits \in BOOLEAN
    /\ suppressed \subseteq Clients
    /\ partOut \in {"none", "starting", "writing"}
    /\ restore \in {"idle", "preflight", "awaitBackup", "draining", "closing",
                    "replacing", "finished"}
    /\ awaiting \subseteq Executors
    /\ quiesced \in BOOLEAN
    /\ refused \in BOOLEAN
    /\ backupStarted \in BOOLEAN
    /\ backupRunning \in BOOLEAN

BoundaryInit ==
    /\ state = "Normal"
    /\ open = Entrances
    /\ queued = [e \in Executors |-> 0]
    /\ active = [e \in Executors |-> 0]
    /\ worker = [e \in Executors |-> "idle"]
    /\ close = [e \in Executors |-> "none"]
    /\ activity = FALSE
    /\ commits = FALSE
    /\ suppressed = {}
    /\ partOut = "none"
    /\ restore = "idle"
    /\ awaiting = {}
    /\ quiesced = FALSE
    /\ refused = FALSE
    /\ backupStarted = TRUE
    /\ backupRunning = FALSE

(***************************************************************************)
(* The coordinator.  pending is m_queued of the executors at the moment of *)
(* the call.  Only a worker inside the gap looks idle although it is not;  *)
(* with the entrances closed an executor that is idle stays idle, so the   *)
(* four loads of evaluateDrain are one snapshot.                           *)
(***************************************************************************)
IsIdle(e, pending) == pending[e] = 0 /\ active[e] = 0
Drained(pending) == \A e \in Executors : IsIdle(e, pending)

\* closeConnectionAsync: the worker may leave the gap before the handler asks.
CloseAnswers(pending) ==
    {answer \in [Executors -> {"refused", "posted"}] :
        \A e \in Executors :
            /\ answer[e] = "posted" => IsIdle(e, pending)
            /\ answer[e] = "refused" =>
                   ~IsIdle(e, pending) \/ worker[e] = "gap"}

\* beginShutdown, the server stops, and both connections are to be closed.
CloseWorkers(pending) ==
    /\ state' = "ShuttingDown"
    /\ open' = {}
    /\ suppressed' = {}
    /\ restore' = "closing"
    /\ awaiting' = Executors
    /\ quiesced' = TRUE
    /\ close' \in CloseAnswers(pending)

\* evaluateDrain in EnteringMaintenance; phase is what the restore waits for.
EvaluateDrain(pending, phase) ==
    IF Drained(pending) /\ phase = "draining"
    THEN CloseWorkers(pending)
    ELSE /\ state' = IF Drained(pending) THEN "Maintenance" ELSE "Entering"
         /\ open' = {}
         /\ restore' = phase
         /\ UNCHANGED <<suppressed, close, awaiting, quiesced>>

Reevaluate(pending) ==
    IF state = "Entering" THEN EvaluateDrain(pending, restore)
                          ELSE UNCHANGED control

\* The operator opens Settings, which a running Restore does not allow.
RequestEnterMaintenance ==
    /\ restore = "idle"
    /\ state = "Normal"
    /\ EvaluateDrain(queued, restore)
    /\ UNCHANGED <<executors, partOut, refused, backup>>

ActivityChanged ==
    /\ activity
    /\ activity' \in BOOLEAN        \* several may be queued
    /\ Reevaluate(queued)
    /\ UNCHANGED <<queued, active, worker, commits, partOut, refused, backup>>

Reopened == Entrances

\* Mutant: the drain timer is not stopped and reopens the Host at any time.
TimeoutLate ==
    /\ state # "Normal"
    /\ state' = "Normal"
    /\ open' = Reopened
    /\ restore' = IF restore = "draining" THEN "idle" ELSE restore
    /\ refused' = (refused \/ restore = "draining")
    /\ UNCHANGED <<executors, suppressed, close, awaiting, quiesced, partOut,
                   backup>>

\* Mutant: a failed entry does not answer the waiting Restore.
TimeoutSilent ==
    /\ state = "Entering"
    /\ state' = "Normal"
    /\ open' = Reopened
    /\ UNCHANGED <<executors, suppressed, close, restore, awaiting, quiesced,
                   partOut, refused, backup>>

\* reopenAfterFailedEntry; maintenanceEntryFailed answers a waiting Restore.
Timeout ==
    /\ state = "Entering"
    /\ state' = "Normal"
    /\ open' = Reopened
    /\ restore' = IF restore = "draining" THEN "idle" ELSE restore
    /\ refused' = (refused \/ restore = "draining")
    /\ UNCHANGED <<executors, suppressed, close, awaiting, quiesced, partOut,
                   backup>>

LeaveMaintenance ==
    /\ restore = "idle"
    /\ state = "Maintenance"
    /\ state' = "Normal"
    /\ open' = Reopened
    /\ suppressed' = {}
    /\ UNCHANGED <<executors, close, restore, awaiting, quiesced, partOut,
                   refused, backup>>

-----------------------------------------------------------------------------
(***************************************************************************)
(* Clients, host-local work and the two executors.                         *)
(***************************************************************************)
Full(e) == queued[e] + active[e] >= MaximumQueued

\* A request past the gate is queued; one before it suppresses its client.
Request(c, e) ==
    /\ state # "ShuttingDown"
    /\ c \notin suppressed
    /\ IF "admission" \in open
       THEN /\ e \in open
            /\ ~Full(e)
            /\ queued' = [queued EXCEPT ![e] = @ + 1]
            /\ UNCHANGED suppressed
       ELSE /\ suppressed' = suppressed \cup {c}
            /\ UNCHANGED queued
    /\ UNCHANGED <<active, worker, activity, commits, state, open, close,
                   restore, awaiting, quiesced, partOut, refused, backup>>

\* Mutant: the queued mutations of the session are dropped as well.
CancelledEverywhere(n) == [e \in Executors |-> IF queued[e] < n THEN queued[e] ELSE n]

\* cancelQueuedReadsForSession under the mutex that beginRead holds.
CancelledReads(n) == [queued EXCEPT !["reads"] = n]

ReaderLost ==
    /\ worker["reads"] # "gap"
    /\ \E n \in 0 .. queued["reads"] - 1 : queued' = CancelledReads(n)
    /\ Reevaluate(queued')
    /\ UNCHANGED <<active, worker, activity, commits, partOut, refused, backup>>

\* A client that loses its connection shows that instead.
ClientDisconnects(c) ==
    /\ c \in suppressed
    /\ suppressed' = suppressed \ {c}
    /\ UNCHANGED <<executors, state, open, close, restore, awaiting, quiesced,
                   partOut, refused, backup>>

\* Any broadcast invalidation ends the suppression of every client.
Broadcast ==
    /\ commits
    /\ commits' \in BOOLEAN         \* several may be queued
    /\ suppressed' = {}
    /\ UNCHANGED <<queued, active, worker, activity, state, open, close,
                   restore, awaiting, quiesced, partOut, refused, backup>>

\* A mutation on the application thread tests the gate and commits at once.
LocalWrite ==
    /\ "local" \in open
    /\ suppressed' = {}
    /\ UNCHANGED <<executors, state, open, close, restore, awaiting, quiesced,
                   partOut, refused, backup>>

PartOutSubmit ==
    /\ partOut = "none"
    /\ partOut' = "starting"
    /\ UNCHANGED <<executors, control, refused, backup>>

PartOutTestsGate ==
    /\ partOut = "starting"
    /\ partOut' = IF "local" \in open THEN "writing" ELSE "none"
    /\ UNCHANGED <<executors, control, refused, backup>>

PartOutDone ==
    /\ partOut = "writing"
    /\ partOut' = "none"
    /\ commits' \in {commits, TRUE}     \* it may have failed
    /\ UNCHANGED <<queued, active, worker, activity, control, refused, backup>>

TakeJob(e) ==
    /\ worker[e] = "idle"
    /\ queued[e] > 0
    /\ queued' = [queued EXCEPT ![e] = @ - 1]
    /\ worker' = [worker EXCEPT ![e] = "gap"]
    /\ UNCHANGED <<active, activity, commits, control, partOut, refused, backup>>

CountActive(e) ==
    /\ worker[e] = "gap"
    /\ active' = [active EXCEPT ![e] = @ + 1]
    /\ worker' = [worker EXCEPT ![e] = "active"]
    /\ activity' = TRUE
    /\ UNCHANGED <<queued, commits, control, partOut, refused, backup>>

\* Mutant: the last job does not report that it has ended.
FinishUnreported(e) ==
    /\ worker[e] = "active"
    /\ active' = [active EXCEPT ![e] = @ - 1]
    /\ worker' = [worker EXCEPT ![e] = "idle"]
    /\ UNCHANGED <<queued, activity, commits, control, partOut, refused, backup>>

\* A mutation may have committed; its publication follows as an event.
Finish(e) ==
    /\ worker[e] = "active"
    /\ active' = [active EXCEPT ![e] = @ - 1]
    /\ worker' = [worker EXCEPT ![e] = "idle"]
    /\ activity' = TRUE
    /\ commits' \in IF e = "writes" THEN BOOLEAN \cup {commits} ELSE {commits}
    /\ commits => commits'
    /\ UNCHANGED <<queued, control, partOut, refused, backup>>

\* The close event is behind every job in the worker's queue.
WorkerCloses(e) ==
    /\ close[e] = "posted"
    /\ worker[e] = "idle"
    /\ queued[e] = 0
    /\ close' = [close EXCEPT ![e] = "closed"]
    /\ UNCHANGED <<executors, state, open, suppressed, restore, awaiting,
                   quiesced, partOut, refused, backup>>

-----------------------------------------------------------------------------
(***************************************************************************)
(* DatabaseRestoreCoordinator up to the replacement, and the backups.      *)
(***************************************************************************)
BackupBegins ==
    /\ backupStarted
    /\ ~backupRunning
    /\ backupRunning' = TRUE
    /\ UNCHANGED <<executors, control, partOut, refused, backupStarted>>

RestoreStarts ==
    /\ restore = "idle"
    /\ restore' = "preflight"
    /\ refused' = FALSE
    /\ UNCHANGED <<executors, state, open, suppressed, close, awaiting,
                   quiesced, partOut, backup>>

CandidateRejected ==
    /\ restore = "preflight"
    /\ restore' = "idle"
    /\ refused' = TRUE
    /\ UNCHANGED <<executors, state, open, suppressed, close, awaiting,
                   quiesced, partOut, backup>>

\* quiesceForDatabaseRestore
Quiesce ==
    \/ /\ state = "Maintenance"
       /\ CloseWorkers(queued)
       /\ UNCHANGED refused
    \/ /\ state = "Normal"
       /\ EvaluateDrain(queued, "draining")
       /\ UNCHANGED refused
    \/ /\ state \in {"Entering", "ShuttingDown"}
       /\ restore' = "idle"
       /\ refused' = TRUE
       /\ UNCHANGED <<state, open, suppressed, close, awaiting, quiesced>>

\* Mutant: a running backup is not waited for.
CandidateStagedInHaste ==
    /\ restore = "preflight"
    /\ backupStarted' = FALSE
    /\ Quiesce
    /\ UNCHANGED <<executors, partOut, backupRunning>>

CandidateStaged ==
    /\ restore = "preflight"
    /\ backupStarted' = FALSE
    /\ IF backupRunning
       THEN /\ restore' = "awaitBackup"
            /\ UNCHANGED <<state, open, suppressed, close, awaiting, quiesced,
                           refused>>
       ELSE Quiesce
    /\ UNCHANGED <<executors, partOut, backupRunning>>

BackupEnds ==
    /\ backupRunning
    /\ backupRunning' = FALSE
    /\ IF restore = "awaitBackup" THEN Quiesce ELSE UNCHANGED <<control, refused>>
    /\ UNCHANGED <<executors, partOut, backupStarted>>

CloseAnswered(e) ==
    /\ e \in awaiting
    /\ close[e] \in {"refused", "closed"}
    /\ awaiting' = awaiting \ {e}
    /\ quiesced' = (quiesced /\ close[e] = "closed")
    /\ IF awaiting' # {}
       THEN UNCHANGED <<restore, refused>>
       ELSE IF quiesced'
            THEN restore' = "replacing" /\ UNCHANGED refused
            ELSE restore' = "idle" /\ refused' = TRUE
    /\ UNCHANGED <<executors, state, open, suppressed, close, partOut, backup>>

\* The restore worker ends; whatever its result, the application quits.
Replaced ==
    /\ restore = "replacing"
    /\ restore' = "finished"
    /\ UNCHANGED <<executors, state, open, suppressed, close, awaiting,
                   quiesced, partOut, refused, backup>>

-----------------------------------------------------------------------------
WorkerStep(e) == TakeJob(e) \/ CountActive(e) \/ Finish(e) \/ WorkerCloses(e)
Operator == RequestEnterMaintenance \/ LeaveMaintenance \/ RestoreStarts
Backups == BackupBegins \/ BackupEnds
Candidate == CandidateRejected \/ CandidateStaged
Local == LocalWrite \/ PartOutSubmit \/ PartOutTestsGate \/ PartOutDone

BoundaryNext ==
    \/ Operator
    \/ ActivityChanged
    \/ Timeout
    \/ \E c \in Clients : ClientDisconnects(c)
                         \/ \E e \in Executors : Request(c, e)
    \/ ReaderLost
    \/ Broadcast
    \/ Local
    \/ \E e \in Executors : WorkerStep(e) \/ CloseAnswered(e)
    \/ Backups
    \/ Candidate
    \/ Replaced

BoundarySpec == BoundaryInit /\ [][BoundaryNext]_boundaryVars

\* The event loops run, jobs and backups end, a restore worker returns.  The
\* drain timer, the operator and the clients are free never to act.
FairBoundarySpec ==
    /\ BoundarySpec
    /\ WF_boundaryVars(ActivityChanged)
    /\ WF_boundaryVars(BackupEnds)
    /\ WF_boundaryVars(Candidate)
    /\ WF_boundaryVars(Replaced)
    /\ \A e \in Executors : WF_boundaryVars(WorkerStep(e)) /\ WF_boundaryVars(CloseAnswered(e))

-----------------------------------------------------------------------------
\* New work is admitted by all four entrances or by none: no path through
\* entering, a failed entry, leaving and shutting down forgets one of them
\* (HostMaintenanceCoordinator.cpp:63-119).
EntrancesAgree == open = IF state = "Normal" THEN Entrances ELSE {}

\* While the live database is replaced no executor runs or holds a job, both
\* connections are closed, no backup reads the file and no entrance is open
\* (DatabaseRestoreCoordinator.cpp:99-134 over quiesceForDatabaseRestore).
ReplacementIsExclusive ==
    restore = "replacing" =>
        /\ \A e \in Executors :
               queued[e] = 0 /\ worker[e] = "idle" /\ close[e] = "closed"
        /\ ~backupRunning
        /\ open = {}

\* A mutation that was admitted leaves the queue only to be run: neither a
\* lost session nor the maintenance cutoff drops it, unlike a queued read.
AdmittedMutationsRun ==
    [][queued'["writes"] < queued["writes"] => worker'["writes"] = "gap"]_boundaryVars

\* Once the connection of an executor is to be closed nothing is queued for it
\* any more: no late timer and no operator reopens it.
NothingAfterClose ==
    [][\A e \in Executors :
           close[e] # "none" => queued'[e] <= queued[e] /\ open' = {}]_boundaryVars

\* An entry is decided even if the timer never fires: the last job to end
\* always wakes the coordinator up.
EntryIsDecided == state = "Entering" ~> state # "Entering"

\* A Restore always reports an end: it is refused or the database is replaced.
RestoreEnds == restore # "idle" ~> restore \in {"idle", "finished"}

-----------------------------------------------------------------------------
(***************************************************************************)
(* What the documentation says and the code does not do.                   *)
(***************************************************************************)
\* Help, bricksuite_server.html:33: "While Maintenance is active, Host-local
\* operational changes are unavailable".
NoLocalChangeInMaintenance == state = "Maintenance" => partOut # "writing"

\* MainWindow.cpp:2198 reports a refused Restore as "was not started. The
\* current database remains in use": the Host can still be used.
RefusedRestoreLeavesHostUsable == refused => state # "ShuttingDown"

\* Protocol 1.2, lines 468-470: an existing invalidation ends the suppression
\* of the clients once admission is open again.
OpenHostSuppressesNobody == state = "Normal" => suppressed = {}
=============================================================================
