# TLA+ models of BrickSuite

BrickSuite is a desktop program (C++/Qt, SQLite) for a LEGO inventory. One
installation can act as a **Host**: other installations, the **Clients**, connect
over TLS WebSockets, read from the Host's database and change it. This directory
holds TLA+ modules of the parts where the order of events decides whether data is
right, TLC configurations that check them on small instances, and TLAPS proofs of
the properties that matter most for every size of the instance.

Paths in this file are relative to `src/src/` of the repository unless they start
with `docs/`, `tests/` or `resources/`, which are below `src/`.

- [1 Inventory](#1-inventory) · [2 Modules](#2-modules) · [3 Runs](#3-runs) ·
  [4 Fairness](#4-fairness) · [5 Proofs](#5-proofs) · [6 Findings](#6-findings) ·
  [7 Limits](#7-assumptions-and-limits) · [8 Plan](#8-plan)

## 1 Inventory

### 1.1 Components, their state and their operations

| component | state | operations | hard behaviour |
|---|---|---|---|
| `services/database/DatabaseRestoreTransaction` | the live, previous and staged database files, the journal, the epoch file, the safety backups | `execute`, `rollback`, `finish`, `recoverAtStartup` | a crash between any two file operations; a file operation that fails, also one whose result is ignored |
| `services/application/HostWriteExecutor` with `remote_mutation_receipt` | `m_queued`, `m_active`, `m_accepting`, the worker's event queue, the receipts | `enqueue`, `execute`, `stopAccepting`, `shutdown`, clean-up of receipts at the start | two threads over two atomics; retries of an ID; a crash around the commit |
| `services/application/HostReadExecutor` | the same counters, pending reads by session | `enqueue`, `beginRead`, `finishRead`, `cancelQueuedReadsForSession`, `closeConnectionAsync` | the gap between `--m_queued` and `++m_active`; a session that is lost |
| `services/application/HostMaintenanceCoordinator`, `HostOperationalGate`, `services/database/DatabaseRestoreCoordinator`, `network/BrickSuiteNetworkManager` | the maintenance state, four entrances for new work, the phase of a Restore | enter, time out, leave, shut down; start, quiesce, replace | drain against new work, a late timer, one of two executors that refuses to close, a backup or Part Out in the background |
| `network/HostRequestAdmissionController` | counts per owner and in total, the IDs in flight | `admit`, `~Lease` | a lease dies on either thread; sessions of one device share; requests of lost sessions |
| `network/BrickSuiteWebSocketServer` | sessions, the operational gate, outbound budgets | receive, answer, broadcast, close | slow receivers, answers for a lost session, maintenance |
| `network/BrickSuiteWebSocketClient` | status, pending requests, data epoch, reconnect timer | connect, hello, authenticate, send, time out, disconnect | lost connections, late answers, reconnecting |
| `services/application/RemoteMutationApplicationServices` and the dialogs | the epoch of every ID whose outcome is open | `submit`, `Retry Safely` | outcomes that are unknown, retries against another database |
| pairing, registry, revocation, sessions (`network/BrickSuitePairingService`, `PairedDeviceRegistry`, `PairedDeviceAdministrationService`, `BrickSuiteWebSocketServer`) | one pairing attempt, the device records, the credentials, the sessions | start, pair, authenticate, revoke, close | a step of several that fails or is the last of the process; revoking a live session |
| `services/application/RebrickableCoordinationService` | participants, sessions per device, removal grace, state and revision | register, disconnect, publish, apply, fall back | a device that comes back within the grace or with a second session; a restarted Host whose revisions start again |
| `services/application/RemoteRefreshCoordinator`, `network/OperationalInvalidation*`, the surfaces it refreshes | dirty, in-flight and rerun marks of each projection, the rows of each surface | invalidate, coalesce, read, fail, reset | an invalidation during a read, a lost session during a read, a read that is overtaken |
| domain services (`services/builds`, `services/inventory`) over `repositories` | inventory records, allocations, requirements, provenance, state of the Build | add, edit, move, correct, lose, find, allocate, pull, return, complete, disassemble, cancel | sums that must agree over several tables and many steps |
| `database/DatabaseSchema`, `DatabaseManager` | `user_version`, the shape of the tables, their rows | 36 migrations, two of which rebuild tables in transactions of their own | a program that ends between two migrations or within one; a release that made the same version differently |
| `api/rebrickable`, `services/parts/PartExternalIdEnrichmentService`, `services/images/BackgroundPartColorImageCacheService`, `ui/procurement` | two request queues, breaker, marks of what was asked, waiting dialogs | ask, send, answer, refuse, drain | answers in any order, a 429 that stops everything, a request nobody answers |
| `services/database/AutomaticBackup*` | schedule, the worker, the files of a directory | request, finish, retain | clock changes, retry after a failure, never removing the last good file |
| `services/collection`, `services/storage`, `import` | SQLite tables | disassemble, move, import | forests and counts kept over several tables |
| `services/geometry`, `ui`, `app`, `settings`, catalog look-ups | meshes, widgets, preferences | | none that a state-based model would find |

### 1.2 How they interact

```
 dialog ── submit ──► RemoteMutationApplicationServices ── sendRequest ──► WebSocketClient
                                                                              │  TLS
      ┌───────────────────────────────────────────────────────────────────────┘
      ▼
 WebSocketServer ─ gate ─ HostRequestAdmissionController ─ dispatcher ─► HostMutationProtocolService
      ▲  ▲                                                                    │ epoch check
      │  └── broadcast ◄── HostMutationPublicationService ◄── commit ── HostWriteExecutor (thread)
      │                                                           HostReadExecutor (thread)
      └── HostMaintenanceCoordinator ── stopAccepting / isIdle ───────────────┘
                    ▲
        DatabaseRestoreCoordinator ── quiesce ── DatabaseRestoreTransaction (thread) ── files
                    │                                    ▲
        AutomaticBackupService (thread)        recoverAtStartup (next process)
```

The application thread runs one handler at a time. The read executor, the write
executor, an automatic backup, a Part Out and the replacement of the database have
a thread each. Across threads there are queued callbacks, a few atomics and, for
the leases of admitted requests, shared state without a lock. Across processes
there are the wire, the database and four files beside it.

### 1.3 What makes them correct

- A Restore replaces database and data epoch together, or not at all, whenever
  the process dies and whatever a file operation answers.
- A mutation ID takes effect at most once, under retries, crashes, lost answers,
  and a Restore that removes its receipt; whatever is answered is true.
- While the live database is replaced nobody else has it open.
- The entrances for new work are closed and opened together, and an entry into
  maintenance always comes to an end.
- The accounts of admitted requests are right, so that no device can use more
  than its share and none is locked out.
- Pieces are neither made nor lost by allocating, pulling, completing, returning
  and disassembling, and a piece is promised to one Build at most; a Complete Build
  has what it requires.
- What a Client shows is right, or the Client knows that it is not, and once the
  Host rests it becomes right.
- A database of any version becomes the current one with everything in it, however
  often the program ends on the way; a version number never names two shapes.
- No credential outlives its record unseen and a revoked device is on its way out;
  the interval between two requests to Rebrickable is never shorter than the
  number of participants asks for.
- What was asked of Rebrickable is answered, refused or still being worked on:
  nothing stays queued, marked or waited for.

## 2 Modules

| module | models | implements | proofs |
|---|---|---|---|
| `RestoreTransaction` | `DatabaseRestoreTransaction`, startup recovery | `DataGeneration` | `DatabaseProofs` |
| `HostWriteExecutor` | `HostWriteExecutor`, receipts, publication | `MutationLedger` | `HostWriteExecutorProofs` |
| `HostMaintenance` | maintenance, Restore coordination, quiescing | | `HostEntranceProofs` |
| `HostAdmission` | admission, leases, lost sessions | | `HostEntranceProofs` |
| `RemoteMutation` | client, wire and Host, end to end | `MutationLedger` | `RemoteMutationProofs` |
| `StockBuild` | inventory, allocation, pulling and the life of a Build from stock | `PieceLedger` | `StockBuildProofs` |
| `RemoteRefresh` | invalidation, the coordinator, the surfaces it refreshes | | `RemoteRefreshProofs` |
| `SchemaHistory` | what each migration does to the tables and rows (operators) | | |
| `SchemaUpgrade` | the start of the program that runs them | | `DatabaseProofs` |
| `HostSessions` | pairing, revocation, sessions and the shared Rebrickable interval | | `HostSessionsProofs` |
| `RebrickableRequests` | request queues, enrichment, image cache, procurement preview | | `RebrickableRequestsProofs` |
| `MC...` | give values to the constants for TLC | | |

The modules are layered: `RemoteMutation` assumes of the Host what the others
establish (at most one run per receipt from `HostWriteExecutor`, no replacement
while a request is held from `HostMaintenance`, a new epoch with a new database
from `RestoreTransaction`), and `HostWriteExecutor` and `RemoteMutation` are both
shown to implement the same `MutationLedger`, once per submission to the Host and
once per attempt of a dialog. `SchemaUpgrade` is the control around the operators of
`SchemaHistory`. The other modules stand beside them: `RemoteRefresh` takes up where
a commit of `HostWriteExecutor` is published, and `StockBuild` is what the
transactions of the Host (or of a local program) do to the pieces.

`PROJECT.json` maps every definition to the lines it stands for. Operators whose
comment starts with "Mutant:" are wrong variants of the definition that follows
them; they show that the properties can fail and are not part of any `Next`.

### 2.1 RestoreTransaction

State: the five files as the image they hold (`live`, `previous`, `stage`,
`journal`, `epoch`), the safety backups, and the next call of the program
(`step`). Each file operation is an action that succeeds, or fails and goes on
where the code's error path goes on. `Crash` may happen between any two. `Recover`
is the decision of `recoverAtStartup`, after which the same actions run with
`recovering` set. `Stubborn` names the files whose removal may fail where the code
ignores its result (a virus scanner or an open handle on Windows).

A database image is a model value; a file is absent, partial, empty (what SQLite
makes of a missing file) or one of the images. Sidecar files are absent because
all connections are closed first, which is what `HostMaintenance` is about.

`DataGeneration` is the promise: one database with one epoch, replaced in one
step, and only one of which a backup was kept. The mapping reads the database from
the files alone (`InPlace`): the rollback image while a journal is pending under the
old epoch and there is one, else the live file. So a crash never changes what the
abstraction sees; but a recovery that finds no rollback image removes the live file
and leaves none (finding 1), and this is a step of the promise, `Lose`: the database
is gone from its place, only one with a backup may go, and nothing is served under
that epoch again. That it happens at all is what `restore_interrupted` shows.

### 2.2 HostWriteExecutor and MutationLedger

The application thread is one action per handler. `enqueue` is split in two,
`Enqueue` (the counter is incremented) and `EnqueueDecide` (the sum is compared),
because the worker moves between the two accesses. The worker is split where its
effects become visible: `Dequeue`, `CountActive`, `Examine` (receipt, workspace,
`BEGIN IMMEDIATE`), `Commit`, `Finish`. Callbacks are a queue of their own.
`Crash` loses the memory and keeps the tables; `Start` also removes receipts that
are older than 90 days. `QueueIsBounded` is what the two atomics achieve: the
counters are exact but for the job between `--m_queued` and `++m_active`, and never
more than the maximum wait in the queue. With the job in that gap the executor holds
one more than the protocol says (finding 11).

`MutationLedger` has three actions: `Apply` (once per ID, never for a submission
that was answered), `Answer` (must be true of the submission it answers) and
`Forget`. It says that an error is final for *its submission* and leaves open what
happened to other submissions of the ID, which is the sense in which the Host's
answers are right.

### 2.3 HostMaintenance

State: `state` of the coordinator, the set `open` of entrances that admit work
(the two executors, the server's gate, the gate for local writes), per executor
its counters, its thread and the closing of its connection, the phase of the
Restore, the clients that show Host Maintenance, the backup and a Part Out.
A worker takes a job in two actions, since `isIdle` may look in between;
`Maintenance` can therefore be entered while a job is still to be counted, and
the model has that behaviour. `activity` and `commits` are flags that stand for
one or more queued notifications.

The two closing requests of `quiesceForDatabaseRestore` and their answers are
separate, so that one executor can refuse while the other closes.

### 2.4 HostAdmission

A request has up to two copies of its lease: one in the answer, on the application
thread, and one in the job, on a worker thread. `Answer` and the worker's actions
drop them in any order and the last one gives the accounts back. `ReleaseNow` does
this in one step; `BeginRelease`/`EndRelease` are the same destructor seen from
the other thread, a read and a write with an admission in between. `MaxOverlaps`
bounds how often this happens; the safety properties are claimed as long as it
has not happened, and `MCHostAdmissionTorn` shows what happens after.

A synchronous refusal by a handler admits and releases within one handler and is
a stutter. A refusal by a full executor is left out because `RoomForAdmitted`
shows that it cannot happen: the global limits equal those of the executors (64
and 16).

### 2.5 RemoteMutation

The client is `connection`, `clientEpoch` (`m_dataEpoch`), `pending`, and for each
dialog the epoch it retained and what it was told last (`outcome`). The wire, the
write queue and the answers are sets, so requests and answers overtake each
other in every way, a superset of what TCP allows. A lost connection does not
take back what was sent: the Host may read it later, also after the retry of the
next session. A `Restore` installs any set of receipts that ever was in the
database, which is what an older backup holds.

What leaves in place of a result that is too large is the error `RESULT_TOO_LARGE`
(`Sent`), which the dialog takes for a failure of a mutation that is in effect
(finding 12). `VerdictsAreTrue` counts that one error as what can be relied on after
it, namely that the mutation is in effect (`Meaning`); of every other failure it says
that the attempt never ran and never will.

`Submit` is the whole of `submit()` and of the dialogs' rule that an ID is kept
when the outcome is unknown and given up otherwise. The states of hello and
authentication are one (`connecting`).

### 2.6 StockBuild and PieceLedger

Every action is one SQLite transaction, whether a local dialog or a Host mutation
starts it. State: the inventory records, the Lost quantities, the Build with its
requirement rows, the allocations and the provenance of pulled pieces. A record that
is emptied keeps its number, as it keeps its row. `Put` is the merge into the record
with the target identity that editing, moving, correcting, finding and returning
share. The choice of what is returned is made by dialogs and checked by the services,
so `Disassemble` and `Cancel` take any function from rows and makers to quantities
that passes the checks. The completion of a Build looks at its pieces alone, as the
service does, and not at the status: a Build that is over may be completed again.

`PieceLedger` is the promise: loose, built and missing pieces are exchanged in pairs
and only adding, editing and removing an entry changes their sum. The refinement maps
each count to the sum over the tables.

### 2.7 RemoteRefresh

State: the panels whose rows are behind the Host's data (`behind`), commits still to
be announced (`unpublished`), the Host's gate, the messages to the Client and the
Client `k`: the coordinator's marks (`dirty`, `rerun`, `pending`, `cause`, `waiting`),
the read each panel waits for, and whether a panel says itself that its last read
failed (`warned`). One action per handler: an event, an answer, a refusal or a
time-out is received, the coalescing timer fires, a surface is shown or hidden, a
dialog is opened or destroyed, a session is lost or restored. Of rows only matters
whether they are those the Host has now: a read is `asked`, then `fresh` or
`outdated` by later commits, then received. A refusal whose request has timed out no
longer tells the Client anything (`ReceiveUnmatched`).

### 2.8 SchemaHistory and SchemaUpgrade

`SchemaHistory` translates each migration of `DatabaseSchema.cpp` into statements
over a shape, a set of triples of table, kind and name; an operator has the name of
its function. `SchemaUpgrade` is `DatabaseManager::initialize` and
`DatabaseSchema::initialize`: two copies of the database (committed and seen by the
connection), the open transaction, the setting of foreign keys and where the program
is. The two rebuilds of referenced tables commit what was done before, turn foreign
keys off and run in a transaction of their own. A statement or a commit may fail and
the program may end at any point. Initially the file is a database of any version
from 0 to 36, as this release or an earlier one would have made it (`Older` says what
earlier releases left out; a `build` table of version 6 to 10, `PlainBuilds`, does not
accept Cancelled, as every release that stopped there made it), with any rows of
`build_allocation`, the table whose rows version 23 repairs.

### 2.9 HostSessions

The registry file (`record`) and the credential store (`secrets`) are durable, `h` is
what the Host's process keeps, `c` are the installations, and each session has a queue
in either direction. `Pair` has two variants that end between its durable steps,
`Revoke` and `RevokeInterrupted` go one, two or all three steps far, with any of the
credentials left in the store where the code goes on after that.
A session may be lost on one side before the other knows, so the Host may have an old
and a new session of one device. The actions on the participants of Rebrickable
coordination are those of `RebrickableCoordinationService`; devices that are not
looked at are a number, `others`. A number of participants stands for the interval
that is computed from it. The provider of the Host or of a Client may report at any
time, also what it reported before (Test Connection, start-up validation, a failed
authentication). The Host's report makes it forget the shared state and number the
next ones from the beginning (finding 9); the history variable `outdated` holds the
sessions that were there when it last did, up to their end.

### 2.10 RebrickableRequests

State `w` of the one process: the two queues, the request timer, the interval, the
breaker, what is on its way, the marks of `PartExternalIdEnrichmentService`, the image
cache with its queue and timer, the preview, the dialogs with their pages. Every
action is one callback, with all it calls synchronously: an answer that is handled may
ask for the next thing, finish a Part in the preview, or advance the image queue; the
operators of the first half of the module are these chains. An answer may arrive, be
an error, be a refusal (HTTP 429 or a ban), in any order. `MaxDeeds` bounds what the
user and the Host start.

## 3 Runs

There is one run for each question asked of the system.

| run | module / cfg | instance | distinct states | shows |
|---|---|---|---|---|
| `restore` | `MCRestoreTransaction` | 2 databases, 3 Restores, 3 failing operations, unseen failures of removals but of the rollback image, any number of crashes | 30 986 | database and epoch agree whenever the program runs; no image is lost; a committed Restore is never undone; the files refine `DataGeneration` |
| `restore_interrupted` | `MCRestoreInterrupted` | the same, no operation fails | violation | finding 1 |
| `host_writes` | `MCHostWriteExecutor` | 2 IDs, 2 payloads, 3 submissions, queue of 1, 1 stop | 156 494 | exact counters and no more waiting than the maximum, at most one effect and one announcement, true answers, every submission answered, shutdown returns |
| `maintenance` | `MCHostMaintenance` | 2 clients, queues of 2; otherwise unbounded | 79 164 | exclusive replacement, admitted mutations run, nothing after closing, entry and Restore end |
| `admission` | `MCHostAdmission` | a device with two sessions, a legacy session, 1 ID each, shares 2/1, totals 2/2, 1 overlap | 127 956 | accounts are leases, shares respected, room for what is admitted, lost sessions drain |
| `remote_mutation` | `MCRemoteMutation` | 2 dialogs, 3 attempts, 1 Restore | 711 684 | an ID runs once and only in the database it was sent to; every verdict but `RESULT_TOO_LARGE` is true of its attempt |
| `stock_build` | `MCStockBuild` | 1 Build, 2 rows, 2 parts, 2 places, 1 maker, 2 records, 2 pieces | 213 242 | requirements are not exceeded, provenance is complete, a Complete Build is whole, no piece is promised twice; the whole refines `PieceLedger` |
| `remote_refresh` | `MCRemoteRefresh` | the Workspace list, 2 Pulling dialogs, 1 message on the link | 989 308 | the coordinator's marks agree; nothing is stale without a trace |
| `refresh_settles` | `MCRefreshSettles` | the Workspace list, a tab, 2 messages on the link | 60 642 | once the Host's data rests a stale tab becomes right or says that it is not |
| `schema_upgrade` | `MCSchemaUpgrade` | versions 0 to 36, 4 requirements, 3 records | 9 361 | a version names one shape, a running program has the current one, nothing is lost, the upgrade of all but the databases of finding 8 completes |
| `host_sessions` | `MCHostSessions` | 1 device with 2 sessions, 1 other, revisions to 4, a message up and one down before the next | 1 508 665 | the books of participants agree, sessions made since the Host's provider last reported are paced right, credentials follow records, sessions of the revoked are closing |
| `rebrickable_requests` | `MCRebrickableRequests` | a plain and a printed Part, 1 image, 1 paged call, 3 deeds | 213 488 | every queue is attended, marks are requests under way, every wait ends |

Why these bounds suffice. Two databases and three Restores allow A to B to A and the
case that a Restore installs what is already live; three failures reach a failure
in the Restore, in its rollback and in the recovery. Three submissions over two
IDs give a retry while the first attempt is queued, running or committed, with a
third request that fills the queue; a queue of one makes the limit and the job in
the gap beside it visible. Two sessions of one owner and one of another meet the owner's and
the global limit with two requests. Three attempts over two dialogs allow a
retry of a retry; one Restore separates two databases, and more add none, because
a request of an older epoch is refused whatever its age. Two rows of one Build over
two records and two pieces compete for a record, share a part, merge two records into
one and leave one empty; a second maker multiplies the states by six and only
distinguishes the rows of the provenance further. Two dialogs of one projection are
what makes a cause narrower than its projection; more panels behave like these. One
message on the link lets an event overtake nothing but separates sending from
receiving, and `refresh_settles` has two. The schema's versions are all there, and the
rows cover a reservation with no, one and two matching requirements, a spare one,
and an old row next to a new one of the same record. Two sessions of one device are
what a reconnection can leave; two detailed devices would have more states than a run
can visit, and each sees the other only as a number. A message in either
direction lets a Client change its mind while the answer to what it said before is on
its way, and four revisions let a restarted Host reach those of the one before; with
two messages up, or two down, and three revisions the run passes as well (5 073 121
and 9 572 787 states). A plain and a printed Part take
the two ways through the enrichment, and with three deeds a retry, a page and an image
queue that is rebuilt meet.

The proofs below remove the bounds for all safety properties they cover.

Symmetry is used where all properties are invariants or action properties
(`stock_build`, `remote_refresh`, `host_sessions`).

Deadlock is checked in `restore`, `host_writes` and `remote_mutation`. In `maintenance`
a Host that was shut down for a Restore stops, in `admission` all sessions may be
lost, in `stock_build` a Build may be over with nothing left to add, in
`schema_upgrade` a program refused by a newer database stops, and in the others what
may happen is bounded (revisions, deeds) or the last Client may have gone.

Every property of a passing run has a mutant in `PROJECT.json`: a change of one
mapped definition, such as a dropped comparison, an off-by-one in a limit or a
missing reset, under which the run finds the property violated.

Further configurations are kept for use on demand. `MCRestoreStaleFiles` is `restore`
with every ignored removal failing when it likes, that of the rollback image too
(50 908 states; it passes, and `ImageSafe` and `CommitFinal` prove the same of every
instance). The others reproduce the divergences
of section 6, each by a counterexample.

| cfg | module | property that fails | finding |
|---|---|---|---|
| `MCNoLocalChangeInMaintenance` | `MCHostMaintenance` | `NoLocalChangeInMaintenance` | 2 |
| `MCRefusedRestoreLeavesHostUsable` | `MCHostMaintenance` | `RefusedRestoreLeavesHostUsable` | 3 |
| `MCOpenHostSuppressesNobody` | `MCHostMaintenance` | `OpenHostSuppressesNobody` | 4 |
| `MCHostAdmissionTorn` | `MCHostAdmission` | `CompletionReleasesAll` | 5 |
| `MCFailureMeansNotRun` | `MCRemoteMutation` | `FailureMeansNotRun` | 6 |
| `MCCompleteReturnable` | `MCStockBuild` | `CompleteCanBeReturned` | 7 |
| `MCOlderBuilds` | `MCSchemaUpgrade` | `OnlyNewerRefused` | 8 |
| `MCHostPacesOthers` | `MCHostSessions` | `EverybodyPaced` | 9 |
| `MCRefusalIsFinal` | `MCRebrickableRequests` | `RefusalIsFinal` | 10 |
| `MCHeldBound` | `MCHostWriteExecutor` | `HeldBound` | 11 |
| `MCTooLargeMeansFailed` | `MCRemoteMutation` | `FailedAttemptsDidNotRun` | 12 |
| `MCRestoreStaleImage` | `MCRestoreTransaction` | `EpochNamesTheDatabase` | 13 |

## 4 Fairness

- `HostWriteExecutor!FairSpec`: weak fairness of the worker thread and of the
  application thread for what is already under way (the end of `enqueue`, queued
  callbacks, the return of `shutdown`). Both are event loops that block on nothing
  but, for `shutdown`, the worker. New requests, retries, stops and crashes are
  not fair.
- `HostMaintenance!FairBoundarySpec`: weak fairness of each worker, of the answer to a
  close request, of the queued `activityChanged`, and of the ends of a backup, of
  the validation of the candidate and of the replacement, which are finite
  computations on threads of their own. The drain timer is *not* assumed to fire:
  `EntryIsDecided` shows that the last job to end wakes the coordinator anyway.
- `HostAdmission!FairSpec`: weak fairness of an answer (a queued call of the
  application thread) and strong fairness of the worker for every request, because
  the queue of an executor is first-in-first-out and other requests cannot take
  the worker for ever.
- `RemoteRefresh!FairSpec`: weak fairness of receiving what was sent, of the single-shot
  coalescing timer, and, for each panel, of its next step: the publication, the Host's
  read, the receipt of the rows, or the failure of a read that could not be sent. A
  restored session, the end of maintenance and every act of the user are not fair.
  `Settles` asks nothing while commits or maintenance go on for ever.
- `SchemaUpgrade!FairSpec`: weak fairness of every step of a start, and that a program
  that is down is started again. `UpgradeCompletes` is claimed when the program is
  interrupted, or the check after a rebuild fails, a finite number of times.
- `RebrickableRequests!FairSpec`: weak fairness of the request timer, of the passing of
  the interval and of the queued dispatch, and that what was sent is answered, fails or
  is refused in the end. The last is an assumption about Qt and the network, since
  `ApiNetworkService` sets no time-out.
- `RestoreTransaction`, `RemoteMutation`, `StockBuild` and `HostSessions` have no
  liveness property. A crash may come at any time, a connection need not come back and
  no user has to retry, complete a Build or pair again.

## 5 Proofs

All proofs are checked by TLAPS (SMT, Zenon, LS4) without assumptions other than
the named `ASSUME` of each module, which say that the bounds are natural numbers,
that the special values differ, and that the sets a total is taken over (rows, parts
and makers in `StockBuild`, devices in `HostSessions`, Parts in `RebrickableRequests`)
are finite, and so are the requirements in `SchemaUpgrade`. Two theorems have a
hypothesis on a constant, `EpochSafe` and `ReplacementAtomic` (`"previous" \notin
Stubborn`); it is the one finding 13 calls for. The bounds (`MaxTickets`, `MaxFaults`,
`MaxAttempts`, ...) are arbitrary in the theorems.

- **`DatabaseProofs`**, of the database file and of what is in it. For
  `RestoreTransaction`: `TypeCorrect`. `ImageSafe`: `NoImageLost` for
  every setting of `Stubborn`; the invariant says for each phase which
  file still holds the authoritative image (`Replacing`: after the safety backup,
  `RollingBack`: a rollback only starts with the old epoch on the disk).
  `EpochSafe` and `ReplacementAtomic`, unless a rollback image is left where its
  removal failed unseen; they rest on `GenerationInv`, which relates journal, epoch
  file and the three images at every step. Without it `ReplacesAtomically` is not
  inductive: the journal of a crashed Restore decides what the next start does. The
  state in which a recovery has left no database is in it (`Lost`): every later start
  is refused there, so no other database comes in its place.
  With a stale `.restore_previous` these two fail (finding 13). `CommitFinal` (`Spec
  => CommittedNeverRolledBack`) holds all the same: by `CommitInv` a journal always
  names an older and a newer epoch, none above the last one issued, so the durable
  epoch tells a committed Restore from one to undo however old the files beside it
  are; and what is in place when the last steps of a Restore run (`SettleFiles`) is a
  whole image.
  For `SchemaUpgrade`: `VersionsNameShapes` (`UpgradeSpec => []VersionNamesTheShape`),
  `ReadyStaysCurrent` (`UpgradeSpec => []ReadyIsCurrent`) and `NothingIsLost`
  (`UpgradeSpec => NothingLost`), for any finite set of requirements, any records, any
  rows, by `UpgradeInv`. A migration is a fold of
  statements, so it is shown once for all that a sequence of statements is a trace of
  shapes (`RunsTrace`, an induction over the index sets). Then each migration takes a
  shape that lacks at most what earlier releases left out to one that lacks no more
  (`UpgradedFollows`) and keeps what lasts (`UpgradedLasts`); for a rebuilt table this
  is where the list of copied columns matters. What the open transaction holds may
  lack more than what is committed (`Late` against `Older`): a version between two
  commits carries what the version it came from had left out, and only at the versions
  that are committed is that known to be made up for. The rows follow from
  `RowsMigrated`, composed over versions 21 to 23, and `NothingLost` from `Outlives`:
  what the connection sees has lost nothing of what is committed, whatever number of
  migrations lies between.
- **`HostWriteExecutorProofs`**. `TypeCorrect`, `QueueBounded` (`Spec =>
  []QueueIsBounded`, exact counters and the bound on the queue together), `EffectAtMostOnce`,
  `PublishedAtMostOnce`, and `ImplementsLedger` (`Spec => AnswersAreTrue`). The
  inductive invariant `Inductive` says that every ticket is in one place
  (`HeldApart`, `AnsweredApart`, `CommittedApart`, `TicketsIssued`), that queued
  callbacks are already true (`CallbacksTrue`), that the counters are exact
  (`CountersExact`, `Capacity`) and that a stopped process holds nothing (`Quiet`).
  An answer given now must stay true, so `CallbacksTrue` needs that nobody else
  can commit the ID of a queued callback differently.
- **`HostEntranceProofs`**, of the two models that stand at the entrance of a Host. For
  `HostMaintenance`: `BoundaryTypeCorrect`, `EntrancesTogether`, `ExclusiveReplacement`,
  `ClosedForGood`, `AdmittedRun`. The point of the argument is that `Maintenance` alone
  is *not* exclusive (a job may be in the gap) and that the closed connections are:
  `ClosedIsQuiet` holds since a close is answered by the worker after its last job. For
  `HostAdmission`: `TypeCorrect`, `AccountsExact`, `SharesKept`, `AdmittedFindsRoom`, by
  cardinalities of the sets of live leases. These are about every number of overlaps
  and claim the properties up to the first.
- **`RemoteMutationProofs`**. `TypeCorrect`, `EffectOnceWhereSubmitted`
  (`Spec => []RunsOnceWhereSubmitted`), `EpochKept`, and `DialogIsToldTheTruth`
  (`Spec => VerdictsAreTrue`, the refinement of `MutationLedger`). `IndInv` says
  that the Host can only hold requests of its own epoch (`RequestsAreCurrent`,
  since a session dies with the process) and that a run of this epoch has its
  receipt (`RunsAreRecorded`); this gives both theorems about Restores at once.
  `TicketInv` follows an attempt through the wire, the queue and the answers: it
  is in one place, has no verdict while the client waits, and its answer says
  what happened to it; `RESULT_TOO_LARGE` says so in the sense of `Meaning`.

- **`StockBuildProofs`**, for any number of Builds, rows, parts, records, makers and
  pieces. `RequirementsRespected` (`Spec => []RequirementNotExceeded`),
  `ProvenanceAccounts` (`Spec => []ProvenanceComplete`), `NoPieceTwice` (`Spec =>
  NoDoubleUse`), `ImplementsLedger` (`Spec => LedgerKept`, the refinement of
  `PieceLedger`) and `CompleteStaysWhole` (`Spec => []CompleteIsWhole`). All of
  them rest on `TablesKept`: the tables have their shape, no more than `MaxPieces`
  pieces are owned, what a row has pulled and reserved is within its need, no
  allocation is left without a row, and provenance and pulled pieces agree. The
  properties are about sums over tables. What such a sum does when one summand
  changes, when one set is split into two or when every summand of one sum is bounded
  by that of another is shown for the fold the sum is defined by, by an induction over
  the subsets of a finite set that takes no operator as a parameter: a set of
  counterexamples would have a smallest one (`SubsetInduction`, from `WFMin`). The
  automatic allocation, a fold over the records, and the two kinds of return are
  reduced to these lemmas. `CompleteStaysWhole` has an invariant of its own, `IInv`,
  with `RowsTyped`: rows belong to Builds that exist and have numbers in them until
  their Build is Disassembled.
- **`HostSessionsProofs`**. `BooksKept` (`Spec => []BooksAgree`), `SecretsKept` (`Spec =>
  []SecretsFollowRecords`) and `RevokedLeave` (`Spec => []RevokedAreLeaving`) for any
  finite set of devices and any sessions, revisions and queues, by `SessionsInv`: the
  coordinator's two tables are each other's inverse, a device is counted while it has
  a session or is within its grace, and a state in force has that count and a
  revision. `PacedSafely` (`Spec => []SafelyPaced`) needs `PacedInv`, a statement about
  one installation, its Host and the two queues between them: the registrations going
  up end with what the installation is now, no notice coming down is of a later state
  than the Host's, and a registered installation has the Host's state or a notice of it
  on its way. It is about the sessions that are not `outdated`, and about the Host from
  its next recount on; finding 9 is what happens to the others.
- **`RemoteRefreshProofs`**. `MarksFitTogether` (`Spec => []MarksAgree`) and
  `NothingStaleUnknown` (`Spec => []KnownStale`) for any projections, panels and dialogs
  and any length of the link. `KnownStale` is not inductive: a read that commits have
  overtaken looks like an answer, and only the invalidation behind it makes up for
  that (`Overtaken`); a lost session must leave nothing asked (`Quiet`) and a destroyed
  dialog no read (`Destroyed`). The steps of a Client compose a dozen operators of the
  coordinator and the widgets. Each is shown to forget nothing of a panel (`Follows`:
  marks and requests stay, or are replaced by others that stand for them), and so are
  their compositions.

- **`RebrickableRequestsProofs`**. `RequestsKept`, `QueuesStayAttended` (`Spec =>
  []QueuesAttended`) and `MarksStayRequests` (`Spec => []MarksAreRequests`) for any finite
  set of Parts, any images, paged calls and deeds, and any batch and page limits, by
  `Kept`. That a mark has a request is not inductive by itself: when a request ends its
  marks go, which is right only if no other request stands for them. So `Matched` says
  that every mark belongs to exactly one request, queued or sent, except for those in
  the hands of the handler at work (`K`, empty between steps). The drains fold an answer
  over the sequence of the requests, and a fold is defined by recursion; that it keeps
  `Matched` is shown by `SubsetInduction` over the sets of indices (`FoldExists`,
  `FoldUnique`).

Only model-checked are the liveness properties, which are out of reach of this prover:
`SubmissionsAreAnswered`, `ShutdownTerminates`, `EntryIsDecided`, `RestoreEnds`,
`LostSessionDrains`, `Settles`, `UpgradeCompletes` and `WaitsEnd`. Every invariant
and every action property of a passing run is a theorem.

## 6 Findings

What the code does differently from what the repository says of it. The first is a
run; the others have a configuration on demand (section 3).

1. *A Restore that is interrupted early cannot be recovered*
   (`DatabaseRestoreTransaction.cpp:143`). `rollback` removes the live database
   before it looks for the rollback image. After a crash between the journal and
   the move of the live file, or a second crash in the recovery, the live file is
   removed and every start is refused. The data is still in the safety backup, as
   `ImageSafe` shows.
2. *A local change in maintenance* (`CatalogSetPartOutService.cpp:222`). A Part Out
   tests the gate once and writes from its own thread, possibly in maintenance and
   during a replacement.
3. *A refused Restore closes the Host* (`BrickSuiteNetworkManager.cpp:313`).
   `beginShutdown` comes before the executors are asked, so the Host stays closed
   although the user is told that nothing was started.
4. *A failed entry leaves clients suppressed* (`HostMaintenanceCoordinator.cpp:85`).
   Only leaving maintenance sends the invalidation that ends it. A help text
   (`resources/help/bricksuite_server.html:32`) also says that maintenance is
   active once the queues are idle; the gap above makes it earlier.
5. *Leases are released without a lock* (`HostRequestAdmissionController.cpp:40`).
   A release on a worker thread can lose an update of the application thread.
6. *A retry that is refused counts as a failure of the mutation*
   (`RemoteMutationApplicationServices.cpp:56`). A dialog with an unknown outcome
   that retries while the client is offline, connecting, or answered `HOST_BUSY`
   or `HOST_MAINTENANCE`, is told of a definitive failure and gives its ID up,
   although the first attempt may have run. The protocol
   (`docs/BRICKSUITE_PROTOCOL_1_2.md:156`) calls such outcomes unknown and retains the
   request and its ID.
7. *A Complete Build may not be returnable* (`BuildLifecycleService.cpp:170`, and
   `ui/builds/DisassembleSetDialog.cpp:656`). The return plan compares what one row
   pulled with the provenance of the whole Build for the row's part. When two rows
   have the same effective part, which substitution makes, there is no plan and the
   Build cannot be disassembled (`resources/help/builds.html:12`, `:24`).
8. *A database of version 6 to 9 may be refused for ever*
   (`DatabaseSchema.cpp:257`, `:1617`). The special case for databases of version 10
   whose `build` table does not accept Cancelled tests the version before the upgrade
   begins; an older one reaches version 10 within the transaction, where the rebuild
   cannot begin its own. Every start fails, although the comment at
   `DatabaseSchema.cpp:251` says that existing databases were handled before.
   `UpgradeCompletes` excepts exactly these (`RefusedForEver`).
9. *Every report of the Host's provider undoes the shared pacing*
   (`RebrickableCoordinationService.cpp:85`, `network/BrickSuiteNetworkManager.cpp:254`).
   On a Host, `configureRemote(false)` clears the state and revision that
   `configureHost` has just published, also when the status that is reported is the
   old one. Until its next recount the Host paces its own requests as if it were
   alone; and as it numbers the next states from the beginning, the Clients that are
   connected take them for old news and keep an interval that may be too short, until
   they reconnect or the numbers have caught up (`resources/help/settings.html:142-146`).
   `EverybodyPaced` is that text; `SafelyPaced` is what remains of it, about sessions
   made since the last report and about the Host from its next recount on.
10. *A refused search does not end the sending* (`RebrickableService.cpp:1149`). The
    answer to a search is never looked at for a 429 or a ban, unlike every other one
    (`resources/help/settings.html:151`).
11. *The write executor can hold one mutation too many* (`HostWriteExecutor.cpp:94`).
    Between `--m_queued` and `++m_active` a job is in neither counter, and the decision
    at `:308` adds the two. So with 16 waiting and one in the gap 17 are held, where
    `docs/BRICKSUITE_PROTOCOL_1_2.md:172` says 16. In the composed program the 16 leases
    of `HostRequestAdmissionController`, which are released after the job, keep the
    total within the limit (`RoomForAdmitted`).
12. *A mutation whose result is too large counts as failed*
    (`network/HostOutboundPolicy.cpp:41`). The result of a committed mutation that does
    not fit is replaced by the error `RESULT_TOO_LARGE`;
    `RemoteMutationApplicationServices.cpp:104` takes it for definitive, the dialog is
    told of a failure and gives the ID up. The protocol
    (`docs/BRICKSUITE_PROTOCOL_1_2.md:157`) counts a result that cannot be validated
    among the unknown outcomes.
13. *A rollback image that could not be removed is used by a later Restore*
    (`DatabaseRestoreTransaction.cpp:224`, `:271`). The results of both removals are
    ignored. If the next Restore is interrupted before it moves the live file aside,
    the recovery moves the old image back, validates it and serves it under the epoch
    of a newer database. `EpochSafe` and `ReplacementAtomic` therefore assume that this
    one removal succeeds.

Met while modelling, without a property of their own:

- A Restore that is refused after `automaticBackups.stop()`
  (`DatabaseRestoreCoordinator.cpp:93`, `:120`) leaves automatic backups stopped.
- With 16 requests outstanding `enqueueRequest` returns without calling anybody
  (`BrickSuiteWebSocketClient.cpp:256`), although `submit` has stored the epoch: the
  dialog waits until it is closed. `RemoteMutation` has this as the outcome `unheard`.
- `createSnapshot` removes an existing destination before the rename that may fail
  (`DatabaseManager.cpp:258`); then both files are gone. Automatic and safety backups
  always name a new file.
- `updateOrMerge` with a merge and a changed quantity writes a "Merge" movement only
  (`InventoryRecordRepository.cpp:1006`), so the change of quantity has no entry in the
  history (`resources/help/logging.html:48`).
- The local completion of a Build from a Set confirms a stale dialog without looking
  at the status again (`BuildMutationService.cpp:169`); the Host's service does
  (`HostBuildMutationService.cpp:241`).
- Closing a Pulling dialog while its read is outstanding leaves the projection in
  flight: the other open dialogs are no longer refreshed by events until a reconnection
  or maintenance (`ui/builds/BuildsWidget.cpp:2838`;
  `resources/help/bricksuite_server.html:7`). `KnownStale` still holds, since the
  projection stays marked; `Settles` leaves dialogs out.
- A direct lookup that failed for a printed Part whose batch counted as loaded cannot
  be retried: `ensureExternalIds` returns without a signal and the preview shows
  "Resolving..." (`PartExternalIdEnrichmentService.cpp:65`). Parts that
  `dispatchPending` drops as inactive, and Parts asked for only by an image request
  that is under way, wait likewise. `WaitsEnd` excepts these
  waits and no others (`Excepted`): one of a Part that is being looked up ends.
- If `BEGIN` fails in the rebuild of version 26, foreign keys stay off for the
  connection, which is then refused anyway; a failed `foreign_key_check` after a commit
  of version 11, 16 or 27 is reported once and only looked at again at version 28.

## 7 Assumptions and limits

- Restore: a rename is atomic; `QSaveFile` replaces its file atomically; what a
  committed file operation wrote survives a crash of the process (a power failure
  is not modelled).
- Write executor: nobody retries an ID after the 90 days its receipt is kept; the
  context of the callbacks outlives the executor, so the branch that publishes
  without a callback is unreachable; SQLite commits or does not.
- Maintenance: the four loads of `evaluateDrain` are one step. That is sound: with
  the entrances closed idle stays idle, but for the gap, which is modelled. The
  branch of `closeConnectionAsync` for a thread that does not run and the end of
  the network manager at quit are left out, and so are the leases. The user
  enters and leaves maintenance only when no Restore is under way, as the menu
  allows. A refused Restore leaves the automatic backup stopped
  (`DatabaseRestoreCoordinator.cpp:93`).
- Admission: what a race does to the hash tables beyond a lost update is undefined
  behaviour and not modelled. An answer is sent before the worker drops its copy,
  so a Client at its limit may be refused once too often; that is within the
  documented meaning of `HOST_BUSY`.
- Remote mutations: the Host offers data epochs. A Client that ends forgets its
  IDs, and a new ID is a new mutation. Reads are left out, so the full map of
  pending requests is a nondeterministic choice. One Client is modelled; another
  one has other IDs and its own connection. The comparison of epochs at the Host
  never refuses anything in the model because a session does not survive the
  process that was restored; it stays in the model as in the code.
- Stock and Builds: of the identity of a record its part, place and maker are kept;
  condition and ownership act like the maker. Planned and Pulling are one status. The
  places a dialog noted for an allocation, movements and compositions are left out.
  Leftover allocations of spare rows survive a completion, as in the code. Moving,
  editing, correcting and losing pieces look at no allocation, so pieces reserved may
  be taken away; `NoDoubleUse` is about the steps that reserve. Builds of a complete
  Set are not modelled.
- Remote refresh: one Workspace, and the same Host and epoch after a reconnection. A
  panel has one read at a time (a newer one supersedes it). The Workspace list is not
  changed by commits. A burst of invalidations is one message with a set of panels.
  Rows of an answer are not ordered against events, a superset of the wire.
- Schema: of the rows only those of `build_allocation` are followed; the contents of
  columns, back-filled quantities and the seeding of manufacturers are not. A database
  of version 6 to 10 on disk has the original CHECK (`PlainBuilds`), as the releases
  that stopped there made it; this program commits none at these versions. So the
  shortcut for one of version 10 that already accepts Cancelled is taken only within a
  larger upgrade. The index
  `idx_build_workspace_active`, which the rebuild of version 27 drops, is absent from
  the current shape of an upgraded and of a new database alike. A newer database is
  version 36.
- Host sessions: the Host's revisions have a bound, and one report begins them anew;
  in the run one device in detail, others by number. Wrong codes, throttling,
  expiry and last-seen times are left out. What was sent to a session that its Client
  has lost is lost. A request that was buffered before a revoked session closes may
  still be read: the session is closed by a queued call (`RevokedAreLeaving` says so).
- Rebrickable requests: image items are a set, so which is next is open. A key can be
  entered, not removed. What a Restore does to the image cache, and which Parts the
  mapping resolver can export, are left out.

### Not modelled

Cryptography, certificates, JSON encoding and SQL text are data whose content no
property tells apart. Geometry and printing are numerical. The widgets, models and
layout of `ui` hold no state that outlives a request but for the surfaces in
`RemoteRefresh`, the preview in `RebrickableRequests`, the return rows in `StockBuild`
and the retry loop in `RemoteMutation`; they are half of the lines of the program, and
the importers and catalog look-ups, one SQL transaction or query each, are much of the
other half. The status dialog of the database reads pragmas. The remaining parts with
state are in the plan.

## 8 Plan

Done: 1 `RestoreTransaction`, 2 `HostWriteExecutor` with `MutationLedger`,
3 `HostMaintenance`, 4 `HostAdmission`, 5 `RemoteMutation`, 6 `StockBuild` with
`PieceLedger`, 7 `RemoteRefresh`, 8 `SchemaHistory` and `SchemaUpgrade`,
9 `HostSessions`, 10 `RebrickableRequests`; proofs of every safety property a run checks for
1 to 10.

Next:

11. `AutomaticBackup` (schedule, retry, retention under clock changes): never the last
    good file removed, a check always due within an hour.
12. `CollectionBuild` (Builds of a complete Set, the frozen disassembly plan, the owned
    quantity) on top of `StockBuild`, and `StorageHierarchy` (a forest with unique
    sibling names).
