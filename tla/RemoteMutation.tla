--------------------------- MODULE RemoteMutation ---------------------------
(***************************************************************************)
(* A remote mutation from the dialog of a client to the database of the    *)
(* Host and back: RemoteMutationApplicationServices, the pending requests  *)
(* of BrickSuiteWebSocketClient, HostMutationProtocolService and the data  *)
(* epoch that a Restore of the Host changes.                               *)
(*                                                                         *)
(* The Host is seen through what its own modules establish: a request is   *)
(* run at most once against the receipts of the database                   *)
(* (HostWriteExecutor), and the database is replaced only when no request  *)
(* is held (HostMaintenance), under a new epoch (RestoreTransaction).      *)
(* The wire, the queue and the replies are sets: any order is allowed.     *)
(***************************************************************************)
EXTENDS Integers

CONSTANTS
    Ids,            \* mutation IDs, one for each dialog
    MaxAttempts,    \* bound: calls of submit()
    MaxEpoch        \* bound: Restores of the Host

ASSUME RemoteAssumption == MaxAttempts \in Nat /\ MaxEpoch \in Nat \ {0}

VARIABLES
    connection,     \* status of the client, without the states of hello
    clientEpoch,    \* m_dataEpoch, 0 for the empty string
    epochByUnknownMutation,     \* m_epochByUnknownMutation, 0 for no entry
    pending,        \* m_pending, the mutations only
    outcome,        \* what the dialog of an ID was told last
    attempts,       \* calls of submit() so far
    alive,          \* the Host still has the session of the client
    wire,           \* requests sent that the Host has not read
    replies,        \* answers sent that the client has not read
    open,           \* m_operationalAdmissionOpen
    queue,          \* requests in the Host's write executor
    epoch,          \* the Host's data epoch
    receipts,       \* IDs with a receipt in the Host's database
    past            \* every set of receipts a backup may hold

client == <<connection, clientEpoch, epochByUnknownMutation, pending, outcome,
            attempts>>
host == <<open, queue, epoch, receipts, past>>

\* What happened, for the properties: the epoch of the first submission of an
\* ID, every run of an ID as <<attempt, epoch>>, and the verdicts given.
VARIABLES firstEpoch, runs, verdicts
history == <<firstEpoch, runs, verdicts>>
vars == <<client, alive, wire, replies, host, history>>

Attempts == 1 .. MaxAttempts
Epochs == 1 .. MaxEpoch
Requests == [attempt : Attempts, id : Ids, epoch : Epochs]
Answers == {"result", "replayed", "tooLarge", "refused", "maintenance"}
Submission(a, i) == [ticket |-> a, id |-> i, payload |-> "request"]
Verdicts == [request : [ticket : Attempts, id : Ids, payload : {"request"}],
             kind : {"result", "replayed", "tooLarge", "error"}]

TypeOK ==
    /\ connection \in {"offline", "connecting", "online", "maintenance"}
    /\ clientEpoch \in {0} \cup Epochs
    /\ epochByUnknownMutation \in [Ids -> {0} \cup Epochs]
    /\ pending \subseteq Requests
    /\ outcome \in [Ids -> {"none", "waiting", "unheard", "unknown", "stale",
                            "failed", "done"}]
    /\ attempts \in {0} \cup Attempts
    /\ alive \in BOOLEAN
    /\ wire \subseteq Requests
    /\ replies \subseteq Requests \X Answers
    /\ open \in BOOLEAN
    /\ queue \subseteq Requests
    /\ epoch \in Epochs
    /\ receipts \subseteq Ids
    /\ past \subseteq SUBSET Ids
    /\ firstEpoch \in [Ids -> {0} \cup Epochs]
    /\ runs \in [Ids -> SUBSET (Attempts \X Epochs)]
    /\ verdicts \subseteq Verdicts

Init ==
    /\ connection = "offline"
    /\ clientEpoch = 0
    /\ epochByUnknownMutation = [i \in Ids |-> 0]
    /\ pending = {}
    /\ outcome = [i \in Ids |-> "none"]
    /\ attempts = 0
    /\ alive = FALSE
    /\ wire = {}
    /\ replies = {}
    /\ open = TRUE
    /\ queue = {}
    /\ epoch = 1
    /\ receipts = {}
    /\ past = {{}}
    /\ firstEpoch = [i \in Ids |-> 0]
    /\ runs = [i \in Ids |-> {}]
    /\ verdicts = {}

-----------------------------------------------------------------------------
(***************************************************************************)
(* submit().  A dialog calls it once, and again with the same ID as long   *)
(* as it is told that the outcome is unknown.                              *)
(***************************************************************************)
Retained(i) == epochByUnknownMutation[i] # 0

\* Mutant: the epoch of the first attempt is not compared.
StaleNever(i) == FALSE
Stale(i) == Retained(i) /\ epochByUnknownMutation[i] # clientEpoch

\* isAvailableFor, for an operation that the Host offers.
Available == connection = "online"

FailHere(i, how) ==
    /\ outcome' = [outcome EXCEPT ![i] = how]
    /\ verdicts' = verdicts \cup
           {[request |-> Submission(attempts + 1, i), kind |-> "error"]}
    /\ UNCHANGED <<connection, clientEpoch, epochByUnknownMutation, pending,
                   alive, wire, replies, host, firstEpoch, runs>>

NewRequest(i) == [attempt |-> attempts + 1, id |-> i, epoch |-> clientEpoch]

\* enqueueRequest returns at once, and calls nobody, when reads and mutations
\* have filled the map of pending requests; the reads are not modelled.
Send(i) ==
    /\ epochByUnknownMutation' = [epochByUnknownMutation EXCEPT ![i] = clientEpoch]
    /\ firstEpoch' = IF firstEpoch[i] = 0
                     THEN [firstEpoch EXCEPT ![i] = clientEpoch] ELSE firstEpoch
    /\ \/ /\ pending' = pending \cup {NewRequest(i)}
          /\ wire' = IF alive THEN wire \cup {NewRequest(i)} ELSE wire
          /\ outcome' = [outcome EXCEPT ![i] = "waiting"]
       \/ /\ outcome' = [outcome EXCEPT ![i] = "unheard"]
          /\ UNCHANGED <<pending, wire>>
    /\ UNCHANGED <<connection, clientEpoch, alive, replies, host, runs, verdicts>>

Submit(i) ==
    /\ outcome[i] \in {"none", "unknown"}
    /\ attempts < MaxAttempts
    /\ attempts' = attempts + 1
    /\ \/ Stale(i) /\ FailHere(i, "stale")
       \/ ~Stale(i) /\ ~Available /\ FailHere(i, "failed")
       \/ ~Stale(i) /\ Available /\ Send(i)

-----------------------------------------------------------------------------
(***************************************************************************)
(* The connection of the client.                                           *)
(***************************************************************************)
PendingIds == {r.id : r \in pending}
Unknown(is) == [i \in Ids |-> IF i \in is THEN "unknown" ELSE outcome[i]]

\* Mutant: the requests of a lost connection count as refused.
DisconnectRefusing ==
    /\ connection # "offline"
    /\ connection' = "offline"
    /\ pending' = {}
    /\ outcome' = [i \in Ids |-> IF i \in PendingIds THEN "failed" ELSE outcome[i]]
    /\ verdicts' = verdicts \cup
           {[request |-> Submission(r.attempt, r.id), kind |-> "error"] :
                r \in pending}
    /\ alive' = FALSE
    /\ UNCHANGED <<clientEpoch, epochByUnknownMutation, attempts, wire, replies,
                   host, firstEpoch, runs>>

\* handleDisconnected and disconnectFromHost, failPending with TIMEOUT.  What
\* was sent may still be read by the Host.
Disconnect ==
    /\ connection # "offline"
    /\ connection' = "offline"
    /\ pending' = {}
    /\ outcome' = Unknown(PendingIds)
    /\ alive' = FALSE
    /\ UNCHANGED <<clientEpoch, epochByUnknownMutation, attempts, wire, replies,
                   host, history>>

\* connectToHost, by the reconnect timer or the user.
Connect ==
    /\ connection = "offline"
    /\ connection' = "connecting"
    /\ clientEpoch' = 0
    /\ UNCHANGED <<epochByUnknownMutation, pending, outcome, attempts, alive,
                   wire, replies, host, history>>

\* The response to system.capabilities ends the handshake.
Established ==
    /\ connection = "connecting"
    /\ connection' = "online"
    /\ clientEpoch' = epoch
    /\ alive' = TRUE
    /\ UNCHANGED <<epochByUnknownMutation, pending, outcome, attempts, wire,
                   replies, host, history>>

\* An invalidation of the Host reaches a client that shows Host Maintenance.
Invalidated ==
    /\ connection = "maintenance"
    /\ connection' = "online"
    /\ UNCHANGED <<clientEpoch, epochByUnknownMutation, pending, outcome,
                   attempts, alive, wire, replies, host, history>>

-----------------------------------------------------------------------------
(***************************************************************************)
(* The end of a pending request.                                           *)
(***************************************************************************)
Timeout(r) ==
    /\ r \in pending
    /\ pending' = pending \ {r}
    /\ outcome' = [outcome EXCEPT ![r.id] = "unknown"]
    /\ UNCHANGED <<connection, clientEpoch, epochByUnknownMutation, attempts,
                   alive, wire, replies, host, history>>

Resolve(r, how, kind) ==
    /\ outcome' = [outcome EXCEPT ![r.id] = how]
    /\ epochByUnknownMutation' = [epochByUnknownMutation EXCEPT ![r.id] = 0]
    /\ verdicts' = verdicts \cup
           {[request |-> Submission(r.attempt, r.id), kind |-> kind]}

\* A committed success whose payload cannot be validated.
Unusable(r) ==
    /\ outcome' = [outcome EXCEPT ![r.id] = "unknown"]
    /\ UNCHANGED <<epochByUnknownMutation, verdicts>>

\* handleResponse; a reply that matches no pending request is ignored.  Every
\* error is definitive, but for those the client makes itself (Unknown).
Reply(r, answer) ==
    /\ <<r, answer>> \in replies
    /\ replies' = replies \ {<<r, answer>>}
    /\ r \in pending
    /\ pending' = pending \ {r}
    /\ connection' = IF answer = "maintenance" THEN "maintenance" ELSE connection
    /\ \/ /\ answer \in {"refused", "maintenance"}
          /\ Resolve(r, "failed", "error")
       \/ /\ answer = "tooLarge"
          /\ Resolve(r, "failed", "tooLarge")
       \/ /\ answer \in {"result", "replayed"}
          /\ Resolve(r, "done", answer) \/ Unusable(r)
    /\ UNCHANGED <<clientEpoch, attempts, alive, wire, host, firstEpoch, runs>>

-----------------------------------------------------------------------------
(***************************************************************************)
(* The Host.                                                               *)
(***************************************************************************)
Respond(r, answer) == replies' = replies \cup {<<r, answer>>}

\* A frame reaches the Host: it is refused at the admission, refused because
\* it names another database, or queued.
Receive(r) ==
    /\ r \in wire
    /\ wire' = wire \ {r}
    /\ IF open /\ r.epoch = epoch
       THEN \/ queue' = queue \cup {r} /\ UNCHANGED replies
            \/ Respond(r, "refused") /\ UNCHANGED queue
       ELSE /\ Respond(r, IF open THEN "refused" ELSE "maintenance")
            /\ UNCHANGED queue
    /\ UNCHANGED <<client, alive, open, epoch, receipts, past, history>>

\* A connection that broke may take the requests in it along.
Lose(r) ==
    /\ r \in wire
    /\ r \notin pending
    /\ wire' = wire \ {r}
    /\ UNCHANGED <<client, alive, replies, host, history>>

Ran(r) == runs' = [runs EXCEPT ![r.id] = @ \cup {<<r.attempt, r.epoch>>}]

\* HostOutboundPolicy: what leaves in place of a successful answer, whose size is
\* left open.  A refusal is always short.
Sent(answer) == {answer, "tooLarge"}

\* The write executor: a receipt answers, otherwise the mutation commits
\* together with its receipt or fails without effect.
Execute(r) ==
    /\ r \in queue
    /\ queue' = queue \ {r}
    /\ \/ /\ r.id \in receipts
          /\ \E answer \in Sent("replayed") : Respond(r, answer)
          /\ UNCHANGED <<receipts, past, runs>>
       \/ /\ r.id \notin receipts
          /\ receipts' = receipts \cup {r.id}
          /\ past' = past \cup {receipts'}
          /\ Ran(r)
          /\ \E answer \in Sent("result") : Respond(r, answer)
       \/ /\ Respond(r, "refused")
          /\ UNCHANGED <<receipts, past, runs>>
    /\ UNCHANGED <<client, alive, wire, open, epoch, firstEpoch, verdicts>>

\* closeAdmission and leaveMaintenance.
ToggleMaintenance ==
    /\ open' = ~open
    /\ UNCHANGED <<client, alive, wire, replies, queue, epoch, receipts, past,
                   history>>

\* The Host process ends, with every connection, and starts again.
Stopped ==
    /\ alive' = FALSE
    /\ wire' = {}
    /\ queue' = {}
    /\ open' = TRUE
    /\ UNCHANGED <<client, replies, history>>

Restart == Stopped /\ UNCHANGED <<epoch, receipts, past>>

Restore(image) ==
    /\ ~open /\ queue = {}
    /\ epoch < MaxEpoch
    /\ receipts' = image
    /\ epoch' = epoch + 1
    /\ Stopped
    /\ UNCHANGED past

-----------------------------------------------------------------------------
Next ==
    \/ \E i \in Ids : Submit(i)
    \/ Disconnect \/ Connect \/ Established \/ Invalidated
    \/ \E r \in pending : Timeout(r) \/ \E a \in Answers : Reply(r, a)
    \/ \E r \in wire : Receive(r) \/ Lose(r)
    \/ \E r \in queue : Execute(r)
    \/ ToggleMaintenance \/ Restart
    \/ \E image \in past : Restore(image)

Spec == Init /\ [][Next]_vars

-----------------------------------------------------------------------------
\* A retry never carries a mutation into another database than the one its
\* user saw: an ID runs only in the epoch of its first submission, however
\* often it is sent again and whatever backup is restored in between
\* (RemoteMutationApplicationServices.cpp:43-55, HostMutationProtocolService
\* .cpp:54-59).
RunsWhereSubmitted == \A i \in Ids : \A x \in runs[i] : x[2] = firstEpoch[i]

\* A mutation takes effect once over all attempts, although a Restore may have
\* taken its receipt away.
RunsOnce == \A i \in Ids : \A x, y \in runs[i] : x = y

\* Both: one effect, where its user asked for it, or none at all.
RunsOnceWhereSubmitted == RunsOnce /\ RunsWhereSubmitted

\* As long as its outcome is open, an ID keeps the epoch it was first sent
\* under, so that a retry can be recognised as stale.
UnknownKeepsEpoch ==
    \A i \in Ids : outcome[i] \in {"waiting", "unknown", "unheard"} =>
        epochByUnknownMutation[i] = firstEpoch[i]

\* RESULT_TOO_LARGE is counted as what can be relied on after it: the mutation
\* is in effect.
Meaning(v) == IF v.kind = "tooLarge" THEN [v EXCEPT !.kind = "replayed"] ELSE v

\* What a dialog is told of an attempt is true of that attempt, now and after
\* every retry, loss and Restore: "done" of one whose mutation is in effect, and
\* each failure but RESULT_TOO_LARGE of one that never ran and never will.
\* RESULT_TOO_LARGE is said of none but a mutation that is in effect.
Ledger == INSTANCE MutationLedger WITH
    Payloads <- {"request"},
    None <- "none",
    Tickets <- Attempts,
    ledger <- [i \in Ids |-> IF runs[i] = {} THEN "none" ELSE "request"],
    appliedBy <- [i \in Ids |-> IF runs[i] = {} THEN 0
                                ELSE (CHOOSE x \in runs[i] : TRUE)[1]],
    answers <- {Meaning(v) : v \in verdicts},
    forgotten <- {}
VerdictsAreTrue == Ledger!Spec

-----------------------------------------------------------------------------
\* Protocol 1.2, lines 156-159: after a timeout or a lost connection the client
\* "retains the exact request and mutation ID", so a dialog that is told of a
\* failure, and gives its ID up, can rely on the mutation not having run.
FailureMeansNotRun == \A i \in Ids : outcome[i] = "failed" => runs[i] = {}

\* Protocol 1.2, lines 157-159: "Neither does a committed-success response whose
\* envelope, mutation identity, operation, or authoritative result cannot be
\* validated.  These are unknown outcomes."  So an attempt of which a dialog is told
\* that it failed has not run.
FailedAttemptsDidNotRun ==
    \A v \in verdicts : v.kind \in {"error", "tooLarge"} =>
        \A x \in runs[v.request.id] : x[1] # v.request.ticket
=============================================================================
