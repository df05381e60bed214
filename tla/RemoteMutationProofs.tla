------------------------ MODULE RemoteMutationProofs ------------------------
(***************************************************************************)
(* Theorems about RemoteMutation, for any set of mutation IDs and any      *)
(* number of attempts and Restores.                                        *)
(***************************************************************************)
EXTENDS RemoteMutation, TLAPS

-----------------------------------------------------------------------------
(***************************************************************************)
(* The inductive invariant.                                                *)
(***************************************************************************)
\* A session that the Host still has was opened in the Host's epoch.
SessionIsCurrent ==
    /\ connection \in {"online", "maintenance"} => clientEpoch # 0
    /\ alive => clientEpoch = epoch
    /\ alive \/ pending # {} => connection \in {"online", "maintenance"}

\* What the Host may still run was sent under its epoch, the first of the ID.
RequestsAreCurrent ==
    \A r \in wire \cup queue : r.epoch = epoch /\ firstEpoch[r.id] = epoch

FreshIds == \A i \in Ids : outcome[i] = "none" => firstEpoch[i] = 0

OpenIds ==
    \A i \in Ids : outcome[i] \in {"waiting", "unknown", "unheard"} =>
        firstEpoch[i] # 0 /\ epochByUnknownMutation[i] = firstEpoch[i]

PendingWaits ==
    /\ \A r \in pending : outcome[r.id] = "waiting"
    /\ \A r, s \in pending : r.id = s.id => r = s

\* A run is of the first epoch, and has its receipt as long as that lasts.
RunsAreRecorded ==
    \A i \in Ids : \A x \in runs[i] :
        /\ x[2] = firstEpoch[i] /\ x[2] <= epoch
        /\ x[2] = epoch => i \in receipts

IndInv ==
    /\ TypeOK
    /\ SessionIsCurrent
    /\ RequestsAreCurrent
    /\ FreshIds
    /\ OpenIds
    /\ PendingWaits
    /\ RunsAreRecorded
    /\ RunsOnce

LEMMA RequestFields ==
    \A r \in Requests : r.attempt \in Attempts /\ r.id \in Ids /\ r.epoch \in Epochs
BY DEF Requests

LEMMA InitIndInv == Init => IndInv
<1> SUFFICES ASSUME Init PROVE IndInv
  OBVIOUS
<1>1. epoch \in Epochs
  BY RemoteAssumption DEF Init, Epochs
<1>2. TypeOK
  BY <1>1 DEF Init, TypeOK
<1>3. QED
  BY <1>2 DEF Init, IndInv, SessionIsCurrent, RequestsAreCurrent, FreshIds,
              OpenIds, PendingWaits, RunsAreRecorded, RunsOnce

-----------------------------------------------------------------------------
(***************************************************************************)
(* submit().                                                               *)
(***************************************************************************)
LEMMA FailHereStep ==
    ASSUME IndInv, NEW i \in Ids, outcome[i] \in {"none", "unknown"},
           attempts < MaxAttempts, attempts' = attempts + 1,
           NEW how \in {"stale", "failed"}, FailHere(i, how)
    PROVE  IndInv'
<1>1. attempts + 1 \in Attempts
  BY RemoteAssumption DEF IndInv, TypeOK, Attempts
<1>2. verdicts' \subseteq Verdicts
  BY <1>1 DEF FailHere, IndInv, TypeOK, Verdicts, Submission
<1>3. /\ outcome' \in [Ids -> {"none", "waiting", "unheard", "unknown", "stale",
                               "failed", "done"}]
      /\ outcome'[i] = how
      /\ \A j \in Ids : j # i => outcome'[j] = outcome[j]
  BY DEF FailHere, IndInv, TypeOK
<1>4. TypeOK'
  BY <1>1, <1>2, <1>3 DEF FailHere, IndInv, TypeOK, host
<1>5. FreshIds' /\ OpenIds'
  BY <1>3 DEF FailHere, IndInv, FreshIds, OpenIds
<1>6. PendingWaits'
  <2>1. \A r \in pending : r.id \in Ids /\ r.id # i
    BY RequestFields DEF IndInv, TypeOK, PendingWaits
  <2>2. QED
    BY <1>3, <2>1 DEF FailHere, IndInv, PendingWaits
<1>7. SessionIsCurrent' /\ RequestsAreCurrent' /\ RunsAreRecorded' /\ RunsOnce'
  BY DEF FailHere, IndInv, SessionIsCurrent, RequestsAreCurrent, RunsAreRecorded,
         RunsOnce, host
<1>8. QED
  BY <1>4, <1>5, <1>6, <1>7 DEF IndInv

\* An ID that is sent again is sent under the epoch of its first attempt.
LEMMA SendKeepsEpoch ==
    ASSUME IndInv, NEW i \in Ids, outcome[i] \in {"none", "unknown"},
           ~Stale(i), Available, Send(i)
    PROVE  /\ clientEpoch \in Epochs
           /\ firstEpoch' = [firstEpoch EXCEPT ![i] = clientEpoch]
           /\ firstEpoch[i] \in {0, clientEpoch}
<1>1. clientEpoch \in Epochs
  BY DEF IndInv, TypeOK, SessionIsCurrent, Available
<1>2. firstEpoch[i] \in {0, clientEpoch}
  BY DEF IndInv, FreshIds, OpenIds, Stale, Retained
<1>3. firstEpoch' = [firstEpoch EXCEPT ![i] = clientEpoch]
  BY <1>2 DEF Send, IndInv, TypeOK
<1>4. QED
  BY <1>1, <1>2, <1>3

LEMMA SendStep ==
    ASSUME IndInv, NEW i \in Ids, outcome[i] \in {"none", "unknown"},
           attempts < MaxAttempts, attempts' = attempts + 1,
           ~Stale(i), Available, Send(i)
    PROVE  IndInv'
<1> DEFINE r0 == NewRequest(i)
<1>1. attempts + 1 \in Attempts
  BY RemoteAssumption DEF IndInv, TypeOK, Attempts
<1>2. /\ clientEpoch \in Epochs
      /\ firstEpoch' = [firstEpoch EXCEPT ![i] = clientEpoch]
      /\ firstEpoch[i] \in {0, clientEpoch}
  BY SendKeepsEpoch
<1>3. r0 \in Requests /\ r0.id = i /\ r0.epoch = clientEpoch
  BY <1>1, <1>2 DEF NewRequest, Requests
<1>4. /\ firstEpoch' \in [Ids -> {0} \cup Epochs] /\ firstEpoch'[i] = clientEpoch
      /\ \A j \in Ids : j # i => firstEpoch'[j] = firstEpoch[j]
  BY <1>2 DEF IndInv, TypeOK
<1>5. /\ epochByUnknownMutation' \in [Ids -> {0} \cup Epochs]
      /\ epochByUnknownMutation'[i] = clientEpoch
      /\ \A j \in Ids : j # i => epochByUnknownMutation'[j] = epochByUnknownMutation[j]
  BY <1>2 DEF Send, IndInv, TypeOK
<1>6. /\ outcome' \in [Ids -> {"none", "waiting", "unheard", "unknown", "stale",
                               "failed", "done"}]
      /\ outcome'[i] \in {"waiting", "unheard"}
      /\ \A j \in Ids : j # i => outcome'[j] = outcome[j]
  BY DEF Send, IndInv, TypeOK
<1>7. pending' \subseteq Requests /\ wire' \subseteq Requests
  BY <1>3 DEF Send, IndInv, TypeOK
<1>8. TypeOK'
  BY <1>1, <1>4, <1>5, <1>6, <1>7 DEF Send, IndInv, TypeOK, host
<1>9. SessionIsCurrent'
  BY DEF Send, Available, IndInv, SessionIsCurrent, host
<1>10. RequestsAreCurrent'
  <2>1. epoch' = epoch /\ queue' = queue
    BY DEF Send, host
  <2>2. \A r \in wire \cup queue : r.id \in Ids /\ r.epoch = epoch
                                   /\ firstEpoch[r.id] = epoch
    BY RequestFields DEF IndInv, TypeOK, RequestsAreCurrent
  <2>3. epoch # 0
    BY DEF IndInv, TypeOK, Epochs
  <2>4. \A r \in wire \cup queue : firstEpoch'[r.id] = epoch
    BY <1>2, <1>4, <2>2, <2>3
  <2>5. r0 \in wire' => r0 \in wire \/ clientEpoch = epoch
    BY DEF Send, IndInv, SessionIsCurrent
  <2>6. wire' \subseteq wire \cup {r0}
    BY DEF Send
  <2>7. SUFFICES ASSUME NEW r \in wire' \cup queue'
                 PROVE  r.epoch = epoch /\ firstEpoch'[r.id] = epoch
    BY <2>1 DEF RequestsAreCurrent
  <2>8. CASE r \in wire \cup queue
    BY <2>2, <2>4, <2>8
  <2>9. CASE r \notin wire \cup queue
    BY <1>3, <1>4, <2>1, <2>5, <2>6, <2>9
  <2>10. QED
    BY <2>8, <2>9
<1>11. FreshIds' /\ OpenIds'
  <2>1. clientEpoch # 0
    BY <1>2 DEF Epochs
  <2>2. \A j \in Ids : j # i => (outcome'[j] = "none" => firstEpoch'[j] = 0)
    BY <1>4, <1>6 DEF IndInv, FreshIds
  <2>3. FreshIds'
    BY <1>6, <2>2 DEF FreshIds
  <2>4. OpenIds'
    BY <1>4, <1>5, <1>6, <2>1 DEF IndInv, OpenIds
  <2>5. QED
    BY <2>3, <2>4
<1>12. PendingWaits'
  <2>1. \A r \in pending : r.id \in Ids /\ r.id # i
    BY RequestFields DEF IndInv, TypeOK, PendingWaits
  <2>2. \/ pending' = pending
        \/ pending' = pending \cup {r0} /\ outcome'[i] = "waiting"
    BY DEF Send, IndInv, TypeOK
  <2>3. \A r \in pending' : outcome'[r.id] = "waiting"
    BY <1>3, <1>6, <2>1, <2>2 DEF IndInv, PendingWaits
  <2>4. \A r, s \in pending' : r.id = s.id => r = s
    BY <1>3, <2>1, <2>2 DEF IndInv, PendingWaits
  <2>5. QED
    BY <2>3, <2>4 DEF PendingWaits
<1>13. RunsAreRecorded' /\ RunsOnce'
  <2>1. UNCHANGED <<runs, epoch, receipts>>
    BY DEF Send, host
  <2>2. \A x \in runs[i] : x[2] \in Epochs
    BY DEF IndInv, TypeOK
  <2>3. \A x \in runs[i] : x[2] = firstEpoch'[i]
    BY <1>2, <1>4, <2>2 DEF IndInv, RunsAreRecorded, Epochs
  <2>4. RunsAreRecorded'
    BY <1>4, <2>1, <2>3 DEF IndInv, RunsAreRecorded
  <2>5. QED
    BY <2>1, <2>4 DEF IndInv, RunsOnce
<1>14. QED
  BY <1>8, <1>9, <1>10, <1>11, <1>12, <1>13 DEF IndInv

LEMMA SubmitStep ==
    ASSUME IndInv, NEW i \in Ids, Submit(i)
    PROVE  IndInv'
BY FailHereStep, SendStep DEF Submit

-----------------------------------------------------------------------------
(***************************************************************************)
(* The connection, and the end of a pending request.                       *)
(***************************************************************************)
LEMMA DisconnectStep ==
    ASSUME IndInv, Disconnect
    PROVE  IndInv'
<1>1. /\ \A i \in Ids : outcome'[i] = IF i \in PendingIds THEN "unknown" ELSE outcome[i]
      /\ outcome' \in [Ids -> {"none", "waiting", "unheard", "unknown", "stale",
                               "failed", "done"}]
  BY DEF Disconnect, Unknown, IndInv, TypeOK
<1>2. \A i \in PendingIds : outcome[i] = "waiting"
  BY DEF PendingIds, IndInv, PendingWaits
<1>3. TypeOK'
  BY <1>1 DEF Disconnect, IndInv, TypeOK, host, history
<1>4. FreshIds' /\ OpenIds'
  BY <1>1, <1>2 DEF Disconnect, IndInv, FreshIds, OpenIds, history
<1>5. QED
  BY <1>3, <1>4 DEF Disconnect, IndInv, SessionIsCurrent, RequestsAreCurrent,
     PendingWaits, RunsAreRecorded, RunsOnce, host, history

LEMMA ConnectionStep ==
    ASSUME IndInv, Connect \/ Established \/ Invalidated
    PROVE  IndInv'
<1>1. CASE Connect
  <2>1. TypeOK'
    BY <1>1 DEF Connect, IndInv, TypeOK, host, history
  <2>2. SessionIsCurrent'
    <3>1. connection \notin {"online", "maintenance"}
      BY <1>1 DEF Connect
    <3>2. ~alive /\ pending = {}
      BY <3>1 DEF IndInv, SessionIsCurrent
    <3>3. connection' \notin {"online", "maintenance"}
      BY <1>1 DEF Connect
    <3>4. ~alive' /\ pending' = {}
      BY <1>1, <3>2, Zenon DEF Connect
    <3>5. QED
      BY <3>3, <3>4 DEF SessionIsCurrent
  <2>3. QED
    BY <1>1, <2>1, <2>2 DEF Connect, IndInv, RequestsAreCurrent, FreshIds, OpenIds,
       PendingWaits, RunsAreRecorded, RunsOnce, host, history
<1>2. CASE Established
  <2>1. epoch # 0 /\ epoch \in Epochs
    BY DEF IndInv, TypeOK, Epochs
  <2>2. TypeOK'
    BY <1>2, <2>1 DEF Established, IndInv, TypeOK, host, history
  <2>3. QED
    BY <1>2, <2>1, <2>2 DEF Established, IndInv, SessionIsCurrent,
       RequestsAreCurrent, FreshIds, OpenIds, PendingWaits, RunsAreRecorded,
       RunsOnce, host, history
<1>3. CASE Invalidated
  <2>1. TypeOK'
    BY <1>3 DEF Invalidated, IndInv, TypeOK, host, history
  <2>2. QED
    BY <1>3, <2>1 DEF Invalidated, IndInv, SessionIsCurrent,
       RequestsAreCurrent, FreshIds, OpenIds, PendingWaits, RunsAreRecorded,
       RunsOnce, host, history
<1>4. QED
  BY <1>1, <1>2, <1>3

\* A pending request ends: its dialog learns how.
LEMMA EndedPending ==
    ASSUME IndInv, NEW r \in pending, pending' = pending \ {r},
           NEW how \in {"unknown", "failed", "done"},
           outcome' = [outcome EXCEPT ![r.id] = how],
           \/ epochByUnknownMutation' = epochByUnknownMutation
           \/ /\ epochByUnknownMutation' = [epochByUnknownMutation EXCEPT ![r.id] = 0]
              /\ how # "unknown",
           UNCHANGED firstEpoch
    PROVE  /\ FreshIds' /\ OpenIds' /\ PendingWaits'
           /\ outcome' \in [Ids -> {"none", "waiting", "unheard", "unknown",
                                    "stale", "failed", "done"}]
           /\ epochByUnknownMutation' \in [Ids -> {0} \cup Epochs]
           /\ pending' \subseteq Requests
<1>1. r.id \in Ids /\ outcome[r.id] = "waiting"
  BY RequestFields DEF IndInv, TypeOK, PendingWaits
<1>2. /\ outcome' \in [Ids -> {"none", "waiting", "unheard", "unknown", "stale",
                               "failed", "done"}]
      /\ outcome'[r.id] = how
      /\ \A j \in Ids : j # r.id => outcome'[j] = outcome[j]
  BY <1>1 DEF IndInv, TypeOK
<1>3. /\ epochByUnknownMutation' \in [Ids -> {0} \cup Epochs]
      /\ \A j \in Ids : j # r.id =>
             epochByUnknownMutation'[j] = epochByUnknownMutation[j]
      /\ how = "unknown" => epochByUnknownMutation' = epochByUnknownMutation
  BY <1>1 DEF IndInv, TypeOK
<1>4. FreshIds'
  BY <1>2 DEF IndInv, FreshIds
<1>5. OpenIds'
  BY <1>1, <1>2, <1>3 DEF IndInv, OpenIds
<1>6. \A s \in pending' : s.id \in Ids /\ s.id # r.id
  BY RequestFields DEF IndInv, TypeOK, PendingWaits
<1>7. PendingWaits'
  BY <1>2, <1>6 DEF IndInv, PendingWaits
<1>8. QED
  BY <1>2, <1>3, <1>4, <1>5, <1>7 DEF IndInv, TypeOK

LEMMA TimeoutStep ==
    ASSUME IndInv, NEW r \in pending, Timeout(r)
    PROVE  IndInv'
<1>1. /\ FreshIds' /\ OpenIds' /\ PendingWaits'
      /\ outcome' \in [Ids -> {"none", "waiting", "unheard", "unknown",
                               "stale", "failed", "done"}]
      /\ pending' \subseteq Requests
  BY EndedPending DEF Timeout, history
<1>2. TypeOK'
  BY <1>1 DEF Timeout, IndInv, TypeOK, host, history
<1>3. QED
  BY <1>1, <1>2 DEF Timeout, IndInv, SessionIsCurrent, RequestsAreCurrent,
     RunsAreRecorded, RunsOnce, host, history

LEMMA ReplyStep ==
    ASSUME IndInv, NEW r \in pending, NEW a \in Answers, Reply(r, a)
    PROVE  IndInv'
<1>1. /\ FreshIds' /\ OpenIds' /\ PendingWaits'
      /\ outcome' \in [Ids -> {"none", "waiting", "unheard", "unknown",
                               "stale", "failed", "done"}]
      /\ epochByUnknownMutation' \in [Ids -> {0} \cup Epochs]
      /\ pending' \subseteq Requests
  BY EndedPending DEF Reply, Resolve, Unusable
<1>2. verdicts' \subseteq Verdicts
  <2>1. r.attempt \in Attempts /\ r.id \in Ids
    BY RequestFields DEF IndInv, TypeOK
  <2>2. CASE a \in {"refused", "maintenance"}
    BY <2>1, <2>2 DEF Reply, Resolve, IndInv, TypeOK, Verdicts, Submission
  <2>3. CASE a \in {"result", "replayed"}
    BY <2>1, <2>3 DEF Reply, Resolve, Unusable, IndInv, TypeOK, Verdicts, Submission
  <2>4. CASE a = "tooLarge"
    BY <2>1, <2>4 DEF Reply, Resolve, IndInv, TypeOK, Verdicts, Submission
  <2>5. QED
    BY <2>2, <2>3, <2>4 DEF Answers
<1>3. TypeOK'
  BY <1>1, <1>2 DEF Reply, IndInv, TypeOK, host
<1>4. SessionIsCurrent'
  <2>1. connection \in {"online", "maintenance"} /\ clientEpoch # 0
    BY DEF IndInv, SessionIsCurrent
  <2>2. connection' \in {"online", "maintenance"}
    BY <2>1 DEF Reply
  <2>3. QED
    BY <2>1, <2>2 DEF Reply, IndInv, SessionIsCurrent, host
<1>5. QED
  BY <1>1, <1>3, <1>4 DEF Reply, IndInv, RequestsAreCurrent, RunsAreRecorded,
     RunsOnce, host

-----------------------------------------------------------------------------
(***************************************************************************)
(* The Host.                                                               *)
(***************************************************************************)
LEMMA WireStep ==
    ASSUME IndInv, NEW r \in wire, Receive(r) \/ Lose(r)
    PROVE  IndInv'
<1>1. wire' \cup queue' \subseteq wire \cup queue /\ replies' \subseteq Requests \X Answers
  BY DEF Receive, Lose, Respond, Answers, IndInv, TypeOK, host
<1>2. UNCHANGED <<client, alive, open, epoch, receipts, past, history>>
  BY DEF Receive, Lose, host
<1>3. TypeOK'
  BY <1>1, <1>2 DEF IndInv, TypeOK, client, history
<1>4. RequestsAreCurrent'
  BY <1>1, <1>2 DEF IndInv, RequestsAreCurrent, history
<1>5. QED
  BY <1>2, <1>3, <1>4 DEF IndInv, SessionIsCurrent, FreshIds, OpenIds,
     PendingWaits, RunsAreRecorded, RunsOnce, client, history

LEMMA ExecuteStep ==
    ASSUME IndInv, NEW r \in queue, Execute(r)
    PROVE  IndInv'
<1>1. /\ r.attempt \in Attempts /\ r.id \in Ids /\ r.epoch \in Epochs
      /\ r \in Requests
  BY RequestFields DEF IndInv, TypeOK
<1>2. r.epoch = epoch /\ firstEpoch[r.id] = epoch
  BY DEF IndInv, RequestsAreCurrent
<1>3. UNCHANGED <<client, alive, wire, open, epoch, firstEpoch, verdicts>>
  BY DEF Execute
<1>4. queue' \subseteq queue /\ replies' \subseteq Requests \X Answers
  BY <1>1 DEF Execute, Respond, Sent, Answers, IndInv, TypeOK
<1>5. RequestsAreCurrent'
  BY <1>3, <1>4 DEF IndInv, RequestsAreCurrent
<1>6. SessionIsCurrent' /\ FreshIds' /\ OpenIds' /\ PendingWaits'
  BY <1>3 DEF client, IndInv, SessionIsCurrent, FreshIds, OpenIds, PendingWaits
<1>7. CASE UNCHANGED <<receipts, past, runs>>
  <2>1. TypeOK'
    BY <1>3, <1>4, <1>7 DEF client, IndInv, TypeOK
  <2>2. QED
    BY <1>3, <1>5, <1>6, <1>7, <2>1 DEF IndInv, RunsAreRecorded, RunsOnce
<1>8. CASE /\ r.id \notin receipts
           /\ receipts' = receipts \cup {r.id}
           /\ past' = past \cup {receipts'}
           /\ Ran(r)
  <2>1. runs[r.id] = {}
    BY <1>1, <1>2, <1>8 DEF IndInv, RunsAreRecorded
  <2>2. /\ runs' \in [Ids -> SUBSET (Attempts \X Epochs)]
        /\ runs'[r.id] = {<<r.attempt, r.epoch>>}
        /\ \A j \in Ids : j # r.id => runs'[j] = runs[j]
    BY <1>1, <1>8, <2>1 DEF Ran, IndInv, TypeOK
  <2>3. TypeOK'
    <3>1. receipts' \subseteq Ids /\ past' \subseteq SUBSET Ids
      BY <1>1, <1>8 DEF IndInv, TypeOK
    <3>2. QED
      BY <1>3, <1>4, <2>2, <3>1 DEF client, IndInv, TypeOK
  <2>4. RunsAreRecorded'
    <3>1. SUFFICES ASSUME NEW i \in Ids, NEW x \in runs'[i]
                   PROVE  /\ x[2] = firstEpoch[i] /\ x[2] <= epoch
                          /\ x[2] = epoch => i \in receipts'
      BY <1>3 DEF RunsAreRecorded
    <3>2. CASE i = r.id
      <4>1. x[2] = epoch /\ epoch \in Nat
        BY <1>2, <2>2, <3>2 DEF IndInv, TypeOK, Epochs
      <4>2. QED
        BY <4>1, <1>2, <1>8, <3>2
    <3>3. CASE i # r.id
      BY <1>8, <2>2, <3>3 DEF IndInv, RunsAreRecorded
    <3>4. QED
      BY <3>2, <3>3
  <2>5. RunsOnce'
    BY <2>2 DEF IndInv, RunsOnce
  <2>6. QED
    BY <1>5, <1>6, <2>3, <2>4, <2>5 DEF IndInv
<1>9. QED
  BY <1>7, <1>8 DEF Execute

LEMMA HostStep ==
    ASSUME IndInv,
           ToggleMaintenance \/ Restart \/ \E image \in past : Restore(image)
    PROVE  IndInv'
<1>1. CASE ToggleMaintenance
  <2>1. TypeOK'
    BY <1>1 DEF ToggleMaintenance, IndInv, TypeOK, client, history
  <2>2. QED
    BY <1>1, <2>1 DEF ToggleMaintenance, IndInv, SessionIsCurrent,
       RequestsAreCurrent, FreshIds, OpenIds, PendingWaits, RunsAreRecorded,
       RunsOnce, client, history
<1>2. CASE Restart
  <2>1. TypeOK'
    BY <1>2 DEF Restart, Stopped, IndInv, TypeOK, client, history
  <2>2. QED
    BY <1>2, <2>1 DEF Restart, Stopped, IndInv, SessionIsCurrent,
       RequestsAreCurrent, FreshIds, OpenIds, PendingWaits, RunsAreRecorded,
       RunsOnce, client, history
<1>3. ASSUME NEW image \in past, Restore(image) PROVE IndInv'
  <2>1. epoch' = epoch + 1 /\ epoch \in Nat /\ epoch' \in Epochs
    BY <1>3, RemoteAssumption DEF Restore, IndInv, TypeOK, Epochs
  <2>2. UNCHANGED <<client, history>> /\ ~alive' /\ wire' = {} /\ queue' = {}
    BY <1>3 DEF Restore, Stopped
  <2>3. TypeOK'
    BY <1>3, <2>1, <2>2 DEF Restore, Stopped, IndInv, TypeOK, client, history
  <2>4. RunsAreRecorded'
    <3>1. SUFFICES ASSUME NEW i \in Ids, NEW x \in runs[i]
                   PROVE  x[2] = firstEpoch[i] /\ x[2] <= epoch' /\ x[2] # epoch'
      BY <2>2 DEF RunsAreRecorded, history
    <3>2. x[2] \in Nat
      BY DEF IndInv, TypeOK, Epochs
    <3>3. x[2] = firstEpoch[i] /\ x[2] <= epoch
      BY DEF IndInv, RunsAreRecorded
    <3>4. QED
      BY <2>1, <3>2, <3>3
  <2>5. QED
    BY <2>2, <2>3, <2>4 DEF IndInv, SessionIsCurrent, RequestsAreCurrent,
       FreshIds, OpenIds, PendingWaits, RunsOnce, client, history
<1>4. QED
  BY <1>1, <1>2, <1>3

-----------------------------------------------------------------------------
LEMMA StepIndInv == IndInv /\ [Next]_vars => IndInv'
<1> SUFFICES ASSUME IndInv, [Next]_vars PROVE IndInv'
  OBVIOUS
<1>1. CASE UNCHANGED vars
  <2>1. TypeOK'
    BY <1>1 DEF vars, client, host, history, IndInv, TypeOK
  <2>2. QED
    BY <1>1, <2>1 DEF vars, client, host, history, IndInv, SessionIsCurrent,
       RequestsAreCurrent, FreshIds, OpenIds, PendingWaits, RunsAreRecorded,
       RunsOnce
<1>2. CASE Next
  BY <1>2, SubmitStep, DisconnectStep, ConnectionStep, TimeoutStep, ReplyStep,
     WireStep, ExecuteStep, HostStep DEF Next
<1>3. QED
  BY <1>1, <1>2

LEMMA Inductive == Spec => []IndInv
BY InitIndInv, StepIndInv, PTL DEF Spec

\* Every variable keeps its type.
THEOREM TypeCorrect == Spec => []TypeOK
<1>1. IndInv => TypeOK
  BY DEF IndInv
<1>2. QED
  BY Inductive, <1>1, PTL

\* A mutation ID takes effect at most once over all databases, and only in the
\* one its user sent it to, over any number of retries, crashes and Restores.
THEOREM EffectOnceWhereSubmitted == Spec => []RunsOnceWhereSubmitted
<1>1. IndInv => RunsOnceWhereSubmitted
  BY DEF IndInv, RunsAreRecorded, RunsOnce, RunsWhereSubmitted,
         RunsOnceWhereSubmitted
<1>2. QED
  BY Inductive, <1>1, PTL

\* An ID whose outcome is open keeps the epoch of its first attempt.
THEOREM EpochKept == Spec => []UnknownKeepsEpoch
<1>1. IndInv => UnknownKeepsEpoch
  BY DEF IndInv, OpenIds, UnknownKeepsEpoch
<1>2. QED
  BY Inductive, <1>1, PTL

-----------------------------------------------------------------------------
(***************************************************************************)
(* Every verdict is true: the abstract ledger, attempt by attempt.         *)
(***************************************************************************)
Answered == {p[1] : p \in replies}
Underway == wire \cup queue

AttemptsIssued ==
    /\ \A r \in pending \cup Underway \cup Answered : r.attempt <= attempts
    /\ \A i \in Ids : \A x \in runs[i] : x[1] <= attempts
    /\ \A v \in verdicts : v.request.ticket <= attempts

AttemptsUnique ==
    \A r, s \in pending \cup Underway \cup Answered : r.attempt = s.attempt => r = s

\* A request is in one place, and is answered after it has left the Host.
OnePlace == wire \cap queue = {} /\ Underway \cap Answered = {}

NotYetRun ==
    \A r \in Underway : \A i \in Ids : \A x \in runs[i] : x[1] # r.attempt

NoVerdictYet ==
    \A v \in verdicts : \A r \in pending \cup Underway :
        v.request.ticket # r.attempt

RepliesTrue ==
    \A p \in replies :
        /\ p[2] = "result" => \E x \in runs[p[1].id] : x[1] = p[1].attempt
        /\ p[2] \in {"replayed", "tooLarge"} => runs[p[1].id] # {}
        /\ p[2] \in {"refused", "maintenance"} =>
               \A x \in runs[p[1].id] : x[1] # p[1].attempt

\* Every receipt, also one in a backup, is of a mutation that ran.
ReceiptsBacked ==
    /\ \A i \in receipts : runs[i] # {}
    /\ \A image \in past : \A i \in image : runs[i] # {}

TicketInv ==
    /\ AttemptsIssued
    /\ AttemptsUnique
    /\ OnePlace
    /\ NotYetRun
    /\ NoVerdictYet
    /\ RepliesTrue
    /\ ReceiptsBacked

LEMMA Typing ==
    ASSUME IndInv
    PROVE  /\ attempts \in Nat
           /\ \A r \in pending \cup Underway \cup Answered :
                  r \in Requests /\ r.attempt \in Nat /\ r.id \in Ids
           /\ \A i \in Ids : \A x \in runs[i] : x[1] \in Attempts /\ x[1] \in Nat
           /\ \A v \in verdicts : v.request.ticket \in Nat
           /\ receipts \subseteq Ids /\ \A image \in past : image \subseteq Ids
<1>1. \A p \in replies : p[1] \in Requests
  BY DEF IndInv, TypeOK
<1>2. \A r \in pending \cup Underway \cup Answered : r \in Requests
  BY <1>1 DEF IndInv, TypeOK, Underway, Answered
<1>3. \A r \in Requests : r.attempt \in Nat /\ r.id \in Ids
  BY DEF Requests, Attempts
<1>4. attempts \in Nat /\ \A v \in verdicts : v.request.ticket \in Nat
  BY DEF IndInv, TypeOK, Attempts, Verdicts
<1>5. \A i \in Ids : \A x \in runs[i] : x[1] \in Attempts /\ x[1] \in Nat
  BY DEF IndInv, TypeOK, Attempts
<1>6. receipts \subseteq Ids /\ \A image \in past : image \subseteq Ids
  BY DEF IndInv, TypeOK
<1>7. QED
  BY <1>2, <1>3, <1>4, <1>5, <1>6

LEMMA InitTicketInv == Init => TicketInv
BY DEF Init, TicketInv, AttemptsIssued, AttemptsUnique, OnePlace, NotYetRun,
       NoVerdictYet, RepliesTrue, ReceiptsBacked, Underway, Answered

\* A step that sends, runs and answers nothing may lose what is on the way.
LEMMA QuietStep ==
    ASSUME TicketInv, pending' \subseteq pending, wire' \subseteq wire,
           queue' \subseteq queue, UNCHANGED <<attempts, replies, history>>,
           receipts' = receipts \/ receipts' \in past, past' = past
    PROVE  TicketInv'
<1>1. Underway' \subseteq Underway /\ Answered' = Answered
  BY DEF Underway, Answered
<1>2. AttemptsIssued' /\ AttemptsUnique'
  BY <1>1 DEF TicketInv, AttemptsIssued, AttemptsUnique, history
<1>3. OnePlace'
  BY <1>1 DEF TicketInv, OnePlace
<1>4. NotYetRun' /\ NoVerdictYet'
  BY <1>1 DEF TicketInv, NotYetRun, NoVerdictYet, history
<1>5. RepliesTrue' /\ ReceiptsBacked'
  BY DEF TicketInv, RepliesTrue, ReceiptsBacked, history
<1>6. QED
  BY <1>2, <1>3, <1>4, <1>5 DEF TicketInv

LEMMA FailHereTickets ==
    ASSUME IndInv, TicketInv, NEW i \in Ids, attempts' = attempts + 1,
           NEW how, FailHere(i, how)
    PROVE  TicketInv'
<1>1. UNCHANGED <<pending, wire, replies, queue, receipts, past, runs>>
  BY DEF FailHere, host
<1>2. Underway' = Underway /\ Answered' = Answered
  BY <1>1 DEF Underway, Answered
<1>3. \A v \in verdicts' : v \in verdicts \/ v.request.ticket = attempts + 1
  BY DEF FailHere, Submission
<1>4. AttemptsIssued'
  BY <1>1, <1>2, <1>3, Typing DEF TicketInv, AttemptsIssued
<1>5. NoVerdictYet'
  BY <1>1, <1>2, <1>3, Typing DEF TicketInv, AttemptsIssued, NoVerdictYet
<1>6. QED
  BY <1>1, <1>2, <1>4, <1>5 DEF TicketInv, AttemptsUnique, OnePlace, NotYetRun,
     RepliesTrue, ReceiptsBacked

LEMMA SendTickets ==
    ASSUME IndInv, TicketInv, NEW i \in Ids, attempts' = attempts + 1, Send(i)
    PROVE  TicketInv'
<1> DEFINE r0 == NewRequest(i)
<1>1. UNCHANGED <<replies, queue, receipts, past, runs, verdicts>>
  BY DEF Send, host
<1>2. pending' \subseteq pending \cup {r0} /\ wire' \subseteq wire \cup {r0}
  BY DEF Send
<1>3. Underway' \subseteq Underway \cup {r0} /\ Answered' = Answered
  BY <1>1, <1>2 DEF Underway, Answered
<1>4. r0.attempt = attempts + 1
  BY DEF NewRequest
<1>5. \A r \in pending \cup Underway \cup Answered :
          r.attempt # attempts + 1 /\ r.attempt <= attempts + 1
  BY Typing DEF TicketInv, AttemptsIssued
<1>6. AttemptsIssued'
  <2>1. \A r \in pending' \cup Underway' \cup Answered' : r.attempt <= attempts + 1
    BY <1>2, <1>3, <1>4, <1>5, Typing
  <2>2. QED
    BY <1>1, <2>1, Typing DEF TicketInv, AttemptsIssued
<1>7. AttemptsUnique'
  BY <1>2, <1>3, <1>4, <1>5 DEF TicketInv, AttemptsUnique
<1>8. OnePlace'
  <2>1. r0 \notin queue /\ r0 \notin Answered
    BY <1>4, <1>5 DEF Underway
  <2>2. QED
    BY <1>1, <1>2, <1>3, <2>1 DEF TicketInv, OnePlace
<1>9. NotYetRun'
  BY <1>1, <1>3, <1>4, Typing DEF TicketInv, NotYetRun, AttemptsIssued
<1>10. NoVerdictYet'
  BY <1>1, <1>2, <1>3, <1>4, Typing DEF TicketInv, NoVerdictYet, AttemptsIssued
<1>11. QED
  BY <1>1, <1>6, <1>7, <1>8, <1>9, <1>10 DEF TicketInv, RepliesTrue, ReceiptsBacked

LEMMA ReplyTickets ==
    ASSUME IndInv, TicketInv, NEW r \in pending, NEW a \in Answers, Reply(r, a)
    PROVE  TicketInv'
<1>1. UNCHANGED <<attempts, wire, queue, receipts, past, runs>>
  BY DEF Reply, host
<1>2. pending' = pending \ {r} /\ replies' \subseteq replies
  BY DEF Reply
<1>3. Underway' = Underway /\ Answered' \subseteq Answered
  BY <1>1, <1>2 DEF Underway, Answered
<1>4. \A v \in verdicts' : v \in verdicts \/ v.request.ticket = r.attempt
  BY DEF Reply, Resolve, Unusable, Submission
<1>5. r \in Answered
  BY DEF Reply, Answered
<1>6. AttemptsIssued'
  BY <1>1, <1>2, <1>3, <1>4 DEF TicketInv, AttemptsIssued
<1>7. NoVerdictYet'
  <2>1. \A s \in pending' \cup Underway' : s.attempt # r.attempt
    BY <1>2, <1>3, <1>5 DEF TicketInv, AttemptsUnique, OnePlace
  <2>2. QED
    BY <1>2, <1>3, <1>4, <2>1 DEF TicketInv, NoVerdictYet
<1>8. QED
  BY <1>1, <1>2, <1>3, <1>6, <1>7 DEF TicketInv, AttemptsUnique, OnePlace,
     NotYetRun, RepliesTrue, ReceiptsBacked

LEMMA RespondAnswers ==
    ASSUME NEW r, NEW a, replies' = replies \cup {<<r, a>>}
    PROVE  Answered' = Answered \cup {r}
<1>1. ASSUME NEW q PROVE q \in Answered' <=> q \in Answered \cup {r}
  <2>1. CASE q = r
    <3>1. <<r, a>> \in replies' /\ <<r, a>>[1] = r
      OBVIOUS
    <3>2. QED
      BY <2>1, <3>1 DEF Answered
  <2>2. CASE q # r
    <3>1. \A p : p[1] = q => (p \in replies' <=> p \in replies)
      BY <2>2
    <3>2. QED
      BY <2>2, <3>1 DEF Answered
  <2>3. QED
    BY <2>1, <2>2
<1>2. QED
  BY <1>1

LEMMA ReceiveTickets ==
    ASSUME IndInv, TicketInv, NEW r \in wire, Receive(r)
    PROVE  TicketInv'
<1>1. UNCHANGED <<pending, attempts, receipts, past, history>>
  BY DEF Receive, client
<1>2. r \in Underway /\ r \notin queue /\ r \notin Answered
  BY DEF Underway, TicketInv, OnePlace
<1>3. CASE queue' = queue \cup {r} /\ replies' = replies
  <2>1. Underway' = Underway /\ Answered' = Answered /\ wire' \cap queue' = {}
    BY <1>2, <1>3 DEF Receive, Underway, Answered, TicketInv, OnePlace
  <2>2. QED
    BY <1>1, <1>3, <2>1 DEF TicketInv, AttemptsIssued, AttemptsUnique, OnePlace,
       NotYetRun, NoVerdictYet, RepliesTrue, ReceiptsBacked, history
<1>4. ASSUME NEW a \in {"refused", "maintenance"}, Respond(r, a), queue' = queue
      PROVE  TicketInv'
  <2>1. wire' = wire \ {r}
    BY DEF Receive
  <2>2. Underway' = Underway \ {r} /\ Answered' = Answered \cup {r}
    BY <1>2, <1>4, <2>1, RespondAnswers DEF Underway, Respond
  <2>3. OnePlace'
    BY <1>4, <2>1, <2>2 DEF TicketInv, OnePlace
  <2>4. RepliesTrue'
    <3>1. r.id \in Ids
      BY <1>2, Typing
    <3>2. \A x \in runs[r.id] : x[1] # r.attempt
      BY <1>2, <3>1 DEF TicketInv, NotYetRun
    <3>3. replies' = replies \cup {<<r, a>>}
      BY <1>4 DEF Respond
    <3>4. QED
      BY <1>1, <3>2, <3>3 DEF TicketInv, RepliesTrue, history
  <2>5. AttemptsIssued' /\ AttemptsUnique'
    BY <1>1, <1>2, <2>2 DEF TicketInv, AttemptsIssued, AttemptsUnique, history
  <2>6. NotYetRun' /\ NoVerdictYet' /\ ReceiptsBacked'
    BY <1>1, <2>2 DEF TicketInv, NotYetRun, NoVerdictYet, ReceiptsBacked, history
  <2>7. QED
    BY <2>3, <2>4, <2>5, <2>6 DEF TicketInv
<1>5. QED
  BY <1>3, <1>4 DEF Receive

\* The first receipt of an ID is its first run.
LEMMA FirstRun ==
    ASSUME IndInv, NEW r \in queue, r.id \notin receipts, Ran(r)
    PROVE  /\ runs[r.id] = {}
           /\ runs' = [runs EXCEPT ![r.id] = {<<r.attempt, r.epoch>>}]
<1>1. r.id \in Ids /\ r.epoch = epoch /\ firstEpoch[r.id] = epoch
  BY RequestFields DEF IndInv, TypeOK, RequestsAreCurrent
<1>2. runs[r.id] = {}
  BY <1>1 DEF IndInv, RunsAreRecorded
<1>3. QED
  BY <1>2 DEF Ran

LEMMA ExecuteTickets ==
    ASSUME IndInv, TicketInv, NEW r \in queue, Execute(r)
    PROVE  TicketInv'
<1>1. UNCHANGED <<pending, attempts, wire, verdicts>>
  BY DEF Execute, client
<1>2. r \in Underway /\ r \notin wire /\ r \notin Answered
      /\ r.id \in Ids /\ r.attempt \in Nat
  BY Typing DEF Underway, TicketInv, OnePlace
<1>3. queue' = queue \ {r} /\ Underway' = Underway \ {r}
  BY <1>1, <1>2 DEF Execute, Underway
<1>4. PICK a \in Answers : replies' = replies \cup {<<r, a>>}
  BY DEF Execute, Respond, Sent, Answers
<1>5. Answered' = Answered \cup {r}
  BY <1>4, RespondAnswers
<1>6. AttemptsUnique' /\ OnePlace' /\ NoVerdictYet'
  BY <1>1, <1>2, <1>3, <1>5
     DEF TicketInv, AttemptsUnique, OnePlace, NoVerdictYet
<1>7. \A s \in Underway' \cup Answered : s.attempt # r.attempt
  BY <1>2, <1>3 DEF TicketInv, AttemptsUnique
<1>8. CASE UNCHANGED <<receipts, past, runs>> /\ replies' = replies \cup {<<r, "refused">>}
  <2>1. \A x \in runs[r.id] : x[1] # r.attempt
    BY <1>2 DEF TicketInv, NotYetRun
  <2>2. RepliesTrue'
    BY <1>8, <2>1 DEF TicketInv, RepliesTrue
  <2>3. QED
    BY <1>1, <1>2, <1>3, <1>5, <1>6, <1>8, <2>2 DEF TicketInv, AttemptsIssued,
       NotYetRun, ReceiptsBacked
<1>9. CASE /\ UNCHANGED <<receipts, past, runs>> /\ r.id \in receipts
           /\ \E b \in Sent("replayed") : replies' = replies \cup {<<r, b>>}
  <2>1. RepliesTrue'
    BY <1>9 DEF TicketInv, RepliesTrue, ReceiptsBacked, Sent
  <2>2. QED
    BY <1>1, <1>2, <1>3, <1>5, <1>6, <1>9, <2>1 DEF TicketInv, AttemptsIssued,
       NotYetRun, ReceiptsBacked
<1>10. CASE /\ r.id \notin receipts /\ receipts' = receipts \cup {r.id}
            /\ past' = past \cup {receipts'} /\ Ran(r)
            /\ \E b \in Sent("result") : replies' = replies \cup {<<r, b>>}
  <2>1. /\ runs[r.id] = {}
        /\ runs'[r.id] = {<<r.attempt, r.epoch>>}
        /\ \A j \in Ids : j # r.id => runs'[j] = runs[j]
    BY <1>2, <1>10, FirstRun DEF IndInv, TypeOK
  <2>2. AttemptsIssued'
    BY <1>1, <1>2, <1>3, <1>5, <2>1 DEF TicketInv, AttemptsIssued
  <2>3. NotYetRun'
    BY <1>3, <1>7, <2>1 DEF TicketInv, NotYetRun
  <2>4. ReceiptsBacked'
    <3>1. \A i \in Ids : runs[i] # {} => runs'[i] # {}
      BY <2>1
    <3>2. \A i \in receipts' : runs'[i] # {}
      BY <1>10, <2>1, <3>1, Typing DEF TicketInv, ReceiptsBacked
    <3>3. \A image \in past : \A i \in image : runs'[i] # {}
      BY <3>1, Typing DEF TicketInv, ReceiptsBacked
    <3>4. QED
      BY <1>10, <3>2, <3>3 DEF ReceiptsBacked
  <2>5. RepliesTrue'
    <3>1. SUFFICES ASSUME NEW p \in replies'
          PROVE  /\ p[2] = "result" => \E x \in runs'[p[1].id] : x[1] = p[1].attempt
                 /\ p[2] \in {"replayed", "tooLarge"} => runs'[p[1].id] # {}
                 /\ p[2] \in {"refused", "maintenance"} =>
                        \A x \in runs'[p[1].id] : x[1] # p[1].attempt
      BY DEF RepliesTrue
    <3>2. CASE p \in replies
      <4>1. p[1] \in Answered
        BY <3>2 DEF Answered
      <4>2. p[1].id \in Ids /\ p[1].attempt # r.attempt
        BY <1>7, <4>1, Typing
      <4>3. /\ p[2] = "result" => \E x \in runs[p[1].id] : x[1] = p[1].attempt
            /\ p[2] \in {"replayed", "tooLarge"} => runs[p[1].id] # {}
            /\ p[2] \in {"refused", "maintenance"} =>
                   \A x \in runs[p[1].id] : x[1] # p[1].attempt
        BY <3>2 DEF TicketInv, RepliesTrue
      <4>4. CASE p[1].id = r.id
        BY <2>1, <4>2, <4>3, <4>4
      <4>5. CASE p[1].id # r.id
        BY <2>1, <4>2, <4>3, <4>5
      <4>6. QED
        BY <4>4, <4>5
    <3>3. ASSUME NEW b \in Sent("result"), p = <<r, b>>
          PROVE  /\ p[2] = "result" => \E x \in runs'[p[1].id] : x[1] = p[1].attempt
                 /\ p[2] \in {"replayed", "tooLarge"} => runs'[p[1].id] # {}
                 /\ p[2] \notin {"refused", "maintenance"}
      <4>1. p[1] = r /\ p[2] \in {"result", "tooLarge"}
        BY <3>3 DEF Sent
      <4>2. <<r.attempt, r.epoch>> \in runs'[r.id]
            /\ <<r.attempt, r.epoch>>[1] = r.attempt
        BY <2>1
      <4>3. QED
        BY <4>1, <4>2
    <3>4. p \in replies \/ \E b \in Sent("result") : p = <<r, b>>
      BY <1>10
    <3>5. QED
      BY <3>2, <3>3, <3>4
  <2>6. QED
    BY <1>6, <2>2, <2>3, <2>4, <2>5 DEF TicketInv
<1>11. QED
  BY <1>8, <1>9, <1>10 DEF Execute, Respond

LEMMA StepTicketInv == IndInv /\ TicketInv /\ [Next]_vars => TicketInv'
<1> SUFFICES ASSUME IndInv, TicketInv, [Next]_vars PROVE TicketInv'
  OBVIOUS
<1>1. ASSUME NEW i \in Ids, Submit(i) PROVE TicketInv'
  BY <1>1, FailHereTickets, SendTickets DEF Submit
<1>2. CASE Disconnect \/ Connect \/ Established \/ Invalidated
  BY <1>2, QuietStep DEF Disconnect, Connect, Established, Invalidated, host
<1>3. ASSUME NEW r \in pending, Timeout(r) PROVE TicketInv'
  BY <1>3, QuietStep DEF Timeout, host
<1>4. ASSUME NEW r \in pending, NEW a \in Answers, Reply(r, a) PROVE TicketInv'
  BY <1>4, ReplyTickets
<1>5. ASSUME NEW r \in wire, Receive(r) PROVE TicketInv'
  BY <1>5, ReceiveTickets
<1>6. ASSUME NEW r \in wire, Lose(r) PROVE TicketInv'
  BY <1>6, QuietStep DEF Lose, client, host
<1>7. ASSUME NEW r \in queue, Execute(r) PROVE TicketInv'
  BY <1>7, ExecuteTickets
<1>8. CASE ToggleMaintenance \/ Restart
  BY <1>8, QuietStep DEF ToggleMaintenance, Restart, Stopped, client
<1>9. ASSUME NEW image \in past, Restore(image) PROVE TicketInv'
  BY <1>9, QuietStep DEF Restore, Stopped, client
<1>10. CASE UNCHANGED vars
  BY <1>10, QuietStep DEF vars, client, host
<1>11. QED
  BY <1>1, <1>2, <1>3, <1>4, <1>5, <1>6, <1>7, <1>8, <1>9, <1>10 DEF Next

-----------------------------------------------------------------------------
(***************************************************************************)
(* The refinement: a run applies its attempt in the ledger, a verdict is   *)
(* an answer of it, and all other steps leave the ledger alone.            *)
(***************************************************************************)
LedgerOf(i) == IF runs[i] = {} THEN "none" ELSE "request"
RunIn(S) == CHOOSE x \in S : TRUE
AppliedBy(i) == IF runs[i] = {} THEN 0 ELSE RunIn(runs[i])[1]

\* The run that CHOOSE names is the only one.
LEMMA OnlyRun ==
    ASSUME IndInv, NEW i \in Ids, NEW x \in runs[i]
    PROVE  AppliedBy(i) = x[1]
<1>1. RunIn(runs[i]) \in runs[i]
  BY DEF RunIn
<1>2. RunIn(runs[i]) = x
  BY <1>1 DEF IndInv, RunsOnce
<1>3. QED
  BY <1>2 DEF AppliedBy

\* A ticket that appears in no run of an ID did not apply it.
LEMMA OtherRun ==
    ASSUME IndInv, NEW i \in Ids, NEW t \in Attempts,
           \A x \in runs[i] : x[1] # t
    PROVE  AppliedBy(i) # t
<1>1. CASE runs[i] = {}
  BY <1>1 DEF AppliedBy, Attempts
<1>2. CASE runs[i] # {}
  <2>1. PICK x \in runs[i] : TRUE
    BY <1>2
  <2>2. QED
    BY <2>1, OnlyRun
<1>3. QED
  BY <1>1, <1>2

LEMMA VerdictIsAnswer ==
    ASSUME IndInv, NEW i \in Ids, NEW t \in Attempts,
           NEW kind \in {"result", "replayed", "tooLarge", "error"},
           \A v \in verdicts : v.request.ticket # t,
           kind = "result" => \E x \in runs[i] : x[1] = t,
           kind \in {"replayed", "tooLarge"} => runs[i] # {},
           kind = "error" => \A x \in runs[i] : x[1] # t,
           verdicts' = verdicts \cup {[request |-> Submission(t, i), kind |-> kind]},
           runs' = runs
    PROVE  Ledger!Next
<1> DEFINE v == [request |-> Submission(t, i), kind |-> kind]
           a == Meaning(v)
<1>1. /\ a \in Ledger!Answers
      /\ a.request.id = i /\ a.request.ticket = t /\ a.request.payload = "request"
      /\ a.kind = IF kind = "tooLarge" THEN "replayed" ELSE kind
  BY DEF Meaning, Submission, Ledger!Answers, Ledger!Submissions
<1>2. \A u \in verdicts : Meaning(u).request = u.request
  BY DEF Meaning, IndInv, TypeOK, Verdicts
<1>3. kind = "result" => LedgerOf(i) = "request" /\ AppliedBy(i) = t
  BY OnlyRun DEF LedgerOf
<1>4. kind \in {"replayed", "tooLarge"} => LedgerOf(i) = "request"
  BY DEF LedgerOf
<1>5. kind = "error" => AppliedBy(i) # t
  BY OtherRun
<1>6. {Meaning(u) : u \in verdicts}' = {Meaning(u) : u \in verdicts} \cup {a}
  <2>1. verdicts' = verdicts \cup {v}
    OBVIOUS
  <2>2. QED
    BY <2>1
<1>7. \A b \in {Meaning(u) : u \in verdicts} : b.request.ticket # a.request.ticket
  BY <1>1, <1>2
<1> HIDE DEF a, v
<1>8. Ledger!True(a)
  BY <1>1, <1>3, <1>4, <1>5 DEF Ledger!True, LedgerOf, AppliedBy, RunIn
<1>9. Ledger!Answer(a)
  BY <1>6, <1>7, <1>8 DEF Ledger!Answer
<1>10. QED
  BY <1>1, <1>9 DEF Ledger!Next

LEMMA LedgerStep == IndInv /\ TicketInv /\ [Next]_vars => [Ledger!Next]_(Ledger!vars)
<1> SUFFICES ASSUME IndInv, TicketInv, [Next]_vars
             PROVE  [Ledger!Next]_(Ledger!vars)
  OBVIOUS
<1>1. CASE UNCHANGED <<runs, verdicts>>
  BY <1>1 DEF Ledger!vars
<1>2. ASSUME NEW i \in Ids, attempts < MaxAttempts, attempts' = attempts + 1,
             NEW how, FailHere(i, how)
      PROVE  Ledger!Next
  <2>1. attempts + 1 \in Attempts
    BY <1>2, RemoteAssumption DEF IndInv, TypeOK, Attempts
  <2>2. /\ \A v \in verdicts : v.request.ticket # attempts + 1
        /\ \A x \in runs[i] : x[1] # attempts + 1
    BY Typing DEF TicketInv, AttemptsIssued
  <2>3. /\ verdicts' = verdicts \cup
               {[request |-> Submission(attempts + 1, i), kind |-> "error"]}
        /\ runs' = runs
    BY <1>2 DEF FailHere
  <2>4. QED
    BY <2>1, <2>2, <2>3, VerdictIsAnswer
<1>3. ASSUME NEW r \in pending, NEW a \in Answers, Reply(r, a)
      PROVE  [Ledger!Next]_(Ledger!vars)
  <2>1. r.id \in Ids /\ r.attempt \in Attempts
    BY Typing DEF Requests
  <2>2. <<r, a>> \in replies /\ <<r, a>>[1] = r /\ <<r, a>>[2] = a /\ runs' = runs
    BY <1>3 DEF Reply
  <2>3. /\ a = "result" => \E x \in runs[r.id] : x[1] = r.attempt
        /\ a \in {"replayed", "tooLarge"} => runs[r.id] # {}
        /\ a \in {"refused", "maintenance"} => \A x \in runs[r.id] : x[1] # r.attempt
    BY <2>2 DEF TicketInv, RepliesTrue
  <2>4. \A v \in verdicts : v.request.ticket # r.attempt
    BY DEF TicketInv, NoVerdictYet
  <2>5. CASE a \in {"refused", "maintenance"}
    <3>1. verdicts' = verdicts \cup
              {[request |-> Submission(r.attempt, r.id), kind |-> "error"]}
      BY <1>3, <2>5 DEF Reply, Resolve
    <3>2. QED
      BY <2>1, <2>2, <2>3, <2>4, <2>5, <3>1, VerdictIsAnswer
  <2>6. CASE a \in {"result", "replayed"} /\ verdicts' = verdicts
    BY <1>1, <2>2, <2>6
  <2>7. CASE /\ a \in {"result", "replayed", "tooLarge"}
             /\ verdicts' = verdicts \cup
                    {[request |-> Submission(r.attempt, r.id), kind |-> a]}
    BY <2>1, <2>2, <2>3, <2>4, <2>7, VerdictIsAnswer
  <2>8. QED
    BY <1>3, <2>5, <2>6, <2>7 DEF Reply, Resolve, Unusable, Answers
<1>4. ASSUME NEW r \in queue, r.id \notin receipts, Ran(r), verdicts' = verdicts
      PROVE  Ledger!Next
  <2>1. r.id \in Ids /\ r.attempt \in Attempts /\ r \in Underway
    BY Typing DEF Requests, Underway
  <2>2. /\ runs[r.id] = {}
        /\ runs' = [runs EXCEPT ![r.id] = {<<r.attempt, r.epoch>>}]
    BY <1>4, FirstRun
  <2>3. runs'[r.id] = {<<r.attempt, r.epoch>>}
        /\ \A j \in Ids : j # r.id => runs'[j] = runs[j]
    BY <2>1, <2>2 DEF IndInv, TypeOK
  <2>4. \A v \in verdicts : v.request.ticket # r.attempt
    BY <2>1 DEF TicketInv, NoVerdictYet
  <2> DEFINE s == Submission(r.attempt, r.id)
  <2>5. s \in Ledger!Submissions /\ s.id = r.id /\ s.ticket = r.attempt
        /\ s.payload = "request"
    BY <2>1 DEF Submission, Ledger!Submissions
  <2> HIDE DEF s
  <2>6. /\ LedgerOf(r.id) = "none" /\ LedgerOf(r.id)' = "request"
        /\ \A j \in Ids : j # r.id => LedgerOf(j)' = LedgerOf(j)
    BY <2>2, <2>3 DEF LedgerOf
  <2>7. AppliedBy(r.id)' = r.attempt
    <3>1. RunIn({<<r.attempt, r.epoch>>}) = <<r.attempt, r.epoch>>
      BY DEF RunIn
    <3>2. QED
      BY <2>3, <3>1 DEF AppliedBy
  <2>8. \A j \in Ids : j # r.id => AppliedBy(j)' = AppliedBy(j)
    <3>1. SUFFICES ASSUME NEW j \in Ids, j # r.id
                   PROVE  AppliedBy(j)' = AppliedBy(j)
      OBVIOUS
    <3>2. runs'[j] = runs[j]
      BY <2>3, <3>1
    <3>3. QED
      BY <3>2 DEF AppliedBy
  <2>9. [i \in Ids |-> LedgerOf(i)]' =
            [[i \in Ids |-> LedgerOf(i)] EXCEPT ![s.id] = s.payload]
    BY <2>1, <2>5, <2>6
  <2>10. [i \in Ids |-> AppliedBy(i)]' =
            [[i \in Ids |-> AppliedBy(i)] EXCEPT ![s.id] = s.ticket]
    BY <2>1, <2>5, <2>7, <2>8
  <2>11. /\ {Meaning(v) : v \in verdicts}' = {Meaning(v) : v \in verdicts}
         /\ \A b \in {Meaning(v) : v \in verdicts} : b.request.ticket # s.ticket
    <3>1. \A v \in verdicts : Meaning(v).request = v.request
      BY DEF Meaning, IndInv, TypeOK, Verdicts
    <3>2. QED
      BY <1>4, <2>4, <2>5, <3>1
  <2>12. Ledger!Apply(s)
    BY <2>1, <2>5, <2>6, <2>9, <2>10, <2>11 DEF Ledger!Apply, LedgerOf, AppliedBy, RunIn
  <2>13. QED
    BY <2>5, <2>12 DEF Ledger!Next
<1>5. ASSUME NEW i \in Ids, Submit(i) PROVE [Ledger!Next]_(Ledger!vars)
  BY <1>1, <1>2, <1>5 DEF Submit, Send
<1>6. ASSUME NEW r \in queue, Execute(r) PROVE [Ledger!Next]_(Ledger!vars)
  BY <1>1, <1>4, <1>6 DEF Execute
<1>7. ASSUME \/ Disconnect \/ Connect \/ Established \/ Invalidated
             \/ \E r \in pending : Timeout(r)
             \/ \E r \in wire : Receive(r) \/ Lose(r)
             \/ ToggleMaintenance \/ Restart \/ \E image \in past : Restore(image)
             \/ UNCHANGED vars
      PROVE  UNCHANGED <<runs, verdicts>>
  BY <1>7 DEF Disconnect, Connect, Established, Invalidated, Timeout, Receive,
     Lose, ToggleMaintenance, Restart, Restore, Stopped, vars, history
<1>8. QED
  BY <1>1, <1>3, <1>5, <1>6, <1>7 DEF Next

\* What a dialog is told of an attempt is true of that attempt under all losses,
\* retries and Restores: "done" and "replayed" of a mutation that is in effect,
\* RESULT_TOO_LARGE likewise of no other, and every other failure of an attempt
\* that never ran and never will.
THEOREM DialogIsToldTheTruth == Spec => VerdictsAreTrue
<1>1. Init => Ledger!Init
  BY DEF Init, Ledger!Init
<1>2. Spec => [](IndInv /\ TicketInv)
  BY InitIndInv, StepIndInv, InitTicketInv, StepTicketInv, PTL DEF Spec
<1>3. QED
  BY <1>1, <1>2, LedgerStep, PTL DEF Spec, VerdictsAreTrue, Ledger!Spec
=============================================================================
