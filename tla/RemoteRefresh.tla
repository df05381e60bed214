---------------------------- MODULE RemoteRefresh ----------------------------
(***************************************************************************)
(* How a Client keeps its Host-backed views up to date: the Host's         *)
(* post-commit invalidations, the RemoteRefreshCoordinator that turns them *)
(* into coalesced reads of the visible projections, the reads themselves,  *)
(* and MainWindow, which reloads everything when a session is restored or  *)
(* Host maintenance has ended.                                             *)
(*                                                                         *)
(* A panel is one table or dialog filled by one read; a projection of the  *)
(* coordinator has one panel (Storage, Inventory, Builds, Collection) or   *)
(* one for each open dialog (Pulling), and the identifier an invalidation  *)
(* carries selects among them. `k' is the Client, everything its one GUI   *)
(* thread owns. Of the data only this is kept: whether the rows a panel    *)
(* shows, or the rows of an answer on its way, are those the Host has now. *)
(* With MaxLink messages on the link the Host sends no more until some are *)
(* received; commits, maintenance and lost sessions are not bounded.       *)
(***************************************************************************)
EXTENDS Naturals, Sequences

CONSTANTS Views,           \* projections registered with the coordinator
          Panels,          \* what they show, each filled by one read
          ViewOf,          \* the projection of a panel
          Workspaces,      \* the panel of MainWindow's Workspace list
          Dialogs,         \* projections shown in dialogs, destroyed on close
          MaxLink

ASSUME PanelsAssumption ==
  /\ ViewOf \in [Panels -> Views]
  /\ Workspaces \in Panels
  /\ Dialogs \subseteq Views \ {ViewOf[Workspaces]}
  /\ MaxLink \in Nat \ {0}

VARIABLES behind,          \* panels whose rows are not what the Host has now
          unpublished,     \* committed panels whose invalidation is not sent
          hostOpen,        \* operational admission, closed in maintenance
          link,            \* what the Host sent to the Client's session
          k                \* the Client

vars == <<behind, unpublished, hostOpen, link, k>>

PanelsOf(v) == {p \in Panels : ViewOf[p] = v}
DialogPanels == {p \in Panels : ViewOf[p] \in Dialogs}
-----------------------------------------------------------------------------
(* The Client's widgets. A panel that reads again supersedes the answer it *)
(* was waiting for by a new request token.                                 *)

Request(c, S) ==
  [c EXCEPT !.ask = [p \in Panels |->
                       IF p \notin S THEN @[p]
                       ELSE IF c.up /\ c.available THEN "asked" ELSE "unsent"],
            !.warned = @ \ S]

(* RemoteRefreshCoordinator. A projection is in flight while a panel its   *)
(* run waits for has not finished; an empty cause selects every panel.     *)

InFlight(c, v) == c.waiting[v] # {}

(* A tab is visible when it is selected, Pulling while a dialog is open.   *)
Visible(c, v) == PanelsOf(v) \cap c.open # {}

(* A run reads the panels its cause selects, of dialogs those that are     *)
(* open; with nothing to read it is done at once.                          *)
Scope(c, v) ==
  (IF c.cause[v] = {} THEN PanelsOf(v) ELSE c.cause[v])
    \cap (IF v \in Dialogs THEN c.open ELSE Panels)

Start(c, S) ==
  LET started == IF c.up /\ c.available THEN {v \in S : ~InFlight(c, v)} ELSE {}
      read    == UNION {Scope(c, v) : v \in started}
  IN  Request([c EXCEPT !.dirty = @ \ started,
                        !.rerun = @ \ started,
                        !.cause = [v \in Views |-> IF v \in started THEN {} ELSE @[v]],
                        !.waiting = [v \in Views |-> IF v \in started THEN Scope(c, v) ELSE @[v]]],
              read)

(* mergeCause: an identifier survives only if both causes carry it; old is *)
(* empty, or the panels an earlier invalidation of the view v selected.    *)
MergeCause(v, old, new) == IF old \in {{}, new} THEN new ELSE PanelsOf(v)

(* Mutant: an invalidation of a projection in flight is taken as served.   *)
ReceiveIdleOnly(c, of) ==
  IF ~c.up THEN c
  ELSE LET plan == {v \in Views : ~InFlight(c, v) /\ \E p \in of : ViewOf[p] = v}
           c1   == [c EXCEPT !.cause = [v \in Views |-> IF v \in plan
                                          THEN MergeCause(v, @[v], of \cap PanelsOf(v)) ELSE @[v]],
                             !.dirty = @ \cup plan,
                             !.pending = @ \cup plan]
       IN  IF c1.available /\ c1.pending # {} THEN [c1 EXCEPT !.timer = TRUE] ELSE c1
Receive(c, of) ==
  IF ~c.up THEN c
  ELSE LET plan == {v \in Views : \E p \in of : ViewOf[p] = v}
           busy == {v \in plan : InFlight(c, v)}
           c1   == [c EXCEPT !.cause = [v \in Views |-> IF v \in plan
                                          THEN MergeCause(v, @[v], of \cap PanelsOf(v)) ELSE @[v]],
                             !.dirty = @ \cup plan,
                             !.rerun = @ \cup busy,
                             !.pending = @ \cup (plan \ busy)]
       IN  IF c1.available /\ c1.pending # {} THEN [c1 EXCEPT !.timer = TRUE] ELSE c1

SetOperationalAvailable(c, available) ==
  [c EXCEPT !.available = available,
            !.timer = IF c.available = available THEN @ ELSE available /\ c.pending # {}]

(* Mutant: the rerun is only marked, not started.                          *)
CompleteWithoutRerun(c, v, ok) ==
  [c EXCEPT !.dirty = IF ok /\ v \notin c.rerun THEN @ ELSE @ \cup {v},
            !.rerun = @ \ {v}]
(* Mutant: the rerun is started, but still owed.                           *)
CompleteKeepsRerun(c, v, ok) ==
  LET again == v \in c.rerun
      c1    == [c EXCEPT !.dirty = IF ok /\ ~again THEN @ ELSE @ \cup {v}]
  IN  IF again /\ Visible(c, v) THEN Start(c1, {v}) ELSE c1
(* The completion the run of v was given.                                  *)
Complete(c, v, ok) ==
  LET again == v \in c.rerun
      c1    == [c EXCEPT !.dirty = IF ok /\ ~again THEN @ ELSE @ \cup {v},
                         !.rerun = @ \ {v}]
  IN  IF again /\ Visible(c, v) THEN Start(c1, {v}) ELSE c1

(* A panel's read has finished; the run that waits for it may be complete. *)
Finish(c, p, ok) ==
  LET v  == ViewOf[p]
      c1 == [c EXCEPT !.ask[p] = "none",
                      !.warned = IF ok THEN @ \ {p} ELSE @ \cup {p}]
      c2 == [c1 EXCEPT !.waiting[v] = @ \ {p},
                       !.spoiled = IF ok THEN @ ELSE @ \cup {v}]
  IN  IF p \notin c.waiting[v] THEN c1
      ELSE IF c2.waiting[v] # {} THEN c2
      ELSE Complete([c2 EXCEPT !.spoiled = @ \ {v}], v, v \notin c2.spoiled)

(* MainWindow: a Workspace list that arrives has every surface read again  *)
(* if a session was restored or maintenance ended since.                   *)
Reloaded(c, p, ok) ==
  IF p = Workspaces /\ ok /\ c.reloadAfter
  THEN Request([c EXCEPT !.reloadAfter = FALSE],
               {q \in Panels \ {Workspaces} : ViewOf[q] \notin Dialogs \/ q \in c.open})
  ELSE c

Answered(c, p, ok) == Finish(Reloaded(c, p, ok), p, ok)
-----------------------------------------------------------------------------
(* The Host. *)

(* Transactions commit that change what the panels of S show.              *)
Commit(S) ==
  /\ hostOpen
  /\ behind' = behind \cup S
  /\ k' = [k EXCEPT !.ask = [p \in Panels |-> IF p \in S /\ @[p] = "fresh" THEN "outdated" ELSE @[p]]]
  /\ unpublished' = unpublished \cup S
  /\ UNCHANGED <<hostOpen, link>>

Event(of) == [kind |-> "event", panel |-> Workspaces, of |-> of]
Refusal(p) == [kind |-> "refusal", panel |-> p, of |-> {}]

Broadcast(of) == IF k.up THEN Append(link, Event(of)) ELSE link

Publish(p) ==
  /\ p \in unpublished /\ Len(link) < MaxLink
  /\ unpublished' = unpublished \ {p}
  /\ link' = Broadcast({p})
  /\ UNCHANGED <<behind, hostOpen, k>>

EnterMaintenance ==
  /\ hostOpen
  /\ hostOpen' = FALSE
  /\ UNCHANGED <<behind, unpublished, link, k>>

(* The drained Host opens its admission again and broadcasts Host-wide     *)
(* domains, no Workspace-scoped one among them. The Workspace list is read *)
(* because the maintenance has ended, whether or not it is named.          *)
LeaveMaintenance ==
  /\ ~hostOpen /\ unpublished = {} /\ Len(link) < MaxLink
  /\ hostOpen' = TRUE
  /\ link' = Broadcast({})
  /\ UNCHANGED <<behind, unpublished, k>>

(* The Host did not drain in time and opens its admission again.           *)
ReopenAfterFailedEntry ==
  /\ ~hostOpen
  /\ hostOpen' = TRUE
  /\ UNCHANGED <<behind, unpublished, link, k>>

(* A request arrives: it is refused in maintenance, or read by a worker,   *)
(* whose answer may be overtaken by invalidations of later commits.        *)
HostReads(p) ==
  /\ k.ask[p] = "asked"
  /\ IF hostOpen
     THEN /\ k' = [k EXCEPT !.ask[p] = "fresh"]
          /\ UNCHANGED link
     ELSE /\ Len(link) < MaxLink
          /\ k' = [k EXCEPT !.ask[p] = "refused"]
          /\ link' = Append(link, Refusal(p))
  /\ UNCHANGED <<behind, unpublished, hostOpen>>
-----------------------------------------------------------------------------
(* The Client. *)

(* An invalidation ends the suppression of a Client that takes its Host to *)
(* be in maintenance, and then has the Workspace list read again.          *)
ReceiveEvent ==
  /\ link # <<>> /\ Head(link).kind = "event"
  /\ LET c == Receive(SetOperationalAvailable(k, TRUE), Head(link).of)
     IN  k' = IF k.available THEN c
              ELSE Request([c EXCEPT !.reloadAfter = TRUE], {Workspaces})
  /\ link' = Tail(link)
  /\ UNCHANGED <<behind, unpublished, hostOpen>>

(* A refusal tells the Client of the maintenance, that of a request which  *)
(* was superseded too, unless it has timed out.                            *)
ReceiveRefusal ==
  /\ link # <<>> /\ Head(link).kind = "refusal"
  /\ LET p == Head(link).panel
         c == SetOperationalAvailable(k, FALSE)
     IN  IF k.ask[p] = "refused" THEN k' = Answered(c, p, FALSE) ELSE k' \in {c, k}
  /\ link' = Tail(link)
  /\ UNCHANGED <<behind, unpublished, hostOpen>>

(* A response without a matching request is dropped.                       *)
ReceiveUnmatched ==
  /\ link # <<>> /\ Head(link).kind = "unmatched"
  /\ link' = Tail(link)
  /\ UNCHANGED <<behind, unpublished, hostOpen, k>>

ReceiveRows(p) ==
  /\ k.ask[p] \in {"fresh", "outdated"}
  /\ behind' = IF k.ask[p] = "fresh" THEN behind \ {p} ELSE behind \cup {p}
  /\ k' = Answered(k, p, TRUE)
  /\ UNCHANGED <<unpublished, hostOpen, link>>

(* The requests of p so far are no longer pending.                         *)
Unmatched(p) ==
  [i \in DOMAIN link |-> IF link[i] = Refusal(p) THEN [link[i] EXCEPT !.kind = "unmatched"] ELSE link[i]]

(* A request times out, or was never sent.                                 *)
ReadFails(p) ==
  /\ k.ask[p] # "none"
  /\ k' = Answered(k, p, FALSE)
  /\ link' = IF k.ask[p] = "unsent" THEN link ELSE Unmatched(p)
  /\ UNCHANGED <<behind, unpublished, hostOpen>>

(* The coalescing timer: hidden projections stay dirty.                    *)
ProcessPending ==
  /\ k.timer
  /\ k' = Start([k EXCEPT !.timer = FALSE, !.pending = {}],
                {v \in k.pending \cap k.dirty : Visible(k, v)})
  /\ UNCHANGED <<behind, unpublished, hostOpen, link>>

SurfaceBecameRelevant(c, v) ==
  IF v \in c.dirty /\ ~InFlight(c, v) /\ c.up /\ c.available
  THEN Start([c EXCEPT !.pending = @ \ {v}], {v})
  ELSE c

(* A tab is selected.                                                      *)
Show(p) ==
  /\ p \notin k.open /\ ViewOf[p] \notin Dialogs
  /\ k' = SurfaceBecameRelevant([k EXCEPT !.open = @ \cup {p}], ViewOf[p])
  /\ UNCHANGED <<behind, unpublished, hostOpen, link>>

(* A tab is left.                                                          *)
Hide(p) ==
  /\ p \in k.open /\ ViewOf[p] \notin Dialogs /\ p # Workspaces
  /\ k' = [k EXCEPT !.open = @ \ {p}]
  /\ UNCHANGED <<behind, unpublished, hostOpen, link>>

(* A dialog is opened, and reads.                                          *)
OpenDialog(p) ==
  /\ p \notin k.open /\ ViewOf[p] \in Dialogs
  /\ k' = Request(SurfaceBecameRelevant([k EXCEPT !.open = @ \cup {p}], ViewOf[p]), {p})
  /\ UNCHANGED <<behind, unpublished, hostOpen, link>>

(* A dialog that is closed is destroyed: its read will never finish, and a *)
(* run that waits for it waits until the dialog is opened again.           *)
CloseDialog(p) ==
  /\ p \in k.open /\ ViewOf[p] \in Dialogs
  /\ k' = [k EXCEPT !.open = @ \ {p}, !.ask[p] = "none"]
  /\ UNCHANGED <<behind, unpublished, hostOpen, link>>

(* Every outstanding request fails, the surfaces say that they may be      *)
(* stale, and the coordinator forgets its runs: setConnected(false).       *)
SessionLost ==
  /\ k.up
  /\ k' = [k EXCEPT !.up = FALSE,
                    !.dirty = @ \cup {v \in Views : InFlight(k, v)},
                    !.rerun = {}, !.pending = {}, !.timer = FALSE,
                    !.waiting = [v \in Views |-> {}], !.spoiled = {},
                    !.ask = [p \in Panels |-> "none"],
                    !.warned = Panels]
  /\ link' = <<>>
  /\ UNCHANGED <<behind, unpublished, hostOpen>>

(* resetContext(true), and MainWindow reads the Workspace list first.      *)
SessionEstablished ==
  /\ ~k.up
  /\ LET c == SetOperationalAvailable(k, TRUE)
     IN  k' = Request([c EXCEPT !.up = TRUE, !.dirty = {}, !.rerun = {}, !.pending = {},
                                !.timer = FALSE, !.cause = [v \in Views |-> {}],
                                !.waiting = [v \in Views |-> {}], !.spoiled = {},
                                !.reloadAfter = TRUE],
                      {Workspaces})
  /\ UNCHANGED <<behind, unpublished, hostOpen, link>>
-----------------------------------------------------------------------------
Init ==
  /\ behind = {} /\ unpublished = {} /\ hostOpen = TRUE /\ link = <<>>
  /\ k = [up |-> TRUE, available |-> TRUE, open |-> {p \in Panels : ViewOf[p] \notin Dialogs},
          dirty |-> {}, rerun |-> {}, pending |-> {}, timer |-> FALSE,
          cause |-> [v \in Views |-> {}], waiting |-> [v \in Views |-> {}], spoiled |-> {},
          ask |-> [p \in Panels |-> "none"], warned |-> {}, reloadAfter |-> FALSE]

Receives == ReceiveEvent \/ ReceiveRefusal \/ ReceiveUnmatched
GoesOn(p) == Publish(p) \/ HostReads(p) \/ ReceiveRows(p)

Next ==
  \/ \E S \in SUBSET (Panels \ {Workspaces}) \ {{}} : Commit(S)
  \/ EnterMaintenance \/ LeaveMaintenance \/ ReopenAfterFailedEntry
  \/ Receives \/ ProcessPending
  \/ \E p \in Panels : GoesOn(p) \/ ReadFails(p)
  \/ \E p \in Panels : Show(p) \/ Hide(p) \/ OpenDialog(p) \/ CloseDialog(p)
  \/ SessionLost \/ SessionEstablished

Spec == Init /\ [][Next]_vars

(* The Host's event loop and workers, the socket and the Client's timers   *)
(* go on; users, commits, maintenance and the network owe nothing.         *)
Fairness ==
  /\ \A p \in Panels : WF_vars(GoesOn(p) \/ (k.ask[p] = "unsent" /\ ReadFails(p)))
  /\ WF_vars(Receives) /\ WF_vars(ProcessPending)

FairSpec == Spec /\ Fairness
-----------------------------------------------------------------------------
Reads == {"none", "unsent", "asked", "fresh", "outdated", "refused"}

Clients ==
  [up : BOOLEAN, available : BOOLEAN, open : SUBSET Panels, dirty : SUBSET Views,
   rerun : SUBSET Views, pending : SUBSET Views, timer : BOOLEAN,
   cause : [Views -> SUBSET Panels], waiting : [Views -> SUBSET Panels],
   spoiled : SUBSET Views, ask : [Panels -> Reads], warned : SUBSET Panels, reloadAfter : BOOLEAN]

Messages == [kind : {"event", "refusal", "unmatched"}, panel : Panels, of : SUBSET Panels]

TypeOK ==
  /\ behind \subseteq Panels /\ unpublished \subseteq Panels /\ hostOpen \in BOOLEAN
  /\ link \in Seq(Messages)
  /\ k \in Clients

OnItsWay(p) == \E i \in DOMAIN link : link[i].kind = "event" /\ p \in link[i].of

(* The panel exists and shows something else than the Host's data.         *)
Stale(p) ==
  k.up /\ p \in behind /\ (ViewOf[p] \in Dialogs => p \in k.open)

(* The coordinator's marks fit together: what waits for the timer is dirty *)
(* and idle, a rerun is owed only by a projection in flight, and a run in  *)
(* flight waits for reads that are outstanding, or for a dialog that was   *)
(* closed under it.                                                        *)
MarksAgree ==
  /\ TypeOK
  /\ k.pending \subseteq k.dirty
  /\ k.timer => k.up /\ k.available
  /\ \A v \in Views :
       /\ v \in k.pending => ~InFlight(k, v)
       /\ v \in k.rerun \cup k.spoiled => InFlight(k, v)
       /\ k.waiting[v] \subseteq PanelsOf(v)
       /\ \A p \in k.waiting[v] :
            k.ask[p] # "none" \/ (v \in Dialogs /\ p \notin k.open)
  /\ \A p \in k.warned : k.ask[p] = "none"

(* No view of a connected Client is stale without anybody knowing: if what *)
(* a panel shows differs from the Host's data, then an invalidation for it *)
(* is on its way, the coordinator has its projection marked dirty, the     *)
(* panel is about to read what the Host has now, or it says itself that    *)
(* its last read failed. (Invalidations received during a read, merged     *)
(* causes, refused and failed reads, lost sessions and maintenance must    *)
(* all leave a trace.)                                                     *)
KnownStale ==
  \A p \in Panels :
    Stale(p) =>
      \/ p \in unpublished \/ OnItsWay(p)
      \/ ViewOf[p] \in k.dirty /\ p \in k.cause[ViewOf[p]]
      \/ k.ask[p] \in {"unsent", "asked", "fresh", "refused"}
      \/ p \in k.warned

(* The panel is right, or says itself that it is not; nothing is owed to a *)
(* hidden one, or while the Client knows its Host to be in maintenance.    *)
Settled(p) == ~Stale(p) \/ p \in k.warned \/ p \notin k.open \/ ~k.available

(* A tab that is stale is read again without the user's doing: whatever    *)
(* bursts, reruns, timeouts, maintenance and reconnections intervene, once *)
(* the Host's data no longer changes it settles, unless the Workspace list *)
(* could not be read, on which every reload hinges.                        *)
Busy == (unpublished' \ unpublished # {}) \/ (hostOpen /\ ~hostOpen')

Settles ==
  \/ []<><<Busy>>_vars
  \/ \A p \in Panels \ (DialogPanels \cup {Workspaces}) :
       []<>(Settled(p) \/ Workspaces \in k.warned)
=============================================================================
