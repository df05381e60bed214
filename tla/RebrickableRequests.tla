------------------------- MODULE RebrickableRequests -------------------------
(***************************************************************************)
(* The requests a BrickSuite process makes of Rebrickable. All of them     *)
(* wait in the two queues of RebrickableService, which sends them one at a *)
(* time, an interval apart, until a refusal (HTTP 429, or the ban of the   *)
(* address) ends the sending for the rest of the session. Its users here:  *)
(* the lookups of external identities (PartExternalIdEnrichmentService)    *)
(* and the procurement preview that waits for them, the background cache   *)
(* of part-color images (BackgroundPartColorImageCacheService), and the    *)
(* calls of dialogs, some of which fetch page after page.                  *)
(*                                                                         *)
(* All of it runs in one thread; what is left to chance is when timers     *)
(* fire, when and how Rebrickable answers, and what the user does. The     *)
(* clock is `due': the interval since the last request has passed. Work    *)
(* items are kept as a set, and cached ones among them are discarded       *)
(* together.                                                               *)
(***************************************************************************)
EXTENDS Naturals, Sequences, FiniteSets, SequencesExt

CONSTANTS Parts, Printed, BatchSize,           \* Part numbers; the printed ones
          Items,                               \* part-color combinations without a local image
          Calls, Paged, MaxPages,              \* calls of dialogs; those that come in pages
          None, MaxDeeds

ASSUME RequestsAssumption ==
  /\ IsFiniteSet(Parts) /\ Printed \subseteq Parts /\ Paged \subseteq Calls
  /\ BatchSize \in Nat \ {0} /\ MaxPages \in Nat \ {0} /\ MaxDeeds \in Nat
  /\ None \notin Items

VARIABLES key,        \* an API key is configured
          deeds,      \* how much the user and the Host have done that starts something
          w           \* the process: queues, lookups, images, dialogs; and what they have stored

vars == <<key, deeds, w>>

Request(call, of, page) == [call |-> call, of |-> of, page |-> page]
Deed == deeds < MaxDeeds /\ deeds' = deeds + 1

Waiting == {w.fg[n] : n \in DOMAIN w.fg} \cup {w.bg[n] : n \in DOMAIN w.bg}
-----------------------------------------------------------------------------
(* What the users do with an answer that needs no further request.         *)

(* ProcurementPreviewDialog::handleEnrichmentFinished.                     *)
Finished(v, P, failed) ==
  [v EXCEPT !.dialog = [p \in Parts |->
     IF p \in P /\ v.dialog[p] = "pending" THEN IF failed THEN "retryable" ELSE "complete"
     ELSE v.dialog[p]]]

BatchFailed(v, B) ==
  Finished([v EXCEPT !.active = @ \ B, !.imageOnly = @ \ B], B \ v.imageOnly, TRUE)

HandleDetailsResult(v, p, outcome) ==
  IF p \notin v.direct THEN v
  ELSE LET v1 == [v EXCEPT !.direct = @ \ {p},
                           !.status[p] = CASE outcome = "loaded"  -> "loaded"
                                           [] outcome = "missing" -> "unavailable"
                                           [] OTHER -> @]
       IN  Finished(v1, {p}, outcome \notin {"loaded", "missing"})

ScheduleNext(v) ==
  IF v.items = {} \/ v.blocked THEN v ELSE [v EXCEPT !.imageTimer = TRUE]

ImageReady(v, x) ==
  LET v1 == [v EXCEPT !.fetching = @ \ {x}, !.following = @ \ {x}, !.cached = @ \cup {x}]
  IN  IF x \in v.following THEN ScheduleNext(v1) ELSE v1

(* The answer to the item that is asked for. Of a queue that was rebuilt in*)
(* the meantime only the next item is scheduled.                           *)
(* Mutant: a stale answer schedules nothing.                               *)
ColorAnsweredQuietly(v, x, outcome) ==
  LET v1 == [v EXCEPT !.asking = None, !.stale = FALSE]
  IN  IF v.stale THEN v1
      ELSE CASE outcome = "failed" -> ScheduleNext([v1 EXCEPT !.skipped = @ \cup {x}])
             [] outcome \in {"missing", "imageless"} ->
                  ScheduleNext([v1 EXCEPT !.unavailable = @ \cup {x}])
             [] outcome = "image" /\ x \in v.cached ->
                  ImageReady([v1 EXCEPT !.following = @ \cup {x}], x)
             [] OTHER -> [v1 EXCEPT !.following = @ \cup {x}, !.fetching = @ \cup {x}]
ColorAnswered(v, x, outcome) ==
  LET v1 == [v EXCEPT !.asking = None, !.stale = FALSE]
  IN  IF v.stale THEN ScheduleNext(v1)
      ELSE CASE outcome = "failed" -> ScheduleNext([v1 EXCEPT !.skipped = @ \cup {x}])
             [] outcome \in {"missing", "imageless"} ->
                  ScheduleNext([v1 EXCEPT !.unavailable = @ \cup {x}])
             [] outcome = "image" /\ x \in v.cached ->
                  ImageReady([v1 EXCEPT !.following = @ \cup {x}], x)
             [] OTHER -> [v1 EXCEPT !.following = @ \cup {x}, !.fetching = @ \cup {x}]

(* A call whose dialog is gone is not answered.                            *)
CallAnswered(v, c) ==
  IF v.calls[c] = "waiting" THEN [v EXCEPT !.calls[c] = "answered"] ELSE v
-----------------------------------------------------------------------------
(* The queues of RebrickableService. *)

(* The answer a request gets that is not, or not successfully, sent.       *)
Unsuccessful(v, r) ==
  CASE r.call = "batch" -> BatchFailed(v, r.of)
    [] r.call \in {"details", "search"} -> HandleDetailsResult(v, r.of, "failed")
    [] r.call = "color" -> ColorAnswered(v, r.of, "failed")
    [] r.call = "dialog" -> CallAnswered(v, r.of)

(* Mutant: the requests that are left are forgotten.                       *)
DrainedSilently(v) == [v EXCEPT !.fg = <<>>, !.bg = <<>>]
Drained(v) == FoldLeft(Unsuccessful, [v EXCEPT !.fg = <<>>, !.bg = <<>>], v.fg \o v.bg)

(* A request whose owner was destroyed uses its turn and is not sent.      *)
Sent(v, r) ==
  IF r.call = "dialog" /\ v.calls[r.of] # "waiting" THEN v ELSE [v EXCEPT !.sent = @ \cup {r}]

NextSent(v) ==
  IF v.fg # <<>> THEN Sent([v EXCEPT !.fg = Tail(@), !.due = FALSE], Head(v.fg))
  ELSE Sent([v EXCEPT !.bg = Tail(@), !.due = FALSE], Head(v.bg))

ProcessRequestQueue(v) ==
  IF v.fg = <<>> /\ v.bg = <<>> THEN v
  ELSE IF v.blocked THEN Drained(v)
  ELSE IF ~v.due THEN [v EXCEPT !.timer = TRUE]
  ELSE LET v1 == NextSent(v)
       IN  [v1 EXCEPT !.timer = @ \/ v1.fg # <<>> \/ v1.bg # <<>>]

Enqueue(v, r, foreground) ==
  ProcessRequestQueue(IF foreground THEN [v EXCEPT !.fg = Append(@, r)]
                      ELSE [v EXCEPT !.bg = Append(@, r)])

TripSessionCircuitBreaker(v) == [v EXCEPT !.blocked = TRUE]
-----------------------------------------------------------------------------
(* The calls of the API, and what is done with their answers.              *)

GetPartImageUrls(v, B) == Enqueue(v, Request("batch", B, 1), FALSE)
GetPartDetails(v, p)   == Enqueue(v, Request("details", p, 1), FALSE)
GetPartColorDetails(v, x) == Enqueue(v, Request("color", x, 1), FALSE)
SearchPartByExternalId(v, p) == Enqueue(v, Request("search", p, 1), TRUE)

(* The next page of a dialog's call, if no page repeats and there are not  *)
(* too many of them.                                                       *)
RequestPage(v, c, page) ==
  IF page > MaxPages THEN CallAnswered(v, c) ELSE Enqueue(v, Request("dialog", c, page), TRUE)

(* Mutant: what cannot be asked stays marked.                              *)
RequestDirectMarked(v, p) ==
  IF p \in v.direct THEN v
  ELSE IF key /\ ~v.blocked THEN GetPartDetails([v EXCEPT !.direct = @ \cup {p}], p)
  ELSE Finished([v EXCEPT !.direct = @ \cup {p}], {p}, TRUE)
RequestDirectDetails(v, p) ==
  IF p \in v.direct THEN v
  ELSE IF key /\ ~v.blocked THEN GetPartDetails([v EXCEPT !.direct = @ \cup {p}], p)
  ELSE Finished(v, {p}, TRUE)

(* What an answer says of each Part of a batch: its identities are stored, *)
(* without one of BrickLink, could not be stored, or it is not in it.      *)
BatchAnswered(v, B, of) ==
  LET asked  == B \ v.imageOnly
      direct == {p \in asked \cap Printed : of[p] \in {"linkless", "absent"}}
      v1 == [v EXCEPT !.active = @ \ B, !.imageOnly = @ \ B,
                      !.status = [p \in Parts |->
                         IF p \in asked /\ of[p] \in {"loaded", "linkless"} THEN "loaded"
                         ELSE IF p \in asked \ direct /\ of[p] = "absent" THEN "unavailable"
                         ELSE v.status[p]]]
      v2 == Finished(v1, {p \in asked \ direct : of[p] # "unsaved"}, FALSE)
      v3 == Finished(v2, {p \in asked : of[p] = "unsaved"}, TRUE)
  IN  FoldLeft(RequestDirectDetails, v3, SetToSeq(direct))

(* How Rebrickable can answer; a refusal is noticed by every handler but   *)
(* that of the search, for which it is a failure like others.              *)
Answers(r) ==
  CASE r.call = "batch"   -> [r.of -> {"loaded", "linkless", "unsaved", "absent"}]
    [] r.call = "details" -> {"loaded", "unsaved", "missing"}
    [] r.call = "search"  -> {"loaded", "unsaved"}
    [] r.call = "color"   -> {"image", "imageless", "missing"}
    [] r.call = "dialog"  -> {"last"} \cup (IF r.of \in Paged THEN {"more"} ELSE {})

Answered(v, r, answer) ==
  CASE r.call = "batch" -> BatchAnswered(v, r.of, answer)
    [] r.call = "details" /\ answer = "missing" -> SearchPartByExternalId(v, r.of)
    [] r.call = "search" \/ (r.call = "details" /\ answer # "missing") ->
         HandleDetailsResult(v, r.of, answer)
    [] r.call = "color" -> ColorAnswered(v, r.of, answer)
    [] r.call = "dialog" /\ answer = "more" -> RequestPage(v, r.of, r.page + 1)
    [] OTHER -> CallAnswered(v, r.of)

Arrived(r) == [w EXCEPT !.sent = @ \ {r}]

Reply(r) ==
  /\ \E answer \in Answers(r) : w' = Answered(Arrived(r), r, answer)
  /\ UNCHANGED <<key, deeds>>

ReplyFails(r) ==
  /\ w' = Unsuccessful(Arrived(r), r)
  /\ UNCHANGED <<key, deeds>>

ReplyRefuses(r) ==
  /\ LET v == [Arrived(r) EXCEPT !.refused = TRUE]
     IN  w' = Unsuccessful(IF r.call = "search" THEN v ELSE TripSessionCircuitBreaker(v), r)
  /\ UNCHANGED <<key, deeds>>

RequestTimeout ==
  /\ w.timer
  /\ w' = ProcessRequestQueue([w EXCEPT !.timer = FALSE])
  /\ UNCHANGED <<key, deeds>>

IntervalPasses ==
  /\ ~w.due
  /\ w' = [w EXCEPT !.due = TRUE]
  /\ UNCHANGED <<key, deeds>>

(* setCoordinationMinimumIntervalMs: the interval may not have passed after*)
(* all, or it has.                                                         *)
SetCoordinationMinimumInterval ==
  /\ Deed
  /\ \E due \in BOOLEAN : w' = ProcessRequestQueue([w EXCEPT !.due = due])
  /\ UNCHANGED key
-----------------------------------------------------------------------------
(* PartExternalIdEnrichmentService. *)

EnsureExternalIds(v, P) ==
  LET new == {p \in P \ (v.queued \cup v.active \cup v.direct) : v.status[p] = "none"}
  IN  [v EXCEPT !.queued = @ \cup new, !.scheduled = @ \/ new # {}]

(* A Part number is seen in the catalog, or its image has been loaded.     *)
BrowsePart(p) ==
  /\ w' = EnsureExternalIds(w, {p})
  /\ UNCHANGED key /\ Deed

EnsureGeneralImageMetadata(p) ==
  /\ p \notin w.imagesAsked \cup w.queued \cup w.active
  /\ w' = [w EXCEPT !.imagesAsked = @ \cup {p}, !.imageOnly = @ \cup {p},
                    !.queued = @ \cup {p}, !.scheduled = TRUE]
  /\ UNCHANGED key /\ Deed

(* A batch of the Parts that wait. (Parts that are no longer active would *)
(* be left out.)                                                           *)
Dispatch(B) ==
  LET v == [w EXCEPT !.queued = @ \ B, !.scheduled = w.queued # B, !.active = @ \cup B]
  IN  IF B = {} THEN v
      ELSE IF key /\ ~w.blocked THEN GetPartImageUrls(v, B)
      ELSE Finished([v EXCEPT !.active = @ \ B], B, TRUE)

DispatchPending ==
  /\ w.scheduled
  /\ \E B \in SUBSET w.queued :
       /\ Cardinality(B) <= BatchSize
       /\ B = w.queued \/ Cardinality(B) = BatchSize
       /\ w' = Dispatch(B)
  /\ UNCHANGED <<key, deeds>>
-----------------------------------------------------------------------------
(* ProcurementPreviewDialog: it waits for what is not resolved.            *)

SubmitEnrichment(P) ==
  w' = EnsureExternalIds([w EXCEPT !.dialog = [p \in Parts |->
                             IF p \in P THEN "pending" ELSE w.dialog[p]]], P)

OpenPreview ==
  /\ \A p \in Parts : w.dialog[p] = "none"
  /\ \E P \in SUBSET {p \in Parts : w.status[p] = "none"} \ {{}} : SubmitEnrichment(P)
  /\ UNCHANGED key /\ Deed

RetryUnresolved ==
  LET P == {p \in Parts : w.dialog[p] = "retryable"}
  IN  /\ P # {} /\ \A p \in Parts : w.dialog[p] # "pending"
      /\ SubmitEnrichment(P)
      /\ UNCHANGED key /\ Deed

ClosePreview ==
  /\ \E p \in Parts : w.dialog[p] # "none"
  /\ w' = [w EXCEPT !.dialog = [p \in Parts |-> "none"]]
  /\ UNCHANGED <<key, deeds>>
-----------------------------------------------------------------------------
(* BackgroundPartColorImageCacheService. *)

Needless == w.cached \cup w.unavailable \cup w.skipped

RebuildQueue(I) ==
  LET new == IF key /\ ~w.blocked THEN I \ (w.cached \cup w.unavailable) ELSE {}
  IN  /\ w' = [w EXCEPT !.items = new, !.skipped = {}, !.following = {}, !.stale = w.asking # None,
                        !.imageTimer = w.asking = None /\ new # {}]
      /\ UNCHANGED key /\ Deed

EnqueuePortableItems(I) ==
  /\ key /\ ~w.blocked
  /\ LET all == w.items \cup (I \ Needless)
     IN  w' = [w EXCEPT !.items = all, !.imageTimer = @ \/ (w.asking = None /\ all # {})]
  /\ UNCHANGED key /\ Deed

ProcessNext ==
  /\ w.imageTimer
  /\ LET v == [w EXCEPT !.imageTimer = FALSE]
     IN  IF w.asking # None \/ w.blocked THEN w' = v
         ELSE IF w.items \subseteq Needless THEN w' = [v EXCEPT !.items = {}]
         ELSE \E x \in w.items \ Needless :
                w' = GetPartColorDetails([v EXCEPT !.items = @ \ ({x} \cup Needless), !.asking = x], x)
  /\ UNCHANGED <<key, deeds>>

ImageArrives(x) ==
  /\ x \in w.fetching
  /\ w' = ImageReady(w, x)
  /\ UNCHANGED <<key, deeds>>

ImageFails(x) ==
  /\ x \in w.fetching
  /\ LET v == [w EXCEPT !.fetching = @ \ {x}, !.following = @ \ {x}]
     IN  w' = IF x \in w.following THEN ScheduleNext([v EXCEPT !.skipped = @ \cup {x}]) ELSE v
  /\ UNCHANGED <<key, deeds>>
-----------------------------------------------------------------------------
(* A call of a dialog; without a key, or once the breaker has tripped, it  *)
(* is answered at once. A dialog takes its replies with it.                *)
Ask(c) ==
  /\ w.calls[c] = "none"
  /\ LET v == [w EXCEPT !.calls[c] = "waiting"]
     IN  w' = IF ~key \/ w.blocked THEN CallAnswered(v, c) ELSE RequestPage(v, c, 1)
  /\ UNCHANGED key /\ Deed

CloseDialog(c) ==
  /\ w.calls[c] = "waiting"
  /\ w' = [w EXCEPT !.calls[c] = "gone", !.sent = {r \in @ : r.call # "dialog" \/ r.of # c}]
  /\ UNCHANGED <<key, deeds>>

EnterKey ==
  /\ ~key /\ key' = TRUE
  /\ UNCHANGED <<deeds, w>>
-----------------------------------------------------------------------------
Init ==
  /\ key \in BOOLEAN /\ deeds = 0
  /\ w = [fg |-> <<>>, bg |-> <<>>, sent |-> {}, timer |-> FALSE, due |-> TRUE,
          blocked |-> FALSE, refused |-> FALSE,
          queued |-> {}, active |-> {}, direct |-> {}, imageOnly |-> {}, imagesAsked |-> {},
          scheduled |-> FALSE, status |-> [p \in Parts |-> "none"],
          dialog |-> [p \in Parts |-> "none"],
          items |-> {}, asking |-> None, stale |-> FALSE, imageTimer |-> FALSE,
          fetching |-> {}, following |-> {}, skipped |-> {}, cached |-> {}, unavailable |-> {},
          calls |-> [c \in Calls |-> "none"]]

Next ==
  \/ RequestTimeout \/ IntervalPasses \/ SetCoordinationMinimumInterval \/ EnterKey
  \/ \E r \in w.sent : Reply(r) \/ ReplyFails(r) \/ ReplyRefuses(r)
  \/ DispatchPending \/ (\E p \in Parts : BrowsePart(p) \/ EnsureGeneralImageMetadata(p))
  \/ OpenPreview \/ RetryUnresolved \/ ClosePreview
  \/ ProcessNext \/ (\E I \in SUBSET Items : RebuildQueue(I) \/ EnqueuePortableItems(I))
  \/ \E x \in Items : ImageArrives(x) \/ ImageFails(x)
  \/ \E c \in Calls : Ask(c) \/ CloseDialog(c)

Spec == Init /\ [][Next]_vars

(* Timers fire, and of what is sent something is answered or fails.        *)
Settling == \E r \in w.sent : Reply(r) \/ ReplyFails(r) \/ ReplyRefuses(r)

FairSpec ==
  /\ Spec
  /\ WF_vars(RequestTimeout) /\ WF_vars(IntervalPasses) /\ WF_vars(DispatchPending)
  /\ WF_vars(Settling)
-----------------------------------------------------------------------------
Outstanding == Waiting \cup w.sent

(* What is queued is attended to: a queued request by the request timer, an*)
(* item of the image queue by its timer or by what it waits for, whatever  *)
(* overtakes it: rebuilt queues, late answers and images, a tripped breaker*)
QueuesAttended ==
  /\ Waiting # {} => w.timer
  /\ w.queued # {} => w.scheduled
  /\ w.items # {} /\ ~w.blocked => w.imageTimer \/ w.asking # None \/ w.following # {}

(* A lookup that is under way is under way at Rebrickable, in exactly one  *)
(* request; no answer, and no failure to send, leaves a Part marked for    *)
(* ever, of which no lookup would then be started again.                   *)
Asked(p) == {r \in Outstanding : r.call = "batch" /\ p \in r.of}
Detailed(p) == {r \in Outstanding : r.call \in {"details", "search"} /\ r.of = p}

MarksAreRequests ==
  /\ \A p \in Parts :
       /\ Cardinality(Asked(p)) = IF p \in w.active THEN 1 ELSE 0
       /\ Cardinality(Detailed(p)) = IF p \in w.direct THEN 1 ELSE 0
  /\ w.asking # None <=> \E r \in Outstanding : r.call = "color"

(* The preview and the dialogs get their answers: a Part that is shown as  *)
(* being resolved is, and every call is answered, with the breaker tripped *)
(* or not. Of a Part two things end no wait: the batch that asks for its   *)
(* images only, and a lookup that was over, or never made because its      *)
(* images had been asked for, before the wait began.                       *)
UnderWay(p) == p \in w.queued \cup w.active \cup w.direct

Excepted(p) ==
  \/ p \in w.imageOnly \ w.direct
  \/ ~UnderWay(p) /\ (w.status[p] # "none" \/ p \in w.imagesAsked)

WaitsEnd ==
  /\ \A p \in Parts : w.dialog[p] = "pending" /\ ~Excepted(p) ~> w.dialog[p] # "pending"
  /\ \A c \in Calls : w.calls[c] = "waiting" ~> w.calls[c] # "waiting"

(* Once Rebrickable has refused a request for its rate, no further request *)
(* is sent in this session.                                                *)
RefusalIsFinal == [][w.refused => w'.sent \subseteq w.sent]_vars
=============================================================================
