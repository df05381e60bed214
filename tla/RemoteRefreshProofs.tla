------------------------- MODULE RemoteRefreshProofs ------------------------
(***************************************************************************)
(* The refresh of a Client's views, for any projections, panels, dialogs   *)
(* and any length of the link: the coordinator's marks fit together, and   *)
(* no view is stale without anybody knowing.                               *)
(*                                                                         *)
(* The invariant follows a panel from the commit to the read: while its    *)
(* rows are behind the Host's it is announced, marked, asked for, or says  *)
(* itself that it is stale, and an answer that commits have overtaken has  *)
(* their invalidation coming. Most steps of the Client forget nothing of a *)
(* panel (Follows), which is shown for each operator of the coordinator    *)
(* and of the widgets, and so for whatever they are composed to.           *)
(***************************************************************************)
EXTENDS RemoteRefresh, TLAPS

-----------------------------------------------------------------------------
(* The inductive invariant                                                 *)

(* The panel p exists: a tab always, a dialog while it is open.            *)
Shown(c, p) == ViewOf[p] \in Dialogs => p \in c.open

(* The coordinator owes p a run.                                           *)
Marked(c, p) == ViewOf[p] \in c.dirty /\ p \in c.cause[ViewOf[p]]

(* What marks the rows of p as possibly stale, or says that they are.      *)
Traced(c, p) ==
  \/ Marked(c, p)
  \/ c.ask[p] \in {"unsent", "asked", "fresh", "refused"}
  \/ p \in c.warned

(* An invalidation of p is to be sent, or on its way.                      *)
Announced(p) == p \in unpublished \/ OnItsWay(p)

(* The coordinator's marks fit together, and a cause names panels of its   *)
(* own projection.                                                         *)
Marks(c) ==
  /\ c \in Clients
  /\ c.pending \subseteq c.dirty
  /\ c.timer => c.up /\ c.available
  /\ \A v \in Views :
       /\ v \in c.pending => c.waiting[v] = {}
       /\ v \in c.rerun \cup c.spoiled => c.waiting[v] # {}
       /\ \A p \in c.cause[v] : ViewOf[p] = v
       /\ \A p \in c.waiting[v] : ViewOf[p] = v /\ (c.ask[p] # "none" \/ ~Shown(c, p))
  /\ \A p \in c.warned : c.ask[p] = "none"

(* A Client without a session says so, and waits for nothing.              *)
Quiet(c, p) ==
  ~c.up => /\ c.ask[p] \in {"none", "unsent"}
           /\ Shown(c, p) => p \in c.warned \/ c.ask[p] = "unsent"

(* A dialog that is closed has no read outstanding.                        *)
Destroyed(c, p) == ~Shown(c, p) => c.ask[p] = "none"

(* An answer that commits have overtaken is followed by their              *)
(* invalidation.                                                           *)
Overtaken(p) == k.ask[p] = "outdated" => Announced(p) \/ Marked(k, p)

(* What KnownStale says of p.                                              *)
Accounted(p) == Stale(p) => Announced(p) \/ Traced(k, p)

(* What is kept of each panel.                                             *)
PanelInv(p) == Quiet(k, p) /\ Destroyed(k, p) /\ Overtaken(p) /\ Accounted(p)

(* Types of what is the Host's, and of what is on its way.                 *)
HostTyped ==
  /\ behind \subseteq Panels /\ unpublished \subseteq Panels /\ hostOpen \in BOOLEAN
  /\ link \in Seq(Messages)

(* The inductive invariant.                                                *)
RefreshInv ==
  /\ HostTyped
  /\ Marks(k)
  /\ ~k.up => link = <<>>
  /\ \A p \in Panels : PanelInv(p)

-----------------------------------------------------------------------------
(* A Client step by step: requests, and what a step does not forget        *)

(* The fields of a Client.                                                 *)
LEMMA ClientFields ==
  ASSUME NEW c \in Clients
  PROVE  /\ c.up \in BOOLEAN /\ c.available \in BOOLEAN /\ c.open \subseteq Panels
         /\ c.dirty \subseteq Views /\ c.rerun \subseteq Views /\ c.pending \subseteq Views
         /\ c.timer \in BOOLEAN /\ c.cause \in [Views -> SUBSET Panels]
         /\ c.waiting \in [Views -> SUBSET Panels] /\ c.spoiled \subseteq Views
         /\ c.ask \in [Panels -> Reads] /\ c.warned \subseteq Panels /\ c.reloadAfter \in BOOLEAN
BY DEF Clients

(* Every panel has its projection.                                         *)
LEMMA ViewTyped == ViewOf \in [Panels -> Views]
BY PanelsAssumption

(* What a request of the panels of S leaves behind.                        *)
Asked(c, S, r) ==
  /\ r \in Clients
  /\ r.up = c.up /\ r.available = c.available /\ r.open = c.open /\ r.dirty = c.dirty
  /\ r.rerun = c.rerun /\ r.pending = c.pending /\ r.timer = c.timer /\ r.cause = c.cause
  /\ r.waiting = c.waiting /\ r.spoiled = c.spoiled /\ r.reloadAfter = c.reloadAfter
  /\ r.warned = c.warned \ S
  /\ \A p \in Panels : r.ask[p] = IF p \notin S THEN c.ask[p]
                                  ELSE IF c.up /\ c.available THEN "asked" ELSE "unsent"

(* Request does.                                                           *)
LEMMA Requested ==
  ASSUME NEW c \in Clients, NEW S
  PROVE  Asked(c, S, Request(c, S))
<1> DEFINE a == [p \in Panels |-> IF p \notin S THEN c.ask[p] ELSE IF c.up /\ c.available THEN "asked" ELSE "unsent"]
           w == c.warned \ S
           r == [c EXCEPT !.ask = a, !.warned = w]
<1>1. Request(c, S) = r
  BY DEF Request
<1>2. a \in [Panels -> Reads] /\ w \subseteq Panels
  BY ClientFields DEF Reads
<1>3. \A p \in Panels : a[p] = IF p \notin S THEN c.ask[p] ELSE IF c.up /\ c.available THEN "asked" ELSE "unsent"
  OBVIOUS
<1>4. w = c.warned \ S
  OBVIOUS
<1> HIDE DEF a, w
<1>5. r \in Clients
  BY <1>2 DEF Clients
<1>6. /\ r.up = c.up /\ r.available = c.available /\ r.open = c.open /\ r.dirty = c.dirty
      /\ r.rerun = c.rerun /\ r.pending = c.pending /\ r.timer = c.timer /\ r.cause = c.cause
      /\ r.waiting = c.waiting /\ r.spoiled = c.spoiled /\ r.reloadAfter = c.reloadAfter
      /\ r.warned = w /\ r.ask = a
  BY DEF Clients
<1> HIDE DEF r
<1>7. Asked(c, S, r)
  BY <1>3, <1>4, <1>5, <1>6 DEF Asked
<1>8. QED
  BY <1>1, <1>7

(* A request keeps the marks.                                              *)
LEMMA AskedMarks ==
  ASSUME NEW c, Marks(c), NEW S, NEW r, Asked(c, S, r)
  PROVE  Marks(r)
<1>1. c \in Clients /\ r \in Clients /\ c.waiting \in [Views -> SUBSET Panels] /\ c.warned \subseteq Panels
  BY ClientFields DEF Marks, Asked
<1>2. \A p \in Panels : r.ask[p] = c.ask[p] \/ (p \in S /\ r.ask[p] # "none")
  BY DEF Asked
<1>3. \A p \in Panels : Shown(r, p) <=> Shown(c, p)
  BY DEF Shown, Asked
<1>4. \A p \in r.warned : p \in c.warned /\ p \in Panels /\ p \notin S
  BY <1>1 DEF Asked
<1>5. \A p \in r.warned : r.ask[p] = "none"
  BY <1>2, <1>4 DEF Marks
<1>6. ASSUME NEW v \in Views, NEW p \in r.waiting[v]
      PROVE  ViewOf[p] = v /\ (r.ask[p] # "none" \/ ~Shown(r, p))
  <2>1. p \in c.waiting[v] /\ p \in Panels
    BY <1>1, <1>6 DEF Asked
  <2>2. ViewOf[p] = v /\ (c.ask[p] # "none" \/ ~Shown(c, p))
    BY <2>1 DEF Marks
  <2>3. QED
    BY <1>2, <1>3, <2>1, <2>2
<1>7. QED
  BY <1>1, <1>5, <1>6 DEF Marks, Asked

(* From c to d nothing is forgotten of p: what marked it, or said that it  *)
(* is stale, still does, or p is asked for anew. Without a session a       *)
(* request is only noted.                                                  *)
FollowsAt(c, d, p) ==
  /\ Shown(d, p) <=> Shown(c, p)
  /\ Shown(c, p) =>
       /\ Marked(c, p) => Marked(d, p) \/ d.ask[p] \in {"unsent", "asked"}
       /\ p \in c.warned => p \in d.warned \/ d.ask[p] \in {"unsent", "asked"}
       /\ d.ask[p] = c.ask[p] \/ (d.ask[p] \in {"unsent", "asked"} /\ (d.ask[p] = "asked" => c.up))
  /\ ~Shown(c, p) => d.ask[p] = c.ask[p]

(* Nothing is forgotten of any panel, and the session stays.               *)
Follows(c, d) == d.up = c.up /\ \A p \in Panels : FollowsAt(c, d, p)

(* What two steps in a row do not forget, they together do not, panel by   *)
(* panel,                                                                  *)
LEMMA FollowsTwiceAt ==
  ASSUME NEW c, NEW d, NEW e, NEW p, d.up = c.up, FollowsAt(c, d, p), FollowsAt(d, e, p)
  PROVE  FollowsAt(c, e, p)
BY DEF FollowsAt

(* and of all panels.                                                      *)
LEMMA FollowsTwice ==
  ASSUME NEW c, NEW d, NEW e, Follows(c, d), Follows(d, e)
  PROVE  Follows(c, e)
BY FollowsTwiceAt DEF Follows

(* A Client that does not change forgets nothing.                          *)
LEMMA FollowsItself ==
  ASSUME NEW c
  PROVE  Follows(c, c)
BY DEF Follows, FollowsAt, Shown

(* A request of panels that exist forgets nothing.                         *)
LEMMA AskedFollows ==
  ASSUME NEW c, NEW S, NEW r, Asked(c, S, r), \A p \in S : p \in Panels => Shown(c, p)
  PROVE  Follows(c, r)
<1>1. ASSUME NEW p \in Panels, Marked(c, p)
      PROVE  Marked(r, p)
  BY <1>1 DEF Marked, Asked
<1>2. \A p \in Panels : r.ask[p] = c.ask[p] \/ (p \in S /\ r.ask[p] \in {"unsent", "asked"} /\ (r.ask[p] = "asked" => c.up))
  BY DEF Asked
<1>3. \A p \in Panels : p \in c.warned => p \in r.warned \/ r.ask[p] \in {"unsent", "asked"}
  BY DEF Asked
<1>4. r.up = c.up /\ r.open = c.open
  BY DEF Asked
<1>5. QED
  BY <1>1, <1>2, <1>3, <1>4 DEF Follows, FollowsAt, Shown

-----------------------------------------------------------------------------
(* The coordinator and the surfaces                                        *)

(* A run reads panels of its own projection that exist.                    *)
LEMMA Scoped ==
  ASSUME NEW c, Marks(c), NEW v \in Views
  PROVE  Scope(c, v) \subseteq Panels /\ \A p \in Scope(c, v) : ViewOf[p] = v /\ Shown(c, p)
<1>1. c \in Clients /\ c.cause \in [Views -> SUBSET Panels] /\ \A p \in c.cause[v] : ViewOf[p] = v
  BY ClientFields DEF Marks
<1>2. QED
  BY <1>1 DEF Scope, PanelsOf, Shown

(* The projections of S whose runs begin.                                  *)
Started(c, S) == IF c.up /\ c.available THEN {v \in S : c.waiting[v] = {}} ELSE {}

(* A run that begins reads every panel that was marked for it, and those   *)
(* it waits for are asked for: the marks are kept and nothing is           *)
(* forgotten.                                                              *)
LEMMA Starts ==
  ASSUME NEW c, Marks(c), NEW S \in SUBSET Views, S \cap c.pending = {}
  PROVE  Marks(Start(c, S)) /\ Follows(c, Start(c, S))
<1> DEFINE st == Started(c, S)
           dy == c.dirty \ st
           rr == c.rerun \ st
           ca == [v \in Views |-> IF v \in st THEN {} ELSE c.cause[v]]
           wa == [v \in Views |-> IF v \in st THEN Scope(c, v) ELSE c.waiting[v]]
           b == [c EXCEPT !.dirty = dy, !.rerun = rr, !.cause = ca, !.waiting = wa]
           rd == UNION {Scope(c, v) : v \in st}
           r == Request(b, rd)
<1>1. Start(c, S) = r
  BY DEF Start, Started, InFlight
<1>2. /\ c \in Clients /\ c.dirty \subseteq Views /\ c.rerun \subseteq Views /\ c.pending \subseteq Views
      /\ c.cause \in [Views -> SUBSET Panels] /\ c.waiting \in [Views -> SUBSET Panels]
      /\ c.spoiled \subseteq Views /\ c.warned \subseteq Panels /\ c.ask \in [Panels -> Reads]
  BY ClientFields DEF Marks
<1>3. st \subseteq Views /\ st \cap c.pending = {} /\ (st # {} => c.up /\ c.available)
      /\ \A v \in st : c.waiting[v] = {}
  BY DEF Started
<1>4. \A v \in st : Scope(c, v) \subseteq Panels /\ \A p \in Scope(c, v) : ViewOf[p] = v /\ Shown(c, p)
  BY <1>3, Scoped
<1>5. /\ dy \subseteq Views /\ rr \subseteq Views /\ ca \in [Views -> SUBSET Panels] /\ wa \in [Views -> SUBSET Panels]
      /\ \A v \in Views : ca[v] = IF v \in st THEN {} ELSE c.cause[v]
      /\ \A v \in Views : wa[v] = IF v \in st THEN Scope(c, v) ELSE c.waiting[v]
  BY <1>2, <1>4
<1>6. rd \subseteq Panels /\ \A p \in rd : ViewOf[p] \in st /\ p \in Scope(c, ViewOf[p]) /\ Shown(c, p)
  BY <1>4
<1>7. \A v \in st : \A p \in Scope(c, v) : p \in rd
  OBVIOUS
<1>8. dy = c.dirty \ st /\ rr = c.rerun \ st
  OBVIOUS
<1> HIDE DEF st, dy, rr, ca, wa, rd
<1>9. /\ b \in Clients /\ b.up = c.up /\ b.available = c.available /\ b.open = c.open
      /\ b.dirty = dy /\ b.rerun = rr /\ b.pending = c.pending /\ b.timer = c.timer /\ b.cause = ca
      /\ b.waiting = wa /\ b.spoiled = c.spoiled /\ b.reloadAfter = c.reloadAfter
      /\ b.warned = c.warned /\ b.ask = c.ask
  BY <1>2, <1>5 DEF Clients
<1> HIDE DEF b
<1>10. Asked(b, rd, r)
  BY <1>9, Requested
<1> HIDE DEF r
<1>11. /\ r \in Clients /\ r.up = c.up /\ r.available = c.available /\ r.open = c.open
       /\ r.dirty = dy /\ r.rerun = rr /\ r.pending = c.pending /\ r.timer = c.timer /\ r.cause = ca
       /\ r.waiting = wa /\ r.spoiled = c.spoiled /\ r.warned = c.warned \ rd
       /\ \A p \in Panels : r.ask[p] = IF p \notin rd THEN c.ask[p] ELSE IF c.up /\ c.available THEN "asked" ELSE "unsent"
  BY <1>9, <1>10 DEF Asked
<1>12. \A p \in rd : r.ask[p] = "asked" /\ c.up
  BY <1>3, <1>6, <1>11
<1>13. \A p \in Panels : Shown(r, p) <=> Shown(c, p)
  BY <1>11 DEF Shown
<1>14. Marks(r)
  <2>1. r.pending \subseteq r.dirty
    BY <1>3, <1>8, <1>11 DEF Marks
  <2>2. r.timer => r.up /\ r.available
    BY <1>11 DEF Marks
  <2>3. \A p \in r.warned : r.ask[p] = "none"
    BY <1>2, <1>11 DEF Marks
  <2>4. ASSUME NEW v \in Views
        PROVE  /\ v \in r.pending => r.waiting[v] = {}
               /\ v \in r.rerun \cup r.spoiled => r.waiting[v] # {}
               /\ \A p \in r.cause[v] : ViewOf[p] = v
               /\ \A p \in r.waiting[v] : ViewOf[p] = v /\ (r.ask[p] # "none" \/ ~Shown(r, p))
    <3>0. /\ v \in c.pending => c.waiting[v] = {}
          /\ v \in c.rerun \cup c.spoiled => c.waiting[v] # {}
          /\ \A p \in c.cause[v] : ViewOf[p] = v
          /\ \A p \in c.waiting[v] : ViewOf[p] = v /\ (c.ask[p] # "none" \/ ~Shown(c, p))
      BY DEF Marks
    <3>1. CASE v \in st
      <4>1. v \notin r.pending /\ v \notin r.rerun /\ v \notin r.spoiled
        BY <1>3, <1>8, <1>11, <3>0, <3>1
      <4>2. r.cause[v] = {} /\ r.waiting[v] = Scope(c, v)
        BY <1>5, <1>11, <3>1
      <4>3. QED
        BY <1>4, <1>7, <1>12, <3>1, <4>1, <4>2
    <3>2. CASE v \notin st
      <4>1. r.cause[v] = c.cause[v] /\ r.waiting[v] = c.waiting[v]
        BY <1>5, <1>11, <3>2
      <4>2. v \in r.rerun => v \in c.rerun
        BY <1>8, <1>11
      <4>3. \A p \in c.waiting[v] : r.ask[p] # "none" \/ ~Shown(r, p)
        BY <1>2, <1>11, <1>12, <1>13, <3>0
      <4>4. QED
        BY <1>11, <3>0, <4>1, <4>2, <4>3
    <3>3. QED
      BY <3>1, <3>2
  <2>5. QED
    BY <1>11, <2>1, <2>2, <2>3, <2>4 DEF Marks
<1>15. Follows(c, r)
  <2>1. ASSUME NEW p \in Panels, Shown(c, p), Marked(c, p)
        PROVE  Marked(r, p) \/ r.ask[p] \in {"unsent", "asked"}
    <3>1. ViewOf[p] \in Views
      BY ViewTyped
    <3>2. CASE ViewOf[p] \in st
      <4>1. p \in c.cause[ViewOf[p]]
        BY <2>1 DEF Marked
      <4>2. p \in Scope(c, ViewOf[p])
        BY <2>1, <4>1 DEF Scope, Shown
      <4>3. QED
        BY <1>7, <1>12, <3>2, <4>2
    <3>3. CASE ViewOf[p] \notin st
      BY <1>5, <1>8, <1>11, <2>1, <3>1, <3>3 DEF Marked
    <3>4. QED
      BY <3>2, <3>3
  <2>2. \A p \in Panels : r.ask[p] = c.ask[p] \/ (p \in rd /\ r.ask[p] = "asked" /\ c.up)
    BY <1>11, <1>12
  <2>3. \A p \in Panels : p \in c.warned => p \in r.warned \/ r.ask[p] \in {"unsent", "asked"}
    BY <1>11, <1>12
  <2>4. QED
    BY <1>6, <1>11, <2>1, <2>2, <2>3 DEF Follows, FollowsAt, Shown
<1>16. QED
  BY <1>1, <1>14, <1>15

(* An invalidation that is received marks what it names, in flight or not, *)
(* whatever was marked before.                                             *)
LEMMA Invalidates ==
  ASSUME NEW c, Marks(c), NEW of \in SUBSET Panels
  PROVE  /\ Marks(Receive(c, of)) /\ Follows(c, Receive(c, of))
         /\ c.up => \A p \in of : Marked(Receive(c, of), p)
<1>1. CASE ~c.up
  <2>1. Receive(c, of) = c
    BY <1>1 DEF Receive
  <2>2. QED
    BY <1>1, <2>1, FollowsItself
<1>2. CASE c.up
  <2> DEFINE plan == {v \in Views : \E p \in of : ViewOf[p] = v}
             busy == {v \in plan : c.waiting[v] # {}}
             new(v) == MergeCause(v, c.cause[v], of \cap PanelsOf(v))
             ca == [v \in Views |-> IF v \in plan THEN new(v) ELSE c.cause[v]]
             dy == c.dirty \cup plan
             rr == c.rerun \cup busy
             pn == c.pending \cup (plan \ busy)
             b == [c EXCEPT !.cause = ca, !.dirty = dy, !.rerun = rr, !.pending = pn]
             tm == IF b.available /\ b.pending # {} THEN TRUE ELSE b.timer
             d == [b EXCEPT !.timer = tm]
             r == IF b.available /\ b.pending # {} THEN [b EXCEPT !.timer = TRUE] ELSE b
  <2>1. Receive(c, of) = r
    BY <1>2 DEF Receive, InFlight
  <2>2. /\ c \in Clients /\ c.dirty \subseteq Views /\ c.rerun \subseteq Views /\ c.pending \subseteq Views
        /\ c.cause \in [Views -> SUBSET Panels] /\ c.waiting \in [Views -> SUBSET Panels]
        /\ c.timer \in BOOLEAN
    BY ClientFields DEF Marks
  <2>3. \A v \in Views : PanelsOf(v) \subseteq Panels /\ \A p \in PanelsOf(v) : ViewOf[p] = v
    BY DEF PanelsOf
  <2>4. ASSUME NEW v \in Views
        PROVE  /\ new(v) \subseteq PanelsOf(v)
               /\ c.cause[v] \cap PanelsOf(v) \subseteq new(v)
               /\ of \cap PanelsOf(v) \subseteq new(v)
    BY DEF MergeCause
  <2>5. \A v \in Views : c.cause[v] \subseteq PanelsOf(v)
    BY <2>2 DEF Marks, PanelsOf
  <2>6. \A v \in Views : ca[v] = IF v \in plan THEN new(v) ELSE c.cause[v]
    OBVIOUS
  <2>7. \A v \in Views : ca[v] \subseteq PanelsOf(v) /\ c.cause[v] \subseteq ca[v]
                         /\ (v \in plan => of \cap PanelsOf(v) \subseteq ca[v])
    BY <2>4, <2>5, <2>6
  <2>8. ca \in [Views -> SUBSET Panels]
    <3>1. DOMAIN ca = Views /\ ca = [v \in Views |-> ca[v]]
      OBVIOUS
    <3> HIDE DEF ca
    <3>2. \A v \in Views : ca[v] \in SUBSET Panels
      BY <2>3, <2>7
    <3>3. QED
      BY <3>1, <3>2
  <2>9. plan \subseteq Views /\ busy \subseteq plan /\ (\A v \in plan : v \in busy <=> c.waiting[v] # {})
        /\ \A p \in of : ViewOf[p] \in plan /\ p \in PanelsOf(ViewOf[p])
    BY ViewTyped DEF PanelsOf
  <2>10. dy = c.dirty \cup plan /\ rr = c.rerun \cup busy /\ pn = c.pending \cup (plan \ busy)
    OBVIOUS
  <2> HIDE DEF plan, busy, ca, dy, rr, pn, new
  <2>11. dy \subseteq Views /\ rr \subseteq Views /\ pn \subseteq Views
    BY <2>2, <2>9, <2>10
  <2>12. /\ b \in Clients /\ b.up = c.up /\ b.available = c.available /\ b.open = c.open
         /\ b.dirty = dy /\ b.rerun = rr /\ b.pending = pn /\ b.timer = c.timer /\ b.cause = ca
         /\ b.waiting = c.waiting /\ b.spoiled = c.spoiled /\ b.reloadAfter = c.reloadAfter
         /\ b.warned = c.warned /\ b.ask = c.ask
    BY <2>2, <2>8, <2>11 DEF Clients
  <2> HIDE DEF b
  <2>13. /\ r \in Clients /\ r.up = c.up /\ r.available = c.available /\ r.open = c.open
         /\ r.dirty = dy /\ r.rerun = rr /\ r.pending = pn /\ r.cause = ca
         /\ r.waiting = c.waiting /\ r.spoiled = c.spoiled /\ r.reloadAfter = c.reloadAfter
         /\ r.warned = c.warned /\ r.ask = c.ask
         /\ r.timer => c.timer \/ c.available
    <3>1. CASE b.available /\ b.pending # {}
      <4>1. r = [b EXCEPT !.timer = TRUE]
        BY <3>1
      <4> HIDE DEF r
      <4>2. QED
        BY <2>12, <3>1, <4>1 DEF Clients
    <3>2. CASE ~(b.available /\ b.pending # {})
      <4>1. r = b
        BY <3>2
      <4> HIDE DEF r
      <4>2. QED
        BY <2>12, <4>1
    <3>3. QED
      BY <3>1, <3>2
  <2> HIDE DEF r
  <2>14. Marks(r)
    <3>1. r.pending \subseteq r.dirty
      BY <2>9, <2>10, <2>13 DEF Marks
    <3>2. r.timer => r.up /\ r.available
      BY <1>2, <2>13 DEF Marks
    <3>3. ASSUME NEW v \in Views
          PROVE  /\ v \in r.pending => r.waiting[v] = {}
                 /\ v \in r.rerun \cup r.spoiled => r.waiting[v] # {}
                 /\ \A p \in r.cause[v] : ViewOf[p] = v
                 /\ \A p \in r.waiting[v] : ViewOf[p] = v /\ (r.ask[p] # "none" \/ ~Shown(r, p))
      <4>0. /\ v \in c.pending => c.waiting[v] = {}
            /\ v \in c.rerun \cup c.spoiled => c.waiting[v] # {}
            /\ \A p \in c.waiting[v] : ViewOf[p] = v /\ (c.ask[p] # "none" \/ ~Shown(c, p))
        BY DEF Marks
      <4>1. v \in r.pending => r.waiting[v] = {}
        BY <2>9, <2>10, <2>13, <4>0
      <4>2. v \in r.rerun \cup r.spoiled => r.waiting[v] # {}
        BY <2>9, <2>10, <2>13, <4>0
      <4>3. \A p \in r.cause[v] : ViewOf[p] = v
        BY <2>3, <2>7, <2>13
      <4>4. \A p \in r.waiting[v] : ViewOf[p] = v /\ (r.ask[p] # "none" \/ ~Shown(r, p))
        BY <2>13, <4>0 DEF Shown
      <4>5. QED
        BY <4>1, <4>2, <4>3, <4>4
    <3>4. \A p \in r.warned : r.ask[p] = "none"
      BY <2>13 DEF Marks
    <3>5. QED
      BY <2>13, <3>1, <3>2, <3>3, <3>4 DEF Marks
  <2>15. \A p \in Panels : Marked(c, p) => Marked(r, p)
    BY <2>7, <2>10, <2>13, ViewTyped DEF Marked
  <2>16. Follows(c, r)
    BY <2>13, <2>15 DEF Follows, FollowsAt, Shown
  <2>17. \A p \in of : Marked(r, p)
    BY <2>7, <2>9, <2>10, <2>13 DEF Marked
  <2>18. QED
    BY <2>1, <2>14, <2>16, <2>17
<1>3. QED
  BY <1>1, <1>2, ClientFields DEF Marks

(* Whether the Host is taken to be in maintenance is no mark.              *)
LEMMA Available ==
  ASSUME NEW c, Marks(c), c.up, NEW a \in BOOLEAN
  PROVE  LET d == SetOperationalAvailable(c, a)
         IN  /\ Marks(d) /\ Follows(c, d) /\ d.up /\ d.available = a /\ d.ask = c.ask /\ d.warned = c.warned
             /\ d.cause = c.cause /\ d.dirty = c.dirty /\ d.open = c.open
<1> DEFINE t == IF c.available = a THEN c.timer ELSE a /\ c.pending # {}
           d == [c EXCEPT !.available = a, !.timer = t]
<1>1. SetOperationalAvailable(c, a) = d
  BY DEF SetOperationalAvailable
<1>2. c \in Clients /\ c.timer \in BOOLEAN /\ (c.timer => c.available) /\ c.available \in BOOLEAN
  BY ClientFields DEF Marks
<1>3. t \in BOOLEAN /\ (t => a)
  BY <1>2
<1> HIDE DEF t
<1>4. /\ d \in Clients /\ d.up = c.up /\ d.available = a /\ d.open = c.open
      /\ d.dirty = c.dirty /\ d.rerun = c.rerun /\ d.pending = c.pending /\ d.timer = t /\ d.cause = c.cause
      /\ d.waiting = c.waiting /\ d.spoiled = c.spoiled /\ d.warned = c.warned /\ d.ask = c.ask
  BY <1>2, <1>3 DEF Clients
<1> HIDE DEF d
<1>5. Marks(d)
  <2>1. d.timer => d.up /\ d.available
    BY <1>3, <1>4
  <2>2. QED
    BY <1>4, <2>1 DEF Marks, Shown
<1>6. Follows(c, d)
  BY <1>4 DEF Follows, Marked, FollowsAt, Shown
<1>7. QED
  BY <1>1, <1>4, <1>5, <1>6

(* Nor is a surface that comes to be seen: it may only begin a run.        *)
LEMMA Relevant ==
  ASSUME NEW c, Marks(c), NEW v \in Views
  PROVE  Marks(SurfaceBecameRelevant(c, v)) /\ Follows(c, SurfaceBecameRelevant(c, v))
<1> DEFINE pn == c.pending \ {v}
           d == [c EXCEPT !.pending = pn]
<1>1. CASE v \in c.dirty /\ ~InFlight(c, v) /\ c.up /\ c.available
  <2>1. SurfaceBecameRelevant(c, v) = Start(d, {v})
    BY <1>1 DEF SurfaceBecameRelevant
  <2>2. c \in Clients /\ pn \subseteq Views /\ pn \subseteq c.pending /\ v \notin pn
    BY ClientFields DEF Marks
  <2> HIDE DEF pn
  <2>3. /\ d \in Clients /\ d.up = c.up /\ d.available = c.available /\ d.open = c.open
        /\ d.dirty = c.dirty /\ d.rerun = c.rerun /\ d.pending = pn /\ d.timer = c.timer /\ d.cause = c.cause
        /\ d.waiting = c.waiting /\ d.spoiled = c.spoiled /\ d.warned = c.warned /\ d.ask = c.ask
    BY <2>2 DEF Clients
  <2> HIDE DEF d
  <2>4. Marks(d)
    BY <2>2, <2>3 DEF Marks, Shown
  <2>5. Follows(c, d)
    BY <2>3 DEF Follows, Marked, FollowsAt, Shown
  <2> DEFINE e == Start(d, {v})
  <2>6. Marks(e) /\ Follows(d, e)
    BY <2>2, <2>3, <2>4, Starts
  <2> HIDE DEF e
  <2>7. Follows(c, e)
    BY <2>5, <2>6, FollowsTwice
  <2>8. QED
    BY <2>1, <2>6, <2>7 DEF e
<1>2. CASE ~(v \in c.dirty /\ ~InFlight(c, v) /\ c.up /\ c.available)
  <2>1. SurfaceBecameRelevant(c, v) = c
    BY <1>2 DEF SurfaceBecameRelevant
  <2>2. QED
    BY <2>1, FollowsItself
<1>3. QED
  BY <1>1, <1>2

(* A read of p that has ended, before the coordinator hears of it.         *)
Ended(c, p, ok) ==
  [c EXCEPT !.ask[p] = "none", !.warned = IF ok THEN @ \ {p} ELSE @ \cup {p}]

(* Its fields.                                                             *)
LEMMA Ends ==
  ASSUME NEW c \in Clients, NEW p \in Panels, NEW ok \in BOOLEAN
  PROVE  LET d == Ended(c, p, ok)
         IN  /\ d \in Clients /\ d.up = c.up /\ d.available = c.available /\ d.open = c.open
             /\ d.dirty = c.dirty /\ d.rerun = c.rerun /\ d.pending = c.pending /\ d.timer = c.timer
             /\ d.cause = c.cause /\ d.waiting = c.waiting /\ d.spoiled = c.spoiled
             /\ d.warned = (IF ok THEN c.warned \ {p} ELSE c.warned \cup {p})
             /\ d.ask = [c.ask EXCEPT ![p] = "none"]
<1> DEFINE a == [c.ask EXCEPT ![p] = "none"]
           w == IF ok THEN c.warned \ {p} ELSE c.warned \cup {p}
           d == [c EXCEPT !.ask = a, !.warned = w]
<1>1. Ended(c, p, ok) = d
  BY DEF Ended
<1>2. a \in [Panels -> Reads] /\ w \subseteq Panels
  BY ClientFields DEF Reads
<1> HIDE DEF a, w
<1>3. /\ d \in Clients /\ d.up = c.up /\ d.available = c.available /\ d.open = c.open
      /\ d.dirty = c.dirty /\ d.rerun = c.rerun /\ d.pending = c.pending /\ d.timer = c.timer
      /\ d.cause = c.cause /\ d.waiting = c.waiting /\ d.spoiled = c.spoiled /\ d.warned = w /\ d.ask = a
  BY <1>2 DEF Clients
<1> HIDE DEF d
<1>4. QED
  BY <1>1, <1>3 DEF a, w

(* The run of p's projection no longer waits for p.                        *)
Waited(c, p, ok) ==
  [c EXCEPT !.waiting[ViewOf[p]] = @ \ {p}, !.spoiled = IF ok THEN @ ELSE @ \cup {ViewOf[p]}]

(* The run of v is over, and what spoiled it forgotten.                    *)
Freed(c, v) == [c EXCEPT !.spoiled = @ \ {v}]

(* Finish is made of these.                                                *)
LEMMA FinishInParts ==
  ASSUME NEW c, NEW p, NEW ok
  PROVE  LET v == ViewOf[p]
             d == Ended(c, p, ok)
             e == Waited(d, p, ok)
         IN  Finish(c, p, ok) =
               IF p \notin c.waiting[v] THEN d
               ELSE IF e.waiting[v] # {} THEN e
               ELSE Complete(Freed(e, v), v, v \notin e.spoiled)
BY DEF Finish, Ended, Waited, Freed

(* The end of a read, of the run that waited for it, and the beginning of  *)
(* the run that was owed, keep the marks and forget nothing that the read  *)
(* itself does not answer.                                                 *)
LEMMA Finishes ==
  ASSUME NEW c, Marks(c), NEW p \in Panels, NEW ok \in BOOLEAN
  PROVE  Marks(Finish(c, p, ok)) /\ Follows(Ended(c, p, ok), Finish(c, p, ok))
<1> DEFINE v == ViewOf[p]
           d == Ended(c, p, ok)
           wa == [c.waiting EXCEPT ![v] = @ \ {p}]
           sp == IF ok THEN c.spoiled ELSE c.spoiled \cup {v}
           e == [d EXCEPT !.waiting = wa, !.spoiled = sp]
           so == sp \ {v}
           f == [e EXCEPT !.spoiled = so]
           good == v \notin sp
           again == v \in c.rerun
           dy == IF good /\ ~again THEN c.dirty ELSE c.dirty \cup {v}
           rr == c.rerun \ {v}
           g == [f EXCEPT !.dirty = dy, !.rerun = rr]
           z == IF again /\ Visible(f, v) THEN Start(g, {v}) ELSE g
<1>1. c \in Clients /\ v \in Views
  BY ViewTyped DEF Marks
<1>2. /\ c.waiting \in [Views -> SUBSET Panels] /\ c.spoiled \subseteq Views /\ c.dirty \subseteq Views
      /\ c.rerun \subseteq Views /\ c.warned \subseteq Panels /\ c.ask \in [Panels -> Reads]
  BY <1>1, ClientFields
<1>3. /\ d \in Clients /\ d.up = c.up /\ d.available = c.available /\ d.open = c.open
      /\ d.dirty = c.dirty /\ d.rerun = c.rerun /\ d.pending = c.pending /\ d.timer = c.timer
      /\ d.cause = c.cause /\ d.waiting = c.waiting /\ d.spoiled = c.spoiled
      /\ d.warned = (IF ok THEN c.warned \ {p} ELSE c.warned \cup {p})
      /\ d.ask = [c.ask EXCEPT ![p] = "none"]
  BY <1>1, Ends
<1>4. /\ \A q \in Panels : d.ask[q] = IF q = p THEN "none" ELSE c.ask[q]
      /\ \A q \in d.warned : d.ask[q] = "none"
      /\ \A u \in Views : \A q \in c.waiting[u] : q # p => d.ask[q] # "none" \/ ~Shown(d, q)
  <2>1. \A q \in Panels : d.ask[q] = IF q = p THEN "none" ELSE c.ask[q]
    BY <1>2, <1>3
  <2> HIDE DEF d
  <2>2. \A q \in d.warned : d.ask[q] = "none"
    BY <1>2, <1>3, <2>1 DEF Marks
  <2>3. \A q \in Panels : Shown(d, q) <=> Shown(c, q)
    BY <1>3 DEF Shown
  <2>4. \A u \in Views : \A q \in c.waiting[u] : q \in Panels /\ (c.ask[q] # "none" \/ ~Shown(c, q))
    BY <1>2 DEF Marks
  <2>5. QED
    BY <2>1, <2>2, <2>3, <2>4
<1>5. /\ wa \in [Views -> SUBSET Panels] /\ \A u \in Views : wa[u] = IF u = v THEN c.waiting[v] \ {p} ELSE c.waiting[u]
  BY <1>1, <1>2
<1>6. sp \subseteq Views /\ so \subseteq Views /\ dy \subseteq Views /\ rr \subseteq Views
  BY <1>1, <1>2
<1>7. /\ rr = c.rerun \ {v} /\ (\A u \in so : u \in c.spoiled /\ u # v)
      /\ (\A u \in sp : u \in c.spoiled \/ u = v) /\ c.dirty \subseteq dy
  OBVIOUS
<1>8. Finish(c, p, ok) = IF p \notin c.waiting[v] THEN d ELSE IF wa[v] # {} THEN e ELSE z
  <2>1. LET e1 == Waited(Ended(c, p, ok), p, ok)
        IN  Finish(c, p, ok) =
               IF p \notin c.waiting[v] THEN Ended(c, p, ok)
               ELSE IF e1.waiting[v] # {} THEN e1
               ELSE Complete(Freed(e1, v), v, v \notin e1.spoiled)
    BY FinishInParts
  <2>2. Waited(d, p, ok) = [d EXCEPT !.waiting[v] = @ \ {p}, !.spoiled = IF ok THEN @ ELSE @ \cup {v}]
    BY DEF Waited
  <2> HIDE DEF v, d
  <2>3. [d EXCEPT !.waiting[v] = @ \ {p}, !.spoiled = IF ok THEN @ ELSE @ \cup {v}] = e
    BY <1>3
  <2>4. e.waiting = wa /\ e.spoiled = sp
    <3> HIDE DEF wa, sp
    <3>1. QED
      BY <1>3 DEF Clients
  <2>5. Freed(e, v) = f
    BY <2>4 DEF Freed
  <2>6. f.rerun = c.rerun /\ f.dirty = c.dirty
    <3> HIDE DEF wa, sp, so
    <3>1. QED
      BY <1>3 DEF Clients
  <2> HIDE DEF f
  <2>7. Complete(f, v, v \notin e.spoiled) = z
    <3>1. LET c1 == [f EXCEPT !.dirty = IF v \notin e.spoiled /\ ~(v \in f.rerun) THEN @ ELSE @ \cup {v},
                              !.rerun = @ \ {v}]
          IN  Complete(f, v, v \notin e.spoiled) =
                IF v \in f.rerun /\ Visible(f, v) THEN Start(c1, {v}) ELSE c1
      <4> HIDE DEF e
      <4>1. QED
        BY Zenon DEF Complete
    <3>2. [f EXCEPT !.dirty = IF v \notin e.spoiled /\ ~(v \in f.rerun) THEN @ ELSE @ \cup {v},
                    !.rerun = @ \ {v}] = g
      <4> HIDE DEF sp, e
      <4>1. QED
        BY <2>4, <2>6
    <3> HIDE DEF g, e
    <3>3. QED
      BY <2>6, <3>1, <3>2
  <2> DEFINE all == Complete(f, v, v \notin e.spoiled)
  <2>8. Finish(c, p, ok) = IF p \notin c.waiting[v] THEN d ELSE IF e.waiting[v] # {} THEN e ELSE all
    <3> HIDE DEF e, f, z
    <3>1. Waited(d, p, ok) = e
      BY <2>2, <2>3
    <3>2. LET e1 == Waited(d, p, ok)
          IN  Finish(c, p, ok) =
               IF p \notin c.waiting[v] THEN d
               ELSE IF e1.waiting[v] # {} THEN e1
               ELSE Complete(Freed(e1, v), v, v \notin e1.spoiled)
      BY <2>1 DEF d
    <3>3. QED
      BY Zenon, <2>5, <3>1, <3>2
  <2>9. all = z
    BY <2>7
  <2> HIDE DEF e, z, all, wa
  <2>10. QED
    BY <2>4, <2>8, <2>9
<1> HIDE DEF d, wa, sp, so, dy, rr, good, again
<1>9. /\ e \in Clients /\ e.up = c.up /\ e.available = c.available /\ e.open = c.open
      /\ e.dirty = c.dirty /\ e.rerun = c.rerun /\ e.pending = c.pending /\ e.timer = c.timer
      /\ e.cause = c.cause /\ e.waiting = wa /\ e.spoiled = sp /\ e.warned = d.warned /\ e.ask = d.ask
  BY <1>3, <1>5, <1>6 DEF Clients
<1> HIDE DEF e
<1>10. /\ f \in Clients /\ f.up = c.up /\ f.available = c.available /\ f.open = c.open
       /\ f.dirty = c.dirty /\ f.rerun = c.rerun /\ f.pending = c.pending /\ f.timer = c.timer
       /\ f.cause = c.cause /\ f.waiting = wa /\ f.spoiled = so /\ f.warned = d.warned /\ f.ask = d.ask
  BY <1>6, <1>9 DEF Clients
<1> HIDE DEF f
<1>11. /\ g \in Clients /\ g.up = c.up /\ g.available = c.available /\ g.open = c.open
       /\ g.dirty = dy /\ g.rerun = rr /\ g.pending = c.pending /\ g.timer = c.timer
       /\ g.cause = c.cause /\ g.waiting = wa /\ g.spoiled = so /\ g.warned = d.warned /\ g.ask = d.ask
  BY <1>6, <1>10 DEF Clients
<1> HIDE DEF g, v
<1>v. v = ViewOf[p]
  BY DEF v
<1>12. /\ c.pending \subseteq c.dirty /\ (c.timer => c.up /\ c.available)
       /\ \A u \in Views :
            /\ u \in c.pending => c.waiting[u] = {}
            /\ u \in c.rerun \cup c.spoiled => c.waiting[u] # {}
            /\ \A q \in c.cause[u] : ViewOf[q] = u
            /\ \A q \in c.waiting[u] : ViewOf[q] = u
  BY DEF Marks
<1>13. CASE p \notin c.waiting[v]
  <2>1. \A u \in Views : p \notin c.waiting[u]
    BY <1>12, <1>13, <1>v
  <2>2. ASSUME NEW u \in Views, NEW q \in d.waiting[u]
        PROVE  ViewOf[q] = u /\ (d.ask[q] # "none" \/ ~Shown(d, q))
    BY <1>3, <1>4, <1>12, <2>1, <2>2
  <2>3. Marks(d)
    BY <1>3, <1>4, <1>12, <2>2 DEF Marks
  <2>4. Finish(c, p, ok) = d
    BY <1>8, <1>13
  <2>5. QED
    BY <2>3, <2>4, FollowsItself DEF d
<1>14. CASE p \in c.waiting[v] /\ wa[v] # {}
  <2>1. ASSUME NEW u \in Views, NEW q \in e.waiting[u]
        PROVE  ViewOf[q] = u /\ (e.ask[q] # "none" \/ ~Shown(e, q))
    <3>1. q \in c.waiting[u] /\ q # p
      BY <1>5, <1>9, <1>12, <1>v, <2>1
    <3>2. d.ask[q] # "none" \/ ~Shown(d, q)
      BY <1>4, <3>1
    <3>3. QED
      BY <1>3, <1>9, <1>12, <3>1, <3>2 DEF Shown
  <2>2. ASSUME NEW u \in Views
        PROVE  /\ u \in e.pending => e.waiting[u] = {}
               /\ u \in e.rerun \cup e.spoiled => e.waiting[u] # {}
               /\ \A q \in e.cause[u] : ViewOf[q] = u
    BY <1>5, <1>7, <1>9, <1>12, <1>14
  <2>3. \A q \in e.warned : e.ask[q] = "none"
    BY <1>4, <1>9
  <2>4. Marks(e)
    BY <1>9, <1>12, <2>1, <2>2, <2>3 DEF Marks
  <2>5. Follows(d, e)
    BY <1>3, <1>9 DEF Follows, Marked, FollowsAt, Shown
  <2>6. Finish(c, p, ok) = e
    BY <1>8, <1>14
  <2>7. QED
    BY <2>4, <2>5, <2>6 DEF d
<1>15. CASE p \in c.waiting[v] /\ wa[v] = {}
  <2>1. ASSUME NEW u \in Views, NEW q \in g.waiting[u]
        PROVE  ViewOf[q] = u /\ (g.ask[q] # "none" \/ ~Shown(g, q))
    <3>1. q \in c.waiting[u] /\ q # p
      BY <1>5, <1>11, <1>12, <1>v, <2>1
    <3>2. d.ask[q] # "none" \/ ~Shown(d, q)
      BY <1>4, <3>1
    <3>3. QED
      BY <1>3, <1>11, <1>12, <3>1, <3>2 DEF Shown
  <2>2. v \notin c.pending
    BY <1>1, <1>12, <1>15
  <2>3. ASSUME NEW u \in Views
        PROVE  /\ u \in g.pending => g.waiting[u] = {}
               /\ u \in g.rerun \cup g.spoiled => g.waiting[u] # {}
               /\ \A q \in g.cause[u] : ViewOf[q] = u
    BY <1>5, <1>7, <1>11, <1>12, <1>15, <2>2
  <2>4. \A q \in g.warned : g.ask[q] = "none"
    BY <1>4, <1>11
  <2>5. g.pending \subseteq g.dirty
    BY <1>7, <1>11, <1>12
  <2>6. Marks(g)
    BY <1>11, <1>12, <2>1, <2>3, <2>4, <2>5 DEF Marks
  <2>7. Follows(d, g)
    BY <1>3, <1>7, <1>11 DEF Follows, Marked, FollowsAt, Shown
  <2> DEFINE y == Start(g, {v})
  <2>8. Marks(y) /\ Follows(g, y)
    BY <1>1, <1>11, <2>2, <2>6, Starts
  <2> HIDE DEF y
  <2>9. Follows(d, y)
    BY <2>7, <2>8, FollowsTwice
  <2>10. Finish(c, p, ok) = z
    BY <1>8, <1>15
  <2>11. z = y \/ z = g
    BY DEF y
  <2> HIDE DEF z
  <2>12. QED
    BY <2>6, <2>7, <2>8, <2>9, <2>10, <2>11 DEF d
<1>16. QED
  BY <1>13, <1>14, <1>15

(* MainWindow's note that everything is to be read again is no mark.       *)
LEMMA Remembers ==
  ASSUME NEW c, Marks(c), NEW x \in BOOLEAN
  PROVE  LET d == [c EXCEPT !.reloadAfter = x]
         IN  /\ Marks(d) /\ Follows(c, d) /\ d \in Clients /\ d.ask = c.ask /\ d.warned = c.warned
             /\ d.dirty = c.dirty /\ d.cause = c.cause /\ d.open = c.open /\ d.up = c.up
<1> DEFINE d == [c EXCEPT !.reloadAfter = x]
<1>1. /\ d \in Clients /\ d.up = c.up /\ d.available = c.available /\ d.open = c.open
      /\ d.dirty = c.dirty /\ d.rerun = c.rerun /\ d.pending = c.pending /\ d.timer = c.timer /\ d.cause = c.cause
      /\ d.waiting = c.waiting /\ d.spoiled = c.spoiled /\ d.warned = c.warned /\ d.ask = c.ask
  BY DEF Marks, Clients
<1> HIDE DEF d
<1>2. Marks(d)
  BY <1>1 DEF Marks, Shown
<1>3. Follows(c, d)
  BY <1>1 DEF Follows, FollowsAt, Shown, Marked
<1>4. QED
  BY <1>1, <1>2, <1>3 DEF d

(* So does the reading of everything after a session or a maintenance.     *)
LEMMA Reloads ==
  ASSUME NEW c, Marks(c), NEW p, NEW ok \in BOOLEAN
  PROVE  Marks(Reloaded(c, p, ok)) /\ Follows(c, Reloaded(c, p, ok))
         /\ \A q \in Panels : Marked(c, q) => Marked(Reloaded(c, p, ok), q)
<1> DEFINE S == {q \in Panels \ {Workspaces} : ViewOf[q] \notin Dialogs \/ q \in c.open}
           d == [c EXCEPT !.reloadAfter = FALSE]
           r == Request(d, S)
<1>1. Reloaded(c, p, ok) = r \/ Reloaded(c, p, ok) = c
  BY DEF Reloaded
<1>2. Marks(c)
  OBVIOUS
<1>3. /\ Marks(d) /\ Follows(c, d) /\ d \in Clients /\ d.open = c.open
      /\ d.dirty = c.dirty /\ d.cause = c.cause
  BY <1>2, Remembers
<1> HIDE DEF d
<1>5. \A q \in S : q \in Panels => Shown(d, q)
  BY <1>3 DEF Shown
<1> HIDE DEF S
<1>6. Asked(d, S, r)
  BY <1>3, Requested
<1> HIDE DEF r
<1>7. Marks(r) /\ Follows(d, r)
  BY <1>3, <1>5, <1>6, AskedMarks, AskedFollows
<1>8. Follows(c, r)
  BY <1>3, <1>7, FollowsTwice
<1>9. \A q \in Panels : Marked(c, q) => Marked(r, q)
  BY <1>3, <1>6 DEF Marked, Asked
<1>10. QED
  BY <1>1, <1>7, <1>8, <1>9, FollowsItself

(* A read that ends leaves p as it was marked, and warned if it failed; of *)
(* the other panels nothing is forgotten.                                  *)
LEMMA Answers ==
  ASSUME NEW c, Marks(c), NEW p \in Panels, NEW ok \in BOOLEAN
  PROVE  LET d == Answered(c, p, ok)
         IN  /\ Marks(d) /\ d.up = c.up
             /\ \A q \in Panels \ {p} : FollowsAt(c, d, q)
             /\ Shown(d, p) <=> Shown(c, p)
             /\ Shown(c, p) =>
                  /\ Marked(c, p) => Marked(d, p) \/ d.ask[p] \in {"unsent", "asked"}
                  /\ ~ok => p \in d.warned \/ d.ask[p] \in {"unsent", "asked"}
                  /\ d.ask[p] \in {"none", "unsent", "asked"} /\ (d.ask[p] = "asked" => c.up)
             /\ ~Shown(c, p) => d.ask[p] = "none"
<1> DEFINE e == Reloaded(c, p, ok)
           f == Ended(e, p, ok)
           d == Finish(e, p, ok)
<1>1. Answered(c, p, ok) = d
  BY DEF Answered
<1>2. Marks(e) /\ Follows(c, e) /\ \A q \in Panels : Marked(c, q) => Marked(e, q)
  BY Reloads
<1> HIDE DEF e
<1>3. Marks(d) /\ Follows(f, d)
  BY <1>2, Finishes
<1>4. e \in Clients
  BY <1>2 DEF Marks
<1>5. /\ f.up = e.up /\ f.open = e.open /\ f.dirty = e.dirty /\ f.cause = e.cause
      /\ f.warned = (IF ok THEN e.warned \ {p} ELSE e.warned \cup {p})
      /\ f.ask = [e.ask EXCEPT ![p] = "none"] /\ e.ask \in [Panels -> Reads]
  <2>1. e.ask \in [Panels -> Reads]
    BY <1>4, ClientFields
  <2>2. QED
    BY <1>4, <2>1, Ends
<1> HIDE DEF f, d
<1>6. /\ e.up = c.up /\ d.up = f.up
      /\ \A q \in Panels : FollowsAt(c, e, q) /\ FollowsAt(f, d, q)
  BY <1>2, <1>3 DEF Follows
<1>7. ASSUME NEW q \in Panels \ {p}
      PROVE  FollowsAt(c, d, q)
  <2>1. FollowsAt(e, f, q)
    BY <1>5 DEF FollowsAt, Shown, Marked
  <2>2. FollowsAt(c, f, q)
    BY <1>6, <2>1, FollowsTwiceAt
  <2>3. QED
    BY <1>5, <1>6, <2>2, FollowsTwiceAt
<1>8. /\ Shown(e, p) <=> Shown(c, p)
      /\ Shown(f, p) <=> Shown(e, p)
      /\ Shown(d, p) <=> Shown(f, p)
  <2>1. (Shown(e, p) <=> Shown(c, p)) /\ (Shown(d, p) <=> Shown(f, p))
    BY <1>6 DEF FollowsAt
  <2>2. Shown(f, p) <=> Shown(e, p)
    BY <1>5 DEF Shown
  <2>3. QED
    BY <2>1, <2>2
<1>9. f.ask[p] = "none" /\ (Marked(c, p) => Marked(f, p)) /\ (~ok => p \in f.warned)
  BY <1>2, <1>5 DEF Marked
<1>10. /\ Shown(f, p) =>
            /\ Marked(f, p) => Marked(d, p) \/ d.ask[p] \in {"unsent", "asked"}
            /\ p \in f.warned => p \in d.warned \/ d.ask[p] \in {"unsent", "asked"}
            /\ d.ask[p] = f.ask[p] \/ (d.ask[p] \in {"unsent", "asked"} /\ (d.ask[p] = "asked" => f.up))
       /\ ~Shown(f, p) => d.ask[p] = f.ask[p]
  BY <1>6 DEF FollowsAt
<1>11. d.up = c.up /\ f.up = c.up
  BY <1>5, <1>6
<1>12. /\ Shown(d, p) <=> Shown(c, p)
       /\ Shown(c, p) =>
            /\ Marked(c, p) => Marked(d, p) \/ d.ask[p] \in {"unsent", "asked"}
            /\ ~ok => p \in d.warned \/ d.ask[p] \in {"unsent", "asked"}
            /\ d.ask[p] \in {"none", "unsent", "asked"} /\ (d.ask[p] = "asked" => c.up)
       /\ ~Shown(c, p) => d.ask[p] = "none"
  BY <1>8, <1>9, <1>10, <1>11
<1>13. QED
  BY <1>1, <1>3, <1>7, <1>11, <1>12

-----------------------------------------------------------------------------
(* The link                                                                *)

(* An event of the sequence u names p.                                     *)
Carries(u, p) == \E i \in DOMAIN u : u[i].kind = "event" /\ p \in u[i].of

(* One more message leaves the others where they are.                      *)
LEMMA CarriesAppend ==
  ASSUME NEW S, NEW u \in Seq(S), NEW m \in S
  PROVE  /\ Append(u, m) \in Seq(S)
         /\ \A p : Carries(u, p) => Carries(Append(u, m), p)
         /\ \A p : m.kind = "event" /\ p \in m.of => Carries(Append(u, m), p)
<1> DEFINE w == Append(u, m)
<1>1. w \in Seq(S) /\ DOMAIN w = 1 .. (Len(u) + 1) /\ DOMAIN u = 1 .. Len(u) /\ Len(u) \in Nat
      /\ (\A i \in 1 .. Len(u) : w[i] = u[i]) /\ w[Len(u) + 1] = m
  OBVIOUS
<1> HIDE DEF w
<1>2. \A i \in DOMAIN u : i \in DOMAIN w /\ w[i] = u[i]
  BY <1>1
<1>3. Len(u) + 1 \in DOMAIN w /\ w[Len(u) + 1] = m
  BY <1>1
<1>4. \A p : Carries(u, p) => Carries(w, p)
  BY <1>2 DEF Carries
<1>5. \A p : m.kind = "event" /\ p \in m.of => Carries(w, p)
  BY <1>3 DEF Carries
<1>6. QED
  BY <1>1, <1>4, <1>5 DEF w

(* The first message takes away only what it names itself.                 *)
LEMMA CarriesTail ==
  ASSUME NEW S, NEW u \in Seq(S), u # <<>>
  PROVE  /\ Head(u) \in S /\ Tail(u) \in Seq(S)
         /\ \A p : Carries(u, p) =>
              Carries(Tail(u), p) \/ (Head(u).kind = "event" /\ p \in Head(u).of)
<1> DEFINE w == Tail(u)
           h == Head(u)
<1>1. h \in S /\ w \in Seq(S) /\ h = u[1] /\ DOMAIN u = 1 .. Len(u) /\ Len(u) \in Nat
      /\ DOMAIN w = 1 .. (Len(u) - 1) /\ \A i \in 1 .. (Len(u) - 1) : w[i] = u[i + 1]
  OBVIOUS
<1> HIDE DEF w, h
<1>2. ASSUME NEW i \in DOMAIN u
      PROVE  u[i] = h \/ \E j \in DOMAIN w : w[j] = u[i]
  <2>1. CASE i = 1
    BY <1>1, <2>1
  <2>2. CASE i # 1
    <3>1. i - 1 \in 1 .. (Len(u) - 1) /\ (i - 1) + 1 = i
      BY <1>1, <2>2
    <3>2. w[i - 1] = u[(i - 1) + 1]
      BY <1>1, <3>1
    <3>3. QED
      BY <1>1, <3>1, <3>2
  <2>3. QED
    BY <2>1, <2>2
<1>3. \A p : Carries(u, p) => Carries(w, p) \/ (h.kind = "event" /\ p \in h.of)
  BY <1>2 DEF Carries
<1>4. QED
  BY <1>1, <1>3 DEF w, h

-----------------------------------------------------------------------------
(* Steps of the Host                                                       *)

(* A panel that was announced still is, or is marked or asked for instead. *)
Announces(p) ==
  k.up /\ Shown(k, p) /\ Announced(p) =>
    Announced(p)' \/ Marked(k', p) \/ k'.ask[p] \in {"unsent", "asked"}

(* A panel of which nothing is forgotten, and which is not behind anew,    *)
(* keeps what is kept of it.                                               *)
LEMMA PanelKept ==
  ASSUME NEW p \in Panels, PanelInv(p), k'.up = k.up, FollowsAt(k, k', p),
         p \in behind' => p \in behind, Announces(p)
  PROVE  PanelInv(p)'
<1>1. Quiet(k', p)
  BY DEF PanelInv, Quiet, FollowsAt
<1>2. Destroyed(k', p)
  BY DEF PanelInv, Destroyed, FollowsAt
<1>3. Overtaken(p)'
  <2>1. SUFFICES ASSUME k'.ask[p] = "outdated"
                 PROVE  Announced(p)' \/ Marked(k', p)
    BY DEF Overtaken
  <2>2. k.ask[p] = "outdated"
    BY <2>1 DEF FollowsAt
  <2>3. k.up /\ Shown(k, p)
    BY <2>2 DEF PanelInv, Quiet, Destroyed
  <2>4. Announced(p) \/ Marked(k, p)
    BY <2>2 DEF PanelInv, Overtaken
  <2>5. QED
    BY <2>1, <2>3, <2>4 DEF Announces, FollowsAt
<1>4. Accounted(p)'
  <2>1. SUFFICES ASSUME Stale(p)'
                 PROVE  Announced(p)' \/ Traced(k', p)
    BY DEF Accounted
  <2>2. k.up /\ Shown(k, p) /\ Stale(p)
    BY <2>1 DEF Stale, FollowsAt, Shown
  <2>3. Announced(p) \/ Traced(k, p)
    BY <2>2 DEF PanelInv, Accounted
  <2>4. QED
    BY <2>2, <2>3 DEF Announces, FollowsAt, Traced
<1>5. QED
  BY <1>1, <1>2, <1>3, <1>4 DEF PanelInv

(* A step that forgets nothing of any panel preserves the invariant.       *)
LEMMA AllKept ==
  ASSUME RefreshInv, HostTyped', Marks(k'), Follows(k, k'), behind' = behind,
         ~k.up => link' = link, \A p \in Panels : Announces(p)
  PROVE  RefreshInv'
<1>1. k'.up = k.up /\ \A p \in Panels : FollowsAt(k, k', p)
  BY DEF Follows
<1>2. ~k'.up => link' = <<>>
  BY <1>1 DEF RefreshInv
<1>3. ASSUME NEW p \in Panels
      PROVE  PanelInv(p)'
  <2>1. PanelInv(p)
    BY DEF RefreshInv
  <2>2. QED
    BY <1>1, <2>1, PanelKept
<1>4. QED
  BY <1>2, <1>3 DEF RefreshInv

(* With the same link, and nothing published, every panel is announced as  *)
(* before.                                                                 *)
LEMMA AnnouncesAlways ==
  ASSUME NEW p \in Panels, link' = link, p \in unpublished => p \in unpublished'
  PROVE  Announces(p)
BY DEF Announces, Announced, OnItsWay

(* Steps that only open and close the Host's admission change nothing      *)
(* kept.                                                                   *)
LEMMA StutterKept ==
  ASSUME RefreshInv, HostTyped', k' = k, behind' = behind, unpublished' = unpublished, link' = link
  PROVE  RefreshInv'
<1>1. Marks(k')
  BY DEF RefreshInv
<1>2. Follows(k, k')
  BY FollowsItself
<1>3. \A p \in Panels : Announces(p)
  BY AnnouncesAlways
<1>4. QED
  BY <1>1, <1>2, <1>3, AllKept

(* Commits overtake what was read before them, and are to be published.    *)
LEMMA CommitKept ==
  ASSUME RefreshInv, NEW S \in SUBSET (Panels \ {Workspaces}), Commit(S)
  PROVE  RefreshInv'
<1> DEFINE a == [p \in Panels |-> IF p \in S /\ k.ask[p] = "fresh" THEN "outdated" ELSE k.ask[p]]
<1>1. k \in Clients /\ k.ask \in [Panels -> Reads]
  BY ClientFields DEF RefreshInv, Marks
<1>2. k' = [k EXCEPT !.ask = a]
  BY DEF Commit
<1>3. a \in [Panels -> Reads] /\ \A p \in Panels : a[p] = IF p \in S /\ k.ask[p] = "fresh" THEN "outdated" ELSE k.ask[p]
  BY <1>1 DEF Reads
<1> HIDE DEF a
<1>4. /\ k' \in Clients /\ k'.up = k.up /\ k'.available = k.available /\ k'.open = k.open
      /\ k'.dirty = k.dirty /\ k'.rerun = k.rerun /\ k'.pending = k.pending /\ k'.timer = k.timer
      /\ k'.cause = k.cause /\ k'.waiting = k.waiting /\ k'.spoiled = k.spoiled
      /\ k'.warned = k.warned /\ k'.ask = a
  BY <1>1, <1>2, <1>3 DEF Clients
<1>5. \A p \in Panels : (k'.ask[p] = "none" <=> k.ask[p] = "none") /\ (Shown(k', p) <=> Shown(k, p))
                        /\ (Marked(k', p) <=> Marked(k, p))
  BY <1>3, <1>4 DEF Shown, Marked
<1>6. Marks(k')
  <2>1. k.waiting \in [Views -> SUBSET Panels] /\ k.warned \subseteq Panels
    BY <1>1, ClientFields
  <2>2. \A p \in k'.warned : k'.ask[p] = "none"
    BY <1>4, <1>5, <2>1 DEF RefreshInv, Marks
  <2>3. ASSUME NEW v \in Views, NEW p \in k'.waiting[v]
        PROVE  ViewOf[p] = v /\ (k'.ask[p] # "none" \/ ~Shown(k', p))
    <3>1. p \in k.waiting[v] /\ p \in Panels
      BY <1>4, <2>1, <2>3
    <3>2. ViewOf[p] = v /\ (k.ask[p] # "none" \/ ~Shown(k, p))
      BY <3>1 DEF RefreshInv, Marks
    <3>3. QED
      BY <1>5, <3>1, <3>2
  <2>4. QED
    BY <1>4, <2>2, <2>3 DEF RefreshInv, Marks
<1>7. HostTyped'
  BY DEF Commit, RefreshInv, HostTyped
<1>8. ASSUME NEW p \in Panels
      PROVE  PanelInv(p)'
  <2>1. PanelInv(p)
    BY DEF RefreshInv
  <2>2. CASE p \in S
    <3>1. Announced(p)'
      BY <2>2 DEF Commit, Announced
    <3>2. Quiet(k', p) /\ Destroyed(k', p)
      BY <1>3, <1>4, <1>5, <2>1 DEF PanelInv, Quiet, Destroyed
    <3>3. QED
      BY <3>1, <3>2 DEF PanelInv, Overtaken, Accounted
  <2>3. CASE p \notin S
    <3>1. FollowsAt(k, k', p)
      BY <1>3, <1>4, <1>5, <2>3 DEF FollowsAt
    <3>2. Announces(p)
      BY AnnouncesAlways DEF Commit
    <3>3. p \in behind' => p \in behind
      BY <2>3 DEF Commit
    <3>4. k'.up = k.up
      BY <1>4
    <3>5. QED
      BY <2>1, <3>1, <3>2, <3>3, <3>4, PanelKept
  <2>4. QED
    BY <2>2, <2>3
<1>9. ~k'.up => link' = <<>>
  BY <1>4 DEF Commit, RefreshInv
<1>10. QED
  BY <1>6, <1>7, <1>8, <1>9 DEF RefreshInv

(* A broadcast reaches a Client with a session, after all that is on its   *)
(* way.                                                                    *)
LEMMA Broadcasts ==
  ASSUME HostTyped, NEW of \in SUBSET Panels, link' = Broadcast(of)
  PROVE  /\ link' \in Seq(Messages)
         /\ ~k.up => link' = link
         /\ \A p : OnItsWay(p) => OnItsWay(p)'
         /\ \A p : k.up /\ p \in of => OnItsWay(p)'
<1>1. CASE ~k.up
  BY <1>1 DEF Broadcast, HostTyped, OnItsWay
<1>2. CASE k.up
  <2>1. link' = Append(link, Event(of)) /\ link \in Seq(Messages)
    BY <1>2 DEF Broadcast, HostTyped
  <2>2. Event(of) \in Messages /\ Event(of).kind = "event" /\ Event(of).of = of
    BY PanelsAssumption DEF Event, Messages
  <2> DEFINE m == Event(of)
  <2> HIDE DEF m
  <2>3. m \in Messages /\ m.kind = "event" /\ m.of = of /\ link' = Append(link, m)
    BY <2>1, <2>2 DEF m
  <2>4. /\ Append(link, m) \in Seq(Messages)
        /\ \A p : Carries(link, p) => Carries(Append(link, m), p)
        /\ \A p : m.kind = "event" /\ p \in m.of => Carries(Append(link, m), p)
    BY <2>1, <2>3, CarriesAppend
  <2>5. \A p : (OnItsWay(p) <=> Carries(link, p)) /\ (OnItsWay(p)' <=> Carries(link', p))
    BY DEF OnItsWay, Carries
  <2>6. QED
    BY <1>2, <2>3, <2>4, <2>5
<1>3. QED
  BY <1>1, <1>2

(* An invalidation is sent.                                                *)
LEMMA PublishKept ==
  ASSUME RefreshInv, NEW p \in Panels, Publish(p)
  PROVE  RefreshInv'
<1>1. HostTyped /\ k' = k /\ behind' = behind /\ hostOpen' = hostOpen
      /\ unpublished' = unpublished \ {p} /\ link' = Broadcast({p})
  BY DEF RefreshInv, Publish
<1>2. /\ link' \in Seq(Messages)
      /\ ~k.up => link' = link
      /\ \A q : OnItsWay(q) => OnItsWay(q)'
      /\ \A q : k.up /\ q \in {p} => OnItsWay(q)'
  BY <1>1, Broadcasts
<1>3. HostTyped'
  BY <1>1, <1>2 DEF HostTyped
<1>4. Marks(k') /\ Follows(k, k')
  BY <1>1, FollowsItself DEF RefreshInv
<1>5. \A q \in Panels : Announces(q)
  BY <1>1, <1>2 DEF Announces, Announced
<1>6. QED
  BY <1>1, <1>2, <1>3, <1>4, <1>5, AllKept

(* The broadcast at the end of a maintenance names no panel.               *)
LEMMA LeaveMaintenanceKept ==
  ASSUME RefreshInv, LeaveMaintenance
  PROVE  RefreshInv'
<1>1. HostTyped /\ k' = k /\ behind' = behind /\ hostOpen' \in BOOLEAN
      /\ unpublished' = unpublished /\ link' = Broadcast({})
  BY DEF RefreshInv, LeaveMaintenance
<1>2. /\ link' \in Seq(Messages)
      /\ ~k.up => link' = link
      /\ \A q : OnItsWay(q) => OnItsWay(q)'
  BY <1>1, Broadcasts
<1>3. HostTyped'
  BY <1>1, <1>2 DEF HostTyped
<1>4. Marks(k') /\ Follows(k, k')
  BY <1>1, FollowsItself DEF RefreshInv
<1>5. \A q \in Panels : Announces(q)
  BY <1>1, <1>2 DEF Announces, Announced
<1>6. QED
  BY <1>1, <1>2, <1>3, <1>4, <1>5, AllKept

(* Maintenance that begins, or does not.                                   *)
LEMMA AdmissionKept ==
  ASSUME RefreshInv, EnterMaintenance \/ ReopenAfterFailedEntry
  PROVE  RefreshInv'
<1>1. k' = k /\ behind' = behind /\ unpublished' = unpublished /\ link' = link /\ hostOpen' \in BOOLEAN
  BY DEF EnterMaintenance, ReopenAfterFailedEntry
<1>2. HostTyped'
  BY <1>1 DEF RefreshInv, HostTyped
<1>3. QED
  BY <1>1, <1>2, StutterKept

(* A Client whose request for p moves on.                                  *)
LEMMA AskChanged ==
  ASSUME NEW c \in Clients, NEW p \in Panels, NEW x \in Reads
  PROVE  LET d == [c EXCEPT !.ask[p] = x]
         IN  /\ d \in Clients /\ d.up = c.up /\ d.available = c.available /\ d.open = c.open
             /\ d.dirty = c.dirty /\ d.rerun = c.rerun /\ d.pending = c.pending /\ d.timer = c.timer
             /\ d.cause = c.cause /\ d.waiting = c.waiting /\ d.spoiled = c.spoiled /\ d.warned = c.warned
             /\ d.ask \in [Panels -> Reads]
             /\ \A q \in Panels : d.ask[q] = IF q = p THEN x ELSE c.ask[q]
<1> DEFINE a == [c.ask EXCEPT ![p] = x]
           d == [c EXCEPT !.ask = a]
<1>1. [c EXCEPT !.ask[p] = x] = d
  OBVIOUS
<1>2. a \in [Panels -> Reads] /\ \A q \in Panels : a[q] = IF q = p THEN x ELSE c.ask[q]
  BY ClientFields
<1> HIDE DEF a
<1>3. /\ d \in Clients /\ d.up = c.up /\ d.available = c.available /\ d.open = c.open
      /\ d.dirty = c.dirty /\ d.rerun = c.rerun /\ d.pending = c.pending /\ d.timer = c.timer
      /\ d.cause = c.cause /\ d.waiting = c.waiting /\ d.spoiled = c.spoiled /\ d.warned = c.warned
      /\ d.ask = a
  BY <1>2 DEF Clients
<1> HIDE DEF d
<1>4. QED
  BY <1>1, <1>2, <1>3

(* A request that is read, or refused, is still one that is waited for.    *)
LEMMA HostReadsKept ==
  ASSUME RefreshInv, NEW p \in Panels, HostReads(p)
  PROVE  RefreshInv'
<1> DEFINE x == IF hostOpen THEN "fresh" ELSE "refused"
<1>1. k.ask[p] = "asked" /\ k' = [k EXCEPT !.ask[p] = x] /\ behind' = behind /\ unpublished' = unpublished
      /\ hostOpen' = hostOpen /\ (link' = link \/ link' = Append(link, Refusal(p)))
  BY DEF HostReads
<1>2. x \in {"fresh", "refused"}
  OBVIOUS
<1> HIDE DEF x
<1>3. k \in Clients /\ x \in Reads /\ link \in Seq(Messages) /\ HostTyped /\ PanelInv(p)
  BY <1>2 DEF RefreshInv, Marks, HostTyped, Reads
<1>4. /\ k' \in Clients /\ k'.up = k.up /\ k'.available = k.available /\ k'.open = k.open
      /\ k'.dirty = k.dirty /\ k'.rerun = k.rerun /\ k'.pending = k.pending /\ k'.timer = k.timer
      /\ k'.cause = k.cause /\ k'.waiting = k.waiting /\ k'.spoiled = k.spoiled /\ k'.warned = k.warned
      /\ \A q \in Panels : k'.ask[q] = IF q = p THEN x ELSE k.ask[q]
  BY <1>1, <1>3, AskChanged
<1>5. k.up /\ Shown(k, p)
  BY <1>1, <1>3 DEF PanelInv, Quiet, Destroyed
<1>6. \A q \in Panels : (Shown(k', q) <=> Shown(k, q)) /\ (Marked(k', q) <=> Marked(k, q))
                        /\ (k.ask[q] # "none" => k'.ask[q] # "none")
  BY <1>2, <1>4 DEF Shown, Marked
<1>7. Marks(k')
  <2>1. k.waiting \in [Views -> SUBSET Panels] /\ k.warned \subseteq Panels
    BY <1>3, ClientFields
  <2>2. \A q \in k'.warned : k'.ask[q] = "none"
    BY <1>1, <1>4, <2>1 DEF RefreshInv, Marks
  <2>3. ASSUME NEW v \in Views, NEW q \in k'.waiting[v]
        PROVE  ViewOf[q] = v /\ (k'.ask[q] # "none" \/ ~Shown(k', q))
    <3>1. q \in k.waiting[v] /\ q \in Panels
      BY <1>4, <2>1, <2>3
    <3>2. ViewOf[q] = v /\ (k.ask[q] # "none" \/ ~Shown(k, q))
      BY <3>1 DEF RefreshInv, Marks
    <3>3. QED
      BY <1>6, <3>1, <3>2
  <2>4. QED
    BY <1>4, <2>2, <2>3 DEF RefreshInv, Marks
<1>8. link' \in Seq(Messages) /\ \A q : Carries(link, q) => Carries(link', q)
  <2> DEFINE m == Refusal(p)
  <2>1. m \in Messages
    BY DEF Refusal, Messages
  <2> HIDE DEF m
  <2>2. Append(link, m) \in Seq(Messages) /\ \A q : Carries(link, q) => Carries(Append(link, m), q)
    BY <1>3, <2>1, CarriesAppend
  <2>3. link' = link \/ link' = Append(link, m)
    BY <1>1 DEF m
  <2>4. QED
    BY <1>3, <2>2, <2>3
<1>9. HostTyped'
  BY <1>1, <1>3, <1>8 DEF HostTyped
<1>10. ASSUME NEW q \in Panels
       PROVE  PanelInv(q)'
  <2>1. PanelInv(q)
    BY DEF RefreshInv
  <2>2. CASE q = p
    <3>1. k'.ask[q] \in {"fresh", "refused"} /\ k'.up /\ Shown(k', q)
      BY <1>2, <1>4, <1>5, <1>6, <2>2
    <3>2. QED
      BY <3>1 DEF PanelInv, Quiet, Destroyed, Overtaken, Accounted, Traced
  <2>3. CASE q # p
    <3>1. FollowsAt(k, k', q)
      BY <1>4, <1>6, <2>3 DEF FollowsAt
    <3>2. Announces(q)
      BY <1>1, <1>8 DEF Announces, Announced, OnItsWay, Carries
    <3>3. QED
      BY <1>1, <1>4, <2>1, <3>1, <3>2, PanelKept
  <2>4. QED
    BY <2>2, <2>3
<1>11. ~k'.up => link' = <<>>
  BY <1>4, <1>5
<1>12. QED
  BY <1>7, <1>9, <1>10, <1>11 DEF RefreshInv

-----------------------------------------------------------------------------
(* Steps of the Client                                                     *)

(* A message arrives only in a session, and takes no other with it.        *)
LEMMA Received ==
  ASSUME RefreshInv, link # <<>>, link' = Tail(link)
  PROVE  /\ k.up /\ Marks(k) /\ Head(link) \in Messages /\ link' \in Seq(Messages)
         /\ \A p : OnItsWay(p) => OnItsWay(p)' \/ (Head(link).kind = "event" /\ p \in Head(link).of)
<1>1. k.up /\ Marks(k) /\ link \in Seq(Messages)
  BY DEF RefreshInv, HostTyped
<1>2. /\ Head(link) \in Messages /\ Tail(link) \in Seq(Messages)
      /\ \A p : Carries(link, p) =>
           Carries(Tail(link), p) \/ (Head(link).kind = "event" /\ p \in Head(link).of)
  BY <1>1, CarriesTail
<1>3. \A p : (OnItsWay(p) <=> Carries(link, p)) /\ (OnItsWay(p)' <=> Carries(link', p))
  BY DEF OnItsWay, Carries
<1>4. QED
  BY <1>1, <1>2, <1>3

(* What an invalidation announced, it marks.                               *)
LEMMA ReceiveEventKept ==
  ASSUME RefreshInv, ReceiveEvent
  PROVE  RefreshInv'
<1> DEFINE of == Head(link).of
           b == SetOperationalAvailable(k, TRUE)
           c == Receive(b, of)
           e == [c EXCEPT !.reloadAfter = TRUE]
           r == Request(e, {Workspaces})
<1>1. /\ link # <<>> /\ Head(link).kind = "event" /\ link' = Tail(link) /\ behind' = behind
      /\ unpublished' = unpublished /\ hostOpen' = hostOpen /\ k' = IF k.available THEN c ELSE r
  BY DEF ReceiveEvent
<1>2. /\ k.up /\ Marks(k) /\ Head(link) \in Messages /\ link' \in Seq(Messages)
      /\ \A p : OnItsWay(p) => OnItsWay(p)' \/ p \in of
  BY <1>1, Received
<1>3. of \in SUBSET Panels
  BY <1>2 DEF Messages
<1> HIDE DEF of
<1>4. Marks(b) /\ Follows(k, b) /\ b.up
  BY <1>2, Available
<1> HIDE DEF b
<1>5. Marks(c) /\ Follows(b, c) /\ \A p \in of : Marked(c, p)
  BY <1>3, <1>4, Invalidates
<1> HIDE DEF c
<1>6. Marks(e) /\ Follows(c, e) /\ e \in Clients
  BY <1>5, Remembers
<1> HIDE DEF e
<1>7. Asked(e, {Workspaces}, r)
  BY <1>6, Requested
<1> HIDE DEF r
<1>8. \A p \in {Workspaces} : p \in Panels => Shown(e, p)
  BY PanelsAssumption DEF Shown
<1>9. Marks(r) /\ Follows(e, r)
  BY <1>6, <1>7, <1>8, AskedMarks, AskedFollows
<1>10. Follows(k, c)
  BY <1>4, <1>5, FollowsTwice
<1>11. Follows(c, r)
  BY <1>6, <1>9, FollowsTwice
<1>12. Follows(k, r)
  BY <1>10, <1>11, FollowsTwice
<1>13. Marks(k') /\ Follows(k, k') /\ Follows(c, k')
  BY <1>1, <1>5, <1>9, <1>10, <1>11, <1>12, FollowsItself
<1>14. HostTyped'
  BY <1>1, <1>2 DEF RefreshInv, HostTyped
<1>15. ASSUME NEW p \in Panels
       PROVE  Announces(p)
  <2>1. CASE p \in of
    <3>1. Marked(c, p) /\ FollowsAt(k, c, p) /\ FollowsAt(c, k', p)
      BY <1>5, <1>10, <1>13, <2>1 DEF Follows
    <3>2. QED
      BY <3>1 DEF FollowsAt, Announces
  <2>2. CASE p \notin of
    BY <1>1, <1>2, <2>2 DEF Announces, Announced
  <2>3. QED
    BY <2>1, <2>2
<1>16. QED
  BY <1>1, <1>2, <1>13, <1>14, <1>15, AllKept

(* A read that ends accounts for its panel: it failed and says so, it      *)
(* brought what the Host has, or it was overtaken by commits that are      *)
(* announced or marked.                                                    *)
LEMMA AnswerKept ==
  ASSUME RefreshInv, NEW c, Marks(c), Follows(k, c), c.ask = k.ask, NEW p \in Panels,
         Marked(k, p) => Marked(c, p),
         NEW ok \in BOOLEAN, k.ask[p] # "none", k' = Answered(c, p, ok), HostTyped',
         ~k.up => link' = link,
         \A q \in Panels \ {p} : q \in behind' => q \in behind,
         ok => k.up /\ (p \notin behind' \/ k.ask[p] = "outdated"),
         \A q \in Panels : Announces(q)
  PROVE  RefreshInv'
<1>1. /\ Marks(k') /\ k'.up = c.up
      /\ \A q \in Panels \ {p} : FollowsAt(c, k', q)
      /\ Shown(k', p) <=> Shown(c, p)
      /\ Shown(c, p) =>
           /\ Marked(c, p) => Marked(k', p) \/ k'.ask[p] \in {"unsent", "asked"}
           /\ ~ok => p \in k'.warned \/ k'.ask[p] \in {"unsent", "asked"}
           /\ k'.ask[p] \in {"none", "unsent", "asked"} /\ (k'.ask[p] = "asked" => c.up)
  BY Answers
<1>2. c.up = k.up /\ \A q \in Panels : FollowsAt(k, c, q)
  BY DEF Follows
<1>3. PanelInv(p)
  BY DEF RefreshInv
<1>4. Shown(k, p) /\ Shown(c, p) /\ Shown(k', p)
  BY <1>1, <1>2, <1>3 DEF FollowsAt, PanelInv, Destroyed
<1>5. PanelInv(p)'
  <2>1. Quiet(k', p)
    <3>1. ~k.up => ~ok
      OBVIOUS
    <3>2. QED
      BY <1>1, <1>2, <1>4, <3>1 DEF Quiet
  <2>2. Destroyed(k', p)
    BY <1>4 DEF Destroyed
  <2>3. Overtaken(p)'
    BY <1>1, <1>4 DEF Overtaken
  <2>4. Accounted(p)'
    <3>1. CASE ~ok
      BY <1>1, <1>4, <3>1 DEF Accounted, Traced
    <3>2. CASE ok /\ k.ask[p] # "outdated"
      <4>1. p \notin behind'
        BY <3>2
      <4>2. QED
        BY <4>1 DEF Accounted, Stale
    <3>3. CASE k.ask[p] = "outdated"
      <4>1. Announced(p) \/ Marked(k, p)
        BY <1>3, <3>3 DEF PanelInv, Overtaken
      <4>2. k.up
        BY <1>3, <3>3 DEF PanelInv, Quiet
      <4>3. Announced(p) => Announced(p)' \/ Marked(k', p) \/ k'.ask[p] \in {"unsent", "asked"}
        BY <1>4, <4>2 DEF Announces
      <4>4. Marked(k, p) => Marked(k', p) \/ k'.ask[p] \in {"unsent", "asked"}
        BY <1>1, <1>4
      <4>5. QED
        BY <4>1, <4>3, <4>4 DEF Accounted, Traced
    <3>4. QED
      BY <3>1, <3>2, <3>3
  <2>5. QED
    BY <2>1, <2>2, <2>3, <2>4 DEF PanelInv
<1>6. ASSUME NEW q \in Panels \ {p}
      PROVE  PanelInv(q)'
  <2>1. FollowsAt(k, k', q)
    BY <1>1, <1>2, FollowsTwiceAt
  <2>2. PanelInv(q) /\ q \in Panels /\ k'.up = k.up /\ Announces(q) /\ (q \in behind' => q \in behind)
    BY <1>1, <1>2 DEF RefreshInv
  <2>3. QED
    BY <2>1, <2>2, PanelKept
<1>7. ~k'.up => link' = <<>>
  BY <1>1, <1>2 DEF RefreshInv
<1>8. QED
  BY <1>1, <1>5, <1>6, <1>7 DEF RefreshInv

(* A refusal that arrives.                                                 *)
LEMMA ReceiveRefusalKept ==
  ASSUME RefreshInv, ReceiveRefusal
  PROVE  RefreshInv'
<1> DEFINE p == Head(link).panel
           c == SetOperationalAvailable(k, FALSE)
<1>1. /\ link # <<>> /\ Head(link).kind = "refusal" /\ link' = Tail(link) /\ behind' = behind
      /\ unpublished' = unpublished /\ hostOpen' = hostOpen
      /\ IF k.ask[p] = "refused" THEN k' = Answered(c, p, FALSE) ELSE k' \in {c, k}
  BY DEF ReceiveRefusal
<1>2. /\ k.up /\ Marks(k) /\ Head(link) \in Messages /\ link' \in Seq(Messages)
      /\ \A q : OnItsWay(q) => OnItsWay(q)'
  BY <1>1, Received
<1>3. p \in Panels
  BY <1>2 DEF Messages
<1> HIDE DEF p
<1>4. Marks(c) /\ Follows(k, c) /\ c.ask = k.ask /\ c.dirty = k.dirty /\ c.cause = k.cause
  BY <1>2, Available
<1> HIDE DEF c
<1>5. HostTyped'
  BY <1>1, <1>2 DEF RefreshInv, HostTyped
<1>6. \A q \in Panels : Announces(q)
  BY <1>1, <1>2 DEF Announces, Announced
<1>7. CASE k.ask[p] = "refused"
  <2>1. k' = Answered(c, p, FALSE) /\ k.ask[p] # "none"
    BY <1>1, <1>7
  <2>2. Marked(k, p) => Marked(c, p)
    BY <1>4 DEF Marked
  <2>3. ~k.up => link' = link
    BY <1>2
  <2>4. \A q \in Panels \ {p} : q \in behind' => q \in behind
    BY <1>1
  <2>5. FALSE => k.up /\ (p \notin behind' \/ k.ask[p] = "outdated")
    OBVIOUS
  <2>6. QED
    BY <1>3, <1>4, <1>5, <1>6, <2>1, <2>2, <2>3, <2>4, <2>5, AnswerKept
<1>8. CASE k.ask[p] # "refused" /\ k' = c
  BY <1>1, <1>2, <1>4, <1>5, <1>6, <1>8, AllKept
<1>9. CASE k' = k
  <2>1. Marks(k') /\ Follows(k, k')
    BY <1>2, <1>9, FollowsItself
  <2>2. QED
    BY <1>1, <1>2, <1>5, <1>6, <1>9, <2>1, AllKept
<1>10. QED
  BY <1>1, <1>7, <1>8, <1>9

(* So is a response nobody waits for.                                      *)
LEMMA ReceiveUnmatchedKept ==
  ASSUME RefreshInv, ReceiveUnmatched
  PROVE  RefreshInv'
<1>1. /\ link # <<>> /\ Head(link).kind = "unmatched" /\ link' = Tail(link)
      /\ behind' = behind /\ unpublished' = unpublished /\ hostOpen' = hostOpen /\ k' = k
  BY DEF ReceiveUnmatched
<1>2. /\ k.up /\ Marks(k) /\ link' \in Seq(Messages) /\ \A q : OnItsWay(q) => OnItsWay(q)'
  BY <1>1, Received
<1>3. HostTyped'
  BY <1>1, <1>2 DEF RefreshInv, HostTyped
<1>4. \A q \in Panels : Announces(q)
  BY <1>1, <1>2 DEF Announces, Announced
<1>5. Marks(k') /\ Follows(k, k')
  BY <1>1, <1>2, FollowsItself
<1>6. QED
  BY <1>1, <1>2, <1>3, <1>4, <1>5, AllKept

(* Rows that arrive.                                                       *)
LEMMA ReceiveRowsKept ==
  ASSUME RefreshInv, NEW p \in Panels, ReceiveRows(p)
  PROVE  RefreshInv'
<1>1. /\ k.ask[p] \in {"fresh", "outdated"} /\ k.ask[p] # "none"
      /\ k' = Answered(k, p, TRUE) /\ unpublished' = unpublished /\ hostOpen' = hostOpen /\ link' = link
      /\ behind' = IF k.ask[p] = "fresh" THEN behind \ {p} ELSE behind \cup {p}
  BY DEF ReceiveRows
<1>2. Marks(k) /\ PanelInv(p) /\ Follows(k, k)
  BY FollowsItself DEF RefreshInv
<1>3. k.up
  BY <1>1, <1>2 DEF PanelInv, Quiet
<1>4. HostTyped'
  BY <1>1 DEF RefreshInv, HostTyped
<1>5. \A q \in Panels \ {p} : q \in behind' => q \in behind
  BY <1>1
<1>6. TRUE => k.up /\ (p \notin behind' \/ k.ask[p] = "outdated")
  BY <1>1, <1>3
<1>7. \A q \in Panels : Announces(q)
  BY <1>1, AnnouncesAlways
<1>8. ~k.up => link' = link
  BY <1>1
<1>9. QED
  BY <1>1, <1>2, <1>4, <1>5, <1>6, <1>7, <1>8, AnswerKept

(* A request that times out leaves every event on the link.                *)
LEMMA UnmatchedLink ==
  ASSUME NEW p \in Panels, link \in Seq(Messages)
  PROVE  /\ Unmatched(p) \in Seq(Messages)
         /\ link = <<>> => Unmatched(p) = <<>>
         /\ \A q : Carries(link, q) => Carries(Unmatched(p), q)
<1> DEFINE u == Unmatched(p)
           n == Len(link)
<1>1. n \in Nat /\ DOMAIN link = 1 .. n /\ \A i \in 1 .. n : link[i] \in Messages
  OBVIOUS
<1>2. u = [i \in 1 .. n |-> IF link[i] = Refusal(p) THEN [link[i] EXCEPT !.kind = "unmatched"] ELSE link[i]]
  BY <1>1 DEF Unmatched
<1> HIDE DEF n, u
<1>3. ASSUME NEW i \in 1 .. n
      PROVE  u[i] \in Messages /\ (link[i].kind = "event" => u[i] = link[i])
  <2>1. link[i] \in Messages
    BY <1>1
  <2>2. link[i] = Refusal(p) => link[i].kind = "refusal"
    BY DEF Refusal
  <2>3. [link[i] EXCEPT !.kind = "unmatched"] \in Messages
    BY <2>1 DEF Messages
  <2>4. QED
    BY <1>2, <2>1, <2>2, <2>3
<1>4. u \in [1 .. n -> Messages]
  BY <1>2, <1>3
<1>5. u \in Seq(Messages) /\ DOMAIN u = 1 .. n /\ Len(u) = n
  BY <1>1, <1>4
<1>6. link = <<>> => u = <<>>
  <2>1. link = <<>> => n = 0
    BY DEF n
  <2>2. QED
    BY <1>5, <2>1
<1>7. ASSUME NEW q, Carries(link, q)
      PROVE  Carries(u, q)
  BY <1>1, <1>3, <1>5, <1>7 DEF Carries
<1>8. QED
  BY <1>5, <1>6, <1>7 DEF u

(* A read that fails, with a session or without.                           *)
LEMMA ReadFailsKept ==
  ASSUME RefreshInv, NEW p \in Panels, ReadFails(p)
  PROVE  RefreshInv'
<1>1. /\ k.ask[p] # "none" /\ k' = Answered(k, p, FALSE)
      /\ unpublished' = unpublished /\ hostOpen' = hostOpen /\ behind' = behind
      /\ link' \in {link, Unmatched(p)}
  BY DEF ReadFails
<1>2. Marks(k) /\ Follows(k, k) /\ link \in Seq(Messages) /\ (~k.up => link = <<>>)
  BY FollowsItself DEF RefreshInv, HostTyped
<1>3. /\ link' \in Seq(Messages) /\ (~k.up => link' = link)
      /\ \A q : Carries(link, q) => Carries(link', q)
  BY <1>1, <1>2, UnmatchedLink
<1>4. HostTyped'
  BY <1>1, <1>3 DEF RefreshInv, HostTyped
<1>5. \A q \in Panels \ {p} : q \in behind' => q \in behind
  BY <1>1
<1>6. FALSE => k.up /\ (p \notin behind' \/ k.ask[p] = "outdated")
  OBVIOUS
<1>7. \A q \in Panels : Announces(q)
  BY <1>1, <1>3 DEF Announces, Announced, OnItsWay, Carries
<1>8. ~k.up => link' = link
  BY <1>3
<1>9. QED
  BY <1>1, <1>2, <1>4, <1>5, <1>6, <1>7, <1>8, AnswerKept

(* Steps of the Client alone.                                              *)
LEMMA ClientStepKept ==
  ASSUME RefreshInv, Marks(k'), Follows(k, k'), UNCHANGED <<behind, unpublished, hostOpen, link>>
  PROVE  RefreshInv'
<1>1. behind' = behind /\ unpublished' = unpublished /\ hostOpen' = hostOpen /\ link' = link
  OBVIOUS
<1>2. HostTyped'
  BY <1>1 DEF RefreshInv, HostTyped
<1>3. \A q \in Panels : Announces(q)
  BY <1>1, AnnouncesAlways
<1>4. QED
  BY <1>1, <1>2, <1>3, AllKept

(* The coalescing timer.                                                   *)
LEMMA ProcessPendingKept ==
  ASSUME RefreshInv, ProcessPending
  PROVE  RefreshInv'
<1> DEFINE S == {v \in k.pending \cap k.dirty : Visible(k, v)}
           c == [k EXCEPT !.timer = FALSE, !.pending = {}]
           r == Start(c, S)
<1>1. k' = r /\ UNCHANGED <<behind, unpublished, hostOpen, link>>
  BY DEF ProcessPending
<1>2. Marks(k) /\ k \in Clients
  BY DEF RefreshInv, Marks
<1>3. S \in SUBSET Views
  BY <1>2, ClientFields
<1> HIDE DEF S
<1>4. /\ c \in Clients /\ c.up = k.up /\ c.available = k.available /\ c.open = k.open
      /\ c.dirty = k.dirty /\ c.rerun = k.rerun /\ c.pending = {} /\ c.timer = FALSE /\ c.cause = k.cause
      /\ c.waiting = k.waiting /\ c.spoiled = k.spoiled /\ c.warned = k.warned /\ c.ask = k.ask
  BY <1>2 DEF Clients
<1> HIDE DEF c
<1>5. Marks(c)
  BY <1>2, <1>4 DEF Marks, Shown
<1>6. Follows(k, c)
  BY <1>4 DEF Follows, FollowsAt, Shown, Marked
<1>7. S \cap c.pending = {}
  BY <1>4
<1>8. Marks(r) /\ Follows(c, r)
  BY <1>3, <1>5, <1>7, Starts
<1> HIDE DEF r
<1>9. Follows(k, r)
  BY <1>6, <1>8, FollowsTwice
<1>10. QED
  BY <1>1, <1>8, <1>9, ClientStepKept

(* A Client that shows other panels.                                       *)
LEMMA OpenChanged ==
  ASSUME NEW c \in Clients, NEW o \in SUBSET Panels
  PROVE  LET d == [c EXCEPT !.open = o]
         IN  /\ d \in Clients /\ d.up = c.up /\ d.available = c.available /\ d.open = o
             /\ d.dirty = c.dirty /\ d.rerun = c.rerun /\ d.pending = c.pending /\ d.timer = c.timer
             /\ d.cause = c.cause /\ d.waiting = c.waiting /\ d.spoiled = c.spoiled
             /\ d.warned = c.warned /\ d.ask = c.ask
BY DEF Clients

(* A tab that is selected or left exists before and after.                 *)
LEMMA TabMoved ==
  ASSUME NEW c, Marks(c), NEW o \in SUBSET Panels,
         \A q \in Panels : ViewOf[q] \in Dialogs => (q \in o <=> q \in c.open)
  PROVE  Marks([c EXCEPT !.open = o]) /\ Follows(c, [c EXCEPT !.open = o])
<1> DEFINE d == [c EXCEPT !.open = o]
<1>1. c \in Clients
  BY DEF Marks
<1>2. /\ d \in Clients /\ d.up = c.up /\ d.available = c.available /\ d.open = o
      /\ d.dirty = c.dirty /\ d.rerun = c.rerun /\ d.pending = c.pending /\ d.timer = c.timer
      /\ d.cause = c.cause /\ d.waiting = c.waiting /\ d.spoiled = c.spoiled
      /\ d.warned = c.warned /\ d.ask = c.ask
  BY <1>1, OpenChanged
<1> HIDE DEF d
<1>3. \A q \in Panels : Shown(d, q) <=> Shown(c, q)
  BY <1>2 DEF Shown
<1>4. c.waiting \in [Views -> SUBSET Panels]
  BY <1>1, ClientFields
<1>5. Marks(d)
  <2>1. ASSUME NEW v \in Views, NEW q \in d.waiting[v]
        PROVE  ViewOf[q] = v /\ (d.ask[q] # "none" \/ ~Shown(d, q))
    <3>1. q \in c.waiting[v] /\ q \in Panels
      BY <1>2, <1>4, <2>1
    <3>2. ViewOf[q] = v /\ (c.ask[q] # "none" \/ ~Shown(c, q))
      BY <3>1 DEF Marks
    <3>3. QED
      BY <1>2, <1>3, <3>1, <3>2
  <2>2. QED
    BY <1>2, <2>1 DEF Marks
<1>6. Follows(c, d)
  BY <1>2, <1>3 DEF Follows, FollowsAt, Marked
<1>7. QED
  BY <1>5, <1>6 DEF d

(* A tab is selected.                                                      *)
LEMMA ShowKept ==
  ASSUME RefreshInv, NEW p \in Panels, Show(p)
  PROVE  RefreshInv'
<1> DEFINE o == k.open \cup {p}
           c == [k EXCEPT !.open = o]
           v == ViewOf[p]
           r == SurfaceBecameRelevant(c, v)
<1>1. k' = r /\ ViewOf[p] \notin Dialogs /\ UNCHANGED <<behind, unpublished, hostOpen, link>>
  BY DEF Show
<1>2. Marks(k) /\ v \in Views
  BY ViewTyped DEF RefreshInv
<1>3. o \in SUBSET Panels /\ \A q \in Panels : ViewOf[q] \in Dialogs => (q \in o <=> q \in k.open)
  <2>1. k.open \subseteq Panels
    BY <1>2, ClientFields DEF Marks
  <2>2. QED
    BY <1>1, <2>1
<1> HIDE DEF o, v
<1>4. Marks(c) /\ Follows(k, c)
  BY <1>2, <1>3, TabMoved
<1> HIDE DEF c
<1>5. Marks(r) /\ Follows(c, r)
  BY <1>2, <1>4, Relevant
<1> HIDE DEF r
<1>6. Follows(k, r)
  BY <1>4, <1>5, FollowsTwice
<1>7. QED
  BY <1>1, <1>5, <1>6, ClientStepKept

(* A tab is left.                                                          *)
LEMMA HideKept ==
  ASSUME RefreshInv, NEW p \in Panels, Hide(p)
  PROVE  RefreshInv'
<1> DEFINE o == k.open \ {p}
           r == [k EXCEPT !.open = o]
<1>1. k' = r /\ ViewOf[p] \notin Dialogs /\ UNCHANGED <<behind, unpublished, hostOpen, link>>
  BY DEF Hide
<1>2. Marks(k)
  BY DEF RefreshInv
<1>3. o \in SUBSET Panels /\ \A q \in Panels : ViewOf[q] \in Dialogs => (q \in o <=> q \in k.open)
  <2>1. k.open \subseteq Panels
    BY <1>2, ClientFields DEF Marks
  <2>2. QED
    BY <1>1, <2>1
<1> HIDE DEF o
<1>4. Marks(r) /\ Follows(k, r)
  BY <1>2, <1>3, TabMoved
<1> HIDE DEF r
<1>5. QED
  BY <1>1, <1>4, ClientStepKept

(* A dialog that is opened asks, also when a run still waits for the one   *)
(* that was closed; the others are left alone.                             *)
LEMMA DialogOpens ==
  ASSUME NEW c, Marks(c), NEW p \in Panels
  PROVE  LET b == [c EXCEPT !.open = @ \cup {p}]
             d == Request(SurfaceBecameRelevant(b, ViewOf[p]), {p})
         IN  /\ Marks(d) /\ d.up = c.up /\ Shown(d, p)
             /\ \A q \in Panels \ {p} : FollowsAt(c, d, q)
             /\ d.ask[p] \in {"unsent", "asked"} /\ (d.ask[p] = "asked" => c.up)
<1> DEFINE o == c.open \cup {p}
           b == [c EXCEPT !.open = o]
           v == ViewOf[p]
           e == SurfaceBecameRelevant(b, v)
           d == Request(e, {p})
<1>1. c \in Clients /\ v \in Views /\ c.waiting \in [Views -> SUBSET Panels]
  <2>1. c \in Clients /\ v \in Views
    BY ViewTyped DEF Marks
  <2>2. QED
    BY <2>1, ClientFields
<1>2. o \in SUBSET Panels
  BY <1>1, ClientFields
<1>3. p \in o /\ \A q \in Panels : q # p => (q \in o <=> q \in c.open)
  OBVIOUS
<1> HIDE DEF o
<1>4. /\ b \in Clients /\ b.up = c.up /\ b.available = c.available /\ b.open = o
      /\ b.dirty = c.dirty /\ b.rerun = c.rerun /\ b.pending = c.pending /\ b.timer = c.timer
      /\ b.cause = c.cause /\ b.waiting = c.waiting /\ b.spoiled = c.spoiled
      /\ b.warned = c.warned /\ b.ask = c.ask
  BY <1>1, <1>2, OpenChanged
<1> HIDE DEF b
<1>5. Shown(b, p) /\ \A q \in Panels : q # p => (Shown(b, q) <=> Shown(c, q))
  BY <1>3, <1>4 DEF Shown
<1>6. \A q \in Panels \ {p} : FollowsAt(c, b, q)
  BY <1>4, <1>5 DEF FollowsAt, Marked
<1>v. v = ViewOf[p]
  OBVIOUS
<1> HIDE DEF v
<1>7. CASE c.waiting[v] # {}
  <2>1. e = b
    BY <1>4, <1>7 DEF SurfaceBecameRelevant, InFlight
  <2>2. Asked(b, {p}, d)
    BY <1>4, <2>1, Requested
  <2> HIDE DEF d
  <2>3. Follows(b, d)
    BY <1>5, <2>2, AskedFollows
  <2>4. /\ d \in Clients /\ d.up = c.up /\ d.available = c.available /\ d.open = o
        /\ d.dirty = c.dirty /\ d.rerun = c.rerun /\ d.pending = c.pending /\ d.timer = c.timer
        /\ d.cause = c.cause /\ d.waiting = c.waiting /\ d.spoiled = c.spoiled
        /\ d.warned = c.warned \ {p}
        /\ d.ask[p] \in {"unsent", "asked"} /\ (d.ask[p] = "asked" => c.up)
        /\ \A q \in Panels : q # p => d.ask[q] = c.ask[q]
    BY <1>4, <2>2 DEF Asked
  <2>5. \A q \in Panels : q # p => (Shown(d, q) <=> Shown(c, q))
    BY <1>3, <2>4 DEF Shown
  <2>6. Marks(d)
    <3>1. ASSUME NEW u \in Views, NEW q \in d.waiting[u]
          PROVE  ViewOf[q] = u /\ (d.ask[q] # "none" \/ ~Shown(d, q))
      <4>1. q \in c.waiting[u] /\ q \in Panels
        BY <1>1, <2>4, <3>1
      <4>2. ViewOf[q] = u /\ (c.ask[q] # "none" \/ ~Shown(c, q))
        BY <4>1 DEF Marks
      <4>3. QED
        BY <2>4, <2>5, <4>1, <4>2
    <3>2. \A q \in d.warned : d.ask[q] = "none"
      <4>1. c.warned \subseteq Panels
        BY <1>1, ClientFields
      <4>2. QED
        BY <2>4, <4>1 DEF Marks
    <3>3. QED
      BY <2>4, <3>1, <3>2 DEF Marks
  <2>7. \A q \in Panels \ {p} : FollowsAt(c, d, q)
    BY <1>4, <1>6, <2>3, FollowsTwiceAt DEF Follows
  <2>8. Shown(d, p)
    BY <1>3, <2>4 DEF Shown
  <2>9. QED
    BY <2>4, <2>6, <2>7, <2>8 DEF d, e, b, o, v
<1>8. CASE c.waiting[v] = {}
  <2>1. Marks(b)
    <3>1. ASSUME NEW u \in Views, NEW q \in b.waiting[u]
          PROVE  ViewOf[q] = u /\ (b.ask[q] # "none" \/ ~Shown(b, q))
      <4>1. q \in c.waiting[u] /\ q \in Panels
        BY <1>1, <1>4, <3>1
      <4>2. ViewOf[q] = u /\ (c.ask[q] # "none" \/ ~Shown(c, q))
        BY <4>1 DEF Marks
      <4>3. q # p
        BY <1>8, <1>v, <4>1, <4>2
      <4>4. QED
        BY <1>4, <1>5, <4>1, <4>2, <4>3
    <3>2. QED
      BY <1>4, <3>1 DEF Marks
  <2>2. Marks(e) /\ Follows(b, e)
    BY <1>1, <2>1, Relevant
  <2> HIDE DEF e
  <2>3. e \in Clients /\ Shown(e, p)
    BY <1>5, <2>2 DEF Marks, Follows, FollowsAt
  <2>4. Asked(e, {p}, d)
    BY <2>3, Requested
  <2> HIDE DEF d
  <2>5. Marks(d)
    BY <2>2, <2>4, AskedMarks
  <2>6. Follows(e, d)
    BY <2>3, <2>4, AskedFollows
  <2>7. Follows(b, d)
    BY <2>2, <2>6, FollowsTwice
  <2>8. d.up = c.up /\ e.up = c.up
    BY <1>4, <2>2, <2>7 DEF Follows
  <2>9. \A q \in Panels \ {p} : FollowsAt(c, d, q)
    BY <1>4, <1>6, <2>7, FollowsTwiceAt DEF Follows
  <2>10. d.ask[p] \in {"unsent", "asked"} /\ (d.ask[p] = "asked" => c.up)
    BY <2>4, <2>8 DEF Asked
  <2>11. Shown(d, p)
    BY <1>5, <2>7 DEF Follows, FollowsAt
  <2>12. QED
    BY <2>5, <2>8, <2>9, <2>10, <2>11 DEF d, e, b, o, v
<1>9. QED
  BY <1>7, <1>8

(* A dialog is opened.                                                     *)
LEMMA OpenDialogKept ==
  ASSUME RefreshInv, NEW p \in Panels, OpenDialog(p)
  PROVE  RefreshInv'
<1>1. /\ k' = Request(SurfaceBecameRelevant([k EXCEPT !.open = @ \cup {p}], ViewOf[p]), {p})
      /\ behind' = behind /\ unpublished' = unpublished /\ hostOpen' = hostOpen /\ link' = link
  BY DEF OpenDialog
<1>2. Marks(k)
  BY DEF RefreshInv
<1>3. /\ Marks(k') /\ k'.up = k.up /\ Shown(k', p)
      /\ \A q \in Panels \ {p} : FollowsAt(k, k', q)
      /\ k'.ask[p] \in {"unsent", "asked"} /\ (k'.ask[p] = "asked" => k.up)
  BY <1>1, <1>2, DialogOpens
<1>4. ASSUME NEW q \in Panels
      PROVE  PanelInv(q)'
  <2>1. CASE q = p
    BY <1>3, <2>1 DEF PanelInv, Quiet, Destroyed, Overtaken, Accounted, Traced
  <2>2. CASE q # p
    <3>1. PanelInv(q) /\ Announces(q) /\ (q \in behind' => q \in behind) /\ k'.up = k.up /\ FollowsAt(k, k', q)
      BY <1>1, <1>3, <2>2, AnnouncesAlways DEF RefreshInv
    <3>2. QED
      BY <3>1, PanelKept
  <2>3. QED
    BY <2>1, <2>2
<1>5. HostTyped' /\ (~k'.up => link' = <<>>)
  BY <1>1, <1>3 DEF RefreshInv, HostTyped
<1>6. QED
  BY <1>3, <1>4, <1>5 DEF RefreshInv

(* A dialog is closed, and nothing is owed to it.                          *)
LEMMA CloseDialogKept ==
  ASSUME RefreshInv, NEW p \in Panels, CloseDialog(p)
  PROVE  RefreshInv'
<1> DEFINE o == k.open \ {p}
           b == [k EXCEPT !.open = o]
           d == [b EXCEPT !.ask[p] = "none"]
<1>1. /\ k' = d /\ ViewOf[p] \in Dialogs
      /\ behind' = behind /\ unpublished' = unpublished /\ hostOpen' = hostOpen /\ link' = link
  BY DEF CloseDialog
<1>2. k \in Clients /\ k.waiting \in [Views -> SUBSET Panels] /\ k.warned \subseteq Panels
  <2>1. k \in Clients
    BY DEF RefreshInv, Marks
  <2>2. QED
    BY <2>1, ClientFields
<1>3. o \in SUBSET Panels /\ p \notin o /\ \A q \in Panels : q # p => (q \in o <=> q \in k.open)
  BY <1>2, ClientFields
<1> HIDE DEF o
<1>4. /\ b \in Clients /\ b.up = k.up /\ b.available = k.available /\ b.open = o
      /\ b.dirty = k.dirty /\ b.rerun = k.rerun /\ b.pending = k.pending /\ b.timer = k.timer
      /\ b.cause = k.cause /\ b.waiting = k.waiting /\ b.spoiled = k.spoiled
      /\ b.warned = k.warned /\ b.ask = k.ask
  BY <1>2, <1>3, OpenChanged
<1> HIDE DEF b
<1>5. /\ d \in Clients /\ d.up = b.up /\ d.available = b.available /\ d.open = b.open
      /\ d.dirty = b.dirty /\ d.rerun = b.rerun /\ d.pending = b.pending /\ d.timer = b.timer
      /\ d.cause = b.cause /\ d.waiting = b.waiting /\ d.spoiled = b.spoiled /\ d.warned = b.warned
      /\ \A q \in Panels : d.ask[q] = IF q = p THEN "none" ELSE b.ask[q]
  <2>1. b \in Clients /\ "none" \in Reads
    BY <1>4 DEF Reads
  <2>2. QED
    BY <2>1, AskChanged
<1> HIDE DEF d
<1>6. ~Shown(d, p) /\ d.ask[p] = "none"
      /\ \A q \in Panels : q # p => (Shown(d, q) <=> Shown(k, q)) /\ d.ask[q] = k.ask[q]
  BY <1>1, <1>3, <1>4, <1>5 DEF Shown
<1>7. Marks(k')
  <2>1. ASSUME NEW u \in Views, NEW q \in d.waiting[u]
        PROVE  ViewOf[q] = u /\ (d.ask[q] # "none" \/ ~Shown(d, q))
    <3>1. q \in k.waiting[u] /\ q \in Panels
      BY <1>2, <1>4, <1>5, <2>1
    <3>2. ViewOf[q] = u /\ (k.ask[q] # "none" \/ ~Shown(k, q))
      BY <3>1 DEF RefreshInv, Marks
    <3>3. QED
      BY <1>6, <3>1, <3>2
  <2>2. \A q \in d.warned : d.ask[q] = "none"
    BY <1>2, <1>4, <1>5 DEF RefreshInv, Marks
  <2>3. QED
    BY <1>1, <1>4, <1>5, <2>1, <2>2 DEF RefreshInv, Marks
<1>8. ASSUME NEW q \in Panels
      PROVE  PanelInv(q)'
  <2>1. CASE q = p
    <3>1. ~Shown(k', q) /\ k'.ask[q] = "none"
      BY <1>1, <1>6, <2>1
    <3>2. QED
      BY <3>1 DEF PanelInv, Quiet, Destroyed, Overtaken, Accounted, Stale, Shown
  <2>2. CASE q # p
    <3>1. FollowsAt(k, k', q)
      BY <1>1, <1>4, <1>5, <1>6, <2>2 DEF FollowsAt, Marked
    <3>2. PanelInv(q) /\ Announces(q) /\ (q \in behind' => q \in behind) /\ k'.up = k.up
      BY <1>1, <1>4, <1>5, AnnouncesAlways DEF RefreshInv
    <3>3. QED
      BY <3>1, <3>2, PanelKept
  <2>3. QED
    BY <2>1, <2>2
<1>9. HostTyped' /\ (~k'.up => link' = <<>>)
  BY <1>1, <1>4, <1>5 DEF RefreshInv, HostTyped
<1>10. QED
  BY <1>7, <1>8, <1>9 DEF RefreshInv

(* A session is lost: every panel says that it may be stale.               *)
LEMMA SessionLostKept ==
  ASSUME RefreshInv, SessionLost
  PROVE  RefreshInv'
<1> DEFINE dy == k.dirty \cup {v \in Views : k.waiting[v] # {}}
           wa == [v \in Views |-> {}]
           a == [p \in Panels |-> "none"]
           d == [k EXCEPT !.up = FALSE, !.dirty = dy, !.rerun = {}, !.pending = {}, !.timer = FALSE,
                          !.waiting = wa, !.spoiled = {}, !.ask = a, !.warned = Panels]
<1>1. /\ k' = d /\ link' = <<>>
      /\ behind' = behind /\ unpublished' = unpublished /\ hostOpen' = hostOpen
  BY DEF SessionLost, InFlight
<1>2. k \in Clients
  BY DEF RefreshInv, Marks
<1>3. dy \subseteq Views /\ wa \in [Views -> SUBSET Panels] /\ a \in [Panels -> Reads]
      /\ (\A v \in Views : wa[v] = {}) /\ (\A p \in Panels : a[p] = "none")
  BY <1>2, ClientFields DEF Reads
<1> HIDE DEF dy, wa, a
<1>4. /\ d \in Clients /\ d.up = FALSE /\ d.available = k.available /\ d.open = k.open
      /\ d.dirty = dy /\ d.rerun = {} /\ d.pending = {} /\ d.timer = FALSE /\ d.cause = k.cause
      /\ d.waiting = wa /\ d.spoiled = {} /\ d.warned = Panels /\ d.ask = a
  BY <1>2, <1>3 DEF Clients
<1> HIDE DEF d
<1>5. Marks(k')
  BY <1>1, <1>3, <1>4 DEF RefreshInv, Marks
<1>6. ASSUME NEW p \in Panels
      PROVE  PanelInv(p)'
  <2>1. k'.ask[p] = "none" /\ p \in k'.warned
    BY <1>1, <1>3, <1>4
  <2>2. QED
    BY <2>1 DEF PanelInv, Quiet, Destroyed, Overtaken, Accounted, Traced
<1>7. HostTyped'
  BY <1>1 DEF RefreshInv, HostTyped
<1>8. QED
  BY <1>1, <1>5, <1>6, <1>7 DEF RefreshInv

(* A session begins: the marks are dropped, but every panel already says   *)
(* that it may be stale, or waits to ask.                                  *)
LEMMA SessionEstablishedKept ==
  ASSUME RefreshInv, SessionEstablished
  PROVE  RefreshInv'
<1> DEFINE c == SetOperationalAvailable(k, TRUE)
           e == [v \in Views |-> {}]
           b == [c EXCEPT !.up = TRUE, !.dirty = {}, !.rerun = {}, !.pending = {}, !.timer = FALSE,
                          !.cause = e, !.waiting = e, !.spoiled = {}, !.reloadAfter = TRUE]
           d == Request(b, {Workspaces})
<1>1. /\ ~k.up /\ k' = d /\ link' = link
      /\ behind' = behind /\ unpublished' = unpublished /\ hostOpen' = hostOpen
  BY DEF SessionEstablished
<1>2. Marks(k) /\ k \in Clients
  BY DEF RefreshInv, Marks
<1>3. /\ c \in Clients /\ c.open = k.open /\ c.available = TRUE /\ c.warned = k.warned /\ c.ask = k.ask
  <2> DEFINE t == IF k.available = TRUE THEN k.timer ELSE TRUE /\ k.pending # {}
  <2>1. c = [k EXCEPT !.available = TRUE, !.timer = t]
    BY DEF SetOperationalAvailable
  <2>2. t \in BOOLEAN
    BY <1>2, ClientFields
  <2> HIDE DEF t, c
  <2>3. QED
    BY <1>2, <2>1, <2>2 DEF Clients
<1> HIDE DEF c
<1>4. e \in [Views -> SUBSET Panels] /\ \A v \in Views : e[v] = {}
  OBVIOUS
<1> HIDE DEF e
<1>5. /\ b \in Clients /\ b.up = TRUE /\ b.available = TRUE /\ b.open = k.open
      /\ b.dirty = {} /\ b.rerun = {} /\ b.pending = {} /\ b.timer = FALSE /\ b.cause = e
      /\ b.waiting = e /\ b.spoiled = {} /\ b.warned = k.warned /\ b.ask = k.ask
  BY <1>3, <1>4 DEF Clients
<1> HIDE DEF b
<1>6. Marks(b)
  BY <1>2, <1>4, <1>5 DEF Marks
<1>7. Asked(b, {Workspaces}, d)
  BY <1>5, Requested
<1> HIDE DEF d
<1>8. Marks(k')
  BY <1>1, <1>6, <1>7, AskedMarks
<1>9. /\ k'.up /\ k'.open = k.open /\ k'.warned = k.warned \ {Workspaces}
      /\ \A p \in Panels : k'.ask[p] = IF p = Workspaces THEN "asked" ELSE k.ask[p]
  BY <1>1, <1>5, <1>7 DEF Asked
<1>10. ASSUME NEW p \in Panels
       PROVE  PanelInv(p)'
  <2>1. Shown(k', p) <=> Shown(k, p)
    BY <1>9 DEF Shown
  <2>2. PanelInv(p)
    BY DEF RefreshInv
  <2>3. k.ask[p] \in {"none", "unsent"} /\ (Shown(k, p) => p \in k.warned \/ k.ask[p] = "unsent")
    BY <1>1, <2>2 DEF PanelInv, Quiet
  <2>4. Quiet(k', p)
    BY <1>9 DEF Quiet
  <2>5. Destroyed(k', p)
    <3>1. Shown(k, Workspaces)
      BY PanelsAssumption DEF Shown
    <3>2. QED
      BY <1>9, <2>1, <2>2, <3>1 DEF PanelInv, Destroyed
  <2>6. Overtaken(p)'
    BY <1>9, <2>3 DEF Overtaken
  <2>7. Accounted(p)'
    <3>1. Stale(p)' => Shown(k', p)
      BY DEF Stale, Shown
    <3>2. QED
      BY <1>9, <2>1, <2>3, <3>1 DEF Accounted, Traced
  <2>8. QED
    BY <2>4, <2>5, <2>6, <2>7 DEF PanelInv
<1>11. HostTyped' /\ (~k'.up => link' = <<>>)
  BY <1>1, <1>9 DEF RefreshInv, HostTyped
<1>12. QED
  BY <1>8, <1>10, <1>11 DEF RefreshInv

-----------------------------------------------------------------------------
(* The theorems                                                            *)

(* The initial state satisfies the invariant.                              *)
LEMMA InitKept == Init => RefreshInv
<1> DEFINE o == {p \in Panels : ViewOf[p] \notin Dialogs}
           e == [v \in Views |-> {}]
           a == [p \in Panels |-> "none"]
           d == [up |-> TRUE, available |-> TRUE, open |-> o, dirty |-> {}, rerun |-> {}, pending |-> {},
                 timer |-> FALSE, cause |-> e, waiting |-> e, spoiled |-> {}, ask |-> a, warned |-> {},
                 reloadAfter |-> FALSE]
<1>1. SUFFICES ASSUME Init PROVE RefreshInv
  OBVIOUS
<1>2. behind = {} /\ unpublished = {} /\ hostOpen = TRUE /\ link = <<>> /\ k = d
  BY <1>1 DEF Init
<1>3. o \subseteq Panels /\ e \in [Views -> SUBSET Panels] /\ a \in [Panels -> Reads]
      /\ (\A v \in Views : e[v] = {}) /\ (\A p \in Panels : a[p] = "none")
  BY DEF Reads
<1> HIDE DEF o, e, a
<1>4. /\ d \in Clients /\ d.up = TRUE /\ d.rerun = {} /\ d.pending = {} /\ d.timer = FALSE /\ d.cause = e
      /\ d.waiting = e /\ d.spoiled = {} /\ d.warned = {} /\ d.ask = a
  BY <1>3 DEF Clients
<1> HIDE DEF d
<1>5. Marks(k)
  BY <1>2, <1>3, <1>4 DEF Marks
<1>6. ASSUME NEW p \in Panels
      PROVE  PanelInv(p)
  BY <1>2, <1>3, <1>4 DEF PanelInv, Quiet, Destroyed, Overtaken, Accounted, Stale
<1>7. HostTyped
  BY <1>2 DEF HostTyped
<1>8. QED
  BY <1>2, <1>5, <1>6, <1>7 DEF RefreshInv

(* Every step preserves it.                                                *)
LEMMA NextKept == RefreshInv /\ [Next]_vars => RefreshInv'
<1> SUFFICES ASSUME RefreshInv, [Next]_vars PROVE RefreshInv'
  OBVIOUS
<1>1. ASSUME NEW S \in SUBSET (Panels \ {Workspaces}) \ {{}}, Commit(S) PROVE RefreshInv'
  BY <1>1, CommitKept
<1>2. CASE EnterMaintenance \/ ReopenAfterFailedEntry
  BY <1>2, AdmissionKept
<1>3. CASE LeaveMaintenance
  BY <1>3, LeaveMaintenanceKept
<1>4. CASE Receives
  BY <1>4, ReceiveEventKept, ReceiveRefusalKept, ReceiveUnmatchedKept DEF Receives
<1>5. CASE ProcessPending
  BY <1>5, ProcessPendingKept
<1>6. ASSUME NEW p \in Panels, GoesOn(p) \/ ReadFails(p) PROVE RefreshInv'
  BY <1>6, PublishKept, HostReadsKept, ReceiveRowsKept, ReadFailsKept DEF GoesOn
<1>7. ASSUME NEW p \in Panels, Show(p) \/ Hide(p) \/ OpenDialog(p) \/ CloseDialog(p) PROVE RefreshInv'
  BY <1>7, ShowKept, HideKept, OpenDialogKept, CloseDialogKept
<1>8. CASE SessionLost \/ SessionEstablished
  BY <1>8, SessionLostKept, SessionEstablishedKept
<1>9. CASE UNCHANGED vars
  <2>1. k' = k /\ behind' = behind /\ unpublished' = unpublished /\ hostOpen' = hostOpen /\ link' = link
    BY <1>9 DEF vars
  <2>2. Marks(k') /\ Follows(k, k')
    BY <2>1, FollowsItself DEF RefreshInv
  <2>3. QED
    BY <2>1, <2>2, ClientStepKept
<1>10. QED
  BY <1>1, <1>2, <1>3, <1>4, <1>5, <1>6, <1>7, <1>8, <1>9 DEF Next

(* The inductive invariant of the refresh: marks that fit together, and of *)
(* each panel that is stale an announcement, a mark, a request or a        *)
(* warning.                                                                *)
THEOREM RefreshKept == Spec => []RefreshInv
BY InitKept, NextKept, PTL DEF Spec

(* The coordinator's marks always fit together: no run is lost, owed       *)
(* without one in flight, or waits for a read nobody will finish, but for  *)
(* that of a closed dialog.                                                *)
THEOREM MarksFitTogether == Spec => []MarksAgree
<1>1. RefreshInv => MarksAgree
  <2> SUFFICES ASSUME RefreshInv PROVE MarksAgree
    OBVIOUS
  <2>1. TypeOK
    BY DEF RefreshInv, HostTyped, Marks, TypeOK
  <2>2. k.waiting \in [Views -> SUBSET Panels]
    BY <2>1, ClientFields DEF TypeOK
  <2>3. ASSUME NEW v \in Views
        PROVE  /\ v \in k.pending => ~InFlight(k, v)
               /\ v \in k.rerun \cup k.spoiled => InFlight(k, v)
               /\ k.waiting[v] \subseteq PanelsOf(v)
               /\ \A p \in k.waiting[v] : k.ask[p] # "none" \/ (v \in Dialogs /\ p \notin k.open)
    BY <2>2 DEF RefreshInv, Marks, InFlight, PanelsOf, Shown
  <2>4. QED
    BY <2>1, <2>3 DEF MarksAgree, RefreshInv, Marks
<1>2. QED
  BY <1>1, RefreshKept, PTL

(* No view of a connected Client is stale without anybody knowing,         *)
(* whatever commits, events, reads, refusals, maintenance, sessions, tabs  *)
(* and dialogs interleave.                                                 *)
THEOREM NothingStaleUnknown == Spec => []KnownStale
<1>1. RefreshInv => KnownStale
  BY DEF RefreshInv, PanelInv, Accounted, Announced, Traced, Marked, KnownStale
<1>2. QED
  BY <1>1, RefreshKept, PTL
=============================================================================
