---------------------- MODULE RebrickableRequestsProofs ----------------------
(***************************************************************************)
(* The requests of one process, for any finite set of Parts, any images,   *)
(* calls, pages and batch sizes: what is queued is attended to, and what   *)
(* is marked as under way is under way in exactly one request.             *)
(*                                                                         *)
(* A request stands for marks (Claim): the Parts of its batch, the Part it *)
(* looks up, the image that is asked for. The invariant is stated with     *)
(* those marks K left out whose request has just been taken off the wire,  *)
(* or is not queued yet: that is what the operators of the module hand to  *)
(* one another while one callback is executed.                             *)
(***************************************************************************)
EXTENDS RebrickableRequests, FiniteSetTheorems, TLAPS

-----------------------------------------------------------------------------
(* The inductive invariant                                                 *)

(* Everything that can be asked of Rebrickable.                            *)
Requests ==
  [call : {"batch"}, of : SUBSET Parts, page : Nat]
    \cup [call : {"details", "search"}, of : Parts, page : Nat]
    \cup [call : {"color"}, of : Items, page : Nat]
    \cup [call : {"dialog"}, of : Calls, page : Nat]

(* The values a process can have.                                          *)
Processes ==
  [fg : Seq(Requests), bg : Seq(Requests), sent : SUBSET Requests, timer : BOOLEAN,
   due : BOOLEAN, blocked : BOOLEAN, refused : BOOLEAN, queued : SUBSET Parts,
   active : SUBSET Parts, direct : SUBSET Parts, imageOnly : SUBSET Parts,
   imagesAsked : SUBSET Parts, scheduled : BOOLEAN,
   status : [Parts -> {"none", "loaded", "unavailable"}],
   dialog : [Parts -> {"none", "pending", "complete", "retryable"}],
   items : SUBSET Items, asking : Items \cup {None}, stale : BOOLEAN, imageTimer : BOOLEAN,
   fetching : SUBSET Items, following : SUBSET Items, skipped : SUBSET Items,
   cached : SUBSET Items, unavailable : SUBSET Items,
   calls : [Calls -> {"none", "waiting", "answered", "gone"}]]

(* The marks a request stands for; a dialog's call leaves none.            *)
Claim(r) ==
  IF r.call = "batch" THEN {<<"batch", p>> : p \in r.of}
  ELSE IF r.call \in {"details", "search"} THEN {<<"direct", r.of>>}
  ELSE IF r.call = "color" THEN {<<"color", None>>}
  ELSE {}

(* The marks a process has.                                                *)
MarksOf(v) ==
  ({"batch"} \X v.active) \cup ({"direct"} \X v.direct)
    \cup (IF v.asking = None THEN {} ELSE {<<"color", None>>})

Disjoint(r, s) == Claim(r) \cap Claim(s) = {}

(* No two requests of a process stand for the same mark.                   *)
Apart(v) ==
  /\ \A r, s \in v.sent : r # s => Disjoint(r, s)
  /\ \A i \in DOMAIN v.fg, j \in DOMAIN v.fg : i # j => Disjoint(v.fg[i], v.fg[j])
  /\ \A i \in DOMAIN v.bg, j \in DOMAIN v.bg : i # j => Disjoint(v.bg[i], v.bg[j])
  /\ \A i \in DOMAIN v.fg, j \in DOMAIN v.bg : Disjoint(v.fg[i], v.bg[j])
  /\ \A r \in v.sent, i \in DOMAIN v.fg : Disjoint(r, v.fg[i])
  /\ \A r \in v.sent, i \in DOMAIN v.bg : Disjoint(r, v.bg[i])

(* Every request stands for marks in M,                                    *)
Claimed(v, M) ==
  /\ \A r \in v.sent : Claim(r) \subseteq M
  /\ \A i \in DOMAIN v.fg : Claim(v.fg[i]) \subseteq M
  /\ \A i \in DOMAIN v.bg : Claim(v.bg[i]) \subseteq M

(* and every mark in M has its request.                                    *)
Covered(v, M) ==
  \A m \in M : \/ \E r \in v.sent : m \in Claim(r)
               \/ \E i \in DOMAIN v.fg : m \in Claim(v.fg[i])
               \/ \E i \in DOMAIN v.bg : m \in Claim(v.bg[i])

(* The marks of v, but for those in K, are those of its requests.          *)
Matched(v, K) ==
  /\ v \in Processes
  /\ K \subseteq MarksOf(v)
  /\ Apart(v)
  /\ Claimed(v, MarksOf(v) \ K)
  /\ Covered(v, MarksOf(v) \ K)
  /\ v.queued \cap v.active = {}

(* The request timer runs while something is queued.                       *)
Timed(v) == v.fg # <<>> \/ v.bg # <<>> => v.timer

(* A dispatch is coming for the Parts that wait for one, and the next step *)
(* of the image queue as well.                                             *)
Attended(v) ==
  /\ v.queued # {} => v.scheduled
  /\ v.items # {} /\ ~v.blocked => v.imageTimer \/ v.asking # None \/ v.following # {}

(* The inductive invariant.                                                *)
Kept(v) == Matched(v, {}) /\ Timed(v) /\ Attended(v)

-----------------------------------------------------------------------------
(* Folds over finite sets                                                  *)

(* What holds of a subset of a finite set whenever it holds of the smaller *)
(* ones holds of every subset.                                             *)
LEMMA SubsetInduction ==
  ASSUME NEW S, IsFiniteSet(S), NEW G,
         \A T \in SUBSET S : (\A U \in SUBSET T : U # T => U \in G) => T \in G
  PROVE  SUBSET S \subseteq G
<1> SUFFICES ASSUME NEW T0 \in SUBSET S, T0 \notin G PROVE FALSE
  OBVIOUS
<1> DEFINE B == {T \in FiniteSubsetsOf(S) : T \notin G}
           R == StrictSubsetOrdering(S)
           F == FiniteSubsetsOf(S)
<1>1. F = SUBSET S
  BY FS_FiniteSubsetsOfFinite
<1>2. IsWellFoundedOn(R, F)
  BY FS_StrictSubsetOrderingWellFounded
<1>3. B \subseteq F /\ B # {}
  BY <1>1
<1>4. \E T \in B : \A y \in B : ~(<<y, T>> \in R)
  <2> HIDE DEF B, R, F
  <2> QED BY <1>2, <1>3, WFMin
<1>5. PICK T \in B : \A y \in B : ~(<<y, T>> \in R)
  BY <1>4
<1>6. \A U \in SUBSET T : U # T => U \in G
  <2> SUFFICES ASSUME NEW U \in SUBSET T, U # T, U \notin G PROVE FALSE
    OBVIOUS
  <2>1. U \in B /\ T \in SUBSET S
    BY <1>1
  <2>2. <<U, T>> \in R
    BY <1>1, <2>1 DEF StrictSubsetOrdering
  <2> QED BY <1>5, <2>1, <2>2
<1> QED BY <1>1, <1>5, <1>6

(* h follows the recursion of a fold over the subsets of T.                *)
Folds(h, T, base, step, pick) ==
  \A s \in SUBSET T : h[s] = IF s = {} THEN base
                             ELSE step[<<pick[s], h[s \ {pick[s]}]>>]

(* Two functions that follow the same recursion over the subsets of a      *)
(* finite set agree.                                                       *)
LEMMA FoldUnique ==
  ASSUME NEW S, IsFiniteSet(S), NEW base, NEW step, NEW pick, NEW h1, NEW h2,
         \A s \in SUBSET S : s # {} => pick[s] \in s,
         Folds(h1, S, base, step, pick), Folds(h2, S, base, step, pick)
  PROVE  \A s \in SUBSET S : h1[s] = h2[s]
<1> DEFINE G == {s \in SUBSET S : h1[s] = h2[s]}
<1>1. ASSUME NEW T \in SUBSET S, \A U \in SUBSET T : U # T => U \in G
      PROVE  T \in G
  <2>1. CASE T = {}
    BY <2>1 DEF Folds
  <2>2. CASE T # {}
    <3>1. T \ {pick[T]} \in G
      BY <1>1, <2>2
    <3> QED BY <2>2, <3>1 DEF Folds
  <2> QED BY <2>1, <2>2
<1>2. SUBSET S \subseteq G
  <2> HIDE DEF G
  <2> QED BY <1>1, SubsetInduction
<1> QED BY <1>2

(* The recursion MapThenFoldSet is defined by has a solution: its CHOOSE   *)
(* picks one.                                                              *)
LEMMA FoldExists ==
  ASSUME NEW S, IsFiniteSet(S), NEW V, NEW base \in V, NEW step \in [S \X V -> V], NEW pick,
         \A s \in SUBSET S : s # {} => pick[s] \in s
  PROVE  \E h \in [SUBSET S -> V] : Folds(h, S, base, step, pick)
<1> DEFINE Sol(h, T) == h \in [SUBSET T -> V] /\ Folds(h, T, base, step, pick)
           G == {T \in SUBSET S : \E h : Sol(h, T)}
<1>1. ASSUME NEW T \in SUBSET S, \A U \in SUBSET T : U # T => U \in G
      PROVE  T \in G
  <2> DEFINE H(U) == CHOOSE h : Sol(h, U)
             c == pick[T]
             h == [s \in SUBSET T |-> IF s = {} THEN base
                                      ELSE step[<<pick[s], H(s \ {pick[s]})[s \ {pick[s]}]>>]]
  <2>1. ASSUME NEW U \in SUBSET T, U # T PROVE Sol(H(U), U)
    BY <1>1, <2>1
  <2>2. ASSUME NEW s \in SUBSET T, s # {}
        PROVE  /\ pick[s] \in s /\ s \ {pick[s]} \in SUBSET T /\ s \ {pick[s]} # T
               /\ H(s \ {pick[s]})[s \ {pick[s]}] \in V
    <3> DEFINE u == s \ {pick[s]}
    <3>1. pick[s] \in s /\ u \in SUBSET T /\ u # T
      BY <2>2
    <3>2. Sol(H(u), u)
      BY <2>1, <3>1
    <3>3. H(u) \in [SUBSET u -> V] /\ u \in SUBSET u
      BY <3>2
    <3> HIDE DEF H
    <3> QED BY <3>1, <3>3
  <2>3. h \in [SUBSET T -> V]
    <3> SUFFICES ASSUME NEW s \in SUBSET T, s # {}
                 PROVE  step[<<pick[s], H(s \ {pick[s]})[s \ {pick[s]}]>>] \in V
      OBVIOUS
    <3> HIDE DEF H
    <3>1. pick[s] \in S
      BY <2>2
    <3> QED BY <2>2, <3>1
  <2>4. ASSUME NEW u \in SUBSET T, u # T
        PROVE  h[u] = H(u)[u]
    <3>1. Sol(H(u), u)
      BY <2>1, <2>4
    <3>2. CASE u = {}
      BY <3>1, <3>2 DEF Folds
    <3>3. CASE u # {}
      <4> DEFINE v == u \ {pick[u]}
      <4>1. v \in SUBSET u /\ v # T /\ v \in SUBSET S /\ u \in SUBSET u
        BY <2>4, <3>3
      <4>2. H(u)[u] = step[<<pick[u], H(u)[v]>>]
        BY <3>1, <3>3, <4>1 DEF Folds
      <4>3. Folds(H(u), v, base, step, pick)
        BY <3>1, <4>1 DEF Folds
      <4>4. Folds(H(v), v, base, step, pick)
        BY <2>1, <4>1
      <4>5. IsFiniteSet(v) /\ \A s \in SUBSET v : s # {} => pick[s] \in s
        BY <4>1, FS_Subset
      <4>6. H(u)[v] = H(v)[v]
        <5> HIDE DEF H, v
        <5> QED BY <4>3, <4>4, <4>5, FoldUnique
      <4> QED BY <3>3, <4>2, <4>6
    <3> QED BY <3>2, <3>3
  <2>5. Folds(h, T, base, step, pick)
    <3>0. h[{}] = base
      BY Zenon
    <3>1. ASSUME NEW s \in SUBSET T, s # {}
          PROVE  h[s] = step[<<pick[s], h[s \ {pick[s]}]>>]
      <4> DEFINE u == s \ {pick[s]}
      <4>1. u \in SUBSET T /\ u # T
        BY <2>2, <3>1
      <4>2. h[u] = H(u)[u]
        <5> HIDE DEF h, u
        <5> QED BY <2>4, <4>1
      <4>3. h[s] = step[<<pick[s], H(u)[u]>>]
        <5> HIDE DEF H
        <5> QED BY <3>1
      <4> HIDE DEF h
      <4> QED BY <4>2, <4>3
    <3> HIDE DEF h
    <3> QED BY <3>0, <3>1 DEF Folds
  <2> QED BY <2>3, <2>5
<1>2. SUBSET S \subseteq G
  <2> HIDE DEF G
  <2> QED BY <1>1, SubsetInduction
<1> QED BY <1>2

(* The greatest of some numbers up to n is one of them.                    *)
LEMMA MaxIn ==
  ASSUME NEW n \in Nat, NEW s \in SUBSET (1 .. n), s # {}
  PROVE  Max(s) \in s
<1> DEFINE D == 1 .. n
           G == {T \in SUBSET D : T # {} => \E x \in T : \A y \in T : x >= y}
<1>0. IsFiniteSet(D)
  BY FS_Interval
<1>1. ASSUME NEW T \in SUBSET D, \A U \in SUBSET T : U # T => U \in G
      PROVE  T \in G
  <2> SUFFICES ASSUME NEW x \in T PROVE \E z \in T : \A y \in T : z >= y
    OBVIOUS
  <2> DEFINE U == T \ {x}
  <2>1. U \in G
    BY <1>1
  <2>2. CASE U = {}
    BY <2>2
  <2>3. CASE U # {}
    <3>1. PICK z \in U : \A y \in U : z >= y
      BY <2>1, <2>3
    <3>2. CASE x >= z
      BY <3>1, <3>2
    <3>3. CASE ~(x >= z)
      BY <3>1, <3>3
    <3> QED BY <3>2, <3>3
  <2> QED BY <2>2, <2>3
<1>2. SUBSET D \subseteq G
  <2> HIDE DEF G, D
  <2> QED BY <1>0, <1>1, SubsetInduction
<1>3. \E x \in s : \A y \in s : x >= y
  BY <1>2
<1> QED BY <1>3 DEF Max

(* FoldLeft takes the last index first, and there always is one.           *)
LEMMA MaxPicks ==
  ASSUME NEW n \in Nat
  PROVE  /\ IsFiniteSet(1 .. n)
         /\ \A s \in SUBSET (1 .. n) : s # {} => Max(s) \in s
<1>1. IsFiniteSet(1 .. n)
  BY FS_Interval
<1> QED BY <1>1, MaxIn

-----------------------------------------------------------------------------
(* One field after another                                                 *)

(* The fields of a process.                                                *)
LEMMA ProcessFields ==
  ASSUME NEW v \in Processes
  PROVE  /\ v.fg \in Seq(Requests) /\ v.bg \in Seq(Requests) /\ v.sent \subseteq Requests
         /\ v.timer \in BOOLEAN /\ v.due \in BOOLEAN /\ v.blocked \in BOOLEAN /\ v.refused \in BOOLEAN
         /\ v.queued \subseteq Parts /\ v.active \subseteq Parts /\ v.direct \subseteq Parts
         /\ v.imageOnly \subseteq Parts /\ v.imagesAsked \subseteq Parts /\ v.scheduled \in BOOLEAN
         /\ v.status \in [Parts -> {"none", "loaded", "unavailable"}]
         /\ v.dialog \in [Parts -> {"none", "pending", "complete", "retryable"}]
         /\ v.items \subseteq Items /\ v.asking \in Items \cup {None} /\ v.stale \in BOOLEAN
         /\ v.imageTimer \in BOOLEAN /\ v.fetching \subseteq Items /\ v.following \subseteq Items
         /\ v.skipped \subseteq Items /\ v.cached \subseteq Items /\ v.unavailable \subseteq Items
         /\ v.calls \in [Calls -> {"none", "waiting", "answered", "gone"}]
BY DEF Processes

(* The kinds of requests.                                                  *)
LEMMA RequestKinds ==
  ASSUME NEW r \in Requests
  PROVE  /\ r.page \in Nat
         /\ \/ r.call = "batch" /\ r.of \subseteq Parts /\ Claim(r) = {"batch"} \X r.of
            \/ r.call \in {"details", "search"} /\ r.of \in Parts /\ Claim(r) = {<<"direct", r.of>>}
            \/ r.call = "color" /\ r.of \in Items /\ Claim(r) = {<<"color", None>>}
            \/ r.call = "dialog" /\ r.of \in Calls /\ Claim(r) = {}
<1>1. r.page \in Nat
  BY DEF Requests
<1>2. CASE r \in [call : {"batch"}, of : SUBSET Parts, page : Nat]
  <2>1. r.call = "batch" /\ r.of \subseteq Parts
    BY <1>2
  <2>2. Claim(r) = {"batch"} \X r.of
    BY <2>1 DEF Claim
  <2> QED BY <1>1, <2>1, <2>2
<1>3. CASE r \in [call : {"details", "search"}, of : Parts, page : Nat]
  BY <1>1, <1>3 DEF Claim
<1>4. CASE r \in [call : {"color"}, of : Items, page : Nat]
  BY <1>1, <1>4 DEF Claim
<1>5. CASE r \in [call : {"dialog"}, of : Calls, page : Nat]
  BY <1>1, <1>5 DEF Claim
<1> QED BY <1>2, <1>3, <1>4, <1>5 DEF Requests

(* Queues, wire, timers and breaker of v are those of u.                   *)
Same(v, u) ==
  /\ u \in Processes
  /\ u.fg = v.fg /\ u.bg = v.bg /\ u.sent = v.sent
  /\ u.timer = v.timer /\ u.blocked = v.blocked /\ u.queued = v.queued /\ u.scheduled = v.scheduled
  /\ u.items = v.items

(* And so are the marks of the images.                                     *)
SameImages(v, u) ==
  u.asking = v.asking /\ u.imageTimer = v.imageTimer /\ u.following = v.following

(* The requests of the marks C end, and nothing else that matters here.    *)
Freed(v, u, C) ==
  /\ Same(v, u)
  /\ u.active \subseteq v.active
  /\ MarksOf(u) = MarksOf(v) \ C
  /\ Attended(v) => Attended(u)

(* The preview is told.                                                    *)
LEMMA FinishedSame ==
  ASSUME NEW v \in Processes, NEW P, NEW failed
  PROVE  LET u == Finished(v, P, failed)
         IN  Same(v, u) /\ SameImages(v, u) /\ u.active = v.active /\ u.direct = v.direct
<1> DEFINE d == [p \in Parts |->
                   IF p \in P /\ v.dialog[p] = "pending" THEN IF failed THEN "retryable" ELSE "complete"
                   ELSE v.dialog[p]]
<1>1. Finished(v, P, failed) = [v EXCEPT !.dialog = d]
  BY DEF Finished
<1>2. d \in [Parts -> {"none", "pending", "complete", "retryable"}]
  BY ProcessFields
<1> DEFINE u == [v EXCEPT !.dialog = d]
<1>3. Same(v, u) /\ SameImages(v, u) /\ u.active = v.active /\ u.direct = v.direct
  <2> HIDE DEF d
  <2> QED BY <1>2 DEF Processes, Same, SameImages
<1> HIDE DEF u, d
<1> QED BY <1>1, <1>3 DEF u

(* A dialog is answered.                                                   *)
LEMMA CallSame ==
  ASSUME NEW v \in Processes, NEW c \in Calls
  PROVE  LET u == CallAnswered(v, c)
         IN  Same(v, u) /\ SameImages(v, u) /\ u.active = v.active /\ u.direct = v.direct
<1> DEFINE d == [v.calls EXCEPT ![c] = "answered"]
<1>1. CallAnswered(v, c) = v \/ CallAnswered(v, c) = [v EXCEPT !.calls = d]
  BY DEF CallAnswered, Processes
<1>2. d \in [Calls -> {"none", "waiting", "answered", "gone"}]
  BY ProcessFields
<1> DEFINE u == [v EXCEPT !.calls = d]
<1>3. Same(v, u) /\ SameImages(v, u) /\ u.active = v.active /\ u.direct = v.direct
  <2> HIDE DEF d
  <2> QED BY <1>2 DEF Processes, Same, SameImages
<1>4. Same(v, v) /\ SameImages(v, v)
  BY DEF Same, SameImages
<1> HIDE DEF u
<1> QED BY <1>1, <1>3, <1>4 DEF u

(* A batch that failed is no longer under way.                             *)
LEMMA BatchEnds ==
  ASSUME NEW v \in Processes, NEW B
  PROVE  LET u == BatchFailed(v, B)
         IN  Same(v, u) /\ SameImages(v, u) /\ u.active = v.active \ B /\ u.direct = v.direct
<1> DEFINE a == v.active \ B
           i == v.imageOnly \ B
           v1 == [v EXCEPT !.active = a, !.imageOnly = i]
<1>1. BatchFailed(v, B) = Finished(v1, B \ v.imageOnly, TRUE)
  BY DEF BatchFailed, Processes
<1>2. a \subseteq Parts /\ i \subseteq Parts
  BY ProcessFields
<1>3. Same(v, v1) /\ SameImages(v, v1) /\ v1.active = a /\ v1.direct = v.direct
  <2> HIDE DEF a, i
  <2> QED BY <1>2 DEF Processes, Same, SameImages
<1> HIDE DEF v1
<1>4. v1 \in Processes
  BY <1>3 DEF Same
<1>5. LET u == Finished(v1, B \ v.imageOnly, TRUE)
      IN  Same(v1, u) /\ SameImages(v1, u) /\ u.active = v1.active /\ u.direct = v1.direct
  BY <1>4, FinishedSame
<1> QED BY <1>1, <1>3, <1>5 DEF Same, SameImages

(* The details of a Part are no longer under way.                          *)
LEMMA DetailsEnd ==
  ASSUME NEW v \in Processes, NEW p \in Parts, NEW outcome
  PROVE  LET u == HandleDetailsResult(v, p, outcome)
         IN  Same(v, u) /\ SameImages(v, u) /\ u.active = v.active /\ u.direct = v.direct \ {p}
<1>1. CASE p \notin v.direct
  BY <1>1 DEF HandleDetailsResult, Same, SameImages
<1>2. CASE p \in v.direct
  <2> DEFINE d == v.direct \ {p}
             n == CASE outcome = "loaded"  -> "loaded"
                    [] outcome = "missing" -> "unavailable"
                    [] OTHER -> v.status[p]
             s == [v.status EXCEPT ![p] = n]
             v1 == [v EXCEPT !.direct = d, !.status = s]
  <2>1. HandleDetailsResult(v, p, outcome) = Finished(v1, {p}, outcome \notin {"loaded", "missing"})
    BY <1>2 DEF HandleDetailsResult, Processes
  <2>2. n \in {"none", "loaded", "unavailable"}
    BY ProcessFields
  <2>3. d \subseteq Parts /\ s \in [Parts -> {"none", "loaded", "unavailable"}]
    <3> HIDE DEF n
    <3> QED BY <2>2, ProcessFields
  <2>4. Same(v, v1) /\ SameImages(v, v1) /\ v1.active = v.active /\ v1.direct = d
    <3> HIDE DEF d, s
    <3> QED BY <2>3 DEF Processes, Same, SameImages
  <2> HIDE DEF v1, s, n
  <2>5. v1 \in Processes
    BY <2>4 DEF Same
  <2> QED BY <2>1, <2>4, <2>5, FinishedSame DEF Same, SameImages
<1> QED BY <1>1, <1>2

(* The image queue is gone on with, if there is anything to go on with.    *)
LEMMA NextScheduled ==
  ASSUME NEW v \in Processes
  PROVE  LET u == ScheduleNext(v)
         IN  /\ Same(v, u) /\ u.asking = v.asking /\ u.following = v.following
             /\ u.active = v.active /\ u.direct = v.direct
             /\ u.items # {} /\ ~u.blocked => u.imageTimer
BY DEF ScheduleNext, Processes, Same

(* The image queue goes on after u, whether or not it did before.          *)
ImagesGoOn(u) == u.items # {} /\ ~u.blocked => u.imageTimer \/ u.asking # None \/ u.following # {}

(* An image that has been loaded.                                          *)
LEMMA ReadyGoesOn ==
  ASSUME NEW v \in Processes, NEW x \in Items
  PROVE  LET u == ImageReady(v, x)
         IN  /\ Same(v, u) /\ u.asking = v.asking /\ u.active = v.active /\ u.direct = v.direct
             /\ x \in v.following \/ ImagesGoOn(v) => ImagesGoOn(u)
<1> DEFINE f == v.fetching \ {x}
           o == v.following \ {x}
           k == v.cached \cup {x}
           v1 == [v EXCEPT !.fetching = f, !.following = o, !.cached = k]
<1>1. ImageReady(v, x) = IF x \in v.following THEN ScheduleNext(v1) ELSE v1
  BY DEF ImageReady, Processes
<1>2. f \subseteq Items /\ o \subseteq Items /\ k \subseteq Items
  BY ProcessFields
<1>3. /\ Same(v, v1) /\ v1.asking = v.asking /\ v1.active = v.active /\ v1.direct = v.direct
      /\ v1.following = o /\ v1.imageTimer = v.imageTimer
  <2> HIDE DEF f, o, k
  <2> QED BY <1>2 DEF Processes, Same
<1>4. v1 \in Processes
  BY <1>3 DEF Same
<1> HIDE DEF v1
<1>5. CASE x \in v.following
  BY <1>1, <1>3, <1>4, <1>5, NextScheduled DEF Same, ImagesGoOn
<1>6. CASE x \notin v.following
  <2>1. o = v.following
    BY <1>6
  <2> QED BY <1>1, <1>3, <1>6, <2>1 DEF Same, ImagesGoOn
<1> QED BY <1>5, <1>6

(* The answer about an image, whatever it says, of the present queue or of *)
(* one that was rebuilt: the image queue goes on.                          *)
LEMMA ColorEnds ==
  ASSUME NEW v \in Processes, NEW x \in Items, NEW outcome
  PROVE  LET u == ColorAnswered(v, x, outcome)
         IN  /\ Same(v, u) /\ u.asking = None /\ u.active = v.active /\ u.direct = v.direct
             /\ ImagesGoOn(u)
<1> DEFINE v1 == [v EXCEPT !.asking = None, !.stale = FALSE]
           Good(u) == /\ Same(v, u) /\ u.asking = None /\ u.active = v.active /\ u.direct = v.direct
                      /\ ImagesGoOn(u)
<1>1. /\ Same(v, v1) /\ v1.asking = None /\ v1.active = v.active /\ v1.direct = v.direct
      /\ v1 \in Processes
  BY DEF Processes, Same
<1> HIDE DEF v1
<1>2. ASSUME NEW t \in Processes, Same(v1, t), t.asking = None, t.active = v.active, t.direct = v.direct
      PROVE  Good(ScheduleNext(t))
  BY <1>1, <1>2, NextScheduled DEF Same, ImagesGoOn
<1>3. Good(ScheduleNext(v1))
  BY <1>1, <1>2 DEF Same
<1>4. Good(ScheduleNext([v1 EXCEPT !.skipped = @ \cup {x}]))
  <2> DEFINE n == v1.skipped \cup {x}
             t == [v1 EXCEPT !.skipped = n]
  <2>0. n \subseteq Items
    BY <1>1, ProcessFields
  <2>1. Same(v1, t) /\ t.asking = None /\ t.active = v.active /\ t.direct = v.direct /\ t \in Processes
    <3> HIDE DEF n
    <3> QED BY <1>1, <2>0 DEF Processes, Same
  <2>2. [v1 EXCEPT !.skipped = @ \cup {x}] = t
    BY <1>1 DEF Processes
  <2> HIDE DEF t, Good
  <2> QED BY <1>2, <2>1, <2>2
<1>5. Good(ScheduleNext([v1 EXCEPT !.unavailable = @ \cup {x}]))
  <2> DEFINE n == v1.unavailable \cup {x}
             t == [v1 EXCEPT !.unavailable = n]
  <2>0. n \subseteq Items
    BY <1>1, ProcessFields
  <2>1. Same(v1, t) /\ t.asking = None /\ t.active = v.active /\ t.direct = v.direct /\ t \in Processes
    <3> HIDE DEF n
    <3> QED BY <1>1, <2>0 DEF Processes, Same
  <2>2. [v1 EXCEPT !.unavailable = @ \cup {x}] = t
    BY <1>1 DEF Processes
  <2> HIDE DEF t, Good
  <2> QED BY <1>2, <2>1, <2>2
<1>6. Good(ImageReady([v1 EXCEPT !.following = @ \cup {x}], x))
  <2> DEFINE n == v1.following \cup {x}
             t == [v1 EXCEPT !.following = n]
  <2>0. n \subseteq Items /\ x \in n
    BY <1>1, ProcessFields
  <2>1. /\ Same(v1, t) /\ t.asking = None /\ t.active = v.active /\ t.direct = v.direct /\ t \in Processes
        /\ x \in t.following
    <3> HIDE DEF n
    <3> QED BY <1>1, <2>0 DEF Processes, Same
  <2>2. [v1 EXCEPT !.following = @ \cup {x}] = t
    BY <1>1 DEF Processes
  <2> HIDE DEF t
  <2>3. Good(ImageReady(t, x))
    BY <1>1, <2>1, ReadyGoesOn DEF Same
  <2> QED BY <2>2, <2>3
<1>7. Good([v1 EXCEPT !.following = @ \cup {x}, !.fetching = @ \cup {x}])
  <2> DEFINE n == v1.following \cup {x}
             f == v1.fetching \cup {x}
             t == [v1 EXCEPT !.following = n, !.fetching = f]
  <2>0. n \subseteq Items /\ x \in n /\ f \subseteq Items
    BY <1>1, ProcessFields
  <2>1. /\ Same(v1, t) /\ t.asking = None /\ t.active = v.active /\ t.direct = v.direct
        /\ x \in t.following
    <3> HIDE DEF n, f
    <3> QED BY <1>1, <2>0 DEF Processes, Same
  <2>2. [v1 EXCEPT !.following = @ \cup {x}, !.fetching = @ \cup {x}] = t
    BY <1>1 DEF Processes
  <2> HIDE DEF t
  <2> QED BY <1>1, <2>1, <2>2 DEF Same, ImagesGoOn
<1>8. Good(ColorAnswered(v, x, outcome))
  <2> HIDE DEF Good
  <2> QED BY <1>3, <1>4, <1>5, <1>6, <1>7 DEF ColorAnswered, v1
<1> QED BY <1>8

-----------------------------------------------------------------------------
(* Requests that end, and requests that are sent                           *)

(* Attendance is a matter of these fields.                                 *)
LEMMA SameAttended ==
  ASSUME NEW v, NEW u, Same(v, u), SameImages(v, u)
  PROVE  Attended(v) => Attended(u)
BY DEF Same, SameImages, Attended

(* A batch that is no longer under way.                                    *)
LEMMA BatchFreed ==
  ASSUME NEW v, NEW u, NEW B, Same(v, u), SameImages(v, u), u.active = v.active \ B, u.direct = v.direct
  PROVE  Freed(v, u, {"batch"} \X B)
<1>1. u.asking = v.asking
  BY DEF SameImages
<1>2. MarksOf(u) = MarksOf(v) \ ({"batch"} \X B)
  BY <1>1 DEF MarksOf
<1> QED BY <1>2, SameAttended DEF Freed

(* The answer about the details of a Part.                                 *)
LEMMA DetailsFreed ==
  ASSUME NEW v \in Processes, NEW p \in Parts, NEW outcome
  PROVE  Freed(v, HandleDetailsResult(v, p, outcome), {<<"direct", p>>})
<1> DEFINE u == HandleDetailsResult(v, p, outcome)
<1>1. Same(v, u) /\ SameImages(v, u) /\ u.active = v.active /\ u.direct = v.direct \ {p}
  BY DetailsEnd
<1> HIDE DEF u
<1>2. u.asking = v.asking
  BY <1>1 DEF SameImages
<1>3. MarksOf(u) = MarksOf(v) \ {<<"direct", p>>}
  BY <1>1, <1>2 DEF MarksOf
<1> QED BY <1>1, <1>3, SameAttended DEF Freed, u

(* The answer about an image.                                              *)
LEMMA ColorFreed ==
  ASSUME NEW v \in Processes, NEW x \in Items, NEW outcome
  PROVE  Freed(v, ColorAnswered(v, x, outcome), {<<"color", None>>})
<1> DEFINE u == ColorAnswered(v, x, outcome)
<1>1. /\ Same(v, u) /\ u.asking = None /\ u.active = v.active /\ u.direct = v.direct
      /\ ImagesGoOn(u)
  BY ColorEnds
<1> HIDE DEF u
<1>2. MarksOf(u) = MarksOf(v) \ {<<"color", None>>}
  BY <1>1 DEF MarksOf
<1>3. Attended(v) => Attended(u)
  BY <1>1 DEF Same, Attended, ImagesGoOn
<1> QED BY <1>1, <1>2, <1>3 DEF Freed, u

(* What changes no marks.                                                  *)
LEMMA NothingFreed ==
  ASSUME NEW v, NEW u, Same(v, u), SameImages(v, u), u.active = v.active, u.direct = v.direct
  PROVE  Freed(v, u, {})
<1>1. u.asking = v.asking
  BY DEF SameImages
<1>2. MarksOf(u) = MarksOf(v)
  BY <1>1 DEF MarksOf
<1> QED BY <1>2, SameAttended DEF Freed

(* A request that was not, or not successfully, sent gives its marks back. *)
LEMMA Unmarks ==
  ASSUME NEW v \in Processes, NEW r \in Requests
  PROVE  Freed(v, Unsuccessful(v, r), Claim(r))
<1>1. CASE r.call = "batch"
  <2>1. Unsuccessful(v, r) = BatchFailed(v, r.of) /\ Claim(r) = {"batch"} \X r.of
    BY <1>1, RequestKinds DEF Unsuccessful
  <2> DEFINE u == BatchFailed(v, r.of)
  <2>2. Same(v, u) /\ SameImages(v, u) /\ u.active = v.active \ r.of /\ u.direct = v.direct
    BY BatchEnds
  <2> HIDE DEF u
  <2>3. Freed(v, u, {"batch"} \X r.of)
    BY <2>2, BatchFreed
  <2> QED BY <2>1, <2>3 DEF u
<1>2. CASE r.call \in {"details", "search"}
  <2>1. /\ Unsuccessful(v, r) = HandleDetailsResult(v, r.of, "failed")
        /\ Claim(r) = {<<"direct", r.of>>} /\ r.of \in Parts
    BY <1>2, RequestKinds DEF Unsuccessful
  <2> QED BY <2>1, DetailsFreed
<1>3. CASE r.call = "color"
  <2>1. Unsuccessful(v, r) = ColorAnswered(v, r.of, "failed") /\ Claim(r) = {<<"color", None>>} /\ r.of \in Items
    BY <1>3, RequestKinds DEF Unsuccessful
  <2> QED BY <2>1, ColorFreed
<1>4. CASE r.call = "dialog"
  <2>1. Unsuccessful(v, r) = CallAnswered(v, r.of) /\ Claim(r) = {} /\ r.of \in Calls
    BY <1>4, RequestKinds DEF Unsuccessful
  <2> QED BY <2>1, CallSame, NothingFreed
<1> QED BY <1>1, <1>2, <1>3, <1>4, RequestKinds

(* Requests in hand may change, and marks with them, when queues and wire  *)
(* do not.                                                                 *)
LEMMA Rematched ==
  ASSUME NEW v, NEW u \in Processes, NEW K, NEW L, Matched(v, K),
         u.fg = v.fg, u.bg = v.bg, u.sent = v.sent, u.queued \cap u.active = {},
         L \subseteq MarksOf(u), MarksOf(u) \ L = MarksOf(v) \ K
  PROVE  Matched(u, L)
BY DEF Matched, Apart, Claimed, Covered

(* Marks of requests in hand are given back.                               *)
LEMMA FreedMatched ==
  ASSUME NEW v, NEW u, NEW K, NEW C, Matched(v, K), C \subseteq K, Freed(v, u, C)
  PROVE  Matched(u, K \ C)
<1>1. /\ u \in Processes /\ u.fg = v.fg /\ u.bg = v.bg /\ u.sent = v.sent /\ u.queued = v.queued
      /\ u.active \subseteq v.active /\ MarksOf(u) = MarksOf(v) \ C
  BY DEF Freed, Same
<1>2. K \subseteq MarksOf(v) /\ v.queued \cap v.active = {}
  BY DEF Matched
<1>3. K \ C \subseteq MarksOf(u) /\ MarksOf(u) \ (K \ C) = MarksOf(v) \ K /\ u.queued \cap u.active = {}
  BY <1>1, <1>2
<1> QED BY <1>1, <1>3, Rematched

(* Sequences, an element at a time.                                        *)
LEMMA Shortened ==
  ASSUME NEW S, NEW q \in Seq(S), q # <<>>
  PROVE  /\ Head(q) \in S /\ Tail(q) \in Seq(S)
         /\ 1 \in DOMAIN q /\ Head(q) = q[1]
         /\ \A i \in DOMAIN Tail(q) : i + 1 \in DOMAIN q /\ Tail(q)[i] = q[i + 1] /\ i \in Nat
         /\ \A i \in DOMAIN q : i = 1 \/ (i - 1 \in DOMAIN Tail(q) /\ Tail(q)[i - 1] = q[i])
<1>1. Len(q) \in Nat /\ Len(q) # 0 /\ DOMAIN q = 1 .. Len(q)
  OBVIOUS
<1>2. Tail(q) \in Seq(S) /\ Len(Tail(q)) = Len(q) - 1 /\ DOMAIN Tail(q) = 1 .. (Len(q) - 1)
  BY <1>1
<1>3. \A i \in 1 .. (Len(q) - 1) : Tail(q)[i] = q[i + 1]
  BY <1>1
<1> HIDE <1>3
<1>4. \A i \in DOMAIN Tail(q) : i + 1 \in DOMAIN q /\ Tail(q)[i] = q[i + 1] /\ i \in Nat
  BY <1>1, <1>2, <1>3
<1>5. \A i \in DOMAIN q : i = 1 \/ (i - 1 \in DOMAIN Tail(q) /\ Tail(q)[i - 1] = q[i])
  BY <1>1, <1>2, <1>3
<1>6. Head(q) \in S /\ 1 \in DOMAIN q /\ Head(q) = q[1]
  BY <1>1
<1> QED BY <1>2, <1>4, <1>5, <1>6

LEMMA Lengthened ==
  ASSUME NEW S, NEW q \in Seq(S), NEW e \in S
  PROVE  LET l == Append(q, e) IN
         /\ l \in Seq(S) /\ l # <<>>
         /\ \A i \in DOMAIN q : i \in DOMAIN l /\ l[i] = q[i]
         /\ \E n \in DOMAIN l : n \notin DOMAIN q /\ l[n] = e /\ \A i \in DOMAIN l : i = n \/ i \in DOMAIN q
<1>1. Append(q, e) \in Seq(S) /\ Len(Append(q, e)) = Len(q) + 1 /\ Len(q) \in Nat
  OBVIOUS
<1>2. DOMAIN q = 1 .. Len(q) /\ DOMAIN Append(q, e) = 1 .. (Len(q) + 1)
  BY <1>1
<1>3. \A i \in 1 .. Len(q) : Append(q, e)[i] = q[i]
  OBVIOUS
<1>4. Append(q, e)[Len(q) + 1] = e
  OBVIOUS
<1>5. Append(q, e) # <<>>
  BY <1>1
<1> QED BY <1>1, <1>2, <1>3, <1>4, <1>5

(* The first request of the foreground queue is sent, or is that of a      *)
(* dialog that is gone.                                                    *)
LEMMA ForegroundTaken ==
  ASSUME NEW v, NEW u \in Processes, NEW K, Matched(v, K), v.fg # <<>>,
         u.fg = Tail(v.fg), u.bg = v.bg,
         u.sent = v.sent \cup {Head(v.fg)} \/ (u.sent = v.sent /\ Claim(Head(v.fg)) = {}),
         u.queued = v.queued, u.active = v.active, MarksOf(u) = MarksOf(v)
  PROVE  Matched(u, K)
<1> DEFINE r == Head(v.fg)
<1>1. v.fg \in Seq(Requests)
  BY ProcessFields DEF Matched
<1>2. /\ 1 \in DOMAIN v.fg /\ r = v.fg[1]
      /\ \A i \in DOMAIN u.fg : i + 1 \in DOMAIN v.fg /\ u.fg[i] = v.fg[i + 1] /\ i \in Nat
      /\ \A i \in DOMAIN v.fg : i = 1 \/ (i - 1 \in DOMAIN u.fg /\ u.fg[i - 1] = v.fg[i])
  BY <1>1, Shortened
<1>3. \A i \in DOMAIN u.fg : i + 1 # 1 /\ \A j \in DOMAIN u.fg : i # j => i + 1 # j + 1
  BY <1>2
<1>4. \A s \in u.sent : s \in v.sent \/ s = r
  OBVIOUS
<1>5. \A s \in v.sent : s \in u.sent
  OBVIOUS
<1>6. r \in u.sent \/ Claim(r) = {}
  OBVIOUS
<1> HIDE DEF r
<1>7. Apart(u)
  <2>1. \A s, t \in u.sent : s # t => Disjoint(s, t)
    BY <1>2, <1>4 DEF Matched, Apart, Disjoint
  <2>2. \A i \in DOMAIN u.fg, j \in DOMAIN u.fg : i # j => Disjoint(u.fg[i], u.fg[j])
    BY <1>2, <1>3 DEF Matched, Apart
  <2>3. \A i \in DOMAIN u.fg, j \in DOMAIN u.bg : Disjoint(u.fg[i], u.bg[j])
    BY <1>2 DEF Matched, Apart
  <2>4. \A s \in u.sent, i \in DOMAIN u.fg : Disjoint(s, u.fg[i])
    BY <1>2, <1>3, <1>4 DEF Matched, Apart
  <2>5. \A s \in u.sent, i \in DOMAIN u.bg : Disjoint(s, u.bg[i])
    BY <1>2, <1>4 DEF Matched, Apart
  <2>6. \A i \in DOMAIN u.bg, j \in DOMAIN u.bg : i # j => Disjoint(u.bg[i], u.bg[j])
    BY DEF Matched, Apart
  <2> QED BY <2>1, <2>2, <2>3, <2>4, <2>5, <2>6 DEF Apart
<1>8. Claimed(u, MarksOf(u) \ K)
  BY <1>2, <1>4 DEF Matched, Claimed
<1>9. Covered(u, MarksOf(u) \ K)
  <2> SUFFICES ASSUME NEW m \in MarksOf(u) \ K
               PROVE  \/ \E s \in u.sent : m \in Claim(s)
                      \/ \E i \in DOMAIN u.fg : m \in Claim(u.fg[i])
                      \/ \E i \in DOMAIN u.bg : m \in Claim(u.bg[i])
    BY DEF Covered
  <2>1. \/ \E s \in v.sent : m \in Claim(s)
        \/ \E i \in DOMAIN v.fg : m \in Claim(v.fg[i])
        \/ \E i \in DOMAIN v.bg : m \in Claim(v.bg[i])
    BY DEF Matched, Covered
  <2>2. ASSUME NEW i \in DOMAIN v.fg, m \in Claim(v.fg[i])
        PROVE  (\E s \in u.sent : m \in Claim(s)) \/ (\E j \in DOMAIN u.fg : m \in Claim(u.fg[j]))
    BY <1>2, <1>6, <2>2
  <2> QED BY <1>5, <2>1, <2>2
<1> QED BY <1>7, <1>8, <1>9 DEF Matched

(* The same of the background queue.                                       *)
LEMMA BackgroundTaken ==
  ASSUME NEW v, NEW u \in Processes, NEW K, Matched(v, K), v.bg # <<>>,
         u.bg = Tail(v.bg), u.fg = v.fg,
         u.sent = v.sent \cup {Head(v.bg)} \/ (u.sent = v.sent /\ Claim(Head(v.bg)) = {}),
         u.queued = v.queued, u.active = v.active, MarksOf(u) = MarksOf(v)
  PROVE  Matched(u, K)
<1> DEFINE r == Head(v.bg)
<1>1. v.bg \in Seq(Requests)
  BY ProcessFields DEF Matched
<1>2. /\ 1 \in DOMAIN v.bg /\ r = v.bg[1]
      /\ \A i \in DOMAIN u.bg : i + 1 \in DOMAIN v.bg /\ u.bg[i] = v.bg[i + 1] /\ i \in Nat
      /\ \A i \in DOMAIN v.bg : i = 1 \/ (i - 1 \in DOMAIN u.bg /\ u.bg[i - 1] = v.bg[i])
  BY <1>1, Shortened
<1>3. \A i \in DOMAIN u.bg : i + 1 # 1 /\ \A j \in DOMAIN u.bg : i # j => i + 1 # j + 1
  BY <1>2
<1>4. \A s \in u.sent : s \in v.sent \/ s = r
  OBVIOUS
<1>5. \A s \in v.sent : s \in u.sent
  OBVIOUS
<1>6. r \in u.sent \/ Claim(r) = {}
  OBVIOUS
<1> HIDE DEF r
<1>7. Apart(u)
  <2>1. \A s, t \in u.sent : s # t => Disjoint(s, t)
    BY <1>2, <1>4 DEF Matched, Apart, Disjoint
  <2>2. \A i \in DOMAIN u.bg, j \in DOMAIN u.bg : i # j => Disjoint(u.bg[i], u.bg[j])
    BY <1>2, <1>3 DEF Matched, Apart
  <2>3. \A i \in DOMAIN u.fg, j \in DOMAIN u.bg : Disjoint(u.fg[i], u.bg[j])
    BY <1>2 DEF Matched, Apart
  <2>4. \A s \in u.sent, i \in DOMAIN u.bg : Disjoint(s, u.bg[i])
    BY <1>2, <1>3, <1>4 DEF Matched, Apart
  <2>5. \A s \in u.sent, i \in DOMAIN u.fg : Disjoint(s, u.fg[i])
    BY <1>2, <1>4 DEF Matched, Apart, Disjoint
  <2>6. \A i \in DOMAIN u.fg, j \in DOMAIN u.fg : i # j => Disjoint(u.fg[i], u.fg[j])
    BY DEF Matched, Apart
  <2> QED BY <2>1, <2>2, <2>3, <2>4, <2>5, <2>6 DEF Apart
<1>8. Claimed(u, MarksOf(u) \ K)
  BY <1>2, <1>4 DEF Matched, Claimed
<1>9. Covered(u, MarksOf(u) \ K)
  <2> SUFFICES ASSUME NEW m \in MarksOf(u) \ K
               PROVE  \/ \E s \in u.sent : m \in Claim(s)
                      \/ \E i \in DOMAIN u.fg : m \in Claim(u.fg[i])
                      \/ \E i \in DOMAIN u.bg : m \in Claim(u.bg[i])
    BY DEF Covered
  <2>1. \/ \E s \in v.sent : m \in Claim(s)
        \/ \E i \in DOMAIN v.fg : m \in Claim(v.fg[i])
        \/ \E i \in DOMAIN v.bg : m \in Claim(v.bg[i])
    BY DEF Matched, Covered
  <2>2. ASSUME NEW i \in DOMAIN v.bg, m \in Claim(v.bg[i])
        PROVE  (\E s \in u.sent : m \in Claim(s)) \/ (\E j \in DOMAIN u.bg : m \in Claim(u.bg[j]))
    BY <1>2, <1>6, <2>2
  <2> QED BY <1>5, <2>1, <2>2
<1> QED BY <1>7, <1>8, <1>9 DEF Matched

(* A request in hand goes to the end of a queue.                           *)
LEMMA ForegroundQueued ==
  ASSUME NEW v, NEW u \in Processes, NEW r \in Requests, Matched(v, Claim(r)),
         u.fg = Append(v.fg, r), u.bg = v.bg, u.sent = v.sent,
         u.queued = v.queued, u.active = v.active, MarksOf(u) = MarksOf(v)
  PROVE  Matched(u, {})
<1>1. v.fg \in Seq(Requests)
  BY ProcessFields DEF Matched
<1>2. /\ \A i \in DOMAIN v.fg : i \in DOMAIN u.fg /\ u.fg[i] = v.fg[i]
      /\ \E n \in DOMAIN u.fg : n \notin DOMAIN v.fg /\ u.fg[n] = r /\ \A i \in DOMAIN u.fg : i = n \/ i \in DOMAIN v.fg
  BY <1>1, Lengthened
<1>3. PICK n \in DOMAIN u.fg : n \notin DOMAIN v.fg /\ u.fg[n] = r /\ \A i \in DOMAIN u.fg : i = n \/ i \in DOMAIN v.fg
  BY <1>2
<1>4. /\ \A s \in v.sent : Claim(s) \subseteq MarksOf(u) \ Claim(r)
      /\ \A i \in DOMAIN v.fg : Claim(v.fg[i]) \subseteq MarksOf(u) \ Claim(r)
      /\ \A i \in DOMAIN v.bg : Claim(v.bg[i]) \subseteq MarksOf(u) \ Claim(r)
      /\ Claim(r) \subseteq MarksOf(u)
  BY DEF Matched, Claimed
<1>5. /\ \A s \in v.sent : Disjoint(s, r)
      /\ \A i \in DOMAIN v.fg : Disjoint(v.fg[i], r) /\ Disjoint(r, v.fg[i])
      /\ \A i \in DOMAIN v.bg : Disjoint(r, v.bg[i])
  BY <1>4 DEF Disjoint
<1>6. \A i \in DOMAIN u.fg : u.fg[i] = IF i = n THEN r ELSE v.fg[i]
  BY <1>2, <1>3
<1>7. Apart(u)
  <2>1. \A s, t \in u.sent : s # t => Disjoint(s, t)
    BY DEF Matched, Apart
  <2>2. \A i \in DOMAIN u.fg, j \in DOMAIN u.fg : i # j => Disjoint(u.fg[i], u.fg[j])
    BY <1>2, <1>3, <1>5 DEF Matched, Apart
  <2>3. \A i \in DOMAIN u.fg, j \in DOMAIN u.bg : Disjoint(u.fg[i], u.bg[j])
    BY <1>2, <1>3, <1>5 DEF Matched, Apart
  <2>4. \A s \in u.sent, i \in DOMAIN u.fg : Disjoint(s, u.fg[i])
    BY <1>2, <1>3, <1>5 DEF Matched, Apart
  <2>5. \A s \in u.sent, i \in DOMAIN u.bg : Disjoint(s, u.bg[i])
    BY DEF Matched, Apart
  <2>6. \A i \in DOMAIN u.bg, j \in DOMAIN u.bg : i # j => Disjoint(u.bg[i], u.bg[j])
    BY DEF Matched, Apart
  <2> QED BY <2>1, <2>2, <2>3, <2>4, <2>5, <2>6 DEF Apart
<1>8. Claimed(u, MarksOf(u) \ {})
  BY <1>2, <1>3, <1>4 DEF Claimed
<1>9. Covered(u, MarksOf(u) \ {})
  <2> SUFFICES ASSUME NEW m \in MarksOf(u)
               PROVE  \/ \E s \in u.sent : m \in Claim(s)
                      \/ \E i \in DOMAIN u.fg : m \in Claim(u.fg[i])
                      \/ \E i \in DOMAIN u.bg : m \in Claim(u.bg[i])
    BY DEF Covered
  <2>1. CASE m \in Claim(r)
    BY <1>3, <2>1
  <2>2. CASE m \notin Claim(r)
    <3>1. \/ \E s \in v.sent : m \in Claim(s)
          \/ \E i \in DOMAIN v.fg : m \in Claim(v.fg[i])
          \/ \E i \in DOMAIN v.bg : m \in Claim(v.bg[i])
      BY <2>2 DEF Matched, Covered
    <3> QED BY <1>2, <3>1
  <2> QED BY <2>1, <2>2
<1> QED BY <1>7, <1>8, <1>9 DEF Matched

(* The same of the background queue.                                       *)
LEMMA BackgroundQueued ==
  ASSUME NEW v, NEW u \in Processes, NEW r \in Requests, Matched(v, Claim(r)),
         u.bg = Append(v.bg, r), u.fg = v.fg, u.sent = v.sent,
         u.queued = v.queued, u.active = v.active, MarksOf(u) = MarksOf(v)
  PROVE  Matched(u, {})
<1>1. v.bg \in Seq(Requests)
  BY ProcessFields DEF Matched
<1>2. /\ \A i \in DOMAIN v.bg : i \in DOMAIN u.bg /\ u.bg[i] = v.bg[i]
      /\ \E n \in DOMAIN u.bg : n \notin DOMAIN v.bg /\ u.bg[n] = r /\ \A i \in DOMAIN u.bg : i = n \/ i \in DOMAIN v.bg
  BY <1>1, Lengthened
<1>3. PICK n \in DOMAIN u.bg : n \notin DOMAIN v.bg /\ u.bg[n] = r /\ \A i \in DOMAIN u.bg : i = n \/ i \in DOMAIN v.bg
  BY <1>2
<1>4. /\ \A s \in v.sent : Claim(s) \subseteq MarksOf(u) \ Claim(r)
      /\ \A i \in DOMAIN v.fg : Claim(v.fg[i]) \subseteq MarksOf(u) \ Claim(r)
      /\ \A i \in DOMAIN v.bg : Claim(v.bg[i]) \subseteq MarksOf(u) \ Claim(r)
      /\ Claim(r) \subseteq MarksOf(u)
  BY DEF Matched, Claimed
<1>5. /\ \A s \in v.sent : Disjoint(s, r)
      /\ \A i \in DOMAIN v.fg : Disjoint(v.fg[i], r)
      /\ \A i \in DOMAIN v.bg : Disjoint(v.bg[i], r) /\ Disjoint(r, v.bg[i])
  BY <1>4 DEF Disjoint
<1>7. Apart(u)
  <2>1. \A s, t \in u.sent : s # t => Disjoint(s, t)
    BY DEF Matched, Apart
  <2>2. \A i \in DOMAIN u.bg, j \in DOMAIN u.bg : i # j => Disjoint(u.bg[i], u.bg[j])
    BY <1>2, <1>3, <1>5 DEF Matched, Apart
  <2>3. \A i \in DOMAIN u.fg, j \in DOMAIN u.bg : Disjoint(u.fg[i], u.bg[j])
    BY <1>2, <1>3, <1>5 DEF Matched, Apart
  <2>4. \A s \in u.sent, i \in DOMAIN u.bg : Disjoint(s, u.bg[i])
    BY <1>2, <1>3, <1>5 DEF Matched, Apart
  <2>5. \A s \in u.sent, i \in DOMAIN u.fg : Disjoint(s, u.fg[i])
    BY DEF Matched, Apart
  <2>6. \A i \in DOMAIN u.fg, j \in DOMAIN u.fg : i # j => Disjoint(u.fg[i], u.fg[j])
    BY DEF Matched, Apart
  <2> QED BY <2>1, <2>2, <2>3, <2>4, <2>5, <2>6 DEF Apart
<1>8. Claimed(u, MarksOf(u) \ {})
  BY <1>2, <1>3, <1>4 DEF Claimed
<1>9. Covered(u, MarksOf(u) \ {})
  <2> SUFFICES ASSUME NEW m \in MarksOf(u)
               PROVE  \/ \E s \in u.sent : m \in Claim(s)
                      \/ \E i \in DOMAIN u.fg : m \in Claim(u.fg[i])
                      \/ \E i \in DOMAIN u.bg : m \in Claim(u.bg[i])
    BY DEF Covered
  <2>1. CASE m \in Claim(r)
    BY <1>3, <2>1
  <2>2. CASE m \notin Claim(r)
    <3>1. \/ \E s \in v.sent : m \in Claim(s)
          \/ \E i \in DOMAIN v.fg : m \in Claim(v.fg[i])
          \/ \E i \in DOMAIN v.bg : m \in Claim(v.bg[i])
      BY <2>2 DEF Matched, Covered
    <3> QED BY <1>2, <3>1
  <2> QED BY <2>1, <2>2
<1> QED BY <1>7, <1>8, <1>9 DEF Matched

-----------------------------------------------------------------------------
(* The request timer's step                                                *)

(* The users' part of a process, as far as it matters here.                *)
SameUsers(v, u) ==
  /\ u.blocked = v.blocked /\ u.queued = v.queued /\ u.scheduled = v.scheduled /\ u.items = v.items
  /\ u.active = v.active /\ u.direct = v.direct /\ SameImages(v, u)

(* Marks and attendance are the users' part.                               *)
LEMMA SameUsersSame ==
  ASSUME NEW v, NEW u, SameUsers(v, u)
  PROVE  MarksOf(u) = MarksOf(v) /\ (Attended(v) => Attended(u))
BY DEF SameUsers, SameImages, MarksOf, Attended

(* A request is sent, unless its dialog is gone.                           *)
LEMMA SentOrGone ==
  ASSUME NEW v \in Processes, NEW r \in Requests
  PROVE  LET u == Sent(v, r)
         IN  /\ u \in Processes /\ SameUsers(v, u) /\ u.fg = v.fg /\ u.bg = v.bg
             /\ u.timer = v.timer
             /\ u.sent = v.sent \cup {r} \/ (u.sent = v.sent /\ Claim(r) = {})
<1> DEFINE s == v.sent \cup {r}
           v1 == [v EXCEPT !.sent = s]
<1>1. Sent(v, r) = IF r.call = "dialog" /\ v.calls[r.of] # "waiting" THEN v ELSE v1
  BY DEF Sent, Processes
<1>2. s \subseteq Requests
  BY ProcessFields
<1>3. v1 \in Processes /\ SameUsers(v, v1) /\ v1.fg = v.fg /\ v1.bg = v.bg /\ v1.timer = v.timer /\ v1.sent = s
  <2> HIDE DEF s
  <2> QED BY <1>2 DEF Processes, SameUsers, SameImages
<1>4. SameUsers(v, v)
  BY DEF SameUsers, SameImages
<1>5. r.call = "dialog" => Claim(r) = {}
  BY RequestKinds
<1> HIDE DEF v1
<1> QED BY <1>1, <1>3, <1>4, <1>5

(* The next request leaves its queue.                                      *)
LEMMA NextSentMatched ==
  ASSUME NEW v, NEW K, Matched(v, K), v.fg # <<>> \/ v.bg # <<>>
  PROVE  LET u == NextSent(v)
         IN  Matched(u, K) /\ SameUsers(v, u) /\ u.timer = v.timer
<1> DEFINE u == NextSent(v)
<1>0. v \in Processes /\ v.fg \in Seq(Requests) /\ v.bg \in Seq(Requests)
  BY ProcessFields DEF Matched
<1>1. CASE v.fg # <<>>
  <2> DEFINE q == Tail(v.fg)
             v1 == [v EXCEPT !.fg = q, !.due = FALSE]
             r == Head(v.fg)
  <2>1. u = Sent(v1, r)
    BY <1>0, <1>1 DEF NextSent, Processes
  <2>2. q \in Seq(Requests) /\ r \in Requests
    BY <1>0, <1>1, Shortened
  <2>3. /\ v1 \in Processes /\ v1.fg = q /\ v1.bg = v.bg /\ v1.sent = v.sent /\ v1.timer = v.timer
        /\ SameUsers(v, v1)
    <3> HIDE DEF q
    <3> QED BY <1>0, <2>2 DEF Processes, SameUsers, SameImages
  <2> HIDE DEF v1, r, u
  <2>4. /\ u \in Processes /\ SameUsers(v1, u) /\ u.fg = v1.fg /\ u.bg = v1.bg
        /\ u.timer = v1.timer
        /\ u.sent = v1.sent \cup {r} \/ (u.sent = v1.sent /\ Claim(r) = {})
    BY <2>1, <2>2, <2>3, SentOrGone
  <2>5. SameUsers(v, u)
    BY <2>3, <2>4 DEF SameUsers, SameImages
  <2>6. MarksOf(u) = MarksOf(v) /\ u.queued = v.queued /\ u.active = v.active
    BY <2>5, SameUsersSame DEF SameUsers
  <2>7. Matched(u, K)
    BY <1>1, <2>3, <2>4, <2>6, ForegroundTaken DEF r
  <2> QED BY <2>3, <2>4, <2>5, <2>7 DEF u
<1>2. CASE v.fg = <<>>
  <2> DEFINE q == Tail(v.bg)
             v1 == [v EXCEPT !.bg = q, !.due = FALSE]
             r == Head(v.bg)
  <2>1. u = Sent(v1, r)
    BY <1>0, <1>2 DEF NextSent, Processes
  <2>2. q \in Seq(Requests) /\ r \in Requests
    BY <1>0, <1>2, Shortened
  <2>3. /\ v1 \in Processes /\ v1.bg = q /\ v1.fg = v.fg /\ v1.sent = v.sent /\ v1.timer = v.timer
        /\ SameUsers(v, v1)
    <3> HIDE DEF q
    <3> QED BY <1>0, <2>2 DEF Processes, SameUsers, SameImages
  <2> HIDE DEF v1, r, u
  <2>4. /\ u \in Processes /\ SameUsers(v1, u) /\ u.fg = v1.fg /\ u.bg = v1.bg
        /\ u.timer = v1.timer
        /\ u.sent = v1.sent \cup {r} \/ (u.sent = v1.sent /\ Claim(r) = {})
    BY <2>1, <2>2, <2>3, SentOrGone
  <2>5. SameUsers(v, u)
    BY <2>3, <2>4 DEF SameUsers, SameImages
  <2>6. MarksOf(u) = MarksOf(v) /\ u.queued = v.queued /\ u.active = v.active
    BY <2>5, SameUsersSame DEF SameUsers
  <2>7. Matched(u, K)
    BY <1>2, <2>3, <2>4, <2>6, BackgroundTaken DEF r
  <2> QED BY <2>3, <2>4, <2>5, <2>7 DEF u
<1> QED BY <1>1, <1>2

(* Marks are given back in turn.                                           *)
LEMMA FreedInTurn ==
  ASSUME NEW v, NEW u, NEW t, NEW C, NEW D, Freed(v, u, C), Freed(u, t, D)
  PROVE  Freed(v, t, C \cup D)
BY DEF Freed, Same

(* c holds the elements of q, and those of t.                              *)
Joins(c, q, t, S) ==
  /\ DOMAIN c = 1 .. Len(c) /\ Len(c) \in Nat
  /\ \A i \in DOMAIN c : c[i] \in S
  /\ \A i \in DOMAIN c : (\E j \in DOMAIN q : c[i] = q[j]) \/ (\E j \in DOMAIN t : c[i] = t[j])
  /\ \A j \in DOMAIN q : \E i \in DOMAIN c : c[i] = q[j]
  /\ \A j \in DOMAIN t : \E i \in DOMAIN c : c[i] = t[j]

(* The requests of both queues.                                            *)
LEMMA Joined ==
  ASSUME NEW S, NEW q \in Seq(S), NEW t \in Seq(S)
  PROVE  Joins(q \o t, q, t, S)
<1> DEFINE c == q \o t
           m == Len(q)
           n == Len(t)
<1>1. m \in Nat /\ n \in Nat /\ DOMAIN q = 1 .. m /\ DOMAIN t = 1 .. n
  OBVIOUS
<1>2. c \in Seq(S) /\ Len(c) = m + n /\ DOMAIN c = 1 .. Len(c)
  OBVIOUS
<1>3. \A i \in 1 .. (m + n) : c[i] = IF i <= m THEN q[i] ELSE t[i - m]
  OBVIOUS
<1>4. \A i \in DOMAIN c : c[i] \in S
  BY <1>2
<1> HIDE DEF c, m, n
<1>5. ASSUME NEW i \in DOMAIN c
      PROVE  (\E j \in DOMAIN q : c[i] = q[j]) \/ (\E j \in DOMAIN t : c[i] = t[j])
  <2>1. CASE i <= m
    <3>1. i \in DOMAIN q /\ c[i] = q[i]
      BY <1>1, <1>2, <1>3, <2>1
    <3> QED BY <3>1
  <2>2. CASE ~(i <= m)
    <3>1. i - m \in DOMAIN t /\ c[i] = t[i - m]
      BY <1>1, <1>2, <1>3, <2>2
    <3> QED BY <3>1
  <2> QED BY <2>1, <2>2
<1>6. ASSUME NEW j \in DOMAIN q PROVE \E i \in DOMAIN c : c[i] = q[j]
  <2>1. j \in DOMAIN c /\ c[j] = q[j]
    BY <1>1, <1>2, <1>3
  <2> QED BY <2>1
<1>7. ASSUME NEW j \in DOMAIN t PROVE \E i \in DOMAIN c : c[i] = t[j]
  <2>1. j + m \in DOMAIN c /\ c[j + m] = t[j]
    BY <1>1, <1>2, <1>3
  <2> QED BY <2>1
<1>8. Len(c) \in Nat /\ DOMAIN c = 1 .. Len(c)
  BY <1>1, <1>2
<1>9. Joins(c, q, t, S)
  BY <1>4, <1>5, <1>6, <1>7, <1>8 DEF Joins
<1> QED BY <1>9 DEF c

(* The requests of a sequence end one after another, each giving back its  *)
(* marks.                                                                  *)
LEMMA UnmarksAll ==
  ASSUME NEW v \in Processes, NEW n \in Nat, NEW q, DOMAIN q = 1 .. n,
         \A i \in DOMAIN q : q[i] \in Requests
  PROVE  Freed(v, FoldLeft(Unsuccessful, v, q), UNION {Claim(q[i]) : i \in DOMAIN q})
<1> DEFINE D == 1 .. n
           V == Processes
           pick == [s \in SUBSET D |-> Max(s)]
           step == [xv \in D \X V |-> Unsuccessful(xv[2], q[xv[1]])]
           Iter(h) == h = [s \in SUBSET D |-> IF s = {} THEN v
                             ELSE Unsuccessful(h[s \ {Max(s)}], q[Max(s)])]
           it == CHOOSE h : Iter(h)
<1>1. IsFiniteSet(D) /\ \A s \in SUBSET D : s # {} => Max(s) \in s
  BY MaxPicks
<1>2. FoldLeft(Unsuccessful, v, q) = it[D]
  BY DEF FoldLeft, MapThenFoldSet
<1>3. ASSUME NEW x \in D, NEW u \in V PROVE Unsuccessful(u, q[x]) \in V /\ Freed(u, Unsuccessful(u, q[x]), Claim(q[x]))
  BY Unmarks DEF Freed, Same
<1> HIDE DEF V
<1>4. step \in [D \X V -> V] /\ v \in V
  BY <1>3 DEF V
<1>5. \A s \in SUBSET D : s # {} => pick[s] \in s
  BY <1>1
<1>6. PICK h \in [SUBSET D -> V] : Folds(h, D, v, step, pick)
  <2> HIDE DEF D, step, pick
  <2> QED BY <1>1, <1>4, <1>5, FoldExists
<1>7. Iter(h)
  <2> SUFFICES ASSUME NEW s \in SUBSET D
               PROVE  h[s] = IF s = {} THEN v ELSE Unsuccessful(h[s \ {Max(s)}], q[Max(s)])
    BY <1>6
  <2>1. CASE s = {}
    BY <1>6, <2>1 DEF Folds
  <2>2. CASE s # {}
    <3> DEFINE x == Max(s)
               u == h[s \ {x}]
    <3>1. h[s] = step[<<x, u>>]
      BY <1>6, <2>2 DEF Folds
    <3>2. u \in V /\ x \in D
      BY <1>1, <1>6, <2>2
    <3> HIDE DEF x, u
    <3>3. step[<<x, u>>] = Unsuccessful(u, q[x])
      BY <3>2
    <3> QED BY <2>2, <3>1, <3>3 DEF x, u
  <2> QED BY <2>1, <2>2
<1>8. Iter(it)
  BY <1>7
<1> HIDE DEF it
<1> DEFINE C(s) == UNION {Claim(q[i]) : i \in s}
           G == {s \in SUBSET D : it[s] \in V /\ Freed(v, it[s], C(s))}
<1>9. ASSUME NEW T \in SUBSET D, \A U \in SUBSET T : U # T => U \in G
      PROVE  T \in G
  <2>1. CASE T = {}
    <3>1. it[T] = v
      BY <1>8, <2>1
    <3>2. MarksOf(v) \ C(T) = MarksOf(v)
      BY <2>1
    <3>3. Freed(v, v, C(T))
      BY <1>4, <3>2 DEF Freed, Same, V
    <3> QED BY <1>4, <3>1, <3>3
  <2>2. CASE T # {}
    <3> DEFINE x == Max(T)
               U == T \ {x}
    <3>1. x \in D /\ x \in T /\ U \in G
      BY <1>1, <1>9, <2>2
    <3>2. it[T] = Unsuccessful(it[U], q[x])
      BY <1>8, <2>2
    <3> HIDE DEF x
    <3>3. Freed(it[U], it[T], Claim(q[x])) /\ it[T] \in V
      BY <1>3, <3>1, <3>2
    <3>4. C(T) = C(U) \cup Claim(q[x])
      BY <3>1
    <3>5. Freed(v, it[U], C(U))
      BY <3>1
    <3>6. Freed(v, it[T], C(T))
      <4> HIDE DEF C, U
      <4> QED BY <3>3, <3>4, <3>5, FreedInTurn
    <3> QED BY <3>3, <3>6
  <2> QED BY <2>1, <2>2
<1>10. SUBSET D \subseteq G
  <2> HIDE DEF D, G
  <2> QED BY <1>1, <1>9, SubsetInduction
<1> QED BY <1>2, <1>10

(* Once the breaker has tripped, every request that waits is answered: it  *)
(* gives its marks back, and those of the requests on the wire are left.   *)
LEMMA DrainedMatched ==
  ASSUME NEW v, Matched(v, {})
  PROVE  LET u == Drained(v)
         IN  Matched(u, {}) /\ u.fg = <<>> /\ u.bg = <<>> /\ (Attended(v) => Attended(u))
<1> DEFINE q == v.fg \o v.bg
           v0 == [v EXCEPT !.fg = <<>>, !.bg = <<>>]
           C == UNION {Claim(q[i]) : i \in DOMAIN q}
           u == FoldLeft(Unsuccessful, v0, q)
<1>1. Drained(v) = u
  BY DEF Drained
<1>2. v \in Processes /\ v.fg \in Seq(Requests) /\ v.bg \in Seq(Requests)
  BY ProcessFields DEF Matched
<1>3. /\ v0 \in Processes /\ v0.fg = <<>> /\ v0.bg = <<>> /\ v0.sent = v.sent /\ SameUsers(v, v0)
  <2>1. <<>> \in Seq(Requests)
    OBVIOUS
  <2> QED BY <1>2, <2>1 DEF Processes, SameUsers, SameImages
<1>4. Joins(q, v.fg, v.bg, Requests)
  BY <1>2, Joined, Zenon
<1> HIDE DEF q, v0
<1>5. Freed(v0, u, C)
  <2> HIDE DEF u
  <2>1. Len(q) \in Nat /\ DOMAIN q = 1 .. Len(q) /\ \A i \in DOMAIN q : q[i] \in Requests
    BY <1>4 DEF Joins
  <2> QED BY <1>3, <2>1, UnmarksAll DEF u
<1>6. /\ MarksOf(v0) = MarksOf(v) /\ (Attended(v) => Attended(v0)) /\ v0.queued = v.queued /\ v0.active = v.active
  BY <1>3, SameUsersSame DEF SameUsers
<1>7. \A m : m \in C <=> \/ \E j \in DOMAIN v.fg : m \in Claim(v.fg[j])
                         \/ \E j \in DOMAIN v.bg : m \in Claim(v.bg[j])
  BY <1>4 DEF Joins
<1> HIDE DEF u, C
<1>8. /\ u \in Processes /\ u.fg = <<>> /\ u.bg = <<>> /\ u.sent = v.sent /\ u.queued = v.queued
      /\ u.active \subseteq v.active /\ MarksOf(u) = MarksOf(v) \ C
  BY <1>3, <1>5, <1>6 DEF Freed, Same
<1>9. Apart(u)
  BY <1>8 DEF Matched, Apart
<1>10. Claimed(u, MarksOf(u) \ {})
  <2>1. ASSUME NEW r \in v.sent PROVE Claim(r) \subseteq MarksOf(u)
    <3>1. Claim(r) \cap C = {}
      BY <1>7 DEF Matched, Apart, Disjoint
    <3>2. Claim(r) \subseteq MarksOf(v)
      BY DEF Matched, Claimed
    <3> QED BY <1>8, <3>1, <3>2
  <2> QED BY <1>8, <2>1 DEF Claimed
<1>11. Covered(u, MarksOf(u) \ {})
  BY <1>7, <1>8 DEF Matched, Covered
<1>12. u.queued \cap u.active = {}
  BY <1>8 DEF Matched
<1>13. Attended(v) => Attended(u)
  BY <1>5, <1>6 DEF Freed
<1> QED BY <1>1, <1>8, <1>9, <1>10, <1>11, <1>12, <1>13 DEF Matched

(* The queues are processed: by the timer, or as a request is queued.      *)
LEMMA QueueProcessed ==
  ASSUME NEW v, Matched(v, {})
  PROVE  LET u == ProcessRequestQueue(v)
         IN  Matched(u, {}) /\ Timed(u) /\ (Attended(v) => Attended(u))
<1>1. v \in Processes
  BY DEF Matched
<1>2. CASE v.fg = <<>> /\ v.bg = <<>>
  BY <1>2 DEF ProcessRequestQueue, Timed
<1>3. CASE ~(v.fg = <<>> /\ v.bg = <<>>) /\ v.blocked
  <2>1. ProcessRequestQueue(v) = Drained(v)
    BY <1>3 DEF ProcessRequestQueue
  <2> QED BY <2>1, DrainedMatched DEF Timed
<1>4. CASE ~(v.fg = <<>> /\ v.bg = <<>>) /\ ~v.blocked /\ ~v.due
  <2> DEFINE u == [v EXCEPT !.timer = TRUE]
  <2>1. ProcessRequestQueue(v) = u
    BY <1>4 DEF ProcessRequestQueue
  <2>2. /\ u \in Processes /\ u.fg = v.fg /\ u.bg = v.bg /\ u.sent = v.sent /\ u.timer
        /\ SameUsers(v, u)
    BY <1>1 DEF Processes, SameUsers, SameImages
  <2> HIDE DEF u
  <2>3. MarksOf(u) = MarksOf(v) /\ (Attended(v) => Attended(u)) /\ u.queued \cap u.active = {}
    BY <2>2, SameUsersSame DEF SameUsers, Matched
  <2>4. Matched(u, {})
    BY <2>2, <2>3, Rematched
  <2> QED BY <2>1, <2>2, <2>3, <2>4 DEF Timed
<1>5. CASE ~(v.fg = <<>> /\ v.bg = <<>>) /\ ~v.blocked /\ v.due
  <2> DEFINE v1 == NextSent(v)
             t == v1.timer \/ v1.fg # <<>> \/ v1.bg # <<>>
             u == [v1 EXCEPT !.timer = t]
  <2>1. Matched(v1, {}) /\ SameUsers(v, v1)
    BY <1>5, NextSentMatched
  <2>2. v1 \in Processes
    BY <2>1 DEF Matched
  <2>3. ProcessRequestQueue(v) = u
    BY <1>5, <2>2 DEF ProcessRequestQueue, Processes
  <2> HIDE DEF v1
  <2>4. t \in BOOLEAN
    BY <2>2, ProcessFields
  <2>5. /\ u \in Processes /\ u.fg = v1.fg /\ u.bg = v1.bg /\ u.sent = v1.sent /\ u.timer = t
        /\ SameUsers(v1, u)
    <3> HIDE DEF t
    <3> QED BY <2>2, <2>4 DEF Processes, SameUsers, SameImages
  <2> HIDE DEF u
  <2>6. Timed(u)
    BY <2>5 DEF Timed
  <2>7. MarksOf(u) = MarksOf(v1) /\ (Attended(v1) => Attended(u)) /\ u.queued \cap u.active = {}
    BY <2>1, <2>5, SameUsersSame DEF SameUsers, Matched
  <2>8. Matched(u, {})
    BY <2>1, <2>5, <2>7, Rematched
  <2>9. Attended(v) => Attended(v1)
    BY <2>1, SameUsersSame
  <2> QED BY <2>3, <2>6, <2>7, <2>8, <2>9
<1> QED BY <1>2, <1>3, <1>4, <1>5

(* A request in hand is queued, and the queues are processed at once.      *)
LEMMA EnqueueKept ==
  ASSUME NEW v, NEW r \in Requests, Matched(v, Claim(r)), Attended(v), NEW foreground \in BOOLEAN
  PROVE  Kept(Enqueue(v, r, foreground))
<1>0. v \in Processes /\ v.fg \in Seq(Requests) /\ v.bg \in Seq(Requests)
  BY ProcessFields DEF Matched
<1>1. CASE foreground
  <2> DEFINE q == Append(v.fg, r)
             u == [v EXCEPT !.fg = q]
  <2>1. Enqueue(v, r, foreground) = ProcessRequestQueue(u)
    BY <1>0, <1>1 DEF Enqueue, Processes
  <2>2. q \in Seq(Requests)
    BY <1>0, Lengthened
  <2>3. u \in Processes /\ u.fg = q /\ u.bg = v.bg /\ u.sent = v.sent /\ SameUsers(v, u)
    <3> HIDE DEF q
    <3> QED BY <1>0, <2>2 DEF Processes, SameUsers, SameImages
  <2> HIDE DEF u
  <2>4. MarksOf(u) = MarksOf(v) /\ u.queued = v.queued /\ u.active = v.active /\ Attended(u)
    BY <2>3, SameUsersSame DEF SameUsers
  <2>5. Matched(u, {})
    BY <2>3, <2>4, ForegroundQueued
  <2> QED BY <2>1, <2>4, <2>5, QueueProcessed DEF Kept
<1>2. CASE ~foreground
  <2> DEFINE q == Append(v.bg, r)
             u == [v EXCEPT !.bg = q]
  <2>1. Enqueue(v, r, foreground) = ProcessRequestQueue(u)
    BY <1>0, <1>2 DEF Enqueue, Processes
  <2>2. q \in Seq(Requests)
    BY <1>0, Lengthened
  <2>3. u \in Processes /\ u.fg = v.fg /\ u.bg = q /\ u.sent = v.sent /\ SameUsers(v, u)
    <3> HIDE DEF q
    <3> QED BY <1>0, <2>2 DEF Processes, SameUsers, SameImages
  <2> HIDE DEF u
  <2>4. MarksOf(u) = MarksOf(v) /\ u.queued = v.queued /\ u.active = v.active /\ Attended(u)
    BY <2>3, SameUsersSame DEF SameUsers
  <2>5. Matched(u, {})
    BY <2>3, <2>4, BackgroundQueued
  <2> QED BY <2>1, <2>4, <2>5, QueueProcessed DEF Kept
<1> QED BY <1>1, <1>2

-----------------------------------------------------------------------------
(* The calls, and the answers to them                                      *)

(* The request in hand ends.                                               *)
LEMMA FreedKept ==
  ASSUME NEW v, NEW u, NEW K, Matched(v, K), Timed(v), Attended(v), Freed(v, u, K)
  PROVE  Kept(u)
<1>1. Matched(u, K \ K)
  BY FreedMatched
<1>2. K \ K = {}
  OBVIOUS
<1>3. Timed(u) /\ Attended(u)
  BY DEF Freed, Same, Timed
<1> QED BY <1>1, <1>2, <1>3 DEF Kept

(* Requests of every kind.                                                 *)
LEMMA RequestOf ==
  ASSUME NEW page \in Nat
  PROVE  /\ \A B \in SUBSET Parts : /\ Request("batch", B, page) \in Requests
                                    /\ Claim(Request("batch", B, page)) = {"batch"} \X B
         /\ \A p \in Parts : /\ Request("details", p, page) \in Requests
                             /\ Claim(Request("details", p, page)) = {<<"direct", p>>}
                             /\ Request("search", p, page) \in Requests
                             /\ Claim(Request("search", p, page)) = {<<"direct", p>>}
         /\ \A x \in Items : /\ Request("color", x, page) \in Requests
                             /\ Claim(Request("color", x, page)) = {<<"color", None>>}
         /\ \A c \in Calls : /\ Request("dialog", c, page) \in Requests
                             /\ Claim(Request("dialog", c, page)) = {}
<1>1. ASSUME NEW B \in SUBSET Parts
      PROVE  /\ Request("batch", B, page) \in Requests
             /\ Claim(Request("batch", B, page)) = {"batch"} \X B
  <2> DEFINE r == Request("batch", B, page)
  <2>1. r \in Requests /\ r.call = "batch" /\ r.of = B
    BY DEF Request, Requests
  <2> HIDE DEF r
  <2>2. Claim(r) = {"batch"} \X B
    BY <2>1, RequestKinds
  <2> QED BY <2>1, <2>2 DEF r
<1>2. ASSUME NEW p \in Parts
      PROVE  /\ Request("details", p, page) \in Requests
             /\ Claim(Request("details", p, page)) = {<<"direct", p>>}
             /\ Request("search", p, page) \in Requests
             /\ Claim(Request("search", p, page)) = {<<"direct", p>>}
  BY DEF Request, Requests, Claim
<1>3. ASSUME NEW x \in Items
      PROVE  /\ Request("color", x, page) \in Requests
             /\ Claim(Request("color", x, page)) = {<<"color", None>>}
  BY DEF Request, Requests, Claim
<1>4. ASSUME NEW c \in Calls
      PROVE  /\ Request("dialog", c, page) \in Requests
             /\ Claim(Request("dialog", c, page)) = {}
  BY DEF Request, Requests, Claim
<1> QED BY <1>1, <1>2, <1>3, <1>4

(* A page of a dialog's call.                                              *)
LEMMA PageKept ==
  ASSUME NEW v, Kept(v), NEW c \in Calls, NEW page \in Nat
  PROVE  Kept(RequestPage(v, c, page))
<1>1. CASE page > MaxPages
  <2>1. RequestPage(v, c, page) = CallAnswered(v, c) /\ v \in Processes
    BY <1>1 DEF RequestPage, Kept, Matched
  <2>2. Freed(v, CallAnswered(v, c), {})
    BY <2>1, CallSame, NothingFreed
  <2> QED BY <2>1, <2>2, FreedKept DEF Kept
<1>2. CASE ~(page > MaxPages)
  <2>1. RequestPage(v, c, page) = Enqueue(v, Request("dialog", c, page), TRUE)
    BY <1>2 DEF RequestPage
  <2>2. Request("dialog", c, page) \in Requests /\ Claim(Request("dialog", c, page)) = {}
    BY RequestOf
  <2> QED BY <2>1, <2>2, EnqueueKept DEF Kept
<1> QED BY <1>1, <1>2

(* A Part is looked up by itself.                                          *)
LEMMA DirectKept ==
  ASSUME NEW v, Kept(v), NEW p \in Parts
  PROVE  Kept(RequestDirectDetails(v, p))
<1>0. v \in Processes
  BY DEF Kept, Matched
<1>1. CASE p \in v.direct
  BY <1>1 DEF RequestDirectDetails
<1>2. CASE p \notin v.direct /\ ~(key /\ ~v.blocked)
  <2>1. RequestDirectDetails(v, p) = Finished(v, {p}, TRUE)
    BY <1>2 DEF RequestDirectDetails
  <2>2. Freed(v, Finished(v, {p}, TRUE), {})
    BY <1>0, FinishedSame, NothingFreed
  <2> QED BY <2>1, <2>2, FreedKept DEF Kept
<1>3. CASE p \notin v.direct /\ key /\ ~v.blocked
  <2> DEFINE d == v.direct \cup {p}
             u == [v EXCEPT !.direct = d]
             r == Request("details", p, 1)
  <2>1. RequestDirectDetails(v, p) = Enqueue(u, r, FALSE)
    BY <1>0, <1>3 DEF RequestDirectDetails, GetPartDetails, Processes
  <2>2. d \subseteq Parts
    BY <1>0, ProcessFields
  <2>3. /\ u \in Processes /\ u.fg = v.fg /\ u.bg = v.bg /\ u.sent = v.sent /\ u.direct = d
        /\ u.active = v.active /\ u.asking = v.asking /\ u.queued = v.queued
        /\ (Attended(v) => Attended(u))
    <3> HIDE DEF d
    <3> QED BY <1>0, <2>2 DEF Processes, Attended
  <2>4. r \in Requests /\ Claim(r) = {<<"direct", p>>}
    BY RequestOf
  <2> HIDE DEF u, r
  <2>5. MarksOf(u) = MarksOf(v) \cup {<<"direct", p>>}
    BY <2>3 DEF MarksOf
  <2>6. <<"direct", p>> \notin MarksOf(v)
    BY <1>3 DEF MarksOf
  <2>7. Matched(u, Claim(r))
    <3>1. Claim(r) \subseteq MarksOf(u) /\ MarksOf(u) \ Claim(r) = MarksOf(v) \ {}
      BY <2>4, <2>5, <2>6
    <3>2. u.queued \cap u.active = {} /\ Matched(v, {})
      BY <2>3 DEF Kept, Matched
    <3> QED BY <2>3, <3>1, <3>2, Rematched
  <2> QED BY <2>1, <2>3, <2>4, <2>7, EnqueueKept DEF Kept
<1> QED BY <1>1, <1>2, <1>3

(* The sequence of a finite set.                                           *)
LEMMA SequenceOf ==
  ASSUME NEW S, IsFiniteSet(S)
  PROVE  Cardinality(S) \in Nat /\ SetToSeq(S) \in [1 .. Cardinality(S) -> S]
<1>1. Cardinality(S) \in Nat /\ ExistsBijection(1 .. Cardinality(S), S)
  BY FS_CardinalityType
<1>2. \E f \in [1 .. Cardinality(S) -> S] : IsInjective(f)
  BY <1>1 DEF ExistsBijection, Bijection, Injection
<1> QED BY <1>1, <1>2 DEF SetToSeq

(* Parts that are looked up by themselves, one after another.              *)
LEMMA DirectsKept ==
  ASSUME NEW v, Kept(v), NEW n \in Nat, NEW q \in [1 .. n -> Parts]
  PROVE  Kept(FoldLeft(RequestDirectDetails, v, q))
<1> DEFINE D == 1 .. n
           V == {u \in Processes : Kept(u)}
           pick == [s \in SUBSET D |-> Max(s)]
           step == [xv \in D \X V |-> RequestDirectDetails(xv[2], q[xv[1]])]
           Iter(h) == h = [s \in SUBSET D |-> IF s = {} THEN v
                             ELSE RequestDirectDetails(h[s \ {Max(s)}], q[Max(s)])]
           it == CHOOSE h : Iter(h)
<1>1. IsFiniteSet(D) /\ \A s \in SUBSET D : s # {} => Max(s) \in s
  BY MaxPicks
<1>2. FoldLeft(RequestDirectDetails, v, q) = it[D]
  <2>1. DOMAIN q = D
    OBVIOUS
  <2> QED BY <2>1 DEF FoldLeft, MapThenFoldSet
<1>3. ASSUME NEW x \in D, NEW u \in V PROVE RequestDirectDetails(u, q[x]) \in V
  <2>1. Kept(u) /\ q[x] \in Parts
    OBVIOUS
  <2>2. Kept(RequestDirectDetails(u, q[x]))
    BY <2>1, DirectKept
  <2> QED BY <2>2 DEF Kept, Matched
<1>4. v \in V
  BY DEF Kept, Matched
<1>5. \A u \in V : Kept(u)
  OBVIOUS
<1> HIDE DEF V
<1>6. step \in [D \X V -> V]
  BY <1>3
<1>7. \A s \in SUBSET D : s # {} => pick[s] \in s
  BY <1>1
<1>8. PICK h \in [SUBSET D -> V] : Folds(h, D, v, step, pick)
  <2> HIDE DEF D, step, pick
  <2> QED BY <1>1, <1>4, <1>6, <1>7, FoldExists
<1>9. Iter(h)
  <2> SUFFICES ASSUME NEW s \in SUBSET D
               PROVE  h[s] = IF s = {} THEN v ELSE RequestDirectDetails(h[s \ {Max(s)}], q[Max(s)])
    BY <1>8
  <2>1. CASE s = {}
    BY <1>8, <2>1 DEF Folds
  <2>2. CASE s # {}
    <3> DEFINE x == Max(s)
               u == h[s \ {x}]
    <3>1. h[s] = step[<<x, u>>]
      BY <1>8, <2>2 DEF Folds
    <3>2. u \in V /\ x \in D
      BY <1>1, <1>8, <2>2
    <3> HIDE DEF x, u
    <3>3. step[<<x, u>>] = RequestDirectDetails(u, q[x])
      BY <3>2
    <3> QED BY <2>2, <3>1, <3>3 DEF x, u
  <2> QED BY <2>1, <2>2
<1>10. Iter(it)
  BY <1>9
<1> HIDE DEF it
<1> DEFINE G == {s \in SUBSET D : it[s] \in V}
<1>11. ASSUME NEW T \in SUBSET D, \A U \in SUBSET T : U # T => U \in G
       PROVE  T \in G
  <2>1. CASE T = {}
    BY <1>4, <1>10, <2>1
  <2>2. CASE T # {}
    <3>1. Max(T) \in D /\ it[T \ {Max(T)}] \in V
      BY <1>1, <1>11, <2>2
    <3>2. it[T] = RequestDirectDetails(it[T \ {Max(T)}], q[Max(T)])
      BY <1>10, <2>2
    <3> QED BY <1>3, <3>1, <3>2
  <2> QED BY <2>1, <2>2
<1>12. SUBSET D \subseteq G
  <2> HIDE DEF D, G
  <2> QED BY <1>1, <1>11, SubsetInduction
<1> QED BY <1>2, <1>5, <1>12

(* The answer about a batch.                                               *)
LEMMA BatchKept ==
  ASSUME NEW v, NEW B \in SUBSET Parts, Matched(v, {"batch"} \X B), Timed(v), Attended(v), NEW of
  PROVE  Kept(BatchAnswered(v, B, of))
<1> DEFINE asked == B \ v.imageOnly
           direct == {p \in asked \cap Printed : of[p] \in {"linkless", "absent"}}
           a == v.active \ B
           i == v.imageOnly \ B
           s == [p \in Parts |->
                   IF p \in asked /\ of[p] \in {"loaded", "linkless"} THEN "loaded"
                   ELSE IF p \in asked \ direct /\ of[p] = "absent" THEN "unavailable"
                   ELSE v.status[p]]
           v1 == [v EXCEPT !.active = a, !.imageOnly = i, !.status = s]
           known == {p \in asked \ direct : of[p] # "unsaved"}
           unsaved == {p \in asked : of[p] = "unsaved"}
           v2 == Finished(v1, known, FALSE)
           v3 == Finished(v2, unsaved, TRUE)
<1>0. v \in Processes
  BY DEF Matched
<1>1. BatchAnswered(v, B, of) = FoldLeft(RequestDirectDetails, v3, SetToSeq(direct))
  BY <1>0 DEF BatchAnswered, Processes
<1>2. a \subseteq Parts /\ i \subseteq Parts
  BY <1>0, ProcessFields
<1>3. s \in [Parts -> {"none", "loaded", "unavailable"}]
  BY <1>0, ProcessFields
<1>4. direct \subseteq Parts /\ IsFiniteSet(direct)
  <2>1. direct \subseteq Parts
    OBVIOUS
  <2> QED BY <2>1, RequestsAssumption, FS_Subset
<1>5. Same(v, v1) /\ SameImages(v, v1) /\ v1.active = a /\ v1.direct = v.direct
  <2> HIDE DEF a, i, s
  <2> QED BY <1>0, <1>2, <1>3 DEF Processes, Same, SameImages
<1> HIDE DEF v1, s, i, direct, known, unsaved
<1>6. v1 \in Processes /\ Freed(v, v1, {"batch"} \X B)
  BY <1>5, BatchFreed DEF Same
<1>7. Kept(v1)
  BY <1>6, FreedKept
<1>8. Kept(v2)
  BY <1>6, <1>7, FinishedSame, NothingFreed, FreedKept DEF Kept
<1> HIDE DEF v2
<1>9. Kept(v3)
  <2>1. v2 \in Processes
    BY <1>8 DEF Kept, Matched
  <2> QED BY <1>8, <2>1, FinishedSame, NothingFreed, FreedKept DEF Kept
<1> HIDE DEF v3
<1>10. PICK n \in Nat : SetToSeq(direct) \in [1 .. n -> Parts]
  <2>1. Cardinality(direct) \in Nat /\ SetToSeq(direct) \in [1 .. Cardinality(direct) -> direct]
    BY <1>4, SequenceOf
  <2> QED BY <1>4, <2>1
<1> QED BY <1>1, <1>9, <1>10, DirectsKept

(* Whatever Rebrickable answers.                                           *)
LEMMA AnsweredKept ==
  ASSUME NEW v, NEW r \in Requests, Matched(v, Claim(r)), Timed(v), Attended(v), NEW answer
  PROVE  Kept(Answered(v, r, answer))
<1>0. v \in Processes
  BY DEF Matched
<1>1. CASE r.call = "batch"
  <2>1. r.of \in SUBSET Parts /\ Claim(r) = {"batch"} \X r.of /\ Answered(v, r, answer) = BatchAnswered(v, r.of, answer)
    BY <1>1, RequestKinds DEF Answered
  <2> QED BY <2>1, BatchKept
<1>2. CASE r.call = "details" /\ answer = "missing"
  <2> DEFINE s == Request("search", r.of, 1)
  <2>1. /\ r.of \in Parts /\ Claim(r) = {<<"direct", r.of>>}
        /\ Answered(v, r, answer) = Enqueue(v, s, TRUE)
    BY <1>2, RequestKinds DEF Answered, SearchPartByExternalId
  <2>2. s \in Requests /\ Claim(s) = Claim(r)
    BY <2>1, RequestOf
  <2> HIDE DEF s
  <2> QED BY <2>1, <2>2, EnqueueKept
<1>3. CASE r.call = "search" \/ (r.call = "details" /\ answer # "missing")
  <2>1. /\ r.of \in Parts /\ Claim(r) = {<<"direct", r.of>>}
        /\ Answered(v, r, answer) = HandleDetailsResult(v, r.of, answer)
    BY <1>3, RequestKinds DEF Answered
  <2> QED BY <1>0, <2>1, DetailsFreed, FreedKept
<1>4. CASE r.call = "color"
  <2>1. /\ r.of \in Items /\ Claim(r) = {<<"color", None>>}
        /\ Answered(v, r, answer) = ColorAnswered(v, r.of, answer)
    BY <1>4, RequestKinds DEF Answered
  <2> QED BY <1>0, <2>1, ColorFreed, FreedKept
<1>5. CASE r.call = "dialog" /\ answer = "more"
  <2>1. /\ r.of \in Calls /\ Claim(r) = {} /\ r.page + 1 \in Nat
        /\ Answered(v, r, answer) = RequestPage(v, r.of, r.page + 1)
    BY <1>5, RequestKinds DEF Answered
  <2> QED BY <2>1, PageKept DEF Kept
<1>6. CASE r.call = "dialog" /\ answer # "more"
  <2>1. r.of \in Calls /\ Claim(r) = {} /\ Answered(v, r, answer) = CallAnswered(v, r.of)
    BY <1>6, RequestKinds DEF Answered
  <2> QED BY <1>0, <2>1, CallSame, NothingFreed, FreedKept
<1> QED BY <1>1, <1>2, <1>3, <1>4, <1>5, <1>6, RequestKinds

-----------------------------------------------------------------------------
(* The steps: queues and wire                                              *)

(* The timer fires, or is set off anew.                                    *)
LEMMA TimeoutSteps ==
  ASSUME Kept(w), RequestTimeout
  PROVE  Kept(w')
<1> DEFINE u == [w EXCEPT !.timer = FALSE]
<1>1. w' = ProcessRequestQueue(u) /\ w \in Processes
  BY DEF RequestTimeout, Kept, Matched
<1>2. u \in Processes /\ u.fg = w.fg /\ u.bg = w.bg /\ u.sent = w.sent /\ SameUsers(w, u)
  BY <1>1 DEF Processes, SameUsers, SameImages
<1> HIDE DEF u
<1>3. MarksOf(u) = MarksOf(w) /\ Attended(u) /\ u.queued \cap u.active = {}
  BY <1>2, SameUsersSame DEF SameUsers, Kept, Matched
<1>4. Matched(u, {})
  BY <1>2, <1>3, Rematched DEF Kept
<1> QED BY <1>1, <1>3, <1>4, QueueProcessed DEF Kept

(* The clock.                                                              *)
LEMMA ClockKept ==
  ASSUME NEW v, Kept(v), NEW due \in BOOLEAN
  PROVE  Kept([v EXCEPT !.due = due])
<1> DEFINE u == [v EXCEPT !.due = due]
<1>1. v \in Processes
  BY DEF Kept, Matched
<1>2. Same(v, u) /\ SameImages(v, u) /\ u.active = v.active /\ u.direct = v.direct
  BY <1>1 DEF Processes, Same, SameImages
<1> HIDE DEF u
<1>3. Kept(u)
  BY <1>2, NothingFreed, FreedKept DEF Kept
<1> QED BY <1>3 DEF u

(* The interval passes.                                                    *)
LEMMA IntervalSteps ==
  ASSUME Kept(w), IntervalPasses
  PROVE  Kept(w')
BY ClockKept DEF IntervalPasses

(* The interval is changed.                                                *)
LEMMA CoordinationSteps ==
  ASSUME Kept(w), SetCoordinationMinimumInterval
  PROVE  Kept(w')
<1>1. PICK due \in BOOLEAN : w' = ProcessRequestQueue([w EXCEPT !.due = due])
  BY DEF SetCoordinationMinimumInterval
<1>2. Kept([w EXCEPT !.due = due])
  BY ClockKept
<1> QED BY <1>1, <1>2, QueueProcessed DEF Kept

(* A request leaves the wire.                                              *)
LEMMA ArrivedMatched ==
  ASSUME Kept(w), NEW r \in w.sent
  PROVE  LET u == Arrived(r)
         IN  r \in Requests /\ Matched(u, Claim(r)) /\ Timed(u) /\ Attended(u)
<1> DEFINE s == w.sent \ {r}
           u == [w EXCEPT !.sent = s]
<1>1. w \in Processes /\ r \in Requests
  BY ProcessFields DEF Kept, Matched
<1>2. Arrived(r) = u
  BY <1>1 DEF Arrived, Processes
<1>3. s \subseteq Requests
  BY <1>1, ProcessFields
<1>4. u \in Processes /\ u.fg = w.fg /\ u.bg = w.bg /\ u.sent = s /\ u.timer = w.timer /\ SameUsers(w, u)
  <2> HIDE DEF s
  <2> QED BY <1>1, <1>3 DEF Processes, SameUsers, SameImages
<1> HIDE DEF u
<1>5. MarksOf(u) = MarksOf(w) /\ Attended(u) /\ u.queued \cap u.active = {}
  BY <1>4, SameUsersSame DEF SameUsers, Kept, Matched
<1>6. Timed(u)
  BY <1>4 DEF Kept, Timed
<1>7. Apart(w) /\ Claimed(w, MarksOf(w)) /\ Covered(w, MarksOf(w))
  <2>1. MarksOf(w) \ {} = MarksOf(w)
    OBVIOUS
  <2> QED BY <2>1 DEF Kept, Matched
<1>8. Claim(r) \subseteq MarksOf(u)
  BY <1>5, <1>7 DEF Claimed
<1>9. Apart(u)
  BY <1>4, <1>7 DEF Apart
<1>10. Claimed(u, MarksOf(u) \ Claim(r))
  BY <1>4, <1>5, <1>7 DEF Claimed, Apart, Disjoint
<1>11. Covered(u, MarksOf(u) \ Claim(r))
  BY <1>4, <1>5, <1>7 DEF Covered
<1> QED BY <1>1, <1>2, <1>4, <1>5, <1>6, <1>8, <1>9, <1>10, <1>11 DEF Matched

(* Rebrickable answers.                                                    *)
LEMMA ReplySteps ==
  ASSUME Kept(w), NEW r \in w.sent, Reply(r)
  PROVE  Kept(w')
BY ArrivedMatched, AnsweredKept DEF Reply

(* A request fails.                                                        *)
LEMMA FailureSteps ==
  ASSUME Kept(w), NEW r \in w.sent, ReplyFails(r)
  PROVE  Kept(w')
<1>1. r \in Requests /\ Matched(Arrived(r), Claim(r)) /\ Timed(Arrived(r)) /\ Attended(Arrived(r))
  BY ArrivedMatched
<1>2. Freed(Arrived(r), w', Claim(r))
  BY <1>1, Unmarks DEF ReplyFails, Matched
<1> QED BY <1>1, <1>2, FreedKept

(* Rebrickable refuses a request, which trips the breaker.                 *)
LEMMA RefusalSteps ==
  ASSUME Kept(w), NEW r \in w.sent, ReplyRefuses(r)
  PROVE  Kept(w')
<1> DEFINE v == Arrived(r)
           v1 == [v EXCEPT !.refused = TRUE]
           v2 == [v1 EXCEPT !.blocked = TRUE]
           u == IF r.call = "search" THEN v1 ELSE v2
<1>1. r \in Requests /\ Matched(v, Claim(r)) /\ Timed(v) /\ Attended(v)
  BY ArrivedMatched
<1>2. w' = Unsuccessful(u, r)
  BY DEF ReplyRefuses, TripSessionCircuitBreaker
<1> HIDE DEF v
<1>3. v \in Processes
  BY <1>1 DEF Matched
<1>4. /\ u \in Processes /\ u.fg = v.fg /\ u.bg = v.bg /\ u.sent = v.sent /\ u.timer = v.timer
      /\ u.queued = v.queued /\ u.active = v.active /\ u.direct = v.direct /\ u.asking = v.asking
      /\ (Attended(v) => Attended(u))
  <2>1. v1 \in Processes
    BY <1>3 DEF Processes
  <2>2. v2 \in Processes
    BY <2>1 DEF Processes
  <2>3. CASE r.call = "search"
    BY <1>3, <2>1, <2>3 DEF Processes, Attended
  <2>4. CASE r.call # "search"
    BY <1>3, <2>2, <2>4 DEF Processes, Attended
  <2> QED BY <2>3, <2>4
<1> HIDE DEF u
<1>5. MarksOf(u) = MarksOf(v) /\ Timed(u) /\ u.queued \cap u.active = {} /\ Claim(r) \subseteq MarksOf(u)
  BY <1>1, <1>4 DEF MarksOf, Timed, Matched
<1>6. Matched(u, Claim(r))
  BY <1>1, <1>4, <1>5, Rematched
<1>7. Freed(u, w', Claim(r))
  BY <1>1, <1>2, <1>4, Unmarks
<1> QED BY <1>1, <1>4, <1>5, <1>6, <1>7, FreedKept

-----------------------------------------------------------------------------
(* The steps: lookups of identities                                        *)

(* What changes neither queues, nor wire, nor marks.                       *)
LEMMA SameWireKept ==
  ASSUME NEW v, Kept(v), NEW u \in Processes,
         u.fg = v.fg, u.bg = v.bg, u.sent = v.sent, u.timer = v.timer,
         u.active = v.active, u.direct = v.direct, u.asking = v.asking,
         u.queued \cap u.active = {}, Attended(u)
  PROVE  Kept(u)
<1>1. MarksOf(u) = MarksOf(v)
  BY DEF MarksOf
<1>2. Matched(u, {})
  BY <1>1, Rematched DEF Kept
<1> QED BY <1>2 DEF Kept, Timed

(* Parts that are not resolved, queued or under way are queued.            *)
LEMMA EnsureKept ==
  ASSUME NEW v, Kept(v), NEW P \in SUBSET Parts
  PROVE  Kept(EnsureExternalIds(v, P))
<1> DEFINE new == {p \in P \ (v.queued \cup v.active \cup v.direct) : v.status[p] = "none"}
           q == v.queued \cup new
           s == v.scheduled \/ new # {}
           u == [v EXCEPT !.queued = q, !.scheduled = s]
<1>1. v \in Processes
  BY DEF Kept, Matched
<1>2. EnsureExternalIds(v, P) = u
  BY <1>1 DEF EnsureExternalIds, Processes
<1>3. q \subseteq Parts /\ s \in BOOLEAN
  BY <1>1, ProcessFields
<1>4. /\ u \in Processes /\ u.fg = v.fg /\ u.bg = v.bg /\ u.sent = v.sent /\ u.timer = v.timer
      /\ u.active = v.active /\ u.direct = v.direct /\ SameImages(v, u) /\ u.queued = q /\ u.scheduled = s
      /\ u.items = v.items /\ u.blocked = v.blocked
  <2> HIDE DEF q, s
  <2> QED BY <1>1, <1>3 DEF Processes, SameImages
<1> HIDE DEF u
<1>5. q \cap v.active = {}
  BY DEF Kept, Matched
<1>6. q # {} => s
  BY DEF Kept, Attended
<1> HIDE DEF q, s
<1>7. Attended(u)
  BY <1>4, <1>6 DEF Kept, Attended, SameImages
<1>8. u.asking = v.asking
  BY <1>4 DEF SameImages
<1> QED BY <1>2, <1>4, <1>5, <1>7, <1>8, SameWireKept

(* A Part number is seen.                                                  *)
LEMMA BrowseSteps ==
  ASSUME Kept(w), NEW p \in Parts, BrowsePart(p)
  PROVE  Kept(w')
BY EnsureKept DEF BrowsePart

(* The image of a Part is asked for.                                       *)
LEMMA MetadataSteps ==
  ASSUME Kept(w), NEW p \in Parts, EnsureGeneralImageMetadata(p)
  PROVE  Kept(w')
<1> DEFINE a == w.imagesAsked \cup {p}
           o == w.imageOnly \cup {p}
           q == w.queued \cup {p}
           u == [w EXCEPT !.imagesAsked = a, !.imageOnly = o, !.queued = q, !.scheduled = TRUE]
<1>1. w \in Processes
  BY DEF Kept, Matched
<1>2. w' = u
  BY <1>1 DEF EnsureGeneralImageMetadata, Processes
<1>3. a \subseteq Parts /\ o \subseteq Parts /\ q \subseteq Parts
  BY <1>1, ProcessFields
<1>4. /\ u \in Processes /\ u.fg = w.fg /\ u.bg = w.bg /\ u.sent = w.sent /\ u.timer = w.timer
      /\ u.active = w.active /\ u.direct = w.direct /\ SameImages(w, u) /\ u.queued = q /\ u.scheduled = TRUE
      /\ u.items = w.items /\ u.blocked = w.blocked
  <2> HIDE DEF a, o, q
  <2> QED BY <1>1, <1>3 DEF Processes, SameImages
<1> HIDE DEF u
<1>5. q \cap w.active = {}
  BY DEF EnsureGeneralImageMetadata, Kept, Matched
<1>6. Attended(u)
  BY <1>4 DEF Kept, Attended, SameImages
<1>7. u.asking = w.asking
  BY <1>4 DEF SameImages
<1> QED BY <1>2, <1>4, <1>5, <1>6, <1>7, SameWireKept

(* A batch is sent off, or cannot be.                                      *)
LEMMA DispatchSteps ==
  ASSUME Kept(w), DispatchPending
  PROVE  Kept(w')
<1>1. PICK B \in SUBSET w.queued : w' = Dispatch(B)
  BY DEF DispatchPending
<1> DEFINE q == w.queued \ B
           s == w.queued # B
           a == w.active \cup B
           v == [w EXCEPT !.queued = q, !.scheduled = s, !.active = a]
<1>2. w \in Processes
  BY DEF Kept, Matched
<1>3. B \in SUBSET Parts /\ q \subseteq Parts /\ s \in BOOLEAN /\ a \subseteq Parts
  BY <1>2, ProcessFields
<1>4. /\ v \in Processes /\ v.fg = w.fg /\ v.bg = w.bg /\ v.sent = w.sent /\ v.timer = w.timer
      /\ v.active = a /\ v.direct = w.direct /\ SameImages(w, v) /\ v.queued = q /\ v.scheduled = s
      /\ v.items = w.items /\ v.blocked = w.blocked
  <2> HIDE DEF a, s, q
  <2> QED BY <1>2, <1>3 DEF Processes, SameImages
<1>5. w' = IF B = {} THEN v
           ELSE IF key /\ ~w.blocked THEN Enqueue(v, Request("batch", B, 1), FALSE)
           ELSE Finished([v EXCEPT !.active = @ \ B], B, TRUE)
  BY <1>1, <1>2 DEF Dispatch, GetPartImageUrls, Processes
<1> HIDE DEF v
<1>6. q # {} => s
  OBVIOUS
<1>7. v.asking = w.asking /\ Attended(v)
  <2> HIDE DEF q, s
  <2> QED BY <1>4, <1>6 DEF Kept, Attended, SameImages
<1>8. B \cap w.active = {} /\ w.queued \cap w.active = {}
  BY DEF Kept, Matched
<1>9. q \cap a = {}
  BY <1>8
<1>10. CASE B = {}
  <2>1. v.active = w.active
    BY <1>4, <1>10
  <2> QED BY <1>4, <1>5, <1>7, <1>9, <1>10, <2>1, SameWireKept
<1>11. CASE B # {} /\ key /\ ~w.blocked
  <2> DEFINE r == Request("batch", B, 1)
  <2>1. r \in Requests /\ Claim(r) = {"batch"} \X B
    BY <1>3, RequestOf
  <2> HIDE DEF r
  <2>2. MarksOf(v) = MarksOf(w) \cup Claim(r)
    BY <1>4, <1>7, <2>1 DEF MarksOf
  <2>3. MarksOf(w) \cap Claim(r) = {}
    BY <1>8, <2>1 DEF MarksOf
  <2>4. Claim(r) \subseteq MarksOf(v) /\ MarksOf(v) \ Claim(r) = MarksOf(w) \ {}
    BY <2>2, <2>3
  <2>5. Matched(v, Claim(r))
    BY <1>4, <1>9, <2>4, Rematched DEF Kept
  <2> QED BY <1>5, <1>7, <1>11, <2>1, <2>5, EnqueueKept DEF r
<1>12. CASE B # {} /\ ~(key /\ ~w.blocked)
  <2> DEFINE b == v.active \ B
             u == [v EXCEPT !.active = b]
  <2>1. w' = Finished(u, B, TRUE)
    BY <1>4, <1>5, <1>12 DEF Processes
  <2>2. b = w.active
    BY <1>4, <1>8
  <2>3. b \subseteq Parts
    BY <1>2, <2>2, ProcessFields
  <2>4. /\ u \in Processes /\ u.fg = w.fg /\ u.bg = w.bg /\ u.sent = w.sent /\ u.timer = w.timer
        /\ u.active = b /\ u.direct = w.direct /\ u.asking = w.asking /\ u.queued = q
        /\ (Attended(v) => Attended(u))
    <3> HIDE DEF b
    <3> QED BY <1>4, <1>7, <2>3 DEF Processes, Attended
  <2> HIDE DEF u
  <2>5. u.queued \cap u.active = {}
    BY <1>9, <2>2, <2>4
  <2>6. Kept(u)
    BY <1>7, <2>2, <2>4, <2>5, SameWireKept
  <2> QED BY <2>1, <2>4, <2>6, FinishedSame, NothingFreed, FreedKept DEF Kept
<1> QED BY <1>10, <1>11, <1>12

(* What the preview shows.                                                 *)
LEMMA DialogKept ==
  ASSUME NEW v, Kept(v), NEW d \in [Parts -> {"none", "pending", "complete", "retryable"}]
  PROVE  Kept([v EXCEPT !.dialog = d])
<1> DEFINE u == [v EXCEPT !.dialog = d]
<1>1. v \in Processes
  BY DEF Kept, Matched
<1>2. Same(v, u) /\ SameImages(v, u) /\ u.active = v.active /\ u.direct = v.direct
  BY <1>1 DEF Processes, Same, SameImages
<1> HIDE DEF u
<1>3. Kept(u)
  BY <1>2, NothingFreed, FreedKept DEF Kept
<1> QED BY <1>3 DEF u

(* The preview asks.                                                       *)
LEMMA SubmitKept ==
  ASSUME Kept(w), NEW P \in SUBSET Parts, SubmitEnrichment(P)
  PROVE  Kept(w')
<1> DEFINE d == [p \in Parts |-> IF p \in P THEN "pending" ELSE w.dialog[p]]
<1>1. d \in [Parts -> {"none", "pending", "complete", "retryable"}]
  BY ProcessFields DEF Kept, Matched
<1>2. w' = EnsureExternalIds([w EXCEPT !.dialog = d], P)
  BY DEF SubmitEnrichment
<1> HIDE DEF d
<1> QED BY <1>1, <1>2, DialogKept, EnsureKept

(* The preview opens, tries again, and closes.                             *)
LEMMA PreviewSteps ==
  ASSUME Kept(w), OpenPreview \/ RetryUnresolved \/ ClosePreview
  PROVE  Kept(w')
<1>1. CASE OpenPreview
  BY <1>1, SubmitKept DEF OpenPreview
<1>2. CASE RetryUnresolved
  <2>1. {p \in Parts : w.dialog[p] = "retryable"} \in SUBSET Parts
    OBVIOUS
  <2> QED BY <1>2, <2>1, SubmitKept DEF RetryUnresolved
<1>3. CASE ClosePreview
  <2>1. w' = [w EXCEPT !.dialog = [p \in Parts |-> "none"]]
    BY <1>3 DEF ClosePreview
  <2> QED BY <2>1, DialogKept
<1> QED BY <1>1, <1>2, <1>3

-----------------------------------------------------------------------------
(* The steps: images                                                       *)

(* The image queue is rebuilt.                                             *)
LEMMA RebuildSteps ==
  ASSUME Kept(w), NEW I \in SUBSET Items, RebuildQueue(I)
  PROVE  Kept(w')
<1> DEFINE new == IF key /\ ~w.blocked THEN I \ (w.cached \cup w.unavailable) ELSE {}
           s == w.asking # None
           t == w.asking = None /\ new # {}
           u == [w EXCEPT !.items = new, !.skipped = {}, !.following = {}, !.stale = s, !.imageTimer = t]
<1>1. w' = u /\ w \in Processes
  BY DEF RebuildQueue, Kept, Matched
<1>2. new \subseteq Items /\ s \in BOOLEAN /\ t \in BOOLEAN
  OBVIOUS
<1>3. /\ u \in Processes /\ u.fg = w.fg /\ u.bg = w.bg /\ u.sent = w.sent /\ u.timer = w.timer
      /\ u.active = w.active /\ u.direct = w.direct /\ u.asking = w.asking /\ u.queued = w.queued
      /\ u.scheduled = w.scheduled /\ u.items = new /\ u.imageTimer = t
  <2> HIDE DEF new, s, t
  <2> QED BY <1>1, <1>2 DEF Processes
<1> HIDE DEF u
<1>4. Attended(u) /\ u.queued \cap u.active = {}
  <2> HIDE DEF new
  <2> QED BY <1>3 DEF Kept, Matched, Attended
<1> QED BY <1>1, <1>3, <1>4, SameWireKept

(* Items are added to the image queue.                                     *)
LEMMA PortableSteps ==
  ASSUME Kept(w), NEW I \in SUBSET Items, EnqueuePortableItems(I)
  PROVE  Kept(w')
<1> DEFINE all == w.items \cup (I \ Needless)
           t == w.imageTimer \/ (w.asking = None /\ all # {})
           u == [w EXCEPT !.items = all, !.imageTimer = t]
<1>1. w \in Processes
  BY DEF Kept, Matched
<1>2. w' = u
  BY <1>1 DEF EnqueuePortableItems, Processes
<1>3. all \subseteq Items /\ t \in BOOLEAN
  BY <1>1, ProcessFields
<1>4. /\ u \in Processes /\ u.fg = w.fg /\ u.bg = w.bg /\ u.sent = w.sent /\ u.timer = w.timer
      /\ u.active = w.active /\ u.direct = w.direct /\ u.asking = w.asking /\ u.queued = w.queued
      /\ u.scheduled = w.scheduled /\ u.items = all /\ u.imageTimer = t
  <2> HIDE DEF all, t
  <2> QED BY <1>1, <1>3 DEF Processes
<1> HIDE DEF u
<1>5. Attended(u) /\ u.queued \cap u.active = {}
  <2> HIDE DEF all
  <2> QED BY <1>4 DEF Kept, Matched, Attended
<1> QED BY <1>2, <1>4, <1>5, SameWireKept

(* The next item of the image queue is asked for.                          *)
LEMMA NextItemSteps ==
  ASSUME Kept(w), ProcessNext
  PROVE  Kept(w')
<1> DEFINE v == [w EXCEPT !.imageTimer = FALSE]
<1>1. w \in Processes
  BY DEF Kept, Matched
<1>2. /\ v \in Processes /\ v.fg = w.fg /\ v.bg = w.bg /\ v.sent = w.sent /\ v.timer = w.timer
      /\ v.active = w.active /\ v.direct = w.direct /\ v.asking = w.asking /\ v.queued = w.queued
      /\ v.scheduled = w.scheduled /\ v.items = w.items /\ v.blocked = w.blocked
  BY <1>1 DEF Processes
<1>3. \/ (w.asking # None \/ w.blocked) /\ w' = v
      \/ w' = [v EXCEPT !.items = {}]
      \/ /\ w.asking = None
         /\ \E x \in w.items \ Needless :
              w' = GetPartColorDetails([v EXCEPT !.items = @ \ ({x} \cup Needless), !.asking = x], x)
  BY DEF ProcessNext
<1> HIDE DEF v
<1>4. w.queued \cap w.active = {}
  BY DEF Kept, Matched
<1>5. CASE (w.asking # None \/ w.blocked) /\ w' = v
  <2>1. Attended(v)
    BY <1>2, <1>5 DEF Kept, Attended
  <2> QED BY <1>2, <1>4, <1>5, <2>1, SameWireKept
<1>6. CASE w' = [v EXCEPT !.items = {}]
  <2> DEFINE u == [v EXCEPT !.items = {}]
  <2>1. /\ u \in Processes /\ u.fg = w.fg /\ u.bg = w.bg /\ u.sent = w.sent /\ u.timer = w.timer
        /\ u.active = w.active /\ u.direct = w.direct /\ u.asking = w.asking /\ u.queued = w.queued
        /\ u.scheduled = w.scheduled /\ u.items = {}
    BY <1>2 DEF Processes
  <2> HIDE DEF u
  <2>2. Attended(u)
    BY <2>1 DEF Kept, Attended
  <2>3. Kept(u)
    BY <1>4, <2>1, <2>2, SameWireKept
  <2> QED BY <1>6, <2>3 DEF u
<1>7. ASSUME w.asking = None, NEW x \in w.items \ Needless,
             w' = GetPartColorDetails([v EXCEPT !.items = @ \ ({x} \cup Needless), !.asking = x], x)
      PROVE  Kept(w')
  <2> DEFINE i == v.items \ ({x} \cup Needless)
             u == [v EXCEPT !.items = i, !.asking = x]
             r == Request("color", x, 1)
  <2>1. w' = Enqueue(u, r, FALSE)
    BY <1>2, <1>7 DEF GetPartColorDetails, Processes
  <2>2. x \in Items /\ x # None /\ i \subseteq Items
    BY <1>1, <1>2, RequestsAssumption, ProcessFields
  <2>3. /\ u \in Processes /\ u.fg = w.fg /\ u.bg = w.bg /\ u.sent = w.sent
        /\ u.active = w.active /\ u.direct = w.direct /\ u.asking = x /\ u.queued = w.queued
        /\ u.scheduled = w.scheduled
    <3> HIDE DEF i
    <3> QED BY <1>2, <2>2 DEF Processes
  <2>4. r \in Requests /\ Claim(r) = {<<"color", None>>}
    BY <2>2, RequestOf
  <2> HIDE DEF u, r
  <2>5. MarksOf(u) = MarksOf(w) \cup {<<"color", None>>} /\ <<"color", None>> \notin MarksOf(w)
    BY <1>7, <2>2, <2>3 DEF MarksOf
  <2>6. Claim(r) \subseteq MarksOf(u) /\ MarksOf(u) \ Claim(r) = MarksOf(w) \ {} /\ u.queued \cap u.active = {}
    BY <1>4, <2>3, <2>4, <2>5
  <2>7. Matched(u, Claim(r))
    BY <2>3, <2>6, Rematched DEF Kept
  <2>8. Attended(u)
    BY <2>2, <2>3 DEF Kept, Attended
  <2> QED BY <2>1, <2>4, <2>7, <2>8, EnqueueKept
<1> QED BY <1>3, <1>5, <1>6, <1>7

(* An image is loaded.                                                     *)
LEMMA ImageSteps ==
  ASSUME Kept(w), NEW x \in Items, ImageArrives(x)
  PROVE  Kept(w')
<1> DEFINE u == ImageReady(w, x)
<1>1. w' = u /\ w \in Processes
  BY DEF ImageArrives, Kept, Matched
<1>2. ImagesGoOn(w)
  BY DEF Kept, Attended, ImagesGoOn
<1>3. Same(w, u) /\ u.asking = w.asking /\ u.active = w.active /\ u.direct = w.direct /\ ImagesGoOn(u)
  BY <1>1, <1>2, ReadyGoesOn
<1> HIDE DEF u
<1>4. Attended(u) /\ u.queued \cap u.active = {}
  BY <1>3 DEF Kept, Matched, Attended, Same, ImagesGoOn
<1>5. Kept(u)
  BY <1>3, <1>4, SameWireKept DEF Same
<1> QED BY <1>1, <1>5

(* An image cannot be loaded.                                              *)
LEMMA ImageFailureSteps ==
  ASSUME Kept(w), NEW x \in Items, ImageFails(x)
  PROVE  Kept(w')
<1> DEFINE f == w.fetching \ {x}
           o == w.following \ {x}
           v == [w EXCEPT !.fetching = f, !.following = o]
           s == v.skipped \cup {x}
           t == [v EXCEPT !.skipped = s]
<1>1. w \in Processes
  BY DEF Kept, Matched
<1>2. f \subseteq Items /\ o \subseteq Items
  BY <1>1, ProcessFields
<1>3. /\ Same(w, v) /\ v.asking = w.asking /\ v.active = w.active /\ v.direct = w.direct
      /\ v.imageTimer = w.imageTimer /\ v.following = o
  <2> HIDE DEF f, o
  <2> QED BY <1>1, <1>2 DEF Processes, Same
<1>4. v \in Processes
  BY <1>3 DEF Same
<1>5. w' = IF x \in w.following THEN ScheduleNext(t) ELSE v
  BY <1>1, <1>4 DEF ImageFails, Processes
<1> HIDE DEF v
<1>6. CASE x \in w.following
  <2>1. s \subseteq Items
    BY <1>4, ProcessFields
  <2>2. Same(v, t) /\ t.asking = v.asking /\ t.active = v.active /\ t.direct = v.direct
    <3> HIDE DEF s
    <3> QED BY <1>4, <2>1 DEF Processes, Same
  <2> HIDE DEF t
  <2>3. t \in Processes
    BY <2>2 DEF Same
  <2> DEFINE u == ScheduleNext(t)
  <2>4. Same(t, u) /\ u.asking = t.asking /\ u.active = t.active /\ u.direct = t.direct /\ ImagesGoOn(u)
    BY <2>3, NextScheduled DEF ImagesGoOn
  <2> HIDE DEF u
  <2>5. Same(w, u) /\ u.asking = w.asking /\ u.active = w.active /\ u.direct = w.direct
    BY <1>3, <2>2, <2>4 DEF Same
  <2>6. Attended(u) /\ u.queued \cap u.active = {}
    BY <2>4, <2>5 DEF Kept, Matched, Attended, Same, ImagesGoOn
  <2>7. Kept(u)
    BY <2>5, <2>6, SameWireKept DEF Same
  <2> QED BY <1>5, <1>6, <2>7 DEF u
<1>7. CASE x \notin w.following
  <2>1. o = w.following
    BY <1>7
  <2>2. Attended(v) /\ v.queued \cap v.active = {}
    BY <1>3, <2>1 DEF Kept, Matched, Attended, Same
  <2>3. Kept(v)
    BY <1>3, <1>4, <2>2, SameWireKept DEF Same
  <2> QED BY <1>5, <1>7, <2>3
<1> QED BY <1>6, <1>7

-----------------------------------------------------------------------------
(* The steps: dialogs                                                      *)

(* A dialog asks.                                                          *)
LEMMA AskSteps ==
  ASSUME Kept(w), NEW c \in Calls, Ask(c)
  PROVE  Kept(w')
<1> DEFINE d == [w.calls EXCEPT ![c] = "waiting"]
           v == [w EXCEPT !.calls = d]
<1>1. w \in Processes
  BY DEF Kept, Matched
<1>2. w' = IF ~key \/ w.blocked THEN CallAnswered(v, c) ELSE RequestPage(v, c, 1)
  BY <1>1 DEF Ask, Processes
<1>3. d \in [Calls -> {"none", "waiting", "answered", "gone"}]
  BY <1>1, ProcessFields
<1>4. Same(w, v) /\ SameImages(w, v) /\ v.active = w.active /\ v.direct = w.direct
  <2> HIDE DEF d
  <2> QED BY <1>1, <1>3 DEF Processes, Same, SameImages
<1> HIDE DEF v
<1>5. Kept(v) /\ v \in Processes
  BY <1>4, NothingFreed, FreedKept DEF Kept, Same
<1>6. Kept(CallAnswered(v, c))
  BY <1>5, CallSame, NothingFreed, FreedKept DEF Kept
<1> QED BY <1>2, <1>5, <1>6, PageKept

(* A dialog is closed: its requests leave no marks.                        *)
LEMMA CloseSteps ==
  ASSUME Kept(w), NEW c \in Calls, CloseDialog(c)
  PROVE  Kept(w')
<1> DEFINE d == [w.calls EXCEPT ![c] = "gone"]
           s == {r \in w.sent : r.call # "dialog" \/ r.of # c}
           u == [w EXCEPT !.calls = d, !.sent = s]
<1>1. w \in Processes
  BY DEF Kept, Matched
<1>2. w' = u
  BY <1>1 DEF CloseDialog, Processes
<1>3. d \in [Calls -> {"none", "waiting", "answered", "gone"}] /\ s \subseteq Requests
  BY <1>1, ProcessFields
<1>4. u \in Processes /\ u.fg = w.fg /\ u.bg = w.bg /\ u.sent = s /\ u.timer = w.timer /\ SameUsers(w, u)
  <2> HIDE DEF d, s
  <2> QED BY <1>1, <1>3 DEF Processes, SameUsers, SameImages
<1> HIDE DEF u
<1>5. MarksOf(u) = MarksOf(w) /\ Attended(u) /\ u.queued \cap u.active = {}
  BY <1>4, SameUsersSame DEF SameUsers, Kept, Matched
<1>6. ASSUME NEW r \in w.sent, r \notin s PROVE Claim(r) = {}
  BY <1>1, <1>6, ProcessFields, RequestKinds
<1>7. s \subseteq w.sent
  OBVIOUS
<1> HIDE DEF s
<1>8. Apart(u) /\ Claimed(u, MarksOf(u) \ {})
  BY <1>4, <1>5, <1>7 DEF Kept, Matched, Apart, Claimed
<1>9. Covered(u, MarksOf(u) \ {})
  BY <1>4, <1>5, <1>6 DEF Kept, Matched, Covered
<1>10. Matched(u, {})
  BY <1>4, <1>5, <1>8, <1>9 DEF Matched
<1> QED BY <1>2, <1>4, <1>5, <1>10 DEF Kept, Timed

-----------------------------------------------------------------------------
(* The invariant                                                           *)

(* The first state satisfies it.                                           *)
LEMMA KeptFirst == ASSUME Init PROVE Kept(w)
<1>1. /\ w.fg = <<>> /\ w.bg = <<>> /\ w.sent = {} /\ w.queued = {} /\ w.active = {} /\ w.direct = {}
      /\ w.asking = None /\ w.items = {}
  BY DEF Init
<1>2. w \in Processes
  <2>1. <<>> \in Seq(Requests)
    OBVIOUS
  <2> HIDE DEF Requests
  <2> QED BY <2>1 DEF Init, Processes
<1>3. MarksOf(w) = {}
  BY <1>1 DEF MarksOf
<1>4. DOMAIN w.fg = {} /\ DOMAIN w.bg = {}
  BY <1>1
<1>5. Apart(w) /\ Claimed(w, {}) /\ Covered(w, {})
  BY <1>1, <1>4 DEF Apart, Claimed, Covered
<1>6. Matched(w, {})
  BY <1>1, <1>2, <1>3, <1>5 DEF Matched
<1> QED BY <1>1, <1>6 DEF Kept, Timed, Attended

(* Every step preserves it.                                                *)
LEMMA KeptSteps == ASSUME Kept(w), [Next]_vars PROVE Kept(w')
<1>1. CASE UNCHANGED vars
  BY <1>1 DEF vars
<1>2. CASE EnterKey
  BY <1>2 DEF EnterKey
<1>3. CASE RequestTimeout
  BY <1>3, TimeoutSteps
<1>4. CASE IntervalPasses
  BY <1>4, IntervalSteps
<1>5. CASE SetCoordinationMinimumInterval
  BY <1>5, CoordinationSteps
<1>6. ASSUME NEW r \in w.sent, Reply(r) \/ ReplyFails(r) \/ ReplyRefuses(r)
      PROVE  Kept(w')
  BY <1>6, ReplySteps, FailureSteps, RefusalSteps
<1>7. CASE DispatchPending
  BY <1>7, DispatchSteps
<1>8. ASSUME NEW p \in Parts, BrowsePart(p) \/ EnsureGeneralImageMetadata(p)
      PROVE  Kept(w')
  BY <1>8, BrowseSteps, MetadataSteps
<1>9. CASE OpenPreview \/ RetryUnresolved \/ ClosePreview
  BY <1>9, PreviewSteps
<1>10. CASE ProcessNext
  BY <1>10, NextItemSteps
<1>11. ASSUME NEW I \in SUBSET Items, RebuildQueue(I) \/ EnqueuePortableItems(I)
       PROVE  Kept(w')
  BY <1>11, RebuildSteps, PortableSteps
<1>12. ASSUME NEW x \in Items, ImageArrives(x) \/ ImageFails(x)
       PROVE  Kept(w')
  BY <1>12, ImageSteps, ImageFailureSteps
<1>13. ASSUME NEW c \in Calls, Ask(c) \/ CloseDialog(c)
       PROVE  Kept(w')
  BY <1>13, AskSteps, CloseSteps
<1> QED BY <1>1, <1>2, <1>3, <1>4, <1>5, <1>6, <1>7, <1>8, <1>9, <1>10, <1>11, <1>12, <1>13 DEF Next

(* Every request that is outstanding stands for marks the process has, no  *)
(* two of them for the same one, and every mark stands for a request that  *)
(* is outstanding (RebrickableService's queues and the sets of its users). *)
THEOREM RequestsKept == Spec => []Kept(w)
<1>1. Init => Kept(w)
  BY KeptFirst
<1>2. Kept(w) /\ [Next]_vars => Kept(w)'
  BY KeptSteps
<1> QED BY <1>1, <1>2, PTL DEF Spec

(* What is queued is attended to: the request timer runs for what waits in *)
(* the queues of RebrickableService, a dispatch is coming for the Parts    *)
(* that wait for a batch, and the image queue's next step is coming,       *)
(* whatever overtakes it.                                                  *)
THEOREM QueuesStayAttended == Spec => []QueuesAttended
<1>1. Kept(w) => QueuesAttended
  <2> SUFFICES ASSUME Kept(w) PROVE QueuesAttended
    OBVIOUS
  <2>1. Waiting # {} => w.timer
    <3>1. Waiting # {} => w.fg # <<>> \/ w.bg # <<>>
      BY DEF Waiting
    <3> QED BY <3>1 DEF Kept, Timed
  <2> QED BY <2>1 DEF Kept, Attended, QueuesAttended
<1> QED BY <1>1, RequestsKept, PTL

(* The outstanding requests, as a set.                                     *)
LEMMA OutstandingFacts ==
  ASSUME Kept(w)
  PROVE  /\ Outstanding \subseteq Requests
         /\ \A r, s \in Outstanding : r # s => Disjoint(r, s)
         /\ \A r \in Outstanding : Claim(r) \subseteq MarksOf(w)
         /\ \A m \in MarksOf(w) : \E r \in Outstanding : m \in Claim(r)
<1>0. w \in Processes /\ Apart(w) /\ Claimed(w, MarksOf(w)) /\ Covered(w, MarksOf(w))
  <2>1. MarksOf(w) \ {} = MarksOf(w)
    OBVIOUS
  <2> QED BY <2>1 DEF Kept, Matched
<1>1. Outstanding \subseteq Requests
  <2>1. w.fg \in Seq(Requests) /\ w.bg \in Seq(Requests) /\ w.sent \subseteq Requests
    BY <1>0, ProcessFields
  <2>2. \A i \in DOMAIN w.fg : w.fg[i] \in Requests
    BY <2>1
  <2>3. \A i \in DOMAIN w.bg : w.bg[i] \in Requests
    BY <2>1
  <2> QED BY <2>1, <2>2, <2>3 DEF Outstanding, Waiting
<1>2. ASSUME NEW r \in Outstanding
      PROVE  r \in w.sent \/ (\E i \in DOMAIN w.fg : r = w.fg[i]) \/ (\E i \in DOMAIN w.bg : r = w.bg[i])
  BY DEF Outstanding, Waiting
<1>3. ASSUME NEW r \in Outstanding, NEW s \in Outstanding, r # s PROVE Disjoint(r, s)
  <2>1. CASE r \in w.sent
    BY <1>0, <1>2, <1>3, <2>1 DEF Apart
  <2>2. ASSUME NEW i \in DOMAIN w.fg, r = w.fg[i] PROVE Disjoint(r, s)
    <3>1. CASE s \in w.sent
      BY <1>0, <2>2, <3>1 DEF Apart, Disjoint
    <3>2. CASE s \notin w.sent
      BY <1>0, <1>2, <1>3, <2>2, <3>2 DEF Apart
    <3> QED BY <3>1, <3>2
  <2>3. ASSUME NEW i \in DOMAIN w.bg, r = w.bg[i] PROVE Disjoint(r, s)
    <3>1. CASE s \in w.sent
      BY <1>0, <2>3, <3>1 DEF Apart, Disjoint
    <3>2. ASSUME NEW j \in DOMAIN w.fg, s = w.fg[j] PROVE Disjoint(r, s)
      BY <1>0, <2>3, <3>2 DEF Apart, Disjoint
    <3>3. ASSUME NEW j \in DOMAIN w.bg, s = w.bg[j] PROVE Disjoint(r, s)
      BY <1>0, <1>3, <2>3, <3>3 DEF Apart
    <3> QED BY <1>2, <3>1, <3>2, <3>3
  <2> QED BY <1>2, <2>1, <2>2, <2>3
<1>4. \A r \in Outstanding : Claim(r) \subseteq MarksOf(w)
  BY <1>0, <1>2 DEF Claimed
<1>5. \A m \in MarksOf(w) : \E r \in Outstanding : m \in Claim(r)
  BY <1>0 DEF Covered, Outstanding, Waiting
<1> QED BY <1>1, <1>3, <1>4, <1>5

(* A mark has one request when the process has it, and none otherwise.     *)
LEMMA OneRequest ==
  ASSUME Kept(w), NEW m, NEW R,
         \A r : r \in R <=> r \in Outstanding /\ m \in Claim(r)
  PROVE  Cardinality(R) = IF m \in MarksOf(w) THEN 1 ELSE 0
<1>1. CASE m \in MarksOf(w)
  <2>1. PICK r \in Outstanding : m \in Claim(r)
    BY <1>1, OutstandingFacts
  <2>2. \A s \in R : s = r
    BY <2>1, OutstandingFacts DEF Disjoint
  <2>3. R = {r}
    BY <2>1, <2>2
  <2>4. Cardinality({r}) = 1
    BY FS_Singleton
  <2> QED BY <1>1, <2>3, <2>4
<1>2. CASE m \notin MarksOf(w)
  <2>1. R = {}
    BY <1>2, OutstandingFacts
  <2> QED BY <1>2, <2>1, FS_EmptySet
<1> QED BY <1>1, <1>2

(* A lookup that is under way is under way at Rebrickable, in exactly one  *)
(* request, and every request of a lookup has its mark: no answer, late,   *)
(* unsuccessful or refused, and no failure to send leaves a Part marked    *)
(* for ever (m_queuedPartNumbers' batches and m_directDetailsPartNumbers). *)
THEOREM MarksStayRequests == Spec => []MarksAreRequests
<1>1. Kept(w) => MarksAreRequests
  <2> SUFFICES ASSUME Kept(w) PROVE MarksAreRequests
    OBVIOUS
  <2>1. ASSUME NEW p \in Parts
        PROVE  Cardinality(Asked(p)) = IF p \in w.active THEN 1 ELSE 0
    <3> DEFINE m == <<"batch", p>>
    <3>1. ASSUME NEW r \in Outstanding PROVE (r.call = "batch" /\ p \in r.of) <=> m \in Claim(r)
      BY OutstandingFacts, RequestKinds
    <3>2. \A r : r \in Asked(p) <=> r \in Outstanding /\ m \in Claim(r)
      BY <3>1 DEF Asked
    <3>3. m \in MarksOf(w) <=> p \in w.active
      BY DEF MarksOf
    <3> HIDE DEF m
    <3> QED BY <3>2, <3>3, OneRequest
  <2>2. ASSUME NEW p \in Parts
        PROVE  Cardinality(Detailed(p)) = IF p \in w.direct THEN 1 ELSE 0
    <3> DEFINE m == <<"direct", p>>
    <3>1. ASSUME NEW r \in Outstanding
          PROVE  (r.call \in {"details", "search"} /\ r.of = p) <=> m \in Claim(r)
      BY OutstandingFacts, RequestKinds
    <3>2. \A r : r \in Detailed(p) <=> r \in Outstanding /\ m \in Claim(r)
      BY <3>1 DEF Detailed
    <3>3. m \in MarksOf(w) <=> p \in w.direct
      BY DEF MarksOf
    <3> HIDE DEF m
    <3> QED BY <3>2, <3>3, OneRequest
  <2>3. w.asking # None <=> \E r \in Outstanding : r.call = "color"
    <3> DEFINE m == <<"color", None>>
    <3>1. ASSUME NEW r \in Outstanding PROVE r.call = "color" <=> m \in Claim(r)
      BY OutstandingFacts, RequestKinds
    <3>2. m \in MarksOf(w) <=> w.asking # None
      BY DEF MarksOf
    <3> HIDE DEF m
    <3> QED BY <3>1, <3>2, OutstandingFacts
  <2> QED BY <2>1, <2>2, <2>3 DEF MarksAreRequests
<1> QED BY <1>1, RequestsKept, PTL
=============================================================================
