-------------------------- MODULE HostSessionsProofs -------------------------
(***************************************************************************)
(* Pairing, sessions, revocation and the shared pace of requests, for any  *)
(* finite set of devices, any sessions, revisions and queues: the tables   *)
(* of the coordination agree, credentials follow the records, a revoked    *)
(* device keeps no session, and everybody paces for everybody.             *)
(*                                                                         *)
(* The pace needs an invariant of a Client, its Host and both queues       *)
(* between them: either the Client has the Host's state, or the last thing *)
(* on its way to the one makes the other send it.                          *)
(***************************************************************************)
EXTENDS HostSessions, FiniteSetTheorems, TLAPS

-----------------------------------------------------------------------------
(* The inductive invariant of the registry and the coordination            *)

(* The processes a Host can be in, and the notices on their way.           *)
Hosts ==
  [participating : BOOLEAN, coordinated : BOOLEAN, count : Nat, revision : Nat, others : Nat,
   deviceOf : [Sessions -> Devices \cup {None}], sessionsOf : [Devices -> SUBSET Sessions],
   known : SUBSET Devices, leaving : SUBSET Devices,
   open : [Sessions -> Devices \cup {None}], closing : SUBSET Sessions]

Notices == [kind : {"state", "answer", "revoked"}, count : Nat, revision : Nat]

(* The devices looked at closely that a Host counts.                       *)
Counted(g) == {d \in g.known : g.sessionsOf[d] # {} \/ d \in g.leaving}

(* The tables of a Host process agree.                                     *)
Linked(g) ==
  /\ g \in Hosts
  /\ \A s \in Sessions : g.deviceOf[s] # None => g.open[s] = g.deviceOf[s]
  /\ \A d \in Devices :
       /\ g.sessionsOf[d] = {s \in Sessions : g.deviceOf[s] = d}
       /\ g.sessionsOf[d] # {} => d \in g.known
       /\ d \in g.leaving => g.sessionsOf[d] = {} /\ d \in g.known

(* A state in force counts every participant, and has a revision.          *)
Numbered(g) == g.coordinated => g.count = Participants(g) /\ g.revision > 0

(* What is kept of a Host process.                                         *)
Books(g) == Linked(g) /\ Numbered(g)

(* Types of what is durable, of the Clients and of what is on its way.     *)
Typed ==
  /\ record \in [Devices -> {"unused", "active", "absent", "inactive", "removed"}]
  /\ secrets \subseteq Devices
  /\ c \in [Devices -> Installations]
  /\ up \in [Sessions -> Seq(BOOLEAN)]
  /\ down \in [Sessions -> Seq(Notices)]

(* The inductive invariant of the registry and of the coordination.        *)
SessionsInv == Typed /\ Books(h) /\ SecretsFollowRecords /\ RevokedAreLeaving

-----------------------------------------------------------------------------
(* Operators of the Host                                                   *)

(* The fields of a Host process.                                           *)
LEMMA HostFields ==
  ASSUME NEW g \in Hosts
  PROVE  /\ g.participating \in BOOLEAN /\ g.coordinated \in BOOLEAN
         /\ g.count \in Nat /\ g.revision \in Nat /\ g.others \in Nat
         /\ g.deviceOf \in [Sessions -> Devices \cup {None}]
         /\ g.sessionsOf \in [Devices -> SUBSET Sessions]
         /\ g.known \subseteq Devices /\ g.leaving \subseteq Devices
         /\ g.open \in [Sessions -> Devices \cup {None}] /\ g.closing \subseteq Sessions
BY DEF Hosts

(* The number of participants is a natural number, and zero only when      *)
(* nobody takes part.                                                      *)
LEMMA Present ==
  ASSUME NEW g \in Hosts
  PROVE  /\ IsFiniteSet(Counted(g)) /\ Cardinality(Counted(g)) \in Nat
         /\ Participants(g) = Cardinality(Counted(g)) + g.others + (IF g.participating THEN 1 ELSE 0)
         /\ Participants(g) \in Nat
         /\ Participants(g) = 0 => Counted(g) = {} /\ g.others = 0
         /\ Counted(g) = {} /\ g.others = 0 => Participants(g) <= 1
<1>1. Counted(g) \subseteq Devices
  BY DEF Counted, Hosts
<1>2. IsFiniteSet(Counted(g))
  BY <1>1, FS_Subset, SessionsAssumption
<1>3. Cardinality(Counted(g)) \in Nat
  BY <1>2, FS_CardinalityType
<1>4. Cardinality(Counted(g)) = 0 <=> Counted(g) = {}
  BY <1>2, FS_EmptySet
<1>5. Participants(g) = Cardinality(Counted(g)) + g.others + (IF g.participating THEN 1 ELSE 0)
  BY DEF Participants, Counted
<1>6. g.others \in Nat /\ g.participating \in BOOLEAN
  BY HostFields
<1> DEFINE p == IF g.participating THEN 1 ELSE 0
           m == Cardinality(Counted(g))
<1>7. p \in {0, 1}
  OBVIOUS
<1>8. m \in Nat /\ (m = 0 <=> Counted(g) = {}) /\ Participants(g) = m + g.others + p
  BY <1>3, <1>4, <1>5
<1>9. IsFiniteSet(Counted(g)) /\ Cardinality(Counted(g)) \in Nat /\ Participants(g) = m + g.others + p
  BY <1>2, <1>3, <1>5
<1> HIDE DEF p, m
<1>10. /\ Participants(g) \in Nat
       /\ Participants(g) = 0 => m = 0 /\ g.others = 0
       /\ m = 0 /\ g.others = 0 => Participants(g) <= 1
  BY <1>6, <1>7, <1>8
<1>11. QED
  BY <1>8, <1>9, <1>10 DEF m, p

(* It depends on those counted, on the others and on the Host.             *)
LEMMA SamePresent ==
  ASSUME NEW g \in Hosts, NEW q \in Hosts, Counted(q) = Counted(g), q.others = g.others,
         q.participating = g.participating
  PROVE  Participants(q) = Participants(g)
BY DEF Participants, Counted

(* RecalculateHost changes the number and the revision only, and the       *)
(* revision with the number.                                               *)
Renumbered(g, q) ==
  /\ q \in Hosts
  /\ q.participating = g.participating /\ q.others = g.others /\ q.deviceOf = g.deviceOf
  /\ q.sessionsOf = g.sessionsOf /\ q.known = g.known /\ q.leaving = g.leaving
  /\ q.open = g.open /\ q.closing = g.closing
  /\ q.count = Participants(q) /\ q.revision > 0
  /\ ~q.coordinated => Participants(q) = 0
  /\ g.revision <= q.revision
  /\ q.revision = g.revision => q.count = g.count

(* It does, and never takes a revision back.                               *)
LEMMA Recalculated ==
  ASSUME NEW g \in Hosts, g.coordinated => g.revision > 0
  PROVE  Renumbered(g, RecalculateHost(g))
<1> DEFINE n == Participants(g)
           b == n > 0
           r == g.revision + 1
           q == [g EXCEPT !.coordinated = b, !.count = n, !.revision = r]
<1>1. n \in Nat /\ b \in BOOLEAN /\ r \in Nat /\ r = g.revision + 1 /\ (~b => n = 0) /\ g.revision \in Nat
  BY Present, HostFields
<1>2. CASE g.coordinated /\ g.count = n
  <2>1. RecalculateHost(g) = g
    BY <1>2 DEF RecalculateHost
  <2>2. g.revision \in Nat
    BY HostFields
  <2>3. QED
    BY <1>1, <1>2, <2>1, <2>2 DEF Renumbered
<1>3. CASE ~(g.coordinated /\ g.count = n)
  <2>1. RecalculateHost(g) = q
    BY <1>3 DEF RecalculateHost
  <2> HIDE DEF n, b, r
  <2>2. q \in Hosts
    BY <1>1 DEF Hosts
  <2>3. /\ q.participating = g.participating /\ q.others = g.others /\ q.deviceOf = g.deviceOf
        /\ q.sessionsOf = g.sessionsOf /\ q.known = g.known /\ q.leaving = g.leaving
        /\ q.open = g.open /\ q.closing = g.closing /\ q.count = n
        /\ q.coordinated = b /\ q.revision = r
    BY DEF Hosts
  <2>4. Counted(q) = Counted(g)
    BY <2>3 DEF Counted
  <2>5. Participants(q) = n
    BY <2>2, <2>3, <2>4, SamePresent DEF n
  <2> HIDE DEF q
  <2>6. Renumbered(g, q)
    BY <1>1, <2>2, <2>3, <2>5 DEF Renumbered
  <2>7. QED
    BY <2>1, <2>6
<1>4. QED
  BY <1>2, <1>3

(* RemoveSession takes one session out of both tables.                     *)
Removed(g, s, q) ==
  /\ q \in Hosts
  /\ q.participating = g.participating /\ q.others = g.others
  /\ q.coordinated = g.coordinated /\ q.count = g.count /\ q.revision = g.revision
  /\ q.deviceOf = [g.deviceOf EXCEPT ![s] = None]
  /\ q.sessionsOf = [d \in Devices |-> g.sessionsOf[d] \ {s}]
  /\ q.known = g.known /\ q.leaving = g.leaving
  /\ q.open = g.open /\ q.closing = g.closing

(* It does.                                                                *)
LEMMA SessionRemoved ==
  ASSUME NEW g, Linked(g), NEW s \in Sessions
  PROVE  Removed(g, s, RemoveSession(g, s))
<1>1. g \in Hosts
  BY DEF Linked
<1>2. \A d \in Devices : g.sessionsOf[d] = {t \in Sessions : g.deviceOf[t] = d}
  BY DEF Linked
<1>3. None \notin Devices
  BY SessionsAssumption
<1>f. /\ g.deviceOf \in [Sessions -> Devices \cup {None}]
      /\ g.sessionsOf \in [Devices -> SUBSET Sessions]
  BY <1>1, HostFields
<1>4. CASE g.deviceOf[s] = None
  <2>1. RemoveSession(g, s) = g
    BY <1>4 DEF RemoveSession
  <2>2. g.deviceOf = [g.deviceOf EXCEPT ![s] = None]
    BY <1>4, <1>f
  <2>3. \A d \in Devices : g.sessionsOf[d] = g.sessionsOf[d] \ {s}
    BY <1>2, <1>3, <1>4
  <2>4. g.sessionsOf = [d \in Devices |-> g.sessionsOf[d] \ {s}]
    BY <2>3, <1>f
  <2>5. QED
    BY <1>1, <2>1, <2>2, <2>4 DEF Removed
<1>5. CASE g.deviceOf[s] # None
  <2> DEFINE e == g.deviceOf[s]
             so == [g.sessionsOf EXCEPT ![e] = @ \ {s}]
             dv == [g.deviceOf EXCEPT ![s] = None]
             q == [g EXCEPT !.deviceOf = dv, !.sessionsOf = so]
  <2>1. RemoveSession(g, s) = q
    BY <1>5 DEF RemoveSession
  <2>2. e \in Devices
    BY <1>5, <1>f
  <2>3. \A d \in Devices : d # e => g.sessionsOf[d] = g.sessionsOf[d] \ {s}
    BY <1>2
  <2>4. so = [d \in Devices |-> g.sessionsOf[d] \ {s}]
    BY <2>2, <2>3, <1>f
  <2>5. so \in [Devices -> SUBSET Sessions] /\ dv \in [Sessions -> Devices \cup {None}]
    BY <2>4, <1>f
  <2> HIDE DEF so, dv
  <2>6. Removed(g, s, q) <=> dv = [g.deviceOf EXCEPT ![s] = None] /\ so = [d \in Devices |-> g.sessionsOf[d] \ {s}]
    BY <1>1, <2>5 DEF Removed, Hosts
  <2>7. QED
    BY <2>1, <2>4, <2>6 DEF dv
<1>6. QED
  BY <1>4, <1>5

(* What a registration leaves behind: tables that agree, the session       *)
(* counted for its device or not, and no new state without a new revision. *)
Registered(g, s, p, q) ==
  /\ Books(q)
  /\ q.open = g.open /\ q.closing = g.closing
  /\ q.deviceOf = [g.deviceOf EXCEPT ![s] = IF p THEN g.open[s] ELSE None]
  /\ g.revision <= q.revision /\ q.revision > 0
  /\ q.revision = g.revision => q.count = g.count
  /\ ~q.coordinated => Participants(q) = 0

(* Tables that agree are a Host's books once it has recalculated.          *)
LEMMA LinkedRenumbered ==
  ASSUME NEW g, Linked(g), NEW q, Renumbered(g, q)
  PROVE  Books(q)
<1>1. Linked(q)
  BY DEF Linked, Renumbered
<1>2. Numbered(q)
  BY DEF Numbered, Renumbered
<1>3. QED
  BY <1>1, <1>2 DEF Books

(* Tables that agree do so without a session.                              *)
LEMMA RemovedLinked ==
  ASSUME NEW g, Linked(g), NEW s \in Sessions, NEW q, Removed(g, s, q)
  PROVE  Linked(q)
<1>1. g \in Hosts /\ q \in Hosts
  BY DEF Linked, Removed
<1>2. None \notin Devices
  BY SessionsAssumption
<1>3. \A t \in Sessions : q.deviceOf[t] = IF t = s THEN None ELSE g.deviceOf[t]
  BY <1>1, HostFields DEF Removed
<1>4. \A d \in Devices : q.sessionsOf[d] = g.sessionsOf[d] \ {s}
  BY DEF Removed
<1>5. q.open = g.open /\ q.known = g.known /\ q.leaving = g.leaving
  BY DEF Removed
<1>6. \A t \in Sessions : q.deviceOf[t] # None => q.open[t] = q.deviceOf[t]
  BY <1>3, <1>5 DEF Linked
<1>7. ASSUME NEW d \in Devices
      PROVE  /\ q.sessionsOf[d] = {t \in Sessions : q.deviceOf[t] = d}
             /\ q.sessionsOf[d] # {} => d \in q.known
             /\ d \in q.leaving => q.sessionsOf[d] = {} /\ d \in q.known
  <2>1. /\ g.sessionsOf[d] = {t \in Sessions : g.deviceOf[t] = d}
        /\ g.sessionsOf[d] # {} => d \in g.known
        /\ d \in g.leaving => g.sessionsOf[d] = {} /\ d \in g.known
    BY DEF Linked
  <2>2. {t \in Sessions : q.deviceOf[t] = d} = {t \in Sessions : g.deviceOf[t] = d} \ {s}
    BY <1>2, <1>3
  <2>3. QED
    BY <2>1, <2>2, <1>4, <1>5
<1>8. QED
  BY <1>1, <1>6, <1>7 DEF Linked

(* RegisterParticipant keeps the books.                                    *)
LEMMA ParticipantRegistered ==
  ASSUME NEW g, Books(g), NEW s \in Sessions, g.open[s] # None, NEW p \in BOOLEAN
  PROVE  Registered(g, s, p, RegisterParticipant(g, s, p))
<1> DEFINE e == g.open[s]
           lv == g.leaving \ {e}
           g0 == [g EXCEPT !.leaving = lv]
           g1 == RemoveSession(g0, s)
           dv == [g1.deviceOf EXCEPT ![s] = e]
           so == [g1.sessionsOf EXCEPT ![e] = @ \cup {s}]
           kn == g1.known \cup {e}
           g2 == [g1 EXCEPT !.deviceOf = dv, !.sessionsOf = so, !.known = kn]
           g3 == IF p THEN g2 ELSE g1
           q == RecalculateHost(g3)
<1>1. g \in Hosts /\ Linked(g) /\ e \in Devices
  BY HostFields DEF Books, Linked
<1>2. /\ g0 \in Hosts /\ g0.participating = g.participating /\ g0.others = g.others
      /\ g0.coordinated = g.coordinated /\ g0.count = g.count /\ g0.revision = g.revision
      /\ g0.deviceOf = g.deviceOf /\ g0.sessionsOf = g.sessionsOf /\ g0.known = g.known
      /\ g0.leaving = lv /\ g0.open = g.open /\ g0.closing = g.closing
  BY <1>1 DEF Hosts
<1>3. RegisterParticipant(g, s, p) = q
  BY DEF RegisterParticipant
<1> HIDE DEF g0
<1>4. Linked(g0)
  BY <1>1, <1>2 DEF Linked
<1>5. Removed(g0, s, g1)
  BY <1>4, SessionRemoved
<1>6. Linked(g1)
  <2>1. \A x : Removed(g0, s, x) => Linked(x)
    BY <1>4, RemovedLinked
  <2>2. QED
    BY <1>5, <2>1
<1> HIDE DEF g1
<1>7. /\ g1 \in Hosts /\ g1.participating = g.participating /\ g1.others = g.others
      /\ g1.coordinated = g.coordinated /\ g1.count = g.count /\ g1.revision = g.revision
      /\ g1.deviceOf = [g.deviceOf EXCEPT ![s] = None]
      /\ g1.known = g.known /\ g1.leaving = lv /\ g1.open = g.open /\ g1.closing = g.closing
  BY <1>2, <1>5 DEF Removed
<1>8. g1.deviceOf \in [Sessions -> Devices \cup {None}] /\ g1.sessionsOf \in [Devices -> SUBSET Sessions]
      /\ g1.known \subseteq Devices
  BY <1>7, HostFields
<1>9. dv = [g.deviceOf EXCEPT ![s] = e]
  BY <1>1, <1>7, HostFields
<1>10. /\ dv \in [Sessions -> Devices \cup {None}] /\ so \in [Devices -> SUBSET Sessions]
       /\ kn \subseteq Devices
  BY <1>1, <1>8
<1>11. /\ \A t \in Sessions : dv[t] = IF t = s THEN e ELSE g1.deviceOf[t]
       /\ \A d \in Devices : so[d] = IF d = e THEN g1.sessionsOf[d] \cup {s} ELSE g1.sessionsOf[d]
       /\ g1.deviceOf[s] = None
  BY <1>1, <1>7, <1>8, HostFields
<1>12. kn = g.known \cup {e} /\ e \notin g1.leaving /\ None \notin Devices /\ g1.open[s] = e
  BY <1>7, SessionsAssumption
<1> HIDE DEF dv, so, kn
<1>13. /\ g2 \in Hosts /\ g2.participating = g1.participating /\ g2.others = g1.others
       /\ g2.coordinated = g1.coordinated /\ g2.count = g1.count /\ g2.revision = g1.revision
       /\ g2.deviceOf = dv /\ g2.sessionsOf = so /\ g2.known = kn
       /\ g2.leaving = g1.leaving /\ g2.open = g1.open /\ g2.closing = g1.closing
  BY <1>7, <1>10 DEF Hosts
<1> HIDE DEF g2, e
<1>14. Linked(g2)
  <2>1. \A t \in Sessions : g2.deviceOf[t] # None => g2.open[t] = g2.deviceOf[t]
    BY <1>6, <1>11, <1>12, <1>13 DEF Linked
  <2>2. ASSUME NEW d \in Devices
        PROVE  /\ g2.sessionsOf[d] = {t \in Sessions : g2.deviceOf[t] = d}
               /\ g2.sessionsOf[d] # {} => d \in g2.known
               /\ d \in g2.leaving => g2.sessionsOf[d] = {} /\ d \in g2.known
    <3>1. /\ g1.sessionsOf[d] = {t \in Sessions : g1.deviceOf[t] = d}
          /\ g1.sessionsOf[d] # {} => d \in g1.known
          /\ d \in g1.leaving => g1.sessionsOf[d] = {} /\ d \in g1.known
      BY <1>6 DEF Linked
    <3>2. g1.known \subseteq kn /\ e \in kn
      BY <1>7, <1>12
    <3>3. CASE d = e
      <4>1. {t \in Sessions : dv[t] = d} = {t \in Sessions : g1.deviceOf[t] = d} \cup {s}
        BY <1>11, <3>3
      <4>2. QED
        BY <3>1, <3>2, <3>3, <4>1, <1>11, <1>12, <1>13
    <3>4. CASE d # e
      <4>1. {t \in Sessions : dv[t] = d} = {t \in Sessions : g1.deviceOf[t] = d}
        BY <1>11, <1>12, <3>4
      <4>2. QED
        BY <3>1, <3>2, <3>4, <4>1, <1>11, <1>13
    <3>5. QED
      BY <3>3, <3>4
  <2>3. QED
    BY <1>13, <2>1, <2>2 DEF Linked
<1>15. /\ Linked(g3) /\ g3 \in Hosts /\ g3.open = g.open /\ g3.closing = g.closing
       /\ g3.coordinated = g.coordinated /\ g3.count = g.count /\ g3.revision = g.revision
       /\ g3.deviceOf = [g.deviceOf EXCEPT ![s] = IF p THEN e ELSE None]
  BY <1>6, <1>7, <1>9, <1>13, <1>14
<1>16. g3.coordinated => g3.revision > 0
  BY <1>15 DEF Books, Numbered
<1> HIDE DEF g3
<1>17. Renumbered(g3, q)
  BY <1>15, <1>16, Recalculated
<1>18. Books(q)
  <2> HIDE DEF q
  <2>1. QED
    BY <1>15, <1>17, LinkedRenumbered
<1> HIDE DEF q
<1>19. Registered(g, s, p, q)
  BY <1>15, <1>17, <1>18 DEF Registered, Renumbered, e
<1>20. QED
  BY <1>3, <1>19

(* What the end of a session leaves behind: who is counted does not        *)
(* change.                                                                 *)
Disconnected(g, s, q) ==
  /\ Books(q)
  /\ q.participating = g.participating /\ q.others = g.others /\ Counted(q) = Counted(g)
  /\ q.coordinated = g.coordinated /\ q.count = g.count /\ q.revision = g.revision
  /\ q.deviceOf = [g.deviceOf EXCEPT ![s] = None]
  /\ q.open = [g.open EXCEPT ![s] = None] /\ q.closing = g.closing \ {s}

(* SessionDisconnected keeps the books, and everybody counted.             *)
LEMMA SessionGone ==
  ASSUME NEW g, Books(g), NEW s \in Sessions
  PROVE  Disconnected(g, s, [SessionDisconnected(g, s) EXCEPT !.open[s] = None, !.closing = @ \ {s}])
<1> DEFINE e == g.deviceOf[s]
           g1 == RemoveSession(g, s)
           lv == g1.leaving \cup {e}
           g2 == [g1 EXCEPT !.leaving = lv]
           last == e # None /\ g1.sessionsOf[e] = {}
           g3 == IF last THEN g2 ELSE g1
           op == [g.open EXCEPT ![s] = None]
           cl == g.closing \ {s}
           q == [g3 EXCEPT !.open = op, !.closing = cl]
<1>1. g \in Hosts /\ Linked(g) /\ e \in Devices \cup {None} /\ None \notin Devices
  BY HostFields, SessionsAssumption DEF Books, Linked
<1>2. Removed(g, s, g1)
  BY <1>1, SessionRemoved
<1>3. Linked(g1)
  <2>1. \A x : Removed(g, s, x) => Linked(x)
    BY <1>1, RemovedLinked
  <2>2. QED
    BY <1>2, <2>1
<1>4. SessionDisconnected(g, s) = g3
  BY DEF SessionDisconnected
<1> HIDE DEF g1
<1>5. /\ g1 \in Hosts /\ g1.participating = g.participating /\ g1.others = g.others
      /\ g1.coordinated = g.coordinated /\ g1.count = g.count /\ g1.revision = g.revision
      /\ g1.deviceOf = [g.deviceOf EXCEPT ![s] = None]
      /\ g1.known = g.known /\ g1.leaving = g.leaving /\ g1.open = g.open /\ g1.closing = g.closing
  BY <1>2 DEF Removed
<1>6. g1.leaving \subseteq Devices
  BY <1>5, HostFields
<1>7. g3 \in Hosts /\ g3.leaving = (IF last THEN lv ELSE g1.leaving) /\ g3.sessionsOf = g1.sessionsOf
      /\ g3.known = g1.known /\ g3.deviceOf = g1.deviceOf /\ g3.open = g.open /\ g3.closing = g.closing
      /\ g3.participating = g.participating /\ g3.others = g.others
      /\ g3.coordinated = g.coordinated /\ g3.count = g.count /\ g3.revision = g.revision
  <2>1. CASE last
    <3>1. lv \subseteq Devices
      BY <1>1, <1>6, <2>1
    <3> HIDE DEF lv
    <3>2. QED
      BY <1>5, <2>1, <3>1 DEF Hosts
  <2>2. CASE ~last
    BY <1>5, <2>2
  <2>3. QED
    BY <2>1, <2>2
<1>8. op \in [Sessions -> Devices \cup {None}] /\ cl \subseteq Sessions
      /\ \A t \in Sessions : op[t] = IF t = s THEN None ELSE g.open[t]
  BY <1>1, HostFields
<1>9. SessionDisconnected(g, s).open = g.open /\ SessionDisconnected(g, s).closing = g.closing
  BY <1>4, <1>7
<1>10. [SessionDisconnected(g, s) EXCEPT !.open[s] = None, !.closing = @ \ {s}] = q
  BY <1>4, <1>9
<1> DEFINE l3 == g3.leaving
<1>l. l3 = IF last THEN lv ELSE g1.leaving
  BY <1>7
<1> HIDE DEF g3, op, cl
<1>11. /\ q \in Hosts /\ q.leaving = l3 /\ q.sessionsOf = g1.sessionsOf
       /\ q.known = g1.known /\ q.deviceOf = g1.deviceOf /\ q.open = op /\ q.closing = cl
       /\ q.participating = g.participating /\ q.others = g.others
       /\ q.coordinated = g.coordinated /\ q.count = g.count /\ q.revision = g.revision
  BY <1>7, <1>8 DEF Hosts
<1> HIDE DEF q, l3
<1>12. \A d \in Devices :
         /\ g.sessionsOf[d] = {t \in Sessions : g.deviceOf[t] = d}
         /\ g.sessionsOf[d] # {} => d \in g.known
         /\ d \in g.leaving => g.sessionsOf[d] = {} /\ d \in g.known
         /\ g1.sessionsOf[d] = g.sessionsOf[d] \ {s}
  BY <1>1, <1>2 DEF Linked, Removed
<1>13. e # None => e \in Devices /\ s \in g.sessionsOf[e] /\ e \in g.known
  BY <1>1, <1>12
<1>14. Linked(q)
  <2>1. \A t \in Sessions : g1.deviceOf[t] = IF t = s THEN None ELSE g.deviceOf[t]
    BY <1>1, <1>5, HostFields
  <2>2. \A t \in Sessions : q.deviceOf[t] # None => q.open[t] = q.deviceOf[t]
    BY <1>1, <1>8, <1>11, <2>1 DEF Linked
  <2>3. \A d \in Devices :
          /\ g1.sessionsOf[d] = {t \in Sessions : g1.deviceOf[t] = d}
          /\ g1.sessionsOf[d] # {} => d \in g1.known
          /\ d \in g1.leaving => g1.sessionsOf[d] = {} /\ d \in g1.known
    BY <1>3 DEF Linked
  <2>4. \A d \in Devices : d \in l3 => g1.sessionsOf[d] = {} /\ d \in g1.known
    BY <1>l, <1>5, <1>13, <2>3
  <2>5. QED
    BY <1>11, <2>2, <2>3, <2>4 DEF Linked
<1>15. Counted(q) = Counted(g)
  <2>1. ASSUME NEW d \in g.known
        PROVE  (g1.sessionsOf[d] # {} \/ d \in l3) <=> (g.sessionsOf[d] # {} \/ d \in g.leaving)
    <3>1. d \in Devices
      BY <1>1, HostFields
    <3>2. CASE d = e
      <4>1. e # None /\ s \in g.sessionsOf[d]
        BY <1>1, <1>13, <3>1, <3>2
      <4>2. last => d \in l3
        BY <1>l, <3>2
      <4>3. ~last => g1.sessionsOf[d] # {}
        BY <3>2, <4>1
      <4>4. g1.sessionsOf[d] # {} \/ d \in l3
        BY <4>2, <4>3
      <4>5. g.sessionsOf[d] # {}
        BY <4>1
      <4>6. QED
        BY <4>4, <4>5
    <3>3. CASE d # e
      <4>0. g1.sessionsOf[d] = g.sessionsOf[d] \ {s} /\ s \notin g.sessionsOf[d]
        <5>1. g.deviceOf[s] # d
          BY <3>3
        <5>2. g.sessionsOf[d] = {t \in Sessions : g.deviceOf[t] = d}
          BY <1>12, <3>1
        <5>3. s \notin g.sessionsOf[d]
          BY <5>1, <5>2
        <5>4. QED
          BY <1>12, <3>1, <5>3
      <4>1. g1.sessionsOf[d] = g.sessionsOf[d]
        BY <4>0
      <4>2. d \in l3 <=> d \in g.leaving
        BY <1>l, <1>5, <3>3
      <4>3. QED
        BY <4>1, <4>2
    <3>4. QED
      BY <3>2, <3>3
  <2>2. QED
    BY <1>5, <1>11, <2>1 DEF Counted
<1>16. Participants(q) = Participants(g)
  BY <1>1, <1>11, <1>15, SamePresent
<1>17. Numbered(q)
  BY <1>11, <1>16 DEF Books, Numbered
<1>18. Disconnected(g, s, q)
  BY <1>5, <1>11, <1>14, <1>15, <1>17 DEF Disconnected, Books, op, cl
<1>19. QED
  BY <1>10, <1>18

(* The tables without a device whose removal timer has run out.            *)
Retired(g, d) == [g EXCEPT !.leaving = @ \ {d}, !.known = @ \ {d}, !.sessionsOf[d] = {}]

(* They agree.                                                             *)
LEMMA DeviceRetired ==
  ASSUME NEW g, Linked(g), NEW d \in g.leaving
  PROVE  /\ Linked(Retired(g, d))
         /\ Retired(g, d).revision = g.revision /\ Retired(g, d).count = g.count
         /\ Retired(g, d).coordinated = g.coordinated /\ Retired(g, d).deviceOf = g.deviceOf
         /\ Retired(g, d).open = g.open /\ Retired(g, d).closing = g.closing
<1> DEFINE lv == g.leaving \ {d}
           kn == g.known \ {d}
           so == [g.sessionsOf EXCEPT ![d] = {}]
           q == [g EXCEPT !.leaving = lv, !.known = kn, !.sessionsOf = so]
<1>1. g \in Hosts /\ d \in Devices /\ g.sessionsOf[d] = {}
  BY HostFields DEF Linked
<1>2. lv \subseteq Devices /\ kn \subseteq Devices /\ so \in [Devices -> SUBSET Sessions] /\ so = g.sessionsOf
  BY <1>1, HostFields
<1>3. Retired(g, d) = q
  BY DEF Retired
<1>4. (\A e \in lv : e \in g.leaving /\ e # d) /\ (\A e \in g.known : e # d => e \in kn)
  OBVIOUS
<1> HIDE DEF lv, kn, so
<1>5. /\ q \in Hosts /\ q.leaving = lv /\ q.known = kn /\ q.sessionsOf = so
      /\ q.revision = g.revision /\ q.count = g.count /\ q.coordinated = g.coordinated
      /\ q.deviceOf = g.deviceOf /\ q.open = g.open /\ q.closing = g.closing
  BY <1>1, <1>2 DEF Hosts
<1> HIDE DEF q
<1>6. Linked(q)
  BY <1>1, <1>2, <1>4, <1>5 DEF Linked
<1>7. QED
  BY <1>3, <1>5, <1>6

-----------------------------------------------------------------------------
(* Messages and Clients                                                    *)

(* The first of a sequence, and the rest.                                  *)
LEMMA HeadAndTail ==
  ASSUME NEW S, NEW u \in Seq(S), u # <<>>
  PROVE  /\ Head(u) \in S /\ Head(u) = u[1] /\ Tail(u) \in Seq(S)
         /\ Len(u) \in Nat /\ Len(u) >= 1 /\ Len(Tail(u)) = Len(u) - 1
         /\ \A i \in 1 .. Len(u) - 1 : Tail(u)[i] = u[i + 1]
         /\ DOMAIN u = 1 .. Len(u) /\ DOMAIN Tail(u) = 1 .. Len(u) - 1
OBVIOUS

(* A sequence and one more.                                                *)
LEMMA Appended ==
  ASSUME NEW S, NEW u \in Seq(S), NEW x \in S
  PROVE  /\ Append(u, x) \in Seq(S) /\ Append(u, x) # <<>>
         /\ Len(u) \in Nat /\ Len(Append(u, x)) = Len(u) + 1 /\ Append(u, x)[Len(u) + 1] = x
         /\ \A i \in 1 .. Len(u) : Append(u, x)[i] = u[i]
         /\ DOMAIN u = 1 .. Len(u) /\ DOMAIN Append(u, x) = 1 .. Len(u) + 1
OBVIOUS

(* A message tells the state of its Host.                                  *)
LEMMA MessageNotice ==
  ASSUME NEW g \in Hosts, NEW kind \in {"state", "answer", "revoked"}
  PROVE  /\ Message(kind, g) \in Notices
         /\ Message(kind, g).kind = kind /\ Message(kind, g).count = g.count
         /\ Message(kind, g).revision = g.revision
BY HostFields DEF Message, Notices

(* PublishHostState sends the state to s.                                  *)
Told(g, s) == g.revision # h.revision /\ g.open[s] \in g.known /\ Heard(s)

(* What PublishHostState has sent, session by session.                     *)
LEMMA Published ==
  ASSUME NEW g \in Hosts, down \in [Sessions -> Seq(Notices)]
  PROVE  /\ PublishHostState(g) \in [Sessions -> Seq(Notices)]
         /\ \A s \in Sessions : PublishHostState(g)[s] =
              IF Told(g, s) THEN Append(down[s], Message("state", g)) ELSE down[s]
<1> DEFINE m == Message("state", g)
<1>1. m \in Notices
  BY MessageNotice
<1> HIDE DEF m
<1>2. \A s \in Sessions : down[s] \in Seq(Notices) /\ Append(down[s], m) \in Seq(Notices)
  BY <1>1
<1>3. CASE g.revision = h.revision
  BY <1>3 DEF PublishHostState, Told
<1>4. CASE g.revision # h.revision
  <2>1. PublishHostState(g) = [s \in Sessions |-> IF g.open[s] \in g.known /\ Heard(s) THEN Append(down[s], m) ELSE down[s]]
    BY <1>4 DEF PublishHostState, m
  <2>2. \A s \in Sessions : Told(g, s) <=> g.open[s] \in g.known /\ Heard(s)
    BY <1>4 DEF Told
  <2>3. \A s \in Sessions : PublishHostState(g)[s] = IF Told(g, s) THEN Append(down[s], m) ELSE down[s]
    BY <2>1, <2>2
  <2>4. PublishHostState(g) \in [Sessions -> Seq(Notices)]
    BY <1>2, <2>1
  <2>5. QED
    BY <2>3, <2>4 DEF m
<1>5. QED
  BY <1>3, <1>4

(* The fields of a Client.                                                 *)
LEMMA InstallationFields ==
  ASSUME NEW k \in Installations
  PROVE  /\ k.paired \in BOOLEAN /\ k.session \in Sessions \cup {None} /\ k.participating \in BOOLEAN
         /\ k.coordinated \in BOOLEAN /\ k.count \in Nat /\ k.revision \in Nat /\ k.fallback \in BOOLEAN
BY DEF Installations

(* A message changes neither the session nor the provider status.          *)
LEMMA StateReceived ==
  ASSUME NEW k \in Installations, NEW m \in Notices
  PROVE  /\ Received(k, m) \in Installations
         /\ Received(k, m).session = k.session /\ Received(k, m).participating = k.participating
<1> DEFINE n == m.count
           r == m.revision
<1>1. n \in Nat /\ r \in Nat /\ m.kind \in {"state", "answer", "revoked"}
  BY DEF Notices
<1>2. /\ ApplyRemoteState(k, m) \in Installations
      /\ ApplyRemoteState(k, m).session = k.session
      /\ ApplyRemoteState(k, m).participating = k.participating
  <2> HIDE DEF n, r
  <2>1. ApplyRemoteState(k, m) \in {k, [k EXCEPT !.coordinated = TRUE, !.count = n, !.revision = r, !.fallback = FALSE]}
    BY DEF ApplyRemoteState, n, r
  <2>2. QED
    BY <1>1, <2>1 DEF Installations
<1>3. Cleared(k) \in Installations /\ Cleared(k).session = k.session /\ Cleared(k).participating = k.participating
  BY DEF Cleared, Installations
<1>4. LET z == [k EXCEPT !.paired = FALSE]
      IN  z \in Installations /\ z.session = k.session /\ z.participating = k.participating
  BY DEF Installations
<1>5. CASE m.kind = "state"
  BY <1>2, <1>5 DEF Received
<1>6. CASE m.kind = "answer"
  BY <1>2, <1>3, <1>6 DEF Received
<1>7. CASE m.kind = "revoked"
  BY <1>4, <1>7 DEF Received
<1>8. QED
  BY <1>1, <1>5, <1>6, <1>7

-----------------------------------------------------------------------------
(* The invariant is kept                                                   *)

(* The registry and the credential store.                                  *)
Durable ==
  /\ record \in [Devices -> {"unused", "active", "absent", "inactive", "removed"}]
  /\ secrets \subseteq Devices
  /\ SecretsFollowRecords

(* The Clients, and what is on its way.                                    *)
Carried ==
  /\ c \in [Devices -> Installations]
  /\ up \in [Sessions -> Seq(BOOLEAN)]
  /\ down \in [Sessions -> Seq(Notices)]

(* The invariant, part by part.                                            *)
LEMMA SessionsParts == SessionsInv <=> Durable /\ Carried /\ Books(h) /\ RevokedAreLeaving
BY DEF SessionsInv, Typed, Durable, Carried

(* The same after a step.                                                  *)
LEMMA SessionsParts1 == SessionsInv' <=> Durable' /\ Carried' /\ Books(h') /\ RevokedAreLeaving'
BY DEF SessionsInv, Typed, Durable, Carried, Books, Linked, Numbered, Hosts, Participants, SecretsFollowRecords, RevokedAreLeaving, Notices, Installations

(* A new process has empty books.                                          *)
LEMMA NewHostBooks == Books(NewHost) /\ Counted(NewHost) = {}
<1> DEFINE dv == [s \in Sessions |-> None]
           so == [d \in Devices |-> {}]
           q == [participating |-> FALSE, coordinated |-> FALSE, count |-> 0, revision |-> 0, others |-> 0,
                 deviceOf |-> dv, sessionsOf |-> so, known |-> {}, leaving |-> {}, open |-> dv, closing |-> {}]
<1>1. dv \in [Sessions -> Devices \cup {None}] /\ so \in [Devices -> SUBSET Sessions]
      /\ (\A s \in Sessions : dv[s] = None) /\ (\A d \in Devices : so[d] = {})
  OBVIOUS
<1>2. None \notin Devices
  BY SessionsAssumption
<1>3. NewHost = q
  BY DEF NewHost
<1> HIDE DEF dv, so
<1>4. q \in Hosts
  BY <1>1 DEF Hosts
<1>5. Linked(q)
  BY <1>1, <1>2, <1>4 DEF Linked
<1>6. Numbered(q)
  BY DEF Numbered
<1>7. Counted(q) = {}
  BY DEF Counted
<1>8. QED
  BY <1>3, <1>5, <1>6, <1>7 DEF Books

(* The initial state satisfies the invariant.                              *)
LEMMA InitSessions == Init => SessionsInv
<1> SUFFICES ASSUME Init PROVE SessionsInv
  OBVIOUS
<1>1. Durable
  BY DEF Init, Durable, SecretsFollowRecords
<1>2. Carried
  <2>1. c \in [Devices -> Installations]
    BY DEF Init, Installations
  <2>2. up \in [Sessions -> Seq(BOOLEAN)] /\ down \in [Sessions -> Seq(Notices)]
    BY DEF Init
  <2>3. QED
    BY <2>1, <2>2 DEF Carried
<1>3. Books(h)
  BY NewHostBooks DEF Init
<1>4. RevokedAreLeaving
  BY DEF Init, NewHost, RevokedAreLeaving
<1>5. QED
  BY <1>1, <1>2, <1>3, <1>4, SessionsParts

(* A Host that keeps its sessions, and those being closed, keeps what a    *)
(* revocation asks.                                                        *)
LEMMA HostKept ==
  ASSUME Durable, RevokedAreLeaving, UNCHANGED <<record, secrets>>,
         h'.open = h.open, h.closing \subseteq h'.closing
  PROVE  Durable' /\ RevokedAreLeaving'
BY DEF Durable, SecretsFollowRecords, RevokedAreLeaving

(* Registrations, removal timers, other devices and the Host's own         *)
(* provider status preserve the invariant.                                 *)
LEMMA HostToldSteps ==
  ASSUME SessionsInv, (\E s \in Sessions : HostReceives(s)) \/ (\E d \in Devices : RemovalTimeout(d))
                      \/ (\E n \in 0..MaxOthers : OthersChange(n)) \/ HostProviderChanges
  PROVE  SessionsInv'
<1>1. Durable /\ Carried /\ Books(h) /\ RevokedAreLeaving /\ Linked(h) /\ Numbered(h) /\ h \in Hosts
  BY SessionsParts DEF Books, Linked
<1>2. down \in [Sessions -> Seq(Notices)] /\ up \in [Sessions -> Seq(BOOLEAN)]
  BY <1>1 DEF Carried
<1>3. ASSUME NEW s \in Sessions, HostReceives(s)
      PROVE  SessionsInv'
  <2> DEFINE p == Head(up[s])
             g == RegisterParticipant(h, s, p)
             m == Message("answer", g)
             pd == PublishHostState(g)
  <2>1. h.open[s] # None /\ up[s] # <<>> /\ up[s] \in Seq(BOOLEAN)
    BY <1>2, <1>3 DEF HostReceives
  <2>2. p \in BOOLEAN /\ Tail(up[s]) \in Seq(BOOLEAN)
    BY <2>1, HeadAndTail
  <2>3. Registered(h, s, p, g)
    <3> HIDE DEF p
    <3>1. QED
      BY <1>1, <2>1, <2>2, ParticipantRegistered
  <2>4. h' = g /\ UNCHANGED <<record, secrets, c>> /\ up' = [up EXCEPT ![s] = Tail(@)]
        /\ down' = [pd EXCEPT ![s] = IF Heard(s) THEN Append(@, m) ELSE @]
    BY <1>3 DEF HostReceives
  <2> HIDE DEF g
  <2>5. Books(g) /\ g \in Hosts /\ g.open = h.open /\ g.closing = h.closing
    BY <2>3 DEF Registered, Books, Linked
  <2>6. pd \in [Sessions -> Seq(Notices)] /\ m \in Notices
    BY <1>2, <2>5, Published, MessageNotice
  <2> HIDE DEF pd, m, p
  <2>7. down' \in [Sessions -> Seq(Notices)] /\ up' \in [Sessions -> Seq(BOOLEAN)]
    BY <1>2, <2>2, <2>4, <2>6
  <2>8. Carried'
    BY <1>1, <2>4, <2>7 DEF Carried, Notices, Installations
  <2>9. Durable' /\ RevokedAreLeaving'
    BY <1>1, <2>4, <2>5, HostKept
  <2>10. QED
    BY <2>4, <2>5, <2>8, <2>9, SessionsParts1
<1>4. ASSUME NEW g0, Linked(g0), g0.open = h.open, g0.closing = h.closing,
             g0.coordinated => g0.revision > 0,
             NEW q, q = RecalculateHost(g0), Linked(h'), Numbered(h'), h'.open = q.open, h'.closing = q.closing,
             down' = PublishHostState(q), UNCHANGED <<record, secrets, c, up>>
      PROVE  SessionsInv'
  <2>1. Renumbered(g0, q)
    BY <1>4, Recalculated DEF Linked
  <2>2. q \in Hosts /\ q.open = h.open /\ q.closing = h.closing
    BY <1>4, <2>1 DEF Renumbered
  <2>3. PublishHostState(q) \in [Sessions -> Seq(Notices)]
    BY <1>2, <2>2, Published
  <2>4. Carried'
    BY <1>1, <1>4, <2>3 DEF Carried, Notices, Installations
  <2>5. Durable' /\ RevokedAreLeaving'
    BY <1>1, <1>4, <2>2, HostKept
  <2>6. QED
    BY <1>4, <2>4, <2>5, SessionsParts1 DEF Books
<1>5. ASSUME NEW d \in Devices, RemovalTimeout(d)
      PROVE  SessionsInv'
  <2> DEFINE g0 == Retired(h, d)
             q == RecalculateHost(g0)
  <2>1. d \in h.leaving /\ h' = q /\ down' = PublishHostState(q) /\ UNCHANGED <<record, secrets, c, up>>
    BY <1>5 DEF RemovalTimeout, Retired
  <2>2. Linked(g0) /\ g0.open = h.open /\ g0.closing = h.closing /\ g0.coordinated = h.coordinated
        /\ g0.revision = h.revision
    BY <1>1, <2>1, DeviceRetired
  <2>3. g0.coordinated => g0.revision > 0
    BY <1>1, <2>2 DEF Numbered
  <2> HIDE DEF g0
  <2>4. Renumbered(g0, q)
    BY <2>2, <2>3, Recalculated DEF Linked
  <2>5. q = RecalculateHost(g0)
    OBVIOUS
  <2> HIDE DEF q
  <2>6. Books(q)
    BY <2>2, <2>4, LinkedRenumbered
  <2>7. QED
    BY <1>4, <2>1, <2>2, <2>3, <2>5, <2>6 DEF Books
<1>6. ASSUME NEW n \in 0..MaxOthers, OthersChange(n)
      PROVE  SessionsInv'
  <2> DEFINE g0 == [h EXCEPT !.others = n]
             q == RecalculateHost(g0)
  <2>1. h' = q /\ down' = PublishHostState(q) /\ UNCHANGED <<record, secrets, c, up>> /\ n \in Nat
    BY <1>6, SessionsAssumption DEF OthersChange
  <2>2. Linked(g0) /\ g0.open = h.open /\ g0.closing = h.closing /\ g0.coordinated = h.coordinated
        /\ g0.revision = h.revision
    BY <1>1, <2>1 DEF Linked, Hosts
  <2>3. g0.coordinated => g0.revision > 0
    BY <1>1, <2>2 DEF Numbered
  <2> HIDE DEF g0
  <2>4. Renumbered(g0, q)
    BY <2>2, <2>3, Recalculated DEF Linked
  <2>5. q = RecalculateHost(g0)
    OBVIOUS
  <2> HIDE DEF q
  <2>6. Books(q)
    BY <2>2, <2>4, LinkedRenumbered
  <2>7. QED
    BY <1>4, <2>1, <2>2, <2>3, <2>5, <2>6 DEF Books
<1>7. ASSUME HostProviderChanges
      PROVE  SessionsInv'
  <2>b. PICK b \in BOOLEAN :
          LET g == RecalculateHost([h EXCEPT !.participating = b])
          IN  /\ h' = [g EXCEPT !.coordinated = FALSE, !.count = 0, !.revision = 0]
              /\ down' = PublishHostState(g)
    BY <1>7 DEF HostProviderChanges
  <2> DEFINE g0 == [h EXCEPT !.participating = b]
             q == RecalculateHost(g0)
             q1 == [q EXCEPT !.coordinated = FALSE, !.count = 0, !.revision = 0]
  <2>1. h' = q1 /\ down' = PublishHostState(q) /\ UNCHANGED <<record, secrets, c, up>>
    BY <1>7, <2>b DEF HostProviderChanges
  <2>2. Linked(g0) /\ g0.open = h.open /\ g0.closing = h.closing /\ g0.coordinated = h.coordinated
        /\ g0.revision = h.revision
    BY <1>1, <2>b DEF Linked, Hosts
  <2>3. g0.coordinated => g0.revision > 0
    BY <1>1, <2>2 DEF Numbered
  <2> HIDE DEF g0
  <2>4. Renumbered(g0, q)
    BY <2>2, <2>3, Recalculated DEF Linked
  <2>5. q = RecalculateHost(g0)
    OBVIOUS
  <2> HIDE DEF q
  <2>6. Linked(q)
    BY <2>2, <2>4, LinkedRenumbered DEF Books
  <2>7. Linked(q1) /\ ~q1.coordinated /\ q1.open = q.open /\ q1.closing = q.closing
    BY <2>6 DEF Linked, Hosts
  <2> HIDE DEF q1
  <2>8. Numbered(q1)
    BY <2>7 DEF Numbered
  <2>9. QED
    BY <1>4, <2>1, <2>2, <2>3, <2>5, <2>7, <2>8
<1>8. QED
  BY <1>3, <1>5, <1>6, <1>7

(* So do the steps of a Client.                                            *)
LEMMA ClientSteps ==
  ASSUME SessionsInv, NEW d \in Devices,
         ClientReceives(d) \/ ClientProviderChanges(d) \/ ClientLosesSession(d) \/ FallbackTimeout(d)
  PROVE  SessionsInv'
<1> DEFINE s == c[d].session
<1>1. Durable /\ Carried /\ Books(h) /\ RevokedAreLeaving
  BY SessionsParts
<1>2. /\ c \in [Devices -> Installations] /\ c[d] \in Installations /\ s \in Sessions \cup {None}
      /\ down \in [Sessions -> Seq(Notices)] /\ up \in [Sessions -> Seq(BOOLEAN)]
  BY <1>1, InstallationFields DEF Carried
<1>3. ASSUME NEW k \in Installations, c' = [c EXCEPT ![d] = k], UNCHANGED <<record, secrets, h>>,
             up' \in [Sessions -> Seq(BOOLEAN)], down' \in [Sessions -> Seq(Notices)]
      PROVE  SessionsInv'
  <2>1. c' \in [Devices -> Installations]
    BY <1>2, <1>3
  <2>2. Carried'
    BY <1>3, <2>1 DEF Carried, Notices, Installations
  <2>3. Durable' /\ RevokedAreLeaving' /\ Books(h')
    BY <1>1, <1>3 DEF Durable, SecretsFollowRecords, RevokedAreLeaving
  <2>4. QED
    BY <2>2, <2>3, SessionsParts1
<1>4. CASE ClientReceives(d)
  <2> DEFINE k == Received(c[d], Head(down[s]))
  <2>1. s # None /\ down[s] # <<>> /\ c' = [c EXCEPT ![d] = k] /\ down' = [down EXCEPT ![s] = Tail(@)]
        /\ UNCHANGED <<record, secrets, h, up>>
    BY <1>4 DEF ClientReceives
  <2>2. s \in Sessions /\ down[s] \in Seq(Notices)
    BY <1>2, <2>1
  <2>3. Head(down[s]) \in Notices /\ Tail(down[s]) \in Seq(Notices)
    BY <2>1, <2>2, HeadAndTail
  <2>4. k \in Installations
    BY <1>2, <2>3, StateReceived
  <2> HIDE DEF k
  <2>5. down' \in [Sessions -> Seq(Notices)] /\ up' \in [Sessions -> Seq(BOOLEAN)]
    BY <1>2, <2>1, <2>2, <2>3
  <2>6. QED
    BY <1>3, <2>1, <2>4, <2>5
<1>5. CASE ClientProviderChanges(d)
  <2>2. PICK b \in BOOLEAN : /\ c' = [c EXCEPT ![d].participating = b]
                              /\ up' = IF s = None THEN up ELSE [up EXCEPT ![s] = Append(@, b)]
    BY <1>5 DEF ClientProviderChanges
  <2> DEFINE k == [c[d] EXCEPT !.participating = b]
  <2>1. c' = [c EXCEPT ![d] = k] /\ up' = (IF s = None THEN up ELSE [up EXCEPT ![s] = Append(@, b)])
        /\ UNCHANGED <<record, secrets, h, down>>
    BY <1>2, <1>5, <2>2 DEF ClientProviderChanges
  <2>3. k \in Installations
    BY <1>2, <2>2 DEF Installations
  <2>4. up' \in [Sessions -> Seq(BOOLEAN)]
    <3>1. CASE s = None
      BY <1>2, <2>1, <3>1
    <3>2. CASE s # None
      <4>1. s \in Sessions /\ up[s] \in Seq(BOOLEAN)
        BY <1>2, <3>2
      <4>2. Append(up[s], b) \in Seq(BOOLEAN)
        BY <2>2, <4>1, Appended
      <4>3. QED
        BY <1>2, <2>1, <3>2, <4>1, <4>2
    <3>3. QED
      BY <3>1, <3>2
  <2> HIDE DEF k
  <2>5. QED
    BY <1>2, <1>3, <2>1, <2>3, <2>4
<1>6. CASE ClientLosesSession(d)
  <2> DEFINE f == c[d].fallback \/ c[d].coordinated
             k == [c[d] EXCEPT !.session = None, !.fallback = f]
  <2>1. /\ s # None /\ c' = [c EXCEPT ![d].session = None, ![d].fallback = @ \/ c[d].coordinated]
        /\ down' = [down EXCEPT ![s] = <<>>] /\ UNCHANGED <<record, secrets, h, up>>
    BY <1>6 DEF ClientLosesSession
  <2>2. f \in BOOLEAN
    OBVIOUS
  <2>3. c' = [c EXCEPT ![d] = k]
    BY <1>2, <2>1 DEF Installations
  <2> HIDE DEF f
  <2>4. k \in Installations
    BY <1>2, <2>2 DEF Installations
  <2>5. down' \in [Sessions -> Seq(Notices)]
    BY <1>2, <2>1
  <2> HIDE DEF k
  <2>6. QED
    BY <1>2, <1>3, <2>1, <2>3, <2>4, <2>5
<1>7. CASE FallbackTimeout(d)
  <2> DEFINE k == [Cleared(c[d]) EXCEPT !.fallback = FALSE]
  <2>1. c' = [c EXCEPT ![d] = k] /\ UNCHANGED <<record, secrets, h, up, down>>
    BY <1>7 DEF FallbackTimeout
  <2>2. k \in Installations
    BY <1>2 DEF Cleared, Installations
  <2> HIDE DEF k
  <2>3. QED
    BY <1>2, <1>3, <2>1, <2>2
<1>8. QED
  BY <1>4, <1>5, <1>6, <1>7

(* So do the beginning and the end of a session.                           *)
LEMMA SessionSteps ==
  ASSUME SessionsInv, NEW s \in Sessions,
         CloseSession(s) \/ \E d \in Devices : Authenticate(d, s)
  PROVE  SessionsInv'
<1>1. Durable /\ Carried /\ Books(h) /\ RevokedAreLeaving /\ h \in Hosts
  BY SessionsParts DEF Books, Linked
<1>2. /\ c \in [Devices -> Installations]
      /\ down \in [Sessions -> Seq(Notices)] /\ up \in [Sessions -> Seq(BOOLEAN)]
      /\ h.open \in [Sessions -> Devices \cup {None}] /\ None \notin Devices
  <2>1. h.open \in [Sessions -> Devices \cup {None}]
    BY <1>1, HostFields
  <2>2. None \notin Devices
    BY SessionsAssumption
  <2>3. QED
    BY <1>1, <2>1, <2>2 DEF Carried
<1>3. CASE CloseSession(s)
  <2> DEFINE q == [SessionDisconnected(h, s) EXCEPT !.open[s] = None, !.closing = @ \ {s}]
  <2>1. h' = q /\ up' = [up EXCEPT ![s] = <<>>] /\ UNCHANGED <<record, secrets, c, down>>
    <3>1. h' = [SessionDisconnected(h, s) EXCEPT !.open[s] = None, !.closing = @ \ {s}]
      BY <1>3 DEF CloseSession
    <3>2. up' = [up EXCEPT ![s] = <<>>] /\ UNCHANGED <<record, secrets, c, down>>
      BY <1>3 DEF CloseSession
    <3>3. QED
      BY <3>1, <3>2
  <2>2. Disconnected(h, s, q)
    BY <1>1, SessionGone
  <2> HIDE DEF q
  <2>3. Books(h') /\ h'.open = [h.open EXCEPT ![s] = None] /\ h'.closing = h.closing \ {s}
    BY <2>1, <2>2 DEF Disconnected
  <2>4. Durable'
    BY <1>1, <2>1 DEF Durable, SecretsFollowRecords
  <2>5. RevokedAreLeaving'
    BY <1>1, <1>2, <2>1, <2>3 DEF RevokedAreLeaving
  <2>6. up' \in [Sessions -> Seq(BOOLEAN)]
    BY <1>2, <2>1
  <2>7. Carried'
    BY <1>1, <2>1, <2>6 DEF Carried, Notices, Installations
  <2>8. QED
    BY <2>3, <2>4, <2>5, <2>7, SessionsParts1
<1>4. ASSUME NEW d \in Devices, Authenticate(d, s)
      PROVE  SessionsInv'
  <2> DEFINE op == [h.open EXCEPT ![s] = d]
             q == [h EXCEPT !.open = op]
             k == [c[d] EXCEPT !.session = s, !.revision = 0]
             u == <<c[d].participating>>
  <2>1. /\ h.open[s] = None /\ record[d] = "active" /\ d \in secrets /\ h' = q
        /\ c' = [c EXCEPT ![d].session = s, ![d].revision = 0]
        /\ up' = [up EXCEPT ![s] = u] /\ down' = [down EXCEPT ![s] = <<>>]
        /\ UNCHANGED <<record, secrets>>
    BY <1>4 DEF Authenticate, Free, MayAuthenticate
  <2>2. op \in [Sessions -> Devices \cup {None}] /\ \A t \in Sessions : op[t] = IF t = s THEN d ELSE h.open[t]
    BY <1>2
  <2> HIDE DEF op
  <2>3. /\ q \in Hosts /\ q.participating = h.participating /\ q.others = h.others
        /\ q.coordinated = h.coordinated /\ q.count = h.count /\ q.revision = h.revision
        /\ q.deviceOf = h.deviceOf /\ q.sessionsOf = h.sessionsOf /\ q.known = h.known
        /\ q.leaving = h.leaving /\ q.open = op /\ q.closing = h.closing
    BY <1>1, <2>2 DEF Hosts
  <2> HIDE DEF q
  <2>4. h.deviceOf[s] = None
    BY <1>1, <2>1 DEF Books, Linked
  <2>5. Linked(q)
    BY <1>1, <2>2, <2>3, <2>4 DEF Books, Linked
  <2>6. Counted(q) = Counted(h)
    BY <2>3 DEF Counted
  <2>7. Participants(q) = Participants(h)
    BY <1>1, <2>3, <2>6, SamePresent
  <2>8. Books(h')
    BY <1>1, <2>1, <2>3, <2>5, <2>7 DEF Books, Numbered
  <2>9. c[d] \in Installations /\ c' = [c EXCEPT ![d] = k]
    BY <1>2, <2>1 DEF Installations
  <2>10. k \in Installations
    BY <2>9 DEF Installations
  <2>11. u \in Seq(BOOLEAN)
    <3>1. c[d].participating \in BOOLEAN
      BY <2>9, InstallationFields
    <3>2. QED
      BY <3>1
  <2> HIDE DEF k, u
  <2>12. up' \in [Sessions -> Seq(BOOLEAN)] /\ down' \in [Sessions -> Seq(Notices)] /\ c' \in [Devices -> Installations]
    <3>1. up' \in [Sessions -> Seq(BOOLEAN)]
      BY <1>2, <2>1, <2>11
    <3>2. down' \in [Sessions -> Seq(Notices)]
      BY <1>2, <2>1
    <3>3. c' \in [Devices -> Installations]
      BY <1>2, <2>9, <2>10
    <3>4. QED
      BY <3>1, <3>2, <3>3
  <2>13. Carried'
    BY <2>12 DEF Carried, Notices, Installations
  <2>14. RevokedAreLeaving'
    BY <1>1, <1>2, <2>1, <2>2, <2>3 DEF RevokedAreLeaving
  <2>15. Durable'
    BY <1>1, <2>1 DEF Durable, SecretsFollowRecords
  <2>16. QED
    BY <2>8, <2>13, <2>14, <2>15, SessionsParts1
<1>5. QED
  BY <1>3, <1>4

(* So does the end of the process.                                         *)
LEMMA RestartKeeps ==
  ASSUME Carried, Restarted, UNCHANGED <<c, down>>, Durable'
  PROVE  SessionsInv'
<1>1. Books(h')
  BY NewHostBooks DEF Restarted
<1>2. RevokedAreLeaving'
  BY DEF RevokedAreLeaving, Restarted, NewHost
<1>3. up' \in [Sessions -> Seq(BOOLEAN)]
  BY DEF Restarted
<1>4. Carried'
  BY <1>3 DEF Carried, Notices, Installations
<1>5. QED
  BY <1>1, <1>2, <1>4, SessionsParts1

(* However far a revocation gets, no record is gone before its credential. *)
LEMMA RevocationKeeps ==
  ASSUME Durable, NEW D \in SUBSET Devices, NEW steps \in 1..3, NEW kept \in SUBSET (D \cap secrets),
         DurablyRevoked(D, steps, kept)
  PROVE  Durable' /\ \A d \in Devices : record'[d] = "active" => d \notin D /\ record[d] = "active"
BY DEF Durable, SecretsFollowRecords, DurablyRevoked

(* Pairing preserves the invariant, wherever it ends.                      *)
LEMMA PairingSteps ==
  ASSUME SessionsInv, NEW d \in Devices, Pair(d) \/ PairUnrecorded(d) \/ PairInterrupted(d)
  PROVE  SessionsInv'
<1>1. Durable /\ Carried /\ Books(h) /\ RevokedAreLeaving /\ h \in Hosts
  BY SessionsParts DEF Books, Linked
<1>2. h.open \in [Sessions -> Devices \cup {None}] /\ record \in [Devices -> {"unused", "active", "absent", "inactive", "removed"}]
  BY <1>1, HostFields DEF Durable
<1>3. CASE Pair(d)
  <2>1. /\ record[d] = "unused" /\ secrets' = secrets \cup {d} /\ record' = [record EXCEPT ![d] = "active"]
        /\ UNCHANGED <<h, up, down>>
    BY <1>3 DEF Pair
  <2>2. PICK received \in BOOLEAN : c' = [c EXCEPT ![d].paired = received]
    BY <1>3 DEF Pair
  <2>3. Durable'
    BY <1>1, <2>1 DEF Durable, SecretsFollowRecords
  <2>4. RevokedAreLeaving'
    BY <1>1, <1>2, <2>1 DEF RevokedAreLeaving
  <2>5. c' \in [Devices -> Installations]
    <3>1. c \in [Devices -> Installations]
      BY <1>1 DEF Carried
    <3>2. [c[d] EXCEPT !.paired = received] \in Installations
      BY <3>1 DEF Installations
    <3>3. c' = [c EXCEPT ![d] = [c[d] EXCEPT !.paired = received]]
      BY <2>2
    <3>4. QED
      BY <3>1, <3>2, <3>3
  <2>6. Carried'
    BY <1>1, <2>1, <2>5 DEF Carried, Notices, Installations
  <2>7. QED
    BY <1>1, <2>1, <2>3, <2>4, <2>6, SessionsParts1
<1>4. CASE PairUnrecorded(d)
  <2>1. /\ record[d] = "unused" /\ record' = [record EXCEPT ![d] = "absent"]
        /\ UNCHANGED <<h, c, up, down>>
    BY <1>4 DEF PairUnrecorded
  <2>2. PICK left \in {{}, {d}} : secrets' = secrets \cup left
    BY <1>4 DEF PairUnrecorded
  <2>3. Durable'
    BY <1>1, <2>1, <2>2 DEF Durable, SecretsFollowRecords
  <2>4. RevokedAreLeaving'
    BY <1>1, <1>2, <2>1 DEF RevokedAreLeaving
  <2>5. Carried'
    BY <1>1, <2>1 DEF Carried, Notices, Installations
  <2>6. QED
    BY <1>1, <2>1, <2>3, <2>4, <2>5, SessionsParts1
<1>5. CASE PairInterrupted(d)
  <2>1. Durable'
    BY <1>1, <1>5 DEF PairInterrupted, Durable, SecretsFollowRecords
  <2>2. Restarted /\ UNCHANGED <<c, down>>
    BY <1>5 DEF PairInterrupted
  <2>3. QED
    BY <1>1, <2>1, <2>2, RestartKeeps
<1>6. QED
  BY <1>3, <1>4, <1>5

(* The sessions a revocation closes.                                       *)
Warned(D) == {s \in Sessions : h.open[s] \in D}

(* It tells them, and counts on.                                           *)
LEMMA Disconnecting ==
  ASSUME Books(h), NEW D, DisconnectAuthenticatedDevices(D), down \in [Sessions -> Seq(Notices)]
  PROVE  /\ Books(h') /\ h'.open = h.open /\ h'.closing = h.closing \cup Warned(D)
         /\ h'.revision = h.revision /\ h'.count = h.count /\ h'.coordinated = h.coordinated
         /\ h'.deviceOf = h.deviceOf /\ h'.others = h.others /\ Counted(h') = Counted(h)
         /\ down' \in [Sessions -> Seq(Notices)]
         /\ \A s \in Sessions : down'[s] = IF s \in Warned(D) /\ Heard(s) THEN Append(down[s], Message("revoked", h)) ELSE down[s]
<1> DEFINE cl == h.closing \cup Warned(D)
           q == [h EXCEPT !.closing = cl]
           m == Message("revoked", h)
<1>1. h' = q /\ down' = [s \in Sessions |-> IF s \in Warned(D) /\ Heard(s) THEN Append(down[s], m) ELSE down[s]]
  BY DEF DisconnectAuthenticatedDevices, Warned
<1>2. h \in Hosts /\ cl \subseteq Sessions /\ Linked(h)
  BY HostFields DEF Books, Linked, Warned
<1>3. m \in Notices
  BY <1>2, MessageNotice
<1>4. h'.closing = h.closing \cup Warned(D)
  BY <1>1, <1>2 DEF Hosts
<1> HIDE DEF cl
<1>5. /\ q \in Hosts /\ q.participating = h.participating /\ q.others = h.others
      /\ q.coordinated = h.coordinated /\ q.count = h.count /\ q.revision = h.revision
      /\ q.deviceOf = h.deviceOf /\ q.sessionsOf = h.sessionsOf /\ q.known = h.known
      /\ q.leaving = h.leaving /\ q.open = h.open
  BY <1>2 DEF Hosts
<1> HIDE DEF q
<1>6. Linked(q)
  BY <1>2, <1>5 DEF Linked
<1>7. Counted(q) = Counted(h)
  BY <1>5 DEF Counted
<1>8. Participants(q) = Participants(h)
  BY <1>2, <1>5, <1>7, SamePresent
<1>9. Books(q)
  BY <1>5, <1>6, <1>8 DEF Books, Numbered
<1> HIDE DEF m
<1>10. down' \in [Sessions -> Seq(Notices)]
  <2>1. \A s \in Sessions : down[s] \in Seq(Notices) /\ Append(down[s], m) \in Seq(Notices)
    BY <1>3
  <2>2. QED
    BY <1>1, <2>1
<1>11. \A s \in Sessions : down'[s] = IF s \in Warned(D) /\ Heard(s) THEN Append(down[s], m) ELSE down[s]
  BY <1>1
<1>12. Books(h') /\ h'.revision = h.revision /\ h'.count = h.count /\ h'.coordinated = h.coordinated
       /\ h'.deviceOf = h.deviceOf /\ h'.others = h.others /\ Counted(h') = Counted(h) /\ h'.open = h.open
  BY <1>1, <1>5, <1>7, <1>9
<1>13. QED
  BY <1>4, <1>10, <1>11, <1>12 DEF m

(* Revocation preserves the invariant, wherever it ends.                   *)
LEMMA RevocationSteps ==
  ASSUME SessionsInv, NEW D \in SUBSET Devices, Revoke(D) \/ RevokeInterrupted(D)
  PROVE  SessionsInv'
<1>1. Durable /\ Carried /\ Books(h) /\ RevokedAreLeaving /\ h \in Hosts
  BY SessionsParts DEF Books, Linked
<1>2. PICK steps \in 1..3, kept \in SUBSET (D \cap secrets) : DurablyRevoked(D, steps, kept)
  BY DEF Revoke, RevokeInterrupted
<1>3. Durable' /\ \A d \in Devices : record'[d] = "active" => d \notin D /\ record[d] = "active"
  BY <1>1, <1>2, RevocationKeeps
<1>4. record' = [d \in Devices |-> IF d \notin D THEN record[d] ELSE IF steps = 3 THEN "removed" ELSE "inactive"]
  BY <1>2 DEF DurablyRevoked
<1>5. CASE Revoke(D)
  <2>1. DisconnectAuthenticatedDevices(D) /\ UNCHANGED <<c, up>>
    BY <1>5 DEF Revoke
  <2>2. /\ Books(h') /\ h'.open = h.open /\ h'.closing = h.closing \cup Warned(D)
        /\ down' \in [Sessions -> Seq(Notices)]
    BY <1>1, <2>1, Disconnecting DEF Carried
  <2>3. RevokedAreLeaving'
    <3>1. SUFFICES ASSUME NEW s \in Sessions, h.open[s] # None, record'[h.open[s]] # "active"
                   PROVE  s \in h.closing \cup Warned(D)
      BY <2>2 DEF RevokedAreLeaving
    <3>2. h.open[s] \in Devices
      BY <1>1, <3>1, HostFields
    <3>3. CASE h.open[s] \in D
      BY <3>3 DEF Warned
    <3>4. CASE h.open[s] \notin D
      BY <1>1, <1>4, <3>1, <3>2, <3>4 DEF RevokedAreLeaving
    <3>5. QED
      BY <3>3, <3>4
  <2>4. Carried'
    BY <1>1, <2>1, <2>2 DEF Carried, Notices, Installations
  <2>5. QED
    BY <1>3, <2>2, <2>3, <2>4, SessionsParts1
<1>6. CASE RevokeInterrupted(D)
  <2>1. Restarted /\ UNCHANGED <<c, down>>
    BY <1>6 DEF RevokeInterrupted
  <2>2. QED
    BY <1>1, <1>3, <2>1, RestartKeeps
<1>7. QED
  BY <1>5, <1>6

(* Every step does.                                                        *)
LEMMA NextSessions == SessionsInv /\ [Next]_vars => SessionsInv'
<1> SUFFICES ASSUME SessionsInv, [Next]_vars
             PROVE  SessionsInv'
  OBVIOUS
<1>1. CASE HostRestarts
  <2>1. Durable /\ Carried
    BY SessionsParts
  <2>2. Durable'
    BY <1>1, <2>1 DEF HostRestarts, Durable, SecretsFollowRecords
  <2>3. QED
    BY <1>1, <2>1, <2>2, RestartKeeps DEF HostRestarts
<1>2. CASE HostProviderChanges \/ (\E n \in 0..MaxOthers : OthersChange(n))
  BY <1>2, HostToldSteps
<1>3. ASSUME NEW d \in Devices, RemovalTimeout(d) \/ FallbackTimeout(d)
      PROVE  SessionsInv'
  BY <1>3, HostToldSteps, ClientSteps
<1>4. ASSUME NEW d \in Devices, ClientReceives(d) \/ ClientProviderChanges(d) \/ ClientLosesSession(d)
      PROVE  SessionsInv'
  BY <1>4, ClientSteps
<1>5. ASSUME NEW d \in Devices, Pair(d) \/ PairUnrecorded(d) \/ PairInterrupted(d)
      PROVE  SessionsInv'
  BY <1>5, PairingSteps
<1>6. ASSUME NEW s \in Sessions, HostReceives(s) \/ CloseSession(s) \/ (\E d \in Devices : Authenticate(d, s))
      PROVE  SessionsInv'
  BY <1>6, HostToldSteps, SessionSteps
<1>7. ASSUME NEW D \in Revocations, Revoke(D) \/ RevokeInterrupted(D)
      PROVE  SessionsInv'
  <2>1. D \in SUBSET Devices
    BY DEF Revocations, Recorded
  <2>2. QED
    BY <1>7, <2>1, RevocationSteps
<1>8. CASE UNCHANGED vars
  <2>1. Durable /\ Carried /\ Books(h) /\ RevokedAreLeaving
    BY SessionsParts
  <2>2. Durable' /\ RevokedAreLeaving' /\ Books(h')
    BY <1>8, <2>1 DEF vars, Durable, SecretsFollowRecords, RevokedAreLeaving
  <2>3. Carried'
    BY <1>8, <2>1 DEF vars, Carried, Notices, Installations
  <2>4. QED
    BY <2>2, <2>3, SessionsParts1
<1>9. QED
  BY <1>1, <1>2, <1>3, <1>4, <1>5, <1>6, <1>7, <1>8 DEF Next

(* The inductive invariant: tables that agree, credentials that follow the *)
(* records, and no session of a revoked device but those being closed.     *)
THEOREM SessionsKept == Spec => []SessionsInv
<1>1. Init => SessionsInv
  BY InitSessions
<1>2. SessionsInv /\ [Next]_vars => SessionsInv'
  BY NextSessions
<1>3. QED
  BY <1>1, <1>2, PTL DEF Spec

(* The tables of the coordination agree, and a state in force counts every *)
(* device once, whatever registrations, losses, timers and revocations     *)
(* interleave.                                                             *)
THEOREM BooksKept == Spec => []BooksAgree
<1>1. SessionsInv => BooksAgree
  BY DEF SessionsInv, Typed, Books, Linked, Numbered, BooksAgree
<1>2. QED
  BY <1>1, SessionsKept, PTL

(* A device that is let in has its credential, and a removed one has left  *)
(* none behind, however a pairing or a revocation fails or ends.           *)
THEOREM SecretsKept == Spec => []SecretsFollowRecords
<1>1. SessionsInv => SecretsFollowRecords
  BY DEF SessionsInv
<1>2. QED
  BY <1>1, SessionsKept, PTL

(* Revocation leaves a device no session but those being closed, also when *)
(* a restart interrupts it.                                                *)
THEOREM RevokedLeave == Spec => []RevokedAreLeaving
<1>1. SessionsInv => RevokedAreLeaving
  BY DEF SessionsInv
<1>2. QED
  BY <1>1, SessionsKept, PTL

-----------------------------------------------------------------------------
(* The inductive invariant of the pacing                                   *)

(* What a Client and its Host share while both have the session s of d:    *)
(* the registrations not yet read end with what the Client is now, no      *)
(* notice is of a later state than the Host's, and a Client that is        *)
(* registered has the Host's state, or it is on its way.                   *)
Timely(g, m) ==
  /\ m.revision <= g.revision
  /\ m.revision = g.revision => m.count = g.count
  /\ m.kind # "revoked" => m.revision > 0

(* A notice of the Host's present state.                                   *)
Tells(g, m) == m.kind # "revoked" /\ m.revision = g.revision

(* The Client has it.                                                      *)
InStep(g, k) == k.coordinated /\ k.revision = g.revision /\ g.revision > 0

Shared(g, d, s, k, u, w) ==
  /\ u = <<>> => (g.deviceOf[s] = d <=> k.participating)
  /\ u # <<>> => (u[Len(u)] <=> k.participating)
  /\ k.revision <= g.revision
  /\ k.revision > 0 => ~k.fallback
  /\ InStep(g, k) => k.count = g.count
  /\ \A i \in DOMAIN w : Timely(g, w[i])
  /\ u = <<>> /\ g.deviceOf[s] = d => InStep(g, k) \/ \E i \in DOMAIN w : Tells(g, w[i])

(* Client and Host both have the session s of d, and made it since the     *)
(* Host's provider last reported.                                          *)
Live(d, s) == c[d].session = s /\ h.open[s] = d /\ s \notin outdated

(* No two Clients have the same session.                                   *)
Alone == \A d, e \in Devices : c[d].session = c[e].session /\ c[d].session # None => d = e

(* The inductive invariant of the pacing.                                  *)
PacedInv ==
  /\ Alone
  /\ ~h.coordinated /\ h.revision > 0 => Counted(h) = {} /\ h.others = 0
  /\ \A d \in Devices, s \in Sessions : Live(d, s) => Shared(h, d, s, c[d], up[s], down[s])

-----------------------------------------------------------------------------
(* What a message changes                                                  *)

(* A notice in time stays so while the Host's revision grows.              *)
LEMMA TimelyStays ==
  ASSUME NEW g \in Hosts, NEW q \in Hosts, NEW m \in Notices, Timely(g, m),
         g.revision <= q.revision, q.revision = g.revision => q.count = g.count
  PROVE  Timely(q, m)
<1>1. g.revision \in Nat /\ q.revision \in Nat /\ m.revision \in Nat
  BY HostFields DEF Notices
<1>2. QED
  BY <1>1 DEF Timely

(* Only the revision, the count and the registration of a Host are shared. *)
LEMMA SharedAlike ==
  ASSUME NEW g, NEW q, NEW d, NEW s, NEW k, NEW u, NEW w, Shared(g, d, s, k, u, w),
         q.revision = g.revision, q.count = g.count, q.deviceOf[s] = d <=> g.deviceOf[s] = d
  PROVE  Shared(q, d, s, k, u, w)
BY DEF Shared, Timely, Tells, InStep

(* What is shared after a new state, sent to all that are registered.      *)
LEMMA HostTold ==
  ASSUME NEW g \in Hosts, NEW q \in Hosts, NEW d, NEW s, NEW k \in Installations,
         NEW u, NEW w \in Seq(Notices), Shared(g, d, s, k, u, w),
         g.revision <= q.revision, q.revision = g.revision => q.count = g.count,
         q.deviceOf[s] = d <=> g.deviceOf[s] = d,
         NEW w2, w2 = w \/ (w2 = Append(w, Message("state", q)) /\ q.revision # g.revision),
         q.revision # g.revision /\ q.deviceOf[s] = d => w2 # w
  PROVE  Shared(q, d, s, k, u, w2)
<1> DEFINE m == Message("state", q)
<1>1. g.revision \in Nat /\ q.revision \in Nat /\ k.revision \in Nat
  BY HostFields, InstallationFields
<1>2. m \in Notices /\ m.kind = "state" /\ m.count = q.count /\ m.revision = q.revision
  BY MessageNotice
<1>3. \A i \in DOMAIN w : w[i] \in Notices
  OBVIOUS
<1>4. \A i \in DOMAIN w : Timely(q, w[i])
  BY <1>3, TimelyStays DEF Shared
<1>5. CASE q.revision = g.revision
  <2>1. w2 = w /\ q.count = g.count
    BY <1>5
  <2>2. QED
    BY <1>5, <2>1, SharedAlike
<1>6. CASE q.revision # g.revision
  <2>1. q.revision > g.revision /\ q.revision > k.revision
    BY <1>1, <1>6 DEF Shared
  <2>2. Timely(q, m) /\ Tells(q, m)
    BY <1>1, <1>2, <2>1 DEF Timely, Tells
  <2>3. ~InStep(q, k) /\ k.revision <= q.revision
    BY <1>1, <2>1 DEF InStep
  <2> HIDE DEF m
  <2>4. CASE w2 = w
    BY <1>4, <1>6, <2>3, <2>4 DEF Shared
  <2>5. CASE w2 = Append(w, m)
    <3>1. /\ Len(w) \in Nat /\ DOMAIN w = 1 .. Len(w) /\ DOMAIN w2 = 1 .. Len(w) + 1
          /\ w2[Len(w) + 1] = m /\ \A i \in 1 .. Len(w) : w2[i] = w[i]
      BY <1>2, <2>5, Appended
    <3>2. \A i \in DOMAIN w2 : i \in DOMAIN w \/ i = Len(w) + 1
      BY <3>1
    <3>3. \A i \in DOMAIN w2 : Timely(q, w2[i])
      BY <1>4, <2>2, <3>1, <3>2
    <3>4. \E i \in DOMAIN w2 : Tells(q, w2[i])
      <4>1. Len(w) + 1 \in DOMAIN w2
        BY <3>1
      <4>2. QED
        BY <2>2, <3>1, <4>1
    <3>5. QED
      BY <2>3, <3>3, <3>4 DEF Shared
  <2>6. QED
    BY <2>4, <2>5 DEF m
<1>7. QED
  BY <1>5, <1>6

(* A notice of revocation tells no state.                                  *)
LEMMA Warns ==
  ASSUME NEW g \in Hosts, NEW d, NEW s, NEW k \in Installations,
         NEW u, NEW w \in Seq(Notices), Shared(g, d, s, k, u, w)
  PROVE  Shared(g, d, s, k, u, Append(w, Message("revoked", g)))
<1> DEFINE m == Message("revoked", g)
           w2 == Append(w, m)
<1>1. m \in Notices /\ m.kind = "revoked" /\ m.count = g.count /\ m.revision = g.revision /\ g.revision \in Nat
  BY MessageNotice, HostFields
<1>2. Timely(g, m)
  BY <1>1 DEF Timely
<1> HIDE DEF m
<1>3. /\ Len(w) \in Nat /\ DOMAIN w = 1 .. Len(w) /\ DOMAIN w2 = 1 .. Len(w) + 1
      /\ w2[Len(w) + 1] = m /\ \A i \in 1 .. Len(w) : w2[i] = w[i]
  BY <1>1, Appended
<1> HIDE DEF w2
<1>4. \A i \in DOMAIN w2 : i \in DOMAIN w \/ i = Len(w) + 1
  BY <1>3
<1>5. \A i \in DOMAIN w2 : Timely(g, w2[i])
  BY <1>2, <1>3, <1>4 DEF Shared
<1>6. (\E i \in DOMAIN w : Tells(g, w[i])) => \E i \in DOMAIN w2 : Tells(g, w2[i])
  <2>1. \A i \in DOMAIN w : i \in DOMAIN w2 /\ w2[i] = w[i]
    BY <1>3
  <2>2. QED
    BY <2>1
<1>7. Shared(g, d, s, k, u, w2)
  BY <1>5, <1>6 DEF Shared
<1>8. QED
  BY <1>7 DEF m, w2

(* The last of a queue stays the last when the first is taken.             *)
LEMMA Remaining ==
  ASSUME NEW S, NEW u \in Seq(S), u # <<>>
  PROVE  /\ Tail(u) = <<>> => Head(u) = u[Len(u)]
         /\ Tail(u) # <<>> => Tail(u)[Len(Tail(u))] = u[Len(u)]
<1>1. /\ Head(u) = u[1] /\ Tail(u) \in Seq(S) /\ Len(u) \in Nat /\ Len(u) >= 1
      /\ Len(Tail(u)) = Len(u) - 1 /\ \A i \in 1 .. Len(u) - 1 : Tail(u)[i] = u[i + 1]
  BY HeadAndTail
<1> DEFINE v == Tail(u)
<1>0. Len(<<>>) = 0
  OBVIOUS
<1>b. Len(v) = Len(u) - 1 /\ Len(u) \in Nat
  BY <1>1
<1> HIDE DEF v
<1>a. v = <<>> => Len(v) = 0
  BY <1>0
<1>2. v = <<>> => Len(u) = 1
  BY <1>a, <1>b
<1> USE DEF v
<1>3. Tail(u) # <<>> => Len(Tail(u)) \in 1 .. Len(u) - 1
  BY <1>1
<1>4. QED
  BY <1>1, <1>2, <1>3

(* After the answer every notice is in time, and one is of the present     *)
(* state.                                                                  *)
LEMMA AnswerSent ==
  ASSUME NEW g \in Hosts, NEW q \in Hosts, NEW w \in Seq(Notices), \A i \in DOMAIN w : Timely(g, w[i]),
         g.revision <= q.revision, q.revision = g.revision => q.count = g.count, q.revision > 0,
         NEW w1, w1 = w \/ (w1 = Append(w, Message("state", q)) /\ q.revision # g.revision)
  PROVE  LET w2 == Append(w1, Message("answer", q))
         IN  /\ \A i \in DOMAIN w2 : Timely(q, w2[i])
             /\ \E i \in DOMAIN w2 : Tells(q, w2[i])
<1> DEFINE m == Message("answer", q)
           n == Message("state", q)
           w2 == Append(w1, m)
<1>1. g.revision \in Nat /\ q.revision \in Nat
  BY HostFields
<1>2. /\ m \in Notices /\ m.kind = "answer" /\ m.count = q.count /\ m.revision = q.revision
      /\ n \in Notices /\ n.kind = "state" /\ n.count = q.count /\ n.revision = q.revision
  BY MessageNotice
<1>3. Timely(q, m) /\ Tells(q, m) /\ Timely(q, n)
  BY <1>1, <1>2 DEF Timely, Tells
<1>4. \A i \in DOMAIN w : w[i] \in Notices
  OBVIOUS
<1>5. \A i \in DOMAIN w : Timely(q, w[i])
  BY <1>4, TimelyStays
<1> HIDE DEF m, n
<1>6. w1 \in Seq(Notices) /\ \A i \in DOMAIN w1 : Timely(q, w1[i])
  <2>1. CASE w1 = w
    BY <1>5, <2>1
  <2>2. CASE w1 = Append(w, n)
    <3>1. /\ Len(w) \in Nat /\ DOMAIN w = 1 .. Len(w) /\ DOMAIN w1 = 1 .. Len(w) + 1 /\ w1 \in Seq(Notices)
          /\ w1[Len(w) + 1] = n /\ \A i \in 1 .. Len(w) : w1[i] = w[i]
      BY <1>2, <2>2, Appended
    <3>2. \A i \in DOMAIN w1 : i \in DOMAIN w \/ i = Len(w) + 1
      BY <3>1
    <3>3. QED
      BY <1>3, <1>5, <3>1, <3>2
  <2>3. QED
    BY <2>1, <2>2 DEF n
<1> DEFINE l == Len(w1)
<1>7. /\ l \in Nat /\ DOMAIN w1 = 1 .. l /\ DOMAIN w2 = 1 .. l + 1
      /\ w2[l + 1] = m /\ \A i \in 1 .. l : w2[i] = w1[i]
  BY <1>2, <1>6, Appended
<1> HIDE DEF w2, l
<1>8. /\ l + 1 \in DOMAIN w2 /\ \A i \in DOMAIN w2 : i = l + 1 \/ (i \in DOMAIN w1 /\ i \in 1 .. l)
  <2>1. l + 1 \in 1 .. l + 1 /\ \A i \in 1 .. l + 1 : i = l + 1 \/ i \in 1 .. l
    BY <1>7
  <2>2. QED
    BY <1>7, <2>1, Zenon
<1>9. \A i \in DOMAIN w2 : Timely(q, w2[i])
  BY <1>3, <1>6, <1>7, <1>8
<1>10. \E i \in DOMAIN w2 : Tells(q, w2[i])
  BY <1>3, <1>7, <1>8
<1>11. QED
  BY <1>9, <1>10 DEF w2, m

(* What is shared after a registration has been read and answered.         *)
LEMMA Answered ==
  ASSUME NEW g \in Hosts, NEW q \in Hosts, NEW d \in Devices, NEW s, NEW k \in Installations,
         NEW u, u # <<>>, NEW w \in Seq(Notices), Shared(g, d, s, k, u, w),
         NEW p \in BOOLEAN, NEW u2, u2 = <<>> => (p <=> u[Len(u)]), u2 # <<>> => (u2[Len(u2)] <=> u[Len(u)]),
         g.revision <= q.revision, q.revision = g.revision => q.count = g.count, q.revision > 0,
         q.deviceOf[s] = IF p THEN d ELSE None,
         NEW w1, w1 = w \/ (w1 = Append(w, Message("state", q)) /\ q.revision # g.revision)
  PROVE  Shared(q, d, s, k, u2, Append(w1, Message("answer", q)))
<1> DEFINE w2 == Append(w1, Message("answer", q))
<1>1. g.revision \in Nat /\ q.revision \in Nat /\ k.revision \in Nat /\ None # d
  BY HostFields, InstallationFields, SessionsAssumption
<1>2. \A i \in DOMAIN w : Timely(g, w[i])
  BY DEF Shared
<1>3. (\A i \in DOMAIN w2 : Timely(q, w2[i])) /\ \E i \in DOMAIN w2 : Tells(q, w2[i])
  BY <1>2, AnswerSent
<1> HIDE DEF w2
<1>12. u[Len(u)] <=> k.participating
  BY DEF Shared
<1>13. u2 = <<>> => (q.deviceOf[s] = d <=> k.participating)
  <2>1. SUFFICES ASSUME u2 = <<>> PROVE q.deviceOf[s] = d <=> k.participating
    OBVIOUS
  <2>2. p <=> k.participating
    BY <1>12, <2>1
  <2>3. CASE p
    BY <2>2, <2>3
  <2>4. CASE ~p
    BY <1>1, <2>2, <2>4
  <2>5. QED
    BY <2>3, <2>4
<1>14. u2 # <<>> => (u2[Len(u2)] <=> k.participating)
  BY <1>12
<1>15. InStep(q, k) => k.count = q.count
  BY <1>1 DEF Shared, InStep
<1>16. k.revision <= q.revision /\ (k.revision > 0 => ~k.fallback)
  BY <1>1 DEF Shared
<1>17. Shared(q, d, s, k, u2, w2)
  BY <1>3, <1>13, <1>14, <1>15, <1>16 DEF Shared
<1>18. QED
  BY <1>17 DEF w2

(* What is shared after the Client has received the first notice.          *)
LEMMA Receives ==
  ASSUME NEW g \in Hosts, NEW d, NEW s, NEW k \in Installations,
         NEW u, NEW w \in Seq(Notices), w # <<>>, Shared(g, d, s, k, u, w)
  PROVE  Shared(g, d, s, Received(k, Head(w)), u, Tail(w))
<1> DEFINE m == Head(w)
           w2 == Tail(w)
           z == Received(k, m)
<1>1. /\ m \in Notices /\ m = w[1] /\ Len(w) \in Nat /\ Len(w) >= 1
      /\ \A i \in 1 .. Len(w) - 1 : w2[i] = w[i + 1]
      /\ DOMAIN w = 1 .. Len(w) /\ DOMAIN w2 = 1 .. Len(w) - 1
  BY HeadAndTail
<1> HIDE DEF m, w2
<1>2. /\ \A i \in DOMAIN w2 : i + 1 \in DOMAIN w /\ w2[i] = w[i + 1]
      /\ 1 \in DOMAIN w /\ \A i \in DOMAIN w : i = 1 \/ (i - 1 \in DOMAIN w2 /\ w2[i - 1] = w[i])
  BY <1>1
<1>3. Timely(g, m) /\ \A i \in DOMAIN w2 : Timely(g, w2[i])
  BY <1>1, <1>2 DEF Shared
<1>4. (\E i \in DOMAIN w : Tells(g, w[i])) => Tells(g, m) \/ \E i \in DOMAIN w2 : Tells(g, w2[i])
  BY <1>1, <1>2
<1>5. /\ g.revision \in Nat /\ g.count \in Nat /\ m.revision \in Nat /\ m.count \in Nat
      /\ m.kind \in {"state", "answer", "revoked"}
      /\ k.revision \in Nat /\ k.coordinated \in BOOLEAN /\ k.participating \in BOOLEAN
  BY <1>1, HostFields, InstallationFields DEF Notices
<1>6. Shared(g, d, s, k, u, w)
  OBVIOUS
<1>7. ASSUME z.participating = k.participating, z.revision <= g.revision, z.revision > 0 => ~z.fallback,
             InStep(g, z) => z.count = g.count,
             u = <<>> /\ g.deviceOf[s] = d => InStep(g, z) \/ \E i \in DOMAIN w2 : Tells(g, w2[i])
      PROVE  Shared(g, d, s, z, u, w2)
  <2> HIDE DEF z
  <2>1. QED
    BY <1>3, <1>6, <1>7 DEF Shared
<1>8. ASSUME z = ApplyRemoteState(k, m) /\ m.kind # "revoked"
      PROVE  Shared(g, d, s, z, u, w2)
  <2>1. CASE k.coordinated /\ m.revision <= k.revision
    <3>1. z = k
      BY <1>8, <2>1 DEF ApplyRemoteState
    <3>2. Tells(g, m) => InStep(g, k)
      BY <1>3, <1>5, <1>6, <2>1 DEF Tells, InStep, Timely, Shared
    <3> HIDE DEF z
    <3>3. QED
      BY <1>3, <1>4, <1>6, <3>1, <3>2 DEF Shared, z
  <2>2. CASE ~(k.coordinated /\ m.revision <= k.revision)
    <3> DEFINE n == m.count
               r == m.revision
               y == [k EXCEPT !.coordinated = TRUE, !.count = n, !.revision = r, !.fallback = FALSE]
    <3>1. z = y
      BY <1>8, <2>2 DEF ApplyRemoteState
    <3>2. n = m.count /\ r = m.revision
      OBVIOUS
    <3> HIDE DEF n, r, z
    <3>3. y.coordinated /\ y.count = n /\ y.revision = r /\ ~y.fallback /\ y.participating = k.participating
      BY DEF Installations
    <3> HIDE DEF y
    <3>4. InStep(g, z) => z.count = g.count
      BY <1>3, <3>1, <3>2, <3>3 DEF InStep, Timely
    <3>5. ~InStep(g, k)
      BY <1>3, <1>5, <2>2 DEF InStep, Timely
    <3>6. Tells(g, m) => InStep(g, z)
      BY <1>3, <1>5, <1>8, <3>1, <3>2, <3>3 DEF Tells, InStep, Timely
    <3>7. z.revision <= g.revision
      BY <1>3, <3>1, <3>2, <3>3 DEF Timely
    <3>8. u = <<>> /\ g.deviceOf[s] = d => InStep(g, z) \/ \E i \in DOMAIN w2 : Tells(g, w2[i])
      BY <1>4, <1>6, <3>5, <3>6 DEF Shared
    <3>9. z.participating = k.participating /\ (z.revision > 0 => ~z.fallback)
      BY <3>1, <3>3
    <3>10. QED
      BY <1>7, <3>4, <3>7, <3>8, <3>9
  <2>3. QED
    BY <2>1, <2>2
<1>9. ASSUME z = Cleared(k) /\ ~k.participating
      PROVE  Shared(g, d, s, z, u, w2)
  <2>1. ~z.coordinated /\ z.revision = 0 /\ z.participating = k.participating
    BY <1>9 DEF Cleared, Installations
  <2> HIDE DEF z
  <2>2. ~InStep(g, z)
    BY <2>1 DEF InStep
  <2>3. ~(u = <<>> /\ g.deviceOf[s] = d)
    BY <1>6, <1>9 DEF Shared
  <2>4. z.revision <= g.revision /\ ~(z.revision > 0)
    BY <1>5, <2>1
  <2>5. QED
    BY <1>7, <2>1, <2>2, <2>3, <2>4 DEF z
<1>10. ASSUME z = [k EXCEPT !.paired = FALSE] /\ m.kind = "revoked"
      PROVE  Shared(g, d, s, z, u, w2)
  <2>1. /\ z.participating = k.participating /\ z.coordinated = k.coordinated /\ z.count = k.count
        /\ z.revision = k.revision /\ z.fallback = k.fallback
    BY <1>10 DEF Installations
  <2>2. ~Tells(g, m)
    BY <1>10 DEF Tells
  <2> HIDE DEF z
  <2>3. InStep(g, z) <=> InStep(g, k)
    BY <2>1 DEF InStep
  <2>4. QED
    BY <1>3, <1>4, <1>6, <2>1, <2>2, <2>3 DEF Shared, z
<1>11. Shared(g, d, s, z, u, w2)
  <2>1. CASE m.kind = "state"
    <3>1. z = ApplyRemoteState(k, m)
      BY <2>1 DEF Received
    <3>2. QED
      BY <1>8, <2>1, <3>1
  <2>2. CASE m.kind = "answer" /\ k.participating
    <3>1. z = ApplyRemoteState(k, m)
      BY <2>2 DEF Received
    <3>2. QED
      BY <1>8, <2>2, <3>1
  <2>3. CASE m.kind = "answer" /\ ~k.participating
    <3>1. z = Cleared(k)
      BY <2>3 DEF Received
    <3>2. QED
      BY <1>9, <2>3, <3>1
  <2>4. CASE m.kind = "revoked"
    <3>1. z = [k EXCEPT !.paired = FALSE]
      BY <2>4 DEF Received
    <3>2. QED
      BY <1>10, <2>4, <3>1
  <2>5. QED
    BY <1>5, <2>1, <2>2, <2>3, <2>4
<1>12. QED
  BY <1>11 DEF z, m, w2

-----------------------------------------------------------------------------
(* The pacing is kept                                                      *)

(* A Host that has counted, and has no state in force, counts nobody.      *)
Idle(g) == ~g.coordinated /\ g.revision > 0 => Counted(g) = {} /\ g.others = 0

(* The invariant, part by part.                                            *)
LEMMA PacedParts ==
  PacedInv <=> /\ Alone /\ Idle(h)
               /\ \A d \in Devices, s \in Sessions : Live(d, s) => Shared(h, d, s, c[d], up[s], down[s])
BY DEF PacedInv, Idle

(* The same after a step.                                                  *)
LEMMA PacedParts1 ==
  ASSUME Alone', Idle(h'),
         \A d \in Devices, s \in Sessions :
           c'[d].session = s /\ h'.open[s] = d /\ s \notin outdated'
             => Shared(h', d, s, c'[d], up'[s], down'[s])
  PROVE  PacedInv'
<1>1. ~h'.coordinated /\ h'.revision > 0 => Counted(h') = {} /\ h'.others = 0
  BY DEF Idle
<1>2. \A d \in Devices, s \in Sessions : Live(d, s)' => Shared(h', d, s, c'[d], up'[s], down'[s])
  BY DEF Live
<1>3. QED
  BY <1>1, <1>2 DEF PacedInv, Shared, Timely, Tells, InStep, Counted

(* What is shared with a session while the Host handles something else.    *)
LEMMA HostPublishes ==
  ASSUME SessionsInv, PacedInv, NEW g, Books(g), h.revision <= g.revision,
         g.revision = h.revision => g.count = h.count, g.open = h.open,
         NEW d \in Devices, NEW s \in Sessions, Live(d, s),
         g.deviceOf[s] = d <=> h.deviceOf[s] = d
  PROVE  Shared(g, d, s, c[d], up[s], PublishHostState(g)[s])
<1> DEFINE m == Message("state", g)
           k == c[d]
           u == up[s]
           w == down[s]
           w2 == PublishHostState(g)[s]
<1>1. Carried /\ Books(h) /\ h \in Hosts /\ g \in Hosts
  BY SessionsParts DEF Books, Linked
<1>2. k \in Installations /\ w \in Seq(Notices) /\ down \in [Sessions -> Seq(Notices)]
  BY <1>1 DEF Carried
<1>3. w2 = IF Told(g, s) THEN Append(w, m) ELSE w
  BY <1>1, <1>2, Published
<1>4. m \in Notices
  BY <1>1, MessageNotice
<1> HIDE DEF m, w2
<1>5. Append(w, m) # w
  <2>1. Len(w) \in Nat /\ Len(Append(w, m)) = Len(w) + 1
    BY <1>2, <1>4, Appended
  <2>2. QED
    BY <2>1
<1>6. Shared(h, d, s, k, u, w)
  BY PacedParts
<1>7. Told(g, s) => g.revision # h.revision
  BY DEF Told
<1>8. g.revision # h.revision /\ g.deviceOf[s] = d => Told(g, s)
  <2>1. SUFFICES ASSUME g.revision # h.revision, g.deviceOf[s] = d PROVE Told(g, s)
    OBVIOUS
  <2>2. s \in g.sessionsOf[d]
    BY <2>1 DEF Books, Linked
  <2>3. d \in g.known
    BY <2>2 DEF Books, Linked
  <2>4. QED
    BY <2>1, <2>3 DEF Told, Live, Heard
<1>9. w2 = w \/ (w2 = Append(w, m) /\ g.revision # h.revision)
  BY <1>3, <1>7
<1>10. g.revision # h.revision /\ g.deviceOf[s] = d => w2 # w
  BY <1>3, <1>5, <1>8
<1> HIDE DEF k, u, w
<1>11. w2 = w \/ (w2 = Append(w, Message("state", g)) /\ g.revision # h.revision)
  BY <1>9 DEF m
<1>12. Shared(g, d, s, k, u, w2)
  BY <1>1, <1>2, <1>6, <1>10, <1>11, HostTold
<1>13. QED
  BY <1>12 DEF k, u, w2

(* A recount that is published preserves the invariant.                    *)
LEMMA HostRecountsPaced ==
  ASSUME SessionsInv, PacedInv, SessionsInv', NEW g0, g0 \in Hosts, NEW q, h' = q,
         Renumbered(g0, q), g0.revision = h.revision, g0.count = h.count,
         g0.deviceOf = h.deviceOf, g0.open = h.open,
         down' = PublishHostState(q), UNCHANGED <<c, up, outdated>>
  PROVE  PacedInv'
<1>1. Books(q) /\ Alone
  BY SessionsParts1, PacedParts
<1>2. /\ h.revision <= q.revision /\ (q.revision = h.revision => q.count = h.count)
      /\ q.open = h.open /\ q.deviceOf = h.deviceOf /\ (~q.coordinated => Participants(q) = 0) /\ q \in Hosts
  BY DEF Renumbered
<1>3. Idle(q)
  BY <1>2, Present DEF Idle
<1>4. ASSUME NEW d \in Devices, NEW s \in Sessions, c[d].session = s, q.open[s] = d, s \notin outdated
      PROVE  Shared(q, d, s, c[d], up[s], PublishHostState(q)[s])
  <2>1. Live(d, s)
    BY <1>2, <1>4 DEF Live
  <2>2. q.deviceOf[s] = d <=> h.deviceOf[s] = d
    BY <1>2
  <2>3. QED
    BY <1>1, <1>2, <2>1, <2>2, HostPublishes
<1>5. Alone'
  BY <1>1 DEF Alone
<1>6. QED
  BY <1>3, <1>4, <1>5, PacedParts1

(* So does a registration, for its own session and the others.             *)
LEMMA HostReceivesPaced ==
  ASSUME SessionsInv, PacedInv, SessionsInv', NEW s \in Sessions, HostReceives(s)
  PROVE  PacedInv'
<1> DEFINE p == Head(up[s])
           g == RegisterParticipant(h, s, p)
           m == Message("answer", g)
           pd == PublishHostState(g)
<1>1. Carried /\ Books(h) /\ h \in Hosts /\ Alone
  BY SessionsParts, PacedParts DEF Books, Linked
<1>2. c \in [Devices -> Installations] /\ up \in [Sessions -> Seq(BOOLEAN)] /\ down \in [Sessions -> Seq(Notices)]
  BY <1>1 DEF Carried
<1>3. h.open[s] # None /\ up[s] # <<>> /\ up[s] \in Seq(BOOLEAN)
  BY <1>2 DEF HostReceives
<1>4. h' = g /\ UNCHANGED <<c, outdated>> /\ up' = [up EXCEPT ![s] = Tail(@)]
      /\ down' = [pd EXCEPT ![s] = IF Heard(s) THEN Append(@, m) ELSE @]
  BY DEF HostReceives
<1>5. p \in BOOLEAN
  BY <1>3, HeadAndTail
<1>6. Registered(h, s, p, g)
  <2> HIDE DEF p
  <2>1. QED
    BY <1>1, <1>3, <1>5, ParticipantRegistered
<1>7. (Tail(up[s]) = <<>> => p = up[s][Len(up[s])])
      /\ (Tail(up[s]) # <<>> => Tail(up[s])[Len(Tail(up[s]))] = up[s][Len(up[s])])
  BY <1>3, Remaining
<1> HIDE DEF g, p
<1>8. /\ Books(g) /\ g.open = h.open /\ g \in Hosts
      /\ g.deviceOf = [h.deviceOf EXCEPT ![s] = IF p THEN h.open[s] ELSE None]
      /\ h.revision <= g.revision /\ g.revision > 0
      /\ g.revision = h.revision => g.count = h.count
      /\ ~g.coordinated => Participants(g) = 0
  BY <1>6 DEF Registered, Books, Linked
<1>9. Idle(g)
  BY <1>8, Present DEF Idle
<1>10. pd \in [Sessions -> Seq(Notices)]
       /\ \A t \in Sessions : pd[t] = IF Told(g, t) THEN Append(down[t], Message("state", g)) ELSE down[t]
  BY <1>2, <1>8, Published
<1>11. h.deviceOf \in [Sessions -> Devices \cup {None}]
  BY <1>1, HostFields
<1>12. ASSUME NEW d \in Devices, NEW t \in Sessions, c[d].session = t, g.open[t] = d, t \notin outdated
       PROVE  Shared(g, d, t, c[d], up'[t], down'[t])
  <2>1. Live(d, t)
    BY <1>8, <1>12 DEF Live
  <2>2. CASE t # s
    <3>1. g.deviceOf[t] = d <=> h.deviceOf[t] = d
      BY <1>8, <1>11, <2>2
    <3>2. Shared(g, d, t, c[d], up[t], PublishHostState(g)[t])
      BY <1>8, <2>1, <3>1, HostPublishes
    <3> HIDE DEF pd
    <3>3. up'[t] = up[t] /\ down'[t] = pd[t]
      BY <1>2, <1>4, <1>10, <2>2
    <3>4. QED
      BY <3>2, <3>3 DEF pd
  <2>3. CASE t = s
    <3> DEFINE k == c[d]
               u == up[s]
               u2 == Tail(u)
               w == down[s]
               w1 == pd[s]
               x == u[Len(u)]
    <3>1. Heard(s)
      BY <1>12, <2>3 DEF Heard
    <3>2. up'[s] = u2
      BY <1>2, <1>4
    <3>3. down'[s] = Append(w1, Message("answer", g))
      <4> HIDE DEF pd, m
      <4>1. down'[s] = Append(pd[s], m)
        BY <1>4, <1>10, <3>1
      <4>2. QED
        BY <4>1 DEF m
    <3>4. g.deviceOf[s] = IF p THEN d ELSE None
      BY <1>8, <1>11, <1>12, <2>3
    <3>5. w1 = w \/ (w1 = Append(w, Message("state", g)) /\ g.revision # h.revision)
      BY <1>10 DEF Told
    <3>6. Shared(h, d, s, k, u, w)
      BY <2>1, <2>3, PacedParts
    <3>7. k \in Installations /\ w \in Seq(Notices) /\ u # <<>>
      BY <1>2, <1>3
    <3>8. u2 = <<>> => (p <=> u[Len(u)])
      BY <1>7
    <3>9. u2 # <<>> => (u2[Len(u2)] <=> u[Len(u)])
      BY <1>7
    <3> HIDE DEF k, u, u2, w, w1
    <3>10. Shared(g, d, s, k, u2, Append(w1, Message("answer", g)))
      BY <1>1, <1>5, <1>8, <3>4, <3>5, <3>6, <3>7, <3>8, <3>9, Answered
    <3>11. QED
      BY <2>3, <3>2, <3>3, <3>10 DEF k
  <2>4. QED
    BY <2>2, <2>3
<1>13. Alone'
  BY <1>1, <1>4 DEF Alone
<1>14. QED
  BY <1>4, <1>9, <1>12, <1>13, PacedParts1

(* So do removal timers, other devices, and the Host's provider, whose     *)
(* report leaves every session outdated.                                   *)
LEMMA HostStepsPaced ==
  ASSUME SessionsInv, PacedInv, SessionsInv',
         (\E d \in Devices : RemovalTimeout(d)) \/ (\E n \in 0..MaxOthers : OthersChange(n)) \/ HostProviderChanges
  PROVE  PacedInv'
<1>1. Carried /\ Books(h) /\ h \in Hosts /\ Alone /\ Linked(h) /\ Numbered(h)
  BY SessionsParts, PacedParts DEF Books, Linked
<1>2. ASSUME NEW d \in Devices, RemovalTimeout(d)
      PROVE  PacedInv'
  <2> DEFINE g0 == Retired(h, d)
             q == RecalculateHost(g0)
  <2>1. d \in h.leaving /\ h' = q /\ down' = PublishHostState(q) /\ UNCHANGED <<c, up, outdated>>
    BY <1>2 DEF RemovalTimeout, Retired
  <2>2. Linked(g0) /\ g0.open = h.open /\ g0.deviceOf = h.deviceOf /\ g0.coordinated = h.coordinated
        /\ g0.revision = h.revision /\ g0.count = h.count
    BY <1>1, <2>1, DeviceRetired
  <2>3. g0.coordinated => g0.revision > 0
    BY <1>1, <2>2 DEF Numbered
  <2> HIDE DEF g0
  <2>4. Renumbered(g0, q) /\ g0 \in Hosts
    BY <2>2, <2>3, Recalculated DEF Linked
  <2> HIDE DEF q
  <2>5. QED
    BY <2>1, <2>2, <2>4, HostRecountsPaced
<1>3. ASSUME NEW n \in 0..MaxOthers, OthersChange(n)
      PROVE  PacedInv'
  <2> DEFINE g0 == [h EXCEPT !.others = n]
             q == RecalculateHost(g0)
  <2>1. h' = q /\ down' = PublishHostState(q) /\ UNCHANGED <<c, up, outdated>> /\ n \in Nat
    BY <1>3, SessionsAssumption DEF OthersChange
  <2>2. g0 \in Hosts /\ g0.open = h.open /\ g0.deviceOf = h.deviceOf /\ g0.coordinated = h.coordinated
        /\ g0.revision = h.revision /\ g0.count = h.count
    BY <1>1, <2>1 DEF Hosts
  <2>3. g0.coordinated => g0.revision > 0
    BY <1>1, <2>2 DEF Numbered
  <2> HIDE DEF g0
  <2>4. Renumbered(g0, q)
    BY <2>2, <2>3, Recalculated
  <2> HIDE DEF q
  <2>5. QED
    BY <2>1, <2>2, <2>4, HostRecountsPaced
<1>4. ASSUME HostProviderChanges
      PROVE  PacedInv'
  <2>1. PICK b \in BOOLEAN :
          LET g == RecalculateHost([h EXCEPT !.participating = b])
          IN  h' = [g EXCEPT !.coordinated = FALSE, !.count = 0, !.revision = 0]
    BY <1>4 DEF HostProviderChanges
  <2>2. UNCHANGED c /\ outdated' = {s \in Sessions : h.open[s] # None /\ Heard(s)}
    BY <1>4 DEF HostProviderChanges
  <2> DEFINE g0 == [h EXCEPT !.participating = b]
             q == RecalculateHost(g0)
             q1 == [q EXCEPT !.coordinated = FALSE, !.count = 0, !.revision = 0]
  <2>3. g0 \in Hosts /\ g0.open = h.open /\ g0.coordinated = h.coordinated /\ g0.revision = h.revision
    BY <1>1 DEF Hosts
  <2>4. g0.coordinated => g0.revision > 0
    BY <1>1, <2>3 DEF Numbered
  <2>5. h' = q1
    BY <2>1
  <2> HIDE DEF g0
  <2>6. Renumbered(g0, q)
    BY <2>3, <2>4, Recalculated
  <2> HIDE DEF q
  <2>7. q \in Hosts /\ q.open = h.open
    BY <2>3, <2>6 DEF Renumbered
  <2>8. q1.open = h.open /\ q1.revision = 0
    BY <2>7 DEF Hosts
  <2> HIDE DEF q1
  <2>9. Idle(q1)
    BY <2>8 DEF Idle
  <2>10. \A d \in Devices, s \in Sessions : c[d].session = s /\ q1.open[s] = d => s \in outdated'
    BY <2>2, <2>8, SessionsAssumption DEF Heard
  <2>11. Alone'
    BY <1>1, <2>2 DEF Alone
  <2>12. QED
    BY <2>2, <2>5, <2>9, <2>10, <2>11, PacedParts1
<1>5. QED
  BY <1>2, <1>3, <1>4

(* Nothing changes on the way of the other sessions.                       *)
Elsewhere(s) ==
  \A t \in Sessions :
    t # s => up'[t] = up[t] /\ down'[t] = down[t] /\ (t \in outdated' <=> t \in outdated)

(* A Client that becomes k still shares its session.                       *)
StillShared(d, s, k) ==
  /\ s \in Sessions /\ k.session = s => (s \in outdated' <=> s \in outdated)
  /\ s \in Sessions /\ k.session = s /\ Live(d, s) => Shared(h, d, s, k, up'[s], down'[s])

(* The steps of a Client preserve the invariant.                           *)
LEMMA ClientStepsPaced ==
  ASSUME SessionsInv, PacedInv, NEW d \in Devices,
         ClientReceives(d) \/ ClientProviderChanges(d) \/ ClientLosesSession(d) \/ FallbackTimeout(d)
  PROVE  PacedInv'
<1> DEFINE s == c[d].session
<1>1. /\ c \in [Devices -> Installations] /\ up \in [Sessions -> Seq(BOOLEAN)]
      /\ down \in [Sessions -> Seq(Notices)] /\ h \in Hosts
  BY SessionsParts DEF Carried, Books, Linked
<1>2. /\ Alone /\ Idle(h)
      /\ \A e \in Devices, t \in Sessions : Live(e, t) => Shared(h, e, t, c[e], up[t], down[t])
  BY PacedParts
<1>3. c[d] \in Installations /\ s \in Sessions \cup {None} /\ None \notin Sessions
  BY <1>1, InstallationFields, SessionsAssumption
<1>4. ASSUME NEW k \in Installations, k.session \in {s, None}, c' = [c EXCEPT ![d] = k], UNCHANGED h,
             Elsewhere(s), StillShared(d, s, k)
      PROVE  PacedInv'
  <2>a. \A t \in Sessions : t # s => up'[t] = up[t] /\ down'[t] = down[t] /\ (t \in outdated' <=> t \in outdated)
    BY <1>4 DEF Elsewhere
  <2>b. /\ s \in Sessions /\ k.session = s => (s \in outdated' <=> s \in outdated)
        /\ s \in Sessions /\ k.session = s /\ Live(d, s) => Shared(h, d, s, k, up'[s], down'[s])
    BY <1>4 DEF StillShared
  <2>1. \A e \in Devices : c'[e] = IF e = d THEN k ELSE c[e]
    BY <1>1, <1>4
  <2>2. Alone'
    BY <1>2, <1>4, <2>1 DEF Alone
  <2>3. ASSUME NEW e \in Devices, NEW t \in Sessions, c'[e].session = t, h.open[t] = e, t \notin outdated'
        PROVE  Shared(h, e, t, c'[e], up'[t], down'[t])
    <3>1. CASE e = d
      <4>1. t = s /\ k.session = s /\ Live(d, s) /\ c'[e] = k
        BY <1>3, <1>4, <2>1, <2>3, <2>b, <3>1 DEF Live
      <4>2. QED
        BY <2>b, <3>1, <4>1
    <3>2. CASE e # d
      <4>1. c'[e] = c[e]
        BY <2>1, <3>2
      <4>2. t # s
        BY <1>2, <1>3, <2>3, <3>2, <4>1 DEF Alone
      <4>0. Live(e, t)
        BY <2>3, <2>a, <4>1, <4>2 DEF Live
      <4>3. up'[t] = up[t] /\ down'[t] = down[t]
        BY <2>a, <4>2
      <4>4. QED
        BY <1>2, <4>0, <4>1, <4>3
    <3>3. QED
      BY <3>1, <3>2
  <2>4. QED
    BY <1>2, <1>4, <2>2, <2>3, PacedParts1
<1>5. CASE ClientReceives(d)
  <2> DEFINE k == Received(c[d], Head(down[s]))
  <2>1. s # None /\ down[s] # <<>> /\ c' = [c EXCEPT ![d] = k] /\ down' = [down EXCEPT ![s] = Tail(@)]
        /\ UNCHANGED <<h, up, outdated>>
    BY <1>5 DEF ClientReceives
  <2>2. s \in Sessions /\ down[s] \in Seq(Notices) /\ Head(down[s]) \in Notices
    <3>1. s \in Sessions /\ down[s] \in Seq(Notices)
      BY <1>1, <1>3, <2>1
    <3>2. QED
      BY <2>1, <3>1, HeadAndTail
  <2>3. k.session = s /\ k \in Installations
    BY <1>3, <2>2, StateReceived
  <2>4. down'[s] = Tail(down[s]) /\ up'[s] = up[s] /\ \A t \in Sessions : t # s => up'[t] = up[t] /\ down'[t] = down[t]
    BY <1>1, <2>1, <2>2
  <2>5. Live(d, s) => Shared(h, d, s, k, up[s], Tail(down[s]))
    <3>1. SUFFICES ASSUME Live(d, s) PROVE Shared(h, d, s, k, up[s], Tail(down[s]))
      OBVIOUS
    <3> DEFINE i == c[d]
               u == up[s]
               w == down[s]
    <3>2. Shared(h, d, s, i, u, w)
      BY <1>2, <2>2, <3>1
    <3>3. h \in Hosts /\ i \in Installations /\ w \in Seq(Notices) /\ w # <<>>
      BY <1>1, <1>3, <2>1, <2>2
    <3> HIDE DEF i, u, w
    <3>4. Shared(h, d, s, Received(i, Head(w)), u, Tail(w))
      BY <3>2, <3>3, Receives
    <3>5. QED
      BY <3>4 DEF i, u, w
  <2> HIDE DEF k
  <2>6. c' = [c EXCEPT ![d] = k]
    BY <2>1, <2>3, <2>4, <2>5
  <2>u. UNCHANGED h
    BY <2>1, <2>3, <2>4, <2>5
  <2>v. k \in Installations /\ k.session \in {s, None}
    BY <2>1, <2>3, <2>4, <2>5
  <2>7. Elsewhere(s)
    BY <2>1, <2>3, <2>4, <2>5 DEF Elsewhere
  <2>8. StillShared(d, s, k)
    BY <2>1, <2>3, <2>4, <2>5 DEF StillShared
  <2>9. QED
    BY <1>4, <2>6, <2>u, <2>v, <2>7, <2>8
<1>6. CASE ClientProviderChanges(d)
  <2>2. PICK b \in BOOLEAN : /\ c' = [c EXCEPT ![d].participating = b]
                              /\ up' = IF s = None THEN up ELSE [up EXCEPT ![s] = Append(@, b)]
    BY <1>6 DEF ClientProviderChanges
  <2> DEFINE k == [c[d] EXCEPT !.participating = b]
  <2>1. c' = [c EXCEPT ![d] = k] /\ up' = (IF s = None THEN up ELSE [up EXCEPT ![s] = Append(@, b)])
        /\ UNCHANGED <<h, down, outdated>>
    BY <1>1, <1>6, <2>2 DEF ClientProviderChanges
  <2>3. /\ k \in Installations /\ k.session = s /\ k.participating = b /\ k.coordinated = c[d].coordinated
        /\ k.count = c[d].count /\ k.revision = c[d].revision /\ k.fallback = c[d].fallback
    BY <1>3, <2>2 DEF Installations
  <2> HIDE DEF k
  <2>4. \A t \in Sessions : t # s => up'[t] = up[t] /\ down'[t] = down[t]
    BY <1>1, <1>3, <2>1
  <2>5. ASSUME s \in Sessions, Live(d, s)
        PROVE  Shared(h, d, s, k, up'[s], down'[s])
    <3> DEFINE v == Append(up[s], b)
    <3>1. up'[s] = v /\ down'[s] = down[s]
      BY <1>1, <1>3, <2>1, <2>5
    <3>2. v # <<>> /\ v[Len(v)] = b
      <4>1. up[s] \in Seq(BOOLEAN)
        BY <1>1, <2>5
      <4>2. v # <<>> /\ Len(v) = Len(up[s]) + 1 /\ v[Len(up[s]) + 1] = b
        BY <2>2, <4>1, Appended
      <4> HIDE DEF v
      <4>3. QED
        BY <4>2
    <3>3. Shared(h, d, s, c[d], up[s], down[s])
      BY <1>2, <2>5
    <3> HIDE DEF v
    <3>4. InStep(h, k) <=> InStep(h, c[d])
      BY <2>3 DEF InStep
    <3>5. v[Len(v)] <=> k.participating
      BY <2>3, <3>2
    <3>6. /\ k.revision <= h.revision /\ (k.revision > 0 => ~k.fallback)
          /\ (InStep(h, k) => k.count = h.count) /\ \A i \in DOMAIN down[s] : Timely(h, (down[s])[i])
      BY <2>3, <3>3, <3>4 DEF Shared
    <3>7. Shared(h, d, s, k, v, down[s])
      BY <3>2, <3>5, <3>6 DEF Shared
    <3>8. QED
      BY <3>1, <3>7
  <2>6. c' = [c EXCEPT ![d] = k]
    BY <2>1, <2>3, <2>4, <2>5
  <2>u. UNCHANGED h
    BY <2>1, <2>3, <2>4, <2>5
  <2>v. k \in Installations /\ k.session \in {s, None}
    BY <2>1, <2>3, <2>4, <2>5
  <2>7. Elsewhere(s)
    BY <2>1, <2>3, <2>4, <2>5 DEF Elsewhere
  <2>8. StillShared(d, s, k)
    BY <2>1, <2>3, <2>4, <2>5 DEF StillShared
  <2>9. QED
    BY <1>4, <2>6, <2>u, <2>v, <2>7, <2>8
<1>7. CASE ClientLosesSession(d)
  <2> DEFINE f == c[d].fallback \/ c[d].coordinated
             k == [c[d] EXCEPT !.session = None, !.fallback = f]
  <2>1. /\ s # None /\ c' = [c EXCEPT ![d].session = None, ![d].fallback = @ \/ c[d].coordinated]
        /\ down' = [down EXCEPT ![s] = <<>>] /\ outdated' = outdated \ {s} /\ UNCHANGED <<h, up>>
    BY <1>7 DEF ClientLosesSession
  <2>2. c' = [c EXCEPT ![d] = k]
    BY <1>1, <2>1 DEF Installations
  <2>f. f \in BOOLEAN
    OBVIOUS
  <2> HIDE DEF f
  <2>3. k.session = None /\ k \in Installations
    BY <1>3, <2>f DEF Installations
  <2> HIDE DEF k
  <2>4. \A t \in Sessions : t # s => up'[t] = up[t] /\ down'[t] = down[t]
    BY <1>1, <2>1
  <2>5. k.session # s
    BY <2>1, <2>3
  <2>6. c' = [c EXCEPT ![d] = k]
    BY <2>2
  <2>u. UNCHANGED h
    BY <2>1, <2>2, <2>3, <2>4, <2>5
  <2>v. k \in Installations /\ k.session \in {s, None}
    BY <2>3
  <2>7. Elsewhere(s)
    BY <2>1, <2>2, <2>3, <2>4, <2>5 DEF Elsewhere
  <2>8. StillShared(d, s, k)
    BY <2>1, <2>2, <2>3, <2>4, <2>5 DEF StillShared
  <2>9. QED
    BY <1>4, <2>6, <2>u, <2>v, <2>7, <2>8
<1>8. CASE FallbackTimeout(d)
  <2> DEFINE k == [Cleared(c[d]) EXCEPT !.fallback = FALSE]
  <2>1. c[d].fallback /\ c' = [c EXCEPT ![d] = k] /\ UNCHANGED <<h, up, down, outdated>>
    BY <1>8 DEF FallbackTimeout
  <2>2. /\ k \in Installations /\ k.session = s /\ k.participating = c[d].participating /\ ~k.coordinated
        /\ k.revision = 0 /\ ~k.fallback
    BY <1>3 DEF Cleared, Installations
  <2> HIDE DEF k
  <2>3. ASSUME s \in Sessions, Live(d, s)
        PROVE  Shared(h, d, s, k, up[s], down[s])
    <3>1. Shared(h, d, s, c[d], up[s], down[s])
      BY <1>2, <2>3
    <3>2. ~InStep(h, c[d])
      <4>1. c[d].revision \in Nat /\ h.revision \in Nat
        BY <1>1, <1>3, HostFields, InstallationFields
      <4>2. ~(c[d].revision > 0)
        BY <2>1, <3>1 DEF Shared
      <4>3. QED
        BY <4>1, <4>2 DEF InStep
    <3>3. ~InStep(h, k) /\ k.revision <= h.revision
      BY <1>1, <2>2, HostFields DEF InStep
    <3>4. QED
      BY <2>2, <3>1, <3>2, <3>3 DEF Shared
  <2>4. c' = [c EXCEPT ![d] = k]
    BY <2>1, <2>2, <2>3
  <2>u. UNCHANGED h
    BY <2>1, <2>2, <2>3
  <2>v. k \in Installations /\ k.session \in {s, None}
    BY <2>1, <2>2, <2>3
  <2>5. Elsewhere(s)
    BY <2>1, <2>2, <2>3 DEF Elsewhere
  <2>6. StillShared(d, s, k)
    BY <2>1, <2>2, <2>3 DEF StillShared
  <2>7. QED
    BY <1>4, <2>4, <2>u, <2>v, <2>5, <2>6
<1>9. QED
  BY <1>5, <1>6, <1>7, <1>8

(* So do the beginning and the end of a session.                           *)
LEMMA SessionStepsPaced ==
  ASSUME SessionsInv, PacedInv, NEW s \in Sessions,
         CloseSession(s) \/ \E d \in Devices : Authenticate(d, s)
  PROVE  PacedInv'
<1>1. /\ c \in [Devices -> Installations] /\ up \in [Sessions -> Seq(BOOLEAN)]
      /\ down \in [Sessions -> Seq(Notices)] /\ Books(h) /\ h \in Hosts
  BY SessionsParts DEF Carried, Books, Linked
<1>2. /\ Alone /\ Idle(h)
      /\ \A e \in Devices, t \in Sessions : Live(e, t) => Shared(h, e, t, c[e], up[t], down[t])
  BY PacedParts
<1>3. /\ h.open \in [Sessions -> Devices \cup {None}] /\ h.deviceOf \in [Sessions -> Devices \cup {None}]
      /\ h.revision \in Nat /\ None \notin Devices /\ None \notin Sessions
  BY <1>1, HostFields, SessionsAssumption
<1>4. CASE CloseSession(s)
  <2> DEFINE q == [SessionDisconnected(h, s) EXCEPT !.open[s] = None, !.closing = @ \ {s}]
  <2>1. h' = q /\ up' = [up EXCEPT ![s] = <<>>] /\ outdated' = outdated \ {s} /\ UNCHANGED <<c, down>>
    BY <1>4 DEF CloseSession
  <2>2. Disconnected(h, s, q)
    BY <1>1, SessionGone
  <2> HIDE DEF q
  <2>3. /\ q.coordinated = h.coordinated /\ q.others = h.others /\ Counted(q) = Counted(h)
        /\ q.count = h.count /\ q.revision = h.revision
        /\ \A t \in Sessions : /\ q.open[t] = IF t = s THEN None ELSE h.open[t]
                               /\ q.deviceOf[t] = IF t = s THEN None ELSE h.deviceOf[t]
    BY <1>3, <2>2 DEF Disconnected
  <2>4. Idle(q)
    BY <1>2, <2>3 DEF Idle
  <2>5. ASSUME NEW d \in Devices, NEW t \in Sessions, c[d].session = t, q.open[t] = d, t \notin outdated'
        PROVE  Shared(q, d, t, c[d], up'[t], down[t])
    <3>1. t # s /\ Live(d, t)
      BY <1>3, <2>1, <2>3, <2>5 DEF Live
    <3>2. Shared(h, d, t, c[d], up[t], down[t])
      BY <1>2, <3>1
    <3>3. q.deviceOf[t] = d <=> h.deviceOf[t] = d
      BY <2>3, <3>1
    <3>4. Shared(q, d, t, c[d], up[t], down[t])
      BY <2>3, <3>2, <3>3, SharedAlike
    <3>5. up'[t] = up[t]
      BY <1>1, <2>1, <3>1
    <3>6. QED
      BY <3>4, <3>5
  <2>6. Alone'
    BY <1>2, <2>1 DEF Alone
  <2>7. QED
    BY <2>1, <2>4, <2>5, <2>6, PacedParts1
<1>5. ASSUME NEW d \in Devices, Authenticate(d, s)
      PROVE  PacedInv'
  <2> DEFINE op == [h.open EXCEPT ![s] = d]
             q == [h EXCEPT !.open = op]
             k == [c[d] EXCEPT !.session = s, !.revision = 0]
             b == c[d].participating
             u == <<b>>
  <2>1. /\ c[d].session = None /\ h.open[s] = None /\ (\A e \in Devices : c[e].session # s) /\ h' = q
        /\ c' = [c EXCEPT ![d].session = s, ![d].revision = 0]
        /\ up' = [up EXCEPT ![s] = u] /\ down' = [down EXCEPT ![s] = <<>>] /\ UNCHANGED outdated
    BY <1>5 DEF Authenticate, Free
  <2>2. \A t \in Sessions : op[t] = IF t = s THEN d ELSE h.open[t]
    BY <1>3
  <2> HIDE DEF op
  <2>3. /\ q.others = h.others /\ q.coordinated = h.coordinated /\ q.count = h.count /\ q.revision = h.revision
        /\ q.deviceOf = h.deviceOf /\ q.sessionsOf = h.sessionsOf /\ q.known = h.known
        /\ q.leaving = h.leaving /\ q.open = op
    BY <1>1 DEF Hosts
  <2> HIDE DEF q
  <2>4. Idle(q)
    BY <1>2, <2>3 DEF Idle, Counted
  <2>5. c' = [c EXCEPT ![d] = k] /\ k.session = s /\ k.revision = 0 /\ k.participating = b
    BY <1>1, <2>1 DEF Installations
  <2> HIDE DEF k
  <2>6. \A e \in Devices : c'[e] = IF e = d THEN k ELSE c[e]
    BY <1>1, <2>5
  <2>7. Alone'
    BY <1>2, <1>3, <2>1, <2>5, <2>6 DEF Alone
  <2>8. u # <<>> /\ u[Len(u)] = b
    OBVIOUS
  <2> HIDE DEF b, u
  <2>9. up'[s] = u /\ down'[s] = <<>> /\ \A t \in Sessions : t # s => up'[t] = up[t] /\ down'[t] = down[t]
    BY <1>1, <2>1
  <2>10. ~InStep(q, k) /\ k.revision <= q.revision /\ ~(k.revision > 0)
    BY <1>3, <2>3, <2>5 DEF InStep
  <2>11. Shared(q, d, s, k, u, <<>>)
    <3>1. DOMAIN <<>> = {}
      OBVIOUS
    <3>2. u[Len(u)] <=> k.participating
      BY <2>5, <2>8
    <3> DEFINE w == <<>>
    <3>3. \A i \in DOMAIN w : Timely(q, w[i])
      BY <3>1
    <3> HIDE DEF w
    <3>4. Shared(q, d, s, k, u, w)
      BY <2>8, <2>10, <3>2, <3>3 DEF Shared
    <3>5. QED
      BY <3>4 DEF w
  <2>12. ASSUME NEW e \in Devices, NEW t \in Sessions, c'[e].session = t, q.open[t] = e, t \notin outdated'
         PROVE  Shared(q, e, t, c'[e], up'[t], down'[t])
    <3>1. CASE e = d
      <4>1. t = s /\ c'[e] = k
        BY <2>5, <2>6, <2>12, <3>1
      <4>2. QED
        BY <2>9, <2>11, <3>1, <4>1
    <3>2. CASE e # d
      <4>1. c'[e] = c[e] /\ t # s
        BY <2>1, <2>6, <2>12, <3>2
      <4>2. Live(e, t)
        BY <2>1, <2>2, <2>3, <2>12, <4>1 DEF Live
      <4>3. Shared(h, e, t, c[e], up[t], down[t])
        BY <1>2, <4>2
      <4>4. q.deviceOf[t] = e <=> h.deviceOf[t] = e
        BY <2>3
      <4>5. Shared(q, e, t, c[e], up[t], down[t])
        BY <2>3, <4>3, <4>4, SharedAlike
      <4>6. QED
        BY <2>9, <4>1, <4>5
    <3>3. QED
      BY <3>1, <3>2
  <2>13. QED
    BY <2>1, <2>4, <2>7, <2>12, PacedParts1
<1>6. QED
  BY <1>4, <1>5

(* No session survives the process at the Host.                            *)
LEMMA RestartPaced ==
  ASSUME Restarted, \A e \in Devices : c'[e].session = c[e].session, Alone
  PROVE  PacedInv'
<1>1. h' = NewHost
  BY DEF Restarted
<1>2. Idle(h')
  BY <1>1, NewHostBooks DEF Idle, NewHost
<1>3. \A s \in Sessions, d \in Devices : h'.open[s] # d
  BY <1>1, SessionsAssumption DEF NewHost
<1>4. Alone'
  BY DEF Alone
<1>5. QED
  BY <1>2, <1>3, <1>4, PacedParts1

(* Revocation preserves the invariant.                                     *)
LEMMA RevocationPaced ==
  ASSUME SessionsInv, PacedInv, NEW D, Revoke(D)
  PROVE  PacedInv'
<1>1. /\ c \in [Devices -> Installations] /\ down \in [Sessions -> Seq(Notices)] /\ Books(h) /\ h \in Hosts
  BY SessionsParts DEF Carried, Books, Linked
<1>2. /\ Alone /\ Idle(h)
      /\ \A e \in Devices, t \in Sessions : Live(e, t) => Shared(h, e, t, c[e], up[t], down[t])
  BY PacedParts
<1>3. DisconnectAuthenticatedDevices(D) /\ UNCHANGED <<c, up, outdated>>
  BY DEF Revoke
<1>4. /\ Books(h') /\ h'.open = h.open
      /\ h'.revision = h.revision /\ h'.count = h.count /\ h'.coordinated = h.coordinated
      /\ h'.deviceOf = h.deviceOf /\ h'.others = h.others /\ Counted(h') = Counted(h)
      /\ \A s \in Sessions : down'[s] = IF s \in Warned(D) /\ Heard(s) THEN Append(down[s], Message("revoked", h)) ELSE down[s]
  BY <1>1, <1>3, Disconnecting
<1>5. Idle(h')
  BY <1>2, <1>4 DEF Idle
<1>6. ASSUME NEW d \in Devices, NEW s \in Sessions, c[d].session = s, h.open[s] = d, s \notin outdated
      PROVE  Shared(h', d, s, c'[d], up'[s], down'[s])
  <2> DEFINE k == c[d]
             u == up[s]
             w == down[s]
             w2 == down'[s]
  <2>1. Shared(h, d, s, k, u, w)
    BY <1>2, <1>6 DEF Live
  <2>2. k \in Installations /\ w \in Seq(Notices)
    BY <1>1
  <2>3. w2 = w \/ w2 = Append(w, Message("revoked", h))
    BY <1>4
  <2>4. c'[d] = k /\ up'[s] = u
    BY <1>3
  <2> HIDE DEF k, u, w, w2
  <2>5. Shared(h, d, s, k, u, w2)
    <3>1. Shared(h, d, s, k, u, Append(w, Message("revoked", h)))
      BY <1>1, <2>1, <2>2, Warns
    <3>2. QED
      BY <2>1, <2>3, <3>1
  <2> DEFINE q == h'
  <2>6. q.revision = h.revision /\ q.count = h.count /\ (q.deviceOf[s] = d <=> h.deviceOf[s] = d)
    BY <1>4
  <2> HIDE DEF q
  <2>7. Shared(q, d, s, k, u, w2)
    BY <2>5, <2>6, SharedAlike
  <2>8. QED
    BY <2>4, <2>7 DEF q, w2
<1>7. Alone'
  BY <1>2, <1>3 DEF Alone
<1>8. QED
  BY <1>3, <1>4, <1>5, <1>6, <1>7, PacedParts1

(* So does pairing.                                                        *)
LEMMA PairingPaced ==
  ASSUME SessionsInv, PacedInv, NEW d \in Devices, Pair(d) \/ PairUnrecorded(d)
  PROVE  PacedInv'
<1>1. c \in [Devices -> Installations]
  BY SessionsParts DEF Carried
<1>2. /\ Alone /\ Idle(h)
      /\ \A e \in Devices, t \in Sessions : Live(e, t) => Shared(h, e, t, c[e], up[t], down[t])
  BY PacedParts
<1>3. UNCHANGED <<h, up, down, outdated>>
  BY DEF Pair, PairUnrecorded
<1>4. \A e \in Devices :
        /\ c'[e].session = c[e].session /\ c'[e].participating = c[e].participating
        /\ c'[e].coordinated = c[e].coordinated /\ c'[e].count = c[e].count
        /\ c'[e].revision = c[e].revision /\ c'[e].fallback = c[e].fallback
  <2>1. CASE Pair(d)
    <3>1. PICK received \in BOOLEAN : c' = [c EXCEPT ![d].paired = received]
      BY <2>1 DEF Pair
    <3>2. \A e \in Devices : c'[e] = IF e = d THEN [c[e] EXCEPT !.paired = received] ELSE c[e]
      BY <1>1, <3>1
    <3>3. QED
      BY <1>1, <3>2 DEF Installations
  <2>2. CASE PairUnrecorded(d)
    BY <2>2 DEF PairUnrecorded
  <2>3. QED
    BY <2>1, <2>2
<1>5. ASSUME NEW e \in Devices, NEW t \in Sessions, c'[e].session = t, h.open[t] = e, t \notin outdated
      PROVE  Shared(h, e, t, c'[e], up[t], down[t])
  <2>1. Shared(h, e, t, c[e], up[t], down[t])
    BY <1>2, <1>4, <1>5 DEF Live
  <2>2. InStep(h, c'[e]) <=> InStep(h, c[e])
    BY <1>4 DEF InStep
  <2>3. c'[e].participating = c[e].participating /\ c'[e].count = c[e].count
        /\ c'[e].revision = c[e].revision /\ c'[e].fallback = c[e].fallback
    BY <1>4
  <2>4. QED
    BY <2>1, <2>2, <2>3 DEF Shared
<1>6. Alone'
  BY <1>2, <1>4 DEF Alone
<1>7. QED
  BY <1>2, <1>3, <1>5, <1>6, PacedParts1

(* Every step does.                                                        *)
LEMMA NextPaced ==
  ASSUME SessionsInv, PacedInv, SessionsInv', [Next]_vars
  PROVE  PacedInv'
<1>1. CASE HostRestarts
  BY <1>1, PacedParts, RestartPaced DEF HostRestarts
<1>2. CASE HostProviderChanges \/ (\E n \in 0..MaxOthers : OthersChange(n))
  BY <1>2, HostStepsPaced
<1>3. ASSUME NEW d \in Devices, RemovalTimeout(d) \/ FallbackTimeout(d)
      PROVE  PacedInv'
  BY <1>3, HostStepsPaced, ClientStepsPaced
<1>4. ASSUME NEW d \in Devices, ClientReceives(d) \/ ClientProviderChanges(d) \/ ClientLosesSession(d)
      PROVE  PacedInv'
  BY <1>4, ClientStepsPaced
<1>5. ASSUME NEW d \in Devices, Pair(d) \/ PairUnrecorded(d) \/ PairInterrupted(d)
      PROVE  PacedInv'
  <2>1. CASE PairInterrupted(d)
    BY <2>1, PacedParts, RestartPaced DEF PairInterrupted
  <2>2. QED
    BY <1>5, <2>1, PairingPaced
<1>6. ASSUME NEW s \in Sessions, HostReceives(s) \/ CloseSession(s) \/ (\E d \in Devices : Authenticate(d, s))
      PROVE  PacedInv'
  BY <1>6, HostReceivesPaced, SessionStepsPaced
<1>7. ASSUME NEW D \in Revocations, Revoke(D) \/ RevokeInterrupted(D)
      PROVE  PacedInv'
  <2>1. CASE RevokeInterrupted(D)
    BY <2>1, PacedParts, RestartPaced DEF RevokeInterrupted
  <2>2. QED
    BY <1>7, <2>1, RevocationPaced
<1>8. CASE UNCHANGED vars
  <2>1. UNCHANGED <<h, c, up, down, outdated>>
    BY <1>8 DEF vars
  <2>2. Alone' /\ Idle(h')
    BY <2>1, PacedParts DEF Alone
  <2>3. \A d \in Devices, s \in Sessions :
          c'[d].session = s /\ h'.open[s] = d /\ s \notin outdated'
            => Shared(h', d, s, c'[d], up'[s], down'[s])
    BY <2>1, PacedParts DEF Live
  <2>4. QED
    BY <2>2, <2>3, PacedParts1
<1>9. QED
  BY <1>1, <1>2, <1>3, <1>4, <1>5, <1>6, <1>7, <1>8 DEF Next

(* The invariant gives what the run checks.                                *)
LEMMA PacedEnough == SessionsInv /\ PacedInv => SafelyPaced
<1> SUFFICES ASSUME SessionsInv, PacedInv, Participants(h) > 1
             PROVE  /\ h.participating /\ h.revision > 0 => h.count >= Participants(h)
                    /\ \A d \in Devices : c[d].participating /\ Quiet(d) /\ c[d].session \notin outdated
                                            => c[d].count >= Participants(h)
  BY DEF SafelyPaced
<1>1. Books(h) /\ h \in Hosts /\ Carried
  BY SessionsParts DEF Books, Linked
<1>2. Participants(h) \in Nat /\ (Counted(h) = {} /\ h.others = 0 => Participants(h) <= 1)
  BY <1>1, Present
<1>3. h.revision > 0 => h.count = Participants(h)
  <2>1. h.revision > 0 => h.coordinated
    BY <1>2 DEF PacedInv
  <2>2. QED
    BY <1>1, <2>1 DEF Books, Numbered
<1>4. ASSUME NEW d \in Devices, c[d].participating, Quiet(d), c[d].session \notin outdated
      PROVE  h.revision > 0 /\ c[d].count = h.count
  <2> DEFINE s == c[d].session
  <2>1. s # None /\ h.open[s] = d /\ up[s] = <<>> /\ down[s] = <<>>
    BY <1>4 DEF Quiet
  <2>2. s \in Sessions
    <3>1. c[d] \in Installations
      BY <1>1 DEF Carried
    <3>2. QED
      BY <2>1, <3>1, InstallationFields
  <2>3. Shared(h, d, s, c[d], up[s], down[s])
    BY <1>4, <2>1, <2>2, PacedParts DEF Live
  <2> HIDE DEF s
  <2>4. h.deviceOf[s] = d
    BY <1>4, <2>1, <2>3 DEF Shared
  <2>5. ~\E i \in DOMAIN down[s] : Tells(h, (down[s])[i])
    <3>1. DOMAIN <<>> = {}
      OBVIOUS
    <3>2. QED
      BY <2>1, <3>1
  <2>6. InStep(h, c[d])
    BY <2>1, <2>3, <2>4, <2>5 DEF Shared
  <2>7. QED
    BY <2>3, <2>6 DEF Shared, InStep
<1>5. QED
  BY <1>2, <1>3, <1>4

(* An installation that takes part, with a session made since the Host's   *)
(* provider last reported, paces its requests for all participants or has  *)
(* a message about them on its way, whatever is lost, replaced, revoked or *)
(* restarted; and the Host does from its next recount on.                  *)
THEOREM PacedSafely == Spec => []SafelyPaced
<1>1. Init => SessionsInv /\ PacedInv
  <2>1. Init => PacedInv
    <3>1. SUFFICES ASSUME Init PROVE PacedInv
      OBVIOUS
    <3>2. h.revision = 0
      BY <3>1 DEF Init, NewHost
    <3>3. \A s \in Sessions : h.open[s] = None
      BY <3>1 DEF Init, NewHost
    <3>4. Alone
      BY <3>1 DEF Init, Alone
    <3>5. QED
      BY <3>2, <3>3, <3>4, SessionsAssumption DEF PacedInv, Live
  <2>2. QED
    BY <2>1, InitSessions
<1>2. SessionsInv /\ PacedInv /\ [Next]_vars => (SessionsInv /\ PacedInv)'
  BY NextSessions, NextPaced
<1>3. SessionsInv /\ PacedInv => SafelyPaced
  BY PacedEnough
<1>4. QED
  BY <1>1, <1>2, <1>3, PTL DEF Spec
=============================================================================
