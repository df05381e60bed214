----------------------------- MODULE HostSessions -----------------------------
(***************************************************************************)
(* The installations paired with a Host: how a device is paired, comes and *)
(* goes, and is revoked (BrickSuitePairingService, PairedDeviceRegistry,   *)
(* PairedDeviceAdministrationService, the authentication and closing of    *)
(* sessions in BrickSuiteWebSocketServer), and how all of them share the   *)
(* rate of requests Rebrickable allows their common address                *)
(* (RebrickableCoordinationService, on the Host and on its Clients).       *)
(*                                                                         *)
(* The registry file and the credential store are durable; the rest of the *)
(* Host, `h', is lost with its process. A session may be lost on one side  *)
(* before the other notices, so a device may have an old session and a new *)
(* one at the Host. Devices are those looked at closely; of the others     *)
(* only their number at the Host is kept. A number of participants stands  *)
(* for the interval that follows from it. Codes, proofs, throttling and    *)
(* names are abstracted.                                                   *)
(***************************************************************************)
EXTENDS Naturals, Sequences, FiniteSets

CONSTANTS Devices,        \* identities that pairing may create
          Sessions,
          None,
          MaxOthers, MaxRevision,
          MaxUp, MaxDown  \* registrations, notices on their way when another may follow

ASSUME SessionsAssumption ==
  /\ IsFiniteSet(Devices)
  /\ None \notin Devices \cup Sessions
  /\ MaxOthers \in Nat /\ MaxRevision \in Nat \ {0}
  /\ MaxUp \in Nat \ {0} /\ MaxDown \in Nat \ {0}

VARIABLES record,         \* paired-devices.json
          secrets,        \* devices with a credential in the store
          h,              \* the Host's process
          c,              \* the Clients
          up, down,       \* what is on its way to the Host, to the Client
          outdated        \* history: sessions from before the Host's provider last reported

vars == <<record, secrets, h, c, up, down, outdated>>

NewHost ==
  [participating |-> FALSE, coordinated |-> FALSE, count |-> 0, revision |-> 0, others |-> 0,
   deviceOf |-> [s \in Sessions |-> None], sessionsOf |-> [d \in Devices |-> {}],
   known |-> {}, leaving |-> {}, open |-> [s \in Sessions |-> None], closing |-> {}]
-----------------------------------------------------------------------------
(* RebrickableCoordinationService on the Host. *)

Participants(g) ==
  Cardinality({d \in g.known : g.sessionsOf[d] # {} \/ d \in g.leaving})
    + g.others + (IF g.participating THEN 1 ELSE 0)

RecalculateHost(g) ==
  LET n == Participants(g)
  IN  IF g.coordinated /\ g.count = n THEN g
      ELSE [g EXCEPT !.coordinated = n > 0, !.count = n, !.revision = @ + 1]

RemoveSession(g, s) ==
  IF g.deviceOf[s] = None THEN g
  ELSE [g EXCEPT !.deviceOf[s] = None, !.sessionsOf[g.deviceOf[s]] = @ \ {s}]

(* Mutant: the timer of a device that returns is left running.             *)
RegisterKeepsTimer(g, s, participating) ==
  LET d  == g.open[s]
      g1 == RemoveSession(g, s)
  IN  RecalculateHost(
        IF participating
        THEN [g1 EXCEPT !.deviceOf[s] = d, !.sessionsOf[d] = @ \cup {s}, !.known = @ \cup {d}]
        ELSE g1)
RegisterParticipant(g, s, participating) ==
  LET d  == g.open[s]
      g1 == RemoveSession([g EXCEPT !.leaving = @ \ {d}], s)
  IN  RecalculateHost(
        IF participating
        THEN [g1 EXCEPT !.deviceOf[s] = d, !.sessionsOf[d] = @ \cup {s}, !.known = @ \cup {d}]
        ELSE g1)

(* A device whose last session ended is counted for a grace period.        *)
SessionDisconnected(g, s) ==
  LET d  == g.deviceOf[s]
      g1 == RemoveSession(g, s)
  IN  IF d # None /\ g1.sessionsOf[d] = {} THEN [g1 EXCEPT !.leaving = @ \cup {d}] ELSE g1

Message(kind, g) == [kind |-> kind, count |-> g.count, revision |-> g.revision]

Heard(s) == \E d \in Devices : c[d].session = s

(* A new revision is sent to every session of the devices known; what is   *)
(* sent after the Client has lost the session is lost.                     *)
PublishHostState(g) ==
  IF g.revision = h.revision THEN down
  ELSE [s \in Sessions |-> IF g.open[s] \in g.known /\ Heard(s) THEN Append(down[s], Message("state", g)) ELSE down[s]]

Room == h.revision < MaxRevision /\ \A s \in Sessions : Len(down[s]) < MaxDown

HostReceives(s) ==
  /\ h.open[s] # None /\ up[s] # <<>> /\ Room
  /\ LET g == RegisterParticipant(h, s, Head(up[s]))
     IN  /\ h' = g
         /\ down' = [PublishHostState(g) EXCEPT ![s] = IF Heard(s) THEN Append(@, Message("answer", g)) ELSE @]
  /\ up' = [up EXCEPT ![s] = Tail(@)]
  /\ UNCHANGED <<record, secrets, c, outdated>>

RemovalTimeout(d) ==
  /\ d \in h.leaving /\ Room
  /\ LET g == RecalculateHost([h EXCEPT !.leaving = @ \ {d}, !.known = @ \ {d}, !.sessionsOf[d] = {}])
     IN  h' = g /\ down' = PublishHostState(g)
  /\ UNCHANGED <<record, secrets, c, up, outdated>>

(* Devices beside Devices register, or are gone for the grace period.      *)
OthersChange(n) ==
  /\ n # h.others /\ Room
  /\ LET g == RecalculateHost([h EXCEPT !.others = n])
     IN  h' = g /\ down' = PublishHostState(g)
  /\ UNCHANGED <<record, secrets, c, up, outdated>>

(* refreshRebrickableCoordination, at every report of the provider, of the *)
(* status it had or another: configureHost, and configureRemote with       *)
(* active = false, which forgets the state configureHost has published.    *)
(* The revisions begin again, which the Clients connected do not know.     *)
HostProviderChanges ==
  /\ Room
  /\ \E participating \in BOOLEAN :
       LET g == RecalculateHost([h EXCEPT !.participating = participating])
       IN  /\ h' = [g EXCEPT !.coordinated = FALSE, !.count = 0, !.revision = 0]
           /\ down' = PublishHostState(g)
  /\ outdated' = {s \in Sessions : h.open[s] # None /\ Heard(s)}
  /\ UNCHANGED <<record, secrets, c, up>>
-----------------------------------------------------------------------------
(* RebrickableCoordinationService on a Client. *)

Cleared(k) == [k EXCEPT !.coordinated = FALSE, !.count = 0, !.revision = 0]

ApplyRemoteState(k, m) ==
  IF k.coordinated /\ m.revision <= k.revision THEN k
  ELSE [k EXCEPT !.coordinated = TRUE, !.count = m.count, !.revision = m.revision, !.fallback = FALSE]

Received(k, m) ==
  CASE m.kind = "state" -> ApplyRemoteState(k, m)
    [] m.kind = "answer" -> IF k.participating THEN ApplyRemoteState(k, m) ELSE Cleared(k)
    [] m.kind = "revoked" -> [k EXCEPT !.paired = FALSE]

ClientReceives(d) ==
  LET s == c[d].session
  IN  /\ s # None /\ down[s] # <<>>
      /\ c' = [c EXCEPT ![d] = Received(@, Head(down[s]))]
      /\ down' = [down EXCEPT ![s] = Tail(@)]
      /\ UNCHANGED <<record, secrets, h, up, outdated>>

(* The Client's provider reports, which the Client tells its Host.         *)
ClientProviderChanges(d) ==
  LET s == c[d].session
  IN  /\ c[d].paired /\ (s \in Sessions => Len(up[s]) < MaxUp)
      /\ \E participating \in BOOLEAN :
           /\ c' = [c EXCEPT ![d].participating = participating]
           /\ up' = IF s = None THEN up ELSE [up EXCEPT ![s] = Append(@, participating)]
      /\ UNCHANGED <<record, secrets, h, down, outdated>>

FallbackTimeout(d) ==
  /\ c[d].fallback
  /\ c' = [c EXCEPT ![d] = [Cleared(@) EXCEPT !.fallback = FALSE]]
  /\ UNCHANGED <<record, secrets, h, up, down, outdated>>

(* beginFallback retains the interval of the Host for a while.             *)
ClientLosesSession(d) ==
  LET s == c[d].session
  IN  /\ s # None
      /\ c' = [c EXCEPT ![d].session = None, ![d].fallback = @ \/ c[d].coordinated]
      /\ down' = [down EXCEPT ![s] = <<>>]
      /\ outdated' = outdated \ {s}
      /\ UNCHANGED <<record, secrets, h, up>>
-----------------------------------------------------------------------------
(* Sessions. *)

Free(s) == h.open[s] = None /\ \A d \in Devices : c[d].session # s

(* Mutant: a device is let in as long as its credential is there.          *)
MayAuthenticateBySecret(d) == record[d] # "unused" /\ d \in secrets /\ c[d].paired
MayAuthenticate(d) == record[d] = "active" /\ d \in secrets /\ c[d].paired

(* Mutant: the revision of the last session is kept.                       *)
AuthenticateKeepsRevision(d, s) ==
  /\ c[d].session = None /\ Free(s) /\ MayAuthenticate(d)
  /\ h' = [h EXCEPT !.open[s] = d]
  /\ c' = [c EXCEPT ![d].session = s]
  /\ up' = [up EXCEPT ![s] = <<c[d].participating>>]
  /\ down' = [down EXCEPT ![s] = <<>>]
  /\ UNCHANGED <<record, secrets, outdated>>
(* The Client takes the revisions of its new session from the beginning    *)
(* and registers.                                                          *)
Authenticate(d, s) ==
  /\ c[d].session = None /\ Free(s) /\ MayAuthenticate(d)
  /\ h' = [h EXCEPT !.open[s] = d]
  /\ c' = [c EXCEPT ![d].session = s, ![d].revision = 0]
  /\ up' = [up EXCEPT ![s] = <<c[d].participating>>]
  /\ down' = [down EXCEPT ![s] = <<>>]
  /\ UNCHANGED <<record, secrets, outdated>>

CloseSession(s) ==
  /\ h.open[s] # None
  /\ h' = [SessionDisconnected(h, s) EXCEPT !.open[s] = None, !.closing = @ \ {s}]
  /\ up' = [up EXCEPT ![s] = <<>>]
  /\ outdated' = outdated \ {s}
  /\ UNCHANGED <<record, secrets, c, down>>

(* Every authenticated session of the devices is told, and then closed.    *)
DisconnectAuthenticatedDevices(D) ==
  LET S == {s \in Sessions : h.open[s] \in D}
  IN  /\ h' = [h EXCEPT !.closing = @ \cup S]
      /\ down' = [s \in Sessions |-> IF s \in S /\ Heard(s) THEN Append(down[s], Message("revoked", h)) ELSE down[s]]

(* The process ends, without warning or at a user's wish, and is started.  *)
Restarted ==
  /\ h' = NewHost
  /\ up' = [s \in Sessions |-> <<>>]
  /\ outdated' = {}

HostRestarts ==
  /\ Restarted
  /\ UNCHANGED <<record, secrets, c, down>>
-----------------------------------------------------------------------------
(* Pairing and revocation. Each is a sequence of durable steps; the process*)
(* may end after any of them, and any of them may fail.                    *)

(* A code is good for one pairing. The answer may be lost.                 *)
Pair(d) ==
  /\ record[d] = "unused"
  /\ secrets' = secrets \cup {d} /\ record' = [record EXCEPT ![d] = "active"]
  /\ \E received \in BOOLEAN : c' = [c EXCEPT ![d].paired = received]
  /\ UNCHANGED <<h, up, down, outdated>>

(* The record could not be saved: the credential is removed again, if that *)
(* succeeds.                                                               *)
PairUnrecorded(d) ==
  /\ record[d] = "unused"
  /\ \E left \in {{}, {d}} : secrets' = secrets \cup left
  /\ record' = [record EXCEPT ![d] = "absent"]
  /\ UNCHANGED <<h, c, up, down, outdated>>

(* The process ends between the two.                                       *)
PairInterrupted(d) ==
  /\ record[d] = "unused"
  /\ secrets' = secrets \cup {d} /\ record' = [record EXCEPT ![d] = "absent"]
  /\ Restarted
  /\ UNCHANGED <<c, down>>

(* What a revocation of the devices of D has made durable when it ends     *)
(* after so many steps; of their credentials those of kept were not        *)
(* removed, and the records stay.                                          *)
(* Mutant: the records are removed whatever became of the credentials.     *)
RecordsRemovedAnyway(D, steps, kept) ==
  /\ record' = [d \in Devices |-> IF d \notin D THEN record[d]
                                  ELSE IF steps = 3 THEN "removed" ELSE "inactive"]
  /\ secrets' = IF steps = 1 THEN secrets ELSE secrets \ (D \ kept)
DurablyRevoked(D, steps, kept) ==
  /\ steps = 3 => kept = {}
  /\ record' = [d \in Devices |-> IF d \notin D THEN record[d]
                                  ELSE IF steps = 3 THEN "removed" ELSE "inactive"]
  /\ secrets' = IF steps = 1 THEN secrets ELSE secrets \ (D \ kept)

Recorded == {d \in Devices : record[d] \in {"active", "inactive"}}

(* revokeDevice, and revokeAllDevices, which tries every credential.       *)
Revoke(D) ==
  /\ D # {} /\ \A s \in Sessions : Len(down[s]) < MaxDown
  /\ \E steps \in 1..3, kept \in SUBSET (D \cap secrets) : DurablyRevoked(D, steps, kept)
  /\ DisconnectAuthenticatedDevices(D)
  /\ UNCHANGED <<c, up, outdated>>

RevokeInterrupted(D) ==
  /\ D # {}
  /\ \E steps \in 1..3, kept \in SUBSET (D \cap secrets) : DurablyRevoked(D, steps, kept)
  /\ Restarted
  /\ UNCHANGED <<c, down>>

Revocations == {{d} : d \in Recorded} \cup {Recorded}
-----------------------------------------------------------------------------
Init ==
  /\ record = [d \in Devices |-> "unused"] /\ secrets = {}
  /\ h = NewHost
  /\ c = [d \in Devices |-> [paired |-> FALSE, session |-> None, participating |-> FALSE,
                             coordinated |-> FALSE, count |-> 0, revision |-> 0, fallback |-> FALSE]]
  /\ up = [s \in Sessions |-> <<>>] /\ down = [s \in Sessions |-> <<>>]
  /\ outdated = {}

Next ==
  \/ HostProviderChanges \/ HostRestarts \/ (\E n \in 0..MaxOthers : OthersChange(n))
  \/ \E d \in Devices : RemovalTimeout(d) \/ FallbackTimeout(d)
  \/ \E d \in Devices : ClientReceives(d) \/ ClientProviderChanges(d) \/ ClientLosesSession(d)
  \/ \E d \in Devices : Pair(d) \/ PairUnrecorded(d) \/ PairInterrupted(d)
  \/ \E s \in Sessions : HostReceives(s) \/ CloseSession(s) \/ (\E d \in Devices : Authenticate(d, s))
  \/ \E D \in Revocations : Revoke(D) \/ RevokeInterrupted(D)

Spec == Init /\ [][Next]_vars
-----------------------------------------------------------------------------
Installations ==
  [paired : BOOLEAN, session : Sessions \cup {None}, participating : BOOLEAN,
   coordinated : BOOLEAN, count : Nat, revision : Nat, fallback : BOOLEAN]

(* The tables of the coordination agree: a session counts for a device in  *)
(* both or in neither, it is open, only a device without sessions has a    *)
(* removal timer, and a state that is in force counts every device once.   *)
BooksAgree ==
  /\ c \in [Devices -> Installations]
  /\ \A s \in Sessions : h.deviceOf[s] # None => h.open[s] = h.deviceOf[s]
  /\ \A d \in Devices :
       /\ h.sessionsOf[d] = {s \in Sessions : h.deviceOf[s] = d}
       /\ h.sessionsOf[d] # {} => d \in h.known
       /\ d \in h.leaving => h.sessionsOf[d] = {} /\ d \in h.known
  /\ h.coordinated => h.count = Participants(h)

Quiet(d) ==
  LET s == c[d].session
  IN  s # None /\ h.open[s] = d /\ up[s] = <<>> /\ down[s] = <<>>

(* A Client that takes part paces its requests for no fewer than all       *)
(* participants, unless a message about it is on its way: however sessions *)
(* are lost, replaced and revoked, and whatever order the answers and the  *)
(* events of a restarted Host arrive in. It holds of the sessions made     *)
(* since the Host's provider last reported, for then the Host forgets its  *)
(* state and numbers the next ones from the beginning, which a session     *)
(* from before takes for old news; and of the Host itself from its next    *)
(* recount on.                                                             *)
SafelyPaced ==
  Participants(h) > 1 =>
    /\ h.participating /\ h.revision > 0 => h.count >= Participants(h)
    /\ \A d \in Devices : c[d].participating /\ Quiet(d) /\ c[d].session \notin outdated
                            => c[d].count >= Participants(h)

(* What resources/help/settings.html:142-146 says without exception: while *)
(* connected, all that take part keep to the shared interval.              *)
EverybodyPaced ==
  Participants(h) > 1 =>
    /\ h.participating => h.count >= Participants(h)
    /\ \A d \in Devices : c[d].participating /\ Quiet(d) => c[d].count >= Participants(h)

(* A device that is let in has its credential, and a device whose record   *)
(* was removed has left no credential behind, wherever a revocation failed *)
(* or ended. (Of a pairing whose record was never saved the credential may *)
(* stay; it lets nobody in.)                                               *)
SecretsFollowRecords ==
  \A d \in Devices :
    /\ record[d] = "active" => d \in secrets
    /\ record[d] = "removed" => d \notin secrets

(* A device that is no longer active has no session but those being closed.*)
RevokedAreLeaving ==
  \A s \in Sessions : h.open[s] # None /\ record[h.open[s]] # "active" => s \in h.closing
=============================================================================
