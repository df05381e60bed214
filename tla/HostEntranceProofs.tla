------------------------- MODULE HostEntranceProofs -------------------------
(***************************************************************************)
(* Theorems about what a Host lets in.                                     *)
(*                                                                         *)
(* HostAdmission, for any finite sets of sessions and request IDs, any     *)
(* owners and any limits: the accounting is exact until a release on a     *)
(* worker is overlapped by the application thread.                         *)
(*                                                                         *)
(* HostMaintenance, for any clients and any queue length: the maintenance  *)
(* boundary behind which a Restore replaces the database.                  *)
(***************************************************************************)
EXTENDS HostAdmission, HostMaintenance, FiniteSetTheorems, TLAPS

-----------------------------------------------------------------------------
(***************************************************************************)
(* The inductive invariant.                                                *)
(***************************************************************************)
Typed ==
    /\ counts \in [Accounts -> Nat]
    /\ tracked \subseteq Owners
    /\ global \in [Kinds -> Nat]
    /\ inFlight \subseteq Requests
    /\ sessions \subseteq Sessions
    /\ kind \in [Requests -> Kinds]
    /\ job \in [Requests -> {"none", "queued", "running", "posted", "ending"}]
    /\ answers \subseteq Requests
    /\ read \in [Kinds -> [inside : BOOLEAN, count : Nat, total : Nat]]
    /\ overlaps \in 0 .. MaxOverlaps

NotOverlapped == \A k \in Kinds : read[k] = Nothing

\* An answer waits only for a job that has posted it.
AnswersPosted ==
    \A r \in answers : job[r] \notin {"queued", "running"}

WithinLimits ==
    /\ \A o \in Owners, k \in Kinds : counts[<<o, k>>] <= MaximumOwner[k]
    /\ \A k \in Kinds : global[k] <= MaximumGlobal[k]

IndInv ==
    /\ Typed
    /\ NotOverlapped
    /\ AnswersPosted
    /\ Exact
    /\ WithinLimits

-----------------------------------------------------------------------------
(***************************************************************************)
(* Sets of leases.                                                         *)
(***************************************************************************)
LEMMA RequestsFinite == IsFiniteSet(Requests)
BY AdmissionAssumption, FS_Product DEF Requests

LEMMA LeasesFinite ==
    /\ \A o \in Owners, k \in Kinds : IsFiniteSet(Leases(o, k))
    /\ \A k \in Kinds : IsFiniteSet(GlobalLeases(k)) /\ IsFiniteSet(Busy(k))
<1>1. \A S \in SUBSET Requests : IsFiniteSet(S)
  BY RequestsFinite, FS_Subset
<1>2. QED
  BY <1>1 DEF Leases, GlobalLeases, Busy

LEMMA OwnerTyped == \A r \in Requests : OwnerOfRequest(r) \in Owners
BY AdmissionAssumption DEF OwnerOfRequest, Requests

\* A handler that leaves every lease alone leaves the accounts right.
LEMMA SameLeases ==
    ASSUME Exact, UNCHANGED <<accounting, kind>>,
           \A r \in Requests : Live(r)' <=> Live(r)
    PROVE  Exact'
<1>1. \A o \in Owners, k \in Kinds : Leases(o, k)' = Leases(o, k)
  BY DEF Leases, OwnerOfRequest
<1>2. \A k \in Kinds : GlobalLeases(k)' = GlobalLeases(k)
  BY DEF GlobalLeases
<1>3. {r \in Requests : Live(r)}' = {r \in Requests : Live(r)}
  OBVIOUS
<1>4. QED
  BY <1>1, <1>2, <1>3 DEF Exact, accounting

\* Releasing some leases of one owner and kind keeps the accounts right.
LEMMA ReleasedLeases ==
    ASSUME Typed, Exact, kind' = kind,
           NEW o \in Owners, NEW k \in Kinds,
           NEW rs \in SUBSET Leases(o, k), rs # {},
           \A r \in Requests : Live(r)' <=> Live(r) /\ r \notin rs,
           Release(rs, o, k, counts[<<o, k>>] - Cardinality(rs),
                   global[k] - Cardinality(rs))
    PROVE  /\ Exact'
           /\ counts' \in [Accounts -> Nat] /\ global' \in [Kinds -> Nat]
           /\ tracked' \subseteq Owners /\ inFlight' \subseteq Requests
<1>1. IsFiniteSet(rs) /\ Cardinality(rs) \in Nat
  BY LeasesFinite, FS_Subset, FS_CardinalityType
<1>2. /\ Leases(o, k)' = Leases(o, k) \ rs
      /\ GlobalLeases(k)' = GlobalLeases(k) \ rs
  BY DEF Leases, GlobalLeases, OwnerOfRequest
<1>3. \A p \in Owners, j \in Kinds :
          <<p, j>> # <<o, k>> => Leases(p, j)' = Leases(p, j)
  BY DEF Leases, OwnerOfRequest
<1>4. \A j \in Kinds : j # k => GlobalLeases(j)' = GlobalLeases(j)
  BY DEF Leases, GlobalLeases
<1>5. Cardinality(Leases(o, k)') = Cardinality(Leases(o, k)) - Cardinality(rs)
  <2>1. Leases(o, k) \cap rs = rs
    OBVIOUS
  <2>2. QED
    BY <1>2, <2>1, LeasesFinite, FS_Difference
<1>6. Cardinality(GlobalLeases(k)') =
          Cardinality(GlobalLeases(k)) - Cardinality(rs)
  <2>1. GlobalLeases(k) \cap rs = rs
    BY DEF Leases, GlobalLeases
  <2>2. QED
    BY <1>2, <2>1, LeasesFinite, FS_Difference
<1>7. /\ IsFiniteSet(Leases(o, k)') /\ Cardinality(Leases(o, k)') \in Nat
      /\ IsFiniteSet(GlobalLeases(k)') /\ Cardinality(GlobalLeases(k)') \in Nat
  <2>1. IsFiniteSet(Leases(o, k)') /\ IsFiniteSet(GlobalLeases(k)')
    BY <1>2, LeasesFinite, FS_Difference
  <2>2. QED
    BY <2>1, FS_CardinalityType
<1>8. /\ counts'[<<o, k>>] = Cardinality(Leases(o, k)')
      /\ global'[k] = Cardinality(GlobalLeases(k)')
  BY <1>5, <1>6 DEF Release, Exact, Typed, Accounts
<1>9. counts' \in [Accounts -> Nat] /\ global' \in [Kinds -> Nat]
  <2>1. counts[<<o, k>>] - Cardinality(rs) \in Nat
    BY <1>5, <1>7 DEF Exact
  <2>2. global[k] - Cardinality(rs) \in Nat
    BY <1>6, <1>7 DEF Exact
  <2>3. QED
    BY <2>1, <2>2 DEF Release, Typed, Accounts
<1>10. \A p \in Owners, j \in Kinds : counts'[<<p, j>>] = Cardinality(Leases(p, j)')
  <2> SUFFICES ASSUME NEW p \in Owners, NEW j \in Kinds
               PROVE counts'[<<p, j>>] = Cardinality(Leases(p, j)')
    OBVIOUS
  <2>1. CASE <<p, j>> = <<o, k>>
    BY <2>1, <1>8
  <2>2. CASE <<p, j>> # <<o, k>>
    <3>1. counts'[<<p, j>>] = counts[<<p, j>>]
      BY <2>2 DEF Release, Typed, Accounts
    <3>2. QED
      BY <2>2, <3>1, <1>3 DEF Exact
  <2>3. QED
    BY <2>1, <2>2
<1>11. \A j \in Kinds : global'[j] = Cardinality(GlobalLeases(j)')
  BY <1>4, <1>8 DEF Release, Exact, Typed
<1>12. inFlight' = {r \in Requests : Live(r)}'
  BY DEF Release, Exact, Leases
<1>13. tracked' = {p \in Owners : \E j \in Kinds : Leases(p, j) # {}}'
  <2>1. \A p \in Owners, j \in Kinds : IsFiniteSet(Leases(p, j)')
    BY <1>3, <1>7, LeasesFinite
  <2>2. \A j \in Kinds : counts'[<<o, j>>] = 0 <=> Leases(o, j)' = {}
    BY <1>10, <2>1, FS_EmptySet
  <2>3. Idle(o, counts') <=> \A j \in Kinds : Leases(o, j)' = {}
    BY <2>2 DEF Idle
  <2>4. o \in tracked
    BY DEF Exact
  <2>5. \A p \in Owners : p # o =>
            (p \in tracked <=> \E j \in Kinds : Leases(p, j)' # {})
    BY <1>3 DEF Exact
  <2>6. tracked \subseteq Owners
    BY DEF Typed
  <2>7. QED
    BY <2>3, <2>4, <2>5, <2>6 DEF Release, Forget
<1>14. QED
  BY <1>9, <1>10, <1>11, <1>12, <1>13 DEF Exact

\* Admission adds one lease to one account.
LEMMA AddedLease ==
    ASSUME IndInv, NEW r \in Requests, NEW k \in Kinds,
           ~Duplicate(r), ~OverOwnerLimit(OwnerOfRequest(r), k),
           ~OverGlobalLimit(k), Accept(r, k)
    PROVE  Exact' /\ WithinLimits'
<1> DEFINE o == OwnerOfRequest(r)
<1>0. o \in Owners /\ OwnerOfRequest(r) = o
  BY OwnerTyped
<1>1. ~Live(r)
  BY DEF IndInv, Exact, Duplicate
<1>2. Live(r)' /\ kind'[r] = k
  BY DEF Accept, Live, IndInv, Typed
<1>3. \A q \in Requests : q # r => (Live(q)' <=> Live(q)) /\ kind'[q] = kind[q]
  BY DEF Accept, Live, IndInv, Typed
<1>4. /\ Leases(o, k)' = Leases(o, k) \cup {r}
      /\ GlobalLeases(k)' = GlobalLeases(k) \cup {r}
  <2>1. Leases(o, k)' = Leases(o, k) \cup {r}
    BY <1>1, <1>2, <1>3 DEF Leases, OwnerOfRequest
  <2>2. GlobalLeases(k)' = GlobalLeases(k) \cup {r}
    BY <1>1, <1>2, <1>3 DEF GlobalLeases
  <2>3. QED
    BY <2>1, <2>2
<1>5. \A p \in Owners, j \in Kinds :
          <<p, j>> # <<o, k>> => Leases(p, j)' = Leases(p, j)
  BY <1>1, <1>2, <1>3 DEF Leases, OwnerOfRequest
<1>6. \A j \in Kinds : j # k => GlobalLeases(j)' = GlobalLeases(j)
  BY <1>1, <1>2, <1>3 DEF GlobalLeases
<1>7. r \notin Leases(o, k) /\ r \notin GlobalLeases(k)
  BY <1>1 DEF Leases, GlobalLeases
<1>8. /\ Cardinality(Leases(o, k)') = Cardinality(Leases(o, k)) + 1
      /\ Cardinality(GlobalLeases(k)') = Cardinality(GlobalLeases(k)) + 1
  BY <1>0, <1>4, <1>7, LeasesFinite, FS_AddElement
<1>9. /\ counts' = [counts EXCEPT ![<<o, k>>] = counts[<<o, k>>] + 1]
      /\ global' = [global EXCEPT ![k] = global[k] + 1]
  BY DEF Accept
<1>10. /\ counts'[<<o, k>>] = counts[<<o, k>>] + 1
       /\ global'[k] = global[k] + 1
  BY <1>0, <1>9 DEF IndInv, Typed, Accounts
<1>11. /\ \A p \in Owners, j \in Kinds :
              <<p, j>> # <<o, k>> => counts'[<<p, j>>] = counts[<<p, j>>]
       /\ \A j \in Kinds : j # k => global'[j] = global[j]
  BY <1>0, <1>9 DEF IndInv, Typed, Accounts
<1>12. \A p \in Owners, j \in Kinds : counts'[<<p, j>>] = Cardinality(Leases(p, j)')
  <2> SUFFICES ASSUME NEW p \in Owners, NEW j \in Kinds
               PROVE counts'[<<p, j>>] = Cardinality(Leases(p, j)')
    OBVIOUS
  <2>1. CASE <<p, j>> = <<o, k>>
    BY <2>1, <1>0, <1>8, <1>10 DEF IndInv, Exact
  <2>2. CASE <<p, j>> # <<o, k>>
    BY <2>2, <1>5, <1>11 DEF IndInv, Exact
  <2>3. QED
    BY <2>1, <2>2
<1>13. \A j \in Kinds : global'[j] = Cardinality(GlobalLeases(j)')
  BY <1>6, <1>8, <1>10, <1>11 DEF IndInv, Exact
<1>14. inFlight' = {q \in Requests : Live(q)}'
  BY <1>2, <1>3 DEF Accept, IndInv, Exact
<1>15. tracked' = {p \in Owners : \E j \in Kinds : Leases(p, j) # {}}'
  <2>1. tracked' = tracked \cup {o}
    BY DEF Accept
  <2>2. Leases(o, k)' # {}
    BY <1>4
  <2>3. \A p \in Owners : p # o =>
            (p \in tracked <=> \E j \in Kinds : Leases(p, j)' # {})
    BY <1>5 DEF IndInv, Exact
  <2>4. tracked \subseteq Owners
    BY DEF IndInv, Typed
  <2>5. QED
    BY <1>0, <2>1, <2>2, <2>3, <2>4
<1>16. Exact'
  BY <1>12, <1>13, <1>14, <1>15 DEF Exact
<1>17. WithinLimits'
  <2>1. counts[<<o, k>>] < MaximumOwner[k] /\ global[k] < MaximumGlobal[k]
    BY <1>0, AdmissionAssumption
       DEF OverOwnerLimit, OverGlobalLimit, IndInv, Typed, Accounts
  <2>2. /\ counts[<<o, k>>] \in Nat /\ global[k] \in Nat
        /\ MaximumOwner[k] \in Nat /\ MaximumGlobal[k] \in Nat
    BY <1>0, AdmissionAssumption DEF IndInv, Typed, Accounts
  <2>3. counts'[<<o, k>>] <= MaximumOwner[k] /\ global'[k] <= MaximumGlobal[k]
    BY <2>1, <2>2, <1>10
  <2>4. \A p \in Owners, j \in Kinds : counts'[<<p, j>>] <= MaximumOwner[j]
    BY <2>3, <1>0, <1>11 DEF IndInv, WithinLimits
  <2>5. \A j \in Kinds : global'[j] <= MaximumGlobal[j]
    BY <2>3, <1>11 DEF IndInv, WithinLimits
  <2>6. QED
    BY <2>4, <2>5 DEF WithinLimits
<1>18. QED
  BY <1>16, <1>17

\* A refusal at global capacity leaves the map of owners as it found it.
LEMMA RefusalForgets ==
    ASSUME IndInv, NEW o \in Owners, NEW k \in Kinds, Refuse(o, k)
    PROVE  tracked' = tracked
<1>1. \A j \in Kinds : counts[<<o, j>>] = 0 <=> Leases(o, j) = {}
  BY LeasesFinite, FS_EmptySet DEF IndInv, Exact
<1>2. Idle(o, counts) <=> o \notin tracked
  BY <1>1 DEF Idle, IndInv, Exact
<1>3. QED
  BY <1>2 DEF Refuse

\* What the end of leases leaves of the invariant, whoever ends them.
LEMMA EndedLeases ==
    ASSUME IndInv, kind' = kind, NEW o \in Owners, NEW k \in Kinds,
           NEW rs \in SUBSET Leases(o, k), rs # {},
           \A r \in Requests : Live(r)' <=> Live(r) /\ r \notin rs,
           Release(rs, o, k, counts[<<o, k>>] - Cardinality(rs),
                   global[k] - Cardinality(rs))
    PROVE  /\ Exact' /\ WithinLimits'
           /\ counts' \in [Accounts -> Nat] /\ global' \in [Kinds -> Nat]
           /\ tracked' \subseteq Owners /\ inFlight' \subseteq Requests
<1>1. /\ Exact'
      /\ counts' \in [Accounts -> Nat] /\ global' \in [Kinds -> Nat]
      /\ tracked' \subseteq Owners /\ inFlight' \subseteq Requests
  BY ReleasedLeases DEF IndInv
<1>2. IsFiniteSet(rs) /\ Cardinality(rs) \in Nat
  BY LeasesFinite, FS_Subset, FS_CardinalityType
<1>3. WithinLimits'
  <2>1. \A p \in Owners, j \in Kinds : counts'[<<p, j>>] <= counts[<<p, j>>]
    <3> SUFFICES ASSUME NEW p \in Owners, NEW j \in Kinds
                 PROVE counts'[<<p, j>>] <= counts[<<p, j>>]
      OBVIOUS
    <3>1. counts[<<p, j>>] \in Nat
      BY DEF IndInv, Typed, Accounts
    <3>2. CASE <<p, j>> = <<o, k>>
      <4>1. counts'[<<p, j>>] = counts[<<p, j>>] - Cardinality(rs)
        BY <3>2 DEF Release, IndInv, Typed, Accounts
      <4>2. QED
        BY <3>1, <4>1, <1>2
    <3>3. CASE <<p, j>> # <<o, k>>
      <4>1. counts'[<<p, j>>] = counts[<<p, j>>]
        BY <3>3 DEF Release, IndInv, Typed, Accounts
      <4>2. QED
        BY <3>1, <4>1
    <3>4. QED
      BY <3>2, <3>3
  <2>2. \A j \in Kinds : global'[j] <= global[j]
    BY <1>2 DEF Release, IndInv, Typed
  <2>3. \A p \in Owners, j \in Kinds : counts'[<<p, j>>] <= MaximumOwner[j]
    <3> SUFFICES ASSUME NEW p \in Owners, NEW j \in Kinds
                 PROVE counts'[<<p, j>>] <= MaximumOwner[j]
      OBVIOUS
    <3>1. /\ counts'[<<p, j>>] \in Nat /\ counts[<<p, j>>] \in Nat
          /\ MaximumOwner[j] \in Nat
      BY <1>1, AdmissionAssumption DEF IndInv, Typed, Accounts
    <3>2. counts[<<p, j>>] <= MaximumOwner[j]
      BY DEF IndInv, WithinLimits
    <3>3. QED
      BY <2>1, <3>1, <3>2
  <2>4. \A j \in Kinds : global'[j] <= MaximumGlobal[j]
    <3> SUFFICES ASSUME NEW j \in Kinds PROVE global'[j] <= MaximumGlobal[j]
      OBVIOUS
    <3>1. /\ global'[j] \in Nat /\ global[j] \in Nat
          /\ MaximumGlobal[j] \in Nat
      BY <1>1, AdmissionAssumption DEF IndInv, Typed
    <3>2. global[j] <= MaximumGlobal[j]
      BY DEF IndInv, WithinLimits
    <3>3. QED
      BY <2>2, <3>1, <3>2
  <2>5. QED
    BY <2>3, <2>4 DEF WithinLimits
<1>4. QED
  BY <1>1, <1>3

\* The last copy of one completion is dropped.
LEMMA EndedLease ==
    ASSUME IndInv, kind' = kind, NEW r \in Requests, Live(r), ~(Live(r)'),
           \A q \in Requests : q # r => (Live(q)' <=> Live(q)),
           ReleaseNow(r)
    PROVE  /\ Exact' /\ WithinLimits'
           /\ counts' \in [Accounts -> Nat] /\ global' \in [Kinds -> Nat]
           /\ tracked' \subseteq Owners /\ inFlight' \subseteq Requests
<1> DEFINE o == OwnerOfRequest(r)
           k == kind[r]
<1>1. o \in Owners /\ k \in Kinds
  BY OwnerTyped DEF IndInv, Typed
<1>2. {r} \in SUBSET Leases(o, k)
  BY DEF Leases
<1>3. o \in tracked
  BY <1>1, <1>2 DEF IndInv, Exact
<1>4. Cardinality({r}) = 1
  BY FS_Singleton
<1>5. Release({r}, o, k, counts[<<o, k>>] - Cardinality({r}),
              global[k] - Cardinality({r}))
  BY <1>3, <1>4 DEF ReleaseNow, Account
<1>6. \A q \in Requests : Live(q)' <=> Live(q) /\ q \notin {r}
  OBVIOUS
<1>7. QED
  BY <1>1, <1>2, <1>5, <1>6, EndedLeases

\* The queued reads of a lost session are cancelled.
LEMMA CancelledLeases ==
    ASSUME IndInv, NEW s \in Sessions, SessionLost(s)
    PROVE  /\ Exact' /\ WithinLimits'
           /\ counts' \in [Accounts -> Nat] /\ global' \in [Kinds -> Nat]
           /\ tracked' \subseteq Owners /\ inFlight' \subseteq Requests
<1> DEFINE rs == QueuedReads(s)
           o == OwnerOf[s]
<1>1. o \in Owners /\ "read" \in Kinds
  BY AdmissionAssumption DEF Kinds
<1>2. rs \in SUBSET Leases(o, "read")
  BY DEF QueuedReads, Leases, Live, OwnerOfRequest
<1>3. \A r \in Requests : Live(r)' <=> Live(r) /\ r \notin rs
  BY DEF SessionLost, Drop, Live, QueuedReads, IndInv, AnswersPosted, Typed
<1>4. kind' = kind
  BY DEF SessionLost, Drop
<1>5. CASE rs = {}
  <2>1. Cardinality(rs) = 0
    BY <1>5, FS_EmptySet
  <2>2. UNCHANGED accounting
    BY <1>5, <2>1 DEF SessionLost, Cancelled, accounting
  <2>3. Exact'
    BY <1>3, <1>4, <1>5, <2>2, SameLeases DEF IndInv
  <2>4. QED
    BY <2>2, <2>3 DEF IndInv, WithinLimits, Typed, accounting
<1>6. CASE rs # {}
  <2>1. o \in tracked
    BY <1>1, <1>2, <1>6 DEF IndInv, Exact
  <2>2. Cardinality(rs) > 0
    <3>1. IsFiniteSet(rs) /\ Cardinality(rs) \in Nat
      BY <1>1, <1>2, LeasesFinite, FS_Subset, FS_CardinalityType
    <3>2. Cardinality(rs) # 0
      BY <3>1, <1>6, FS_EmptySet
    <3>3. QED
      BY <3>1, <3>2
  <2>3. Release(rs, o, "read", counts[<<o, "read">>] - Cardinality(rs),
                global["read"] - Cardinality(rs))
    BY <2>1, <2>2 DEF SessionLost, Cancelled
  <2>4. QED
    BY <1>1, <1>2, <1>3, <1>4, <1>6, <2>3, EndedLeases
<1>7. QED
  BY <1>5, <1>6

-----------------------------------------------------------------------------
(***************************************************************************)
(* The steps.                                                              *)
(***************************************************************************)
LEMMA InitIndInv == Init => IndInv
<1> SUFFICES ASSUME Init PROVE IndInv
  OBVIOUS
<1>1. Typed
  <2>1. kind \in [Requests -> Kinds]
    BY DEF Init, Kinds
  <2>2. overlaps \in 0 .. MaxOverlaps
    BY AdmissionAssumption DEF Init
  <2>3. read \in [Kinds -> [inside : BOOLEAN, count : Nat, total : Nat]]
    BY DEF Init, Nothing
  <2>4. QED
    BY <2>1, <2>2, <2>3 DEF Init, Typed
<1>2. NotOverlapped /\ AnswersPosted
  BY DEF Init, NotOverlapped, AnswersPosted
<1>3. \A r \in Requests : ~Live(r)
  BY DEF Init, Live
<1>4. /\ \A o \in Owners, k \in Kinds : Cardinality(Leases(o, k)) = 0
      /\ \A k \in Kinds : Cardinality(GlobalLeases(k)) = 0
  <2>1. /\ \A o \in Owners, k \in Kinds : Leases(o, k) = {}
        /\ \A k \in Kinds : GlobalLeases(k) = {}
    BY <1>3 DEF Leases, GlobalLeases
  <2>2. QED
    BY <2>1, FS_EmptySet
<1>5. Exact
  BY <1>3, <1>4 DEF Init, Exact, Leases, Accounts
<1>6. WithinLimits
  BY AdmissionAssumption DEF Init, WithinLimits, Accounts
<1>7. QED
  BY <1>1, <1>2, <1>5, <1>6 DEF IndInv

LEMMA StepIndInv ==
    ASSUME overlaps' = 0, IndInv, [Next]_vars
    PROVE  IndInv'
<1>1. ASSUME NEW r \in Requests, NEW k \in Kinds, Admit(r, k) PROVE IndInv'
  <2>1. Exact' /\ WithinLimits'
    BY <1>1, AddedLease DEF Admit
  <2>2. ~Live(r)
    BY <1>1 DEF Admit, Duplicate, IndInv, Exact
  <2>3. AnswersPosted' /\ NotOverlapped'
    <3>1. answers' = answers /\ read' = read /\ overlaps' = overlaps
      BY <1>1 DEF Admit, Accept, race
    <3>2. r \notin answers
      BY <2>2 DEF Live
    <3>3. \A q \in Requests : q # r => job'[q] = job[q]
      BY <1>1 DEF Admit, Accept, IndInv, Typed
    <3>4. answers \subseteq Requests
      BY DEF IndInv, Typed
    <3>5. AnswersPosted'
      BY <3>1, <3>2, <3>3, <3>4 DEF IndInv, AnswersPosted
    <3>6. NotOverlapped'
      BY <3>1 DEF IndInv, NotOverlapped
    <3>7. QED
      BY <3>5, <3>6
  <2>4. counts' \in [Accounts -> Nat] /\ global' \in [Kinds -> Nat]
    <3>1. counts' = [counts EXCEPT ![<<OwnerOfRequest(r), k>>] = @ + 1]
      BY <1>1 DEF Admit, Accept
    <3>2. global' = [global EXCEPT ![k] = @ + 1]
      BY <1>1 DEF Admit, Accept
    <3>3. counts' \in [Accounts -> Nat]
      <4>1. counts \in [Accounts -> Nat]
        BY DEF IndInv, Typed
      <4>2. \A a \in Accounts : counts'[a] \in Nat
        BY <3>1, <4>1
      <4>3. QED
        BY <3>1, <4>1, <4>2
    <3>4. QED
      BY <3>2, <3>3 DEF IndInv, Typed
  <2>5. kind' \in [Requests -> Kinds]
    BY <1>1 DEF Admit, Accept, IndInv, Typed
  <2>6. job' \in [Requests -> {"none", "queued", "running", "posted", "ending"}]
    BY <1>1 DEF Admit, Accept, IndInv, Typed
  <2>7. Typed'
    BY <1>1, <2>4, <2>5, <2>6, OwnerTyped DEF Admit, Accept, IndInv, Typed, race
  <2>8. QED
    BY <2>1, <2>3, <2>7 DEF IndInv
<1>2. ASSUME NEW s \in sessions, NEW k \in Kinds, Refuse(OwnerOf[s], k)
      PROVE IndInv'
  <2>1. OwnerOf[s] \in Owners
    BY AdmissionAssumption DEF IndInv, Typed
  <2>2. tracked' = tracked
    BY <1>2, <2>1, RefusalForgets
  <2>3. UNCHANGED vars
    BY <1>2, <2>2 DEF Refuse, vars, accounting
  <2>4. Exact'
    <3>1. \A r \in Requests : Live(r)' <=> Live(r)
      BY <2>3 DEF vars, Live
    <3>2. QED
      BY <2>3, <3>1, SameLeases DEF IndInv, vars
  <2>5. QED
    BY <2>3, <2>4 DEF vars, accounting, race, IndInv, Typed, NotOverlapped,
                      AnswersPosted, WithinLimits
<1>3. ASSUME NEW s \in Sessions, SessionLost(s) PROVE IndInv'
  <2>1. /\ Exact' /\ WithinLimits'
        /\ counts' \in [Accounts -> Nat] /\ global' \in [Kinds -> Nat]
        /\ tracked' \subseteq Owners /\ inFlight' \subseteq Requests
    BY <1>3, CancelledLeases
  <2>2. job' \in [Requests -> {"none", "queued", "running", "posted", "ending"}]
    BY <1>3 DEF SessionLost, Drop, IndInv, Typed
  <2>3. AnswersPosted' /\ NotOverlapped'
    BY <1>3 DEF SessionLost, Drop, IndInv, AnswersPosted, NotOverlapped, Typed,
                race
  <2>4. Typed'
    BY <1>3, <2>1, <2>2 DEF SessionLost, Drop, IndInv, Typed, race
  <2>5. QED
    BY <2>1, <2>3, <2>4 DEF IndInv
<1>4. ASSUME NEW r \in Requests, Answer(r) PROVE IndInv'
  <2>1. /\ AnswersPosted' /\ NotOverlapped'
        /\ \A q \in Requests : q # r => (Live(q)' <=> Live(q))
    BY <1>4 DEF Answer, IndInv, AnswersPosted, NotOverlapped, race, Live, Typed
  <2>2. /\ Exact' /\ WithinLimits'
        /\ counts' \in [Accounts -> Nat] /\ global' \in [Kinds -> Nat]
        /\ tracked' \subseteq Owners /\ inFlight' \subseteq Requests
    <3>1. CASE job[r] = "none"
      <4>1. Live(r) /\ ~(Live(r)') /\ kind' = kind /\ ReleaseNow(r)
        BY <1>4, <3>1 DEF Answer, Live
      <4>2. QED
        BY <2>1, <4>1, EndedLease
    <3>2. CASE job[r] # "none"
      <4>1. UNCHANGED <<accounting, kind>>
        BY <1>4, <3>2 DEF Answer
      <4>2. \A q \in Requests : Live(q)' <=> Live(q)
        BY <1>4, <3>2, <2>1 DEF Answer, Live
      <4>3. Exact'
        BY <4>1, <4>2, SameLeases DEF IndInv
      <4>4. QED
        BY <4>1, <4>3 DEF accounting, IndInv, Typed, WithinLimits
    <3>3. QED
      BY <3>1, <3>2
  <2>3. Typed'
    BY <1>4, <2>2 DEF Answer, IndInv, Typed, race
  <2>4. QED
    BY <2>1, <2>2, <2>3 DEF IndInv
<1>5. ASSUME NEW r \in Requests, Begin(r) \/ Post(r) \/ GiveBack(r) PROVE IndInv'
  <2>1. UNCHANGED <<accounting, kind>>
    BY <1>5 DEF Begin, Post, GiveBack
  <2>2. \A q \in Requests : Live(q)' <=> Live(q)
    BY <1>5 DEF Begin, Post, GiveBack, Live, IndInv, Typed
  <2>3. Exact'
    BY <2>1, <2>2, SameLeases DEF IndInv
  <2>4. job' \in [Requests -> {"none", "queued", "running", "posted", "ending"}]
    BY <1>5 DEF Begin, Post, GiveBack, IndInv, Typed
  <2>5. AnswersPosted'
    BY <1>5 DEF Begin, Post, GiveBack, IndInv, Typed, AnswersPosted
  <2>6. answers' \subseteq Requests /\ UNCHANGED <<sessions, race>>
    BY <1>5 DEF Begin, Post, GiveBack, IndInv, Typed
  <2>7. QED
    BY <2>1, <2>3, <2>4, <2>5, <2>6
       DEF IndInv, Typed, NotOverlapped, WithinLimits, accounting, race
<1>6. ASSUME NEW r \in Requests, Destroy(r) PROVE IndInv'
  <2>1. job' = [job EXCEPT ![r] = "none"] /\ job[r] = "ending"
    BY <1>6 DEF Destroy
  <2>2. /\ AnswersPosted' /\ NotOverlapped'
        /\ \A q \in Requests : q # r => (Live(q)' <=> Live(q))
    BY <1>6, <2>1
       DEF Destroy, IndInv, AnswersPosted, NotOverlapped, race, Live, Typed
  <2>3. /\ Exact' /\ WithinLimits'
        /\ counts' \in [Accounts -> Nat] /\ global' \in [Kinds -> Nat]
        /\ tracked' \subseteq Owners /\ inFlight' \subseteq Requests
    <3>1. CASE r \notin answers
      <4>1. Live(r) /\ ~(Live(r)') /\ kind' = kind /\ ReleaseNow(r)
        BY <1>6, <2>1, <3>1 DEF Destroy, Live, IndInv, Typed
      <4>2. QED
        BY <2>2, <4>1, EndedLease
    <3>2. CASE r \in answers
      <4>1. UNCHANGED <<accounting, kind>>
        BY <1>6, <3>2 DEF Destroy
      <4>2. \A q \in Requests : Live(q)' <=> Live(q)
        BY <1>6, <3>2, <2>2 DEF Destroy, Live
      <4>3. Exact'
        BY <4>1, <4>2, SameLeases DEF IndInv
      <4>4. QED
        BY <4>1, <4>3 DEF accounting, IndInv, Typed, WithinLimits
    <3>3. QED
      BY <3>1, <3>2
  <2>4. Typed'
    BY <1>6, <2>1, <2>3 DEF Destroy, IndInv, Typed, race
  <2>5. QED
    BY <2>2, <2>3, <2>4 DEF IndInv
<1>7. ASSUME NEW r \in Requests, BeginRelease(r) PROVE FALSE
  <2>1. overlaps \in Nat /\ overlaps' = overlaps + 1
    BY <1>7, AdmissionAssumption DEF BeginRelease, IndInv, Typed
  <2>2. QED
    BY <2>1
<1>8. ASSUME NEW r \in Requests, EndRelease(r) PROVE FALSE
  BY <1>8 DEF EndRelease, IndInv, NotOverlapped, Nothing, Typed
<1>9. CASE UNCHANGED vars
  <2>1. \A r \in Requests : Live(r)' <=> Live(r)
    BY <1>9 DEF vars, Live
  <2>2. Exact'
    BY <1>9, <2>1, SameLeases DEF IndInv, vars
  <2>3. QED
    BY <1>9, <2>2 DEF vars, accounting, race, IndInv, Typed, NotOverlapped,
                      AnswersPosted, WithinLimits
<1>10. QED
  BY <1>1, <1>2, <1>3, <1>4, <1>5, <1>6, <1>7, <1>8, <1>9 DEF Next, Worker

-----------------------------------------------------------------------------
(***************************************************************************)
(* Typing, which also holds after a lost update.                           *)
(***************************************************************************)
Accounting ==
    /\ counts \in [Accounts -> Int] /\ global \in [Kinds -> Int]
    /\ tracked \subseteq Owners
    /\ inFlight \subseteq Requests

Rest ==
    /\ sessions \subseteq Sessions
    /\ kind \in [Requests -> Kinds]
    /\ job \in [Requests -> {"none", "queued", "running", "posted", "ending"}]
    /\ answers \subseteq Requests
    /\ read \in [Kinds -> [inside : BOOLEAN, count : Int, total : Int]]
    /\ overlaps \in 0 .. MaxOverlaps

LEMMA ReleaseTyped ==
    ASSUME Accounting, NEW rs, NEW o \in Owners, NEW k \in Kinds,
           NEW count \in Int, NEW total \in Int, Release(rs, o, k, count, total)
    PROVE  Accounting'
<1>1. counts' \in [Accounts -> Int]
  BY DEF Accounting, Release
<1>2. global' \in [Kinds -> Int]
  BY DEF Accounting, Release
<1>3. tracked' \subseteq Owners /\ inFlight' \subseteq Requests
  BY DEF Accounting, Release, Forget
<1>4. QED
  BY <1>1, <1>2, <1>3 DEF Accounting

LEMMA ReleaseNowTyped ==
    ASSUME Accounting, Rest, NEW r \in Requests, ReleaseNow(r)
    PROVE  Accounting'
<1>1. kind[r] \in Kinds /\ Account(r) \in Accounts
  BY OwnerTyped DEF Rest, Account, Accounts
<1>2. counts[Account(r)] - 1 \in Int /\ global[kind[r]] - 1 \in Int
  BY <1>1 DEF Accounting
<1>3. CASE OwnerOfRequest(r) \in tracked
  BY <1>1, <1>2, <1>3, OwnerTyped, ReleaseTyped DEF ReleaseNow
<1>4. CASE OwnerOfRequest(r) \notin tracked
  BY <1>4 DEF ReleaseNow, Accounting
<1>5. QED
  BY <1>3, <1>4

LEMMA TypingStep ==
    ASSUME Accounting, Rest, [Next]_vars
    PROVE  Accounting' /\ Rest'
<1>1. ASSUME NEW r \in Requests, NEW k \in Kinds, Admit(r, k)
      PROVE Accounting' /\ Rest'
  <2>1. counts' \in [Accounts -> Int]
    <3>1. counts' = [counts EXCEPT ![<<OwnerOfRequest(r), k>>] = @ + 1]
      BY <1>1 DEF Admit, Accept
    <3>2. counts \in [Accounts -> Int]
      BY DEF Accounting
    <3>3. \A a \in Accounts : counts'[a] \in Int
      BY <3>1, <3>2
    <3>4. QED
      BY <3>1, <3>2, <3>3
  <2>2. global' \in [Kinds -> Int]
    BY <1>1 DEF Admit, Accept, Accounting
  <2>3. tracked' \subseteq Owners /\ inFlight' \subseteq Requests
    BY <1>1, OwnerTyped DEF Admit, Accept, Accounting
  <2>4. kind' \in [Requests -> Kinds]
    BY <1>1 DEF Admit, Accept, Rest
  <2>5. job' \in [Requests -> {"none", "queued", "running", "posted", "ending"}]
    BY <1>1 DEF Admit, Accept, Rest
  <2>6. Rest'
    BY <1>1, <2>4, <2>5 DEF Admit, Accept, Rest, race
  <2>7. QED
    BY <2>1, <2>2, <2>3, <2>6 DEF Accounting
<1>2. ASSUME NEW s \in sessions, NEW k \in Kinds, Refuse(OwnerOf[s], k)
      PROVE Accounting' /\ Rest'
  <2>1. OwnerOf[s] \in Owners
    BY AdmissionAssumption DEF Rest
  <2>2. QED
    BY <1>2, <2>1 DEF Refuse, Accounting, Rest, race
<1>3. ASSUME NEW s \in Sessions, SessionLost(s) PROVE Accounting' /\ Rest'
  <2>1. Rest'
    BY <1>3 DEF SessionLost, Drop, Rest, race
  <2>2. OwnerOf[s] \in Owners /\ "read" \in Kinds
    BY AdmissionAssumption DEF Kinds
  <2>3. QueuedReads(s) \subseteq Requests
    BY DEF QueuedReads
  <2>4. Cardinality(QueuedReads(s)) \in Int
    BY <2>3, RequestsFinite, FS_Subset, FS_CardinalityType
  <2>5. /\ counts[<<OwnerOf[s], "read">>] - Cardinality(QueuedReads(s)) \in Int
        /\ global["read"] - Cardinality(QueuedReads(s)) \in Int
    BY <2>2, <2>4 DEF Accounting, Accounts
  <2>6. Accounting'
    <3>1. CASE Cardinality(QueuedReads(s)) > 0 /\ OwnerOf[s] \in tracked
      <4>1. Release(QueuedReads(s), OwnerOf[s], "read",
                    counts[<<OwnerOf[s], "read">>] - Cardinality(QueuedReads(s)),
                    global["read"] - Cardinality(QueuedReads(s)))
        BY <1>3, <3>1 DEF SessionLost, Cancelled
      <4>2. QED
        BY <4>1, <2>2, <2>5, ReleaseTyped
    <3>2. CASE ~(Cardinality(QueuedReads(s)) > 0 /\ OwnerOf[s] \in tracked)
      BY <1>3, <3>2 DEF SessionLost, Cancelled, Accounting
    <3>3. QED
      BY <3>1, <3>2
  <2>7. QED
    BY <2>1, <2>6
<1>4. ASSUME NEW r \in Requests, Answer(r) PROVE Accounting' /\ Rest'
  <2>1. Rest'
    BY <1>4 DEF Answer, Rest, race
  <2>2. Accounting'
    BY <1>4, ReleaseNowTyped DEF Answer, accounting, Accounting
  <2>3. QED
    BY <2>1, <2>2
<1>5. ASSUME NEW r \in Requests, Begin(r) \/ Post(r) \/ GiveBack(r)
      PROVE Accounting' /\ Rest'
  BY <1>5 DEF Begin, Post, GiveBack, Accounting, Rest, accounting, race
<1>6. ASSUME NEW r \in Requests, Destroy(r) PROVE Accounting' /\ Rest'
  <2>1. Rest'
    BY <1>6 DEF Destroy, Rest, race
  <2>2. Accounting'
    BY <1>6, ReleaseNowTyped DEF Destroy, accounting, Accounting
  <2>3. QED
    BY <2>1, <2>2
<1>7. ASSUME NEW r \in Requests, BeginRelease(r) PROVE Accounting' /\ Rest'
  <2>1. kind[r] \in Kinds /\ Account(r) \in Accounts
    BY OwnerTyped DEF Rest, Account, Accounts
  <2>2. counts[Account(r)] \in Int /\ global[kind[r]] \in Int
    BY <2>1 DEF Accounting
  <2>3. read' \in [Kinds -> [inside : BOOLEAN, count : Int, total : Int]]
    BY <1>7, <2>1, <2>2 DEF BeginRelease, Rest
  <2>4. overlaps' \in 0 .. MaxOverlaps
    BY <1>7, AdmissionAssumption DEF BeginRelease, Rest
  <2>5. QED
    BY <1>7, <2>3, <2>4 DEF BeginRelease, Accounting, Rest, accounting
<1>8. ASSUME NEW r \in Requests, EndRelease(r) PROVE Accounting' /\ Rest'
  <2>1. kind[r] \in Kinds
    BY DEF Rest
  <2>2. read[kind[r]].count - 1 \in Int /\ read[kind[r]].total - 1 \in Int
    BY <2>1 DEF Rest
  <2>3. Accounting'
    BY <1>8, <2>1, <2>2, OwnerTyped, ReleaseTyped DEF EndRelease
  <2>4. read' \in [Kinds -> [inside : BOOLEAN, count : Int, total : Int]]
    BY <1>8, <2>1 DEF EndRelease, Rest, Nothing
  <2>5. job' \in [Requests -> {"none", "queued", "running", "posted", "ending"}]
    BY <1>8 DEF EndRelease, Rest
  <2>6. QED
    BY <1>8, <2>3, <2>4, <2>5 DEF EndRelease, Rest
<1>9. CASE UNCHANGED vars
  BY <1>9 DEF vars, accounting, race, Accounting, Rest
<1>10. QED
  BY <1>1, <1>2, <1>3, <1>4, <1>5, <1>6, <1>7, <1>8, <1>9 DEF Next, Worker

-----------------------------------------------------------------------------
(***************************************************************************)
(* The two invariants together.                                            *)
(***************************************************************************)
Undisturbed == overlaps = 0 => IndInv

LEMMA Inductive == Spec => [](Accounting /\ Rest /\ Undisturbed)
<1>1. Init => Accounting /\ Rest /\ Undisturbed
  BY InitIndInv DEF Undisturbed, IndInv, Typed, Accounting, Rest
<1>2. Accounting /\ Rest /\ Undisturbed /\ [Next]_vars => Undisturbed'
  <2> SUFFICES ASSUME Rest, Undisturbed, [Next]_vars, overlaps' = 0
               PROVE IndInv'
    BY DEF Undisturbed
  <2>1. overlaps' = overlaps \/ overlaps' = overlaps + 1
    BY DEF Next, Worker, vars, race, Admit, Accept, Refuse, SessionLost, Drop,
           Answer, Begin, Post, GiveBack, Destroy, BeginRelease, EndRelease
  <2>2. overlaps \in Nat
    BY AdmissionAssumption DEF Rest
  <2>3. IndInv
    BY <2>1, <2>2 DEF Undisturbed
  <2>4. QED
    BY <2>3, StepIndInv
<1>3. QED
  BY <1>1, <1>2, TypingStep, PTL DEF Spec

-----------------------------------------------------------------------------
\* Every variable keeps its type, and no counter falls below zero before two
\* threads have collided.
THEOREM TypeCorrect == Spec => []TypeOK
<1>1. Accounting /\ Rest /\ Undisturbed => TypeOK
  BY DEF Accounting, Rest, Undisturbed, IndInv, Typed, TypeOK
<1>2. QED
  BY Inductive, <1>1, PTL

\* The accounts of the controller are the leases that are alive, whichever of
\* the threads drops the last copy of a completion.
THEOREM AccountsExact == Spec => []AccountsAreLeases
<1>1. Undisturbed => AccountsAreLeases
  BY DEF Undisturbed, IndInv, AccountsAreLeases
<1>2. QED
  BY Inductive, <1>1, PTL

\* No owner and not the Host as a whole holds more than its share.
THEOREM SharesKept == Spec => []SharesRespected
<1>1. Undisturbed => SharesRespected
  BY DEF Undisturbed, IndInv, SharesRespected, Exact, WithinLimits
<1>2. QED
  BY Inductive, <1>1, PTL

\* An admitted request is never refused by the executor it is queued on.
THEOREM AdmittedFindsRoom == Spec => []RoomForAdmitted
<1>1. Undisturbed => RoomForAdmitted
  <2> SUFFICES ASSUME IndInv, NEW k \in Kinds, global[k] < MaximumGlobal[k]
               PROVE Cardinality(Busy(k)) < MaximumGlobal[k]
    BY DEF RoomForAdmitted, Undisturbed
  <2>1. Busy(k) \in SUBSET GlobalLeases(k)
    BY DEF Busy, GlobalLeases, Live
  <2>2. Cardinality(Busy(k)) <= Cardinality(GlobalLeases(k))
    BY <2>1, LeasesFinite, FS_Subset
  <2>3. Cardinality(Busy(k)) \in Nat
    BY LeasesFinite, FS_CardinalityType
  <2>4. Cardinality(GlobalLeases(k)) = global[k] /\ global[k] \in Nat
    BY DEF IndInv, Exact, Typed
  <2>5. MaximumGlobal[k] \in Nat
    BY AdmissionAssumption
  <2>6. QED
    BY <2>2, <2>3, <2>4, <2>5
<1>2. QED
  BY Inductive, <1>1, PTL


-----------------------------------------------------------------------------
(***************************************************************************)
(* The maintenance boundary. Its inductive invariant: what holds besides   *)
(* the type and the entrances.                                             *)
(***************************************************************************)
\* Connections are closed and replaced on one path, after beginShutdown.
ClosedInShutdown ==
    /\ restore \in {"closing", "replacing"} => state = "ShuttingDown"
    /\ \A e \in Executors : close[e] # "none" => state = "ShuttingDown"

\* A worker that closed its connection has nothing left to do.
ClosedIsQuiet ==
    \A e \in Executors :
        close[e] = "closed" => worker[e] = "idle" /\ queued[e] = 0

CountsWorker ==
    \A e \in Executors : active[e] = IF worker[e] = "active" THEN 1 ELSE 0

\* The replacement starts only when both closes were answered, and well.
ClosesCounted ==
    /\ awaiting # {} => restore = "closing"
    /\ restore = "closing" /\ quiesced =>
           \A e \in Executors \ awaiting : close[e] = "closed"
    /\ restore = "replacing" => \A e \in Executors : close[e] = "closed"

\* No backup starts or runs from the moment the Restore has waited for it.
BackupsStopped ==
    /\ restore \in {"awaitBackup", "draining", "closing", "replacing"} =>
           backupStarted = FALSE
    /\ restore \in {"draining", "closing", "replacing"} =>
           backupRunning = FALSE

Boundary ==
    /\ ClosedInShutdown
    /\ ClosedIsQuiet
    /\ ClosesCounted
    /\ BackupsStopped

BoundaryInv == BoundaryTypeOK /\ CountsWorker /\ EntrancesAgree /\ Boundary

-----------------------------------------------------------------------------
LEMMA BoundaryFirst ==
    ASSUME BoundaryInit
    PROVE  BoundaryInv
<1>1. BoundaryTypeOK
  <2>1. queued \in [Executors -> 0 .. MaximumQueued]
    BY MaintenanceAssumption DEF BoundaryInit
  <2>2. active \in [Executors -> 0 .. 1]
    BY DEF BoundaryInit
  <2>3. QED
    BY <2>1, <2>2 DEF BoundaryInit, BoundaryTypeOK
<1>2. CountsWorker /\ EntrancesAgree
  BY DEF BoundaryInit, CountsWorker, EntrancesAgree
<1>3. Boundary
  BY DEF BoundaryInit, Boundary, ClosedInShutdown, ClosedIsQuiet, ClosesCounted,
      BackupsStopped
<1>4. QED
  BY <1>1, <1>2, <1>3 DEF BoundaryInv

\* Type correctness of one step; the counter needs what the worker does.
LEMMA BoundaryTyped ==
    ASSUME BoundaryTypeOK, CountsWorker,
           [BoundaryNext]_boundaryVars
    PROVE  BoundaryTypeOK'
<1> USE MaintenanceAssumption
<1>1. CASE RequestEnterMaintenance
  BY <1>1 DEF RequestEnterMaintenance, EvaluateDrain, CloseWorkers, executors,
      control, backup, BoundaryTypeOK, CloseAnswers, Full, CancelledReads,
      Executors, Entrances
<1>2. CASE LeaveMaintenance
  BY <1>2 DEF LeaveMaintenance, Reopened, executors, control, backup,
      BoundaryTypeOK, CloseAnswers, Full, CancelledReads, Executors, Entrances
<1>3. CASE RestoreStarts
  BY <1>3 DEF RestoreStarts, executors, control, backup, BoundaryTypeOK,
      CloseAnswers, Full, CancelledReads, Executors, Entrances
<1>4. CASE ActivityChanged
  BY <1>4 DEF ActivityChanged, Reevaluate, EvaluateDrain, CloseWorkers,
      executors, control, backup, BoundaryTypeOK, CloseAnswers, Full,
      CancelledReads, Executors, Entrances
<1>5. CASE Timeout
  BY <1>5 DEF Timeout, Reopened, executors, control, backup, BoundaryTypeOK,
      CloseAnswers, Full, CancelledReads, Executors, Entrances
<1>6. ASSUME NEW c \in Clients, ClientDisconnects(c) PROVE BoundaryTypeOK'
  BY <1>6 DEF ClientDisconnects, executors, control, backup, BoundaryTypeOK,
      CloseAnswers, Full, CancelledReads, Executors, Entrances
<1>7. ASSUME NEW c \in Clients, NEW e \in Executors, Request(c, e)
     PROVE BoundaryTypeOK'
  BY <1>7 DEF Request, executors, control, backup, BoundaryTypeOK, CloseAnswers,
      Full, CancelledReads, Executors, Entrances
<1>8. CASE ReaderLost
  <2>1. PICK n \in 0 .. queued["reads"] - 1 :
            queued' = [queued EXCEPT !["reads"] = n]
    BY <1>8 DEF ReaderLost, CancelledReads
  <2>2. queued["reads"] \in 0 .. MaximumQueued
    BY DEF BoundaryTypeOK, Executors
  <2>3. n \in 0 .. MaximumQueued
    BY <2>2
  <2>4. queued' \in [Executors -> 0 .. MaximumQueued]
    BY <2>1, <2>3 DEF BoundaryTypeOK
  <2>5. close' \in [Executors -> {"none", "refused", "posted", "closed"}]
    BY <1>8 DEF ReaderLost, Reevaluate, EvaluateDrain, CloseWorkers, control,
        CloseAnswers, BoundaryTypeOK
  <2>6. suppressed' \subseteq Clients /\ open' \subseteq Entrances
    BY <1>8 DEF ReaderLost, Reevaluate, EvaluateDrain, CloseWorkers, control,
        BoundaryTypeOK
  <2>7. state' \in {"Normal", "Entering", "Maintenance", "ShuttingDown"}
    BY <1>8 DEF ReaderLost, Reevaluate, EvaluateDrain, CloseWorkers, control,
        BoundaryTypeOK
  <2>8. restore' \in {"idle", "preflight", "awaitBackup", "draining",
      "closing", "replacing", "finished"}
    BY <1>8 DEF ReaderLost, Reevaluate, EvaluateDrain, CloseWorkers, control,
        BoundaryTypeOK
  <2>9. awaiting' \subseteq Executors /\ quiesced' \in BOOLEAN
    BY <1>8 DEF ReaderLost, Reevaluate, EvaluateDrain, CloseWorkers, control,
        BoundaryTypeOK
  <2>10. QED
    BY <1>8, <2>4, <2>5, <2>6, <2>7, <2>8, <2>9 DEF ReaderLost, backup,
        BoundaryTypeOK
<1>9. CASE Broadcast
  BY <1>9 DEF Broadcast, executors, control, backup, BoundaryTypeOK,
      CloseAnswers, Full, CancelledReads, Executors, Entrances
<1>10. CASE LocalWrite
  BY <1>10 DEF LocalWrite, executors, control, backup, BoundaryTypeOK,
      CloseAnswers, Full, CancelledReads, Executors, Entrances
<1>11. CASE PartOutSubmit
  BY <1>11 DEF PartOutSubmit, executors, control, backup, BoundaryTypeOK,
      CloseAnswers, Full, CancelledReads, Executors, Entrances
<1>12. CASE PartOutTestsGate
  BY <1>12 DEF PartOutTestsGate, executors, control, backup, BoundaryTypeOK,
      CloseAnswers, Full, CancelledReads, Executors, Entrances
<1>13. CASE PartOutDone
  BY <1>13 DEF PartOutDone, executors, control, backup, BoundaryTypeOK,
      CloseAnswers, Full, CancelledReads, Executors, Entrances
<1>14. ASSUME NEW e \in Executors, TakeJob(e) PROVE BoundaryTypeOK'
  BY <1>14 DEF TakeJob, executors, control, backup, BoundaryTypeOK,
      CloseAnswers, Full, CancelledReads, Executors, Entrances
<1>15. ASSUME NEW e \in Executors, CountActive(e) PROVE BoundaryTypeOK'
  <2>1. active[e] = 0
    BY <1>15 DEF CountActive, CountsWorker
  <2>2. active' \in [Executors -> 0 .. 1]
    BY <1>15, <2>1 DEF CountActive, BoundaryTypeOK
  <2>3. worker' \in [Executors -> {"idle", "gap", "active"}]
    BY <1>15 DEF CountActive, BoundaryTypeOK
  <2>4. QED
    BY <1>15, <2>2, <2>3 DEF CountActive, control, backup, BoundaryTypeOK
<1>16. ASSUME NEW e \in Executors, Finish(e) PROVE BoundaryTypeOK'
  <2>1. active[e] = 1
    BY <1>16 DEF Finish, CountsWorker
  <2>2. active' \in [Executors -> 0 .. 1]
    BY <1>16, <2>1 DEF Finish, BoundaryTypeOK
  <2>3. worker' \in [Executors -> {"idle", "gap", "active"}]
    BY <1>16 DEF Finish, BoundaryTypeOK
  <2>4. commits' \in BOOLEAN
    BY <1>16 DEF Finish, BoundaryTypeOK
  <2>5. QED
    BY <1>16, <2>2, <2>3, <2>4 DEF Finish, control, backup, BoundaryTypeOK
<1>17. ASSUME NEW e \in Executors, WorkerCloses(e) PROVE BoundaryTypeOK'
  BY <1>17 DEF WorkerCloses, executors, control, backup, BoundaryTypeOK,
      CloseAnswers, Full, CancelledReads, Executors, Entrances
<1>18. ASSUME NEW e \in Executors, CloseAnswered(e) PROVE BoundaryTypeOK'
  BY <1>18 DEF CloseAnswered, executors, control, backup, BoundaryTypeOK,
      CloseAnswers, Full, CancelledReads, Executors, Entrances
<1>19. CASE BackupBegins
  BY <1>19 DEF BackupBegins, executors, control, backup, BoundaryTypeOK,
      CloseAnswers, Full, CancelledReads, Executors, Entrances
<1>20. CASE BackupEnds
  <2>1. close' \in [Executors -> {"none", "refused", "posted", "closed"}]
    BY <1>20 DEF BackupEnds, Quiesce, EvaluateDrain, CloseWorkers, control,
        CloseAnswers, BoundaryTypeOK
  <2>2. suppressed' \subseteq Clients /\ open' \subseteq Entrances
    BY <1>20 DEF BackupEnds, Quiesce, EvaluateDrain, CloseWorkers, control,
        BoundaryTypeOK
  <2>3. state' \in {"Normal", "Entering", "Maintenance", "ShuttingDown"}
    BY <1>20 DEF BackupEnds, Quiesce, EvaluateDrain, CloseWorkers, control,
        BoundaryTypeOK
  <2>4. restore' \in {"idle", "preflight", "awaitBackup", "draining",
      "closing", "replacing", "finished"}
    BY <1>20 DEF BackupEnds, Quiesce, EvaluateDrain, CloseWorkers, control,
        BoundaryTypeOK
  <2>5. awaiting' \subseteq Executors /\ quiesced' \in BOOLEAN /\ refused' \in BOOLEAN
    BY <1>20 DEF BackupEnds, Quiesce, EvaluateDrain, CloseWorkers, control,
        BoundaryTypeOK
  <2>6. QED
    BY <1>20, <2>1, <2>2, <2>3, <2>4, <2>5 DEF BackupEnds, executors,
        BoundaryTypeOK
<1>21. CASE CandidateRejected
  BY <1>21 DEF CandidateRejected, executors, control, backup, BoundaryTypeOK,
      CloseAnswers, Full, CancelledReads, Executors, Entrances
<1>22. CASE CandidateStaged
  BY <1>22 DEF CandidateStaged, Quiesce, EvaluateDrain, CloseWorkers, executors,
      control, backup, BoundaryTypeOK, CloseAnswers, Full, CancelledReads,
      Executors, Entrances
<1>23. CASE Replaced
  BY <1>23 DEF Replaced, executors, control, backup, BoundaryTypeOK,
      CloseAnswers, Full, CancelledReads, Executors, Entrances
<1>24. CASE UNCHANGED boundaryVars
  BY <1>24 DEF boundaryVars, executors, control, backup, BoundaryTypeOK,
      CloseAnswers, Full, CancelledReads, Executors, Entrances
<1> QED
  BY <1>1, <1>2, <1>3, <1>4, <1>5, <1>6, <1>7, <1>8, <1>9, <1>10, <1>11, <1>12,
      <1>13, <1>14, <1>15, <1>16, <1>17, <1>18, <1>19, <1>20, <1>21, <1>22,
      <1>23, <1>24 DEF BoundaryNext, Operator, Local, WorkerStep, Backups,
      Candidate

\* m_active follows the worker.
LEMMA CountsSteps ==
    ASSUME BoundaryTypeOK, CountsWorker, [BoundaryNext]_boundaryVars
    PROVE  CountsWorker'
<1> USE DEF Executors
<1>1. CASE RequestEnterMaintenance
  BY <1>1 DEF RequestEnterMaintenance, EvaluateDrain, CloseWorkers, executors,
      control, backup, CountsWorker, BoundaryTypeOK
<1>2. CASE LeaveMaintenance
  BY <1>2 DEF LeaveMaintenance, Reopened, executors, control, backup,
      CountsWorker, BoundaryTypeOK
<1>3. CASE RestoreStarts
  BY <1>3 DEF RestoreStarts, executors, control, backup, CountsWorker,
      BoundaryTypeOK
<1>4. CASE ActivityChanged
  BY <1>4 DEF ActivityChanged, Reevaluate, EvaluateDrain, CloseWorkers,
      executors, control, backup, CountsWorker, BoundaryTypeOK
<1>5. CASE Timeout
  BY <1>5 DEF Timeout, Reopened, executors, control, backup, CountsWorker,
      BoundaryTypeOK
<1>6. ASSUME NEW c \in Clients, ClientDisconnects(c) PROVE CountsWorker'
  BY <1>6 DEF ClientDisconnects, executors, control, backup, CountsWorker,
      BoundaryTypeOK
<1>7. ASSUME NEW c \in Clients, NEW e \in Executors, Request(c, e)
     PROVE CountsWorker'
  BY <1>7 DEF Request, executors, control, backup, CountsWorker, BoundaryTypeOK
<1>8. CASE ReaderLost
  BY <1>8 DEF ReaderLost, Reevaluate, EvaluateDrain, CloseWorkers, executors,
      control, backup, CountsWorker, BoundaryTypeOK
<1>9. CASE Broadcast
  BY <1>9 DEF Broadcast, executors, control, backup, CountsWorker,
      BoundaryTypeOK
<1>10. CASE LocalWrite
  BY <1>10 DEF LocalWrite, executors, control, backup, CountsWorker,
      BoundaryTypeOK
<1>11. CASE PartOutSubmit
  BY <1>11 DEF PartOutSubmit, executors, control, backup, CountsWorker,
      BoundaryTypeOK
<1>12. CASE PartOutTestsGate
  BY <1>12 DEF PartOutTestsGate, executors, control, backup, CountsWorker,
      BoundaryTypeOK
<1>13. CASE PartOutDone
  BY <1>13 DEF PartOutDone, executors, control, backup, CountsWorker,
      BoundaryTypeOK
<1>14. ASSUME NEW e \in Executors, TakeJob(e) PROVE CountsWorker'
  BY <1>14 DEF TakeJob, executors, control, backup, CountsWorker, BoundaryTypeOK
<1>15. ASSUME NEW e \in Executors, CountActive(e) PROVE CountsWorker'
  BY <1>15 DEF CountActive, executors, control, backup, CountsWorker,
      BoundaryTypeOK
<1>16. ASSUME NEW e \in Executors, Finish(e) PROVE CountsWorker'
  BY <1>16 DEF Finish, executors, control, backup, CountsWorker, BoundaryTypeOK
<1>17. ASSUME NEW e \in Executors, WorkerCloses(e) PROVE CountsWorker'
  BY <1>17 DEF WorkerCloses, executors, control, backup, CountsWorker,
      BoundaryTypeOK
<1>18. ASSUME NEW e \in Executors, CloseAnswered(e)
       PROVE CountsWorker'
  BY <1>18 DEF CloseAnswered, executors, control, backup, CountsWorker,
      BoundaryTypeOK
<1>19. CASE BackupBegins
  BY <1>19 DEF BackupBegins, executors, control, backup, CountsWorker,
      BoundaryTypeOK
<1>20. CASE BackupEnds
  BY <1>20 DEF BackupEnds, Quiesce, EvaluateDrain, CloseWorkers, executors,
      control, backup, CountsWorker, BoundaryTypeOK
<1>21. CASE CandidateRejected
  BY <1>21 DEF CandidateRejected, executors, control, backup, CountsWorker,
      BoundaryTypeOK
<1>22. CASE CandidateStaged
  BY <1>22 DEF CandidateStaged, Quiesce, EvaluateDrain, CloseWorkers, executors,
      control, backup, CountsWorker, BoundaryTypeOK
<1>23. CASE Replaced
  BY <1>23 DEF Replaced, executors, control, backup, CountsWorker,
      BoundaryTypeOK
<1>24. CASE UNCHANGED boundaryVars
  BY <1>24 DEF boundaryVars, executors, control, backup, CountsWorker,
      BoundaryTypeOK
<1> QED
  BY <1>1, <1>2, <1>3, <1>4, <1>5, <1>6, <1>7, <1>8, <1>9, <1>10, <1>11, <1>12,
      <1>13, <1>14, <1>15, <1>16, <1>17, <1>18, <1>19, <1>20, <1>21, <1>22,
      <1>23, <1>24 DEF BoundaryNext, Operator, Local, WorkerStep, Backups,
      Candidate

\* Every path opens or closes the four entrances together.
LEMMA EntrancesSteps ==
    ASSUME BoundaryTypeOK, EntrancesAgree, [BoundaryNext]_boundaryVars
    PROVE  EntrancesAgree'
<1>1. CASE RequestEnterMaintenance
  BY <1>1 DEF RequestEnterMaintenance, EvaluateDrain, CloseWorkers, executors,
      control, backup, EntrancesAgree
<1>2. CASE LeaveMaintenance
  BY <1>2 DEF LeaveMaintenance, Reopened, executors, control, backup,
      EntrancesAgree
<1>3. CASE RestoreStarts
  BY <1>3 DEF RestoreStarts, executors, control, backup, EntrancesAgree
<1>4. CASE ActivityChanged
  BY <1>4 DEF ActivityChanged, Reevaluate, EvaluateDrain, CloseWorkers,
      executors, control, backup, EntrancesAgree
<1>5. CASE Timeout
  BY <1>5 DEF Timeout, Reopened, executors, control, backup, EntrancesAgree
<1>6. ASSUME NEW c \in Clients, ClientDisconnects(c)
       PROVE EntrancesAgree'
  BY <1>6 DEF ClientDisconnects, executors, control, backup, EntrancesAgree
<1>7. ASSUME NEW c \in Clients, NEW e \in Executors, Request(c, e)
     PROVE EntrancesAgree'
  BY <1>7 DEF Request, executors, control, backup, EntrancesAgree
<1>8. CASE ReaderLost
  BY <1>8 DEF ReaderLost, Reevaluate, EvaluateDrain, CloseWorkers, executors,
      control, backup, EntrancesAgree
<1>9. CASE Broadcast
  BY <1>9 DEF Broadcast, executors, control, backup, EntrancesAgree
<1>10. CASE LocalWrite
  BY <1>10 DEF LocalWrite, executors, control, backup, EntrancesAgree
<1>11. CASE PartOutSubmit
  BY <1>11 DEF PartOutSubmit, executors, control, backup, EntrancesAgree
<1>12. CASE PartOutTestsGate
  BY <1>12 DEF PartOutTestsGate, executors, control, backup, EntrancesAgree
<1>13. CASE PartOutDone
  BY <1>13 DEF PartOutDone, executors, control, backup, EntrancesAgree
<1>14. ASSUME NEW e \in Executors, TakeJob(e)
       PROVE EntrancesAgree'
  BY <1>14 DEF TakeJob, executors, control, backup, EntrancesAgree
<1>15. ASSUME NEW e \in Executors, CountActive(e)
       PROVE EntrancesAgree'
  BY <1>15 DEF CountActive, executors, control, backup, EntrancesAgree
<1>16. ASSUME NEW e \in Executors, Finish(e)
       PROVE EntrancesAgree'
  BY <1>16 DEF Finish, executors, control, backup, EntrancesAgree
<1>17. ASSUME NEW e \in Executors, WorkerCloses(e)
       PROVE EntrancesAgree'
  BY <1>17 DEF WorkerCloses, executors, control, backup, EntrancesAgree
<1>18. ASSUME NEW e \in Executors, CloseAnswered(e)
       PROVE EntrancesAgree'
  BY <1>18 DEF CloseAnswered, executors, control, backup, EntrancesAgree
<1>19. CASE BackupBegins
  BY <1>19 DEF BackupBegins, executors, control, backup, EntrancesAgree
<1>20. CASE BackupEnds
  BY <1>20 DEF BackupEnds, Quiesce, EvaluateDrain, CloseWorkers, executors,
      control, backup, EntrancesAgree
<1>21. CASE CandidateRejected
  BY <1>21 DEF CandidateRejected, executors, control, backup, EntrancesAgree
<1>22. CASE CandidateStaged
  BY <1>22 DEF CandidateStaged, Quiesce, EvaluateDrain, CloseWorkers, executors,
      control, backup, EntrancesAgree
<1>23. CASE Replaced
  BY <1>23 DEF Replaced, executors, control, backup, EntrancesAgree
<1>24. CASE UNCHANGED boundaryVars
  BY <1>24 DEF boundaryVars, executors, control, backup, EntrancesAgree
<1> QED
  BY <1>1, <1>2, <1>3, <1>4, <1>5, <1>6, <1>7, <1>8, <1>9, <1>10, <1>11, <1>12,
      <1>13, <1>14, <1>15, <1>16, <1>17, <1>18, <1>19, <1>20, <1>21, <1>22,
      <1>23, <1>24 DEF BoundaryNext, Operator, Local, WorkerStep, Backups,
      Candidate

\* A close is asked for in ShuttingDown, and ShuttingDown is never left.
LEMMA StepClosed ==
    ASSUME BoundaryTypeOK, Boundary, [BoundaryNext]_boundaryVars
    PROVE  ClosedInShutdown'
<1>1. CASE RequestEnterMaintenance
  BY <1>1 DEF RequestEnterMaintenance, EvaluateDrain, CloseWorkers, executors,
      control, backup, Boundary, ClosedInShutdown, ClosesCounted, BoundaryTypeOK
<1>2. CASE LeaveMaintenance
  BY <1>2 DEF LeaveMaintenance, Reopened, executors, control, backup, Boundary,
      ClosedInShutdown, ClosesCounted, BoundaryTypeOK
<1>3. CASE RestoreStarts
  BY <1>3 DEF RestoreStarts, executors, control, backup, Boundary,
      ClosedInShutdown, ClosesCounted, BoundaryTypeOK
<1>4. CASE ActivityChanged
  BY <1>4 DEF ActivityChanged, Reevaluate, EvaluateDrain, CloseWorkers,
      executors, control, backup, Boundary, ClosedInShutdown, ClosesCounted,
      BoundaryTypeOK
<1>5. CASE Timeout
  BY <1>5 DEF Timeout, Reopened, executors, control, backup, Boundary,
      ClosedInShutdown, ClosesCounted, BoundaryTypeOK
<1>6. ASSUME NEW c \in Clients, ClientDisconnects(c)
       PROVE ClosedInShutdown'
  BY <1>6 DEF ClientDisconnects, executors, control, backup, Boundary,
      ClosedInShutdown, ClosesCounted, BoundaryTypeOK
<1>7. ASSUME NEW c \in Clients, NEW e \in Executors, Request(c, e)
     PROVE ClosedInShutdown'
  BY <1>7 DEF Request, executors, control, backup, Boundary, ClosedInShutdown,
      ClosesCounted, BoundaryTypeOK
<1>8. CASE ReaderLost
  BY <1>8 DEF ReaderLost, Reevaluate, EvaluateDrain, CloseWorkers, executors,
      control, backup, Boundary, ClosedInShutdown, ClosesCounted, BoundaryTypeOK
<1>9. CASE Broadcast
  BY <1>9 DEF Broadcast, executors, control, backup, Boundary, ClosedInShutdown,
      ClosesCounted, BoundaryTypeOK
<1>10. CASE LocalWrite
  BY <1>10 DEF LocalWrite, executors, control, backup, Boundary,
      ClosedInShutdown, ClosesCounted, BoundaryTypeOK
<1>11. CASE PartOutSubmit
  BY <1>11 DEF PartOutSubmit, executors, control, backup, Boundary,
      ClosedInShutdown, ClosesCounted, BoundaryTypeOK
<1>12. CASE PartOutTestsGate
  BY <1>12 DEF PartOutTestsGate, executors, control, backup, Boundary,
      ClosedInShutdown, ClosesCounted, BoundaryTypeOK
<1>13. CASE PartOutDone
  BY <1>13 DEF PartOutDone, executors, control, backup, Boundary,
      ClosedInShutdown, ClosesCounted, BoundaryTypeOK
<1>14. ASSUME NEW e \in Executors, TakeJob(e) PROVE ClosedInShutdown'
  BY <1>14 DEF TakeJob, executors, control, backup, Boundary, ClosedInShutdown,
      ClosesCounted, BoundaryTypeOK
<1>15. ASSUME NEW e \in Executors, CountActive(e)
       PROVE ClosedInShutdown'
  BY <1>15 DEF CountActive, executors, control, backup, Boundary,
      ClosedInShutdown, ClosesCounted, BoundaryTypeOK
<1>16. ASSUME NEW e \in Executors, Finish(e) PROVE ClosedInShutdown'
  BY <1>16 DEF Finish, executors, control, backup, Boundary, ClosedInShutdown,
      ClosesCounted, BoundaryTypeOK
<1>17. ASSUME NEW e \in Executors, WorkerCloses(e)
       PROVE ClosedInShutdown'
  BY <1>17 DEF WorkerCloses, executors, control, backup, Boundary,
      ClosedInShutdown, ClosesCounted, BoundaryTypeOK
<1>18. ASSUME NEW e \in Executors, CloseAnswered(e)
       PROVE ClosedInShutdown'
  BY <1>18 DEF CloseAnswered, executors, control, backup, Boundary,
      ClosedInShutdown, ClosesCounted, BoundaryTypeOK
<1>19. CASE BackupBegins
  BY <1>19 DEF BackupBegins, executors, control, backup, Boundary,
      ClosedInShutdown, ClosesCounted, BoundaryTypeOK
<1>20. CASE BackupEnds
  BY <1>20 DEF BackupEnds, Quiesce, EvaluateDrain, CloseWorkers, executors,
      control, backup, Boundary, ClosedInShutdown, ClosesCounted, BoundaryTypeOK
<1>21. CASE CandidateRejected
  BY <1>21 DEF CandidateRejected, executors, control, backup, Boundary,
      ClosedInShutdown, ClosesCounted, BoundaryTypeOK
<1>22. CASE CandidateStaged
  BY <1>22 DEF CandidateStaged, Quiesce, EvaluateDrain, CloseWorkers, executors,
      control, backup, Boundary, ClosedInShutdown, ClosesCounted, BoundaryTypeOK
<1>23. CASE Replaced
  BY <1>23 DEF Replaced, executors, control, backup, Boundary, ClosedInShutdown,
      ClosesCounted, BoundaryTypeOK
<1>24. CASE UNCHANGED boundaryVars
  BY <1>24 DEF boundaryVars, executors, control, backup, Boundary,
      ClosedInShutdown, ClosesCounted, BoundaryTypeOK
<1> QED
  BY <1>1, <1>2, <1>3, <1>4, <1>5, <1>6, <1>7, <1>8, <1>9, <1>10, <1>11, <1>12,
      <1>13, <1>14, <1>15, <1>16, <1>17, <1>18, <1>19, <1>20, <1>21, <1>22,
      <1>23, <1>24 DEF BoundaryNext, Operator, Local, WorkerStep, Backups,
      Candidate

\* A closed executor gets no job: its entrance is closed for ever.
LEMMA StepQuiet ==
    ASSUME BoundaryTypeOK, EntrancesAgree, Boundary, [BoundaryNext]_boundaryVars
    PROVE  ClosedIsQuiet'
<1>1. CASE RequestEnterMaintenance
  BY <1>1 DEF RequestEnterMaintenance, EvaluateDrain, CloseWorkers, executors,
      control, backup, Boundary, ClosedInShutdown, ClosedIsQuiet,
      EntrancesAgree, CloseAnswers, BoundaryTypeOK, Executors
<1>2. CASE LeaveMaintenance
  BY <1>2 DEF LeaveMaintenance, Reopened, executors, control, backup, Boundary,
      ClosedInShutdown, ClosedIsQuiet, EntrancesAgree, CloseAnswers,
      BoundaryTypeOK, Executors
<1>3. CASE RestoreStarts
  BY <1>3 DEF RestoreStarts, executors, control, backup, Boundary,
      ClosedInShutdown, ClosedIsQuiet, EntrancesAgree, CloseAnswers,
      BoundaryTypeOK, Executors
<1>4. CASE ActivityChanged
  BY <1>4 DEF ActivityChanged, Reevaluate, EvaluateDrain, CloseWorkers,
      executors, control, backup, Boundary, ClosedInShutdown, ClosedIsQuiet,
      EntrancesAgree, CloseAnswers, BoundaryTypeOK, Executors
<1>5. CASE Timeout
  BY <1>5 DEF Timeout, Reopened, executors, control, backup, Boundary,
      ClosedInShutdown, ClosedIsQuiet, EntrancesAgree, CloseAnswers,
      BoundaryTypeOK, Executors
<1>6. ASSUME NEW c \in Clients, ClientDisconnects(c) PROVE ClosedIsQuiet'
  BY <1>6 DEF ClientDisconnects, executors, control, backup, Boundary,
      ClosedInShutdown, ClosedIsQuiet, EntrancesAgree, CloseAnswers,
      BoundaryTypeOK, Executors
<1>7. ASSUME NEW c \in Clients, NEW e \in Executors, Request(c, e)
     PROVE ClosedIsQuiet'
  BY <1>7 DEF Request, executors, control, backup, Boundary, ClosedInShutdown,
      ClosedIsQuiet, EntrancesAgree, CloseAnswers, BoundaryTypeOK, Executors
<1>8. CASE ReaderLost
  <2> SUFFICES ASSUME NEW e \in Executors,
      close'[e] = "closed" PROVE worker'[e] = "idle" /\ queued'[e] = 0
    BY DEF ClosedIsQuiet
  <2>1. PICK n \in 0 .. queued["reads"] - 1 : queued' = [queued EXCEPT !["reads"] = n]
    BY <1>8 DEF ReaderLost, CancelledReads
  <2>2. close[e] = "closed"
    BY <1>8 DEF ReaderLost, Reevaluate, EvaluateDrain, CloseWorkers, control,
        CloseAnswers
  <2>3. worker[e] = "idle" /\ queued[e] = 0
    BY <2>2 DEF Boundary, ClosedIsQuiet
  <2>4. e # "reads"
    BY <2>1, <2>3
  <2>5. queued'[e] = 0
    BY <2>1, <2>3, <2>4 DEF BoundaryTypeOK
  <2>6. QED
    BY <1>8, <2>3, <2>5 DEF ReaderLost
<1>9. CASE Broadcast
  BY <1>9 DEF Broadcast, executors, control, backup, Boundary, ClosedInShutdown,
      ClosedIsQuiet, EntrancesAgree, CloseAnswers, BoundaryTypeOK, Executors
<1>10. CASE LocalWrite
  BY <1>10 DEF LocalWrite, executors, control, backup, Boundary,
      ClosedInShutdown, ClosedIsQuiet, EntrancesAgree, CloseAnswers,
      BoundaryTypeOK, Executors
<1>11. CASE PartOutSubmit
  BY <1>11 DEF PartOutSubmit, executors, control, backup, Boundary,
      ClosedInShutdown, ClosedIsQuiet, EntrancesAgree, CloseAnswers,
      BoundaryTypeOK, Executors
<1>12. CASE PartOutTestsGate
  BY <1>12 DEF PartOutTestsGate, executors, control, backup, Boundary,
      ClosedInShutdown, ClosedIsQuiet, EntrancesAgree, CloseAnswers,
      BoundaryTypeOK, Executors
<1>13. CASE PartOutDone
  BY <1>13 DEF PartOutDone, executors, control, backup, Boundary,
      ClosedInShutdown, ClosedIsQuiet, EntrancesAgree, CloseAnswers,
      BoundaryTypeOK, Executors
<1>14. ASSUME NEW e \in Executors, TakeJob(e) PROVE ClosedIsQuiet'
  BY <1>14 DEF TakeJob, executors, control, backup, Boundary, ClosedInShutdown,
      ClosedIsQuiet, EntrancesAgree, CloseAnswers, BoundaryTypeOK, Executors
<1>15. ASSUME NEW e \in Executors, CountActive(e) PROVE ClosedIsQuiet'
  BY <1>15 DEF CountActive, executors, control, backup, Boundary,
      ClosedInShutdown, ClosedIsQuiet, EntrancesAgree, CloseAnswers,
      BoundaryTypeOK, Executors
<1>16. ASSUME NEW e \in Executors, Finish(e) PROVE ClosedIsQuiet'
  BY <1>16 DEF Finish, executors, control, backup, Boundary, ClosedInShutdown,
      ClosedIsQuiet, EntrancesAgree, CloseAnswers, BoundaryTypeOK, Executors
<1>17. ASSUME NEW e \in Executors, WorkerCloses(e)
       PROVE ClosedIsQuiet'
  BY <1>17 DEF WorkerCloses, executors, control, backup, Boundary,
      ClosedInShutdown, ClosedIsQuiet, EntrancesAgree, CloseAnswers,
      BoundaryTypeOK, Executors
<1>18. ASSUME NEW e \in Executors, CloseAnswered(e)
       PROVE ClosedIsQuiet'
  BY <1>18 DEF CloseAnswered, executors, control, backup, Boundary,
      ClosedInShutdown, ClosedIsQuiet, EntrancesAgree, CloseAnswers,
      BoundaryTypeOK, Executors
<1>19. CASE BackupBegins
  BY <1>19 DEF BackupBegins, executors, control, backup, Boundary,
      ClosedInShutdown, ClosedIsQuiet, EntrancesAgree, CloseAnswers,
      BoundaryTypeOK, Executors
<1>20. CASE BackupEnds
  BY <1>20 DEF BackupEnds, Quiesce, EvaluateDrain, CloseWorkers, executors,
      control, backup, Boundary, ClosedInShutdown, ClosedIsQuiet,
      EntrancesAgree, CloseAnswers, BoundaryTypeOK, Executors
<1>21. CASE CandidateRejected
  BY <1>21 DEF CandidateRejected, executors, control, backup, Boundary,
      ClosedInShutdown, ClosedIsQuiet, EntrancesAgree, CloseAnswers,
      BoundaryTypeOK, Executors
<1>22. CASE CandidateStaged
  BY <1>22 DEF CandidateStaged, Quiesce, EvaluateDrain, CloseWorkers, executors,
      control, backup, Boundary, ClosedInShutdown, ClosedIsQuiet,
      EntrancesAgree, CloseAnswers, BoundaryTypeOK, Executors
<1>23. CASE Replaced
  BY <1>23 DEF Replaced, executors, control, backup, Boundary, ClosedInShutdown,
      ClosedIsQuiet, EntrancesAgree, CloseAnswers, BoundaryTypeOK, Executors
<1>24. CASE UNCHANGED boundaryVars
  BY <1>24 DEF boundaryVars, executors, control, backup, Boundary,
      ClosedInShutdown, ClosedIsQuiet, EntrancesAgree, CloseAnswers,
      BoundaryTypeOK, Executors
<1> QED
  BY <1>1, <1>2, <1>3, <1>4, <1>5, <1>6, <1>7, <1>8, <1>9, <1>10, <1>11, <1>12,
      <1>13, <1>14, <1>15, <1>16, <1>17, <1>18, <1>19, <1>20, <1>21, <1>22,
      <1>23, <1>24 DEF BoundaryNext, Operator, Local, WorkerStep, Backups,
      Candidate

\* The two answers are counted down once each.
LEMMA StepCloses ==
    ASSUME BoundaryTypeOK, Boundary, [BoundaryNext]_boundaryVars
    PROVE  ClosesCounted'
<1>1. CASE RequestEnterMaintenance
  BY <1>1 DEF RequestEnterMaintenance, EvaluateDrain, CloseWorkers, executors,
      control, backup, Boundary, ClosesCounted, BoundaryTypeOK
<1>2. CASE LeaveMaintenance
  BY <1>2 DEF LeaveMaintenance, Reopened, executors, control, backup, Boundary,
      ClosesCounted, BoundaryTypeOK
<1>3. CASE RestoreStarts
  BY <1>3 DEF RestoreStarts, executors, control, backup, Boundary,
      ClosesCounted, BoundaryTypeOK
<1>4. CASE ActivityChanged
  BY <1>4 DEF ActivityChanged, Reevaluate, EvaluateDrain, CloseWorkers,
      executors, control, backup, Boundary, ClosesCounted, BoundaryTypeOK
<1>5. CASE Timeout
  BY <1>5 DEF Timeout, Reopened, executors, control, backup, Boundary,
      ClosesCounted, BoundaryTypeOK
<1>6. ASSUME NEW c \in Clients, ClientDisconnects(c) PROVE ClosesCounted'
  BY <1>6 DEF ClientDisconnects, executors, control, backup, Boundary,
      ClosesCounted, BoundaryTypeOK
<1>7. ASSUME NEW c \in Clients, NEW e \in Executors, Request(c, e)
     PROVE ClosesCounted'
  BY <1>7 DEF Request, executors, control, backup, Boundary, ClosesCounted,
      BoundaryTypeOK
<1>8. CASE ReaderLost
  BY <1>8 DEF ReaderLost, Reevaluate, EvaluateDrain, CloseWorkers, executors,
      control, backup, Boundary, ClosesCounted, BoundaryTypeOK
<1>9. CASE Broadcast
  BY <1>9 DEF Broadcast, executors, control, backup, Boundary, ClosesCounted,
      BoundaryTypeOK
<1>10. CASE LocalWrite
  BY <1>10 DEF LocalWrite, executors, control, backup, Boundary, ClosesCounted,
      BoundaryTypeOK
<1>11. CASE PartOutSubmit
  BY <1>11 DEF PartOutSubmit, executors, control, backup, Boundary,
      ClosesCounted, BoundaryTypeOK
<1>12. CASE PartOutTestsGate
  BY <1>12 DEF PartOutTestsGate, executors, control, backup, Boundary,
      ClosesCounted, BoundaryTypeOK
<1>13. CASE PartOutDone
  BY <1>13 DEF PartOutDone, executors, control, backup, Boundary, ClosesCounted,
      BoundaryTypeOK
<1>14. ASSUME NEW e \in Executors, TakeJob(e) PROVE ClosesCounted'
  BY <1>14 DEF TakeJob, executors, control, backup, Boundary, ClosesCounted,
      BoundaryTypeOK
<1>15. ASSUME NEW e \in Executors, CountActive(e) PROVE ClosesCounted'
  BY <1>15 DEF CountActive, executors, control, backup, Boundary, ClosesCounted,
      BoundaryTypeOK
<1>16. ASSUME NEW e \in Executors, Finish(e) PROVE ClosesCounted'
  BY <1>16 DEF Finish, executors, control, backup, Boundary, ClosesCounted,
      BoundaryTypeOK
<1>17. ASSUME NEW e \in Executors, WorkerCloses(e)
       PROVE ClosesCounted'
  BY <1>17 DEF WorkerCloses, executors, control, backup, Boundary,
      ClosesCounted, BoundaryTypeOK
<1>18. ASSUME NEW e \in Executors, CloseAnswered(e)
       PROVE ClosesCounted'
  BY <1>18 DEF CloseAnswered, executors, control, backup, Boundary,
      ClosesCounted, BoundaryTypeOK
<1>19. CASE BackupBegins
  BY <1>19 DEF BackupBegins, executors, control, backup, Boundary,
      ClosesCounted, BoundaryTypeOK
<1>20. CASE BackupEnds
  BY <1>20 DEF BackupEnds, Quiesce, EvaluateDrain, CloseWorkers, executors,
      control, backup, Boundary, ClosesCounted, BoundaryTypeOK
<1>21. CASE CandidateRejected
  BY <1>21 DEF CandidateRejected, executors, control, backup, Boundary,
      ClosesCounted, BoundaryTypeOK
<1>22. CASE CandidateStaged
  BY <1>22 DEF CandidateStaged, Quiesce, EvaluateDrain, CloseWorkers, executors,
      control, backup, Boundary, ClosesCounted, BoundaryTypeOK
<1>23. CASE Replaced
  BY <1>23 DEF Replaced, executors, control, backup, Boundary, ClosesCounted,
      BoundaryTypeOK
<1>24. CASE UNCHANGED boundaryVars
  BY <1>24 DEF boundaryVars, executors, control, backup, Boundary,
      ClosesCounted, BoundaryTypeOK
<1> QED
  BY <1>1, <1>2, <1>3, <1>4, <1>5, <1>6, <1>7, <1>8, <1>9, <1>10, <1>11, <1>12,
      <1>13, <1>14, <1>15, <1>16, <1>17, <1>18, <1>19, <1>20, <1>21, <1>22,
      <1>23, <1>24 DEF BoundaryNext, Operator, Local, WorkerStep, Backups,
      Candidate

\* m_started is cleared before the running backup is waited for.
LEMMA StepBackups ==
    ASSUME BoundaryTypeOK, Boundary, [BoundaryNext]_boundaryVars
    PROVE  BackupsStopped'
<1>1. CASE RequestEnterMaintenance
  BY <1>1 DEF RequestEnterMaintenance, EvaluateDrain, CloseWorkers, executors,
      control, backup, Boundary, ClosesCounted, BackupsStopped, BoundaryTypeOK
<1>2. CASE LeaveMaintenance
  BY <1>2 DEF LeaveMaintenance, Reopened, executors, control, backup, Boundary,
      ClosesCounted, BackupsStopped, BoundaryTypeOK
<1>3. CASE RestoreStarts
  BY <1>3 DEF RestoreStarts, executors, control, backup, Boundary,
      ClosesCounted, BackupsStopped, BoundaryTypeOK
<1>4. CASE ActivityChanged
  BY <1>4 DEF ActivityChanged, Reevaluate, EvaluateDrain, CloseWorkers,
      executors, control, backup, Boundary, ClosesCounted, BackupsStopped,
      BoundaryTypeOK
<1>5. CASE Timeout
  BY <1>5 DEF Timeout, Reopened, executors, control, backup, Boundary,
      ClosesCounted, BackupsStopped, BoundaryTypeOK
<1>6. ASSUME NEW c \in Clients, ClientDisconnects(c) PROVE BackupsStopped'
  BY <1>6 DEF ClientDisconnects, executors, control, backup, Boundary,
      ClosesCounted, BackupsStopped, BoundaryTypeOK
<1>7. ASSUME NEW c \in Clients, NEW e \in Executors, Request(c, e)
     PROVE BackupsStopped'
  BY <1>7 DEF Request, executors, control, backup, Boundary, ClosesCounted,
      BackupsStopped, BoundaryTypeOK
<1>8. CASE ReaderLost
  BY <1>8 DEF ReaderLost, Reevaluate, EvaluateDrain, CloseWorkers, executors,
      control, backup, Boundary, ClosesCounted, BackupsStopped, BoundaryTypeOK
<1>9. CASE Broadcast
  BY <1>9 DEF Broadcast, executors, control, backup, Boundary, ClosesCounted,
      BackupsStopped, BoundaryTypeOK
<1>10. CASE LocalWrite
  BY <1>10 DEF LocalWrite, executors, control, backup, Boundary, ClosesCounted,
      BackupsStopped, BoundaryTypeOK
<1>11. CASE PartOutSubmit
  BY <1>11 DEF PartOutSubmit, executors, control, backup, Boundary,
      ClosesCounted, BackupsStopped, BoundaryTypeOK
<1>12. CASE PartOutTestsGate
  BY <1>12 DEF PartOutTestsGate, executors, control, backup, Boundary,
      ClosesCounted, BackupsStopped, BoundaryTypeOK
<1>13. CASE PartOutDone
  BY <1>13 DEF PartOutDone, executors, control, backup, Boundary, ClosesCounted,
      BackupsStopped, BoundaryTypeOK
<1>14. ASSUME NEW e \in Executors, TakeJob(e) PROVE BackupsStopped'
  BY <1>14 DEF TakeJob, executors, control, backup, Boundary, ClosesCounted,
      BackupsStopped, BoundaryTypeOK
<1>15. ASSUME NEW e \in Executors, CountActive(e)
       PROVE BackupsStopped'
  BY <1>15 DEF CountActive, executors, control, backup, Boundary, ClosesCounted,
      BackupsStopped, BoundaryTypeOK
<1>16. ASSUME NEW e \in Executors, Finish(e) PROVE BackupsStopped'
  BY <1>16 DEF Finish, executors, control, backup, Boundary, ClosesCounted,
      BackupsStopped, BoundaryTypeOK
<1>17. ASSUME NEW e \in Executors, WorkerCloses(e)
       PROVE BackupsStopped'
  BY <1>17 DEF WorkerCloses, executors, control, backup, Boundary,
      ClosesCounted, BackupsStopped, BoundaryTypeOK
<1>18. ASSUME NEW e \in Executors, CloseAnswered(e)
       PROVE BackupsStopped'
  BY <1>18 DEF CloseAnswered, executors, control, backup, Boundary,
      ClosesCounted, BackupsStopped, BoundaryTypeOK
<1>19. CASE BackupBegins
  BY <1>19 DEF BackupBegins, executors, control, backup, Boundary,
      ClosesCounted, BackupsStopped, BoundaryTypeOK
<1>20. CASE BackupEnds
  BY <1>20 DEF BackupEnds, Quiesce, EvaluateDrain, CloseWorkers, executors,
      control, backup, Boundary, ClosesCounted, BackupsStopped, BoundaryTypeOK
<1>21. CASE CandidateRejected
  BY <1>21 DEF CandidateRejected, executors, control, backup, Boundary,
      ClosesCounted, BackupsStopped, BoundaryTypeOK
<1>22. CASE CandidateStaged
  BY <1>22 DEF CandidateStaged, Quiesce, EvaluateDrain, CloseWorkers, executors,
      control, backup, Boundary, ClosesCounted, BackupsStopped, BoundaryTypeOK
<1>23. CASE Replaced
  BY <1>23 DEF Replaced, executors, control, backup, Boundary, ClosesCounted,
      BackupsStopped, BoundaryTypeOK
<1>24. CASE UNCHANGED boundaryVars
  BY <1>24 DEF boundaryVars, executors, control, backup, Boundary,
      ClosesCounted, BackupsStopped, BoundaryTypeOK
<1> QED
  BY <1>1, <1>2, <1>3, <1>4, <1>5, <1>6, <1>7, <1>8, <1>9, <1>10, <1>11, <1>12,
      <1>13, <1>14, <1>15, <1>16, <1>17, <1>18, <1>19, <1>20, <1>21, <1>22,
      <1>23, <1>24 DEF BoundaryNext, Operator, Local, WorkerStep, Backups,
      Candidate

LEMMA BoundarySteps ==
    ASSUME BoundaryInv, [BoundaryNext]_boundaryVars
    PROVE  BoundaryInv'
<1>1. BoundaryTypeOK' /\ CountsWorker' /\ EntrancesAgree'
  BY BoundaryTyped, CountsSteps, EntrancesSteps DEF BoundaryInv
<1>2. ClosedInShutdown' /\ ClosedIsQuiet'
  BY StepClosed, StepQuiet DEF BoundaryInv
<1>3. ClosesCounted' /\ BackupsStopped'
  BY StepCloses, StepBackups DEF BoundaryInv
<1>4. QED
  BY <1>1, <1>2, <1>3 DEF BoundaryInv, Boundary

THEOREM BoundaryKept == BoundarySpec => []BoundaryInv
BY BoundaryFirst, BoundarySteps, PTL DEF BoundarySpec

-----------------------------------------------------------------------------
\* The state of the maintenance boundary has its type.
THEOREM BoundaryTypeCorrect == BoundarySpec => []BoundaryTypeOK
<1>1. BoundaryInv => BoundaryTypeOK
  BY DEF BoundaryInv
<1>2. QED
  BY BoundaryKept, <1>1, PTL

\* The four entrances for new work are open together or closed together,
\* whatever path enters, leaves, fails to enter or shuts down.
THEOREM EntrancesTogether == BoundarySpec => []EntrancesAgree
<1>1. BoundaryInv => EntrancesAgree
  BY DEF BoundaryInv
<1>2. QED
  BY BoundaryKept, <1>1, PTL

\* The live database is replaced only while no executor runs or holds a job,
\* both connections are closed, no backup reads it and no entrance is open.
THEOREM ExclusiveReplacement == BoundarySpec => []ReplacementIsExclusive
<1>1. BoundaryInv => ReplacementIsExclusive
  <2> SUFFICES ASSUME BoundaryInv, restore = "replacing"
               PROVE ReplacementIsExclusive
    BY DEF ReplacementIsExclusive
  <2>1. \A e \in Executors : close[e] = "closed"
    BY DEF BoundaryInv, Boundary, ClosesCounted
  <2>2. \A e \in Executors : queued[e] = 0 /\ worker[e] = "idle"
    BY <2>1 DEF BoundaryInv, Boundary, ClosedIsQuiet
  <2>3. ~backupRunning
    BY DEF BoundaryInv, Boundary, BackupsStopped
  <2>4. open = {}
    BY DEF BoundaryInv, Boundary, ClosedInShutdown, EntrancesAgree
  <2>5. QED
    BY <2>1, <2>2, <2>3, <2>4 DEF ReplacementIsExclusive
<1>2. QED
  BY BoundaryKept, <1>1, PTL

\* Nothing is queued behind a close and no entrance opens again.
LEMMA StepAfterClose ==
    ASSUME BoundaryInv, [BoundaryNext]_boundaryVars,
           NEW x \in Executors, close[x] # "none"
    PROVE  queued'[x] <= queued[x] /\ open' = {}
<1> USE DEF BoundaryInv
<1>0. state = "ShuttingDown" /\ \A e \in Executors : queued[e] \in Nat
  BY DEF Boundary, ClosedInShutdown, BoundaryTypeOK
<1> USE <1>0
<1>1. CASE RequestEnterMaintenance
  BY <1>1 DEF RequestEnterMaintenance, EvaluateDrain, CloseWorkers, executors,
      control, backup, BoundaryTypeOK, EntrancesAgree, Executors
<1>2. CASE LeaveMaintenance
  BY <1>2 DEF LeaveMaintenance, Reopened, executors, control, backup,
      BoundaryTypeOK, EntrancesAgree, Executors
<1>3. CASE RestoreStarts
  BY <1>3 DEF RestoreStarts, executors, control, backup, BoundaryTypeOK,
      EntrancesAgree, Executors
<1>4. CASE ActivityChanged
  BY <1>4 DEF ActivityChanged, Reevaluate, EvaluateDrain, CloseWorkers,
      executors, control, backup, BoundaryTypeOK, EntrancesAgree, Executors
<1>5. CASE Timeout
  BY <1>5 DEF Timeout, Reopened, executors, control, backup, BoundaryTypeOK,
      EntrancesAgree, Executors
<1>6. ASSUME NEW c \in Clients, ClientDisconnects(c)
       PROVE queued'[x] <= queued[x] /\ open' = {}
  BY <1>6 DEF ClientDisconnects, executors, control, backup, BoundaryTypeOK,
      EntrancesAgree, Executors
<1>7. ASSUME NEW c \in Clients, NEW e \in Executors, Request(c, e)
       PROVE queued'[x] <= queued[x] /\ open' = {}
  <2>1. open = {}
    BY DEF EntrancesAgree
  <2>2. QED
    BY <1>7, <2>1 DEF Request, BoundaryTypeOK
<1>8. CASE ReaderLost
  <2>1. PICK n \in 0 .. queued["reads"] - 1 :
            queued' = [queued EXCEPT !["reads"] = n]
    BY <1>8 DEF ReaderLost, CancelledReads
  <2>2. queued["reads"] \in Nat /\ queued[x] \in Nat
    BY DEF BoundaryTypeOK, Executors
  <2>3. queued'[x] <= queued[x]
    BY <2>1, <2>2 DEF BoundaryTypeOK
  <2>4. QED
    BY <1>8, <2>3 DEF ReaderLost, Reevaluate, control, EntrancesAgree
<1>9. CASE Broadcast
  BY <1>9 DEF Broadcast, executors, control, backup, BoundaryTypeOK,
      EntrancesAgree, Executors
<1>10. CASE LocalWrite
  BY <1>10 DEF LocalWrite, executors, control, backup, BoundaryTypeOK,
      EntrancesAgree, Executors
<1>11. CASE PartOutSubmit
  BY <1>11 DEF PartOutSubmit, executors, control, backup, BoundaryTypeOK,
      EntrancesAgree, Executors
<1>12. CASE PartOutTestsGate
  BY <1>12 DEF PartOutTestsGate, executors, control, backup, BoundaryTypeOK,
      EntrancesAgree, Executors
<1>13. CASE PartOutDone
  BY <1>13 DEF PartOutDone, executors, control, backup, BoundaryTypeOK,
      EntrancesAgree, Executors
<1>14. ASSUME NEW e \in Executors, TakeJob(e)
       PROVE queued'[x] <= queued[x] /\ open' = {}
  <2>1. queued' = [queued EXCEPT ![e] = queued[e] - 1]
    BY <1>14 DEF TakeJob
  <2>2. queued'[x] <= queued[x]
    BY <2>1 DEF BoundaryTypeOK
  <2>3. QED
    BY <1>14, <2>2 DEF TakeJob, control, EntrancesAgree
<1>15. ASSUME NEW e \in Executors, CountActive(e)
       PROVE queued'[x] <= queued[x] /\ open' = {}
  BY <1>15 DEF CountActive, executors, control, backup, BoundaryTypeOK,
      EntrancesAgree, Executors
<1>16. ASSUME NEW e \in Executors, Finish(e)
       PROVE queued'[x] <= queued[x] /\ open' = {}
  BY <1>16 DEF Finish, executors, control, backup, BoundaryTypeOK,
      EntrancesAgree, Executors
<1>17. ASSUME NEW e \in Executors, WorkerCloses(e)
       PROVE queued'[x] <= queued[x] /\ open' = {}
  BY <1>17 DEF WorkerCloses, executors, control, backup, BoundaryTypeOK,
      EntrancesAgree, Executors
<1>18. ASSUME NEW e \in Executors, CloseAnswered(e)
       PROVE queued'[x] <= queued[x] /\ open' = {}
  BY <1>18 DEF CloseAnswered, executors, control, backup, BoundaryTypeOK,
      EntrancesAgree, Executors
<1>19. CASE BackupBegins
  BY <1>19 DEF BackupBegins, executors, control, backup, BoundaryTypeOK,
      EntrancesAgree, Executors
<1>20. CASE BackupEnds
  BY <1>20 DEF BackupEnds, Quiesce, EvaluateDrain, CloseWorkers, executors,
      control, backup, BoundaryTypeOK, EntrancesAgree, Executors
<1>21. CASE CandidateRejected
  BY <1>21 DEF CandidateRejected, executors, control, backup, BoundaryTypeOK,
      EntrancesAgree, Executors
<1>22. CASE CandidateStaged
  BY <1>22 DEF CandidateStaged, Quiesce, EvaluateDrain, CloseWorkers, executors,
      control, backup, BoundaryTypeOK, EntrancesAgree, Executors
<1>23. CASE Replaced
  BY <1>23 DEF Replaced, executors, control, backup, BoundaryTypeOK,
      EntrancesAgree, Executors
<1>24. CASE UNCHANGED boundaryVars
  BY <1>24 DEF boundaryVars, executors, control, backup, BoundaryTypeOK,
      EntrancesAgree, Executors
<1> QED
  BY <1>1, <1>2, <1>3, <1>4, <1>5, <1>6, <1>7, <1>8, <1>9, <1>10, <1>11, <1>12,
      <1>13, <1>14, <1>15, <1>16, <1>17, <1>18, <1>19, <1>20, <1>21, <1>22,
      <1>23, <1>24 DEF BoundaryNext, Operator, Local, WorkerStep, Backups,
      Candidate

\* Once an executor is asked to close its connection no path reopens the Host,
\* and nothing more is queued for the executor.
THEOREM ClosedForGood == BoundarySpec => NothingAfterClose
<1>1. BoundaryInv /\ [BoundaryNext]_boundaryVars =>
          [\A e \in Executors :
               close[e] # "none" => queued'[e] <= queued[e] /\ open' = {}]_boundaryVars
  BY StepAfterClose
<1>2. QED
  BY BoundaryKept, <1>1, PTL DEF BoundarySpec, NothingAfterClose

\* Only the write worker takes a mutation out of the queue.
LEMMA StepAdmitted ==
    ASSUME BoundaryTypeOK, [BoundaryNext]_boundaryVars
    PROVE  queued'["writes"] < queued["writes"] => worker'["writes"] = "gap"
<1>0. queued["writes"] \in Nat
  BY DEF BoundaryTypeOK, Executors
<1> USE <1>0
<1>1. CASE RequestEnterMaintenance
  BY <1>1 DEF RequestEnterMaintenance, EvaluateDrain, CloseWorkers, executors,
      control, backup
<1>2. CASE LeaveMaintenance
  BY <1>2 DEF LeaveMaintenance, Reopened, executors, control, backup
<1>3. CASE RestoreStarts
  BY <1>3 DEF RestoreStarts, executors, control, backup
<1>4. CASE ActivityChanged
  BY <1>4 DEF ActivityChanged, Reevaluate, EvaluateDrain, CloseWorkers,
      executors, control, backup
<1>5. CASE Timeout
  BY <1>5 DEF Timeout, Reopened, executors, control, backup
<1>6. ASSUME NEW c \in Clients, ClientDisconnects(c)
       PROVE queued'["writes"] < queued["writes"] => worker'["writes"] = "gap"
  BY <1>6 DEF ClientDisconnects, executors, control, backup
<1>7. ASSUME NEW c \in Clients, NEW e \in Executors, Request(c, e)
       PROVE queued'["writes"] < queued["writes"] => worker'["writes"] = "gap"
  <2>1. queued' = queued \/ queued' = [queued EXCEPT ![e] = queued[e] + 1]
    BY <1>7 DEF Request
  <2>2. QED
    BY <2>1, <1>0 DEF BoundaryTypeOK, Executors
<1>8. CASE ReaderLost
  <2>1. queued'["writes"] = queued["writes"]
    BY <1>8 DEF ReaderLost, CancelledReads, BoundaryTypeOK, Executors
  <2>2. QED
    BY <2>1, <1>0
<1>9. CASE Broadcast
  BY <1>9 DEF Broadcast, executors, control, backup
<1>10. CASE LocalWrite
  BY <1>10 DEF LocalWrite, executors, control, backup
<1>11. CASE PartOutSubmit
  BY <1>11 DEF PartOutSubmit, executors, control, backup
<1>12. CASE PartOutTestsGate
  BY <1>12 DEF PartOutTestsGate, executors, control, backup
<1>13. CASE PartOutDone
  BY <1>13 DEF PartOutDone, executors, control, backup
<1>14. ASSUME NEW e \in Executors, TakeJob(e)
       PROVE queued'["writes"] < queued["writes"] => worker'["writes"] = "gap"
  <2>1. CASE e = "writes"
    BY <1>14, <2>1 DEF TakeJob, BoundaryTypeOK
  <2>2. CASE e # "writes"
    <3>1. queued'["writes"] = queued["writes"]
      BY <1>14, <2>2 DEF TakeJob, BoundaryTypeOK, Executors
    <3>2. QED
      BY <3>1, <1>0
  <2>3. QED
    BY <2>1, <2>2
<1>15. ASSUME NEW e \in Executors, CountActive(e)
       PROVE queued'["writes"] < queued["writes"] => worker'["writes"] = "gap"
  BY <1>15 DEF CountActive, executors, control, backup
<1>16. ASSUME NEW e \in Executors, Finish(e)
       PROVE queued'["writes"] < queued["writes"] => worker'["writes"] = "gap"
  BY <1>16 DEF Finish, executors, control, backup
<1>17. ASSUME NEW e \in Executors, WorkerCloses(e)
       PROVE queued'["writes"] < queued["writes"] => worker'["writes"] = "gap"
  BY <1>17 DEF WorkerCloses, executors, control, backup
<1>18. ASSUME NEW e \in Executors, CloseAnswered(e)
       PROVE queued'["writes"] < queued["writes"] => worker'["writes"] = "gap"
  BY <1>18 DEF CloseAnswered, executors, control, backup
<1>19. CASE BackupBegins
  BY <1>19 DEF BackupBegins, executors, control, backup
<1>20. CASE BackupEnds
  BY <1>20 DEF BackupEnds, Quiesce, EvaluateDrain, CloseWorkers, executors,
      control, backup
<1>21. CASE CandidateRejected
  BY <1>21 DEF CandidateRejected, executors, control, backup
<1>22. CASE CandidateStaged
  BY <1>22 DEF CandidateStaged, Quiesce, EvaluateDrain, CloseWorkers, executors,
      control, backup
<1>23. CASE Replaced
  BY <1>23 DEF Replaced, executors, control, backup
<1>24. CASE UNCHANGED boundaryVars
  BY <1>24 DEF boundaryVars, executors, control, backup
<1> QED
  BY <1>1, <1>2, <1>3, <1>4, <1>5, <1>6, <1>7, <1>8, <1>9, <1>10, <1>11, <1>12,
      <1>13, <1>14, <1>15, <1>16, <1>17, <1>18, <1>19, <1>20, <1>21, <1>22,
      <1>23, <1>24 DEF BoundaryNext, Operator, Local, WorkerStep, Backups,
      Candidate

\* A mutation that was admitted leaves the queue only to run.
THEOREM AdmittedRun == BoundarySpec => AdmittedMutationsRun
<1>1. BoundaryInv /\ [BoundaryNext]_boundaryVars =>
          [queued'["writes"] < queued["writes"] => worker'["writes"] = "gap"]_boundaryVars
  BY StepAdmitted DEF BoundaryInv
<1>2. QED
  BY BoundaryKept, <1>1, PTL DEF BoundarySpec, AdmittedMutationsRun
=============================================================================
