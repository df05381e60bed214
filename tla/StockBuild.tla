----------------------------- MODULE StockBuild -----------------------------
(***************************************************************************)
(* The loose inventory of a workspace and its Builds from Stock: inventory *)
(* records and the Lost/Found history, requirements, allocations, pulls,   *)
(* the manufacturer provenance of pulled pieces, and the Build lifecycle.  *)
(*                                                                         *)
(* Every action is one SQLite transaction of a service, whether it was     *)
(* started by a local dialog (default connection) or by a Host mutation    *)
(* (write worker): the two share the transactions and SQLite serialises    *)
(* them.  A Host mutation first compares the expected state of its request *)
(* and is then a special case of the action; the local dialogs compare     *)
(* nothing, so an action's guard is what the transaction itself checks.    *)
(*                                                                         *)
(* A part is a part/colour pair.  "Planned" stands for Planned and Pulling,*)
(* which the services treat alike.  Condition and ownership belong to a    *)
(* record's identity as its maker does and are left out.                   *)
(***************************************************************************)
EXTENDS Integers, SequencesExt

CONSTANTS Builds,       \* Builds from Stock of the workspace
          Reqs,         \* requirement rows
          BuildOf,      \* the Build each requirement row belongs to
          Parts,        \* part/colour pairs
          Places,       \* leaf storage locations
          Makers,       \* manufacturers
          Lego,         \* the manufacturer a found piece is given
          None,
          MaxRecords,   \* bound: inventory records ever created
          MaxPieces     \* bound: pieces the workshop ever owns at once

VARIABLES record,   \* inventory_record, by id: [id, qty], id = [part, place, maker]
          lost,     \* outstanding Lost quantity per part, from inventory_movement
          build,    \* build: status and is_active
          req,      \* build_requirement: original and effective part, quantities
          alloc,    \* build_allocation: pieces of a record reserved for a row
          prov      \* build_part_provenance: pieces pulled per part and maker

vars == <<record, lost, build, req, alloc, prov>>
inventory == <<record, lost>>
fulfilment == <<build, req, alloc, prov>>

Ids == [part : Parts, place : Places, maker : Makers]
RecordIds == 1 .. MaxRecords
Quantities == 0 .. MaxPieces
Some == 1 .. MaxPieces
NoAllocations == [i \in RecordIds |-> 0]

Requirements == [orig : Parts, part : Parts, need : Some, pulled : Quantities,
                 spare : BOOLEAN]
Statuses == {"None", "Planned", "Complete", "Cancelled", "Disassembled"}

ASSUME StockAssumption ==
    /\ IsFiniteSet(Reqs) /\ IsFiniteSet(Parts) /\ IsFiniteSet(Makers)
    /\ BuildOf \in [Reqs -> Builds]
    /\ Lego \in Makers
    /\ None \notin Requirements
    /\ MaxRecords \in Nat /\ MaxPieces \in Nat

-----------------------------------------------------------------------------
(* Totals the repositories compute                                         *)

SumOf(f, S) == MapThenSumSet(LAMBDA x : f[x], S)

AllocatedOf(r) == SumOf(alloc[r], RecordIds)
ReservedIn(a, i) == SumOf([r \in Reqs |-> a[r][i]], Reqs)
AllocatedFrom(i) == ReservedIn(alloc, i)
Rows == {r \in Reqs : req[r] # None}
RowsOf(b) == {r \in Rows : BuildOf[r] = b}
PulledBy(rows) == SumOf([r \in rows |-> req[r].pulled], rows)
LooseIn(records) == SumOf([i \in DOMAIN records |-> records[i].qty], DOMAIN records)
Loose == LooseIn(record)
Built == PulledBy(Rows)
Missing == SumOf(lost, Parts)
Owned == Loose + Built + Missing

\* Mutant: the quantity of the record it joins is overwritten.
PutOver(records, id, q) ==
    LET same == {i \in DOMAIN records : records[i].id = id}
    IN  IF same = {} THEN Append(records, [id |-> id, qty |-> q])
        ELSE [records EXCEPT ![CHOOSE i \in same : TRUE].qty = q]

(* A quantity joins the record with its identity, or a new record          *)
Put(records, id, q) ==
    LET same == {i \in DOMAIN records : records[i].id = id}
    IN  IF same = {} THEN Append(records, [id |-> id, qty |-> q])
        ELSE [records EXCEPT ![CHOOSE i \in same : TRUE].qty = @ + q]

Fits(records) == Len(records) <= MaxRecords

-----------------------------------------------------------------------------
(* Inventory                                                               *)

AddOrIncrease(id, q) ==
    /\ Owned + q <= MaxPieces
    /\ record' = Put(record, id, q)
    /\ Fits(record')
    /\ UNCHANGED <<lost, fulfilment>>

(* updateOrMerge: the entry takes another colour, place or maker and       *)
(* another quantity; when a record with that identity exists the edited    *)
(* quantity joins it and the edited record stays, empty                    *)
EditRecord(i, id, q) ==
    LET other == {j \in DOMAIN record \ {i} : record[j].id = id}
    IN  /\ Owned - record[i].qty + q <= MaxPieces
        /\ record' = IF other = {} THEN [record EXCEPT ![i] = [id |-> id, qty |-> q]]
                     ELSE [Put(record, id, q) EXCEPT ![i].qty = 0]
        /\ UNCHANGED <<lost, fulfilment>>

MoveInventory(i, place, q) ==
    /\ place # record[i].id.place
    /\ q <= record[i].qty
    /\ record' = Put([record EXCEPT ![i].qty = @ - q],
                     [record[i].id EXCEPT !.place = place], q)
    /\ Fits(record')
    /\ UNCHANGED <<lost, fulfilment>>

CorrectEntry(i, part, q) ==
    /\ part # record[i].id.part
    /\ q <= record[i].qty
    /\ record' = Put([record EXCEPT ![i].qty = @ - q],
                     [record[i].id EXCEPT !.part = part], q)
    /\ Fits(record')
    /\ UNCHANGED <<lost, fulfilment>>

RemoveEntry(i, q) ==
    /\ q <= record[i].qty - AllocatedFrom(i)
    /\ record' = [record EXCEPT ![i].qty = @ - q]
    /\ UNCHANGED <<lost, fulfilment>>

MarkLost(i, q) ==
    /\ q <= record[i].qty
    /\ record' = [record EXCEPT ![i].qty = @ - q]
    /\ lost' = [lost EXCEPT ![record[i].id.part] = @ + q]
    /\ UNCHANGED fulfilment

MarkFound(part, place, q) ==
    /\ q <= lost[part]
    /\ record' = Put(record, [part |-> part, place |-> place, maker |-> Lego], q)
    /\ Fits(record')
    /\ lost' = [lost EXCEPT ![part] = @ - q]
    /\ UNCHANGED fulfilment

-----------------------------------------------------------------------------
(* Requirements of a Build                                                 *)

\* Mutant: a Complete Build can be edited.
EditableComplete(b) == build[b].active /\ build[b].status \in {"Planned", "Complete"}

Editable(b) == build[b].active /\ build[b].status = "Planned"

(* UNIQUE(build_id, part_id, color_id, is_spare) on the original part      *)
Distinct(r, orig, spare) ==
    \A s \in RowsOf(BuildOf[r]) \ {r} : req[s].orig # orig \/ req[s].spare # spare

AddRequirement(r, orig, part, need, spare) ==
    /\ req[r] = None
    /\ Editable(BuildOf[r])
    /\ Distinct(r, orig, spare)
    /\ req' = [req EXCEPT ![r] = [orig |-> orig, part |-> part, need |-> need,
                                  pulled |-> 0, spare |-> spare]]
    /\ UNCHANGED <<inventory, build, alloc, prov>>

\* Mutant: what is allocated does not bound the new quantity.
EditForgetsAllocated(r, part, need, spare) ==
    /\ Editable(BuildOf[r])
    /\ need >= req[r].pulled
    /\ part # req[r].part => AllocatedOf(r) = 0
    /\ Distinct(r, req[r].orig, spare)
    /\ req' = [req EXCEPT ![r] = [orig |-> @.orig, part |-> part, need |-> need,
                                  pulled |-> @.pulled, spare |-> spare]]
    /\ UNCHANGED <<inventory, build, alloc, prov>>

(* The part may change only while none of it is allocated in the Build     *)
EditRequirement(r, part, need, spare) ==
    /\ Editable(BuildOf[r])
    /\ need >= req[r].pulled + AllocatedOf(r)
    /\ part # req[r].part =>
          \A s \in RowsOf(BuildOf[r]) : req[s].part = req[r].part => AllocatedOf(s) = 0
    /\ Distinct(r, req[r].orig, spare)
    /\ req' = [req EXCEPT ![r] = [orig |-> @.orig, part |-> part, need |-> need,
                                  pulled |-> @.pulled, spare |-> spare]]
    /\ UNCHANGED <<inventory, build, alloc, prov>>

RemoveRequirement(r) ==
    /\ Editable(BuildOf[r])
    /\ req[r].pulled = 0
    /\ AllocatedOf(r) = 0
    /\ req' = [req EXCEPT ![r] = None]
    /\ UNCHANGED <<inventory, build, alloc, prov>>

-----------------------------------------------------------------------------
(* Allocations                                                             *)

\* Mutant: the allocations of the other rows are not deducted.
LeftForAlone(r, i) == record[i].qty

(* Pieces of record i the other rows leave for r                           *)
LeftFor(r, i) == record[i].qty - (AllocatedFrom(i) - alloc[r][i])

Matches(r, i) == i \in DOMAIN record /\ record[i].id.part = req[r].part

ReplaceForRequirement(r, wanted) ==
    /\ req[r].pulled = 0
    /\ Editable(BuildOf[r])
    /\ \A i \in RecordIds : wanted[i] > 0 => Matches(r, i) /\ wanted[i] <= LeftFor(r, i)
    /\ SumOf(wanted, RecordIds) <= req[r].need
    /\ alloc' = [alloc EXCEPT ![r] = wanted]
    /\ UNCHANGED <<inventory, build, req, prov>>

(* One row takes what it lacks from one record with room for it            *)
TakeFrom(a, r, i) ==
    LET lacks == req[r].need - req[r].pulled - SumOf(a[r], RecordIds)
        room == record[i].qty - ReservedIn(a, i)
    IN  IF Matches(r, i) /\ lacks > 0 /\ room > 0
        THEN [a EXCEPT ![r][i] = @ + Min({lacks, room})] ELSE a

TakeAll(a, r, records) ==
    IF req[r].spare THEN a ELSE FoldLeft(LAMBDA b, i : TakeFrom(b, r, i), a, records)

(* Each row that is no spare, in turn, from the records in turn.  The code *)
(* orders rows by id and puts the records of a preferred place first       *)
AllocateAvailable(b, rows, records) ==
    /\ Editable(b)
    /\ alloc' = FoldLeft(LAMBDA a, r : TakeAll(a, r, records), alloc, rows)
    /\ UNCHANGED <<inventory, build, req, prov>>

-----------------------------------------------------------------------------
(* Pulling and the lifecycle                                               *)

RecordPulledManufacturer(b, id, q) == [prov EXCEPT ![b][id.part][id.maker] = @ + q]

(* One row of a pull; a batch is such rows in one transaction              *)
ApplyPull(r, i, q) ==
    LET b == BuildOf[r]
        id == record[i].id
    IN  /\ ~req[r].spare
        /\ id.part = req[r].part
        /\ q <= alloc[r][i]
        /\ q <= record[i].qty
        /\ req[r].pulled + q <= req[r].need
        /\ record' = [record EXCEPT ![i].qty = @ - q]
        /\ prov' = RecordPulledManufacturer(b, id, q)
        /\ alloc' = [alloc EXCEPT ![r][i] = @ - q]
        /\ req' = [req EXCEPT ![r].pulled = @ + q]
        /\ UNCHANGED <<lost, build>>

CreateBuild(b, status) ==
    /\ build[b].status = "None"
    /\ build' = [build EXCEPT ![b] = [status |-> status, active |-> TRUE]]
    /\ UNCHANGED <<inventory, req, alloc, prov>>

(* A Build may be completed again, also one that was disassembled or       *)
(* cancelled: only its rows are looked at.                                 *)
Complete(b) ==
    /\ build[b].status # "None"
    /\ RowsOf(b) # {}
    /\ \A r \in RowsOf(b) : req[r].spare \/ req[r].pulled >= req[r].need
    /\ build' = [build EXCEPT ![b].status = "Complete"]
    /\ UNCHANGED <<inventory, req, alloc, prov>>

SetActive(b, active) ==
    /\ ~active => build[b].status \in {"Cancelled", "Disassembled"}
    /\ build[b].active # active
    /\ build' = [build EXCEPT ![b] =
          [status |-> IF active /\ @.status = "Cancelled" THEN "Planned" ELSE @.status,
           active |-> active]]
    /\ UNCHANGED <<inventory, req, alloc, prov>>

(* What is returned: pieces per row and maker                              *)
Returns(b) == [RowsOf(b) \X Makers -> 0 .. Built]
ReturnedOf(r, ret) == SumOf([m \in Makers |-> ret[r, m]], Makers)
ReturnedAs(b, part, m, ret) ==
    LET rows == {r \in RowsOf(b) : req[r].part = part}
    IN  SumOf([r \in rows |-> ret[r, m]], rows)

\* Mutant: the provenance is not reduced.
ReduceNothing(b, ret) == prov

ReducePulledManufacturer(b, ret) ==
    [prov EXCEPT ![b] = [p \in Parts |-> [m \in Makers |->
                            @[p][m] - ReturnedAs(b, p, m, ret)]]]

PutBack(b, ret, place) ==
    MapThenFoldSet(
       LAMBDA pm, records :
          IF ReturnedAs(b, pm[1], pm[2], ret) = 0 THEN records
          ELSE Put(records, [part |-> pm[1], place |-> place, maker |-> pm[2]],
                   ReturnedAs(b, pm[1], pm[2], ret)),
       record, LAMBDA pm : pm, LAMBDA S : CHOOSE pm \in S : TRUE, Parts \X Makers)

(* Every row is checked against its pulled quantity and the provenance of  *)
(* its effective part, and goes to the chosen place under its maker        *)
ReturnPieces(b, ret, place) ==
    /\ \A r \in RowsOf(b) : ReturnedOf(r, ret) <= req[r].pulled
    /\ \A p \in Parts, m \in Makers : ReturnedAs(b, p, m, ret) <= prov[b][p][m]
    /\ record' = PutBack(b, ret, place)
    /\ Fits(record')
    /\ prov' = ReducePulledManufacturer(b, ret)
    /\ req' = [r \in Reqs |-> IF r \in RowsOf(b)
                              THEN [req[r] EXCEPT !.pulled = @ - ReturnedOf(r, ret)]
                              ELSE req[r]]
    /\ UNCHANGED lost

(* The plan exists when every row's pulled quantity is the provenance      *)
(* recorded for its effective part, and there is a piece to return         *)
ReturnPlanExists(b) ==
    /\ \A r \in RowsOf(b) : SumOf(prov[b][req[r].part], Makers) = req[r].pulled
    /\ \E r \in RowsOf(b) : req[r].pulled > 0

(* A local user may return fewer pieces than planned, a Client may not     *)
Disassemble(b, ret, place) ==
    /\ build[b].active
    /\ build[b].status = "Complete"
    /\ ReturnPlanExists(b)
    /\ ReturnPieces(b, ret, place)
    /\ build' = [build EXCEPT ![b].status = "Disassembled"]
    /\ UNCHANGED alloc

Cancel(b, ret, place) ==
    /\ build[b].status = "Planned"
    /\ ReturnPieces(b, ret, place)
    /\ \A r \in RowsOf(b) : req'[r].pulled = 0
    /\ alloc' = [r \in Reqs |-> IF BuildOf[r] = b THEN NoAllocations ELSE alloc[r]]
    /\ build' = [build EXCEPT ![b].status = "Cancelled"]

-----------------------------------------------------------------------------
Init ==
    /\ record = <<>>
    /\ lost = [p \in Parts |-> 0]
    /\ build = [b \in Builds |-> [status |-> "None", active |-> FALSE]]
    /\ req = [r \in Reqs |-> None]
    /\ alloc = [r \in Reqs |-> NoAllocations]
    /\ prov = [b \in Builds |-> [p \in Parts |-> [m \in Makers |-> 0]]]

InventoryStep ==
    \/ \E id \in Ids, q \in Some : AddOrIncrease(id, q)
    \/ \E i \in DOMAIN record, q \in Some :
          \/ \E id \in Ids : EditRecord(i, id, q)
          \/ \E place \in Places : MoveInventory(i, place, q)
          \/ \E part \in Parts : CorrectEntry(i, part, q)
          \/ RemoveEntry(i, q)
          \/ MarkLost(i, q)
    \/ \E part \in Parts, place \in Places, q \in Some : MarkFound(part, place, q)

RequirementStep ==
    \/ \E r \in Reqs \ Rows, orig, part \in Parts, need \in Some, spare \in BOOLEAN :
          AddRequirement(r, orig, part, need, spare)
    \/ \E r \in Rows :
          \/ \E part \in Parts, need \in Some, spare \in BOOLEAN :
                EditRequirement(r, part, need, spare)
          \/ RemoveRequirement(r)
          \/ \E wanted \in [RecordIds -> Quantities] : ReplaceForRequirement(r, wanted)
          \/ \E i \in DOMAIN record, q \in Some : ApplyPull(r, i, q)

BuildStep ==
    \E b \in Builds :
       \/ \E rows \in SetToSeqs(RowsOf(b)), records \in SetToSeqs(DOMAIN record) :
             AllocateAvailable(b, rows, records)
       \/ \E status \in {"Planned", "Complete"} : CreateBuild(b, status)
       \/ Complete(b)
       \/ \E active \in BOOLEAN : SetActive(b, active)
       \/ \E place \in Places, ret \in Returns(b) :
             Disassemble(b, ret, place) \/ Cancel(b, ret, place)

Next == InventoryStep \/ RequirementStep \/ BuildStep

Spec == Init /\ [][Next]_vars

-----------------------------------------------------------------------------
(* The state is of the type the tables declare. *)
TypeOK ==
    /\ record \in Seq([id : Ids, qty : Quantities]) /\ Fits(record)
    /\ lost \in [Parts -> Quantities]
    /\ build \in [Builds -> [status : Statuses, active : BOOLEAN]]
    /\ req \in [Reqs -> Requirements \cup {None}]
    /\ alloc \in [Reqs -> [RecordIds -> Quantities]]
    /\ prov \in [Builds -> [Parts -> [Makers -> Quantities]]]

(* The tables are well formed, with no quantity below zero, and what is    *)
(* pulled and reserved for a requirement row never exceeds what it         *)
(* requires: an edit, a replaced or an automatic allocation and a pull all *)
(* have to agree on it (BuildRequirementMutationService::edit,             *)
(* BuildAllocationMutationService, BuildPullingService::applyPull).        *)
RequirementNotExceeded ==
    /\ TypeOK
    /\ \A r \in Rows : req[r].pulled + AllocatedOf(r) <= req[r].need

(* The manufacturer provenance of a Build accounts for every piece pulled  *)
(* into it and not returned, whatever was substituted in between           *)
(* (recordPulledManufacturer, reducePulledManufacturer).                   *)
ProvenanceComplete ==
    \A b \in Builds :
       PulledBy(RowsOf(b)) = SumOf([p \in Parts |-> SumOf(prov[b][p], Makers)], Parts)

(* A Complete Build keeps every required piece until it is disassembled:   *)
(* no edit, cancellation, archiving or late pull reaches its rows.         *)
CompleteIsWhole ==
    \A b \in Builds : build[b].status = "Complete" =>
       \A r \in RowsOf(b) : req[r].spare \/ req[r].pulled >= req[r].need

(* Allocating never uses a piece twice: a step that reserves more of a     *)
(* record leaves no more reserved, over all rows, than the record holds    *)
(* (help/builds.html: "without double-using quantities").  Local moves,    *)
(* corrections and losses may later take allocated pieces away.            *)
NoDoubleUse ==
    [][\A i \in DOMAIN record :
          ReservedIn(alloc', i) > AllocatedFrom(i)
          => ReservedIn(alloc', i) <= record[i].qty]_vars

(* Every transaction of the inventory and Build services changes the       *)
(* numbers of loose, built and missing pieces only as PieceLedger allows:  *)
(* no move, merge, correction, pull, return or cancellation makes or loses *)
(* a piece.                                                                *)
Ledger == INSTANCE PieceLedger WITH loose <- Loose, built <- Built, missing <- Missing
LedgerKept == Ledger!Spec

(* The pieces of a Complete Build can be returned: the disassembly has a   *)
(* plan (help/builds.html, Disassembly).  The code refuses when two rows   *)
(* share their effective part, see the findings.                           *)
CompleteCanBeReturned ==
    \A b \in Builds : build[b].status = "Complete" /\ build[b].active
                       /\ (\E r \in RowsOf(b) : req[r].pulled > 0) => ReturnPlanExists(b)
=============================================================================
