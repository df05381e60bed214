------------------------- MODULE RestoreTransaction -------------------------
(***************************************************************************)
(* DatabaseRestoreTransaction: replacing the live database by a chosen     *)
(* backup with a journal, a filesystem rollback image and a durable data   *)
(* epoch, and the recovery that Application::initialize runs at startup.   *)
(*                                                                         *)
(* The state is the disk (live, previous and stage files, journal, epoch   *)
(* file, safety backups) and the step the program is at.  Each filesystem  *)
(* call is one step; the process may die between any two.  A database      *)
(* image stands for a whole file with its sidecars, which are absent here: *)
(* every connection is closed before execute() runs.                       *)
(***************************************************************************)
EXTENDS Naturals

CONSTANTS
    Databases,        \* database images that pass DatabaseFileValidator
    EmptyDatabase,    \* what SQLite creates when it opens a missing file
    Partial,          \* a file whose copy was interrupted
    None,             \* no file
    MaxEpoch,         \* bound: fresh epochs that may be issued
    MaxFaults,        \* bound: file operations that may fail
    Stubborn          \* files whose removal may fail where its result is ignored

ASSUME RestoreAssumption ==
    /\ MaxEpoch \in Nat
    /\ MaxFaults \in Nat
    /\ Stubborn \subseteq {"live", "previous", "stage", "journal"}
    /\ None \notin Databases
    /\ Partial \notin Databases
    /\ EmptyDatabase \notin Databases
    /\ Partial # None
    /\ EmptyDatabase \notin {None, Partial}

VARIABLES
    live,         \* BrickSuite.db
    previous,     \* BrickSuite.db.restore_previous
    stage,        \* BrickSuite.db.restore_candidate
    journal,      \* database-restore-transaction.json
    epoch,        \* host-data-epoch.json
    backups,      \* the BrickSuite_PreRestore_*.db images
    issued,       \* history: the last epoch created
    generation,   \* history: the database each epoch was committed for
    step,         \* the next call of the program
    recovering,   \* is it recoverAtStartup (else execute) that runs
    candidate,    \* execute's candidatePath
    faults        \* file operations that have failed

disk == <<live, previous, stage, journal, epoch, backups>>
history == <<issued, generation>>
control == <<step, recovering, candidate, faults>>
vars == <<disk, history, control>>

Epochs == 0 .. MaxEpoch
Images == Databases \cup {EmptyDatabase}
Files == Images \cup {None, Partial}
NoJournal == [state |-> "absent", old |-> 0, new |-> 0]
Journals == [state : {"prepared", "committed"}, old : Epochs, new : Epochs]
                \cup {NoJournal}

Steps == {"off", "refused", "open", "running", "ended",
          "safetyBackup", "clearStage", "clearPrevious", "beginCopy",
          "endCopy", "writeJournal", "moveLive", "installStage", "validate",
          "commitEpoch", "markCommitted", "dropPrevious", "dropStage",
          "removeLive", "movePrevious", "validateRollback", "persistOld",
          "dropJournal"}

TypeOK ==
    /\ live \in Files /\ previous \in Files /\ stage \in Files
    /\ journal \in Journals
    /\ epoch \in Epochs
    /\ backups \subseteq Images
    /\ issued \in Epochs
    /\ generation \in [Epochs -> Images \cup {None}]
    /\ step \in Steps
    /\ recovering \in BOOLEAN
    /\ candidate \in Databases \cup {None}
    /\ faults \in 0 .. MaxFaults

-----------------------------------------------------------------------------
(***************************************************************************)
(* File operations.                                                        *)
(***************************************************************************)
Pending == journal # NoJournal

\* What is left of a file after a removal whose result nobody looks at.
Removed(file, name) == {None} \cup (IF name \in Stubborn THEN {file} ELSE {})

\* removeWithSidecars and QFile::remove of the journal.
JournalRemoved == {NoJournal} \cup (IF "journal" \in Stubborn THEN {journal} ELSE {})

Goto(next) == step' = next

Succeed(next) == Goto(next) /\ UNCHANGED faults

\* A file operation fails and the program goes on at another step.
Fail(next) ==
    /\ faults < MaxFaults
    /\ faults' = faults + 1
    /\ Goto(next)

Init ==
    /\ live \in Databases
    /\ previous = None /\ stage = None
    /\ journal = NoJournal
    /\ epoch = 0
    /\ backups = {}
    /\ issued = 0
    /\ generation = [e \in Epochs |-> IF e = 0 THEN live ELSE None]
    /\ step = "off"
    /\ recovering = FALSE
    /\ candidate = None
    /\ faults = 0

-----------------------------------------------------------------------------
(***************************************************************************)
(* execute().                                                              *)
(***************************************************************************)
\* The coordinator has quiesced the Host and closed the database; the
\* candidate passed validation and the epoch could be read.
BeginRestore(chosen) ==
    /\ step = "running"
    /\ issued < MaxEpoch
    /\ issued' = issued + 1
    /\ candidate' = chosen
    /\ recovering' = FALSE
    /\ Succeed("safetyBackup")
    /\ UNCHANGED <<disk, generation>>

\* Mutant: a failed safety backup does not stop the Restore.
SafetyBackupOptional ==
    /\ step = "safetyBackup"
    /\ \/ backups' = backups \cup {live} /\ Succeed("clearStage")
       \/ UNCHANGED backups /\ Fail("clearStage")
    /\ UNCHANGED <<live, previous, stage, journal, epoch, history,
                   recovering, candidate>>

\* createVerifiedBackup: only a snapshot that passes validation is kept.
SafetyBackup ==
    /\ step = "safetyBackup"
    /\ \/ /\ live \in Images
          /\ backups' = backups \cup {live}
          /\ Succeed("clearStage")
       \/ UNCHANGED backups /\ Fail("ended")
    /\ UNCHANGED <<live, previous, stage, journal, epoch, history,
                   recovering, candidate>>

ClearStage ==
    /\ step = "clearStage"
    /\ stage' \in Removed(stage, "stage")
    /\ Succeed("clearPrevious")
    /\ UNCHANGED <<live, previous, journal, epoch, backups, history,
                   recovering, candidate>>

ClearPrevious ==
    /\ step = "clearPrevious"
    /\ previous' \in Removed(previous, "previous")
    /\ Succeed("beginCopy")
    /\ UNCHANGED <<live, stage, journal, epoch, backups, history,
                   recovering, candidate>>

\* QFile::copy refuses an existing target.
BeginCopy ==
    /\ step = "beginCopy"
    /\ \/ /\ stage = None
          /\ stage' = Partial
          /\ Succeed("endCopy")
       \/ /\ stage # None
          /\ UNCHANGED stage
          /\ Succeed("ended")
    /\ UNCHANGED <<live, previous, journal, epoch, backups, history,
                   recovering, candidate>>

EndCopy ==
    /\ step = "endCopy"
    /\ \/ stage' = candidate /\ Succeed("writeJournal")
       \/ stage' = None /\ Fail("ended")
    /\ UNCHANGED <<live, previous, journal, epoch, backups, history,
                   recovering, candidate>>

WriteJournal ==
    /\ step = "writeJournal"
    /\ \/ /\ journal' = [state |-> "prepared", old |-> epoch, new |-> issued]
          /\ UNCHANGED stage
          /\ Succeed("moveLive")
       \/ /\ UNCHANGED journal
          /\ stage' \in Removed(stage, "stage")
          /\ Fail("ended")
    /\ UNCHANGED <<live, previous, epoch, backups, history,
                   recovering, candidate>>

\* moveWithSidecars(live, previous): an existing target is removed first, and
\* stays removed when the rename then fails.
MoveLive ==
    /\ step = "moveLive"
    /\ \/ /\ previous' = live
          /\ live' = None
          /\ Succeed("installStage")
       \/ /\ previous' \in {None, previous}
          /\ UNCHANGED live
          /\ Fail("removeLive")
    /\ UNCHANGED <<stage, journal, epoch, backups, history,
                   recovering, candidate>>

InstallStage ==
    /\ step = "installStage"
    /\ \/ /\ live' = stage
          /\ stage' = None
          /\ Succeed("validate")
       \/ /\ UNCHANGED <<live, stage>>
          /\ Fail("removeLive")
    /\ UNCHANGED <<previous, journal, epoch, backups, history,
                   recovering, candidate>>

\* Mutant: the rollback image is dropped once the new file is valid.
ValidateInstalledDropsImage ==
    /\ step = "validate"
    /\ previous' = None
    /\ Succeed(IF live \in Images THEN "commitEpoch" ELSE "removeLive")
    /\ UNCHANGED <<live, stage, journal, epoch, backups, history,
                   recovering, candidate>>

ValidateInstalled ==
    /\ step = "validate"
    /\ \/ Succeed(IF live \in Images THEN "commitEpoch" ELSE "removeLive")
       \/ Fail("removeLive")
    /\ UNCHANGED <<disk, history, recovering, candidate>>

\* Mutant: the result of persisting the new epoch is not looked at.
CommitEpochUnchecked ==
    /\ step = "commitEpoch"
    /\ \/ /\ epoch' = journal.new
          /\ generation' = [generation EXCEPT ![journal.new] = candidate]
          /\ Succeed("markCommitted")
       \/ /\ UNCHANGED <<epoch, generation>>
          /\ Fail("markCommitted")
    /\ UNCHANGED <<live, previous, stage, journal, backups, issued,
                   recovering, candidate>>

\* HostDataEpoch::persist: the commit point.
CommitEpoch ==
    /\ step = "commitEpoch"
    /\ \/ /\ epoch' = journal.new
          /\ generation' = [generation EXCEPT ![journal.new] = candidate]
          /\ Succeed("markCommitted")
       \/ /\ UNCHANGED <<epoch, generation>>
          /\ Fail("removeLive")
    /\ UNCHANGED <<live, previous, stage, journal, backups, issued,
                   recovering, candidate>>

\* A failure to write "committed" is tolerated.
MarkCommitted ==
    /\ step = "markCommitted"
    /\ \/ /\ journal' = [journal EXCEPT !.state = "committed"]
          /\ Succeed("dropPrevious")
       \/ /\ UNCHANGED journal
          /\ Fail("dropPrevious")
    /\ UNCHANGED <<live, previous, stage, epoch, backups, history,
                   recovering, candidate>>

-----------------------------------------------------------------------------
(***************************************************************************)
(* The tails execute() and recoverAtStartup() share.                       *)
(***************************************************************************)
\* rollback() starts by removing the live database.
RemoveLive ==
    /\ step = "removeLive"
    /\ live' \in Removed(live, "live")
    /\ Succeed("movePrevious")
    /\ UNCHANGED <<previous, stage, journal, epoch, backups, history,
                   recovering, candidate>>

\* Where a rollback that cannot finish leaves the program.
Abandoned == IF recovering THEN "refused" ELSE "ended"

MovePrevious ==
    /\ step = "movePrevious"
    /\ \/ /\ previous = None
          /\ Succeed(Abandoned)
          /\ UNCHANGED <<live, previous>>
       \/ /\ previous # None
          /\ live' = previous
          /\ previous' = None
          /\ Succeed("validateRollback")
       \/ /\ previous # None
          /\ live' \in {None, live}
          /\ UNCHANGED previous
          /\ Fail(Abandoned)
    /\ UNCHANGED <<stage, journal, epoch, backups, history,
                   recovering, candidate>>

ValidateRollback ==
    /\ step = "validateRollback"
    /\ \/ Succeed(IF live \notin Images THEN Abandoned
                  ELSE IF recovering THEN "dropStage" ELSE "persistOld")
       \/ Fail(Abandoned)
    /\ UNCHANGED <<disk, history, recovering, candidate>>

\* The result of persist is not looked at.
PersistOldEpoch ==
    /\ step = "persistOld"
    /\ \/ epoch' = journal.old /\ Succeed("dropStage")
       \/ UNCHANGED epoch /\ Fail("dropStage")
    /\ UNCHANGED <<live, previous, stage, journal, backups, history,
                   recovering, candidate>>

DropPrevious ==
    /\ step = "dropPrevious"
    /\ previous' \in Removed(previous, "previous")
    /\ Succeed("dropStage")
    /\ UNCHANGED <<live, stage, journal, epoch, backups, history,
                   recovering, candidate>>

DropStage ==
    /\ step = "dropStage"
    /\ stage' \in Removed(stage, "stage")
    /\ Succeed("dropJournal")
    /\ UNCHANGED <<live, previous, journal, epoch, backups, history,
                   recovering, candidate>>

DropJournal ==
    /\ step = "dropJournal"
    /\ journal' \in JournalRemoved
    /\ Succeed(IF recovering THEN "open" ELSE "ended")
    /\ UNCHANGED <<live, previous, stage, epoch, backups, history,
                   recovering, candidate>>

-----------------------------------------------------------------------------
(***************************************************************************)
(* Startup: recoverAtStartup() when there is a journal, then the database  *)
(* is opened.                                                              *)
(***************************************************************************)
\* Mutant: the journal's state decides, not the durable epoch.
VerdictByJournalState ==
    IF journal.state = "committed" /\ live \in Images
    THEN "dropPrevious" ELSE "removeLive"

\* The durable epoch decides, not the state the journal names.
RecoveryVerdict ==
    CASE epoch = journal.new -> IF live \in Images THEN "dropPrevious"
                                                   ELSE "refused"
      [] epoch # journal.new /\ epoch = journal.old -> "removeLive"
      [] OTHER -> "refused"

Recover ==
    /\ step = "off"
    /\ Pending
    /\ recovering' = TRUE
    /\ Succeed(RecoveryVerdict) \/ Fail("refused")
    /\ UNCHANGED <<disk, history, candidate>>

OpenDatabase ==
    /\ step = "open" \/ (step = "off" /\ ~Pending)
    /\ live' = IF live = None THEN EmptyDatabase ELSE live
    /\ Succeed("running")
    /\ UNCHANGED <<previous, stage, journal, epoch, backups, history,
                   recovering, candidate>>

\* The process dies, or ends: a Restore ends with QCoreApplication::quit and a
\* refused startup returns from main.  The files stay.
Crash ==
    /\ step # "off"
    /\ Succeed("off")
    /\ recovering' = FALSE
    /\ candidate' = None
    /\ UNCHANGED <<disk, history>>

Execute ==
    \/ \E chosen \in Databases : BeginRestore(chosen)
    \/ SafetyBackup \/ ClearStage \/ ClearPrevious \/ BeginCopy \/ EndCopy
    \/ WriteJournal \/ MoveLive \/ InstallStage \/ ValidateInstalled
    \/ CommitEpoch \/ MarkCommitted \/ PersistOldEpoch

\* What execute and recoverAtStartup both end with.
SettleFiles ==
    \/ RemoveLive \/ MovePrevious \/ ValidateRollback
    \/ DropPrevious \/ DropStage \/ DropJournal

Next == Execute \/ SettleFiles \/ Recover \/ OpenDatabase \/ Crash

Spec == Init /\ [][Next]_vars

-----------------------------------------------------------------------------
(***************************************************************************)
(* Properties.                                                             *)
(***************************************************************************)
\* The database the durable epoch was committed for.
Authoritative == generation[epoch]

\* The epoch Clients are told names the database they are served: whatever
\* failed or crashed, a program that opened its database opened the image the
\* durable epoch was committed for.
EpochNamesTheDatabase == step = "running" => live = Authoritative

\* However a Restore is interrupted, and whatever file cannot be removed, the
\* authoritative image is in place or is one of the verified safety backups.
NoImageLost == Authoritative \in {live} \cup backups

\* "Epoch B is already durable. Startup recognizes Epoch B with a prepared
\* journal as a committed Restore and never rolls back": once the epoch of a
\* journal is durable nothing changes the installed database or the epoch.
CommittedNeverRolledBack ==
    [][(Pending /\ epoch = journal.new) => (live' = live /\ epoch' = epoch)]_vars

\* The image that stands for the database, read from the files alone: until the
\* new epoch is durable, the rollback image that a recovery moves back. There
\* may be none.
InPlace == IF Pending /\ epoch = journal.old /\ previous # None THEN previous ELSE live

\* Whatever crashes and fails, the Restore implements DataGeneration: database
\* and epoch are replaced together and only after a verified backup, and when
\* an interrupted Restore leaves no database (rollback() removes the live one
\* before it looks for an image), none is ever served under that epoch again.
Generations ==
    INSTANCE DataGeneration
        WITH database <- InPlace, dataEpoch <- epoch, kept <- backups
ReplacesAtomically == Generations!Spec

\* "Prepared Restore did not recover DB A/Epoch A" is a failure for the test
\* of an interrupted Restore: with no failing file operation, the startup after
\* a crash resolves the Restore.
InterruptedRestoreRecovers == step = "refused" => faults > 0
=============================================================================
