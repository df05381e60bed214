--------------------------- MODULE DatabaseProofs ---------------------------
(***************************************************************************)
(* Theorems about the database file and what is in it: RestoreTransaction, *)
(* for any databases, any number of Restores and any number of failing     *)
(* file operations, and SchemaUpgrade, for any rows of any requirements    *)
(* and records, and for either form of the tables of older versions.       *)
(***************************************************************************)
EXTENDS RestoreTransaction, SchemaUpgrade, FiniteSetTheorems, TLAPS

-----------------------------------------------------------------------------
(***************************************************************************)
(* Type correctness.                                                       *)
(***************************************************************************)
LEMMA InitTyped == Init => TypeOK
<1> USE RestoreAssumption DEF TypeOK, Epochs
<1> SUFFICES ASSUME Init PROVE TypeOK
  OBVIOUS
<1>1. generation \in [Epochs -> Images \cup {None}]
  BY DEF Init, Images
<1>2. journal \in Journals
  BY DEF Init, Journals
<1>3. live \in Files /\ previous \in Files /\ stage \in Files
  BY DEF Init, Files, Images
<1>4. QED
  <2>1. step \in Steps
    BY DEF Init, Steps
  <2>2. candidate \in Databases \cup {None} /\ faults \in 0 .. MaxFaults
    BY DEF Init
  <2>3. epoch \in Epochs /\ issued \in Epochs
    BY DEF Init
  <2>4. recovering \in BOOLEAN /\ backups \subseteq Images
    BY DEF Init
  <2>5. QED
    BY <1>1, <1>2, <1>3, <2>1, <2>2, <2>3, <2>4, Zenon

LEMMA StepTyped == TypeOK /\ [Next]_vars => TypeOK'
<1> USE RestoreAssumption DEF TypeOK, Epochs
<1> SUFFICES ASSUME TypeOK, [Next]_vars PROVE TypeOK'
  OBVIOUS
<1> USE DEF Succeed, Fail, Goto, Removed, disk, history
<1>1. ASSUME NEW chosen \in Databases, BeginRestore(chosen) PROVE TypeOK'
  <2>1. issued' \in Epochs /\ candidate' \in Databases \cup {None}
    BY <1>1 DEF BeginRestore
  <2>2. step' \in Steps /\ recovering' \in BOOLEAN
    BY <1>1 DEF BeginRestore, Steps
  <2>3. QED
    BY <1>1, <2>1, <2>2 DEF BeginRestore
<1>2. CASE SafetyBackup
  BY <1>2 DEF SafetyBackup, Files, Images, Steps
<1>3. CASE ClearStage
  BY <1>3 DEF ClearStage, Files, Images, Steps
<1>4. CASE ClearPrevious
  BY <1>4 DEF ClearPrevious, Files, Images, Steps
<1>5. CASE BeginCopy
  BY <1>5 DEF BeginCopy, Files, Images, Steps
<1>6. CASE EndCopy
  BY <1>6 DEF EndCopy, Files, Images, Steps
<1>7. CASE WriteJournal
  BY <1>7 DEF WriteJournal, Files, Journals, Steps
<1>8. CASE MoveLive
  BY <1>8 DEF MoveLive, Files, Images, Steps
<1>9. CASE InstallStage
  BY <1>9 DEF InstallStage, Files, Images, Steps
<1>10. CASE ValidateInstalled
  BY <1>10 DEF ValidateInstalled, Steps
<1>11. CASE CommitEpoch
  BY <1>11 DEF CommitEpoch, Files, Journals, NoJournal, Images, Steps
<1>12. CASE MarkCommitted
  BY <1>12 DEF MarkCommitted, Journals, NoJournal, Steps
<1>13. CASE PersistOldEpoch
  BY <1>13 DEF PersistOldEpoch, Journals, NoJournal, Steps
<1>14. CASE RemoveLive
  BY <1>14 DEF RemoveLive, Files, Images, Steps
<1>15. CASE MovePrevious
  BY <1>15 DEF MovePrevious, Files, Abandoned, Steps
<1>16. CASE ValidateRollback
  BY <1>16 DEF ValidateRollback, Abandoned, Steps
<1>17. CASE DropPrevious
  BY <1>17 DEF DropPrevious, Files, Images, Steps
<1>18. CASE DropStage
  BY <1>18 DEF DropStage, Files, Images, Steps
<1>19. CASE DropJournal
  BY <1>19 DEF DropJournal, JournalRemoved, Journals, Steps
<1>20. CASE Recover
  BY <1>20 DEF Recover, RecoveryVerdict, Steps
<1>21. CASE OpenDatabase
  BY <1>21 DEF OpenDatabase, Files, Images, Steps
<1>22. CASE Crash
  BY <1>22 DEF Crash, Steps
<1>23. CASE UNCHANGED vars
  BY <1>23 DEF vars, control
<1>24. QED
  BY <1>1, <1>2, <1>3, <1>4, <1>5, <1>6, <1>7, <1>8, <1>9, <1>10, <1>11,
     <1>12, <1>13, <1>14, <1>15, <1>16, <1>17, <1>18, <1>19, <1>20, <1>21,
     <1>22, <1>23 DEF Next, Execute, SettleFiles

\* The type invariant: every file holds an image, a partial copy or nothing,
\* only whole images are backed up or committed, and a step is always known.
THEOREM TypeCorrect == Spec => []TypeOK
  BY InitTyped, StepTyped, PTL DEF Spec

-----------------------------------------------------------------------------
(***************************************************************************)
(* No image is lost.  The authoritative image is in place, or was backed up*)
(* before the first step that can displace it, and no backup is removed.   *)
(***************************************************************************)
\* execute() between its safety backup and its commit point.
Replacing == {"clearStage", "clearPrevious", "beginCopy", "endCopy",
              "writeJournal", "moveLive", "installStage", "validate",
              "commitEpoch"}
RollingBack == {"removeLive", "movePrevious", "validateRollback", "persistOld"}

ImageInv ==
    /\ TypeOK
    /\ NoImageLost
    /\ Authoritative \in Images
    /\ step \in Replacing \cup RollingBack => Authoritative \in backups
    /\ Pending /\ epoch # journal.new => Authoritative \in backups
    /\ step \in RollingBack => epoch = journal.old
    /\ step \in {"moveLive", "installStage", "validate", "commitEpoch"}
           => epoch = journal.old /\ Pending
    /\ step \in {"writeJournal", "moveLive", "installStage"} => stage = candidate
    /\ step \in {"validate", "commitEpoch"} => live = candidate
    /\ step = "markCommitted" => epoch = journal.new
    /\ step \in {"safetyBackup"} \cup Replacing => candidate \in Databases

LEMMA ImageInit == Init => ImageInv
  BY InitTyped, RestoreAssumption
     DEF ImageInv, NoImageLost, Authoritative, Pending, Replacing,
         RollingBack, Init, Epochs, Images

LEMMA ImageStep == ImageInv /\ [Next]_vars => ImageInv'
<1> USE RestoreAssumption DEF ImageInv, NoImageLost, Authoritative, Pending,
                              Replacing, RollingBack
<1> SUFFICES ASSUME ImageInv, [Next]_vars PROVE ImageInv'
  OBVIOUS
<1> TypeOK'
  BY StepTyped
<1> USE DEF TypeOK, Succeed, Fail, Goto, disk, history
<1>1. ASSUME NEW chosen \in Databases, BeginRestore(chosen) PROVE ImageInv'
  BY <1>1 DEF BeginRestore
<1>2. CASE SafetyBackup
  BY <1>2 DEF SafetyBackup
<1>3. CASE ClearStage
  BY <1>3 DEF ClearStage
<1>4. CASE ClearPrevious
  BY <1>4 DEF ClearPrevious
<1>5. CASE BeginCopy
  BY <1>5 DEF BeginCopy
<1>6. CASE EndCopy
  BY <1>6 DEF EndCopy
<1>7. CASE WriteJournal
  <2>1. CASE journal' = [state |-> "prepared", old |-> epoch, new |-> issued]
    <3>1. Pending' /\ epoch' = journal'.old
      BY <1>7, <2>1 DEF WriteJournal, NoJournal
    <3>2. QED
      BY <1>7, <3>1 DEF WriteJournal
  <2>2. CASE UNCHANGED journal /\ step' = "ended"
    BY <1>7, <2>2 DEF WriteJournal
  <2>3. \/ journal' = [state |-> "prepared", old |-> epoch, new |-> issued]
        \/ UNCHANGED journal /\ step' = "ended"
    BY <1>7 DEF WriteJournal
  <2>4. QED
    BY ONLY <2>1, <2>2, <2>3, Zenon
<1>8. CASE MoveLive
  BY <1>8 DEF MoveLive
<1>9. CASE InstallStage
  BY <1>9 DEF InstallStage
<1>10. CASE ValidateInstalled
  BY <1>10 DEF ValidateInstalled
<1>11. CASE CommitEpoch
  BY <1>11 DEF CommitEpoch
<1>12. CASE MarkCommitted
  BY <1>12 DEF MarkCommitted, Journals, NoJournal
<1>13. CASE PersistOldEpoch
  BY <1>13 DEF PersistOldEpoch
<1>14. CASE RemoveLive
  BY <1>14 DEF RemoveLive
<1>15. CASE MovePrevious
  BY <1>15 DEF MovePrevious, Abandoned
<1>16. CASE ValidateRollback
  BY <1>16 DEF ValidateRollback, Abandoned
<1>17. CASE DropPrevious
  BY <1>17 DEF DropPrevious
<1>18. CASE DropStage
  BY <1>18 DEF DropStage
<1>19. CASE DropJournal
  BY <1>19 DEF DropJournal, JournalRemoved
<1>20. CASE Recover
  BY <1>20 DEF Recover, RecoveryVerdict
<1>21. CASE OpenDatabase
  BY <1>21 DEF OpenDatabase, Images
<1>22. CASE Crash
  BY <1>22 DEF Crash
<1>23. CASE UNCHANGED vars
  BY <1>23 DEF vars, control
<1>24. QED
  BY <1>1, <1>2, <1>3, <1>4, <1>5, <1>6, <1>7, <1>8, <1>9, <1>10,
     <1>11, <1>12, <1>13, <1>14, <1>15, <1>16, <1>17, <1>18, <1>19,
     <1>20, <1>21, <1>22, <1>23 DEF Next, Execute, SettleFiles

LEMMA ImageInvariant == Spec => []ImageInv
  BY ImageInit, ImageStep, PTL DEF Spec

\* Whatever is interrupted and whatever fails, stale files included, the image
\* the durable epoch was committed for is in place or safely backed up.
THEOREM ImageSafe == Spec => []NoImageLost
  BY ImageInvariant, PTL DEF ImageInv

-----------------------------------------------------------------------------
(***************************************************************************)
(* A committed Restore is never rolled back, stale files included: a       *)
(* journal always names an older and a newer epoch, so that the durable    *)
(* one tells them apart, and what is in place when the tails run is whole. *)
(***************************************************************************)
\* execute() before its journal exists.
Preparing == {"safetyBackup", "clearStage", "clearPrevious", "beginCopy",
              "endCopy", "writeJournal"}

\* The steps that find the database in place.
Finishing == {"markCommitted", "persistOld", "dropPrevious", "dropStage",
              "dropJournal", "open"}

CommitInv ==
    /\ ImageInv
    /\ epoch <= issued
    /\ step \in Preparing => epoch < issued
    /\ Pending => journal.old < journal.new /\ journal.new <= issued
    /\ step = "markCommitted" => Pending
    /\ step \in Finishing => live \in Images

LEMMA CommitInit == Init => CommitInv
  BY ImageInit, RestoreAssumption
     DEF CommitInv, Pending, Preparing, Finishing, Init, Epochs

LEMMA CommitStep == CommitInv /\ [Next]_vars => CommitInv'
<1> SUFFICES ASSUME CommitInv, [Next]_vars PROVE CommitInv'
  OBVIOUS
<1> ImageInv'
  BY ImageStep DEF CommitInv
<1> USE RestoreAssumption DEF CommitInv, Pending, Preparing, RollingBack,
                              Replacing, Finishing
<1> USE DEF ImageInv, TypeOK, Epochs, Succeed, Fail, Goto, disk, history
<1>0. journal.old \in Epochs /\ journal.new \in Epochs
  BY DEF Journals, NoJournal
<1>1. ASSUME NEW chosen \in Databases, BeginRestore(chosen) PROVE CommitInv'
  <2>1. issued' = issued + 1 /\ step' = "safetyBackup" /\ UNCHANGED <<live, journal, epoch>>
    BY <1>1 DEF BeginRestore
  <2>2. issued \in Nat /\ epoch \in Nat /\ journal.new \in Nat
    BY <1>0
  <2>3. epoch < issued' /\ (journal.new <= issued => journal.new <= issued')
    BY <2>1, <2>2
  <2>4. epoch' <= issued' /\ (Pending' => journal'.old < journal'.new /\ journal'.new <= issued')
    BY <2>1, <2>2, <2>3
  <2>5. QED
    BY <2>1, <2>3, <2>4
<1>2. CASE SafetyBackup
  BY <1>2 DEF SafetyBackup
<1>3. CASE ClearStage
  BY <1>3 DEF ClearStage
<1>4. CASE ClearPrevious
  BY <1>4 DEF ClearPrevious
<1>5. CASE BeginCopy
  BY <1>5 DEF BeginCopy
<1>6. CASE EndCopy
  BY <1>6 DEF EndCopy
<1>7. CASE WriteJournal
  BY <1>7 DEF WriteJournal
<1>8. CASE MoveLive
  BY <1>8 DEF MoveLive
<1>9. CASE InstallStage
  BY <1>9 DEF InstallStage
<1>10. CASE ValidateInstalled
  BY <1>10 DEF ValidateInstalled
<1>11. CASE CommitEpoch
  BY <1>11 DEF CommitEpoch, Images
<1>12. CASE MarkCommitted
  <2>1. CASE journal' = [journal EXCEPT !.state = "committed"]
    <3>1. journal'.old = journal.old /\ journal'.new = journal.new
      BY <2>1 DEF Journals, NoJournal
    <3>2. journal.old < journal.new /\ journal.new <= issued
      BY <1>12 DEF MarkCommitted
    <3>3. QED
      BY <1>12, <3>1, <3>2 DEF MarkCommitted
  <2>2. CASE UNCHANGED journal
    BY <1>12, <2>2 DEF MarkCommitted
  <2>3. QED
    BY <1>12, <2>1, <2>2 DEF MarkCommitted
<1>13. CASE PersistOldEpoch
  BY <1>13 DEF PersistOldEpoch, Journals, NoJournal
<1>14. CASE RemoveLive
  BY <1>14 DEF RemoveLive
<1>15. CASE MovePrevious
  BY <1>15 DEF MovePrevious, Abandoned
<1>16. CASE ValidateRollback
  BY <1>16 DEF ValidateRollback, Abandoned
<1>17. CASE DropPrevious
  BY <1>17 DEF DropPrevious
<1>18. CASE DropStage
  BY <1>18 DEF DropStage
<1>19. CASE DropJournal
  BY <1>19 DEF DropJournal, JournalRemoved
<1>20. CASE Recover
  BY <1>20 DEF Recover, RecoveryVerdict
<1>21. CASE OpenDatabase
  BY <1>21 DEF OpenDatabase, Images
<1>22. CASE Crash
  BY <1>22 DEF Crash
<1>23. CASE UNCHANGED vars
  BY <1>23 DEF vars, control
<1>24. QED
  BY <1>1, <1>2, <1>3, <1>4, <1>5, <1>6, <1>7, <1>8, <1>9, <1>10, <1>11,
     <1>12, <1>13, <1>14, <1>15, <1>16, <1>17, <1>18, <1>19, <1>20,
     <1>21, <1>22, <1>23 DEF Next, Execute, SettleFiles

\* Once the epoch of a journal is durable, nothing changes the installed
\* database or the epoch, whatever crashes, fails or is left over.
THEOREM CommitFinal == Spec => CommittedNeverRolledBack
<1>1. CommitInv /\ [Next]_vars
        => [(Pending /\ epoch = journal.new) => (live' = live /\ epoch' = epoch)]_vars
  <2> SUFFICES ASSUME CommitInv, [Next]_vars, Pending, epoch = journal.new
               PROVE  live' = live /\ epoch' = epoch
    OBVIOUS
  <2>1. epoch # journal.old
    BY RestoreAssumption DEF CommitInv, ImageInv, TypeOK, Epochs, Journals, NoJournal
  <2>2. step \notin RollingBack \cup {"moveLive", "installStage", "validate", "commitEpoch"}
    BY <2>1 DEF CommitInv, ImageInv
  <2>3. ~MoveLive /\ ~InstallStage /\ ~CommitEpoch /\ ~PersistOldEpoch
        /\ ~RemoveLive /\ ~MovePrevious
    BY <2>2 DEF RollingBack, MoveLive, InstallStage, CommitEpoch, PersistOldEpoch,
                RemoveLive, MovePrevious
  <2>4. CASE OpenDatabase
    <3>1. live \in Images
      BY <2>4 DEF OpenDatabase, CommitInv, Finishing
    <3>2. QED
      BY <2>4, <3>1, RestoreAssumption DEF OpenDatabase, Images
  <2>5. CASE Recover \/ Crash \/ UNCHANGED vars \/ DropPrevious \/ DropStage
             \/ DropJournal \/ ValidateRollback \/ \E chosen \in Databases : BeginRestore(chosen)
    BY <2>5 DEF Recover, Crash, vars, disk, DropPrevious, DropStage, DropJournal,
                ValidateRollback, BeginRestore
  <2>6. CASE SafetyBackup \/ ClearStage \/ ClearPrevious \/ BeginCopy \/ EndCopy
             \/ WriteJournal \/ ValidateInstalled \/ MarkCommitted
    BY <2>6 DEF SafetyBackup, ClearStage, ClearPrevious, BeginCopy, EndCopy,
                WriteJournal, ValidateInstalled, MarkCommitted, disk
  <2>7. QED
    BY <2>3, <2>4, <2>5, <2>6 DEF Next, Execute, SettleFiles
<1>2. QED
  BY <1>1, CommitInit, CommitStep, PTL DEF Spec, CommittedNeverRolledBack

-----------------------------------------------------------------------------
(***************************************************************************)
(* The epoch names the database, and the Restore is an indivisible         *)
(* replacement, as long as a rollback image that is dropped is gone. Other *)
(* removals whose result is ignored may fail.                              *)
(***************************************************************************)
\* The two images on disk at each point of a Restore and of its recovery.
GenerationInv ==
    /\ ImageInv
    /\ epoch <= issued
    /\ step \in Preparing => epoch < issued
    /\ step \in {"running", "open"} \cup Preparing
           => live = Authoritative /\ previous = None
    /\ Pending => journal.old < journal.new /\ journal.new <= issued
    /\ ~Pending => live = Authoritative /\ previous = None
    /\ Pending /\ epoch = journal.new => live = Authoritative
    /\ Pending /\ epoch # journal.new =>
          /\ epoch = journal.old
          /\ \/ previous = Authoritative
             \/ previous = None /\ live \in {None, Authoritative}
    /\ step \in RollingBack \cup {"moveLive", "installStage", "validate",
                              "commitEpoch"} => Pending /\ epoch # journal.new
    /\ step = "moveLive" => live = Authoritative /\ previous = None
    /\ step \in {"installStage", "validate", "commitEpoch"}
           => previous = Authoritative
    /\ step \in {"markCommitted", "dropPrevious"}
           => Pending /\ epoch = journal.new
    /\ step \in {"validateRollback", "persistOld", "dropStage", "dropJournal"}
           => Pending /\ live = Authoritative /\ previous = None

LEMMA GenerationInit == Init => GenerationInv
  BY ImageInit, RestoreAssumption
     DEF GenerationInv, Authoritative, Pending, Preparing, RollingBack, Init,
         Epochs

LEMMA GenerationStep ==
  ASSUME "previous" \notin Stubborn, GenerationInv, [Next]_vars
  PROVE  GenerationInv'
<1> ImageInv'
  BY ImageStep DEF GenerationInv
<1> USE RestoreAssumption DEF GenerationInv, Authoritative, Pending, Preparing,
                              RollingBack, Replacing
<1> USE DEF ImageInv, TypeOK, Epochs, Succeed, Fail, Goto, Removed, disk, history
<1>1. ASSUME NEW chosen \in Databases, BeginRestore(chosen) PROVE GenerationInv'
  <2>1. issued' = issued + 1 /\ step = "running" /\ step' = "safetyBackup"
        /\ UNCHANGED <<live, previous, journal, epoch, generation>>
    BY <1>1 DEF BeginRestore
  <2>2. issued \in Nat /\ epoch \in Nat /\ (Pending => journal.new \in Nat)
    BY DEF Journals, NoJournal
  <2>3. epoch < issued' /\ (Pending => journal.new <= issued')
    BY <2>1, <2>2
  <2>4. QED
    BY <2>1, <2>2, <2>3
<1>2. CASE SafetyBackup
  BY <1>2 DEF SafetyBackup
<1>3. CASE ClearStage
  BY <1>3 DEF ClearStage
<1>4. CASE ClearPrevious
  BY <1>4 DEF ClearPrevious
<1>5. CASE BeginCopy
  BY <1>5 DEF BeginCopy
<1>6. CASE EndCopy
  BY <1>6 DEF EndCopy
<1>7. CASE WriteJournal
  BY <1>7 DEF WriteJournal
<1>8. CASE MoveLive
  BY <1>8 DEF MoveLive
<1>9. CASE InstallStage
  BY <1>9 DEF InstallStage
<1>10. CASE ValidateInstalled
  BY <1>10 DEF ValidateInstalled
<1>11. CASE CommitEpoch
  BY <1>11 DEF CommitEpoch
<1>12. CASE MarkCommitted
  BY <1>12 DEF MarkCommitted, Journals, NoJournal
<1>13. CASE PersistOldEpoch
  BY <1>13 DEF PersistOldEpoch
<1>14. CASE RemoveLive
  BY <1>14 DEF RemoveLive
<1>15. CASE MovePrevious
  BY <1>15 DEF MovePrevious, Abandoned
<1>16. CASE ValidateRollback
  BY <1>16 DEF ValidateRollback, Abandoned
<1>17. CASE DropPrevious
  BY <1>17 DEF DropPrevious
<1>18. CASE DropStage
  BY <1>18 DEF DropStage
<1>19. CASE DropJournal
  BY <1>19 DEF DropJournal, JournalRemoved
<1>20. CASE Recover
  BY <1>20 DEF Recover, RecoveryVerdict
<1>21. CASE OpenDatabase
  BY <1>21 DEF OpenDatabase, Images
<1>22. CASE Crash
  BY <1>22 DEF Crash
<1>23. CASE UNCHANGED vars
  BY <1>23 DEF vars, control
<1>24. QED
  BY <1>1, <1>2, <1>3, <1>4, <1>5, <1>6, <1>7, <1>8, <1>9, <1>10, <1>11,
     <1>12, <1>13, <1>14, <1>15, <1>16, <1>17, <1>18, <1>19, <1>20,
     <1>21, <1>22, <1>23 DEF Next, Execute, SettleFiles

LEMMA GenerationInvariant ==
  ASSUME "previous" \notin Stubborn PROVE Spec => []GenerationInv
  BY GenerationInit, GenerationStep, PTL DEF Spec

\* The program never opens a database under an epoch committed for another,
\* although stale journals and staged files may be left over.
THEOREM EpochSafe ==
  ASSUME "previous" \notin Stubborn PROVE Spec => []EpochNamesTheDatabase
<1>1. GenerationInv => EpochNamesTheDatabase
  BY DEF GenerationInv, EpochNamesTheDatabase
<1>2. QED
  BY <1>1, GenerationInvariant, PTL

\* No file is left that could stand for the database.
Lost == Pending /\ epoch # journal.new /\ live = None /\ previous = None

PlaceInv == Authoritative # None /\ InPlace = IF Lost THEN None ELSE Authoritative

LEMMA InPlaceOrLost == GenerationInv => PlaceInv
<1> SUFFICES ASSUME GenerationInv PROVE PlaceInv
  OBVIOUS
<1> USE DEF PlaceInv
<1>1. Authoritative # None
  BY RestoreAssumption DEF GenerationInv, ImageInv, Images
<1>2. CASE ~Pending
  BY <1>1, <1>2 DEF GenerationInv, InPlace, Lost
<1>3. CASE Pending /\ epoch = journal.new
  <2>1. epoch # journal.old
    BY <1>3, RestoreAssumption
       DEF GenerationInv, ImageInv, TypeOK, Epochs, Journals, NoJournal
  <2>2. QED
    BY <1>1, <1>3, <2>1 DEF GenerationInv, InPlace, Lost
<1>4. CASE Pending /\ epoch # journal.new
  BY <1>1, <1>4 DEF GenerationInv, InPlace, Lost
<1>5. QED
  BY <1>1, <1>2, <1>3, <1>4

\* A database that is lost stays lost: the program is not, and cannot be, open.
LEMMA LostStays ==
  ASSUME GenerationInv, Lost, [Next]_vars
  PROVE  UNCHANGED <<live, previous, journal, epoch>>
<1>1. Authoritative # None
  BY InPlaceOrLost DEF PlaceInv
<1>2. step \in {"off", "refused", "ended", "removeLive", "movePrevious"}
  BY <1>1 DEF GenerationInv, ImageInv, TypeOK, Steps, Lost, Preparing, RollingBack
<1> USE DEF Succeed, Fail, Goto, disk, Lost
<1>3. CASE Execute
  BY <1>2, <1>3 DEF Execute, BeginRestore, SafetyBackup, ClearStage, ClearPrevious, BeginCopy,
                    EndCopy, WriteJournal, MoveLive, InstallStage, ValidateInstalled, CommitEpoch,
                    MarkCommitted, PersistOldEpoch
<1>4. CASE SettleFiles
  BY <1>2, <1>4 DEF SettleFiles, RemoveLive, MovePrevious, ValidateRollback, DropPrevious,
                    DropStage, DropJournal, Removed
<1>5. CASE Recover \/ OpenDatabase \/ Crash \/ UNCHANGED vars
  BY <1>2, <1>5 DEF Recover, OpenDatabase, Crash, vars
<1> QED
  BY <1>3, <1>4, <1>5 DEF Next

\* Only a successful commit changes the epoch or what it stands for.
LEMMA OnlyCommitAdvances ==
  ASSUME GenerationInv, [Next]_vars, ~(CommitEpoch /\ step' = "markCommitted")
  PROVE  UNCHANGED <<epoch, generation>>
<1> USE DEF Succeed, Fail, Goto, disk, history
<1> USE DEF GenerationInv, ImageInv, RollingBack
<1>1. ASSUME NEW chosen \in Databases, BeginRestore(chosen) PROVE UNCHANGED <<epoch, generation>>
  BY <1>1 DEF BeginRestore
<1>2. CASE SafetyBackup
  BY <1>2 DEF SafetyBackup
<1>3. CASE ClearStage
  BY <1>3 DEF ClearStage
<1>4. CASE ClearPrevious
  BY <1>4 DEF ClearPrevious
<1>5. CASE BeginCopy
  BY <1>5 DEF BeginCopy
<1>6. CASE EndCopy
  BY <1>6 DEF EndCopy
<1>7. CASE WriteJournal
  BY <1>7 DEF WriteJournal
<1>8. CASE MoveLive
  BY <1>8 DEF MoveLive
<1>9. CASE InstallStage
  BY <1>9 DEF InstallStage
<1>10. CASE ValidateInstalled
  BY <1>10 DEF ValidateInstalled
<1>11. CASE CommitEpoch
  BY <1>11 DEF CommitEpoch
<1>12. CASE MarkCommitted
  BY <1>12 DEF MarkCommitted
<1>13. CASE PersistOldEpoch
  BY <1>13 DEF PersistOldEpoch
<1>14. CASE RemoveLive
  BY <1>14 DEF RemoveLive
<1>15. CASE MovePrevious
  BY <1>15 DEF MovePrevious, Abandoned
<1>16. CASE ValidateRollback
  BY <1>16 DEF ValidateRollback, Abandoned
<1>17. CASE DropPrevious
  BY <1>17 DEF DropPrevious
<1>18. CASE DropStage
  BY <1>18 DEF DropStage
<1>19. CASE DropJournal
  BY <1>19 DEF DropJournal, JournalRemoved
<1>20. CASE Recover
  BY <1>20 DEF Recover, RecoveryVerdict
<1>21. CASE OpenDatabase
  BY <1>21 DEF OpenDatabase
<1>22. CASE Crash
  BY <1>22 DEF Crash
<1>23. CASE UNCHANGED vars
  BY <1>23 DEF vars, control
<1>24. QED
  BY <1>1, <1>2, <1>3, <1>4, <1>5, <1>6, <1>7, <1>8, <1>9, <1>10, <1>11,
     <1>12, <1>13, <1>14, <1>15, <1>16, <1>17, <1>18, <1>19, <1>20,
     <1>21, <1>22, <1>23 DEF Next, Execute, SettleFiles

\* Only a Restore that begins makes a backup.
LEMMA OnlySafetyBackup ==
  ASSUME [Next]_vars, ~SafetyBackup PROVE backups' = backups
<1> USE DEF Succeed, Fail, Goto, disk
<1>1. CASE Execute
  BY <1>1 DEF Execute, BeginRestore, ClearStage, ClearPrevious, BeginCopy, EndCopy, WriteJournal,
              MoveLive, InstallStage, ValidateInstalled, CommitEpoch, MarkCommitted, PersistOldEpoch
<1>2. CASE SettleFiles
  BY <1>2 DEF SettleFiles, RemoveLive, MovePrevious, ValidateRollback, DropPrevious, DropStage,
              DropJournal
<1>3. CASE Recover \/ OpenDatabase \/ Crash \/ UNCHANGED vars
  BY <1>3 DEF Recover, OpenDatabase, Crash, vars
<1> QED
  BY <1>1, <1>2, <1>3 DEF Next

\* Seen through its files alone, every step of the Restore and of its recovery
\* is a step of DataGeneration: the commit replaces database and epoch, and
\* where rollback() leaves no image the database is lost for good, and backed up.
THEOREM ReplacementAtomic ==
  ASSUME "previous" \notin Stubborn PROVE Spec => ReplacesAtomically
<1>1. Init => Generations!Init
  BY RestoreAssumption DEF Init, Generations!Init, InPlace, Pending
<1>0. GenerationInv /\ GenerationInv' => PlaceInv /\ PlaceInv'
  BY InPlaceOrLost, PTL
<1>2. GenerationInv /\ GenerationInv' /\ [Next]_vars
        => [Generations!Next]_<<InPlace, epoch, backups>>
  <2> SUFFICES ASSUME GenerationInv, GenerationInv', [Next]_vars
               PROVE  [Generations!Next]_<<InPlace, epoch, backups>>
    OBVIOUS
  <2>1. Authoritative # None /\ InPlace = IF Lost THEN None ELSE Authoritative
    BY <1>0 DEF PlaceInv
  <2>2. InPlace' = IF Lost' THEN None ELSE Authoritative'
    BY <1>0 DEF PlaceInv
  <2>3. CASE CommitEpoch /\ step' = "markCommitted"
    <3>1. epoch' = journal.new /\ generation' = [generation EXCEPT ![journal.new] = candidate]
      BY <2>3 DEF CommitEpoch, Fail, Goto
    <3>2. /\ step = "commitEpoch" /\ Pending /\ epoch # journal.new
          /\ candidate \in Databases /\ Authoritative \in backups
          /\ previous = Authoritative
      BY <2>3 DEF CommitEpoch, GenerationInv, ImageInv, Replacing
    <3>3. epoch < journal.new
      BY <3>2 DEF GenerationInv
    <3>4. epoch' \in Epochs /\ epoch \in Epochs
      BY DEF GenerationInv, ImageInv, TypeOK
    <3>5. Authoritative' = candidate
      BY <3>1, <3>4 DEF Authoritative, GenerationInv, ImageInv, TypeOK
    <3>6. journal' = journal /\ backups' = backups
      BY <2>3 DEF CommitEpoch
    <3>7. ~Lost /\ ~Lost'
      BY <2>1, <3>1, <3>2, <3>6 DEF Lost
    <3>8. Generations!Replace(candidate)
      BY <2>1, <2>2, <3>1, <3>2, <3>3, <3>4, <3>5, <3>6, <3>7, RestoreAssumption
         DEF Generations!Replace, Epochs
    <3> QED
      BY <3>2, <3>8 DEF Generations!Next
  <2>4. CASE ~(CommitEpoch /\ step' = "markCommitted")
    <3>1. UNCHANGED <<epoch, generation>> /\ Authoritative' = Authoritative
      BY <2>4, OnlyCommitAdvances DEF Authoritative
    <3>2. CASE SafetyBackup
      <4>1. live = Authoritative /\ previous = None /\ UNCHANGED <<live, previous, journal>>
        BY <3>2 DEF SafetyBackup, GenerationInv, Preparing
      <4>2. InPlace = live /\ InPlace' = live
        BY <2>1, <4>1, <3>1 DEF InPlace, Pending
      <4>3. backups' = backups \cup {live} \/ backups' = backups
        BY <3>2 DEF SafetyBackup
      <4> QED BY <2>1, <3>1, <4>1, <4>2, <4>3 DEF Generations!Next, Generations!BackUp
    <3>3. CASE ~SafetyBackup
      <4>1. backups' = backups
        BY <3>3, OnlySafetyBackup
      <4>2. Lost => Lost'
        BY LostStays DEF Lost, Pending
      <4>3. Lost' => Authoritative \in backups
        BY <3>1, <4>1 DEF GenerationInv, ImageInv, Lost
      <4> QED BY <2>1, <2>2, <3>1, <4>1, <4>2, <4>3 DEF Generations!Next, Generations!Lose
    <3> QED BY <3>2, <3>3
  <2> QED
    BY <2>3, <2>4
<1>3. QED
  BY <1>1, <1>2, GenerationInvariant, PTL
     DEF Spec, ReplacesAtomically, Generations!Spec
-----------------------------------------------------------------------------
(* What holds of a subset of a finite set whenever it holds of the smaller *)
(* ones holds of every subset.                                             *)
LEMMA SubsetInduction ==
  ASSUME NEW S, IsFiniteSet(S), NEW G,
         \A T \in SUBSET S : (\A U \in SUBSET T : U # T => U \in G) => T \in G
  PROVE  SUBSET S \subseteq G
<1> SUFFICES ASSUME NEW T0 \in SUBSET S, T0 \notin G PROVE FALSE
  OBVIOUS
<1> DEFINE B == {T \in FiniteSubsetsOf(S) : T \notin G}
           R == StrictSubsetOrdering(S)
           F == FiniteSubsetsOf(S)
<1>1. F = SUBSET S
  BY FS_FiniteSubsetsOfFinite
<1>2. IsWellFoundedOn(R, F)
  BY FS_StrictSubsetOrderingWellFounded
<1>3. B \subseteq F /\ B # {}
  BY <1>1
<1>4. \E T \in B : \A y \in B : ~(<<y, T>> \in R)
  <2> HIDE DEF B, R, F
  <2> QED BY <1>2, <1>3, WFMin
<1>5. PICK T \in B : \A y \in B : ~(<<y, T>> \in R)
  BY <1>4
<1>6. \A U \in SUBSET T : U # T => U \in G
  <2> SUFFICES ASSUME NEW U \in SUBSET T, U # T, U \notin G PROVE FALSE
    OBVIOUS
  <2>1. U \in B /\ T \in SUBSET S
    BY <1>1
  <2>2. <<U, T>> \in R
    BY <1>1, <2>1 DEF StrictSubsetOrdering
  <2> QED BY <1>5, <2>1, <2>2
<1> QED BY <1>1, <1>5, <1>6

(* h follows the recursion of a fold over the subsets of T.                *)
Folds(h, T, base, add, pick) ==
  \A s \in SUBSET T : h[s] = IF s = {} THEN base
                             ELSE add[<<pick[s], h[s \ {pick[s]}]>>]

(* Two functions that follow the same recursion over the subsets of a      *)
(* finite set agree.                                                       *)
LEMMA FoldUnique ==
  ASSUME NEW S, IsFiniteSet(S), NEW base, NEW add, NEW pick, NEW h1, NEW h2,
         \A s \in SUBSET S : s # {} => pick[s] \in s,
         Folds(h1, S, base, add, pick), Folds(h2, S, base, add, pick)
  PROVE  \A s \in SUBSET S : h1[s] = h2[s]
<1> DEFINE G == {s \in SUBSET S : h1[s] = h2[s]}
<1>1. ASSUME NEW T \in SUBSET S, \A U \in SUBSET T : U # T => U \in G
      PROVE  T \in G
  <2>1. CASE T = {}
    BY <2>1 DEF Folds
  <2>2. CASE T # {}
    <3>1. T \ {pick[T]} \in G
      BY <1>1, <2>2
    <3> QED BY <2>2, <3>1 DEF Folds
  <2> QED BY <2>1, <2>2
<1>2. SUBSET S \subseteq G
  <2> HIDE DEF G
  <2> QED BY <1>1, SubsetInduction
<1> QED BY <1>2

(* The recursion MapThenFoldSet is defined by has a solution: its CHOOSE   *)
(* picks one.                                                              *)
LEMMA FoldExists ==
  ASSUME NEW S, IsFiniteSet(S), NEW V, NEW base \in V, NEW add \in [S \X V -> V], NEW pick,
         \A s \in SUBSET S : s # {} => pick[s] \in s
  PROVE  \E h \in [SUBSET S -> V] : Folds(h, S, base, add, pick)
<1> DEFINE Sol(h, T) == h \in [SUBSET T -> V] /\ Folds(h, T, base, add, pick)
           G == {T \in SUBSET S : \E h : Sol(h, T)}
<1>1. ASSUME NEW T \in SUBSET S, \A U \in SUBSET T : U # T => U \in G
      PROVE  T \in G
  <2> DEFINE H(U) == CHOOSE h : Sol(h, U)
             c == pick[T]
             h == [s \in SUBSET T |-> IF s = {} THEN base
                                      ELSE add[<<pick[s], H(s \ {pick[s]})[s \ {pick[s]}]>>]]
  <2>1. ASSUME NEW U \in SUBSET T, U # T PROVE Sol(H(U), U)
    BY <1>1, <2>1
  <2>2. ASSUME NEW s \in SUBSET T, s # {}
        PROVE  /\ pick[s] \in s /\ s \ {pick[s]} \in SUBSET T /\ s \ {pick[s]} # T
               /\ H(s \ {pick[s]})[s \ {pick[s]}] \in V
    <3> DEFINE u == s \ {pick[s]}
    <3>1. pick[s] \in s /\ u \in SUBSET T /\ u # T
      BY <2>2
    <3>2. Sol(H(u), u)
      BY <2>1, <3>1
    <3>3. H(u) \in [SUBSET u -> V] /\ u \in SUBSET u
      BY <3>2
    <3> HIDE DEF H
    <3> QED BY <3>1, <3>3
  <2>3. h \in [SUBSET T -> V]
    <3> SUFFICES ASSUME NEW s \in SUBSET T, s # {}
                 PROVE  add[<<pick[s], H(s \ {pick[s]})[s \ {pick[s]}]>>] \in V
      OBVIOUS
    <3> HIDE DEF H
    <3>1. pick[s] \in S
      BY <2>2
    <3> QED BY <2>2, <3>1
  <2>4. ASSUME NEW u \in SUBSET T, u # T
        PROVE  h[u] = H(u)[u]
    <3>1. Sol(H(u), u)
      BY <2>1, <2>4
    <3>2. CASE u = {}
      BY <3>1, <3>2 DEF Folds
    <3>3. CASE u # {}
      <4> DEFINE v == u \ {pick[u]}
      <4>1. v \in SUBSET u /\ v # T /\ v \in SUBSET S /\ u \in SUBSET u
        BY <2>4, <3>3
      <4>2. H(u)[u] = add[<<pick[u], H(u)[v]>>]
        BY <3>1, <3>3, <4>1 DEF Folds
      <4>3. Folds(H(u), v, base, add, pick)
        BY <3>1, <4>1 DEF Folds
      <4>4. Folds(H(v), v, base, add, pick)
        BY <2>1, <4>1
      <4>5. IsFiniteSet(v) /\ \A s \in SUBSET v : s # {} => pick[s] \in s
        BY <4>1, FS_Subset
      <4>6. H(u)[v] = H(v)[v]
        <5> HIDE DEF H, v
        <5> QED BY <4>3, <4>4, <4>5, FoldUnique
      <4> QED BY <3>3, <4>2, <4>6
    <3> QED BY <3>2, <3>3
  <2>5. Folds(h, T, base, add, pick)
    <3>0. h[{}] = base
      BY Zenon
    <3>1. ASSUME NEW s \in SUBSET T, s # {}
          PROVE  h[s] = add[<<pick[s], h[s \ {pick[s]}]>>]
      <4> DEFINE u == s \ {pick[s]}
      <4>1. u \in SUBSET T /\ u # T
        BY <2>2, <3>1
      <4>2. h[u] = H(u)[u]
        <5> HIDE DEF h, u
        <5> QED BY <2>4, <4>1
      <4>3. h[s] = add[<<pick[s], H(u)[u]>>]
        <5> HIDE DEF H
        <5> QED BY <3>1
      <4> HIDE DEF h
      <4> QED BY <4>2, <4>3
    <3> HIDE DEF h
    <3> QED BY <3>0, <3>1 DEF Folds
  <2> QED BY <2>3, <2>5
<1>2. SUBSET S \subseteq G
  <2> HIDE DEF G
  <2> QED BY <1>1, SubsetInduction
<1> QED BY <1>2

(* The greatest of some numbers up to n is one of them.                    *)
LEMMA MaxIn ==
  ASSUME NEW n \in Nat, NEW s \in SUBSET (1 .. n), s # {}
  PROVE  Max(s) \in s
<1> DEFINE D == 1 .. n
           G == {T \in SUBSET D : T # {} => \E x \in T : \A y \in T : x >= y}
<1>0. IsFiniteSet(D)
  BY FS_Interval
<1>1. ASSUME NEW T \in SUBSET D, \A U \in SUBSET T : U # T => U \in G
      PROVE  T \in G
  <2> SUFFICES ASSUME NEW x \in T PROVE \E z \in T : \A y \in T : z >= y
    OBVIOUS
  <2> DEFINE U == T \ {x}
  <2>1. U \in G
    BY <1>1
  <2>2. CASE U = {}
    BY <2>2
  <2>3. CASE U # {}
    <3>1. PICK z \in U : \A y \in U : z >= y
      BY <2>1, <2>3
    <3>2. CASE x >= z
      BY <3>1, <3>2
    <3>3. CASE ~(x >= z)
      BY <3>1, <3>3
    <3> QED BY <3>2, <3>3
  <2> QED BY <2>2, <2>3
<1>2. SUBSET D \subseteq G
  <2> HIDE DEF G, D
  <2> QED BY <1>0, <1>1, SubsetInduction
<1>3. \E x \in s : \A y \in s : x >= y
  BY <1>2
<1> QED BY <1>3 DEF Max

(* FoldLeft takes the last index first, and there always is one.           *)
LEMMA MaxPicks ==
  ASSUME NEW n \in Nat
  PROVE  /\ IsFiniteSet(1 .. n)
         /\ \A s \in SUBSET (1 .. n) : s # {} => Max(s) \in s
<1>1. IsFiniteSet(1 .. n)
  BY FS_Interval
<1> QED BY <1>1, MaxIn


-----------------------------------------------------------------------------
(* What a sequence of statements makes of a shape                          *)

(* What holds of 0 and goes from each number below n to the next.          *)
LEMMA UpTo ==
  ASSUME NEW n \in Nat, NEW G, 0 \in G, \A k \in 0 .. (n - 1) : k \in G => k + 1 \in G
  PROVE  0 .. n \subseteq G
<1> DEFINE S == 1 .. n
           H == {T \in SUBSET S : \A k \in 0 .. n : T = 1 .. k => k \in G}
<1>1. IsFiniteSet(S)
  BY FS_Interval
<1>2. ASSUME NEW T \in SUBSET S, \A U \in SUBSET T : U # T => U \in H
      PROVE  T \in H
  <2> SUFFICES ASSUME NEW k \in 0 .. n, T = 1 .. k, k # 0 PROVE k \in G
    OBVIOUS
  <2>1. 1 .. (k - 1) \in SUBSET T /\ 1 .. (k - 1) # T /\ k - 1 \in 0 .. (n - 1)
    OBVIOUS
  <2>2. 1 .. (k - 1) \in H
    BY <1>2, <2>1
  <2>3. k - 1 \in G
    BY <2>1, <2>2
  <2> QED BY <2>1, <2>3
<1>3. SUBSET S \subseteq H
  <2> HIDE DEF H, S
  <2> QED BY <1>1, <1>2, SubsetInduction
<1>4. \A k \in 0 .. n : 1 .. k \in SUBSET S
  OBVIOUS
<1> QED BY <1>3, <1>4

LEMMA TableIs == ASSUME NEW t PROVE TableOf(t) = {<<t, "table", t>>}
BY DEF TableOf, Things

(* The shapes D goes through, one statement after the other.               *)
Trace(f, D, n, q) ==
  f[0] = D /\ \A k \in 1 .. n : f[k] = After(f[k - 1], q[k])

LEMMA RunsTrace ==
  ASSUME NEW D, NEW on, NEW n \in Nat, NEW q, DOMAIN q = 1 .. n
  PROVE  \E f : Trace(f, D, n, q) /\ Runs(D, on, q).shape = f[n]
<1> DEFINE S == 1 .. n
           X == D \cup UNION {TableOf(q[i].on) \cup q[i].of : i \in S}
           V == [ok : BOOLEAN, shape : SUBSET X]
           base == [ok |-> TRUE, shape |-> D]
           Next1(r, s) == [ok |-> r.ok /\ Executable(r.shape, on, s), shape |-> After(r.shape, s)]
           pick == [s \in SUBSET S |-> Max(s)]
           add == [xv \in S \X V |-> Next1(xv[2], q[xv[1]])]
           Iter(h) == h = [s \in SUBSET S |-> IF s = {} THEN base
                             ELSE Next1(h[s \ {Max(s)}], q[Max(s)])]
           it == CHOOSE h : Iter(h)
<1>1. IsFiniteSet(S) /\ \A s \in SUBSET S : s # {} => Max(s) \in s
  BY MaxPicks
<1>2. Runs(D, on, q) = it[S]
  BY DEF Runs, FoldLeft, MapThenFoldSet
<1>3. ASSUME NEW i \in S, NEW r \in V PROVE Next1(r, q[i]) \in V
  <2>1. After(r.shape, q[i]) \subseteq X
    BY <1>3 DEF After
  <2>2. (r.ok /\ Executable(r.shape, on, q[i])) \in BOOLEAN
    OBVIOUS
  <2> QED BY <2>1, <2>2
<1>4. base \in V
  OBVIOUS
<1>5. add \in [S \X V -> V]
  <2> HIDE DEF V, S, Next1
  <2> QED BY <1>3
<1>6. \A s \in SUBSET S : s # {} => pick[s] \in s
  BY <1>1
<1>7. PICK h \in [SUBSET S -> V] : Folds(h, S, base, add, pick)
  <2> HIDE DEF S, V, add, pick, base
  <2> QED BY <1>1, <1>4, <1>5, <1>6, FoldExists
<1>8. Iter(h)
  <2> SUFFICES ASSUME NEW s \in SUBSET S
               PROVE  h[s] = IF s = {} THEN base ELSE Next1(h[s \ {Max(s)}], q[Max(s)])
    BY <1>7
  <2>1. CASE s = {}
    BY <1>7, <2>1 DEF Folds
  <2>2. CASE s # {}
    <3> DEFINE x == Max(s)
               u == h[s \ {x}]
    <3>1. h[s] = add[<<x, u>>]
      BY <1>7, <2>2 DEF Folds
    <3>2. u \in V /\ x \in S
      BY <1>1, <1>7, <2>2
    <3> HIDE DEF x, u, Next1, V
    <3>3. add[<<x, u>>] = Next1(u, q[x])
      BY <3>2
    <3> QED BY <2>2, <3>1, <3>3 DEF x, u
  <2> QED BY <2>1, <2>2
<1>9. Iter(it)
  BY <1>8
<1> HIDE DEF it
<1> DEFINE f == [k \in 0 .. n |-> it[1 .. k].shape]
<1>10. f[0] = D
  <2>1. 1 .. 0 = {} /\ {} \in SUBSET S
    OBVIOUS
  <2> QED BY <1>9, <2>1
<1>11. ASSUME NEW k \in 1 .. n PROVE f[k] = After(f[k - 1], q[k])
  <2>1. (1 .. k) \in SUBSET S /\ 1 .. k # {} /\ (1 .. k) \ {k} = 1 .. (k - 1)
    OBVIOUS
  <2>2. Max(1 .. k) = k
    <3>1. Max(1 .. k) = CHOOSE x \in 1 .. k : \A y \in 1 .. k : x >= y
      BY DEF Max
    <3>2. k \in 1 .. k /\ \A y \in 1 .. k : k >= y
      OBVIOUS
    <3>3. \A x \in 1 .. k : (\A y \in 1 .. k : x >= y) => x = k
      OBVIOUS
    <3> QED BY <3>1, <3>2, <3>3
  <2>3. it[1 .. k] = Next1(it[1 .. (k - 1)], q[k])
    BY <1>9, <2>1, <2>2
  <2>4. it[1 .. k].shape = After(it[1 .. (k - 1)].shape, q[k])
    BY <2>3
  <2> QED BY <2>4
<1> QED
  <2>1. Trace(f, D, n, q)
    BY <1>10, <1>11 DEF Trace
  <2>2. f[n] = it[S].shape
    OBVIOUS
  <2> QED BY <1>2, <2>1, <2>2

SV == TableOf("schema_version")

(* What D has of the table t is in B, but for kinds in M.                  *)
Bounded(D, t, B, M) == \A x \in D : x[1] = t => x \in B \/ x[2] \in M

(* The same statement of a shape and of one that lacks some of it.         *)
LEMMA AfterFollows ==
  ASSUME NEW D, NEW F, NEW s, s.on # "schema_version",
         D \subseteq F \cup SV, \A x \in F \ D : x[2] # "table"
  PROVE  /\ After(D, s) \subseteq After(F, s) \cup SV
         /\ After(F, s) \ After(D, s) \subseteq F \ D
<1> DEFINE x == <<s.on, "table", s.on>>
<1>1. TableOf(s.on) = {x} /\ SV = {<<"schema_version", "table", "schema_version">>}
  BY TableIs DEF SV
<1>2. x[2] = "table" /\ x[1] = s.on
  OBVIOUS
<1>3. x \in D <=> x \in F
  BY <1>1, <1>2
<1>4. CASE s.op = "create" /\ x \in D
  BY <1>1, <1>3, <1>4 DEF After
<1>5. CASE ~(s.op = "create" /\ x \in D)
  <2> DEFINE Rest(X) == IF s.op = "rebuild" THEN {y \in X : y[1] # s.on} ELSE X
  <2>1. /\ After(D, s) = Rest(D) \cup TableOf(s.on) \cup s.of
        /\ After(F, s) = Rest(F) \cup TableOf(s.on) \cup s.of
    BY <1>1, <1>3, <1>5 DEF After
  <2>2. Rest(D) \subseteq Rest(F) \cup SV /\ Rest(F) \ Rest(D) \subseteq F \ D
    OBVIOUS
  <2> HIDE DEF Rest
  <2> QED BY <2>1, <2>2
<1> QED BY <1>4, <1>5

(* D lacks some of F, but no table of it; and A lacks no more of B.        *)
Lacks(D, F) == D \subseteq F \cup SV /\ \A x \in F \ D : x[2] # "table"
Follows(D, F, A, B) == A \subseteq B \cup SV /\ B \ A \subseteq F \ D

LEMMA RunsFollows ==
  ASSUME NEW D, NEW F, NEW on, NEW off, NEW n \in Nat, NEW q, DOMAIN q = 1 .. n,
         \A k \in 1 .. n : q[k].on # "schema_version", Lacks(D, F)
  PROVE  Follows(D, F, Runs(D, on, q).shape, Runs(F, off, q).shape)
<1>0. D \subseteq F \cup SV /\ \A x \in F \ D : x[2] # "table"
  BY DEF Lacks
<1>1. PICK f : Trace(f, D, n, q) /\ Runs(D, on, q).shape = f[n]
  BY RunsTrace
<1>2. PICK g : Trace(g, F, n, q) /\ Runs(F, off, q).shape = g[n]
  BY RunsTrace
<1> DEFINE G == {k \in 0 .. n : f[k] \subseteq g[k] \cup SV /\ g[k] \ f[k] \subseteq F \ D}
<1>3. 0 \in G
  BY <1>0, <1>1, <1>2 DEF Trace
<1>4. ASSUME NEW k \in 0 .. (n - 1), k \in G PROVE k + 1 \in G
  <2>1. k + 1 \in 1 .. n /\ (k + 1) - 1 = k
    OBVIOUS
  <2>2. f[k + 1] = After(f[k], q[k + 1]) /\ g[k + 1] = After(g[k], q[k + 1])
    BY <1>1, <1>2, <2>1 DEF Trace
  <2>3. \A x \in g[k] \ f[k] : x[2] # "table"
    BY <1>0, <1>4
  <2>4. f[k + 1] \subseteq g[k + 1] \cup SV /\ g[k + 1] \ f[k + 1] \subseteq g[k] \ f[k]
    BY <1>4, <2>1, <2>2, <2>3, AfterFollows
  <2> QED BY <1>4, <2>1, <2>4
<1>5. n \in G
  <2>1. 0 .. n \subseteq G
    <3> HIDE DEF G
    <3> QED BY <1>3, <1>4, UpTo
  <2> QED BY <2>1
<1> QED BY <1>1, <1>2, <1>5 DEF Follows

(* A bound on what there is of a table.                                    *)
LEMMA RunsBounded ==
  ASSUME NEW D, NEW on, NEW n \in Nat, NEW q, DOMAIN q = 1 .. n,
         NEW t, NEW B, NEW M, Bounded(D, t, B, M),
         \A k \in 1 .. n : /\ \A x \in q[k].of : x[1] = q[k].on
                           /\ q[k].on = t => TableOf(t) \subseteq B /\ Bounded(q[k].of, t, B, M)
  PROVE  Bounded(Runs(D, on, q).shape, t, B, M)
<1>1. PICK f : Trace(f, D, n, q) /\ Runs(D, on, q).shape = f[n]
  BY RunsTrace
<1> DEFINE G == {k \in 0 .. n : Bounded(f[k], t, B, M)}
<1>2. 0 \in G
  BY <1>1 DEF Trace
<1>3. ASSUME NEW k \in 0 .. (n - 1), k \in G PROVE k + 1 \in G
  <2>1. k + 1 \in 1 .. n /\ (k + 1) - 1 = k
    OBVIOUS
  <2>2. f[k + 1] = After(f[k], q[k + 1])
    BY <1>1, <2>1 DEF Trace
  <2> DEFINE s == q[k + 1]
  <2>3. /\ \A x \in s.of : x[1] = s.on
        /\ s.on = t => TableOf(t) \subseteq B /\ Bounded(s.of, t, B, M)
    BY <2>1
  <2> HIDE DEF s
  <2>4. \A x \in TableOf(s.on) : x[1] = s.on
    BY TableIs
  <2>5. Bounded(f[k], t, B, M)
    BY <1>3
  <2>6. f[k + 1] \subseteq f[k] \cup TableOf(s.on) \cup s.of
    BY <2>2 DEF After, s
  <2>7. Bounded(f[k + 1], t, B, M)
    BY <2>3, <2>4, <2>5, <2>6 DEF Bounded
  <2> QED BY <2>1, <2>7
<1>4. n \in G
  <2>1. 0 .. n \subseteq G
    <3> HIDE DEF G
    <3> QED BY <1>2, <1>3, UpTo
  <2> QED BY <2>1
<1> QED BY <1>1, <1>4

(* A thing is kept unless its table is rebuilt without it.                 *)
Survives(q, n, x) ==
  \A k \in 1 .. n : q[k].op = "rebuild" /\ q[k].on = x[1] => x \in TableOf(x[1]) \cup q[k].of

LEMMA RunsKeeps ==
  ASSUME NEW D, NEW on, NEW n \in Nat, NEW q, DOMAIN q = 1 .. n, NEW x, Survives(q, n, x),
         \/ x \in D
         \/ \E k \in 1 .. n : /\ x \in TableOf(q[k].on) \cup q[k].of
                              /\ q[k].op = "create" => k = 1 /\ <<q[k].on, "table", q[k].on>> \notin D
  PROVE  x \in Runs(D, on, q).shape
<1>1. PICK f : Trace(f, D, n, q) /\ Runs(D, on, q).shape = f[n]
  BY RunsTrace
<1>2. ASSUME NEW k \in 1 .. n, x \in f[k - 1] PROVE x \in f[k]
  <2>1. f[k] = After(f[k - 1], q[k])
    BY <1>1 DEF Trace
  <2>2. q[k].op = "rebuild" /\ q[k].on = x[1] => x \in TableOf(q[k].on) \cup q[k].of
    BY DEF Survives
  <2> QED BY <1>2, <2>1, <2>2 DEF After
<1>3. ASSUME NEW m \in 0 .. n, x \in f[m] PROVE x \in f[n]
  <2> DEFINE G == {k \in 0 .. n : k >= m => x \in f[k]}
  <2>1. 0 \in G
    BY <1>3
  <2>2. ASSUME NEW k \in 0 .. (n - 1), k \in G PROVE k + 1 \in G
    <3>1. k + 1 \in 1 .. n /\ (k + 1) - 1 = k /\ k + 1 \in 0 .. n
      OBVIOUS
    <3>2. CASE k >= m
      BY <1>2, <2>2, <3>1, <3>2
    <3>3. CASE ~(k >= m)
      BY <1>3, <3>1, <3>3
    <3> QED BY <3>2, <3>3
  <2>3. n \in G
    <3>1. 0 .. n \subseteq G
      <4> HIDE DEF G
      <4> QED BY <2>1, <2>2, UpTo
    <3> QED BY <3>1
  <2> QED BY <2>3
<1>4. CASE x \in D
  <2>1. f[0] = D /\ 0 \in 0 .. n
    BY <1>1 DEF Trace
  <2> QED BY <1>1, <1>3, <1>4, <2>1
<1>5. ASSUME NEW k \in 1 .. n, x \in TableOf(q[k].on) \cup q[k].of,
             q[k].op = "create" => k = 1 /\ <<q[k].on, "table", q[k].on>> \notin D
      PROVE  x \in f[n]
  <2>1. f[k] = After(f[k - 1], q[k]) /\ f[0] = D
    BY <1>1 DEF Trace
  <2>2. q[k].op = "create" => ~(TableOf(q[k].on) \subseteq f[k - 1])
    BY <1>5, <2>1, TableIs
  <2>3. x \in f[k]
    BY <1>5, <2>1, <2>2 DEF After
  <2> QED BY <1>3, <2>3
<1> QED BY <1>1, <1>4, <1>5

-----------------------------------------------------------------------------
(* The statements of the migrations                                        *)

LEMMA ThingsIn ==
  ASSUME NEW t, NEW S, NEW U, S \subseteq U
  PROVE  Things(t, S) \subseteq Things(t, U)
BY DEF Things

LEMMA ThingsOf == ASSUME NEW t, NEW S PROVE \A x \in Things(t, S) : x[1] = t
BY DEF Things

(* What a statement is.                                                    *)
Made(s, op, t, S) == s.op = op /\ s.on = t /\ s.of = Things(t, S) /\ \A x \in s.of : x[1] = t

LEMMA StatementsMade ==
  ASSUME NEW t, NEW S
  PROVE  /\ Made(Create(t, S), "create", t, S)
         /\ Made(CreateOnce(t, S), "create", t, S)
         /\ Made(Ensure(t, S), "extend", t, S)
         /\ Made(AddOnce(t, S), "extend", t, S)
         /\ \A F : Made(Rebuild(t, S, F), "rebuild", t, S \cup F)
BY ThingsOf DEF Made, Create, CreateOnce, Ensure, AddOnce, Rebuild

LEMMA ShortForms ==
  ASSUME NEW t
  PROVE  /\ Made(Table(t), "create", t, {})
         /\ \A c : Made(Add(t, c), "extend", t, Columns({c}))
         /\ \A S : Made(Index(t, S), "extend", t, Of("index", S))
BY StatementsMade DEF Table, Add, Index

(* What there is of the tables that are rebuilt: of build, by version; of  *)
(* the others, what lasts, until they are rebuilt.                         *)
Passing == {"unique", "index", "trigger"}

NewBuild ==
  TableOf("build")
    \cup Things("build", BuildColumns \cup Columns({"inventory_mode", "is_active"})
                           \cup {<<"accepts", "Cancelled">>}
                           \cup Of("index", {"idx_build_workspace", "idx_build_workspace_active"}))
LaterBuild ==
  NewBuild
    \cup Things("build", Columns({"manufacturer_id"}) \cup Of("index", {"idx_build_manufacturer"})
                           \cup Of("trigger", {"trg_build_default_manufacturer"}))
BuildAt(v) == IF v <= 5 THEN {} ELSE IF v <= 16 THEN NewBuild ELSE LaterBuild
RecordThings ==
  TableOf("inventory_record")
    \cup Things("inventory_record", InventoryRecordColumns \cup Columns({"manufacturer_id"}))
AllocationThings == TableOf("build_allocation") \cup Things("build_allocation", AllocationColumns)

(* A statement of the migration from version v respects these bounds, and  *)
(* what lasts of a table that it rebuilds.                                 *)
Fine(v, s) ==
     /\ \A x \in s.of : x[1] = s.on
     /\ s.on # "schema_version"
     /\ v < 26 /\ s.on = "build" =>
          TableOf("build") \subseteq BuildAt(v + 1) /\ Bounded(s.of, "build", BuildAt(v + 1), {})
     /\ v < 15 /\ s.on = "inventory_record" => Bounded(s.of, s.on, RecordThings, Passing)
     /\ v < 21 /\ s.on = "build_allocation" => Bounded(s.of, s.on, AllocationThings, Passing)
     /\ s.op = "rebuild" =>
          \/ v = 15 /\ s.on = "inventory_record" /\ RecordThings \subseteq TableOf(s.on) \cup s.of
          \/ v = 21 /\ s.on = "build_allocation" /\ AllocationThings \subseteq TableOf(s.on) \cup s.of
          \/ v = 26 /\ s.on = "build" /\ {x \in LaterBuild : x[2] \notin Passing} \subseteq TableOf(s.on) \cup s.of

(* A statement on any other table that is not a rebuild.                   *)
Plain(s) ==
  /\ \A x \in s.of : x[1] = s.on
  /\ s.on \notin {"schema_version", "build", "inventory_record", "build_allocation"}
  /\ s.op # "rebuild"

LEMMA PlainIsFine == ASSUME NEW v, NEW s, Plain(s) PROVE Fine(v, s)
BY DEF Plain, Fine

LEMMA PlainForms ==
  ASSUME NEW t, t \notin {"schema_version", "build", "inventory_record", "build_allocation"}
  PROVE  /\ Plain(Table(t))
         /\ \A c : Plain(Add(t, c))
         /\ \A S : /\ Plain(Create(t, S)) /\ Plain(CreateOnce(t, S)) /\ Plain(Ensure(t, S))
                   /\ Plain(AddOnce(t, S)) /\ Plain(Index(t, S))
<1>1. ASSUME NEW s, NEW op, op # "rebuild", NEW S, Made(s, op, t, S) PROVE Plain(s)
  BY <1>1 DEF Made, Plain
<1>2. "create" # "rebuild" /\ "extend" # "rebuild"
  OBVIOUS
<1> QED BY <1>1, <1>2, StatementsMade, ShortForms, Zenon

(* Sequences of such statements.                                           *)
PlainList(a) == a \in Seq(Range(a)) /\ \A s \in Range(a) : Plain(s)
FineList(v, a) == a \in Seq(Range(a)) /\ \A s \in Range(a) : Fine(v, s)

LEMMA PlainListIsFine == ASSUME NEW v, NEW a, PlainList(a) PROVE FineList(v, a)
BY PlainIsFine DEF PlainList, FineList

LEMMA RangeOfJoined ==
  ASSUME NEW a, NEW b, a \in Seq(Range(a)), b \in Seq(Range(b))
  PROVE  a \o b \in Seq(Range(a \o b)) /\ Range(a \o b) = Range(a) \cup Range(b)
<1> DEFINE X == Range(a)
           Y == Range(b)
           c == a \o b
<1>0. /\ \A x : x \in X <=> \E i \in DOMAIN a : x = a[i]
      /\ \A x : x \in Y <=> \E i \in DOMAIN b : x = b[i]
  BY DEF Range
<1>1. a \in Seq(X) /\ b \in Seq(Y)
  OBVIOUS
<1> HIDE DEF X, Y
<1>2. /\ DOMAIN a = 1 .. Len(a) /\ DOMAIN b = 1 .. Len(b) /\ Len(a) \in Nat /\ Len(b) \in Nat
  BY <1>1
<1>3. /\ DOMAIN c = 1 .. Len(a) + Len(b) /\ Len(c) = Len(a) + Len(b)
      /\ \A i \in 1 .. Len(a) : c[i] = a[i]
      /\ \A i \in 1 .. Len(b) : c[Len(a) + i] = b[i]
      /\ \A i \in DOMAIN c : ~(i <= Len(a)) => c[i] = b[i - Len(a)]
      /\ c \in Seq(X \cup Y)
  <2> DEFINE S == X \cup Y
  <2>1. a \in [1 .. Len(a) -> S] /\ b \in [1 .. Len(b) -> S]
    BY <1>0, <1>1, <1>2
  <2>2. a \in Seq(S) /\ b \in Seq(S)
    BY <1>2, <2>1
  <2> HIDE DEF S
  <2>3. c \in Seq(S) /\ Len(c) = Len(a) + Len(b)
    BY <2>2
  <2>4. \A i \in 1 .. (Len(a) + Len(b)) : c[i] = IF i <= Len(a) THEN a[i] ELSE b[i - Len(a)]
    BY <2>2
  <2> HIDE DEF c
  <2>5. DOMAIN c = 1 .. Len(a) + Len(b)
    BY <2>3
  <2>6. /\ \A i \in 1 .. Len(a) : c[i] = a[i]
        /\ \A i \in 1 .. Len(b) : c[Len(a) + i] = b[i]
    <3>1. \A i \in 1 .. Len(a) : i \in 1 .. (Len(a) + Len(b)) /\ i <= Len(a)
      BY <1>2
    <3>2. \A i \in 1 .. Len(b) : /\ Len(a) + i \in 1 .. (Len(a) + Len(b)) /\ ~(Len(a) + i <= Len(a))
                                 /\ (Len(a) + i) - Len(a) = i
      BY <1>2
    <3> QED BY <2>4, <3>1, <3>2
  <2>7. \A i \in DOMAIN c : ~(i <= Len(a)) => c[i] = b[i - Len(a)]
    BY <2>4, <2>5
  <2> QED BY <2>3, <2>5, <2>6, <2>7 DEF S
<1> HIDE DEF c
<1>4. \A i \in DOMAIN c : c[i] \in X \cup Y
  <2> SUFFICES ASSUME NEW i \in DOMAIN c PROVE c[i] \in X \cup Y
    OBVIOUS
  <2>1. CASE i <= Len(a)
    BY <1>0, <1>2, <1>3, <2>1
  <2>2. CASE ~(i <= Len(a))
    <3>1. i - Len(a) \in 1 .. Len(b)
      BY <1>2, <1>3, <2>2
    <3> QED BY <1>0, <1>2, <1>3, <2>2, <3>1
  <2> QED BY <2>1, <2>2
<1>5. ASSUME NEW x \in X PROVE \E i \in DOMAIN c : c[i] = x
  <2>1. PICK i \in DOMAIN a : x = a[i]
    BY <1>0
  <2> QED BY <1>2, <1>3, <2>1
<1>6. ASSUME NEW x \in Y PROVE \E i \in DOMAIN c : c[i] = x
  <2>1. PICK i \in DOMAIN b : x = b[i]
    BY <1>0
  <2>2. Len(a) + i \in DOMAIN c
    BY <1>2, <1>3
  <2> QED BY <1>2, <1>3, <2>1, <2>2
<1>7. Range(c) = X \cup Y
  BY <1>4, <1>5, <1>6 DEF Range
<1>8. c \in [1 .. Len(c) -> Range(c)] /\ Len(c) \in Nat
  <2>1. c = [i \in 1 .. Len(c) |-> c[i]] /\ Len(c) \in Nat /\ DOMAIN c = 1 .. Len(c)
    BY <1>3
  <2> QED BY <2>1 DEF Range
<1>9. c \in Seq(Range(c))
  BY <1>8
<1> QED BY <1>7, <1>9 DEF X, Y, c

LEMMA ListsJoined ==
  ASSUME NEW a, NEW b
  PROVE  /\ PlainList(a) /\ PlainList(b) => PlainList(a \o b)
         /\ \A v : FineList(v, a) /\ FineList(v, b) => FineList(v, a \o b)
BY RangeOfJoined DEF PlainList, FineList

(* A tuple is a sequence of what it lists.                                 *)
IsList(a, S) == a \in Seq(Range(a)) /\ Range(a) = S

LEMMA Tuples ==
  /\ \A s1 : IsList(<<s1>>, {s1})
  /\ \A s1, s2 : IsList(<<s1, s2>>, {s1, s2})
  /\ \A s1, s2, s3 : IsList(<<s1, s2, s3>>, {s1, s2, s3})
  /\ \A s1, s2, s3, s4 : IsList(<<s1, s2, s3, s4>>, {s1, s2, s3, s4})
  /\ \A s1, s2, s3, s4, s5 : IsList(<<s1, s2, s3, s4, s5>>, {s1, s2, s3, s4, s5})
  /\ \A s1, s2, s3, s4, s5, s6 : IsList(<<s1, s2, s3, s4, s5, s6>>, {s1, s2, s3, s4, s5, s6})
  /\ \A s1, s2, s3, s4, s5, s6, s7, s8 : IsList(<<s1, s2, s3, s4, s5, s6, s7, s8>>, {s1, s2, s3, s4, s5, s6, s7, s8})
<1>1. ASSUME NEW s1 PROVE IsList(<<s1>>, {s1})
  <2>1. Range(<<s1>>) = {s1}
    BY DEF Range
  <2> QED BY <2>1 DEF IsList
<1>2. ASSUME NEW s1, NEW s2 PROVE IsList(<<s1, s2>>, {s1, s2})
  <2>1. Range(<<s1, s2>>) = {s1, s2}
    BY DEF Range
  <2> QED BY <2>1 DEF IsList
<1>3. ASSUME NEW s1, NEW s2, NEW s3 PROVE IsList(<<s1, s2, s3>>, {s1, s2, s3})
  <2>1. Range(<<s1, s2, s3>>) = {s1, s2, s3}
    BY DEF Range
  <2> QED BY <2>1 DEF IsList
<1>4. ASSUME NEW s1, NEW s2, NEW s3, NEW s4 PROVE IsList(<<s1, s2, s3, s4>>, {s1, s2, s3, s4})
  <2>1. Range(<<s1, s2, s3, s4>>) = {s1, s2, s3, s4}
    BY DEF Range
  <2> QED BY <2>1 DEF IsList
<1>5. ASSUME NEW s1, NEW s2, NEW s3, NEW s4, NEW s5 PROVE IsList(<<s1, s2, s3, s4, s5>>, {s1, s2, s3, s4, s5})
  <2>1. Range(<<s1, s2, s3, s4, s5>>) = {s1, s2, s3, s4, s5}
    BY DEF Range
  <2> QED BY <2>1 DEF IsList
<1>6. ASSUME NEW s1, NEW s2, NEW s3, NEW s4, NEW s5, NEW s6 PROVE IsList(<<s1, s2, s3, s4, s5, s6>>, {s1, s2, s3, s4, s5, s6})
  <2>1. Range(<<s1, s2, s3, s4, s5, s6>>) = {s1, s2, s3, s4, s5, s6}
    BY DEF Range
  <2> QED BY <2>1 DEF IsList
<1>7. ASSUME NEW s1, NEW s2, NEW s3, NEW s4, NEW s5, NEW s6, NEW s7, NEW s8 PROVE IsList(<<s1, s2, s3, s4, s5, s6, s7, s8>>, {s1, s2, s3, s4, s5, s6, s7, s8})
  <2>1. Range(<<s1, s2, s3, s4, s5, s6, s7, s8>>) = {s1, s2, s3, s4, s5, s6, s7, s8}
    BY DEF Range
  <2> QED BY <2>1 DEF IsList
<1> QED BY <1>1, <1>2, <1>3, <1>4, <1>5, <1>6, <1>7

LEMMA PlainTuples ==
  ASSUME NEW s1, NEW s2, NEW s3, NEW s4, NEW s5, NEW s6, NEW s7, NEW s8, Plain(s1)
  PROVE  /\ PlainList(<<s1>>)
         /\ Plain(s2) => PlainList(<<s1, s2>>)
         /\ Plain(s2) /\ Plain(s3) => PlainList(<<s1, s2, s3>>)
         /\ Plain(s2) /\ Plain(s3) /\ Plain(s4) => PlainList(<<s1, s2, s3, s4>>)
         /\ Plain(s2) /\ Plain(s3) /\ Plain(s4) /\ Plain(s5) /\ Plain(s6) =>
              PlainList(<<s1, s2, s3, s4, s5, s6>>)
         /\ Plain(s2) /\ Plain(s3) /\ Plain(s4) /\ Plain(s5) /\ Plain(s6) /\ Plain(s7) /\ Plain(s8) =>
              PlainList(<<s1, s2, s3, s4, s5, s6, s7, s8>>)
<1>1. PlainList(<<s1>>)
  <2>1. IsList(<<s1>>, {s1})
    BY Tuples
  <2>2. \A s \in {s1} : Plain(s)
    OBVIOUS
  <2> QED BY <2>1, <2>2 DEF PlainList, IsList
<1>2. ASSUME Plain(s2) PROVE PlainList(<<s1, s2>>)
  <2>1. IsList(<<s1, s2>>, {s1, s2})
    BY Tuples
  <2>2. \A s \in {s1, s2} : Plain(s)
    BY <1>2
  <2> QED BY <2>1, <2>2 DEF PlainList, IsList
<1>3. ASSUME Plain(s2), Plain(s3) PROVE PlainList(<<s1, s2, s3>>)
  <2>1. IsList(<<s1, s2, s3>>, {s1, s2, s3})
    BY Tuples
  <2>2. \A s \in {s1, s2, s3} : Plain(s)
    BY <1>3
  <2> QED BY <2>1, <2>2 DEF PlainList, IsList
<1>4. ASSUME Plain(s2), Plain(s3), Plain(s4) PROVE PlainList(<<s1, s2, s3, s4>>)
  <2>1. IsList(<<s1, s2, s3, s4>>, {s1, s2, s3, s4})
    BY Tuples
  <2>2. \A s \in {s1, s2, s3, s4} : Plain(s)
    BY <1>4
  <2> QED BY <2>1, <2>2 DEF PlainList, IsList
<1>5. ASSUME Plain(s2), Plain(s3), Plain(s4), Plain(s5), Plain(s6) PROVE PlainList(<<s1, s2, s3, s4, s5, s6>>)
  <2>1. IsList(<<s1, s2, s3, s4, s5, s6>>, {s1, s2, s3, s4, s5, s6})
    BY Tuples
  <2>2. \A s \in {s1, s2, s3, s4, s5, s6} : Plain(s)
    BY <1>5
  <2> QED BY <2>1, <2>2 DEF PlainList, IsList
<1>6. ASSUME Plain(s2), Plain(s3), Plain(s4), Plain(s5), Plain(s6), Plain(s7), Plain(s8) PROVE PlainList(<<s1, s2, s3, s4, s5, s6, s7, s8>>)
  <2>1. IsList(<<s1, s2, s3, s4, s5, s6, s7, s8>>, {s1, s2, s3, s4, s5, s6, s7, s8})
    BY Tuples
  <2>2. \A s \in {s1, s2, s3, s4, s5, s6, s7, s8} : Plain(s)
    BY <1>6
  <2> QED BY <2>1, <2>2 DEF PlainList, IsList
<1> QED BY <1>1, <1>2, <1>3, <1>4, <1>5, <1>6

(* Most lists of statements are about tables that are never rebuilt.       *)
LEMMA PlainLists ==
  /\ PlainList(createWorkspaceTable)
  /\ PlainList(createColorTable)
  /\ PlainList(createPartCategoryTable)
  /\ PlainList(createStorageLocationTypeTable)
  /\ PlainList(createStorageLocationTable)
  /\ PlainList(seedStorageLocationTypes)
  /\ PlainList(createPartTable)
  /\ PlainList(migrateVersion3ToVersion4)
  /\ PlainList(createInventoryMovementTable)
  /\ PlainList(createInventoryMovementIndexes)
  /\ PlainList(createBuildRequirementTable)
  /\ PlainList(migrateVersion7ToVersion8)
  /\ PlainList(createSetCatalogTable)
  /\ PlainList(createExternalColorMappingTable)
  /\ PlainList(createExternalPartMappingTable)
  /\ PlainList(createPartRelationshipTable)
  /\ PlainList(createPartAliasTable)
  /\ PlainList(createExternalPartIdentifierTable)
  /\ PlainList(createManufacturerTable)
  /\ PlainList(seedManufacturers)
  /\ PlainList(migrateVersion17ToVersion18)
  /\ PlainList(migrateVersion18ToVersion19)
  /\ PlainList(migrateVersion19ToVersion20)
  /\ PlainList(migrateVersion20ToVersion21)
  /\ PlainList(createMinifigCatalogTables)
  /\ PlainList(createThemeCatalogTables)
  /\ PlainList(createMinifigCatalogPartTable)
  /\ PlainList(createSetCatalogPartTable)
  /\ PlainList(migrateVersion28ToVersion29)
  /\ PlainList(migrateVersion30ToVersion31)
  /\ PlainList(migrateVersion31ToVersion32)
  /\ PlainList(createSetInventoryRevisionTables)
  /\ PlainList(createPartElementIdentifierTable)
  /\ PlainList(migrateVersion34ToVersion35)
<1>1. PlainList(createWorkspaceTable)
  <2>1. Plain(Table("workspace"))
    BY PlainForms
  <2> QED BY <2>1, PlainTuples, Zenon DEF createWorkspaceTable
<1>2. PlainList(createColorTable)
  <2>1. Plain(Table("color"))
    BY PlainForms
  <2> QED BY <2>1, PlainTuples, Zenon DEF createColorTable
<1>3. PlainList(createPartCategoryTable)
  <2>1. Plain(Table("part_category"))
    BY PlainForms
  <2> QED BY <2>1, PlainTuples, Zenon DEF createPartCategoryTable
<1>4. PlainList(createStorageLocationTypeTable)
  <2>1. Plain(Table("storage_location_type"))
    BY PlainForms
  <2> QED BY <2>1, PlainTuples, Zenon DEF createStorageLocationTypeTable
<1>5. PlainList(createStorageLocationTable)
  <2>1. Plain(Table("storage_location"))
    BY PlainForms
  <2> QED BY <2>1, PlainTuples, Zenon DEF createStorageLocationTable
<1>6. PlainList(seedStorageLocationTypes)
  <2>1. Plain(Ensure("storage_location_type", Of("row", {"Area", "Bag", "Box"})))
    BY PlainForms
  <2> QED BY <2>1, PlainTuples, Zenon DEF seedStorageLocationTypes
<1>7. PlainList(createPartTable)
  <2>1. Plain(Table("part"))
    BY PlainForms
  <2> QED BY <2>1, PlainTuples, Zenon DEF createPartTable
<1>8. PlainList(migrateVersion3ToVersion4)
  <2>1. Plain(Add("part", "material"))
    BY PlainForms
  <2> QED BY <2>1, PlainTuples, Zenon DEF migrateVersion3ToVersion4
<1>9. PlainList(createInventoryMovementTable)
  <2>1. Plain(Table("inventory_movement"))
    BY PlainForms
  <2> QED BY <2>1, PlainTuples, Zenon DEF createInventoryMovementTable
<1>10. PlainList(createInventoryMovementIndexes)
  <2>1. Plain(Index("inventory_movement", {"idx_inventory_movement_workspace", "idx_inventory_movement_part", "idx_inventory_movement_record", "idx_inventory_movement_created"}))
    BY PlainForms
  <2> QED BY <2>1, PlainTuples, Zenon DEF createInventoryMovementIndexes
<1>11. PlainList(createBuildRequirementTable)
  <2>1. Plain(Table("build_requirement"))
    BY PlainForms
  <2> QED BY <2>1, PlainTuples, Zenon DEF createBuildRequirementTable
<1>12. PlainList(migrateVersion7ToVersion8)
  <2>1. Plain(Add("build_requirement", "quantity_pulled"))
    BY PlainForms
  <2> QED BY <2>1, PlainTuples, Zenon DEF migrateVersion7ToVersion8
<1>13. PlainList(createSetCatalogTable)
  <2>1. Plain(Table("set_catalog"))
    BY PlainForms
  <2>2. Plain(Index("set_catalog", {"idx_set_catalog_number", "idx_set_catalog_year", "idx_set_catalog_theme"}))
    BY PlainForms
  <2> QED BY <2>1, <2>2, PlainTuples, Zenon DEF createSetCatalogTable
<1>14. PlainList(createExternalColorMappingTable)
  <2>1. Plain(Table("external_color_mapping"))
    BY PlainForms
  <2>2. Plain(Index("external_color_mapping", {"idx_external_color_mapping_provider_status"}))
    BY PlainForms
  <2> QED BY <2>1, <2>2, PlainTuples, Zenon DEF createExternalColorMappingTable
<1>15. PlainList(createExternalPartMappingTable)
  <2>1. Plain(Table("external_part_mapping"))
    BY PlainForms
  <2>2. Plain(Index("external_part_mapping", {"idx_external_part_mapping_provider_status"}))
    BY PlainForms
  <2> QED BY <2>1, <2>2, PlainTuples, Zenon DEF createExternalPartMappingTable
<1>16. PlainList(createPartRelationshipTable)
  <2>1. Plain(Table("part_relationship"))
    BY PlainForms
  <2>2. Plain(Index("part_relationship", {"idx_part_relationship_parent", "idx_part_relationship_child", "idx_part_relationship_source_type"}))
    BY PlainForms
  <2> QED BY <2>1, <2>2, PlainTuples, Zenon DEF createPartRelationshipTable
<1>17. PlainList(createPartAliasTable)
  <2>1. Plain(Table("part_alias"))
    BY PlainForms
  <2>2. Plain(Index("part_alias", {"idx_part_alias_part", "idx_part_alias_source_type"}))
    BY PlainForms
  <2> QED BY <2>1, <2>2, PlainTuples, Zenon DEF createPartAliasTable
<1>18. PlainList(createExternalPartIdentifierTable)
  <2>1. Plain(Table("external_part_identifier"))
    BY PlainForms
  <2>2. Plain(Index("external_part_identifier", {"idx_external_part_identifier_lookup"}))
    BY PlainForms
  <2> QED BY <2>1, <2>2, PlainTuples, Zenon DEF createExternalPartIdentifierTable
<1>19. PlainList(createManufacturerTable)
  <2>1. Plain(Create("manufacturer", Columns({"origin"})))
    BY PlainForms
  <2>2. Plain(Index("manufacturer", {"idx_manufacturer_active_name"}))
    BY PlainForms
  <2> QED BY <2>1, <2>2, PlainTuples, Zenon DEF createManufacturerTable
<1>20. PlainList(seedManufacturers)
  <2>1. Plain(Ensure("manufacturer", Of("row", {"LEGO", "NEXUS", "MANNIDOO"})))
    BY PlainForms
  <2> QED BY <2>1, PlainTuples, Zenon DEF seedManufacturers
<1>21. PlainList(migrateVersion17ToVersion18)
  <2>1. Plain(Table("build_part_provenance"))
    BY PlainForms
  <2>2. Plain(Index("build_part_provenance", {"idx_build_part_provenance_build"}))
    BY PlainForms
  <2> QED BY <2>1, <2>2, PlainTuples, Zenon DEF migrateVersion17ToVersion18
<1>22. PlainList(migrateVersion18ToVersion19)
  <2>1. Plain(Add("build_requirement", "quantity_released"))
    BY PlainForms
  <2> QED BY <2>1, PlainTuples, Zenon DEF migrateVersion18ToVersion19
<1>23. PlainList(migrateVersion19ToVersion20)
  <2>1. Plain(Table("external_part_identifier_lookup"))
    BY PlainForms
  <2> QED BY <2>1, PlainTuples, Zenon DEF migrateVersion19ToVersion20
<1>24. PlainList(migrateVersion20ToVersion21)
  <2>1. Plain(Ensure("storage_location_type", Of("row", {"Bag"})))
    BY PlainForms
  <2> QED BY <2>1, PlainTuples, Zenon DEF migrateVersion20ToVersion21
<1>25. PlainList(createMinifigCatalogTables)
  <2>1. Plain(Table("minifig_catalog"))
    BY PlainForms
  <2>2. Plain(Table("minifig_external_identifier"))
    BY PlainForms
  <2>3. Plain(Index("minifig_catalog", {"idx_minifig_catalog_active_name"}))
    BY PlainForms
  <2>4. Plain(Index("minifig_external_identifier", {"idx_minifig_identifier_catalog_active"}))
    BY PlainForms
  <2> QED BY <2>1, <2>2, <2>3, <2>4, PlainTuples, Zenon DEF createMinifigCatalogTables
<1>26. PlainList(createThemeCatalogTables)
  <2>1. Plain(Table("theme_catalog"))
    BY PlainForms
  <2>2. Plain(Table("theme_external_identifier"))
    BY PlainForms
  <2>3. Plain(Table("minifig_theme"))
    BY PlainForms
  <2>4. Plain(Index("theme_catalog", {"idx_theme_parent_active", "idx_theme_active_name"}))
    BY PlainForms
  <2>5. Plain(Index("theme_external_identifier", {"idx_theme_identity_provider"}))
    BY PlainForms
  <2>6. Plain(Index("minifig_theme", {"idx_minifig_theme_theme", "idx_minifig_theme_minifig"}))
    BY PlainForms
  <2> QED BY <2>1, <2>2, <2>3, <2>4, <2>5, <2>6, PlainTuples, Zenon DEF createThemeCatalogTables
<1>27. PlainList(createMinifigCatalogPartTable)
  <2>1. Plain(Table("minifig_catalog_part"))
    BY PlainForms
  <2>2. Plain(Index("minifig_catalog_part", {"idx_minifig_catalog_part_minifig", "idx_minifig_catalog_part_identity"}))
    BY PlainForms
  <2> QED BY <2>1, <2>2, PlainTuples, Zenon DEF createMinifigCatalogPartTable
<1>28. PlainList(createSetCatalogPartTable)
  <2>1. Plain(Table("set_catalog_part"))
    BY PlainForms
  <2>2. Plain(Index("set_catalog_part", {"idx_set_catalog_part_set", "idx_set_catalog_part_identity"}))
    BY PlainForms
  <2> QED BY <2>1, <2>2, PlainTuples, Zenon DEF createSetCatalogPartTable
<1>29. PlainList(migrateVersion28ToVersion29)
  <2>1. Plain(Ensure("manufacturer", Columns({"origin"})))
    BY PlainForms
  <2> QED BY <2>1, PlainTuples, Zenon DEF migrateVersion28ToVersion29
<1>30. PlainList(migrateVersion30ToVersion31)
  <2>1. Plain(Add("collection_item", "condition"))
    BY PlainForms
  <2>2. Plain(Add("collection_item", "completeness"))
    BY PlainForms
  <2>3. Plain(AddOnce("collection_item", Of("index", {"idx_collection_workspace_condition_active", "idx_collection_workspace_completeness_active"})))
    BY PlainForms
  <2> QED BY <2>1, <2>2, <2>3, PlainTuples, Zenon DEF migrateVersion30ToVersion31
<1>31. PlainList(migrateVersion31ToVersion32)
  <2>1. Plain(CreateOnce("user_part_reference_entry", {}))
    BY PlainForms
  <2>2. Plain(AddOnce("user_part_reference_entry", Of("index", {"idx_user_part_reference_destination"})))
    BY PlainForms
  <2> QED BY <2>1, <2>2, PlainTuples, Zenon DEF migrateVersion31ToVersion32
<1>32. PlainList(createSetInventoryRevisionTables)
  <2>1. Plain(Table("set_inventory_revision"))
    BY PlainForms
  <2>2. Plain(Index("set_inventory_revision", {"idx_set_inventory_one_preferred", "idx_set_inventory_preferred", "idx_set_inventory_history"}))
    BY PlainForms
  <2>3. Plain(Table("set_inventory_part"))
    BY PlainForms
  <2>4. Plain(Index("set_inventory_part", {"idx_set_inventory_part_revision", "idx_set_inventory_part_reverse"}))
    BY PlainForms
  <2>5. Plain(Table("set_inventory_minifig"))
    BY PlainForms
  <2>6. Plain(Index("set_inventory_minifig", {"idx_set_inventory_minifig_revision", "idx_set_inventory_minifig_reverse"}))
    BY PlainForms
  <2>7. Plain(Table("set_inventory_contained_set"))
    BY PlainForms
  <2>8. Plain(Index("set_inventory_contained_set", {"idx_set_inventory_contained_revision", "idx_set_inventory_contained_reverse"}))
    BY PlainForms
  <2> QED BY <2>1, <2>2, <2>3, <2>4, <2>5, <2>6, <2>7, <2>8, PlainTuples, Zenon DEF createSetInventoryRevisionTables
<1>33. PlainList(createPartElementIdentifierTable)
  <2>1. Plain(Table("part_element_identifier"))
    BY PlainForms
  <2>2. Plain(Index("part_element_identifier", {"idx_part_element_part_color", "idx_part_element_design", "idx_part_element_provider_active"}))
    BY PlainForms
  <2> QED BY <2>1, <2>2, PlainTuples, Zenon DEF createPartElementIdentifierTable
<1>34. PlainList(migrateVersion34ToVersion35)
  <2>1. Plain(CreateOnce("remote_mutation_receipt", {}))
    BY PlainForms
  <2>2. Plain(AddOnce("remote_mutation_receipt", Of("index", {"idx_remote_mutation_receipt_committed_utc", "idx_remote_mutation_receipt_workspace"})))
    BY PlainForms
  <2> QED BY <2>1, <2>2, PlainTuples, Zenon DEF migrateVersion34ToVersion35
<1> QED BY <1>1, <1>2, <1>3, <1>4, <1>5, <1>6, <1>7, <1>8, <1>9, <1>10, <1>11, <1>12, <1>13, <1>14, <1>15, <1>16, <1>17, <1>18, <1>19, <1>20, <1>21, <1>22, <1>23, <1>24, <1>25, <1>26, <1>27, <1>28, <1>29, <1>30, <1>31, <1>32, <1>33, <1>34

LEMMA OfKind == ASSUME NEW k, NEW S PROVE \A p \in Of(k, S) : p[1] = k
BY DEF Of

LEMMA ThingsBounded ==
  ASSUME NEW t, NEW S, NEW B, NEW M, \A p \in S : <<t, p[1], p[2]>> \in B \/ p[1] \in M
  PROVE  Bounded(Things(t, S), t, B, M)
<1> SUFFICES ASSUME NEW x \in Things(t, S) PROVE x \in B \/ x[2] \in M
  BY DEF Bounded
<1>1. PICK p \in S : x = <<t, p[1], p[2]>>
  BY DEF Things
<1> QED BY <1>1

(* What is added to a table that is not rebuilt any more, or that a bound  *)
(* is known for.                                                           *)
LEMMA FineForms ==
  ASSUME NEW v \in 0 .. 34, NEW s, NEW op, op # "rebuild", NEW t, NEW S, Made(s, op, t, S)
  PROVE  /\ t = "inventory_record" /\ (v < 15 => Bounded(s.of, t, RecordThings, Passing)) => Fine(v, s)
         /\ t = "build_allocation" /\ (v < 21 => Bounded(s.of, t, AllocationThings, Passing)) => Fine(v, s)
         /\ t = "build" /\ (v < 26 => TableOf(t) \subseteq BuildAt(v + 1) /\ Bounded(s.of, t, BuildAt(v + 1), {})) => Fine(v, s)
BY DEF Made, Fine

(* Columns, indexes and triggers.                                          *)
LEMMA PassingFine ==
  ASSUME NEW v \in 0 .. 34, NEW t \in {"inventory_record", "build_allocation"}, NEW S, NEW k \in Passing
  PROVE  Fine(v, Ensure(t, Of(k, S)))
<1> DEFINE s == Ensure(t, Of(k, S))
<1>1. Made(s, "extend", t, Of(k, S))
  BY StatementsMade
<1>2. \A B : Bounded(s.of, t, B, Passing)
  <2>1. \A p \in Of(k, S) : p[1] \in Passing
    BY OfKind
  <2> HIDE DEF s
  <2> QED BY <1>1, <2>1, ThingsBounded DEF Made
<1> HIDE DEF s
<1>3. "extend" # "rebuild"
  OBVIOUS
<1>4. Fine(v, s)
  BY <1>1, <1>2, <1>3, FineForms
<1> QED BY <1>4 DEF s

LEMMA PassingIndexes ==
  ASSUME NEW v \in 0 .. 34, NEW t \in {"inventory_record", "build_allocation"}, NEW S
  PROVE  Fine(v, Index(t, S))
<1>1. "index" \in Passing
  BY DEF Passing
<1> QED BY <1>1, PassingFine DEF Index

LEMMA ThingsHave == ASSUME NEW t, NEW S, NEW p \in S PROVE <<t, p[1], p[2]>> \in Things(t, S)
BY DEF Things

LEMMA BuildGrows ==
  ASSUME NEW v \in Nat, NEW w \in Nat, v <= w
  PROVE  BuildAt(v) \subseteq BuildAt(w)
BY DEF BuildAt, LaterBuild

(* The statements about the tables that are rebuilt.                       *)
LEMMA RecordStatements ==
  /\ Fine(2, Create("inventory_record", InventoryRecordColumns \cup {<<"unique", "part, place">>}))
  /\ Fine(14, Add("inventory_record", "manufacturer_id"))
  /\ Fine(14, Ensure("inventory_record", Of("trigger", {"trg_inventory_default_manufacturer"})))
  /\ Fine(15, Rebuild("inventory_record", InventoryRecordColumns \cup Columns({"manufacturer_id"}),
                      {<<"unique", "part, place, manufacturer">>}))
<1> DEFINE t == "inventory_record"
           C == InventoryRecordColumns \cup Columns({"manufacturer_id"})
<1>0. /\ \A p \in C : <<t, p[1], p[2]>> \in RecordThings
      /\ RecordThings = TableOf(t) \cup Things(t, C)
  BY ThingsHave DEF RecordThings
<1>1. ASSUME NEW S, \A p \in S : p \in C \/ p[1] \in Passing
      PROVE  Bounded(Things(t, S), t, RecordThings, Passing)
  <2> HIDE DEF C
  <2> QED BY <1>0, <1>1, ThingsBounded
<1>2. Fine(2, Create(t, InventoryRecordColumns \cup {<<"unique", "part, place">>}))
  <2> DEFINE S == InventoryRecordColumns \cup {<<"unique", "part, place">>}
             s == Create(t, S)
  <2>0. <<"unique", "part, place">>[1] \in Passing
    BY DEF Passing
  <2>1. \A p \in S : p \in C \/ p[1] \in Passing
    BY <2>0
  <2>2. Made(s, "create", t, S) /\ "create" # "rebuild"
    BY StatementsMade
  <2> HIDE DEF S, s, C
  <2>3. Bounded(s.of, t, RecordThings, Passing)
    BY <1>1, <2>1, <2>2 DEF Made
  <2> HIDE DEF t
  <2>4. Fine(2, s)
    BY <2>2, <2>3, FineForms DEF t
  <2> QED BY <2>4 DEF S, s
<1>3. Fine(14, Add(t, "manufacturer_id"))
  <2> DEFINE S == Columns({"manufacturer_id"})
             s == Add(t, "manufacturer_id")
  <2>1. Made(s, "extend", t, S) /\ "extend" # "rebuild"
    BY ShortForms
  <2>2. \A p \in S : p \in C
    OBVIOUS
  <2> HIDE DEF S, s, C
  <2>3. Bounded(s.of, t, RecordThings, Passing)
    BY <1>1, <2>1, <2>2 DEF Made
  <2> HIDE DEF t
  <2>4. Fine(14, s)
    BY <2>1, <2>3, FineForms DEF t
  <2> QED BY <2>4 DEF s
<1>4. Fine(14, Ensure(t, Of("trigger", {"trg_inventory_default_manufacturer"})))
  <2>1. "trigger" \in Passing
    BY DEF Passing
  <2> QED BY <2>1, PassingFine
<1>5. Fine(15, Rebuild(t, C, {<<"unique", "part, place, manufacturer">>}))
  <2> DEFINE F == {<<"unique", "part, place, manufacturer">>}
             s == Rebuild(t, C, F)
  <2>1. Made(s, "rebuild", t, C \cup F)
    BY StatementsMade
  <2>2. Things(t, C) \subseteq Things(t, C \cup F)
    BY ThingsIn
  <2> HIDE DEF C, F, s
  <2>3. RecordThings \subseteq TableOf(t) \cup s.of
    BY <1>0, <2>1, <2>2 DEF Made
  <2>4. Fine(15, s)
    <3>1. s.op = "rebuild" /\ s.on = t /\ \A x \in s.of : x[1] = s.on
      BY <2>1 DEF Made
    <3> QED BY <2>3, <3>1 DEF Fine
  <2> QED BY <2>4 DEF C, F, s
<1> QED BY <1>2, <1>3, <1>4, <1>5

LEMMA AllocationStatements ==
  /\ Fine(5, Create("build_allocation", AllocationColumns \cup {<<"unique", "build, record">>}))
  /\ Fine(21, Rebuild("build_allocation", AllocationColumns,
                      Columns({"build_requirement_id"}) \cup {<<"unique", "requirement, record">>}))
<1> DEFINE t == "build_allocation"
           C == AllocationColumns
<1>0. /\ \A p \in C : <<t, p[1], p[2]>> \in AllocationThings
      /\ AllocationThings = TableOf(t) \cup Things(t, C)
  BY ThingsHave DEF AllocationThings
<1>2. Fine(5, Create(t, C \cup {<<"unique", "build, record">>}))
  <2> DEFINE S == C \cup {<<"unique", "build, record">>}
             s == Create(t, S)
  <2>0. <<"unique", "build, record">>[1] \in Passing
    BY DEF Passing
  <2>1. \A p \in S : p \in C \/ p[1] \in Passing
    BY <2>0
  <2>2. Made(s, "create", t, S) /\ "create" # "rebuild"
    BY StatementsMade
  <2> HIDE DEF S, s, C
  <2>3. Bounded(s.of, t, AllocationThings, Passing)
    BY <1>0, <2>1, <2>2, ThingsBounded DEF Made
  <2> HIDE DEF t
  <2>4. Fine(5, s)
    BY <2>2, <2>3, FineForms DEF t
  <2> QED BY <2>4 DEF S, s
<1>5. ASSUME NEW F PROVE Fine(21, Rebuild(t, C, F))
  <2> DEFINE s == Rebuild(t, C, F)
  <2>1. Made(s, "rebuild", t, C \cup F)
    BY StatementsMade
  <2>2. Things(t, C) \subseteq Things(t, C \cup F)
    BY ThingsIn
  <2> HIDE DEF C, s
  <2>3. AllocationThings \subseteq TableOf(t) \cup s.of
    BY <1>0, <2>1, <2>2 DEF Made
  <2>4. Fine(21, s)
    <3>1. s.op = "rebuild" /\ s.on = t /\ \A x \in s.of : x[1] = s.on
      BY <2>1 DEF Made
    <3> QED BY <2>3, <3>1 DEF Fine
  <2> QED BY <2>4 DEF C, s
<1> QED BY <1>2, <1>5

(* What is made or added within the bound of the next version.             *)
LEMMA BuildFine ==
  ASSUME NEW v \in 0 .. 25, NEW s, NEW op, op # "rebuild", NEW S, Made(s, op, "build", S),
         Things("build", S) \cup TableOf("build") \subseteq BuildAt(v + 1)
  PROVE  Fine(v, s)
<1>1. Bounded(s.of, "build", BuildAt(v + 1), {})
  BY DEF Made, Bounded
<1> QED BY <1>1, FineForms

LEMMA BuildStatements ==
  /\ Fine(5, Create("build", BuildColumns \cup {<<"accepts", "Cancelled">>}))
  /\ Fine(5, Index("build", {"idx_build_workspace"}))
  /\ Fine(6, Add("build", "inventory_mode"))
  /\ Fine(9, Add("build", "is_active"))
  /\ Fine(9, Index("build", {"idx_build_workspace_active"}))
  /\ Fine(16, Add("build", "manufacturer_id"))
  /\ Fine(16, Index("build", {"idx_build_manufacturer"}))
  /\ Fine(16, DefaultManufacturerOfBuilds)
<1> DEFINE t == "build"
           N == BuildColumns \cup Columns({"inventory_mode", "is_active"})
                  \cup {<<"accepts", "Cancelled">>}
                  \cup Of("index", {"idx_build_workspace", "idx_build_workspace_active"})
           L == Columns({"manufacturer_id"}) \cup Of("index", {"idx_build_manufacturer"})
                  \cup Of("trigger", {"trg_build_default_manufacturer"})
<1>1. /\ \A v \in 5 .. 15 : BuildAt(v + 1) = TableOf(t) \cup Things(t, N)
      /\ BuildAt(17) = TableOf(t) \cup Things(t, N) \cup Things(t, L)
  BY DEF BuildAt, NewBuild, LaterBuild
<1>2. /\ BuildColumns \cup {<<"accepts", "Cancelled">>} \subseteq N
      /\ Of("index", {"idx_build_workspace"}) \subseteq N
      /\ Of("index", {"idx_build_workspace_active"}) \subseteq N
      /\ Columns({"inventory_mode"}) \subseteq N
      /\ Columns({"is_active"}) \subseteq N
  BY DEF Of, Columns
<1>3. /\ Columns({"manufacturer_id"}) \subseteq L
      /\ Of("index", {"idx_build_manufacturer"}) \subseteq L
      /\ Of("trigger", {"trg_build_default_manufacturer"}) \subseteq L
  OBVIOUS
<1> HIDE DEF N, L
<1>4. "create" # "rebuild" /\ "extend" # "rebuild"
  OBVIOUS
<1>5. ASSUME NEW v \in 5 .. 15, NEW S \in SUBSET N, NEW s, NEW op, op # "rebuild", Made(s, op, t, S) PROVE Fine(v, s)
  <2>1. Things(t, S) \cup TableOf(t) \subseteq BuildAt(v + 1)
    BY <1>1, ThingsIn
  <2> QED BY <1>5, <2>1, BuildFine
<1>6. ASSUME NEW S \in SUBSET L, NEW s, NEW op, op # "rebuild", Made(s, op, t, S) PROVE Fine(16, s)
  <2>1. Things(t, S) \cup TableOf(t) \subseteq BuildAt(16 + 1)
    BY <1>1, ThingsIn
  <2> QED BY <1>6, <2>1, BuildFine
<1>7. Fine(5, Create(t, BuildColumns \cup {<<"accepts", "Cancelled">>}))
  <2> DEFINE S == BuildColumns \cup {<<"accepts", "Cancelled">>}
  <2>1. Made(Create(t, S), "create", t, S) /\ S \in SUBSET N
    BY <1>2, StatementsMade
  <2> HIDE DEF S, t
  <2>2. Fine(5, Create(t, S))
    BY <1>4, <1>5, <2>1
  <2> QED BY <2>2 DEF S, t
<1>8. Fine(5, Index(t, {"idx_build_workspace"}))
  <2>1. Made(Index(t, {"idx_build_workspace"}), "extend", t, Of("index", {"idx_build_workspace"}))
    BY ShortForms
  <2> QED BY <1>2, <1>4, <1>5, <2>1
<1>9. Fine(6, Add(t, "inventory_mode"))
  <2>1. Made(Add(t, "inventory_mode"), "extend", t, Columns({"inventory_mode"}))
    BY ShortForms
  <2> QED BY <1>2, <1>4, <1>5, <2>1
<1>10. Fine(9, Add(t, "is_active"))
  <2>1. Made(Add(t, "is_active"), "extend", t, Columns({"is_active"}))
    BY ShortForms
  <2> QED BY <1>2, <1>4, <1>5, <2>1
<1>11. Fine(9, Index(t, {"idx_build_workspace_active"}))
  <2>1. Made(Index(t, {"idx_build_workspace_active"}), "extend", t, Of("index", {"idx_build_workspace_active"}))
    BY ShortForms
  <2> QED BY <1>2, <1>4, <1>5, <2>1
<1>12. Fine(16, Add(t, "manufacturer_id"))
  <2>1. Made(Add(t, "manufacturer_id"), "extend", t, Columns({"manufacturer_id"}))
    BY ShortForms
  <2> QED BY <1>3, <1>4, <1>6, <2>1
<1>13. Fine(16, Index(t, {"idx_build_manufacturer"}))
  <2>1. Made(Index(t, {"idx_build_manufacturer"}), "extend", t, Of("index", {"idx_build_manufacturer"}))
    BY ShortForms
  <2> QED BY <1>3, <1>4, <1>6, <2>1
<1>14. Fine(16, DefaultManufacturerOfBuilds)
  <2>1. Made(DefaultManufacturerOfBuilds, "extend", t, Of("trigger", {"trg_build_default_manufacturer"}))
    BY StatementsMade DEF DefaultManufacturerOfBuilds
  <2> QED BY <1>3, <1>4, <1>6, <2>1
<1> QED BY <1>7, <1>8, <1>9, <1>10, <1>11, <1>12, <1>13, <1>14

LEMMA LaterBuildStatements ==
  /\ \A v \in 26 .. 34 : \A S : Fine(v, Index("build", S)) /\ Fine(v, Ensure("build", S))
  /\ \A v \in 26 .. 34 : \A c : Fine(v, Add("build", c))
  /\ Fine(26, Rebuild("build", BuildColumns \cup Columns({"inventory_mode", "is_active", "manufacturer_id"})
                                 \cup {<<"accepts", "Cancelled">>},
                      Columns({"minifig_catalog_id"}) \cup {<<"accepts", "Minifig">>}))
<1> DEFINE t == "build"
<1>0. "extend" # "rebuild"
  OBVIOUS
<1>1. ASSUME NEW v \in 26 .. 34, NEW S PROVE Fine(v, Index(t, S)) /\ Fine(v, Ensure(t, S))
  <2>1. Made(Index(t, S), "extend", t, Of("index", S)) /\ Made(Ensure(t, S), "extend", t, S)
    BY ShortForms, StatementsMade
  <2>2. v \in 0 .. 34 /\ ~(v < 26)
    OBVIOUS
  <2> QED BY <1>0, <2>1, <2>2, FineForms
<1>2. ASSUME NEW v \in 26 .. 34, NEW c PROVE Fine(v, Add(t, c))
  <2>1. Made(Add(t, c), "extend", t, Columns({c}))
    BY ShortForms
  <2>2. v \in 0 .. 34 /\ ~(v < 26)
    OBVIOUS
  <2> QED BY <1>0, <2>1, <2>2, FineForms
<1>3. ASSUME NEW F
      PROVE  Fine(26, Rebuild(t, BuildColumns \cup Columns({"inventory_mode", "is_active", "manufacturer_id"})
                                   \cup {<<"accepts", "Cancelled">>}, F))
  <2> DEFINE C == BuildColumns \cup Columns({"inventory_mode", "is_active", "manufacturer_id"})
                    \cup {<<"accepts", "Cancelled">>}
             s == Rebuild(t, C, F)
  <2>1. Made(s, "rebuild", t, C \cup F)
    BY StatementsMade
  <2>2. Things(t, C) \subseteq Things(t, C \cup F)
    BY ThingsIn
  <2>3. ASSUME NEW x \in LaterBuild, x[2] \notin Passing PROVE x \in TableOf(t) \cup Things(t, C)
    <3> DEFINE N == BuildColumns \cup Columns({"inventory_mode", "is_active"})
                      \cup {<<"accepts", "Cancelled">>}
                      \cup Of("index", {"idx_build_workspace", "idx_build_workspace_active"})
               L == Columns({"manufacturer_id"}) \cup Of("index", {"idx_build_manufacturer"})
                      \cup Of("trigger", {"trg_build_default_manufacturer"})
    <3>1. x \in TableOf(t) \/ x \in Things(t, N) \/ x \in Things(t, L)
      BY DEF LaterBuild, NewBuild
    <3>2. \A p \in N \cup L : p \in C \/ p[1] \in Passing
      <4>1. \A S : \A p \in Of("index", S) \cup Of("trigger", S) : p[1] \in Passing
        BY DEF Of, Passing
      <4>2. Columns({"inventory_mode", "is_active"}) \cup Columns({"manufacturer_id"}) \subseteq C
        BY DEF Columns, Of
      <4> QED BY <4>1, <4>2
    <3> HIDE DEF N, L, C
    <3>3. \A p \in N \cup L : x = <<t, p[1], p[2]>> => x \in Things(t, C)
      BY <2>3, <3>2, ThingsHave
    <3> QED BY <3>1, <3>3 DEF Things
  <2> HIDE DEF C, s
  <2>4. {x \in LaterBuild : x[2] \notin Passing} \subseteq TableOf(t) \cup s.of
    BY <2>1, <2>2, <2>3 DEF Made
  <2>5. Fine(26, s)
    <3>1. s.op = "rebuild" /\ s.on = t /\ \A x \in s.of : x[1] = s.on
      BY <2>1 DEF Made
    <3> QED BY <2>4, <3>1 DEF Fine
  <2> QED BY <2>5 DEF C, s
<1> QED BY <1>1, <1>2, <1>3

LEMMA FineTuples ==
  ASSUME NEW v, NEW s1, NEW s2, NEW s3, NEW s4, NEW s5, NEW s6, Fine(v, s1)
  PROVE  /\ FineList(v, <<s1>>)
         /\ Fine(v, s2) => FineList(v, <<s1, s2>>)
         /\ Fine(v, s2) /\ Fine(v, s3) => FineList(v, <<s1, s2, s3>>)
         /\ Fine(v, s2) /\ Fine(v, s3) /\ Fine(v, s4) => FineList(v, <<s1, s2, s3, s4>>)
         /\ Fine(v, s2) /\ Fine(v, s3) /\ Fine(v, s4) /\ Fine(v, s5) /\ Fine(v, s6) =>
              FineList(v, <<s1, s2, s3, s4, s5, s6>>)
<1>1. FineList(v, <<s1>>)
  <2>1. IsList(<<s1>>, {s1})
    BY Tuples
  <2>2. \A s \in {s1} : Fine(v, s)
    OBVIOUS
  <2> QED BY <2>1, <2>2 DEF FineList, IsList
<1>2. ASSUME Fine(v, s2) PROVE FineList(v, <<s1, s2>>)
  <2>1. IsList(<<s1, s2>>, {s1, s2})
    BY Tuples
  <2>2. \A s \in {s1, s2} : Fine(v, s)
    BY <1>2
  <2> QED BY <2>1, <2>2 DEF FineList, IsList
<1>3. ASSUME Fine(v, s2), Fine(v, s3) PROVE FineList(v, <<s1, s2, s3>>)
  <2>1. IsList(<<s1, s2, s3>>, {s1, s2, s3})
    BY Tuples
  <2>2. \A s \in {s1, s2, s3} : Fine(v, s)
    BY <1>3
  <2> QED BY <2>1, <2>2 DEF FineList, IsList
<1>4. ASSUME Fine(v, s2), Fine(v, s3), Fine(v, s4) PROVE FineList(v, <<s1, s2, s3, s4>>)
  <2>1. IsList(<<s1, s2, s3, s4>>, {s1, s2, s3, s4})
    BY Tuples
  <2>2. \A s \in {s1, s2, s3, s4} : Fine(v, s)
    BY <1>4
  <2> QED BY <2>1, <2>2 DEF FineList, IsList
<1>5. ASSUME Fine(v, s2), Fine(v, s3), Fine(v, s4), Fine(v, s5), Fine(v, s6) PROVE FineList(v, <<s1, s2, s3, s4, s5, s6>>)
  <2>1. IsList(<<s1, s2, s3, s4, s5, s6>>, {s1, s2, s3, s4, s5, s6})
    BY Tuples
  <2>2. \A s \in {s1, s2, s3, s4, s5, s6} : Fine(v, s)
    BY <1>5
  <2> QED BY <2>1, <2>2 DEF FineList, IsList
<1> QED BY <1>1, <1>2, <1>3, <1>4, <1>5

(* The statements of every migration but the one from version 10.         *)
LEMMA MigrationsFine == \A v \in 0 .. 34 : v # 10 => FineList(v, Migration[v])
<1>1. FineList(0, createVersion1Schema)
  BY PlainLists, PlainListIsFine DEF createVersion1Schema
<1>2. FineList(1, migrateVersion1ToVersion2)
  <2>1. FineList(1, createColorTable)
    BY PlainLists, PlainListIsFine
  <2>2. FineList(1, createPartCategoryTable)
    BY PlainLists, PlainListIsFine
  <2>3. FineList(1, createStorageLocationTypeTable)
    BY PlainLists, PlainListIsFine
  <2>4. FineList(1, createStorageLocationTable)
    BY PlainLists, PlainListIsFine
  <2>5. FineList(1, seedStorageLocationTypes)
    BY PlainLists, PlainListIsFine
  <2>6. FineList(1, createColorTable \o createPartCategoryTable)
    BY <2>1, <2>2, ListsJoined, Zenon
  <2>7. FineList(1, createColorTable \o createPartCategoryTable \o createStorageLocationTypeTable)
    BY <2>6, <2>3, ListsJoined, Zenon
  <2>8. FineList(1, createColorTable \o createPartCategoryTable \o createStorageLocationTypeTable \o createStorageLocationTable)
    BY <2>7, <2>4, ListsJoined, Zenon
  <2>9. FineList(1, createColorTable \o createPartCategoryTable \o createStorageLocationTypeTable \o createStorageLocationTable \o seedStorageLocationTypes)
    BY <2>8, <2>5, ListsJoined, Zenon
  <2> QED BY <2>9 DEF migrateVersion1ToVersion2
<1>3. FineList(2, migrateVersion2ToVersion3)
  <2>1. FineList(2, createPartTable)
    BY PlainLists, PlainListIsFine
  <2>2. FineList(2, createInventoryRecordTable)
    <3>1. FineList(2, <<Create("inventory_record", InventoryRecordColumns \cup {<<"unique", "part, place">>})>>)
      <4>1. Fine(2, Create("inventory_record", InventoryRecordColumns \cup {<<"unique", "part, place">>}))
        BY RecordStatements
      <4> QED BY <4>1, FineTuples, Zenon
    <3> QED BY <3>1 DEF createInventoryRecordTable
  <2>3. FineList(2, createInventoryIndexes)
    <3>1. FineList(2, <<Index("part", {"idx_part_category"}), Index("inventory_record", {"idx_inventory_workspace", "idx_inventory_part", "idx_inventory_storage_location"})>>)
      <4>1. Fine(2, Index("part", {"idx_part_category"}))
        BY PlainForms, PlainIsFine
      <4>2. Fine(2, Index("inventory_record", {"idx_inventory_workspace", "idx_inventory_part", "idx_inventory_storage_location"}))
        BY PassingIndexes
      <4> QED BY <4>1, <4>2, FineTuples, Zenon
    <3> QED BY <3>1 DEF createInventoryIndexes
  <2>4. FineList(2, createPartTable \o createInventoryRecordTable)
    BY <2>1, <2>2, ListsJoined, Zenon
  <2>5. FineList(2, createPartTable \o createInventoryRecordTable \o createInventoryIndexes)
    BY <2>4, <2>3, ListsJoined, Zenon
  <2> QED BY <2>5 DEF migrateVersion2ToVersion3
<1>4. FineList(3, migrateVersion3ToVersion4)
  BY PlainLists, PlainListIsFine
<1>5. FineList(4, migrateVersion4ToVersion5)
  <2>1. FineList(4, createInventoryMovementTable)
    BY PlainLists, PlainListIsFine
  <2>2. FineList(4, createInventoryMovementIndexes)
    BY PlainLists, PlainListIsFine
  <2>3. FineList(4, createInventoryMovementTable \o createInventoryMovementIndexes)
    BY <2>1, <2>2, ListsJoined, Zenon
  <2> QED BY <2>3 DEF migrateVersion4ToVersion5
<1>6. FineList(5, migrateVersion5ToVersion6)
  <2>1. FineList(5, createBuildTable)
    <3>1. FineList(5, <<Create("build", BuildColumns \cup {<<"accepts", "Cancelled">>})>>)
      <4>1. Fine(5, Create("build", BuildColumns \cup {<<"accepts", "Cancelled">>}))
        BY BuildStatements
      <4> QED BY <4>1, FineTuples, Zenon
    <3> QED BY <3>1 DEF createBuildTable
  <2>2. FineList(5, createBuildRequirementTable)
    BY PlainLists, PlainListIsFine
  <2>3. FineList(5, createBuildAllocationTable)
    <3>1. FineList(5, <<Create("build_allocation", AllocationColumns \cup {<<"unique", "build, record">>})>>)
      <4>1. Fine(5, Create("build_allocation", AllocationColumns \cup {<<"unique", "build, record">>}))
        BY AllocationStatements
      <4> QED BY <4>1, FineTuples, Zenon
    <3> QED BY <3>1 DEF createBuildAllocationTable
  <2>4. FineList(5, createBuildIndexes)
    <3>1. FineList(5, <<Index("build", {"idx_build_workspace"}), Index("build_requirement", {"idx_build_requirement_build", "idx_build_requirement_part_color"}), Index("build_allocation", {"idx_build_allocation_build", "idx_build_allocation_inventory"})>>)
      <4>1. Fine(5, Index("build", {"idx_build_workspace"}))
        BY BuildStatements
      <4>2. Fine(5, Index("build_requirement", {"idx_build_requirement_build", "idx_build_requirement_part_color"}))
        BY PlainForms, PlainIsFine
      <4>3. Fine(5, Index("build_allocation", {"idx_build_allocation_build", "idx_build_allocation_inventory"}))
        BY PassingIndexes
      <4> QED BY <4>1, <4>2, <4>3, FineTuples, Zenon
    <3> QED BY <3>1 DEF createBuildIndexes
  <2>5. FineList(5, createBuildTable \o createBuildRequirementTable)
    BY <2>1, <2>2, ListsJoined, Zenon
  <2>6. FineList(5, createBuildTable \o createBuildRequirementTable \o createBuildAllocationTable)
    BY <2>5, <2>3, ListsJoined, Zenon
  <2>7. FineList(5, createBuildTable \o createBuildRequirementTable \o createBuildAllocationTable \o createBuildIndexes)
    BY <2>6, <2>4, ListsJoined, Zenon
  <2> QED BY <2>7 DEF migrateVersion5ToVersion6
<1>7. FineList(6, migrateVersion6ToVersion7)
  <2>1. FineList(6, <<Add("build", "inventory_mode")>>)
    <3>1. Fine(6, Add("build", "inventory_mode"))
      BY BuildStatements
    <3> QED BY <3>1, FineTuples, Zenon
  <2> QED BY <2>1 DEF migrateVersion6ToVersion7
<1>8. FineList(7, migrateVersion7ToVersion8)
  BY PlainLists, PlainListIsFine
<1>9. FineList(8, migrateVersion8ToVersion9)
  BY PlainLists, PlainListIsFine DEF migrateVersion8ToVersion9
<1>10. FineList(9, migrateVersion9ToVersion10)
  <2>1. FineList(9, <<Add("build", "is_active"), Index("build", {"idx_build_workspace_active"})>>)
    <3>1. Fine(9, Add("build", "is_active"))
      BY BuildStatements
    <3>2. Fine(9, Index("build", {"idx_build_workspace_active"}))
      BY BuildStatements
    <3> QED BY <3>1, <3>2, FineTuples, Zenon
  <2> QED BY <2>1 DEF migrateVersion9ToVersion10
<1>11. FineList(11, migrateVersion11ToVersion12)
  <2>1. FineList(11, createExternalColorMappingTable)
    BY PlainLists, PlainListIsFine
  <2>2. FineList(11, createExternalPartMappingTable)
    BY PlainLists, PlainListIsFine
  <2>3. FineList(11, createExternalColorMappingTable \o createExternalPartMappingTable)
    BY <2>1, <2>2, ListsJoined, Zenon
  <2> QED BY <2>3 DEF migrateVersion11ToVersion12
<1>12. FineList(12, migrateVersion12ToVersion13)
  <2>1. FineList(12, createPartRelationshipTable)
    BY PlainLists, PlainListIsFine
  <2>2. FineList(12, createPartAliasTable)
    BY PlainLists, PlainListIsFine
  <2>3. FineList(12, createPartRelationshipTable \o createPartAliasTable)
    BY <2>1, <2>2, ListsJoined, Zenon
  <2> QED BY <2>3 DEF migrateVersion12ToVersion13
<1>13. FineList(13, migrateVersion13ToVersion14)
  BY PlainLists, PlainListIsFine DEF migrateVersion13ToVersion14
<1>14. FineList(14, migrateVersion14ToVersion15)
  <2>1. FineList(14, createManufacturerTable)
    BY PlainLists, PlainListIsFine
  <2>2. FineList(14, seedManufacturers)
    BY PlainLists, PlainListIsFine
  <2>3. FineList(14, <<Add("inventory_record", "manufacturer_id"), Index("inventory_record", {"idx_inventory_manufacturer"}), Ensure("inventory_record", Of("trigger", {"trg_inventory_default_manufacturer"}))>>)
    <3>1. Fine(14, Add("inventory_record", "manufacturer_id"))
      BY RecordStatements
    <3>2. Fine(14, Index("inventory_record", {"idx_inventory_manufacturer"}))
      BY PassingIndexes
    <3>3. Fine(14, Ensure("inventory_record", Of("trigger", {"trg_inventory_default_manufacturer"})))
      BY RecordStatements
    <3> QED BY <3>1, <3>2, <3>3, FineTuples, Zenon
  <2>4. FineList(14, createManufacturerTable \o seedManufacturers)
    BY <2>1, <2>2, ListsJoined, Zenon
  <2>5. FineList(14, createManufacturerTable \o seedManufacturers \o <<Add("inventory_record", "manufacturer_id"), Index("inventory_record", {"idx_inventory_manufacturer"}), Ensure("inventory_record", Of("trigger", {"trg_inventory_default_manufacturer"}))>>)
    BY <2>4, <2>3, ListsJoined, Zenon
  <2> QED BY <2>5 DEF migrateVersion14ToVersion15
<1>15. FineList(15, migrateVersion15ToVersion16)
  <2>1. FineList(15, <<Rebuild("inventory_record", InventoryRecordColumns \cup Columns({"manufacturer_id"}), {<<"unique", "part, place, manufacturer">>})>>)
    <3>1. Fine(15, Rebuild("inventory_record", InventoryRecordColumns \cup Columns({"manufacturer_id"}), {<<"unique", "part, place, manufacturer">>}))
      BY RecordStatements
    <3> QED BY <3>1, FineTuples, Zenon
  <2>2. FineList(15, createInventoryIndexes)
    <3>1. FineList(15, <<Index("part", {"idx_part_category"}), Index("inventory_record", {"idx_inventory_workspace", "idx_inventory_part", "idx_inventory_storage_location"})>>)
      <4>1. Fine(15, Index("part", {"idx_part_category"}))
        BY PlainForms, PlainIsFine
      <4>2. Fine(15, Index("inventory_record", {"idx_inventory_workspace", "idx_inventory_part", "idx_inventory_storage_location"}))
        BY PassingIndexes
      <4> QED BY <4>1, <4>2, FineTuples, Zenon
    <3> QED BY <3>1 DEF createInventoryIndexes
  <2>3. FineList(15, <<Index("inventory_record", {"idx_inventory_manufacturer"})>>)
    <3>1. Fine(15, Index("inventory_record", {"idx_inventory_manufacturer"}))
      BY PassingIndexes
    <3> QED BY <3>1, FineTuples, Zenon
  <2>4. FineList(15, <<Rebuild("inventory_record", InventoryRecordColumns \cup Columns({"manufacturer_id"}), {<<"unique", "part, place, manufacturer">>})>> \o createInventoryIndexes)
    BY <2>1, <2>2, ListsJoined, Zenon
  <2>5. FineList(15, <<Rebuild("inventory_record", InventoryRecordColumns \cup Columns({"manufacturer_id"}), {<<"unique", "part, place, manufacturer">>})>> \o createInventoryIndexes \o <<Index("inventory_record", {"idx_inventory_manufacturer"})>>)
    BY <2>4, <2>3, ListsJoined, Zenon
  <2> QED BY <2>5 DEF migrateVersion15ToVersion16
<1>16. FineList(16, migrateVersion16ToVersion17)
  <2>1. FineList(16, <<Add("build", "manufacturer_id"), Index("build", {"idx_build_manufacturer"}), DefaultManufacturerOfBuilds>>)
    <3>1. Fine(16, Add("build", "manufacturer_id"))
      BY BuildStatements
    <3>2. Fine(16, Index("build", {"idx_build_manufacturer"}))
      BY BuildStatements
    <3>3. Fine(16, DefaultManufacturerOfBuilds)
      BY BuildStatements
    <3> QED BY <3>1, <3>2, <3>3, FineTuples, Zenon
  <2> QED BY <2>1 DEF migrateVersion16ToVersion17
<1>17. FineList(17, migrateVersion17ToVersion18)
  BY PlainLists, PlainListIsFine
<1>18. FineList(18, migrateVersion18ToVersion19)
  BY PlainLists, PlainListIsFine
<1>19. FineList(19, migrateVersion19ToVersion20)
  BY PlainLists, PlainListIsFine
<1>20. FineList(20, migrateVersion20ToVersion21)
  BY PlainLists, PlainListIsFine
<1>21. FineList(21, migrateVersion21ToVersion22)
  <2>1. FineList(21, <<Add("build_requirement", "substitute_part_id"), Add("build_requirement", "substitute_color_id"), Rebuild("build_allocation", AllocationColumns, Columns({"build_requirement_id"}) \cup {<<"unique", "requirement, record">>}), Index("build_allocation", {"idx_build_allocation_build", "idx_build_allocation_inventory", "idx_build_allocation_requirement"})>>)
    <3>1. Fine(21, Add("build_requirement", "substitute_part_id"))
      BY PlainForms, PlainIsFine
    <3>2. Fine(21, Add("build_requirement", "substitute_color_id"))
      BY PlainForms, PlainIsFine
    <3>3. Fine(21, Rebuild("build_allocation", AllocationColumns, Columns({"build_requirement_id"}) \cup {<<"unique", "requirement, record">>}))
      BY AllocationStatements
    <3>4. Fine(21, Index("build_allocation", {"idx_build_allocation_build", "idx_build_allocation_inventory", "idx_build_allocation_requirement"}))
      BY PassingIndexes
    <3> QED BY <3>1, <3>2, <3>3, <3>4, FineTuples, Zenon
  <2> QED BY <2>1 DEF migrateVersion21ToVersion22
<1>22. FineList(22, <<>>)
  <2>1. Range(<<>>) = {} /\ <<>> \in Seq({})
    BY DEF Range
  <2> QED BY <2>1 DEF FineList
<1>23. FineList(23, migrateVersion23ToVersion24)
  BY PlainLists, PlainListIsFine DEF migrateVersion23ToVersion24
<1>24. FineList(24, migrateVersion24ToVersion25)
  BY PlainLists, PlainListIsFine DEF migrateVersion24ToVersion25
<1>25. FineList(25, migrateVersion25ToVersion26)
  BY PlainLists, PlainListIsFine DEF migrateVersion25ToVersion26
<1>26. FineList(26, migrateVersion26ToVersion27)
  <2>1. FineList(26, <<Rebuild("build", BuildColumns \cup Columns({"inventory_mode", "is_active", "manufacturer_id"}) \cup {<<"accepts", "Cancelled">>}, Columns({"minifig_catalog_id"}) \cup {<<"accepts", "Minifig">>}), Index("build", {"idx_build_workspace", "idx_build_manufacturer", "idx_build_minifig_catalog"}), DefaultManufacturerOfBuilds>>)
    <3>1. Fine(26, Rebuild("build", BuildColumns \cup Columns({"inventory_mode", "is_active", "manufacturer_id"}) \cup {<<"accepts", "Cancelled">>}, Columns({"minifig_catalog_id"}) \cup {<<"accepts", "Minifig">>}))
      BY LaterBuildStatements
    <3>2. Fine(26, Index("build", {"idx_build_workspace", "idx_build_manufacturer", "idx_build_minifig_catalog"}))
      BY LaterBuildStatements
    <3>3. Fine(26, DefaultManufacturerOfBuilds)
      BY LaterBuildStatements DEF DefaultManufacturerOfBuilds
    <3> QED BY <3>1, <3>2, <3>3, FineTuples, Zenon
  <2> QED BY <2>1 DEF migrateVersion26ToVersion27
<1>27. FineList(27, migrateVersion27ToVersion28)
  <2>1. FineList(27, createSetCatalogPartTable)
    BY PlainLists, PlainListIsFine
  <2>2. FineList(27, <<Add("build", "set_catalog_id"), Index("build", {"idx_build_set_catalog_id"})>>)
    <3>1. Fine(27, Add("build", "set_catalog_id"))
      BY LaterBuildStatements
    <3>2. Fine(27, Index("build", {"idx_build_set_catalog_id"}))
      BY LaterBuildStatements
    <3> QED BY <3>1, <3>2, FineTuples, Zenon
  <2>3. FineList(27, createSetCatalogPartTable \o <<Add("build", "set_catalog_id"), Index("build", {"idx_build_set_catalog_id"})>>)
    BY <2>1, <2>2, ListsJoined, Zenon
  <2> QED BY <2>3 DEF migrateVersion27ToVersion28
<1>28. FineList(28, migrateVersion28ToVersion29)
  BY PlainLists, PlainListIsFine
<1>29. FineList(29, migrateVersion29ToVersion30)
  <2>1. FineList(29, <<Add("storage_location", "allows_inventory"), Add("storage_location", "allows_collection"), Index("storage_location", {"idx_storage_location_workspace_identity"}), Index("build", {"idx_build_workspace_identity"}), CreateOnce("collection_item", {}), AddOnce("collection_item", Of("index", {"idx_collection_workspace_type_active", "idx_collection_workspace_state_active", "idx_collection_workspace_location_active", "idx_collection_set_catalog", "idx_collection_minifig_catalog", "idx_collection_source_build"}))>>)
    <3>1. Fine(29, Add("storage_location", "allows_inventory"))
      BY PlainForms, PlainIsFine
    <3>2. Fine(29, Add("storage_location", "allows_collection"))
      BY PlainForms, PlainIsFine
    <3>3. Fine(29, Index("storage_location", {"idx_storage_location_workspace_identity"}))
      BY PlainForms, PlainIsFine
    <3>4. Fine(29, Index("build", {"idx_build_workspace_identity"}))
      BY LaterBuildStatements
    <3>5. Fine(29, CreateOnce("collection_item", {}))
      BY PlainForms, PlainIsFine
    <3>6. Fine(29, AddOnce("collection_item", Of("index", {"idx_collection_workspace_type_active", "idx_collection_workspace_state_active", "idx_collection_workspace_location_active", "idx_collection_set_catalog", "idx_collection_minifig_catalog", "idx_collection_source_build"})))
      BY PlainForms, PlainIsFine
    <3> QED BY <3>1, <3>2, <3>3, <3>4, <3>5, <3>6, FineTuples, Zenon
  <2> QED BY <2>1 DEF migrateVersion29ToVersion30
<1>30. FineList(30, migrateVersion30ToVersion31)
  BY PlainLists, PlainListIsFine
<1>31. FineList(31, migrateVersion31ToVersion32)
  BY PlainLists, PlainListIsFine
<1>32. FineList(32, migrateVersion32ToVersion33)
  BY PlainLists, PlainListIsFine DEF migrateVersion32ToVersion33
<1>33. FineList(33, migrateVersion33ToVersion34)
  BY PlainLists, PlainListIsFine DEF migrateVersion33ToVersion34
<1>34. FineList(34, migrateVersion34ToVersion35)
  BY PlainLists, PlainListIsFine
<1>35. ASSUME NEW v \in 0 .. 34, v # 10 PROVE FineList(v, Migration[v])
  <2>1. CASE v = 0
    <3>1. Migration[0] = createVersion1Schema
      BY DEF Migration, CurrentSchemaVersion
    <3> QED BY <1>1, <2>1, <3>1
  <2>2. CASE v = 1
    <3>1. Migration[1] = migrateVersion1ToVersion2
      BY DEF Migration, CurrentSchemaVersion
    <3> QED BY <1>2, <2>2, <3>1
  <2>3. CASE v = 2
    <3>1. Migration[2] = migrateVersion2ToVersion3
      BY DEF Migration, CurrentSchemaVersion
    <3> QED BY <1>3, <2>3, <3>1
  <2>4. CASE v = 3
    <3>1. Migration[3] = migrateVersion3ToVersion4
      BY DEF Migration, CurrentSchemaVersion
    <3> QED BY <1>4, <2>4, <3>1
  <2>5. CASE v = 4
    <3>1. Migration[4] = migrateVersion4ToVersion5
      BY DEF Migration, CurrentSchemaVersion
    <3> QED BY <1>5, <2>5, <3>1
  <2>6. CASE v = 5
    <3>1. Migration[5] = migrateVersion5ToVersion6
      BY DEF Migration, CurrentSchemaVersion
    <3> QED BY <1>6, <2>6, <3>1
  <2>7. CASE v = 6
    <3>1. Migration[6] = migrateVersion6ToVersion7
      BY DEF Migration, CurrentSchemaVersion
    <3> QED BY <1>7, <2>7, <3>1
  <2>8. CASE v = 7
    <3>1. Migration[7] = migrateVersion7ToVersion8
      BY DEF Migration, CurrentSchemaVersion
    <3> QED BY <1>8, <2>8, <3>1
  <2>9. CASE v = 8
    <3>1. Migration[8] = migrateVersion8ToVersion9
      BY DEF Migration, CurrentSchemaVersion
    <3> QED BY <1>9, <2>9, <3>1
  <2>10. CASE v = 9
    <3>1. Migration[9] = migrateVersion9ToVersion10
      BY DEF Migration, CurrentSchemaVersion
    <3> QED BY <1>10, <2>10, <3>1
  <2>11. CASE v = 11
    <3>1. Migration[11] = migrateVersion11ToVersion12
      BY DEF Migration, CurrentSchemaVersion
    <3> QED BY <1>11, <2>11, <3>1
  <2>12. CASE v = 12
    <3>1. Migration[12] = migrateVersion12ToVersion13
      BY DEF Migration, CurrentSchemaVersion
    <3> QED BY <1>12, <2>12, <3>1
  <2>13. CASE v = 13
    <3>1. Migration[13] = migrateVersion13ToVersion14
      BY DEF Migration, CurrentSchemaVersion
    <3> QED BY <1>13, <2>13, <3>1
  <2>14. CASE v = 14
    <3>1. Migration[14] = migrateVersion14ToVersion15
      BY DEF Migration, CurrentSchemaVersion
    <3> QED BY <1>14, <2>14, <3>1
  <2>15. CASE v = 15
    <3>1. Migration[15] = migrateVersion15ToVersion16
      BY DEF Migration, CurrentSchemaVersion
    <3> QED BY <1>15, <2>15, <3>1
  <2>16. CASE v = 16
    <3>1. Migration[16] = migrateVersion16ToVersion17
      BY DEF Migration, CurrentSchemaVersion
    <3> QED BY <1>16, <2>16, <3>1
  <2>17. CASE v = 17
    <3>1. Migration[17] = migrateVersion17ToVersion18
      BY DEF Migration, CurrentSchemaVersion
    <3> QED BY <1>17, <2>17, <3>1
  <2>18. CASE v = 18
    <3>1. Migration[18] = migrateVersion18ToVersion19
      BY DEF Migration, CurrentSchemaVersion
    <3> QED BY <1>18, <2>18, <3>1
  <2>19. CASE v = 19
    <3>1. Migration[19] = migrateVersion19ToVersion20
      BY DEF Migration, CurrentSchemaVersion
    <3> QED BY <1>19, <2>19, <3>1
  <2>20. CASE v = 20
    <3>1. Migration[20] = migrateVersion20ToVersion21
      BY DEF Migration, CurrentSchemaVersion
    <3> QED BY <1>20, <2>20, <3>1
  <2>21. CASE v = 21
    <3>1. Migration[21] = migrateVersion21ToVersion22
      BY DEF Migration, CurrentSchemaVersion
    <3> QED BY <1>21, <2>21, <3>1
  <2>22. CASE v = 22
    <3>1. Migration[22] = <<>>
      BY DEF Migration, CurrentSchemaVersion
    <3> QED BY <1>22, <2>22, <3>1
  <2>23. CASE v = 23
    <3>1. Migration[23] = migrateVersion23ToVersion24
      BY DEF Migration, CurrentSchemaVersion
    <3> QED BY <1>23, <2>23, <3>1
  <2>24. CASE v = 24
    <3>1. Migration[24] = migrateVersion24ToVersion25
      BY DEF Migration, CurrentSchemaVersion
    <3> QED BY <1>24, <2>24, <3>1
  <2>25. CASE v = 25
    <3>1. Migration[25] = migrateVersion25ToVersion26
      BY DEF Migration, CurrentSchemaVersion
    <3> QED BY <1>25, <2>25, <3>1
  <2>26. CASE v = 26
    <3>1. Migration[26] = migrateVersion26ToVersion27
      BY DEF Migration, CurrentSchemaVersion
    <3> QED BY <1>26, <2>26, <3>1
  <2>27. CASE v = 27
    <3>1. Migration[27] = migrateVersion27ToVersion28
      BY DEF Migration, CurrentSchemaVersion
    <3> QED BY <1>27, <2>27, <3>1
  <2>28. CASE v = 28
    <3>1. Migration[28] = migrateVersion28ToVersion29
      BY DEF Migration, CurrentSchemaVersion
    <3> QED BY <1>28, <2>28, <3>1
  <2>29. CASE v = 29
    <3>1. Migration[29] = migrateVersion29ToVersion30
      BY DEF Migration, CurrentSchemaVersion
    <3> QED BY <1>29, <2>29, <3>1
  <2>30. CASE v = 30
    <3>1. Migration[30] = migrateVersion30ToVersion31
      BY DEF Migration, CurrentSchemaVersion
    <3> QED BY <1>30, <2>30, <3>1
  <2>31. CASE v = 31
    <3>1. Migration[31] = migrateVersion31ToVersion32
      BY DEF Migration, CurrentSchemaVersion
    <3> QED BY <1>31, <2>31, <3>1
  <2>32. CASE v = 32
    <3>1. Migration[32] = migrateVersion32ToVersion33
      BY DEF Migration, CurrentSchemaVersion
    <3> QED BY <1>32, <2>32, <3>1
  <2>33. CASE v = 33
    <3>1. Migration[33] = migrateVersion33ToVersion34
      BY DEF Migration, CurrentSchemaVersion
    <3> QED BY <1>33, <2>33, <3>1
  <2>34. CASE v = 34
    <3>1. Migration[34] = migrateVersion34ToVersion35
      BY DEF Migration, CurrentSchemaVersion
    <3> QED BY <1>34, <2>34, <3>1
  <2> QED BY <1>35, <2>1, <2>2, <2>3, <2>4, <2>5, <2>6, <2>7, <2>8, <2>9, <2>10, <2>11, <2>12, <2>13, <2>14, <2>15, <2>16, <2>17, <2>18, <2>19, <2>20, <2>21, <2>22, <2>23, <2>24, <2>25, <2>26, <2>27, <2>28, <2>29, <2>30, <2>31, <2>32, <2>33, <2>34
<1> QED BY <1>35

-----------------------------------------------------------------------------
(* The shape that each version names                                       *)

(* What the migration from version n makes of the shape D.                 *)
Upgraded(n, D) ==
  Runs(D, FALSE, IF n = 10 /\ BuildAccepts(D, "Cancelled") THEN <<>> ELSE Migration[n]).shape

LEMMA MigratedIs ==
  ASSUME NEW d
  PROVE  /\ Migrated(d).shape = Upgraded(d.version, d.shape)
         /\ Migrated(d).version = d.version + 1
         /\ Migrated(d).rows = MigratedRows(d.version, d.rows)
BY DEF Migrated, Upgraded, Statements

LEMMA ShapesAre ==
  /\ ShapeOf[0] = {}
  /\ \A n \in 0 .. 34 : ShapeOf[n + 1] = Upgraded(n, ShapeOf[n])
<1> DEFINE N == CurrentSchemaVersion
           U(n, D) == Migrated([version |-> n, shape |-> D, rows |-> {}]).shape
           Chain(f, k) == f[0] = {} /\ \A j \in 1 .. k : f[j] = U(j - 1, f[j - 1])
           Equation(f) == f = [n \in 0 .. N |-> IF n = 0 THEN {} ELSE U(n - 1, f[n - 1])]
           G == {k \in 0 .. N : \E f : Chain(f, k)}
<1>1. N = 35 /\ N \in Nat
  BY DEF CurrentSchemaVersion
<1>2. ASSUME NEW n, NEW D PROVE U(n, D) = Upgraded(n, D)
  BY MigratedIs
<1> HIDE DEF U, N
<1>3. 0 \in G
  <2> DEFINE f == [j \in 0 .. 0 |-> {}]
  <2>0. f[0] = {} /\ 1 .. 0 = {}
    OBVIOUS
  <2> HIDE DEF f
  <2>1. Chain(f, 0)
    BY <2>0
  <2> QED BY <1>1, <2>1
<1>4. ASSUME NEW k \in 0 .. (N - 1), k \in G PROVE k + 1 \in G
  <2>1. PICK f : Chain(f, k)
    BY <1>4
  <2> DEFINE g == [j \in 0 .. (k + 1) |-> IF j = k + 1 THEN U(k, f[k]) ELSE f[j]]
  <2>2. g[0] = {}
    BY <1>1, <2>1
  <2>3. ASSUME NEW j \in 1 .. (k + 1) PROVE g[j] = U(j - 1, g[j - 1])
    <3>1. CASE j = k + 1
      <4>1. j - 1 = k /\ k \in 0 .. (k + 1) /\ k # k + 1 /\ j \in 0 .. (k + 1)
        BY <1>1, <3>1
      <4> QED BY <3>1, <4>1
    <3>2. CASE j # k + 1
      <4>1. j \in 1 .. k /\ j - 1 \in 0 .. (k + 1) /\ j \in 0 .. (k + 1) /\ j - 1 # k + 1
        BY <1>1, <3>2
      <4>2. f[j] = U(j - 1, f[j - 1])
        BY <2>1, <4>1
      <4> QED BY <3>2, <4>1, <4>2
    <3> QED BY <3>1, <3>2
  <2> HIDE DEF g
  <2>4. Chain(g, k + 1)
    BY <2>2, <2>3
  <2>5. k + 1 \in 0 .. N
    BY <1>1
  <2> QED BY <2>4, <2>5
<1>5. \E f : Chain(f, N)
  <2>1. 0 .. N \subseteq G
    <3> HIDE DEF G
    <3> QED BY <1>1, <1>3, <1>4, UpTo
  <2> QED BY <1>1, <2>1
<1>6. PICK f : Chain(f, N)
  BY <1>5
<1> DEFINE h == [n \in 0 .. N |-> f[n]]
<1>7. Equation(h)
  <2>1. ASSUME NEW n \in 0 .. N PROVE h[n] = IF n = 0 THEN {} ELSE U(n - 1, h[n - 1])
    <3>1. CASE n = 0
      BY <1>6, <3>1
    <3>2. CASE n # 0
      <4>1. n \in 1 .. N /\ n - 1 \in 0 .. N
        BY <1>1, <3>2
      <4>2. f[n] = U(n - 1, f[n - 1])
        BY <1>6, <4>1
      <4> QED BY <3>2, <4>1, <4>2
    <3> QED BY <3>1, <3>2
  <2> QED BY <2>1
<1>8. Equation(ShapeOf)
  <2>1. ShapeOf = CHOOSE x : Equation(x)
    BY DEF ShapeOf, U, N
  <2> HIDE DEF Equation
  <2> QED BY <1>7, <2>1
<1> HIDE DEF h
<1>9. ShapeOf[0] = {}
  BY <1>1, <1>8
<1>10. ASSUME NEW n \in 0 .. 34 PROVE ShapeOf[n + 1] = U(n, ShapeOf[n])
  <2>1. n + 1 \in 0 .. N /\ n + 1 # 0 /\ (n + 1) - 1 = n
    BY <1>1
  <2> QED BY <1>8, <2>1
<1> QED BY <1>2, <1>9, <1>10

(* What a fine list of statements is.                                      *)
LEMMA ListIs ==
  ASSUME NEW v, NEW q, FineList(v, q)
  PROVE  \E n \in Nat : /\ DOMAIN q = 1 .. n
                        /\ \A k \in 1 .. n : Fine(v, q[k])
                        /\ \A s \in Range(q) : \E k \in 1 .. n : q[k] = s
<1>1. q \in Seq(Range(q)) /\ \A s \in Range(q) : Fine(v, s)
  BY DEF FineList
<1>2. \A k \in DOMAIN q : q[k] \in Range(q)
  BY DEF Range
<1>3. \A s \in Range(q) : \E k \in DOMAIN q : q[k] = s
  BY DEF Range
<1>4. DOMAIN q = 1 .. Len(q) /\ Len(q) \in Nat
  BY <1>1
<1> QED BY <1>1, <1>2, <1>3, <1>4

LEMMA UpgradedIs ==
  ASSUME NEW v \in 0 .. 34, v # 10, NEW D
  PROVE  Upgraded(v, D) = Runs(D, FALSE, Migration[v]).shape
BY DEF Upgraded

LEMMA UpgradedBounded ==
  ASSUME NEW v \in 0 .. 34, v # 10, NEW D
  PROVE  /\ v < 26 /\ Bounded(D, "build", BuildAt(v), {}) =>
              Bounded(Upgraded(v, D), "build", BuildAt(v + 1), {})
         /\ v < 15 /\ Bounded(D, "inventory_record", RecordThings, Passing) =>
              Bounded(Upgraded(v, D), "inventory_record", RecordThings, Passing)
         /\ v < 21 /\ Bounded(D, "build_allocation", AllocationThings, Passing) =>
              Bounded(Upgraded(v, D), "build_allocation", AllocationThings, Passing)
<1> DEFINE q == Migration[v]
<1>1. PICK n \in Nat : DOMAIN q = 1 .. n /\ \A k \in 1 .. n : Fine(v, q[k])
  BY MigrationsFine, ListIs
<1>2. Upgraded(v, D) = Runs(D, FALSE, q).shape
  BY UpgradedIs
<1> HIDE DEF q
<1>3. \A k \in 1 .. n : \A x \in q[k].of : x[1] = q[k].on
  BY <1>1 DEF Fine
<1>4. ASSUME v < 26, Bounded(D, "build", BuildAt(v), {})
      PROVE  Bounded(Upgraded(v, D), "build", BuildAt(v + 1), {})
  <2>1. BuildAt(v) \subseteq BuildAt(v + 1)
    BY BuildGrows
  <2>2. Bounded(D, "build", BuildAt(v + 1), {})
    BY <1>4, <2>1 DEF Bounded
  <2>3. \A k \in 1 .. n : q[k].on = "build" =>
          TableOf("build") \subseteq BuildAt(v + 1) /\ Bounded(q[k].of, "build", BuildAt(v + 1), {})
    BY <1>1, <1>4 DEF Fine
  <2> QED BY <1>1, <1>2, <1>3, <2>2, <2>3, RunsBounded
<1>5. ASSUME v < 15, Bounded(D, "inventory_record", RecordThings, Passing)
      PROVE  Bounded(Upgraded(v, D), "inventory_record", RecordThings, Passing)
  <2>1. TableOf("inventory_record") \subseteq RecordThings
    BY DEF RecordThings
  <2>2. \A k \in 1 .. n : q[k].on = "inventory_record" =>
          Bounded(q[k].of, "inventory_record", RecordThings, Passing)
    BY <1>1, <1>5 DEF Fine
  <2> QED BY <1>1, <1>2, <1>3, <1>5, <2>1, <2>2, RunsBounded
<1>6. ASSUME v < 21, Bounded(D, "build_allocation", AllocationThings, Passing)
      PROVE  Bounded(Upgraded(v, D), "build_allocation", AllocationThings, Passing)
  <2>1. TableOf("build_allocation") \subseteq AllocationThings
    BY DEF AllocationThings
  <2>2. \A k \in 1 .. n : q[k].on = "build_allocation" =>
          Bounded(q[k].of, "build_allocation", AllocationThings, Passing)
    BY <1>1, <1>6 DEF Fine
  <2> QED BY <1>1, <1>2, <1>3, <1>6, <2>1, <2>2, RunsBounded
<1> QED BY <1>4, <1>5, <1>6

(* What the migration from version v does not take away.                   *)
Stays(v, x) ==
  /\ v = 15 /\ x[1] = "inventory_record" => x \in RecordThings
  /\ v = 21 /\ x[1] = "build_allocation" => x \in AllocationThings
  /\ v = 26 /\ x[1] = "build" => x \in LaterBuild /\ x[2] \notin Passing

LEMMA UpgradedKeeps ==
  ASSUME NEW v \in 0 .. 34, v # 10, NEW D, NEW x, Stays(v, x),
         x \in D \/ \E s \in Range(Migration[v]) : s.op # "create" /\ x \in TableOf(s.on) \cup s.of
  PROVE  x \in Upgraded(v, D)
<1> DEFINE q == Migration[v]
<1>1. PICK n \in Nat : /\ DOMAIN q = 1 .. n
                       /\ \A k \in 1 .. n : Fine(v, q[k])
                       /\ \A s \in Range(q) : \E k \in 1 .. n : q[k] = s
  BY MigrationsFine, ListIs
<1>2. Upgraded(v, D) = Runs(D, FALSE, q).shape
  BY UpgradedIs
<1>3. x \in D \/ \E s \in Range(q) : s.op # "create" /\ x \in TableOf(s.on) \cup s.of
  OBVIOUS
<1> HIDE DEF q
<1>4. Survives(q, n, x)
  <2> SUFFICES ASSUME NEW k \in 1 .. n, q[k].op = "rebuild", q[k].on = x[1]
               PROVE  x \in TableOf(x[1]) \cup q[k].of
    BY DEF Survives
  <2>1. Fine(v, q[k])
    BY <1>1
  <2>2. CASE v = 15 /\ q[k].on = "inventory_record" /\ RecordThings \subseteq TableOf(q[k].on) \cup q[k].of
    BY <2>2 DEF Stays
  <2>3. CASE v = 21 /\ q[k].on = "build_allocation" /\ AllocationThings \subseteq TableOf(q[k].on) \cup q[k].of
    BY <2>3 DEF Stays
  <2>4. CASE /\ v = 26 /\ q[k].on = "build"
             /\ {y \in LaterBuild : y[2] \notin Passing} \subseteq TableOf(q[k].on) \cup q[k].of
    BY <2>4 DEF Stays
  <2> QED BY <2>1, <2>2, <2>3, <2>4 DEF Fine
<1>5. x \in D \/ \E k \in 1 .. n : q[k].op # "create" /\ x \in TableOf(q[k].on) \cup q[k].of
  BY <1>1, <1>3
<1>6. x \in Runs(D, FALSE, q).shape
  BY <1>1, <1>4, <1>5, RunsKeeps
<1> QED BY <1>2, <1>6

-----------------------------------------------------------------------------
(* Which statements some migrations have                                   *)

LEMMA JoinedLists ==
  ASSUME NEW a, NEW b, NEW S, NEW T, IsList(a, S), IsList(b, T)
  PROVE  IsList(a \o b, S \cup T)
BY RangeOfJoined DEF IsList

LEMMA Positions ==
  ASSUME NEW a, NEW b, NEW S, NEW T, IsList(a, S), IsList(b, T)
  PROVE  /\ Len(a) \in Nat /\ Len(b) \in Nat
         /\ DOMAIN (a \o b) = 1 .. (Len(a) + Len(b)) /\ Len(a \o b) = Len(a) + Len(b)
         /\ \A k \in 1 .. Len(a) : (a \o b)[k] = a[k]
         /\ \A k \in (Len(a) + 1) .. (Len(a) + Len(b)) : (a \o b)[k] \in T
<1> DEFINE c == a \o b
<1>1. a \in Seq(S) /\ b \in Seq(T)
  BY DEF IsList
<1>2. Len(a) \in Nat /\ Len(b) \in Nat
  BY <1>1
<1>3. a \in [1 .. Len(a) -> S] /\ b \in [1 .. Len(b) -> T]
  BY <1>1
<1> DEFINE U == S \cup T
<1>4. a \in Seq(U) /\ b \in Seq(U)
  BY <1>2, <1>3
<1> HIDE DEF U
<1>5. /\ c \in Seq(U) /\ Len(c) = Len(a) + Len(b)
      /\ \A i \in 1 .. (Len(a) + Len(b)) : c[i] = IF i <= Len(a) THEN a[i] ELSE b[i - Len(a)]
  BY <1>4
<1> HIDE DEF c
<1>6. DOMAIN c = 1 .. (Len(a) + Len(b))
  BY <1>5
<1>7. \A k \in 1 .. Len(a) : c[k] = a[k]
  BY <1>2, <1>5
<1>8. ASSUME NEW k \in (Len(a) + 1) .. (Len(a) + Len(b)) PROVE c[k] \in T
  <2>1. k \in 1 .. (Len(a) + Len(b)) /\ ~(k <= Len(a)) /\ k - Len(a) \in 1 .. Len(b)
    BY <1>2
  <2> QED BY <1>3, <1>5, <2>1
<1> QED BY <1>2, <1>5, <1>6, <1>7, <1>8 DEF c

SeedsOfTypes == Ensure("storage_location_type", Of("row", {"Area", "Bag", "Box"}))

LEMMA Seeds ==
  /\ SeedsOfTypes \in Range(Migration[1])
  /\ IsList(seedStorageLocationTypes, {SeedsOfTypes})
<1> DEFINE a == createColorTable \o createPartCategoryTable \o createStorageLocationTypeTable
                  \o createStorageLocationTable
<1>1. IsList(seedStorageLocationTypes, {SeedsOfTypes})
  BY Tuples DEF seedStorageLocationTypes, SeedsOfTypes
<1>2. PlainList(a)
  BY PlainLists, ListsJoined
<1>3. Migration[1] = a \o seedStorageLocationTypes
  BY DEF Migration, CurrentSchemaVersion, migrateVersion1ToVersion2
<1> HIDE DEF a
<1>4. IsList(a, Range(a))
  BY <1>2 DEF PlainList, IsList
<1>5. IsList(Migration[1], Range(a) \cup {SeedsOfTypes})
  BY <1>1, <1>3, <1>4, JoinedLists
<1> QED BY <1>1, <1>5 DEF IsList

LEMMA BagAndOrigin ==
  /\ Ensure("storage_location_type", Of("row", {"Bag"})) \in Range(Migration[20])
  /\ Ensure("manufacturer", Columns({"origin"})) \in Range(Migration[28])
<1>1. /\ Migration[20] = <<Ensure("storage_location_type", Of("row", {"Bag"}))>>
      /\ Migration[28] = <<Ensure("manufacturer", Columns({"origin"}))>>
  BY DEF Migration, CurrentSchemaVersion, migrateVersion20ToVersion21, migrateVersion28ToVersion29
<1>2. \A s : s \in Range(<<s>>)
  BY Tuples DEF IsList
<1> QED BY <1>1, <1>2

BuildCreated == Create("build", BuildColumns \cup {<<"accepts", "Cancelled">>})
BuildIndexed == Index("build", {"idx_build_workspace"})
RequirementIndexed == Index("build_requirement", {"idx_build_requirement_build", "idx_build_requirement_part_color"})
AllocationIndexed == Index("build_allocation", {"idx_build_allocation_build", "idx_build_allocation_inventory"})
ActiveIndexed == Index("build", {"idx_build_workspace_active"})

LEMMA IndexesOfBuilds == IsList(createBuildIndexes, {BuildIndexed, RequirementIndexed, AllocationIndexed})
BY Tuples DEF createBuildIndexes, BuildIndexed, RequirementIndexed, AllocationIndexed

LEMMA StatementsOfBuilds ==
  /\ Migration[5][1] = BuildCreated /\ BuildCreated \in Range(Migration[5])
  /\ {BuildIndexed, RequirementIndexed, AllocationIndexed} \subseteq Range(Migration[5])
  /\ Add("build", "inventory_mode") \in Range(Migration[6])
  /\ Add("build", "is_active") \in Range(Migration[9])
  /\ ActiveIndexed \in Range(Migration[9])
<1> DEFINE s2 == Table("build_requirement")
           s3 == Create("build_allocation", AllocationColumns \cup {<<"unique", "build, record">>})
           a == createBuildTable
           b == createBuildTable \o createBuildRequirementTable
           c == createBuildTable \o createBuildRequirementTable \o createBuildAllocationTable
           d == c \o createBuildIndexes
           T == {BuildIndexed, RequirementIndexed, AllocationIndexed}
<1>1. Migration[5] = d
  BY DEF Migration, CurrentSchemaVersion, migrateVersion5ToVersion6
<1>2. a = <<BuildCreated>> /\ createBuildRequirementTable = <<s2>> /\ createBuildAllocationTable = <<s3>>
  BY DEF createBuildTable, createBuildRequirementTable, createBuildAllocationTable, BuildCreated
<1> HIDE DEF s2, s3
<1>3. IsList(a, {BuildCreated}) /\ IsList(createBuildRequirementTable, {s2}) /\ IsList(createBuildAllocationTable, {s3})
  BY <1>2, Tuples
<1>4. IsList(b, {BuildCreated} \cup {s2})
  BY <1>3, JoinedLists
<1>5. IsList(c, ({BuildCreated} \cup {s2}) \cup {s3})
  BY <1>3, <1>4, JoinedLists
<1>6. IsList(d, (({BuildCreated} \cup {s2}) \cup {s3}) \cup T)
  BY <1>5, IndexesOfBuilds, JoinedLists
<1>7. a[1] = BuildCreated /\ Len(a) = 1
  BY <1>2
<1>8. b[1] = BuildCreated /\ Len(b) \in Nat /\ Len(b) >= 1
  <2>1. /\ Len(a) \in Nat /\ Len(createBuildRequirementTable) \in Nat
        /\ Len(b) = Len(a) + Len(createBuildRequirementTable)
        /\ \A k \in 1 .. Len(a) : b[k] = a[k]
    BY <1>3, Positions
  <2> HIDE DEF a, b
  <2> QED BY <1>7, <2>1
<1>9. c[1] = BuildCreated /\ Len(c) \in Nat /\ Len(c) >= 1
  <2>1. /\ Len(b) \in Nat /\ Len(createBuildAllocationTable) \in Nat
        /\ Len(c) = Len(b) + Len(createBuildAllocationTable)
        /\ \A k \in 1 .. Len(b) : c[k] = b[k]
    BY <1>3, <1>4, Positions
  <2> HIDE DEF b, c
  <2> QED BY <1>8, <2>1
<1>10. d[1] = BuildCreated
  <2>1. /\ Len(c) \in Nat /\ \A k \in 1 .. Len(c) : d[k] = c[k]
    BY <1>5, IndexesOfBuilds, Positions
  <2> HIDE DEF c, d
  <2> QED BY <1>9, <2>1
<1>11. BuildCreated \in Range(d) /\ T \subseteq Range(d)
  <2> HIDE DEF T, d
  <2> QED BY <1>6 DEF IsList
<1>12. Add("build", "inventory_mode") \in Range(Migration[6])
  <2>1. Migration[6] = <<Add("build", "inventory_mode")>>
    BY DEF Migration, CurrentSchemaVersion, migrateVersion6ToVersion7
  <2>2. \A s : s \in Range(<<s>>)
    BY Tuples DEF IsList
  <2> QED BY <2>1, <2>2
<1>13. Add("build", "is_active") \in Range(Migration[9]) /\ ActiveIndexed \in Range(Migration[9])
  <2>1. Migration[9] = <<Add("build", "is_active"), ActiveIndexed>>
    BY DEF Migration, CurrentSchemaVersion, migrateVersion9ToVersion10, ActiveIndexed
  <2> DEFINE s == Add("build", "is_active")
  <2>2. IsList(<<s, ActiveIndexed>>, {s, ActiveIndexed})
    BY Tuples
  <2> HIDE DEF s
  <2>3. {s, ActiveIndexed} = Range(<<s, ActiveIndexed>>)
    BY <2>2 DEF IsList
  <2> QED BY <2>1, <2>3 DEF s
<1> QED
  <2> HIDE DEF d, T
  <2> QED BY <1>1, <1>10, <1>11, <1>12, <1>13 DEF T

-----------------------------------------------------------------------------
(* What the shapes of the versions have, and what they do not have         *)

(* A thing of one version is a thing of later ones.                        *)
LEMMA ShapesKeep ==
  ASSUME NEW a \in 0 .. 35, NEW b \in 0 .. 35, a <= b, NEW x, x \in ShapeOf[a],
         \A v \in a .. (b - 1) : Stays(v, x) /\ (v = 10 => ShapeOf[11] = ShapeOf[10])
  PROVE  x \in ShapeOf[b]
<1> DEFINE G == {k \in 0 .. b : k >= a => x \in ShapeOf[k]}
<1>1. 0 \in G
  OBVIOUS
<1>2. ASSUME NEW k \in 0 .. (b - 1), k \in G PROVE k + 1 \in G
  <2>1. k \in 0 .. 34 /\ k + 1 \in 0 .. b
    OBVIOUS
  <2>2. CASE k < a
    <3>1. CASE k + 1 = a
      BY <2>1, <3>1
    <3>2. CASE k + 1 # a
      BY <2>1, <2>2, <3>2
    <3> QED BY <3>1, <3>2
  <2>3. CASE ~(k < a)
    <3>1. k \in a .. (b - 1) /\ x \in ShapeOf[k]
      BY <1>2, <2>3
    <3>2. ShapeOf[k + 1] = Upgraded(k, ShapeOf[k])
      BY <2>1, ShapesAre
    <3>3. CASE k = 10
      BY <2>1, <3>1, <3>3
    <3>4. CASE k # 10
      <4>1. x \in ShapeOf[k + 1]
        BY <2>1, <3>1, <3>2, <3>4, UpgradedKeeps
      <4> QED BY <2>1, <4>1
    <3> QED BY <3>3, <3>4
  <2> QED BY <2>2, <2>3
<1>3. 0 .. b \subseteq G
  <2> HIDE DEF G
  <2> QED BY <1>1, <1>2, UpTo
<1> QED BY <1>3

Bounds(v) ==
  /\ Bounded(ShapeOf[v], "build", BuildAt(v), {})
  /\ v <= 15 => Bounded(ShapeOf[v], "inventory_record", RecordThings, Passing)
  /\ v <= 21 => Bounded(ShapeOf[v], "build_allocation", AllocationThings, Passing)

LEMMA BoundsStep ==
  ASSUME NEW v \in 0 .. 25, v # 10, Bounds(v)
  PROVE  Bounds(v + 1)
<1>1. ShapeOf[v + 1] = Upgraded(v, ShapeOf[v])
  BY ShapesAre
<1>2. Bounded(ShapeOf[v + 1], "build", BuildAt(v + 1), {})
  BY <1>1, UpgradedBounded DEF Bounds
<1>3. v + 1 <= 15 => Bounded(ShapeOf[v + 1], "inventory_record", RecordThings, Passing)
  BY <1>1, UpgradedBounded DEF Bounds
<1>4. v + 1 <= 21 => Bounded(ShapeOf[v + 1], "build_allocation", AllocationThings, Passing)
  BY <1>1, UpgradedBounded DEF Bounds
<1> QED BY <1>2, <1>3, <1>4 DEF Bounds

LEMMA BoundsEarly == \A v \in 0 .. 10 : Bounds(v)
<1> DEFINE G == {v \in 0 .. 10 : Bounds(v)}
<1>1. 0 \in G
  BY ShapesAre DEF Bounds, Bounded
<1>2. ASSUME NEW k \in 0 .. (10 - 1), k \in G PROVE k + 1 \in G
  BY <1>2, BoundsStep
<1>3. 0 .. 10 \subseteq G
  <2> HIDE DEF G
  <2> QED BY <1>1, <1>2, UpTo
<1> QED BY <1>3

(* What the indexes of version 5 are on.                                   *)
OthersIndexed ==
  TableOf("build_requirement") \cup RequirementIndexed.of
    \cup TableOf("build_allocation") \cup AllocationIndexed.of

LEMMA StatementsAdd ==
  ASSUME NEW v \in 0 .. 9, NEW s, s \in Range(Migration[v]), s.op = "extend"
  PROVE  TableOf(s.on) \cup s.of \subseteq ShapeOf[v + 1]
<1> SUFFICES ASSUME NEW x \in TableOf(s.on) \cup s.of PROVE x \in ShapeOf[v + 1]
  OBVIOUS
<1>1. Stays(v, x)
  BY DEF Stays
<1>2. x \in Upgraded(v, ShapeOf[v])
  BY <1>1, UpgradedKeeps
<1> QED BY <1>2, ShapesAre

LEMMA BuildsOfTen == NewBuild \cup OthersIndexed \subseteq ShapeOf[10]
<1>1. ASSUME NEW v \in 0 .. 10, NEW x \in ShapeOf[v] PROVE x \in ShapeOf[10]
  <2>1. \A u \in v .. (10 - 1) : Stays(u, x) /\ u # 10
    BY DEF Stays
  <2> QED BY <2>1, ShapesKeep
<1>2. TableOf("build") \cup BuildCreated.of \subseteq ShapeOf[6]
  <2> SUFFICES ASSUME NEW x \in TableOf("build") \cup BuildCreated.of PROVE x \in ShapeOf[6]
    OBVIOUS
  <2> DEFINE q == Migration[5]
  <2>1. PICK n \in Nat : /\ DOMAIN q = 1 .. n
                         /\ \A k \in 1 .. n : Fine(5, q[k])
                         /\ \A s \in Range(q) : \E k \in 1 .. n : q[k] = s
    <3>1. 5 \in 0 .. 34 /\ 5 # 10
      OBVIOUS
    <3>2. FineList(5, q)
      BY <3>1, MigrationsFine
    <3> HIDE DEF q
    <3> QED BY <3>2, ListIs
  <2>2. q[1] = BuildCreated /\ BuildCreated \in Range(q)
    BY StatementsOfBuilds
  <2>3. ShapeOf[6] = Runs(ShapeOf[5], FALSE, q).shape
    <3>1. 5 \in 0 .. 34 /\ 5 # 10 /\ 5 + 1 = 6
      OBVIOUS
    <3>2. ShapeOf[5 + 1] = Upgraded(5, ShapeOf[5])
      BY <3>1, ShapesAre
    <3>3. Upgraded(5, ShapeOf[5]) = Runs(ShapeOf[5], FALSE, q).shape
      BY <3>1, UpgradedIs
    <3> QED BY <3>1, <3>2, <3>3
  <2> HIDE DEF q
  <2>4. 1 \in 1 .. n
    BY <2>1, <2>2
  <2>5. BuildCreated.on = "build"
    <3>1. Made(BuildCreated, "create", "build", BuildColumns \cup {<<"accepts", "Cancelled">>})
      BY StatementsMade DEF BuildCreated
    <3> QED BY <3>1 DEF Made
  <2>6. Survives(q, n, x)
    BY <2>1 DEF Survives, Fine
  <2>7. <<"build", "table", "build">> \notin ShapeOf[5]
    <3>1. Bounds(5)
      BY BoundsEarly
    <3> QED BY <3>1 DEF Bounds, Bounded, BuildAt
  <2>8. \E k \in 1 .. n : /\ x \in TableOf(q[k].on) \cup q[k].of
                          /\ q[k].op = "create" => k = 1 /\ <<q[k].on, "table", q[k].on>> \notin ShapeOf[5]
    <3> DEFINE Adds(k) == /\ x \in TableOf(q[k].on) \cup q[k].of
                          /\ q[k].op = "create" => k = 1 /\ <<q[k].on, "table", q[k].on>> \notin ShapeOf[5]
    <3>1. Adds(1)
      BY <2>2, <2>5, <2>7
    <3> HIDE DEF Adds
    <3>2. \E k \in 1 .. n : Adds(k)
      BY <2>4, <3>1
    <3> QED BY <3>2 DEF Adds
  <2> DEFINE D == ShapeOf[5]
  <2>9. /\ ShapeOf[6] = Runs(D, FALSE, q).shape
        /\ \E k \in 1 .. n : /\ x \in TableOf(q[k].on) \cup q[k].of
                             /\ q[k].op = "create" => k = 1 /\ <<q[k].on, "table", q[k].on>> \notin D
    BY <2>3, <2>8
  <2> HIDE DEF D
  <2>10. x \in Runs(D, FALSE, q).shape
    BY <2>1, <2>6, <2>9, RunsKeeps
  <2> QED BY <2>9, <2>10
<1>3. OthersIndexed \subseteq ShapeOf[6] /\ BuildIndexed.of \subseteq ShapeOf[6]
  <2>1. /\ Made(RequirementIndexed, "extend", "build_requirement", Of("index", {"idx_build_requirement_build", "idx_build_requirement_part_color"}))
        /\ Made(AllocationIndexed, "extend", "build_allocation", Of("index", {"idx_build_allocation_build", "idx_build_allocation_inventory"}))
        /\ Made(BuildIndexed, "extend", "build", Of("index", {"idx_build_workspace"}))
    BY ShortForms DEF RequirementIndexed, AllocationIndexed, BuildIndexed
  <2>2. \A s \in {BuildIndexed, RequirementIndexed, AllocationIndexed} :
          s.op = "extend" => TableOf(s.on) \cup s.of \subseteq ShapeOf[5 + 1]
    BY StatementsAdd, StatementsOfBuilds
  <2> QED BY <2>1, <2>2 DEF OthersIndexed, Made
<1>4. Things("build", Columns({"inventory_mode"})) \subseteq ShapeOf[7]
  <2> DEFINE s == Add("build", "inventory_mode")
  <2>1. Made(s, "extend", "build", Columns({"inventory_mode"})) /\ s \in Range(Migration[6])
    BY ShortForms, StatementsOfBuilds
  <2> HIDE DEF s
  <2>2. TableOf(s.on) \cup s.of \subseteq ShapeOf[6 + 1]
    BY <2>1, StatementsAdd DEF Made
  <2> QED BY <2>1, <2>2 DEF Made
<1>5. Things("build", Columns({"is_active"})) \subseteq ShapeOf[10] /\ ActiveIndexed.of \subseteq ShapeOf[10]
  <2> DEFINE s == Add("build", "is_active")
  <2>1. Made(s, "extend", "build", Columns({"is_active"})) /\ s \in Range(Migration[9])
    BY ShortForms, StatementsOfBuilds
  <2>2. Made(ActiveIndexed, "extend", "build", Of("index", {"idx_build_workspace_active"})) /\ ActiveIndexed \in Range(Migration[9])
    BY ShortForms, StatementsOfBuilds DEF ActiveIndexed
  <2> HIDE DEF s
  <2>3. s.of \subseteq ShapeOf[9 + 1] /\ ActiveIndexed.of \subseteq ShapeOf[9 + 1]
    BY <2>1, <2>2, StatementsAdd DEF Made
  <2> QED BY <2>1, <2>3 DEF Made
<1>6. NewBuild \subseteq ShapeOf[10]
  <2>1. NewBuild = TableOf("build") \cup BuildCreated.of \cup BuildIndexed.of \cup ActiveIndexed.of
                     \cup Things("build", Columns({"inventory_mode"})) \cup Things("build", Columns({"is_active"}))
    <3>1. /\ BuildCreated.of = Things("build", BuildColumns \cup {<<"accepts", "Cancelled">>})
          /\ BuildIndexed.of = Things("build", Of("index", {"idx_build_workspace"}))
          /\ ActiveIndexed.of = Things("build", Of("index", {"idx_build_workspace_active"}))
      <4>1. Made(BuildCreated, "create", "build", BuildColumns \cup {<<"accepts", "Cancelled">>})
        BY StatementsMade DEF BuildCreated
      <4>2. Made(BuildIndexed, "extend", "build", Of("index", {"idx_build_workspace"}))
        BY ShortForms DEF BuildIndexed
      <4>3. Made(ActiveIndexed, "extend", "build", Of("index", {"idx_build_workspace_active"}))
        BY ShortForms DEF ActiveIndexed
      <4> QED BY <4>1, <4>2, <4>3 DEF Made
    <3>2. \A S, T : Things("build", S \cup T) = Things("build", S) \cup Things("build", T)
      BY DEF Things
    <3>3. /\ Columns({"inventory_mode", "is_active"}) = Columns({"inventory_mode"}) \cup Columns({"is_active"})
          /\ Of("index", {"idx_build_workspace", "idx_build_workspace_active"})
               = Of("index", {"idx_build_workspace"}) \cup Of("index", {"idx_build_workspace_active"})
      BY DEF Columns, Of
    <3> DEFINE A == BuildColumns
               B == Columns({"inventory_mode"})
               C == Columns({"is_active"})
               E == {<<"accepts", "Cancelled">>}
               I == Of("index", {"idx_build_workspace"})
               J == Of("index", {"idx_build_workspace_active"})
    <3>4. NewBuild = TableOf("build") \cup Things("build", A \cup (B \cup C) \cup E \cup (I \cup J))
      BY <3>3 DEF NewBuild
    <3> HIDE DEF A, B, C, E, I, J
    <3>5. Things("build", A \cup (B \cup C) \cup E \cup (I \cup J))
            = Things("build", A \cup E) \cup Things("build", B) \cup Things("build", C)
                \cup Things("build", I) \cup Things("build", J)
      <4>1. A \cup (B \cup C) \cup E \cup (I \cup J) = ((((A \cup E) \cup B) \cup C) \cup I) \cup J
        OBVIOUS
      <4>2. Things("build", A \cup (B \cup C) \cup E \cup (I \cup J))
              = Things("build", (((A \cup E) \cup B) \cup C) \cup I) \cup Things("build", J)
        BY <3>2, <4>1
      <4>3. /\ Things("build", (((A \cup E) \cup B) \cup C) \cup I)
                 = Things("build", ((A \cup E) \cup B) \cup C) \cup Things("build", I)
            /\ Things("build", ((A \cup E) \cup B) \cup C) = Things("build", (A \cup E) \cup B) \cup Things("build", C)
            /\ Things("build", (A \cup E) \cup B) = Things("build", A \cup E) \cup Things("build", B)
        BY <3>2
      <4> QED BY <4>2, <4>3
    <3> QED BY <3>1, <3>4, <3>5 DEF A, B, C, E, I, J
  <2>2. \A v \in 0 .. 10 : ShapeOf[v] \subseteq ShapeOf[10]
    BY <1>1
  <2>3. ShapeOf[6] \subseteq ShapeOf[10] /\ ShapeOf[7] \subseteq ShapeOf[10]
    BY <2>2
  <2> QED BY <1>2, <1>3, <1>4, <1>5, <2>1, <2>3
<1>7. OthersIndexed \subseteq ShapeOf[10]
  BY <1>1, <1>3
<1> QED BY <1>6, <1>7

(* No statement changes nothing.                                           *)
LEMMA NothingRuns == ASSUME NEW D PROVE Runs(D, FALSE, <<>>).shape = D
<1> DEFINE e == <<>>
           n == 0
<1>1. DOMAIN e = 1 .. n /\ n \in Nat
  OBVIOUS
<1> HIDE DEF e, n
<1>2. \A on : \E f : Trace(f, D, n, e) /\ Runs(D, on, e).shape = f[n]
  BY <1>1, RunsTrace
<1>3. \A on : Runs(D, on, e).shape = D
  BY <1>2 DEF Trace, n
<1>4. Runs(D, FALSE, e).shape = D
  BY <1>3
<1> QED BY <1>4 DEF e

Cancelled == <<"build", "accepts", "Cancelled">>

LEMMA TenIsEleven == Cancelled \in ShapeOf[10] /\ ShapeOf[11] = ShapeOf[10]
<1>1. Cancelled \in NewBuild
  <2>1. <<"accepts", "Cancelled">> \in BuildColumns \cup Columns({"inventory_mode", "is_active"})
                           \cup {<<"accepts", "Cancelled">>}
                           \cup Of("index", {"idx_build_workspace", "idx_build_workspace_active"})
    OBVIOUS
  <2> QED BY <2>1, ThingsHave DEF NewBuild, Cancelled
<1>2. Cancelled \in ShapeOf[10]
  BY <1>1, BuildsOfTen
<1>3. ShapeOf[10 + 1] = Upgraded(10, ShapeOf[10])
  <2>1. 10 \in 0 .. 34
    OBVIOUS
  <2> QED BY <2>1, ShapesAre
<1>4. Upgraded(10, ShapeOf[10]) = Runs(ShapeOf[10], FALSE, <<>>).shape
  BY <1>2 DEF Upgraded, BuildAccepts, Cancelled
<1>8. Upgraded(10, ShapeOf[10]) = ShapeOf[10]
  BY <1>4, NothingRuns
<1>9. 10 \in 0 .. 34 /\ 10 + 1 = 11
  OBVIOUS
<1> QED BY <1>2, <1>3, <1>8, <1>9

LEMMA BoundsAll == \A v \in 0 .. 26 : Bounds(v)
<1> DEFINE G == {v \in 0 .. 26 : Bounds(v)}
<1>1. 0 \in G
  BY BoundsEarly
<1>2. ASSUME NEW k \in 0 .. (26 - 1), k \in G PROVE k + 1 \in G
  <2>1. CASE k = 10
    <3>1. Bounds(10) /\ BuildAt(11) = BuildAt(10)
      BY BoundsEarly DEF BuildAt
    <3>2. Bounds(11)
      BY <3>1, TenIsEleven DEF Bounds
    <3> QED BY <2>1, <3>2
  <2>2. CASE k # 10
    BY <1>2, <2>2, BoundsStep
  <2> QED BY <2>1, <2>2
<1>3. 0 .. 26 \subseteq G
  <2> HIDE DEF G
  <2> QED BY <1>1, <1>2, UpTo
<1> QED BY <1>3

(* The seeded types are there from version 2 on.                           *)
LEMMA SeedsStay ==
  \A v \in 2 .. 35 : TableOf("storage_location_type") \cup SeedsOfTypes.of \subseteq ShapeOf[v]
<1>1. Made(SeedsOfTypes, "extend", "storage_location_type", Of("row", {"Area", "Bag", "Box"}))
  BY StatementsMade DEF SeedsOfTypes
<1>2. TableOf("storage_location_type") \cup SeedsOfTypes.of \subseteq ShapeOf[1 + 1]
  BY <1>1, Seeds, StatementsAdd DEF Made
<1> SUFFICES ASSUME NEW v \in 2 .. 35, NEW x \in TableOf("storage_location_type") \cup SeedsOfTypes.of
             PROVE  x \in ShapeOf[v]
  OBVIOUS
<1>3. x[1] = "storage_location_type"
  BY <1>1, TableIs DEF Made
<1>4. \A u \in 2 .. (v - 1) : Stays(u, x)
  BY <1>3 DEF Stays
<1>5. x \in ShapeOf[2]
  BY <1>2
<1> QED BY <1>4, <1>5, TenIsEleven, ShapesKeep

-----------------------------------------------------------------------------
(* The rebuild of build for version 11                                     *)

LEMMA KeptFrom ==
  ASSUME NEW f, NEW D, NEW n \in Nat, NEW q, Trace(f, D, n, q), NEW m \in 0 .. n,
         \A k \in 1 .. n : k > m => q[k].op # "rebuild"
  PROVE  f[m] \subseteq f[n]
<1> SUFFICES ASSUME NEW x \in f[m] PROVE x \in f[n]
  OBVIOUS
<1> DEFINE G == {k \in 0 .. n : k >= m => x \in f[k]}
<1>1. 0 \in G
  OBVIOUS
<1>2. ASSUME NEW k \in 0 .. (n - 1), k \in G PROVE k + 1 \in G
  <2>1. k + 1 \in 1 .. n /\ (k + 1) - 1 = k /\ k + 1 \in 0 .. n
    OBVIOUS
  <2>2. CASE k >= m
    <3>1. x \in f[k] /\ k + 1 > m
      BY <1>2, <2>2
    <3>2. f[k + 1] = After(f[k], q[k + 1]) /\ q[k + 1].op # "rebuild"
      BY <2>1, <3>1 DEF Trace
    <3>3. x \in f[k + 1]
      BY <3>1, <3>2 DEF After
    <3> QED BY <2>1, <3>3
  <2>3. CASE ~(k >= m)
    <3>1. k + 1 = m \/ ~(k + 1 >= m)
      BY <2>3
    <3> QED BY <2>1, <3>1
  <2> QED BY <2>2, <2>3
<1>3. 0 .. n \subseteq G
  <2> HIDE DEF G
  <2> QED BY <1>1, <1>2, UpTo
<1> QED BY <1>3

BuildRebuilt ==
  Rebuild("build", BuildColumns \cup Columns({"inventory_mode", "is_active"}), {<<"accepts", "Cancelled">>})

IndexedAnew == {BuildIndexed, RequirementIndexed, AllocationIndexed, ActiveIndexed}

LEMMA StatementsOfTen ==
  \E n \in Nat : /\ DOMAIN Migration[10] = 1 .. n /\ n >= 1
                 /\ Migration[10][1] = BuildRebuilt
                 /\ \A k \in 2 .. n : Migration[10][k] \in IndexedAnew
                 /\ \A s \in IndexedAnew : \E k \in 2 .. n : Migration[10][k] = s
<1> DEFINE T == {BuildIndexed, RequirementIndexed, AllocationIndexed}
           a == <<BuildRebuilt>>
           b == a \o createBuildIndexes
           z == <<ActiveIndexed>>
           q == b \o z
<1>1. Migration[10] = q
  BY DEF Migration, CurrentSchemaVersion, migrateVersion10ToVersion11, BuildRebuilt, ActiveIndexed
<1>2. a[1] = BuildRebuilt /\ Len(a) = 1 /\ Len(z) = 1
  OBVIOUS
<1>3. IsList(a, {BuildRebuilt}) /\ IsList(z, {ActiveIndexed})
  BY Tuples
<1>4. IsList(createBuildIndexes, T)
  BY IndexesOfBuilds
<1> HIDE DEF a, z, T
<1>5. IsList(b, {BuildRebuilt} \cup T)
  BY <1>3, <1>4, JoinedLists
<1>6. /\ Len(createBuildIndexes) \in Nat /\ Len(b) = 1 + Len(createBuildIndexes) /\ b[1] = BuildRebuilt
      /\ \A k \in 2 .. Len(b) : b[k] \in T
  <2>1. /\ Len(a) \in Nat /\ Len(createBuildIndexes) \in Nat
        /\ Len(b) = Len(a) + Len(createBuildIndexes)
        /\ \A k \in 1 .. Len(a) : b[k] = a[k]
        /\ \A k \in (Len(a) + 1) .. (Len(a) + Len(createBuildIndexes)) : b[k] \in T
    BY <1>3, <1>4, Positions
  <2> HIDE DEF b
  <2> QED BY <1>2, <2>1
<1> HIDE DEF b
<1>7. IsList(q, ({BuildRebuilt} \cup T) \cup {ActiveIndexed})
  BY <1>3, <1>5, JoinedLists
<1> DEFINE n == Len(b) + 1
<1>8. /\ n \in Nat /\ n >= 1 /\ DOMAIN q = 1 .. n /\ q[1] = BuildRebuilt
      /\ \A k \in 2 .. n : q[k] \in IndexedAnew
  <2>1. /\ DOMAIN q = 1 .. (Len(b) + Len(z))
        /\ \A k \in 1 .. Len(b) : q[k] = b[k]
        /\ \A k \in (Len(b) + 1) .. (Len(b) + Len(z)) : q[k] \in {ActiveIndexed}
    BY <1>3, <1>5, Positions
  <2> HIDE DEF q
  <2>2. \A k \in 2 .. n : q[k] \in T \cup {ActiveIndexed}
    BY <1>2, <1>6, <2>1
  <2>3. n \in Nat /\ n >= 1 /\ DOMAIN q = 1 .. n /\ q[1] = BuildRebuilt
    BY <1>2, <1>6, <2>1
  <2> QED BY <2>2, <2>3 DEF T, IndexedAnew
<1> HIDE DEF q
<1>9. \A s \in IndexedAnew : \E k \in 2 .. n : q[k] = s
  <2> SUFFICES ASSUME NEW s \in IndexedAnew PROVE \E k \in 2 .. n : q[k] = s
    OBVIOUS
  <2>1. s \in Range(q)
    BY <1>7 DEF IsList, IndexedAnew, T
  <2>2. PICK k \in 1 .. n : q[k] = s
    BY <1>8, <2>1 DEF Range
  <2>3. s.op # "rebuild" /\ BuildRebuilt.op = "rebuild"
    <3>1. /\ \A t, S : Index(t, S).op = "extend"
          /\ \A t, S, F : Rebuild(t, S, F).op = "rebuild"
      BY DEF Index, Ensure, Rebuild
    <3> QED BY <3>1 DEF IndexedAnew, BuildIndexed, RequirementIndexed, AllocationIndexed, ActiveIndexed, BuildRebuilt
  <2>4. k # 1
    BY <1>8, <2>2, <2>3
  <2> QED BY <2>2, <2>4
<1> HIDE DEF n
<1> QED BY <1>1, <1>8, <1>9

LEMMA TenRebuilt ==
  ASSUME NEW D, NEW U, U = Runs(D, FALSE, Migration[10]).shape
  PROVE  /\ U \subseteq D \cup NewBuild \cup OthersIndexed
         /\ NewBuild \subseteq U
         /\ \A x \in D : x[1] # "build" => x \in U
<1> DEFINE q == Migration[10]
           X == D \cup NewBuild \cup OthersIndexed
<1>1. PICK n \in Nat : /\ DOMAIN q = 1 .. n /\ n >= 1
                       /\ q[1] = BuildRebuilt
                       /\ \A k \in 2 .. n : q[k] \in IndexedAnew
                       /\ \A s \in IndexedAnew : \E k \in 2 .. n : q[k] = s
  BY StatementsOfTen
<1> HIDE DEF q
<1>2. \A on : \E f : Trace(f, D, n, q) /\ Runs(D, on, q).shape = f[n]
  BY <1>1, RunsTrace
<1>3. PICK f : Trace(f, D, n, q) /\ U = f[n]
  <2>1. U = Runs(D, FALSE, q).shape
    BY DEF q
  <2> QED BY <1>2, <2>1
<1>4. /\ Made(BuildRebuilt, "rebuild", "build", (BuildColumns \cup Columns({"inventory_mode", "is_active"}))
                                                  \cup {<<"accepts", "Cancelled">>})
      /\ Made(BuildIndexed, "extend", "build", Of("index", {"idx_build_workspace"}))
      /\ Made(ActiveIndexed, "extend", "build", Of("index", {"idx_build_workspace_active"}))
      /\ Made(RequirementIndexed, "extend", "build_requirement", Of("index", {"idx_build_requirement_build", "idx_build_requirement_part_color"}))
      /\ Made(AllocationIndexed, "extend", "build_allocation", Of("index", {"idx_build_allocation_build", "idx_build_allocation_inventory"}))
  <2>1. Made(BuildRebuilt, "rebuild", "build", (BuildColumns \cup Columns({"inventory_mode", "is_active"}))
                                                  \cup {<<"accepts", "Cancelled">>})
    BY StatementsMade DEF BuildRebuilt
  <2> QED BY <2>1, ShortForms DEF BuildIndexed, ActiveIndexed, RequirementIndexed, AllocationIndexed
<1>5. NewBuild = TableOf("build") \cup BuildRebuilt.of \cup BuildIndexed.of \cup ActiveIndexed.of
  <2> DEFINE C == BuildColumns \cup Columns({"inventory_mode", "is_active"}) \cup {<<"accepts", "Cancelled">>}
             I == Of("index", {"idx_build_workspace"})
             J == Of("index", {"idx_build_workspace_active"})
  <2>1. Of("index", {"idx_build_workspace", "idx_build_workspace_active"}) = I \cup J
    BY DEF Of
  <2>2. NewBuild = TableOf("build") \cup Things("build", C \cup (I \cup J))
    BY <2>1 DEF NewBuild
  <2>3. BuildRebuilt.of = Things("build", C) /\ BuildIndexed.of = Things("build", I) /\ ActiveIndexed.of = Things("build", J)
    BY <1>4 DEF Made
  <2> HIDE DEF C, I, J
  <2>4. Things("build", C \cup (I \cup J)) = Things("build", C) \cup Things("build", I) \cup Things("build", J)
    BY DEF Things
  <2> QED BY <2>2, <2>3, <2>4
<1>6. \A s \in IndexedAnew \cup {BuildRebuilt} : TableOf(s.on) \cup s.of \subseteq NewBuild \cup OthersIndexed
  BY <1>4, <1>5 DEF IndexedAnew, OthersIndexed, Made
<1>7. \A s \in IndexedAnew : s.op # "rebuild" /\ s.op # "create"
  BY <1>4 DEF IndexedAnew, Made
<1>8. f[n] \subseteq X
  <2> DEFINE G == {k \in 0 .. n : f[k] \subseteq X}
  <2>1. 0 \in G
    BY <1>3 DEF Trace
  <2>2. ASSUME NEW k \in 0 .. (n - 1), k \in G PROVE k + 1 \in G
    <3>1. k + 1 \in 1 .. n /\ (k + 1) - 1 = k /\ k + 1 \in 0 .. n /\ (k + 1 = 1 \/ k + 1 \in 2 .. n)
      OBVIOUS
    <3>2. f[k + 1] = After(f[k], q[k + 1])
      BY <1>3, <3>1 DEF Trace
    <3>3. q[k + 1] \in IndexedAnew \cup {BuildRebuilt}
      BY <1>1, <3>1
    <3>4. TableOf(q[k + 1].on) \cup q[k + 1].of \subseteq X
      BY <1>6, <3>3
    <3>5. f[k + 1] \subseteq f[k] \cup TableOf(q[k + 1].on) \cup q[k + 1].of
      BY <3>2 DEF After
    <3> HIDE DEF X
    <3> QED BY <2>2, <3>1, <3>4, <3>5
  <2>3. 0 .. n \subseteq G
    <3> HIDE DEF G
    <3> QED BY <2>1, <2>2, UpTo
  <2> QED BY <2>3
<1>9. f[1] = {x \in D : x[1] # "build"} \cup TableOf("build") \cup BuildRebuilt.of
  <2>1. 1 \in 1 .. n /\ 1 - 1 = 0
    BY <1>1
  <2>2. f[1] = After(D, BuildRebuilt)
    BY <1>1, <1>3, <2>1 DEF Trace
  <2>3. BuildRebuilt.op = "rebuild" /\ BuildRebuilt.on = "build"
    BY <1>4 DEF Made
  <2> QED BY <2>2, <2>3 DEF After
<1>10. f[1] \subseteq f[n]
  <2> DEFINE first == 1
  <2>1. first \in 0 .. n /\ \A k \in 1 .. n : k > first => q[k].op # "rebuild"
    BY <1>1, <1>7
  <2>2. n \in Nat /\ Trace(f, D, n, q)
    BY <1>1, <1>3
  <2>3. f[first] \subseteq f[n]
    <3> HIDE DEF first
    <3> QED BY <2>1, <2>2, KeptFrom
  <2> QED BY <2>3
<1>11. ASSUME NEW s \in IndexedAnew PROVE s.of \subseteq f[n]
  <2>1. PICK j \in 2 .. n : q[j] = s
    BY <1>1
  <2>2. j \in 0 .. n /\ j \in 1 .. n /\ \A k \in 1 .. n : k > j => q[k].op # "rebuild"
    BY <1>1, <1>7
  <2>3. f[j] = After(f[j - 1], s)
    BY <1>3, <2>1, <2>2 DEF Trace
  <2>4. s.of \subseteq f[j]
    BY <1>7, <2>3 DEF After
  <2>5. f[j] \subseteq f[n]
    BY <1>3, <2>2, KeptFrom
  <2> QED BY <2>4, <2>5
<1>12. BuildIndexed.of \subseteq f[n] /\ ActiveIndexed.of \subseteq f[n]
  BY <1>11 DEF IndexedAnew
<1>13. NewBuild \subseteq f[n]
  BY <1>5, <1>9, <1>10, <1>12
<1> QED BY <1>3, <1>8, <1>9, <1>10, <1>13

-----------------------------------------------------------------------------
(* One migration of a database that earlier releases made                  *)

Origin == <<"manufacturer", "column", "origin">>
Box == <<"storage_location_type", "row", "Box">>
Bag == <<"storage_location_type", "row", "Bag">>

(* What a database under way at version v may still lack. A committed one  *)
(* lacks Cancelled only where an earlier release left it out.              *)
Late(v) ==
  {x \in {Cancelled, Origin, Box, Bag} :
     /\ x = Cancelled => v \in 6 .. 10
     /\ x = Origin => v \in 15 .. 28
     /\ x = Box => v \in 2 .. 35
     /\ x = Bag => v \in 2 .. 20}

Shaped(d, L) ==
  d.version \in 0 .. 35 =>
    d.shape \subseteq ShapeOf[d.version] \cup SV /\ ShapeOf[d.version] \ d.shape \subseteq L

LEMMA LateAndOlder ==
  /\ \A v \in 0 .. 35 : Older(v) \subseteq Late(v)
  /\ \A v \in {11, 15, 16, 26, 27} : Late(v) \subseteq Older(v)
  /\ Older(35) = {}
  /\ \A v : \A x \in Late(v) : x[2] \in {"accepts", "column", "row"} /\ x[1] # "schema_version"
<1>1. /\ Cancelled # Origin /\ Cancelled # Box /\ Cancelled # Bag
      /\ Origin # Box /\ Origin # Bag /\ Box # Bag
  BY DEF Cancelled, Origin, Box, Bag
<1>2. \A v, x : x \in Older(v) <=>
        \/ v \in PlainBuilds /\ x = Cancelled
        \/ v \in 15 .. 28 /\ x = Origin
        \/ v \in 2 .. 34 /\ x = Box
        \/ v \in 2 .. 20 /\ x = Bag
  BY DEF Older, Cancelled, Origin, Box, Bag
<1>3. PlainBuilds \subseteq 6 .. 10
  BY DEF PlainBuilds
<1>4. \A v, x : x \in Late(v) <=>
        \/ x = Cancelled /\ v \in 6 .. 10
        \/ x = Origin /\ v \in 15 .. 28
        \/ x = Box /\ v \in 2 .. 35
        \/ x = Bag /\ v \in 2 .. 20
  BY <1>1 DEF Late
<1>5. \A v \in 0 .. 35 : Older(v) \subseteq Late(v)
  BY <1>2, <1>3, <1>4
<1>6. \A v \in {11, 15, 16, 26, 27} : Late(v) \subseteq Older(v)
  BY <1>2, <1>4
<1>7. Older(35) = {}
  BY <1>2, <1>3
<1>8. \A x \in {Cancelled, Origin, Box, Bag} : x[2] \in {"accepts", "column", "row"} /\ x[1] # "schema_version"
  BY DEF Cancelled, Origin, Box, Bag
<1>9. \A v : Late(v) \subseteq {Cancelled, Origin, Box, Bag}
  BY DEF Late
<1> QED BY <1>5, <1>6, <1>7, <1>8, <1>9

LEMMA LateIs ==
  ASSUME NEW v, NEW x
  PROVE  x \in Late(v) <=> \/ x = Cancelled /\ v \in 6 .. 10
                           \/ x = Origin /\ v \in 15 .. 28
                           \/ x = Box /\ v \in 2 .. 35
                           \/ x = Bag /\ v \in 2 .. 20
BY DEF Late, Cancelled, Origin, Box, Bag

LEMMA FineFollows ==
  ASSUME NEW v, NEW q, FineList(v, q), NEW D, NEW F, Lacks(D, F)
  PROVE  \A on : Follows(D, F, Runs(D, on, q).shape, Runs(F, on, q).shape)
<1>1. PICK n \in Nat : DOMAIN q = 1 .. n /\ \A k \in 1 .. n : Fine(v, q[k])
  BY ListIs
<1>2. \A k \in 1 .. n : q[k].on # "schema_version"
  BY <1>1 DEF Fine
<1> QED BY <1>1, <1>2, RunsFollows

(* A database that has all its version names but what earlier releases     *)
(* left out has so at the next version.                                    *)
LEMMA UpgradedFollows ==
  ASSUME NEW v \in 0 .. 34, NEW D,
         D \subseteq ShapeOf[v] \cup SV, ShapeOf[v] \ D \subseteq Late(v)
  PROVE  /\ Upgraded(v, D) \subseteq ShapeOf[v + 1] \cup SV
         /\ ShapeOf[v + 1] \ Upgraded(v, D) \subseteq Late(v + 1)
<1> DEFINE F == ShapeOf[v]
           U == Upgraded(v, D)
<1>0. ShapeOf[v + 1] = Upgraded(v, F)
  BY ShapesAre
<1>1. CASE v # 10
  <2> DEFINE q == Migration[v]
  <2>1. FineList(v, q)
    BY <1>1, MigrationsFine
  <2>2. U = Runs(D, FALSE, q).shape /\ Upgraded(v, F) = Runs(F, FALSE, q).shape
    BY <1>1, UpgradedIs
  <2>3. \A x \in F \ D : x[2] # "table"
    BY LateAndOlder
  <2>5. Lacks(D, F)
    BY <2>3 DEF Lacks
  <2> HIDE DEF q, F
  <2>4. \A on : Follows(D, F, Runs(D, on, q).shape, Runs(F, on, q).shape)
    BY <2>1, <2>5, FineFollows
  <2>6. /\ Runs(D, FALSE, q).shape \subseteq Runs(F, FALSE, q).shape \cup SV
        /\ Runs(F, FALSE, q).shape \ Runs(D, FALSE, q).shape \subseteq F \ D
    BY <2>4 DEF Follows
  <2>7. ASSUME NEW x \in ShapeOf[v + 1], x \notin U PROVE x \in Late(v + 1)
    <3>1. x \in F \ D
      BY <1>0, <2>2, <2>6, <2>7
    <3>2. x \in Late(v)
      BY <3>1 DEF F
    <3>3. v = 20 => x # Bag
      <4> SUFFICES ASSUME v = 20 PROVE Bag \in U
        BY <2>7
      <4> DEFINE s == Ensure("storage_location_type", Of("row", {"Bag"}))
      <4>1. s \in Range(Migration[v])
        BY BagAndOrigin
      <4>2. Made(s, "extend", "storage_location_type", Of("row", {"Bag"}))
        BY StatementsMade
      <4>3. Bag \in Things("storage_location_type", Of("row", {"Bag"}))
        <5>1. <<"row", "Bag">> \in Of("row", {"Bag"})
          BY DEF Of
        <5> QED BY <5>1, ThingsHave DEF Bag
      <4> HIDE DEF s
      <4>4. s.op # "create" /\ Bag \in TableOf(s.on) \cup s.of
        BY <4>2, <4>3 DEF Made
      <4>5. Stays(v, Bag)
        BY DEF Stays
      <4> QED BY <1>1, <4>1, <4>4, <4>5, UpgradedKeeps
    <3>4. v = 28 => x # Origin
      <4> SUFFICES ASSUME v = 28 PROVE Origin \in U
        BY <2>7
      <4> DEFINE s == Ensure("manufacturer", Columns({"origin"}))
      <4>1. s \in Range(Migration[v])
        BY BagAndOrigin
      <4>2. Made(s, "extend", "manufacturer", Columns({"origin"}))
        BY StatementsMade
      <4>3. Origin \in Things("manufacturer", Columns({"origin"}))
        <5>1. <<"column", "origin">> \in Columns({"origin"})
          BY DEF Columns, Of
        <5> QED BY <5>1, ThingsHave DEF Origin
      <4> HIDE DEF s
      <4>4. s.op # "create" /\ Origin \in TableOf(s.on) \cup s.of
        BY <4>2, <4>3 DEF Made
      <4>5. Stays(v, Origin)
        BY DEF Stays
      <4> QED BY <1>1, <4>1, <4>4, <4>5, UpgradedKeeps
    <3> QED BY <1>1, <3>2, <3>3, <3>4, LateIs
  <2> QED BY <1>0, <2>2, <2>6, <2>7
<1>2. CASE v = 10
  <2>1. ShapeOf[v + 1] = F /\ Cancelled \in F
    <3>1. v + 1 = 11
      BY <1>2
    <3> QED BY <1>2, <3>1, TenIsEleven
  <2>2. CASE Cancelled \in D
    <3>1. U = D
      <4>1. U = Runs(D, FALSE, <<>>).shape
        BY <1>2, <2>2 DEF Upgraded, BuildAccepts, Cancelled
      <4> QED BY <4>1, NothingRuns
    <3>2. ASSUME NEW x \in F, x \notin D PROVE x \in Late(v + 1)
      <4>1. x \in Late(v) /\ x # Cancelled
        BY <2>2, <3>2
      <4> QED BY <1>2, <4>1, LateIs
    <3> QED BY <2>1, <3>1, <3>2
  <2>3. CASE Cancelled \notin D
    <3>1. U = Runs(D, FALSE, Migration[10]).shape
      BY <1>2, <2>3 DEF Upgraded, BuildAccepts, Cancelled
    <3>2. /\ U \subseteq D \cup NewBuild \cup OthersIndexed
          /\ NewBuild \subseteq U
          /\ \A x \in D : x[1] # "build" => x \in U
      BY <3>1, TenRebuilt
    <3>3. NewBuild \cup OthersIndexed \subseteq F
      BY <1>2, BuildsOfTen
    <3>4. ASSUME NEW x \in F, x \notin U PROVE x \in Late(v + 1)
      <4>1. x[1] # "build"
        <5>1. Bounded(F, "build", NewBuild, {})
          BY <1>2, BoundsAll DEF Bounds, BuildAt
        <5> QED BY <3>2, <3>4, <5>1 DEF Bounded
      <4>2. x \notin D
        BY <3>2, <3>4, <4>1
      <4>3. x \in Late(v) /\ x # Cancelled
        BY <4>1, <4>2 DEF Cancelled
      <4> QED BY <1>2, <4>3, LateIs
    <3> QED BY <2>1, <3>2, <3>3, <3>4
  <2> QED BY <2>2, <2>3
<1> QED BY <1>1, <1>2

(* And it keeps what lasts.                                                *)
LEMMA UpgradedLasts ==
  ASSUME NEW v \in 0 .. 34, NEW D, D \subseteq ShapeOf[v] \cup SV, NEW x \in D, x[2] \notin Passing
  PROVE  x \in Upgraded(v, D)
<1> DEFINE F == ShapeOf[v]
<1>0. \A t : t # "schema_version" /\ x[1] = t => x \in F
  BY TableIs DEF SV
<1>1. CASE v # 10
  <2>1. v = 15 /\ x[1] = "inventory_record" => x \in RecordThings
    BY <1>0, BoundsAll DEF Bounds, Bounded
  <2>2. v = 21 /\ x[1] = "build_allocation" => x \in AllocationThings
    BY <1>0, BoundsAll DEF Bounds, Bounded
  <2>3. v = 26 /\ x[1] = "build" => x \in LaterBuild
    BY <1>0, BoundsAll DEF Bounds, Bounded, BuildAt
  <2>4. Stays(v, x)
    BY <2>1, <2>2, <2>3 DEF Stays
  <2> QED BY <1>1, <2>4, UpgradedKeeps
<1>2. CASE v = 10 /\ Cancelled \in D
  <2>1. Upgraded(v, D) = Runs(D, FALSE, <<>>).shape
    BY <1>2 DEF Upgraded, BuildAccepts, Cancelled
  <2> QED BY <2>1, NothingRuns
<1>3. CASE v = 10 /\ Cancelled \notin D
  <2>1. Upgraded(v, D) = Runs(D, FALSE, Migration[10]).shape
    BY <1>3 DEF Upgraded, BuildAccepts, Cancelled
  <2>2. x[1] = "build" => x \in NewBuild
    BY <1>0, <1>3, BoundsAll DEF Bounds, Bounded, BuildAt
  <2> QED BY <2>1, <2>2, TenRebuilt
<1> QED BY <1>1, <1>2, <1>3

(* At the current version the seeded types complete a shape.               *)
LEMMA Seeding ==
  ASSUME NEW D, NEW on, D \subseteq ShapeOf[35] \cup SV, ShapeOf[35] \ D \subseteq Late(35)
  PROVE  /\ D \subseteq Runs(D, on, seedStorageLocationTypes).shape
         /\ ShapeOf[35] \subseteq Runs(D, on, seedStorageLocationTypes).shape
         /\ Runs(D, on, seedStorageLocationTypes).shape \subseteq ShapeOf[35] \cup SV
<1> DEFINE q == seedStorageLocationTypes
           n == 1
<1>1. DOMAIN q = 1 .. n /\ n \in Nat /\ q[1] = SeedsOfTypes
  BY DEF seedStorageLocationTypes, SeedsOfTypes
<1> HIDE DEF q, n
<1>2. PICK f : Trace(f, D, n, q) /\ Runs(D, on, q).shape = f[n]
  BY <1>1, RunsTrace
<1> USE DEF n
<1>3. Made(SeedsOfTypes, "extend", "storage_location_type", Of("row", {"Area", "Bag", "Box"}))
  BY StatementsMade DEF SeedsOfTypes
<1>4. f[1] = D \cup TableOf("storage_location_type") \cup SeedsOfTypes.of
  <2>1. f[1] = After(D, SeedsOfTypes)
    BY <1>1, <1>2 DEF Trace
  <2> QED BY <1>3, <2>1 DEF After, Made
<1>5. Box \in SeedsOfTypes.of
  <2>1. Box \in Things("storage_location_type", Of("row", {"Area", "Bag", "Box"}))
    <3>1. <<"row", "Box">> \in Of("row", {"Area", "Bag", "Box"})
      BY DEF Of
    <3> QED BY <3>1, ThingsHave DEF Box
  <2> QED BY <1>3, <2>1 DEF Made
<1>6. \A x \in Late(35) : x = Box
  BY LateIs
<1>7. TableOf("storage_location_type") \cup SeedsOfTypes.of \subseteq ShapeOf[35]
  BY SeedsStay
<1> QED BY <1>2, <1>4, <1>5, <1>6, <1>7 DEF q

-----------------------------------------------------------------------------
(* Reservations                                                            *)

LEMMA MatchingIs ==
  ASSUME NEW r
  PROVE  /\ Matching(r) \subseteq Requirements
         /\ \A q : Matching(r) = {q} => Cardinality(Matching(r)) = 1
         /\ Cardinality(Matching(r)) = 1 => \E q \in Requirements : Matching(r) = {q}
         /\ \A s : s.record = r.record => Matching(s) = Matching(r)
<1>1. Matching(r) \subseteq Requirements
  BY DEF Matching
<1>2. IsFiniteSet(Matching(r))
  BY <1>1, UpgradeAssumption, FS_Subset
<1>3. \A q : Matching(r) = {q} => Cardinality(Matching(r)) = 1
  BY FS_Singleton
<1>4. Cardinality(Matching(r)) = 1 => \E q : Matching(r) = {q}
  BY <1>2, FS_Singleton
<1>5. \A s : s.record = r.record => Matching(s) = Matching(r)
  BY DEF Matching
<1> QED BY <1>1, <1>3, <1>4, <1>5

(* The rows of a database of version v.                                    *)
RowsFit(v, rows) ==
  /\ rows \subseteq Rows
  /\ v < 22 => \A r \in rows : r.of = Nobody
  /\ v > 22 => \A r \in rows : r.of = Nobody => Cardinality(Matching(r)) # 1

(* Every reservation of R is one of S, for the same requirement or for the *)
(* only one that matches it.                                               *)
Answered(r, S) ==
  IF r.of # Nobody THEN r \in S
  ELSE \E s \in S : s.record = r.record /\ (s = r \/ Matching(r) = {s.of})
RowsKept(R, S) ==
  /\ \A r \in R : Answered(r, S)
  /\ \A s \in S : \E r \in R : s.record = r.record

LEMMA RowsStay == ASSUME NEW R PROVE RowsKept(R, R)
BY DEF RowsKept, Answered

LEMMA RowsStayOn ==
  ASSUME NEW R, NEW S, NEW T, RowsKept(R, S), RowsKept(S, T)
  PROVE  RowsKept(R, T)
<1>1. ASSUME NEW r \in R PROVE Answered(r, T)
  <2>1. Answered(r, S)
    BY DEF RowsKept
  <2>2. CASE r.of # Nobody
    <3>1. r \in S
      BY <2>1, <2>2 DEF Answered
    <3>2. Answered(r, T)
      BY <3>1 DEF RowsKept
    <3> QED BY <3>2
  <2>3. CASE r.of = Nobody
    <3>1. PICK s \in S : s.record = r.record /\ (s = r \/ Matching(r) = {s.of})
      BY <2>1, <2>3 DEF Answered
    <3>2. Answered(s, T)
      BY DEF RowsKept
    <3>3. CASE s = r
      BY <3>2, <3>3
    <3>4. CASE Matching(r) = {s.of}
      <4>1. s.of # Nobody
        BY <3>4, MatchingIs, UpgradeAssumption
      <4>2. s \in T
        BY <3>2, <4>1 DEF Answered
      <4> QED BY <2>3, <3>1, <3>4, <4>2 DEF Answered
    <3> QED BY <3>1, <3>3, <3>4
  <2> QED BY <2>2, <2>3
<1>2. ASSUME NEW t \in T PROVE \E r \in R : t.record = r.record
  <2>1. PICK s \in S : t.record = s.record
    BY DEF RowsKept
  <2>2. PICK r \in R : s.record = r.record
    BY DEF RowsKept
  <2> QED BY <2>1, <2>2
<1> QED BY <1>1, <1>2 DEF RowsKept

(* The repair of version 23.                                               *)
LEMMA RowsRepaired ==
  ASSUME NEW rows, rows \subseteq Rows
  PROVE  LET new == {Linked(r) : r \in rows \ Superseded(rows)}
         IN  RowsFit(23, new) /\ RowsKept(rows, new)
<1> DEFINE new == {Linked(r) : r \in rows \ Superseded(rows)}
<1>1. ASSUME NEW r \in rows
      PROVE  /\ Linked(r) \in Rows /\ Linked(r).record = r.record
             /\ r.of # Nobody => Linked(r) = r
             /\ Linked(r).of = Nobody => Linked(r) = r /\ Cardinality(Matching(r)) # 1
             /\ Linked(r) = r \/ Matching(r) = {Linked(r).of}
  <2>0. r \in Rows /\ r = [of |-> r.of, record |-> r.record] /\ r.record \in Records
    BY DEF Rows
  <2>1. CASE r.of = Nobody /\ Cardinality(Matching(r)) = 1
    <3>1. PICK q \in Requirements : Matching(r) = {q}
      BY <2>1, MatchingIs
    <3>2. (CHOOSE p \in Matching(r) : TRUE) = q
      BY <3>1
    <3>3. Linked(r) = [r EXCEPT !.of = q]
      BY <2>1, <3>2 DEF Linked
    <3>4. Linked(r) = [of |-> q, record |-> r.record]
      BY <2>0, <3>3
    <3>5. q # Nobody
      BY <3>1, UpgradeAssumption
    <3> QED BY <2>0, <2>1, <3>1, <3>4, <3>5 DEF Rows
  <2>2. CASE ~(r.of = Nobody /\ Cardinality(Matching(r)) = 1)
    <3>1. Linked(r) = r
      BY <2>2 DEF Linked
    <3> QED BY <2>0, <2>2, <3>1
  <2> QED BY <2>1, <2>2
<1>2. RowsFit(23, new)
  <2>1. ASSUME NEW s \in new, s.of = Nobody PROVE Cardinality(Matching(s)) # 1
    <3>1. PICK r \in rows : s = Linked(r)
      OBVIOUS
    <3> QED BY <1>1, <2>1, <3>1
  <2>2. new \subseteq Rows
    BY <1>1
  <2> HIDE DEF new
  <2> QED BY <2>1, <2>2 DEF RowsFit
<1>3. ASSUME NEW r \in rows PROVE Answered(r, new)
  <2>1. CASE r \notin Superseded(rows)
    <3>1. Linked(r) \in new
      BY <2>1
    <3> HIDE DEF new
    <3> QED BY <1>1, <3>1 DEF Answered
  <2>2. CASE r \in Superseded(rows)
    <3>1. PICK q \in Requirements : r.of = Nobody /\ Matching(r) = {q} /\ [r EXCEPT !.of = q] \in rows
      BY <2>2 DEF Superseded
    <3> DEFINE s == [r EXCEPT !.of = q]
    <3>2. s.of = q /\ s.record = r.record
      BY DEF Rows
    <3>3. q # Nobody
      BY <3>1, UpgradeAssumption
    <3>4. s \in rows /\ s \notin Superseded(rows)
      BY <3>1, <3>2, <3>3 DEF Superseded
    <3>5. Linked(s) = s /\ Linked(s) \in new
      BY <1>1, <3>2, <3>3, <3>4
    <3> HIDE DEF new, s
    <3> QED BY <3>1, <3>2, <3>5 DEF Answered
  <2> QED BY <2>1, <2>2
<1>4. \A s \in new : \E r \in rows : s.record = r.record
  BY <1>1
<1>5. RowsKept(rows, new)
  <2> HIDE DEF new
  <2> QED BY <1>3, <1>4 DEF RowsKept
<1> QED BY <1>2, <1>5

LEMMA RowsMigrated ==
  ASSUME NEW v \in 0 .. 34, NEW rows, RowsFit(v, rows)
  PROVE  RowsFit(v + 1, MigratedRows(v, rows)) /\ RowsKept(rows, MigratedRows(v, rows))
<1>1. CASE v = 21
  <2>1. MigratedRows(v, rows) = {[r EXCEPT !.of = Nobody] : r \in rows}
    BY <1>1 DEF MigratedRows
  <2>2. \A r \in rows : [r EXCEPT !.of = Nobody] = r
    BY <1>1 DEF RowsFit, Rows
  <2>3. MigratedRows(v, rows) = rows
    BY <2>1, <2>2
  <2> QED BY <1>1, <2>3, RowsStay DEF RowsFit
<1>2. CASE v = 22
  <2>1. MigratedRows(v, rows) = {Linked(r) : r \in rows \ Superseded(rows)}
    BY <1>2 DEF MigratedRows
  <2>2. rows \subseteq Rows
    BY DEF RowsFit
  <2> QED BY <1>2, <2>1, <2>2, RowsRepaired
<1>3. CASE v # 21 /\ v # 22
  <2>1. MigratedRows(v, rows) = rows
    BY <1>3 DEF MigratedRows
  <2> QED BY <1>3, <2>1, RowsStay DEF RowsFit
<1> QED BY <1>1, <1>2, <1>3

-----------------------------------------------------------------------------
(* The inductive invariant                                                 *)

Whole(d) ==
  /\ d = [version |-> d.version, shape |-> d.shape, rows |-> d.rows]
  /\ d.version \in 0 .. 36
  /\ RowsFit(d.version, d.rows)

(* What e, made of d by migrations, keeps of it.                           *)
Outlives(d, e) ==
  /\ \A x \in d.shape : x[2] \notin Passing => x \in e.shape
  /\ d.version <= e.version
  /\ d.version > 35 => e.version = d.version /\ e.rows = d.rows
  /\ RowsKept(d.rows, e.rows)

(* What is committed lacks no more than earlier releases left out, what is *)
(* under way may also lack the value that an interrupted upgrade accepts   *)
(* only at version 11, and nothing is lost between the two.                *)
UpgradeInv ==
  /\ Whole(database) /\ Whole(work)
  /\ Shaped(database, Older(database.version)) /\ Shaped(work, Late(work.version))
  /\ Outlives(database, work)
  /\ inTx \in BOOLEAN /\ (~inTx => work = database)
  /\ pc \in {"upgrading", "ready"} => fk = TRUE /\ SV \subseteq database.shape
  /\ pc = "ready" => ~inTx /\ database.version = 35

LEMMA OutlivesSelf == ASSUME NEW d, Whole(d) PROVE Outlives(d, d)
<1>1. RowsKept(d.rows, d.rows)
  BY RowsStay
<1> QED BY <1>1 DEF Outlives, Whole

LEMMA OutlivesOn ==
  ASSUME NEW c, NEW d, NEW e, Whole(c), Whole(d), Whole(e), Outlives(c, d), Outlives(d, e)
  PROVE  Outlives(c, e)
<1>1. RowsKept(c.rows, e.rows)
  BY RowsStayOn DEF Outlives
<1>2. \A x \in c.shape : x[2] \notin Passing => x \in e.shape
  BY DEF Outlives
<1>3. c.version \in 0 .. 36 /\ d.version \in 0 .. 36 /\ e.version \in 0 .. 36
  BY DEF Whole
<1>4. c.version <= e.version /\ (c.version > 35 => e.version = c.version /\ e.rows = c.rows)
  BY <1>3 DEF Outlives
<1> QED BY <1>1, <1>2, <1>4 DEF Outlives

LEMMA VersionRowKept ==
  ASSUME NEW d, NEW e, Outlives(d, e), SV \subseteq d.shape
  PROVE  SV \subseteq e.shape
<1> DEFINE x == <<"schema_version", "table", "schema_version">>
<1>1. SV = {x} /\ x[2] \notin Passing
  BY TableIs DEF SV, Passing
<1> HIDE DEF x
<1> QED BY <1>1 DEF Outlives

LEMMA OlderShaped ==
  ASSUME NEW d, Shaped(d, Older(d.version))
  PROVE  Shaped(d, Late(d.version))
BY LateAndOlder DEF Shaped

LEMMA MigratedStep ==
  ASSUME NEW w, Whole(w), w.version \in 0 .. 34, Shaped(w, Late(w.version))
  PROVE  /\ Whole(Migrated(w)) /\ Migrated(w).version = w.version + 1
         /\ Shaped(Migrated(w), Late(w.version + 1))
         /\ Outlives(w, Migrated(w))
<1> DEFINE v == w.version
           D == w.shape
           m == Migrated(w)
<1>1. m.shape = Upgraded(v, D) /\ m.version = v + 1 /\ m.rows = MigratedRows(v, w.rows)
  BY MigratedIs
<1>2. m = [version |-> m.version, shape |-> m.shape, rows |-> m.rows]
  BY DEF Migrated
<1>3. D \subseteq ShapeOf[v] \cup SV /\ ShapeOf[v] \ D \subseteq Late(v)
  BY DEF Shaped
<1>4. RowsFit(v, w.rows)
  BY DEF Whole
<1>5. v \in 0 .. 34 /\ v + 1 \in 0 .. 36
  OBVIOUS
<1> HIDE DEF v, D, m
<1>6. RowsFit(v + 1, m.rows) /\ RowsKept(w.rows, m.rows)
  BY <1>1, <1>4, <1>5, RowsMigrated
<1>7. m.shape \subseteq ShapeOf[v + 1] \cup SV /\ ShapeOf[v + 1] \ m.shape \subseteq Late(v + 1)
  BY <1>1, <1>3, <1>5, UpgradedFollows
<1>8. \A x \in D : x[2] \notin Passing => x \in m.shape
  BY <1>1, <1>3, <1>5, UpgradedLasts
<1>9. Whole(m)
  BY <1>1, <1>2, <1>5, <1>6 DEF Whole
<1>10. Shaped(m, Late(v + 1))
  BY <1>1, <1>7 DEF Shaped
<1>11. Outlives(w, m)
  BY <1>1, <1>5, <1>6, <1>8 DEF Outlives, v, D
<1> QED BY <1>1, <1>9, <1>10, <1>11 DEF v, m

LEMMA UpgradeStarts == UpgradeInit => UpgradeInv
<1> SUFFICES ASSUME UpgradeInit PROVE UpgradeInv
  OBVIOUS
<1>1. PICK n \in 0 .. (CurrentSchemaVersion + 1) :
        \E old \in IF n \in PlainBuilds THEN {Older(n)} ELSE {{}, Older(n)}, rows \in RowsAt(n) :
          database = [version |-> n,
                      shape |-> IF n > CurrentSchemaVersion THEN {} ELSE ShapeOf[n] \ old,
                      rows |-> rows]
  BY Zenon DEF UpgradeInit
<1>2. PICK old \in IF n \in PlainBuilds THEN {Older(n)} ELSE {{}, Older(n)}, rows \in RowsAt(n) :
        database = [version |-> n,
                    shape |-> IF n > CurrentSchemaVersion THEN {} ELSE ShapeOf[n] \ old,
                    rows |-> rows]
  BY <1>1
<1>8. CurrentSchemaVersion = 35 /\ n \in 0 .. 36
  BY DEF CurrentSchemaVersion
<1>3. old \subseteq Older(n)
  BY <1>2
<1>4. RowsFit(n, rows)
  BY <1>2 DEF RowsAt, RowsFit
<1>5. Whole(database)
  BY <1>2, <1>4, <1>8 DEF Whole
<1>6. Shaped(database, Older(database.version))
  BY <1>2, <1>3, <1>8 DEF Shaped
<1>7. work = database /\ inTx = FALSE /\ pc = "down"
  BY DEF UpgradeInit
<1> QED BY <1>5, <1>6, <1>7, OutlivesSelf, OlderShaped DEF UpgradeInv

(* Every step keeps the invariant, and loses nothing of what is committed. *)
LEMMA UpgradeGoesOn ==
  UpgradeInv /\ [UpgradeNext]_upgradeVars => UpgradeInv' /\ Outlives(database, database')
<1> SUFFICES ASSUME UpgradeInv, [UpgradeNext]_upgradeVars PROVE UpgradeInv' /\ Outlives(database, database')
  OBVIOUS
<1>0. /\ Whole(database) /\ Whole(work)
      /\ Shaped(database, Older(database.version)) /\ Shaped(work, Late(work.version))
      /\ Outlives(database, work)
      /\ inTx \in BOOLEAN /\ (~inTx => work = database)
      /\ pc \in {"upgrading", "ready"} => fk = TRUE /\ SV \subseteq database.shape
      /\ pc = "ready" => ~inTx /\ database.version = 35
      /\ database.version \in 0 .. 36 /\ work.version \in 0 .. 36
  BY DEF UpgradeInv, Whole
<1> USE DEF CurrentSchemaVersion
<1>a. Outlives(database, database)
  BY <1>0, OutlivesSelf
(* A commit of the shape D at the version of d.                            *)
<1>b. ASSUME NEW d, Whole(d), Shaped(d, Older(d.version)), Outlives(database, d),
             database' = d, work' = d, inTx' = FALSE,
             pc' \in {"upgrading", "ready"} => fk' = TRUE /\ SV \subseteq d.shape,
             pc' = "ready" => d.version = 35
      PROVE  UpgradeInv' /\ Outlives(database, database')
  <2>1. Shaped(d, Late(d.version)) /\ Outlives(d, d)
    BY <1>b, OlderShaped, OutlivesSelf
  <2> QED BY <1>b, <2>1 DEF UpgradeInv
(* A rollback.                                                             *)
<1>c. ASSUME RollBack, pc' \notin {"upgrading", "ready"}
      PROVE  UpgradeInv' /\ Outlives(database, database')
  <2>1. database' = database /\ work' = database /\ inTx' = FALSE
    BY <1>c DEF RollBack
  <2> QED BY <1>0, <1>a, <1>b, <1>c, <2>1
<1>1. CASE Initialize
  <2> DEFINE d == [database EXCEPT !.shape = @ \cup SV]
  <2>1. database' = d /\ work' = d /\ inTx' = FALSE /\ fk' = TRUE /\ pc' = "upgrading"
    BY <1>1 DEF Initialize, SV
  <2>2. d = [version |-> database.version, shape |-> database.shape \cup SV, rows |-> database.rows]
    BY <1>0 DEF Whole
  <2> HIDE DEF d
  <2>3. d.version = database.version /\ d.shape = database.shape \cup SV /\ d.rows = database.rows
    BY <2>2
  <2>4. Whole(d)
    BY <1>0, <2>2, <2>3 DEF Whole
  <2>5. Shaped(d, Older(d.version))
    BY <1>0, <2>3 DEF Shaped
  <2>6. Outlives(database, d)
    BY <1>a, <2>3 DEF Outlives
  <2> QED BY <1>b, <2>1, <2>3, <2>4, <2>5, <2>6
(* A rebuild apart from other migrations.                                  *)
<1>2. ASSUME ~inTx, work.version \in {10, 15, 26}, pc = "upgrading",
             database' = Migrated(work), work' = database', inTx' = inTx,
             pc' = "down" \/ (pc' = pc /\ fk' = fk)
      PROVE  UpgradeInv' /\ Outlives(database, database')
  <2> DEFINE m == Migrated(work)
  <2>1. /\ Whole(m) /\ m.version = work.version + 1
        /\ Shaped(m, Late(work.version + 1))
        /\ Outlives(work, m)
    BY <1>0, <1>2, MigratedStep
  <2> HIDE DEF m
  <2>2. work.version + 1 \in {11, 16, 27} /\ work.version + 1 \in {11, 15, 16, 26, 27}
    BY <1>2
  <2>3. Shaped(m, Older(m.version))
    BY <2>1, <2>2, LateAndOlder DEF Shaped
  <2>4. Outlives(database, m)
    BY <1>0, <1>2, <2>1
  <2>5. pc' \in {"upgrading", "ready"} => fk' = TRUE /\ SV \subseteq m.shape
    BY <1>0, <1>2, <2>4, VersionRowKept
  <2>6. pc' # "ready"
    BY <1>2
  <2>7. database' = m /\ work' = m /\ inTx' = FALSE
    BY <1>0, <1>2 DEF m
  <2> QED BY <1>b, <2>1, <2>3, <2>4, <2>5, <2>6, <2>7
<1>3. CASE RebuildApart
  BY <1>2, <1>3 DEF RebuildApart
<1>4. CASE RebuildUnchecked
  <2>1. /\ ~inTx /\ work.version \in {10, 15, 26} /\ pc = "upgrading"
        /\ database' = Migrated(work) /\ work' = database' /\ inTx' = inTx /\ pc' = "down"
    BY <1>4 DEF RebuildUnchecked
  <2> QED BY <1>2, <2>1
<1>5. CASE Begin
  <2>1. database' = database /\ work' = work /\ inTx' = TRUE /\ fk' = fk /\ pc' = pc /\ pc = "upgrading"
    BY <1>5 DEF Begin
  <2> QED BY <1>0, <1>a, <2>1 DEF UpgradeInv
<1>6. CASE Migrate
  <2> DEFINE m == Migrated(work)
  <2>1. /\ database' = database /\ work' = m /\ inTx' = inTx /\ fk' = fk /\ pc' = pc
        /\ pc = "upgrading" /\ inTx /\ work.version \in 0 .. 34
    BY <1>0, <1>6 DEF Migrate
  <2>2. /\ Whole(m) /\ m.version = work.version + 1
        /\ Shaped(m, Late(work.version + 1))
        /\ Outlives(work, m)
    BY <1>0, <2>1, MigratedStep
  <2> HIDE DEF m
  <2>3. Outlives(database, m)
    BY <1>0, <2>2, OutlivesOn
  <2> QED BY <1>0, <1>a, <2>1, <2>2, <2>3 DEF UpgradeInv
<1>7. CASE CommitBeforeRebuild
  <2>1. /\ database' = work /\ work' = work /\ inTx' = FALSE /\ fk' = fk /\ pc' = pc
        /\ pc = "upgrading" /\ work.version \in {15, 26}
    BY <1>7 DEF CommitBeforeRebuild
  <2>2. Shaped(work, Older(work.version))
    BY <1>0, <2>1, LateAndOlder DEF Shaped
  <2>3. SV \subseteq work.shape
    BY <1>0, <2>1, VersionRowKept
  <2> QED BY <1>0, <1>b, <2>1, <2>2, <2>3
<1>8. CASE Finish
  <2> DEFINE U == Runs(work.shape, fk, seedStorageLocationTypes).shape
             d == [work EXCEPT !.shape = U]
  <2>1. /\ database' = d /\ work' = d /\ inTx' = FALSE /\ fk' = fk /\ pc' = "ready"
        /\ pc = "upgrading" /\ work.version = 35
    BY <1>8 DEF Finish
  <2>2. d = [version |-> work.version, shape |-> U, rows |-> work.rows]
    BY <1>0 DEF Whole
  <2>3. work.shape \subseteq U /\ ShapeOf[35] \subseteq U /\ U \subseteq ShapeOf[35] \cup SV
    <3>1. work.shape \subseteq ShapeOf[35] \cup SV /\ ShapeOf[35] \ work.shape \subseteq Late(35)
      BY <1>0, <2>1 DEF Shaped
    <3> QED BY <3>1, Seeding
  <2> HIDE DEF d, U
  <2>4. d.version = 35 /\ d.shape = U /\ d.rows = work.rows
    BY <2>1, <2>2
  <2>5. Whole(d)
    BY <1>0, <2>1, <2>2, <2>4 DEF Whole
  <2>6. Shaped(d, Older(d.version))
    BY <2>3, <2>4 DEF Shaped
  <2>7. Outlives(work, d)
    <3>1. RowsKept(work.rows, d.rows)
      BY <2>4, RowsStay
    <3> QED BY <2>1, <2>3, <2>4, <3>1 DEF Outlives
  <2>8. Outlives(database, d)
    BY <1>0, <2>5, <2>7, OutlivesOn
  <2>9. SV \subseteq d.shape
    BY <1>0, <2>1, <2>8, VersionRowKept
  <2> QED BY <1>0, <1>b, <2>1, <2>4, <2>5, <2>6, <2>8, <2>9
<1>9. CASE Refuse
  BY <1>9, <1>c DEF Refuse
<1>10. CASE Interrupt
  BY <1>10, <1>c DEF Interrupt
<1>11. CASE UNCHANGED upgradeVars
  BY <1>0, <1>a, <1>11 DEF UpgradeInv, upgradeVars
<1> QED BY <1>1, <1>3, <1>4, <1>5, <1>6, <1>7, <1>8, <1>9, <1>10, <1>11 DEF UpgradeNext

LEMMA InvNamesShapes == UpgradeInv => VersionNamesTheShape
<1> SUFFICES ASSUME UpgradeInv, database.version \in 0 .. 35
             PROVE  LET full == ShapeOf[database.version] \cup TableOf("schema_version")
                    IN  /\ database.shape \subseteq full
                        /\ full \ database.shape \subseteq Older(database.version) \cup TableOf("schema_version")
  BY DEF VersionNamesTheShape, CurrentSchemaVersion
<1> QED BY DEF UpgradeInv, Shaped, SV

LEMMA InvReady == UpgradeInv => ReadyIsCurrent
<1> SUFFICES ASSUME UpgradeInv, pc = "ready"
             PROVE  /\ fk /\ ~inTx /\ work = database
                    /\ database.version = 35
                    /\ database.shape = ShapeOf[35] \cup TableOf("schema_version")
                    /\ \A r \in database.rows : r.of = Nobody => Cardinality(Matching(r)) # 1
  BY DEF ReadyIsCurrent, CurrentSchemaVersion
<1>1. fk /\ ~inTx /\ work = database /\ database.version = 35 /\ SV \subseteq database.shape
  BY DEF UpgradeInv
<1>2. database.shape \subseteq ShapeOf[35] \cup SV /\ ShapeOf[35] \subseteq database.shape
  BY <1>1, LateAndOlder DEF UpgradeInv, Shaped
<1>3. \A r \in database.rows : r.of = Nobody => Cardinality(Matching(r)) # 1
  BY <1>1 DEF UpgradeInv, Whole, RowsFit
<1> QED BY <1>1, <1>2, <1>3 DEF SV

(* Whatever was interrupted, the committed version names the shape of the  *)
(* database, for any requirements, records and versions that lack an       *)
(* accepted value (DatabaseSchema::initialize).                            *)
THEOREM VersionsNameShapes == UpgradeSpec => []VersionNamesTheShape
<1>1. UpgradeSpec => []UpgradeInv
  BY UpgradeStarts, UpgradeGoesOn, PTL DEF UpgradeSpec
<1> QED BY <1>1, InvNamesShapes, PTL

(* A program that runs has the current schema and enforces foreign keys.   *)
THEOREM ReadyStaysCurrent == UpgradeSpec => []ReadyIsCurrent
<1>1. UpgradeSpec => []UpgradeInv
  BY UpgradeStarts, UpgradeGoesOn, PTL DEF UpgradeSpec
<1> QED BY <1>1, InvReady, PTL

(* No commit loses a table, a column, a seeded row, an accepted value or a *)
(* reservation, whatever the rows are.                                     *)
THEOREM NothingIsLost == UpgradeSpec => NothingLost
<1> DEFINE Kept ==
      /\ Lasting(database) \subseteq Lasting(database')
      /\ database.version <= database'.version
      /\ database.version > CurrentSchemaVersion => database'.version = database.version /\ database'.rows = database.rows
      /\ \A r \in database.rows :
           IF r.of # Nobody THEN r \in database'.rows
           ELSE \E s \in database'.rows : s.record = r.record /\ (s = r \/ Matching(r) = {s.of})
      /\ \A s \in database'.rows : \E r \in database.rows : s.record = r.record
<1>1. Outlives(database, database') => Kept
  <2> SUFFICES ASSUME Outlives(database, database') PROVE Kept
    OBVIOUS
  <2>1. Lasting(database) \subseteq Lasting(database')
    BY DEF Outlives, Lasting, Passing
  <2>2. RowsKept(database.rows, database'.rows)
    BY DEF Outlives
  <2> QED BY <2>1, <2>2 DEF Outlives, RowsKept, Answered, CurrentSchemaVersion
<1>2. UpgradeInv /\ [UpgradeNext]_upgradeVars => UpgradeInv' /\ [Kept]_database
  BY <1>1, UpgradeGoesOn
<1>3. UpgradeSpec => [][Kept]_database
  BY <1>2, UpgradeStarts, PTL DEF UpgradeSpec
<1> QED BY <1>3 DEF NothingLost
=============================================================================
