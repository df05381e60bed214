------------------------ MODULE MCRestoreTransaction ------------------------
(***************************************************************************)
(* RestoreTransaction on two databases: up to three Restores in a row, each*)
(* of them possibly of the image that is already live.                     *)
(***************************************************************************)
EXTENDS RestoreTransaction

CONSTANTS dbA, dbB

MCDatabases == {dbA, dbB}
=============================================================================
