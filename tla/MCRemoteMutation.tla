-------------------------- MODULE MCRemoteMutation --------------------------
(***************************************************************************)
(* Two dialogs, three attempts over both, and one Restore.                 *)
(***************************************************************************)
EXTENDS RemoteMutation, TLC

CONSTANTS m1, m2

MCIds == {m1, m2}
=============================================================================
