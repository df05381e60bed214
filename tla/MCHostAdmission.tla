--------------------------- MODULE MCHostAdmission --------------------------
(***************************************************************************)
(* A paired device with two sessions and a legacy session that is an owner *)
(* of its own; shares small enough for every limit to be met.              *)
(***************************************************************************)
EXTENDS HostAdmission, TLC

CONSTANTS device, legacy, s1, s2, s3, i1

MCOwnerOf == (s1 :> device) @@ (s2 :> device) @@ (s3 :> legacy)
MCMaximumOwner == [read |-> 2, write |-> 1]
MCMaximumGlobal == [read |-> 2, write |-> 2]
=============================================================================
