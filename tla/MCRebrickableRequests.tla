------------------------ MODULE MCRebrickableRequests ------------------------
(***************************************************************************)
(* Instances of RebrickableRequests.                                       *)
(***************************************************************************)
EXTENDS RebrickableRequests
=============================================================================
