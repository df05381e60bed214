-------------------------- MODULE MCHostMaintenance -------------------------
(***************************************************************************)
(* Two clients and executors that hold two jobs each; nothing else needs a *)
(* bound.                                                                  *)
(***************************************************************************)
EXTENDS HostMaintenance, TLC

CONSTANTS c1, c2

MCClients == {c1, c2}
=============================================================================
