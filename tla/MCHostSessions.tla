--------------------------- MODULE MCHostSessions ----------------------------
(****************************************************************************)
(* One installation looked at closely, which may have an old and a new      *)
(* session at once, and others of which the Host keeps the number.          *)
(****************************************************************************)
EXTENDS HostSessions, TLC

Alike == Permutations(Devices) \cup Permutations(Sessions)
=============================================================================
