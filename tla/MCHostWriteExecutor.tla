------------------------- MODULE MCHostWriteExecutor ------------------------
(***************************************************************************)
(* Three submissions of two mutation IDs, two payloads, a queue for one    *)
(* mutation, and one crash or shutdown.                                    *)
(***************************************************************************)
EXTENDS HostWriteExecutor, TLC

CONSTANTS i1, i2, p1, p2

MCIds == {i1, i2}
MCPayloads == {p1, p2}
=============================================================================
