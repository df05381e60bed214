--------------------------- MODULE DataGeneration ---------------------------
(***************************************************************************)
(* What a Restore promises its users: the Host serves one database at a    *)
(* time, named by a data epoch.  A Restore replaces the database and the   *)
(* epoch in one indivisible step, and only a database that a backup was    *)
(* kept of.  An epoch is never used again, and nothing else (a failed      *)
(* Restore, a crash, a startup) puts another database in place.  The       *)
(* database may be lost, again only one that a backup was kept of, and     *)
(* then the Host serves none until its owner acts.                         *)
(***************************************************************************)
EXTENDS Naturals

CONSTANTS Databases,   \* the database images a Restore can choose from
          None,        \* no database
          MaxEpoch     \* bound: epochs are numbered 0 .. MaxEpoch

VARIABLES database,    \* the authoritative database image
          dataEpoch,   \* the epoch remote Clients are told
          kept         \* the databases of which there is a verified backup

Init == /\ database \in Databases
        /\ dataEpoch = 0
        /\ kept = {}

BackUp ==
    /\ database # None
    /\ kept' = kept \cup {database}
    /\ UNCHANGED <<database, dataEpoch>>

Replace(chosen) ==
    /\ database \in kept
    /\ \E fresh \in dataEpoch + 1 .. MaxEpoch : dataEpoch' = fresh
    /\ database' = chosen
    /\ UNCHANGED kept

Lose ==
    /\ database \in kept
    /\ database' = None
    /\ UNCHANGED <<dataEpoch, kept>>

Next == BackUp \/ Lose \/ \E chosen \in Databases : Replace(chosen)

Spec == Init /\ [][Next]_<<database, dataEpoch, kept>>
=============================================================================
