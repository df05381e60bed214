---------------------------- MODULE PieceLedger ----------------------------
(***************************************************************************)
(* What the inventory and the Builds of a workspace promise together about *)
(* pieces: a piece the workshop owns is loose, built into a Build, or      *)
(* missing, and only entering, editing or removing an inventory entry      *)
(* changes how many there are.  Allocating, moving, correcting, completing *)
(* and archiving change none of the three counts.  The detailed            *)
(* specification is StockBuild.                                            *)
(***************************************************************************)
EXTENDS Naturals

VARIABLES loose,    \* pieces in inventory records
          built,    \* pieces pulled into Builds and not returned
          missing   \* pieces reported Lost and not yet Found

vars == <<loose, built, missing>>

Init == loose = 0 /\ built = 0 /\ missing = 0

(* An entry is added, or edited to another quantity, or pieces are removed *)
Restock == /\ loose' \in Nat
           /\ UNCHANGED <<built, missing>>

(* Pieces move between the shelves and a Build, either way                 *)
Exchange == /\ built' \in Nat /\ loose' \in Nat
            /\ loose' + built' = loose + built
            /\ UNCHANGED missing

(* Pieces are reported Lost or Found                                       *)
LoseOrFind == /\ loose' \in Nat /\ missing' \in Nat
              /\ loose' + missing' = loose + missing
              /\ UNCHANGED built

Next == Restock \/ Exchange \/ LoseOrFind

Spec == Init /\ [][Next]_vars
=============================================================================
