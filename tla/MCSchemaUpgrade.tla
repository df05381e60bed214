--------------------------- MODULE MCSchemaUpgrade ---------------------------
(***************************************************************************)
(* An instance of SchemaUpgrade: a Build with two requirements, one more   *)
(* of the same part, a spare one, and a record for each part and for none. *)
(***************************************************************************)
EXTENDS SchemaUpgrade, TLC

CONSTANTS red, blue, blueToo, redSpare, reds, blues, greys

MCNeedOf == red :> "red" @@ redSpare :> "red" @@ blue :> "blue" @@ blueToo :> "blue"
MCPartOf == reds :> "red" @@ blues :> "blue" @@ greys :> "grey"
=============================================================================
