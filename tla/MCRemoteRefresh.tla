--------------------------- MODULE MCRemoteRefresh ---------------------------
(***************************************************************************)
(* Instances of RemoteRefresh: the Workspace list, tabs, and the dialogs   *)
(* of one projection, which may be exchanged for one another.              *)
(***************************************************************************)
EXTENDS RemoteRefresh, TLC

CONSTANTS list, tables, dialogs, Top, Tabs, Pulling

MCPanels == {list} \cup tables \cup dialogs

MCViewOf ==
  [p \in MCPanels |-> IF p = list THEN Top ELSE IF p \in tables THEN Tabs ELSE Pulling]

Symmetry == Permutations(dialogs)
=============================================================================
