SPECIFICATION Spec
CONSTANTS
  list = list
  tables = {}
  dialogs = {pulling1, pulling2}
  Top = Top
  Tabs = Tabs
  Pulling = Pulling
  Views = {Top, Pulling}
  Panels <- MCPanels
  ViewOf <- MCViewOf
  Workspaces = list
  Dialogs = {Pulling}
  MaxLink = 1
SYMMETRY Symmetry
INVARIANTS MarksAgree KnownStale
CHECK_DEADLOCK FALSE
