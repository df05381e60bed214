SPECIFICATION FairSpec
CONSTANTS
  list = list
  tables = {table}
  dialogs = {}
  Top = Top
  Tabs = Tabs
  Pulling = Pulling
  Views = {Top, Tabs}
  Panels <- MCPanels
  ViewOf <- MCViewOf
  Workspaces = list
  Dialogs = {}
  MaxLink = 2
PROPERTIES Settles
CHECK_DEADLOCK FALSE
