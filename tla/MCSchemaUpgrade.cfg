SPECIFICATION FairSpec
CONSTANTS
  red = red
  blue = blue
  blueToo = blueToo
  redSpare = redSpare
  reds = reds
  blues = blues
  greys = greys
  Requirements = {red, blue, blueToo, redSpare}
  Spares = {redSpare}
  Records = {reds, blues, greys}
  NeedOf <- MCNeedOf
  PartOf <- MCPartOf
  Nobody = Nobody
INVARIANTS VersionNamesTheShape ReadyIsCurrent
PROPERTIES NothingLost UpgradeCompletes
CHECK_DEADLOCK FALSE
