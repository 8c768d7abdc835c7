SPECIFICATION Spec
CONSTANTS
  Seed <- timelineItems
  Breaks <- MCBreaks
  Path <- MCPath
  Starts = 2
  Visit = {v1, v2}
  MaxDeaths = 1
INVARIANTS OwnSeedIsWhole PageIsWhole
PROPERTIES FirstServerListens SeedCompletes VisitEnds
CHECK_DEADLOCK FALSE
