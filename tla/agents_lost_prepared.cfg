SPECIFICATION FairSpec
CONSTANTS
  HostA = HostA
  HostB = HostB
  MaxRuns = 1
  MaxBoots = 1
  Backlog = 1
  Balanced = {FALSE}
  Faults = {}
PROPERTIES
  PreparedStartsMigration
CHECK_DEADLOCK FALSE
