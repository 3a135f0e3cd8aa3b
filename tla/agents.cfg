SPECIFICATION FairSpec
CONSTANTS
  HostA = HostA
  HostB = HostB
  MaxRuns = 3
  MaxBoots = 2
  Backlog = 1
  Balanced = {TRUE, FALSE}
  Faults = {"migrate", "create", "kill", "reboot"}
INVARIANTS
  PluggedWhereGuestRuns
  TrafficHasInterface
  OneGuestRuns
PROPERTIES
  LostOnlyWithoutDevice
  HandoverSpec
  MigrationFinishes
  DestinationServesAgain
CHECK_DEADLOCK FALSE
