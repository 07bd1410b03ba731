SPECIFICATION Spec
CONSTANTS
  Absent = Absent
  Hosts <- HostIds
  InsightsHosts <- HostsWithInsights
  HostColumns <- ColumnsOfHosts
  Faults = {"query", "call"}
  Scenarios <- Tables
  Thresholds = {0, 5, 25, 28, 50, 55}
  CutPoints = {1, 3}
  Movable <- Few
  MaxChanges = 2
INVARIANTS TypeOK FiltersRespected NoFalseAcceptance NoFalseAlarm EarlyExitAgrees
