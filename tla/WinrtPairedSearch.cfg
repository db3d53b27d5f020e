SPECIFICATION WdSpec
CONSTANTS
  WdDevices = {"a", "b"}
  WdScenarios <- McPairedSearch
CHECK_DEADLOCK FALSE
PROPERTIES
  WdSearchEnds
