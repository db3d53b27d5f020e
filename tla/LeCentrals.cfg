SPECIFICATION LeSpec
CONSTANTS
  s1 = s1
  s2 = s2
  LeServices <- McServices
  LeAttributes <- McAttributes
  LeHome <- McHome
  LeDescriptors <- McDescriptors
  LeMaxCalls = 2
  LeMaxSessions = 2
  DBusScenarios <- McDBusScenarios
  AgTree <- McTree
  AgRefused <- McRefused
  AgScenarios <- McAgScenarios
  DcScenarios <- McDcScenarios
  WrScenarios <- McWrScenarios
CHECK_DEADLOCK FALSE
INVARIANTS
  LeTypeOK
  QueuesMove
  StatesAnnounced
  HandlesLive
  OwnSession
PROPERTIES
  OwnAnswers
  CallsEnd
  ControllersSettle
  DetailsEnd
