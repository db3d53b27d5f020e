SPECIFICATION BackendsSpec
CONSTANTS
  SoMaxWrites = 3
  SoMaxSends = 3
  SoMaxSessions = 2
  BsChunk = 1
  BsScenarios <- McBsScenarios
  DsScenarios <- McDsScenarios
  BvScenarios <- McBvScenarios
  AsScenarios <- McAsScenarios
  AvScenarios <- McAvScenarios
  WsScenarios <- McWsScenarios
  MoChunk = 1
  MoScenarios <- McMoScenarios
  DvServers = {"v1", "v2"}
  DvPorts = 2
  DvScenarios <- McDvScenarios
  BdDevices = {"a", "b"}
  BdScenarios <- McBdScenarios
  BlDevices = {"a"}
  BlScenarios <- McBlScenarios
  AdAgents = {1, 2}
  AdScenarios <- McAdScenarios
  DdScenarios <- McDdScenarios
  SdDevices = {"a", "b"}
  SdScenarios <- McSdScenarios
  WdDevices = {"a", "b"}
  WdScenarios <- McWdScenarios
  ApServices = {"s1", "s2"}
  ApClients = {"c1", "c2"}
  ApMaxWrites = 3
  ApScenarios <- McApScenarios
  DpServices = {"s1", "s2"}
  DpCentrals = {"c1", "c2"}
  DpScenarios <- McDpScenarios
  BcDevice = "d"
  BcOthers = {"a", "b"}
  BcScenarios <- McBcScenarios
  BaScenarios <- McBaScenarios
CHECK_DEADLOCK FALSE
INVARIANTS
  BackendsTypeOK
  Streams
  ConnectedIsOwn
  
  ServersHear
  OneEnd
  
  AdapterShared
  PeripheralAgrees
PROPERTIES
  SocketsSettle
  ServersServe
  SearchesEnd
