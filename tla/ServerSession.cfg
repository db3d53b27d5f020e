SPECIFICATION Spec
CONSTANTS
  Chars <- TwoChars
  Config <- TwoConfig
  Notifying <- OnlyFirst
  Indicating <- TwoChars
  MinLength = 1
  MaxLength = 1
  Initial <- TwoInitial
  AppValues <- OneByte
  ClientValues <- Nothing
  ClientConfigs <- WholeConfigs
  Clients = {a, b}
  Bonded = {}
  AdvData = {d}
  MaxWrites = 4
  MaxPrepare = 2
  NoClient = NoClient
  NoData = NoData
  Environment = {"remoteClose", "localClose", "netError", "protocolError", "stop", "listenFails"}
INVARIANTS
  TypeOK
  OneIndication
  CopiesAgree
  UpdateOnItsWay
CHECK_DEADLOCK FALSE
