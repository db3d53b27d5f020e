SPECIFICATION FairSpec
CONSTANTS
  Chars <- TwoChars
  Config <- TwoConfig
  Notifying <- OnlyFirst
  Indicating <- TwoChars
  MinLength = 1
  MaxLength = 1
  Initial <- TwoInitial
  AppValues <- OneByte
  ClientValues <- Nothing
  ClientConfigs <- WholeConfigs
  Clients = {a, b}
  Bonded = {a}
  AdvData = {d}
  MaxWrites = 2
  MaxPrepare = 2
  NoClient = NoClient
  NoData = NoData
  Environment = {"protocolError"}
INVARIANTS
  BondKept
PROPERTIES
  UpdateArrives
CHECK_DEADLOCK FALSE
