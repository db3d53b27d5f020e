SPECIFICATION Spec
CONSTANTS
  Chars <- OneChar
  Config <- OneConfig
  Notifying <- OneChar
  Indicating <- OneChar
  MinLength = 1
  MaxLength = 2
  Initial <- OneInitial
  AppValues <- JustOne
  ClientValues <- TwoTwos
  ClientConfigs <- HalfConfigs
  Clients = {a, b}
  Bonded = {a}
  AdvData = {d}
  MaxWrites = 1
  MaxPrepare = 2
  NoClient = NoClient
  NoData = NoData
  Environment = {"prepare", "remoteClose", "protocolError"}
INVARIANTS
  SessionsApart
CHECK_DEADLOCK FALSE
