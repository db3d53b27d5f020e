SPECIFICATION FairSpec
CONSTANTS
  s1 = s1
  s2 = s2
  Services <- OneService
  Secondary <- NoServices
  CharsOf <- OneCharsOf
  DescsOf <- OneDescsOf
  Readable <- OneReadable
  MaxCalls = 2
  MaxChunks = 2
  MaxBlobs = 1
  MonitorsWired = FALSE
  Environment = {"netError"}
PROPERTIES
  CallsAnswered
  DiscoveriesFinish
