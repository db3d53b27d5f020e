SPECIFICATION Spec
CONSTANTS
  s1 = s1
  s2 = s2
  Services <- TwoServices
  Secondary <- TwoSecondary
  CharsOf <- TwoCharsOf
  DescsOf <- TwoDescsOf
  Readable <- TwoReadable
  MaxCalls = 1
  MaxChunks = 1
  MaxBlobs = 1
  MonitorsWired = FALSE
  Environment = {"auth"}
INVARIANTS
  DiscoveryCarried
