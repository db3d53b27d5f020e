SPECIFICATION Spec
CONSTANTS
  s1 = s1
  s2 = s2
  Services <- OneService
  Secondary <- NoServices
  CharsOf <- OneCharsOf
  DescsOf <- OneDescsOf
  Readable <- OneReadable
  MaxCalls = 3
  MaxChunks = 2
  MaxBlobs = 0
  MonitorsWired = FALSE
  Environment = {"auth", "netError", "overlap"}
INVARIANTS
  TypeOK
  QueueNeverIdle
  OpenCallQueued
  NoRequestSurvives
