SPECIFICATION ProcessSpec
CONSTANTS
  Conns = {c1, c2, c3}
  Shutdowns = {s1, s2, s3}
  Environments <- UpToOneOdd
INVARIANTS
  TypeOK
  OnlyTheTimerCuts
  PoolOutlivesClients
  ExitOneHasReason
  NobodyIsKilled
PROPERTIES
  ShutdownEnds
\* The process ends.
CHECK_DEADLOCK FALSE
