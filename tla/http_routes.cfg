SPECIFICATION FairSpec
CONSTANTS
  Requests <- MCRequests
INVARIANTS
  TypeOK
  ServiceIsEntitled
  StatusIsTrue
PROPERTIES
  EveryRequestIsAnswered
