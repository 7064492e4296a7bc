CONSTANTS
  Options <- MCOptions
  MaxMessages = 3
  MaxCalls = 2
  MaxToolTurns = 1
  MaxIncidents = 1
SPECIFICATION FairSpec
INVARIANTS
  DeliveryOrder
  RequestsComplete
  TranscriptMatches
  RunSettled
PROPERTIES
  ImplementsMailbox
  RunEnds
CHECK_DEADLOCK FALSE
