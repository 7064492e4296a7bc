CONSTANTS
  u1 = u1
  r1 = r1
  r2 = r2
  Users <- MCUsers
  Requests <- MCRequests
  MaxCredentials = 1
  MaxReloads = 1
SPECIFICATION FairSpec
INVARIANTS
  SharedRefresh
  SessionWatched
  SignedInHasAgent
PROPERTIES
  NoStaleSend
  RequestEnds
CHECK_DEADLOCK FALSE
