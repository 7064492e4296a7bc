CONSTANTS
  Commands = {c1}
  Senders = {s1}
  SlowQr = FALSE
  LongSends = FALSE
  MaxSpawns = 3
  MaxDevices = 3
  MaxCrashes = 1
  MaxKills = 1
  Killable = {"kill", "status", "spawn", "poll", "unlink", "wipe"}
SPECIFICATION FairSpec
INVARIANTS
  WorkerFindable
  ConnectedWasOpened
  LogoutSticks
PROPERTIES
  StaysLinked
  LinkSettles
