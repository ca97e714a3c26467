CONSTANTS
  a = a
  b = b
  c = c
  Poller = poller
  Watcher = watcher
  Worlds <- SomeWorlds
  Fixtures = {a, b, c}
  PageSize = 2
  MaxPages = 2
  MaxAttempts = 2
  MaxDelay = 2
  RetryAfter = {9}
  FileTimes = {1, 2}
  MaxChanges = 1
  MaxDrops = 2
  MaxCrashes = 1
SPECIFICATION Spec
INVARIANTS TypeOK StampsAreTheFiles NothingVanishes ArchivedMeansIngested CompleteMeansAll
INVARIANTS WaitsAreBounded
PROPERTIES CapturesAreTakenUp
