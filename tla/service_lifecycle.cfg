SPECIFICATION FairLifecycleSpec
CONSTANTS
  Signals = {term, int}
  MaxRetries = 2
  Hangs = {}
  MaxRequests = 2
  MaxEvents = 1
  MaxFailures = 2
  Services <- AllServices
INVARIANTS ListeningIsSubscribed RequestsAreServed ExitIsClean
PROPERTIES HandlersFindConnections StartEnds ShutdownEnds
CHECK_DEADLOCK FALSE
