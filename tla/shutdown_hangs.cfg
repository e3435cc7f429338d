SPECIFICATION FairSpec
CONSTANTS
  Signals = {term}
  MaxRetries = 2
  Hangs = {"Kafka"}
  MaxRequests = 2
  MaxEvents = 1
  MaxFailures = 0
PROPERTY ShutdownEnds
CHECK_DEADLOCK FALSE
