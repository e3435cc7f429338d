SPECIFICATION FairSpec
CONSTANTS
  r1 = r1
  r2 = r2
  r3 = r3
  r4 = r4
  Groups <- AllGroups
  Requests = {r1, r2, r3, r4}
  Calls <- GetByIds
  Client <- ClientOf
  Responder <- ResponderOf
  Unknown = {r2}
  Slow = {r2}
  Strikes <- OneOfEach
INVARIANTS UnknownIsNeverResolved HandlersAreReleased
PROPERTIES ImplementsRequestOutcome RequestsSettle RequestsAreTaken JoinedClientsAreAnswered
CHECK_DEADLOCK FALSE
