SPECIFICATION Spec
CONSTANTS
  order = order
  invoice = invoice
  Coordinators <- TwoServices
  Starter = order
  Transactions = {t1}
  Slow = {t1}
  Rejected = {}
  NSteps = 2
  Host <- TwoHosts
  FaultPlans <- EventFaults
INVARIANTS TypeOK CompletedIsEarned StepsInOrder AskedOnce CompensationAnnounced SingleWriter
PROPERTY ImplementsSagaOutcome
CHECK_DEADLOCK FALSE
