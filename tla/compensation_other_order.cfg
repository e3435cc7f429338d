SPECIFICATION ApprovalSpec
CONSTANTS
  order = order
  invoice = invoice
  Coordinators <- TwoServices
  Starter = order
  InvoiceService = invoice
  Transactions = {slow, refused}
  Slow = {slow, refused}
  Rejected = {refused}
  NSteps = 2
  Host <- TwoHosts
  FaultPlans <- NoFaults
PROPERTY CancellationIsKept
CHECK_DEADLOCK FALSE
