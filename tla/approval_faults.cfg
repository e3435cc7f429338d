SPECIFICATION ApprovalSpec
CONSTANTS
  order = order
  invoice = invoice
  Coordinators <- TwoServices
  Starter = order
  InvoiceService = invoice
  Transactions = {slow}
  Slow = {slow}
  Rejected = {}
  NSteps = 2
  Host <- TwoHosts
  FaultPlans <- ProcessFaults
INVARIANTS InvoicedOrderIsCompleted CompletedIsInvoiced OneInvoicePerOrder OrdersAreTracked
PROPERTIES ImplementsCoordinator ImplementsSagaOutcome
CHECK_DEADLOCK FALSE
