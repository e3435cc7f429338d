SPECIFICATION FairApprovalSpec
CONSTANTS
  order = order
  invoice = invoice
  Coordinators <- TwoServices
  Starter = order
  InvoiceService = invoice
  Transactions = {timely, refused}
  Slow = {refused}
  Rejected = {refused}
  NSteps = 2
  Host <- TwoHosts
  FaultPlans <- NoFaults
INVARIANT RejectedIsNeverInvoiced
PROPERTIES TimelyOrdersAreInvoiced TransactionsSettle
CHECK_DEADLOCK FALSE
