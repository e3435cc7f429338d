SPECIFICATION FairApprovalSpec
CONSTANTS
  order = order
  invoice = invoice
  Coordinators <- TwoServices
  Starter = order
  InvoiceService = invoice
  Transactions = {slow}
  Slow = {slow}
  Rejected = {}
  NSteps = 2
  Host <- TwoHosts
  FaultPlans <- OneCrash
PROPERTY TransactionsSettle
CHECK_DEADLOCK FALSE
