--------------------------- MODULE OrderApproval ----------------------------
(***************************************************************************)
(* The ORDER_APPROVAL saga: order-service creates an order and starts its  *)
(* transaction, updates the order's status as step 0; invoice-service      *)
(* generates the invoice as step 1.  Every action here is an action of     *)
(* TransactionCoordinator together with what it does to orders, invoices.  *)
(* An order is named by its transaction: createOrder starts one each.      *)
(* Those created with totalAmount <= 0 are the Rejected.                   *)
(***************************************************************************)
EXTENDS TransactionCoordinator

CONSTANTS
  InvoiceService   \* the coordinator of invoice-service; Starter is order-service

ASSUME ApprovalAssumption ==
  /\ NSteps = 2
  /\ InvoiceService \in Coordinators \ {Starter}
  /\ Host = [i \in {0, 1} |-> IF i = 0 THEN Starter ELSE InvoiceService]
  /\ Rejected \subseteq Slow

UpdateOrderStatusStep == 0
InvoiceGenerateStep   == 1

OrderStatus == {"NONE", "PENDING", "COMPLETED", "CANCELLED"}

VARIABLES
  orders,    \* orders[t]: status of the order in order-service's database
  invoices   \* invoices[t]: how many invoices invoice-service holds for it

approvalVars == <<vars, orders, invoices>>

ApprovalTypeOK ==
  /\ TypeOK
  /\ orders \in [Transactions -> OrderStatus]
  /\ invoices \in [Transactions -> Nat]

ApprovalInit ==
  /\ Init
  /\ orders = [t \in Transactions |-> "NONE"]
  /\ invoices = [t \in Transactions |-> 0]

-----------------------------------------------------------------------------
(* order-service: requests *)

(* createOrder saves an order under a fresh id and awaits the result. *)
SaveOrder(t) ==
  /\ BeginRequest(t)
  /\ orders[t] = "NONE"
  /\ orders' = [orders EXCEPT ![t] = "PENDING"]
  /\ UNCHANGED invoices

(* startTransaction, of an order to approve or to fail, builds the first   *)
(* state of its transaction.                                               *)
StartOrder(t) ==
  /\ StartTransaction(t)
  /\ UNCHANGED <<orders, invoices>>

FinishOrder(t) ==
  /\ t \notin Rejected
  /\ EndRequest(t)
  /\ UNCHANGED <<orders, invoices>>

(* startFailedOrderTransaction once the transaction has been started. *)
FinishRejectedOrder(t) ==
  /\ t \in Rejected
  /\ EndRequest(t)
  /\ orders' = [orders EXCEPT ![t] = "CANCELLED"]
  /\ UNCHANGED invoices

-----------------------------------------------------------------------------
(* order-service: messages of the UPDATE_ORDER_STATUS topic, which its     *)
(* coordinator's consumer group also reads, one message at a time.         *)

UpdateOrderStatus(t) ==
  /\ t \notin Rejected
  /\ work[Starter] = Idle
  /\ PerformStep(UpdateOrderStatusStep, t)
  /\ orders' = [orders EXCEPT ![t] = "COMPLETED"]
  /\ UNCHANGED invoices

(* Mutant: the refusal is saved, but nothing is thrown. *)
RefuseAndCarryOn(t) ==
  /\ t \in Rejected
  /\ work[Starter] = Idle
  /\ PerformStep(UpdateOrderStatusStep, t)
  /\ orders' = [orders EXCEPT ![t] = "CANCELLED"]
  /\ UNCHANGED invoices

(* failureReason is set: the final status is saved, BadRequestError thrown. *)
RefuseOrder(t) ==
  /\ t \in Rejected
  /\ work[Starter] = Idle
  /\ RejectStep(UpdateOrderStatusStep, t)
  /\ orders' = [orders EXCEPT ![t] = "CANCELLED"]
  /\ UNCHANGED invoices

(* Mutant: the compensation is answered as if the step had been executed. *)
AnswerCompensation(t, x) ==
  /\ work[Starter] = Idle
  /\ TakeCommand(StepMessage("COMPENSATE", t, UpdateOrderStatusStep))
  /\ PublishLater(Starter, {StepMessage("STEP_COMPLETED", t, UpdateOrderStatusStep)})
  /\ orders[x] # "NONE"
  /\ orders' = [orders EXCEPT ![x] = "COMPLETED"]
  /\ UNCHANGED <<store, events, work, performed, notified, invoices>>

(* A compensation message nests its payload, so the handler reads neither  *)
(* orderId nor failureReason: findOneOrFail({ where: { id: undefined } })  *)
(* yields some order, which becomes COMPLETED.  The completion published   *)
(* for it carries no transactionId and no coordinator finds it.            *)
UpdateUnidentifiedOrder(t, x) ==
  /\ work[Starter] = Idle
  /\ TakeCompensation(UpdateOrderStatusStep, t)
  /\ orders[x] # "NONE"
  /\ orders' = [orders EXCEPT ![x] = "COMPLETED"]
  /\ UNCHANGED invoices

-----------------------------------------------------------------------------
(* invoice-service: messages of the INVOICE_GENERATE topic *)

GenerateInvoice(t) ==
  /\ PerformStep(InvoiceGenerateStep, t)
  /\ invoices' = [invoices EXCEPT ![t] = @ + 1]
  /\ UNCHANGED orders

(* Mutant: the handler finds the order in the compensation message. *)
InvoiceCompensation(t) ==
  /\ TakeCompensation(InvoiceGenerateStep, t)
  /\ invoices' = [invoices EXCEPT ![t] = @ + 1]
  /\ UNCHANGED orders

(* Nested payload again: userId and orderId are undefined, the handler returns. *)
IgnoreCompensation(t) ==
  /\ TakeCompensation(InvoiceGenerateStep, t)
  /\ UNCHANGED <<orders, invoices>>

-----------------------------------------------------------------------------
(* The database fails the handler of a step: it throws before it publishes, *)
(* and its consumer goes on with the next message.                         *)
FailStep(t) ==
  /\ t \in Slow
  /\ \/ work[Starter] = Idle /\ RejectStep(UpdateOrderStatusStep, t)
     \/ RejectStep(InvoiceGenerateStep, t)
  /\ UNCHANGED <<orders, invoices>>

OrderStep ==
  \E t \in Transactions :
    \/ SaveOrder(t)
    \/ StartOrder(t)
    \/ FinishOrder(t)
    \/ FinishRejectedOrder(t)
    \/ UpdateOrderStatus(t)
    \/ RefuseOrder(t)
    \/ \E x \in Transactions : UpdateUnidentifiedOrder(t, x)

InvoiceStep == \E t \in Transactions : GenerateInvoice(t) \/ IgnoreCompensation(t)

ApprovalNext ==
  \/ (CoordinatorStep \/ FaultStep) /\ UNCHANGED <<orders, invoices>>
  \/ OrderStep
  \/ InvoiceStep
  \/ \E t \in Transactions : FailStep(t)

ApprovalSpec == ApprovalInit /\ [][ApprovalNext]_approvalVars

(* Workers that have begun go on, each consumer group takes messages while *)
(* there are some, publications under way end, the timer comes round.      *)
(* Nothing obliges a client to create an order, or a fault to strike.      *)
CoordinatorOnly(A) == A /\ UNCHANGED <<orders, invoices>>

OrderGroup ==
  \/ CoordinatorOnly(\E e \in events[Starter] : Handle(Starter, e))
  \/ \E t \in Transactions :
       \/ UpdateOrderStatus(t)
       \/ RefuseOrder(t)
       \/ \E x \in Transactions : UpdateUnidentifiedOrder(t, x)

OrderRequest(t) ==
  \/ StartOrder(t)
  \/ CoordinatorOnly(Continue(t))
  \/ FinishOrder(t)
  \/ FinishRejectedOrder(t)

InvoiceGroup ==
  CoordinatorOnly(\E e \in events[InvoiceService] : Handle(InvoiceService, e))

ApprovalFairness ==
  /\ WF_approvalVars(OrderGroup)
  /\ WF_approvalVars(InvoiceGroup)
  /\ WF_approvalVars(InvoiceStep)
  /\ \A c \in Coordinators :
       /\ WF_approvalVars(CoordinatorOnly(Continue(c)))
       /\ WF_approvalVars(CoordinatorOnly(\E m \in outbox[c] : Flush(c, m)))
  /\ \A t \in Transactions : WF_approvalVars(OrderRequest(t))
  /\ \A t \in Slow : WF_approvalVars(CoordinatorOnly(CheckTimeout(Starter, t)))

FairApprovalSpec == ApprovalSpec /\ ApprovalFairness

-----------------------------------------------------------------------------
(* Properties *)

(* An invoice exists only for an order that is COMPLETED, through late     *)
(* commands, timeouts and compensation messages on the same topics.        *)
InvoicedOrderIsCompleted ==
  \A t \in Transactions : invoices[t] > 0 => orders[t] = "COMPLETED"

(* An order created with totalAmount <= 0 is never invoiced, and no service *)
(* ever records its transaction as COMPLETED.                              *)
RejectedIsNeverInvoiced ==
  \A t \in Rejected :
    /\ invoices[t] = 0
    /\ \A c \in Coordinators : store[c][t].status # "COMPLETED"

(* Each service that records COMPLETED speaks of an order that is COMPLETED *)
(* in order-service and invoiced in invoice-service.                       *)
CompletedIsInvoiced ==
  \A c \in Coordinators, t \in Transactions :
    store[c][t].status = "COMPLETED" => orders[t] = "COMPLETED" /\ invoices[t] > 0

(* Why the three hold: the databases follow the steps that were executed. *)
DatabasesFollowSteps ==
  \A t \in Transactions :
    /\ <<UpdateOrderStatusStep, t>> \in performed
         => orders[t] = "COMPLETED" /\ t \notin Rejected
    /\ <<InvoiceGenerateStep, t>> \in performed
         => <<UpdateOrderStatusStep, t>> \in performed
    /\ <<InvoiceGenerateStep, t>> \in performed <=> invoices[t] > 0

(* No order is invoiced twice, though services restart, late completions   *)
(* are handled and compensations are published on the very topic that      *)
(* generates invoices: unless its INVOICE_GENERATE command was delivered   *)
(* again, for its offset was not committed when the process ended (between *)
(* the invoice saved and the commit) or the group rebalanced.              *)
OneInvoicePerOrder ==
  \A t \in Transactions :
    StepMessage("EXECUTE", t, InvoiceGenerateStep) \notin offsets.again
      => invoices[t] <= 1

(* The order is saved before its transaction exists: unless a process ends *)
(* in between, or Redis refuses the transaction or lets it go, a saved     *)
(* order is one whose request is still at work or whose transaction        *)
(* order-service has stored.                                               *)
OrdersAreTracked ==
  \A t \in Transactions :
    orders[t] # "NONE" /\ NothingIsLost
      => work[t] \in Running \cup {Called} \/ store[Starter][t] # Missing

(* Why: an order is there only once its request has begun. *)
OrdersHaveRequests == \A t \in Transactions : orders[t] # "NONE" => work[t] # Idle

(* The services' handlers are a participant the coordinator allows.        *)
ImplementsCoordinator == Spec

Everywhere(t, status) == \A c \in Coordinators : store[c][t].status = status

(* A stored transaction ends COMPLETED in every service or COMPENSATED in  *)
(* every service, and stays so: rejected and timed out orders included.    *)
TransactionsSettle ==
  \A t \in Transactions :
    store[Starter][t].status # "NONE"
      ~> [](Everywhere(t, "COMPLETED") \/ Everywhere(t, "COMPENSATED"))

(* An accepted order whose steps are answered in time is invoiced, and its *)
(* transaction is COMPLETED in every service.                              *)
TimelyOrdersAreInvoiced ==
  \A t \in Transactions \ Slow :
    orders[t] = "PENDING"
      ~> orders[t] = "COMPLETED" /\ invoices[t] = 1 /\ Everywhere(t, "COMPLETED")

(* README.md:34: "Handles order cancellation with compensation actions".   *)
(* Compensating one order leaves the cancellation of another in place.     *)
CancellationIsKept ==
  [][\A t \in Transactions : orders[t] = "CANCELLED" => orders'[t] = "CANCELLED"]_orders
=============================================================================
