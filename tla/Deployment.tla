----------------------------- MODULE Deployment -----------------------------
(***************************************************************************)
(* The three services as their container configurations put them together: *)
(* the initialize methods in the order in which a start calls them, the    *)
(* topics each subscribes, and the consumer group that reads each topic;   *)
(* and the requests that a getById makes to other services.                *)
(***************************************************************************)
EXTENDS Sequences, TLC

CoordinatorTopics ==
  <<"STEP_COMPLETED", "STEP_FAILED", "COMPENSATION_START", "COMPENSATION_COMPLETED",
    "COMPLETED", "TIMEOUT">>

(* The coordinator of a service reads its topics in one group. *)
CoordinatedBy(group) ==
  [t \in {CoordinatorTopics[i] : i \in DOMAIN CoordinatorTopics} |-> group]

(* The groups in which the responses to a getById are read. *)
OrderGetById   == [user |-> "ORDER_USER_FETCH_GROUP"]
InvoiceGetById == [user |-> "INVOICE_USER_FETCH_GROUP", order |-> "INVOICE_ORDER_FETCH_GROUP"]

(* The third service key is the service, which initialises both again. *)
OrderService ==
  [initialisations |-> <<"Coordinator", "Subscriber", "Subscriber", "Coordinator">>,
   topicsOf |-> [Coordinator |-> CoordinatorTopics,
                 Subscriber  |-> <<"FETCH_ORDER_REQUEST", "UPDATE_ORDER_STATUS">>],
   groupOf  |-> [FETCH_ORDER_REQUEST |-> "ORDER_USER_FETCH_GROUP",
                 UPDATE_ORDER_STATUS |-> "ORDER_SERVICE_TRANSACTION_GROUP"]
                @@ CoordinatedBy("ORDER_SERVICE_TRANSACTION_GROUP"),
   getById  |-> OrderGetById]

InvoiceTopics == <<"INVOICE_GENERATE", "USER_NOTIFICATION">>

InvoiceService ==
  [initialisations |-> <<"Subscriber", "Coordinator", "Subscriber", "Coordinator">>,
   topicsOf |-> [Coordinator |-> CoordinatorTopics, Subscriber |-> InvoiceTopics],
   groupOf  |-> [INVOICE_GENERATE  |-> "INVOICE_SERVICE_APP_GROUP",
                 USER_NOTIFICATION |-> "INVOICE_SERVICE_TRANSACTION_GROUP"]
                @@ CoordinatedBy("INVOICE_SERVICE_TRANSACTION_GROUP"),
   getById  |-> InvoiceGetById]

(* auth-service never initialises its coordinator. *)
AuthService ==
  [initialisations |-> <<"Subscriber", "Subscriber">>,
   topicsOf |-> [Subscriber |-> <<"FETCH_USER_REQUEST">>],
   groupOf  |-> [FETCH_USER_REQUEST |-> "AUTH_SERVICE_GROUP"],
   getById  |-> << >>]
=============================================================================
