-------------------------- MODULE MCRequestResponse --------------------------
(* getById of an order twice (r1, r2), of an invoice once (r3, r4).        *)
EXTENDS RequestResponse, Deployment

CONSTANTS r1, r2, r3, r4

ClientOf ==
  [r \in Requests |-> CASE r = r3 -> InvoiceGetById.user [] r = r4 -> InvoiceGetById.order
                        [] OTHER -> OrderGetById.user]
ResponderOf ==
  [r \in Requests |-> IF r = r4 THEN OrderService.groupOf["FETCH_ORDER_REQUEST"]
                                ELSE AuthService.groupOf["FETCH_USER_REQUEST"]]
AllGroups == {ClientOf[r] : r \in Requests} \cup {ResponderOf[r] : r \in Requests}
GetByIds  == {{r1}, {r2}, {r3, r4}}

OneOfEach == {<<"publishError", r1>>, <<"subscribeError", r1>>, <<"redelivery", r3>>}
=============================================================================
