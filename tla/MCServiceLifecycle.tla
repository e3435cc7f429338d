-------------------------- MODULE MCServiceLifecycle --------------------------
(* Each of the three services, with all its topics.  The invoice service   *)
(* reads its two responses in groups that read nothing else: one of them   *)
(* stands for both.                                                        *)
EXTENDS ServiceLifecycle, Deployment

OneResponse == [InvoiceService EXCEPT !.getById = [user |-> InvoiceGetById.user]]
AllServices == {OrderService, OneResponse, AuthService}
=============================================================================
