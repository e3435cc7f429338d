------------------------- MODULE MCGracefulShutdown -------------------------
(* One service, one or two signals, up to two attempts per connection. *)
EXTENDS GracefulShutdown
=============================================================================
