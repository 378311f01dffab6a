----------------------------- MODULE MCDelivery -----------------------------
(* A durable session over a few connections.                                 *)
EXTENDS Delivery

=============================================================================
