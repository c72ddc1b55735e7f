----------------------------- MODULE MCDelivery -----------------------------
(* Delivery checked by TLC. *)
EXTENDS Delivery
=============================================================================
