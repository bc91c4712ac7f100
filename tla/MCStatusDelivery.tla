-------------------------- MODULE MCStatusDelivery --------------------------
(* A small instance of StatusDelivery for TLC. *)
EXTENDS StatusDelivery
=============================================================================
