-------------------------- MODULE MCTriggerDelivery --------------------------
(* A small instance of TriggerDelivery for TLC. *)
EXTENDS TriggerDelivery

TwoJobs == <<"j1", "j2">>
TwoConsumers == <<"c1", "c2">>
=============================================================================
