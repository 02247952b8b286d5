------------------------------ MODULE MCBroker ------------------------------
(* A TLC instance of the broker: one delivery, in its own mailbox. *)
EXTENDS Broker

OnlyMessage == [d \in Delivery |-> d]
=============================================================================
