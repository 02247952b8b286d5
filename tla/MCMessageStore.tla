--------------------------- MODULE MCMessageStore ---------------------------
(* TLC instances of the message store. *)
EXTENDS MessageStore, TLC

\* Every delivery is a message's only one, named after it, in its own mailbox.
OneEach == [d \in Delivery |-> d]

Names == Permutations(Message) \cup Permutations(ExternalId)
           \cup Permutations(RenewOp)
=============================================================================
