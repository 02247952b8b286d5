----------------------------- MODULE MCMessages -----------------------------
(***************************************************************************)
(* Two TLC instances of the message store, side by side: one delivery with *)
(* its leases and its expiry, and two messages that are staged, published  *)
(* and answer each other.  A behaviour belongs to one of the instances and *)
(* leaves the other at rest.                                               *)
(***************************************************************************)
EXTENDS MCMessageStore

CONSTANTS ReplyMessage, ReplyTime

VARIABLES
    part,   \* the instance this behaviour is about
    rPub, rDlv, rAttempts, rTransport, rOps, rLastEvent, rAllocator, rClock

Both == Message \cup {ReplyMessage}
BothEach == [m \in Both |-> m]

R == INSTANCE MessageStore WITH
    Message <- Both, Delivery <- Both, Mailbox <- Both,
    MessageOf <- BothEach, MailboxOf <- BothEach, RenewOp <- {},
    LeaseTicks <- 1, Delays <- {0}, Lifetimes <- {0}, MaxLag <- 0,
    MaxTime <- ReplyTime,
    pub <- rPub, dlv <- rDlv, attempts <- rAttempts, transport <- rTransport,
    ops <- rOps, lastEvent <- rLastEvent, allocator <- rAllocator,
    clock <- rClock

replyVars == <<rPub, rDlv, rAttempts, rTransport, rOps, rLastEvent, rAllocator,
               rClock>>

MCInit == Init /\ R!Init /\ part \in {"delivery", "replies"}
MCNext ==
    \/ part = "delivery" /\ Next /\ UNCHANGED <<part, replyVars>>
    \/ part = "replies" /\ R!Next /\ UNCHANGED <<part, vars>>

\* Fairness is that of the first instance; the safety of the second needs none.
MCSpec ==
    /\ MCInit /\ [][MCNext]_<<part, vars, replyVars>>
    /\ part = "delivery" => WF_vars(Tick) /\ WF_vars(Maintenance)

\* Messages that are staged and answered: nothing of a staged message is
\* claimable or numbered, public numbers have no gap, a repeated receipt
\* operation finds the answer it gave before, and what a transport confirmed
\* is never taken back.
RepliesSound ==
    /\ R!HiddenUntilPublished /\ R!PublicSequenceDense
    /\ R!RecordedResultsAgree /\ R!ExternalEffectStands
=============================================================================
