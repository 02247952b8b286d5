---------------------------- MODULE MessageStore ----------------------------
(***************************************************************************)
(* The durable message store of vyane-message (SqliteMessageStore):        *)
(* publications behind a staging gate, leased deliveries with bounded      *)
(* attempts, receipts of external transports, and the recorded results     *)
(* that make every receipt operation replayable.                           *)
(*                                                                         *)
(* Every operation runs in one write transaction and is one action; one    *)
(* that fails rolls back and is a stuttering step.  An operation reads the *)
(* clock before it waits for the write lock, so the time t it works with   *)
(* may be older than the transactions it follows.  The rows are those of   *)
(* one owner and one conversation.  The caller of a receipt operation      *)
(* holds the receipt of some attempt, not necessarily of the latest.       *)
(***************************************************************************)
EXTENDS Integers, Sequences, FiniteSets

CONSTANTS
    Message,          \* requests, each with its own idempotency key
    Delivery,         \* their deliveries
    Mailbox,          \* destinations a consumer may claim from
    MessageOf,        \* the message of a delivery
    MailboxOf,        \* the mailbox of a delivery
    ExternalId,       \* transport identities a provider may return
    RenewOp,          \* caller-chosen renewal ids
    NoMessage, NoId,  \* NULL
    MaxAttempts,      \* max_attempts of every delivery
    LeaseTicks,       \* length of a lease
    Delays,           \* delays a request or a retryable nack may ask for
    Lifetimes,        \* time to live a request may ask for, 0 for none
    MaxLag,           \* how old the time of an operation may be
    MaxTime           \* bound of the model: the clock

ASSUME ShapeAssumption ==
    /\ MessageOf \in [Delivery -> Message] /\ MailboxOf \in [Delivery -> Mailbox]
    /\ NoMessage \notin Message /\ NoId \notin ExternalId

ASSUME BoundAssumption ==
    /\ MaxAttempts \in Nat \ {0} /\ LeaseTicks \in Nat \ {0}
    /\ Delays \subseteq Nat /\ Lifetimes \subseteq Nat
    /\ MaxLag \in Nat /\ MaxTime \in Nat

VARIABLES
    pub,        \* tables messages and message_publications
    dlv,        \* table deliveries
    attempts,   \* table delivery_attempts: the first expiry of every lease
    transport,  \* table delivery_transport_receipts
    ops,        \* table receipt_operations
    lastEvent,  \* kind of a delivery's latest row in message_events
    allocator,  \* next sequence numbers: of all messages, of the public ones
    clock

tables == <<pub, dlv, attempts, transport, ops, lastEvent, allocator>>
vars == <<tables, clock>>

-----------------------------------------------------------------------------
(* Records.  Time 0 stands for NULL; the clock starts at 1. *)

HoldsLease == {"leased", "delivered"}
Terminal   == {"acknowledged", "dead_lettered", "expired", "cancelled"}
Live       == {"pending"} \cup HoldsLease
Status     == {"absent"} \cup Live \cup Terminal
EventKind  == {"none", "enqueued", "leased", "lease_renewed", "delivered",
               "acknowledged", "nacked", "reclaimed", "dead_lettered",
               "expired", "cancelled"}

NoPublication == [origin |-> "none", status |-> "absent", seq |-> 0,
                  replyTo |-> NoMessage]
\* attempt_count and lease_generation are set by the same statement: gen.
NoDelivery == [status |-> "absent", avail |-> 0, expires |-> 0, gen |-> 0,
               rev |-> 0, lease |-> 0, updated |-> 0, reached |-> FALSE,
               failure |-> "none"]
NoReceipt == [gen |-> 0, id |-> NoId]

Init ==
    /\ pub = [m \in Message |-> NoPublication]
    /\ dlv = [d \in Delivery |-> NoDelivery]
    /\ attempts = [d \in Delivery |-> <<>>]
    /\ transport = [d \in Delivery |-> NoReceipt]
    /\ ops = {}
    /\ lastEvent = [d \in Delivery |-> "none"]
    /\ allocator = [all |-> 1, public |-> 1]
    /\ clock = 1

\* Times an operation that commits now may have read.
Samples == {t \in 1 .. clock : clock - t <= MaxLag}
Later(a, b) == IF a >= b THEN a ELSE b

DeliveriesOf(m) == {d \in Delivery : MessageOf[d] = m}
Published(d) == pub[MessageOf[d]].status = "published"
HasTransportReceipt(d) == transport[d].gen # 0
Past(limit, t) == limit # 0 /\ limit <= t

\* Bound of the model: what begins now ends before time does.
WithinHorizon(until) == until <= MaxTime

-----------------------------------------------------------------------------
(* Publications. *)

\* The deliveries of m as a request of time t creates them.
NewDeliveries(m, delay, life, t) ==
    [d \in Delivery |->
       IF d \in DeliveriesOf(m)
         THEN [NoDelivery EXCEPT !.status = "pending", !.avail = t + delay,
                                 !.expires = IF life = 0 THEN 0 ELSE t + life,
                                 !.updated = t]
         ELSE dlv[d]]

\* A request that expires must outlive its availability, and may answer only a
\* published message.
Admissible(m, delay, life, replyTo) ==
    /\ pub[m].status = "absent"
    /\ life = 0 \/ delay < life
    /\ WithinHorizon(clock + life)
    /\ replyTo # NoMessage => pub[replyTo].status = "published"

\* insert_message_in_transaction, published at once.
InsertPublished(m, delay, life, replyTo) ==
    /\ Admissible(m, delay, life, replyTo)
    /\ pub' = [pub EXCEPT ![m] = [origin |-> "ordinary", status |-> "published",
                                  seq |-> allocator.public, replyTo |-> replyTo]]
    /\ allocator' = [all |-> allocator.all + 1, public |-> allocator.public + 1]

Enqueue(m, delay, life, replyTo, t) ==
    /\ InsertPublished(m, delay, life, replyTo)
    /\ dlv' = NewDeliveries(m, delay, life, t)
    /\ lastEvent' = [d \in Delivery |->
         IF d \in DeliveriesOf(m) THEN "enqueued" ELSE lastEvent[d]]
    /\ UNCHANGED <<attempts, transport, ops, clock>>

\* A staged message carries its number among all messages until it is public.
Stage(m, delay, life, replyTo, t) ==
    /\ Admissible(m, delay, life, replyTo)
    /\ pub' = [pub EXCEPT ![m] = [origin |-> "staged", status |-> "staged",
                                  seq |-> allocator.all, replyTo |-> replyTo]]
    /\ allocator' = [allocator EXCEPT !.all = @ + 1]
    /\ dlv' = NewDeliveries(m, delay, life, t)
    /\ UNCHANGED <<attempts, transport, ops, lastEvent, clock>>

\* Publishing gives the message its place among the public ones.  Nothing
\* looks at the expiry of its deliveries.
PublishStaged(m, t) ==
    /\ pub[m].status = "staged"
    /\ pub' = [pub EXCEPT ![m].status = "published",
                          ![m].seq = allocator.public]
    /\ allocator' = [allocator EXCEPT !.public = @ + 1]
    /\ dlv' = [d \in Delivery |->
         IF d \in DeliveriesOf(m)
           THEN [dlv[d] EXCEPT !.updated = Later(t, @)] ELSE dlv[d]]
    /\ lastEvent' = [d \in Delivery |->
         IF d \in DeliveriesOf(m) THEN "enqueued" ELSE lastEvent[d]]
    /\ UNCHANGED <<attempts, transport, ops, clock>>

DiscardStaged(m) ==
    /\ pub[m].status = "staged"
    /\ pub' = [pub EXCEPT ![m].status = "discarded"]
    /\ UNCHANGED <<dlv, attempts, transport, ops, lastEvent, allocator, clock>>

-----------------------------------------------------------------------------
(* Transitions of one delivery row. *)

\* update_delivery_state: every new state but a lease drops the lease.
Moved(rec, status, t, avail, failure) ==
    [rec EXCEPT !.status = status, !.avail = avail, !.rev = @ + 1, !.lease = 0,
                !.updated = Later(t, @), !.failure = failure]

Acknowledged(rec, t) == Moved(rec, "acknowledged", t, rec.avail, "none")

\* Mutant: nobody asks for a transport receipt.
NeverDelivered(d, rec) == FALSE
\* What expiry and reclaim do to a row.  A delivery with a transport receipt
\* happened and is acknowledged, never handed out again.
Delivered(d, rec) == rec.status = "delivered" /\ HasTransportReceipt(d)

ExpiredRow(d, rec, t) ==
    IF Delivered(d, rec) THEN Acknowledged(rec, t)
    ELSE Moved(rec, "expired", t, rec.avail, "none")

\* Mutant: attempts are not counted when a lease is reclaimed.
ReclaimedAlways(d, rec, t) ==
    IF Delivered(d, rec) THEN Acknowledged(rec, t)
    ELSE IF Past(rec.expires, t)
      THEN Moved(rec, "expired", t, Later(t, rec.updated), "none")
    ELSE Moved(rec, "pending", t, Later(t, rec.updated), "none")
ReclaimedRow(d, rec, t) ==
    IF Delivered(d, rec) THEN Acknowledged(rec, t)
    ELSE IF Past(rec.expires, t)
      THEN Moved(rec, "expired", t, Later(t, rec.updated), "none")
    ELSE IF rec.gen >= MaxAttempts
      THEN Moved(rec, "dead_lettered", t, Later(t, rec.updated),
                 "attempts_exhausted")
    ELSE Moved(rec, "pending", t, Later(t, rec.updated), "none")

ExpiryDue(d, t) ==
    dlv[d].status \in Live /\ Past(dlv[d].expires, t) /\ Published(d)
\* Mutant: a delivered row is not reclaimed.
LeaseDueUndelivered(d, t) ==
    dlv[d].status = "leased" /\ dlv[d].lease <= t /\ Published(d)
LeaseDue(d, t) ==
    dlv[d].status \in HoldsLease /\ dlv[d].lease <= t /\ Published(d)

\* The event a maintenance step wrote for the row it moved to status.
EventOf(status) == IF status = "pending" THEN "reclaimed" ELSE status

\* The rows and events after the due deliveries in S were maintained.
Maintain(S, row(_)) ==
    /\ dlv' = [d \in Delivery |-> IF d \in S THEN row(d) ELSE dlv[d]]
    /\ lastEvent' = [d \in Delivery |->
         IF d \in S THEN EventOf(row(d).status) ELSE lastEvent[d]]
    /\ UNCHANGED <<pub, attempts, transport, ops, allocator, clock>>

\* S is what ORDER BY key LIMIT n may select.
OrderedPrefix(S, due, key(_)) ==
    S # {} /\ \A s \in S, d \in due \ S : key(s) <= key(d)

ExpireDue(S, t) ==
    LET due == {d \in Delivery : ExpiryDue(d, t)}
        row(d) == ExpiredRow(d, dlv[d], t)
        key(d) == dlv[d].expires
    IN S \subseteq due /\ OrderedPrefix(S, due, key) /\ Maintain(S, row)

ReclaimExpired(S, t) ==
    LET due == {d \in Delivery : LeaseDue(d, t)}
        row(d) == ReclaimedRow(d, dlv[d], t)
        key(d) == dlv[d].lease
    IN S \subseteq due /\ OrderedPrefix(S, due, key) /\ Maintain(S, row)

-----------------------------------------------------------------------------
(* Claims.  A claim first expires and reclaims whatever is due. *)

Maintained(d, t) ==
    IF ExpiryDue(d, t) THEN ExpiredRow(d, dlv[d], t)
    ELSE IF LeaseDue(d, t) THEN ReclaimedRow(d, dlv[d], t)
    ELSE dlv[d]

Claimable(Q, t) ==
    {d \in Delivery : LET rec == Maintained(d, t) IN
       /\ MailboxOf[d] \in Q /\ Published(d)
       /\ rec.status = "pending" /\ rec.avail <= t
       /\ ~ Past(rec.expires, t)
       /\ rec.gen < MaxAttempts
       /\ ~ HasTransportReceipt(d)}

\* The lease of a row claimed at t, cut to the delivery's time to live.
LeaseUntil(rec, t) ==
    LET until == Later(t, rec.updated) + LeaseTicks IN
    IF rec.expires # 0 /\ rec.expires < until THEN rec.expires ELSE until

Leased(rec, t) ==
    [rec EXCEPT !.status = "leased", !.gen = @ + 1, !.rev = @ + 1,
                !.lease = LeaseUntil(rec, t), !.updated = Later(t, @),
                !.failure = "none"]

\* The whole claim fails when one selected row has no live lease window.
LeaseWindow(d, t) ==
    LET rec == Maintained(d, t) IN LeaseUntil(rec, t) > Later(t, rec.updated)

\* Maintenance of every row, then a lease on the rows in S.
MaintainAndLease(S, t) ==
    /\ \A d \in S : LeaseWindow(d, t) /\ WithinHorizon(LeaseUntil(Maintained(d, t), t))
    /\ dlv' = [d \in Delivery |->
         IF d \in S THEN Leased(Maintained(d, t), t) ELSE Maintained(d, t)]
    /\ attempts' = [d \in Delivery |->
         IF d \in S THEN Append(attempts[d], LeaseUntil(Maintained(d, t), t))
                    ELSE attempts[d]]
    /\ lastEvent' = [d \in Delivery |->
         IF d \in S THEN "leased"
         ELSE IF Maintained(d, t) # dlv[d] THEN EventOf(Maintained(d, t).status)
         ELSE lastEvent[d]]
    /\ UNCHANGED <<pub, transport, ops, allocator, clock>>

Claim(Q, S, t) ==
    /\ S \subseteq Claimable(Q, t)
    /\ \A s \in S, d \in Claimable(Q, t) \ S :
         LET a == Maintained(s, t).avail
             b == Maintained(d, t).avail
         IN \/ a < b
            \/ a = b /\ pub[MessageOf[s]].seq <= pub[MessageOf[d]].seq
    /\ S = {} => Claimable(Q, t) = {}
    /\ MaintainAndLease(S, t)

\* claim_message: the same for the one delivery of m in mailbox q, if any.
ClaimMessage(m, q, t) ==
    MaintainAndLease(Claimable({q}, t) \cap DeliveriesOf(m), t)

-----------------------------------------------------------------------------
(* Receipt operations: d and g are the delivery and the generation of the  *)
(* receipt the caller presents.  The first call under a key records its    *)
(* result; a repetition returns the record and changes nothing.            *)

Key(kind, arg) == [kind |-> kind, arg |-> arg]
AckKinds  == {"acknowledged", "reply"}
NackKinds == {"nack_retry", "nack_permanent"}

\* The time of a receipt operation never precedes the row it updates.
Now(d, t) == Later(t, dlv[d].updated)

\* Mutant: any authenticated receipt will do.
AnyReceipt(d, g) == TRUE
IsCurrent(d, g) == dlv[d].gen = g
Unrecorded(d, g, key) ==
    \A o \in ops : o.dlv = d /\ o.gen = g => o.key # key
Undecided(d, g, kinds) ==
    \A o \in ops : o.dlv = d /\ o.gen = g => o.key.kind \notin kinds

RequireLiveState(d, states, t) ==
    /\ dlv[d].status \in states
    /\ dlv[d].lease > Now(d, t)
    /\ ~ Past(dlv[d].expires, Now(d, t))

OperationResult(d, g, key, rec) ==
    [dlv |-> d, gen |-> g, key |-> key, status |-> rec.status,
     resultGen |-> rec.gen, resultRev |-> rec.rev]

\* The row becomes rec, with its event and the recorded result.
Settle(d, g, key, rec, event) ==
    /\ dlv' = [dlv EXCEPT ![d] = rec]
    /\ lastEvent' = [lastEvent EXCEPT ![d] = event]
    /\ ops' = ops \cup {OperationResult(d, g, key, rec)}
    /\ UNCHANGED <<pub, attempts, transport, allocator, clock>>

\* A renewal that would not extend the lease is recorded and changes nothing.
Renew(d, g, op, t) ==
    LET until == Now(d, t) + LeaseTicks
        key == Key("renew", op)
    IN /\ Unrecorded(d, g, key)
       /\ IsCurrent(d, g)
       /\ RequireLiveState(d, HoldsLease, t)
       /\ WithinHorizon(until)
       /\ dlv[d].expires = 0 \/ until <= dlv[d].expires
       /\ IF until <= dlv[d].lease
            THEN Settle(d, g, key, dlv[d], lastEvent[d])
            ELSE Settle(d, g, key,
                   [dlv[d] EXCEPT !.lease = until, !.rev = @ + 1,
                                  !.updated = Now(d, t)], "lease_renewed")

Reached(rec, t) ==
    [rec EXCEPT !.status = "delivered", !.rev = @ + 1, !.reached = TRUE,
                !.updated = Later(t, @)]

MarkDelivered(d, g, t) ==
    /\ Unrecorded(d, g, Key("delivered", 0))
    /\ IsCurrent(d, g)
    /\ RequireLiveState(d, {"leased"}, t)
    /\ Settle(d, g, Key("delivered", 0), Reached(dlv[d], t), "delivered")

\* An effect the provider confirmed is recorded even when the lease has run
\* out or was reclaimed, as long as nobody claimed the delivery since.
MarkTransportDelivered(d, g, x, t) ==
    /\ ~ HasTransportReceipt(d)
    /\ IsCurrent(d, g)
    /\ \A e \in Delivery : transport[e].id # x
    /\ \/ dlv[d].status = "leased"
       \/ dlv[d].status = "pending" /\ lastEvent[d] = "reclaimed"
    /\ dlv' = [dlv EXCEPT ![d] =
         [Reached(dlv[d], t) EXCEPT !.lease = IF @ # 0 THEN @ ELSE attempts[d][g]]]
    /\ transport' = [transport EXCEPT ![d] = [gen |-> g, id |-> x]]
    /\ lastEvent' = [lastEvent EXCEPT ![d] = "delivered"]
    /\ UNCHANGED <<pub, attempts, ops, allocator, clock>>

\* acknowledge_in_transaction: with a transport receipt the lease is no
\* longer asked for.
MayAcknowledge(d, t) ==
    \/ Delivered(d, dlv[d])
    \/ RequireLiveState(d, {"delivered"}, t)

\* A late acknowledgement of what a transport receipt already closed is
\* recorded too, whichever receipt the caller holds.
Acknowledge(d, g, t) ==
    LET key == Key("acknowledged", 0) IN
    /\ Unrecorded(d, g, key)
    /\ \/ /\ dlv[d].status = "acknowledged" /\ HasTransportReceipt(d)
          /\ Settle(d, g, key, dlv[d], lastEvent[d])
       \/ /\ IsCurrent(d, g)
          /\ Undecided(d, g, NackKinds)
          /\ MayAcknowledge(d, t)
          /\ Settle(d, g, key, Acknowledged(dlv[d], t), "acknowledged")

Nackable(d, g, key, t) ==
    /\ Unrecorded(d, g, key)
    /\ IsCurrent(d, g)
    /\ Undecided(d, g, AckKinds)
    /\ RequireLiveState(d, HoldsLease, t)
    /\ ~ HasTransportReceipt(d)

NackRetry(d, g, delay, t) ==
    LET key == Key("nack_retry", delay)
        again == Now(d, t) + delay
    IN /\ Nackable(d, g, key, t)
       /\ \/ /\ dlv[d].gen < MaxAttempts
             /\ dlv[d].expires = 0 \/ again < dlv[d].expires
             /\ Settle(d, g, key, Moved(dlv[d], "pending", t, again, "none"),
                       "nacked")
          \/ /\ dlv[d].gen >= MaxAttempts
             /\ Settle(d, g, key,
                  Moved(dlv[d], "dead_lettered", t, dlv[d].avail,
                        "attempts_exhausted"), "dead_lettered")

NackPermanent(d, g, t) ==
    LET key == Key("nack_permanent", 0) IN
    /\ Nackable(d, g, key, t)
    /\ Settle(d, g, key,
         Moved(dlv[d], "dead_lettered", t, dlv[d].avail, "permanent"),
         "dead_lettered")

Cancel(d, t) ==
    /\ Published(d)
    /\ dlv[d].status \in Live
    /\ ~ HasTransportReceipt(d)
    /\ dlv' = [dlv EXCEPT ![d] = Moved(@, "cancelled", t, Now(d, t), "none")]
    /\ lastEvent' = [lastEvent EXCEPT ![d] = "cancelled"]
    /\ UNCHANGED <<pub, attempts, transport, ops, allocator, clock>>

\* Mutant: any public message passes for the reply.
ExistingMessage(d, m) == pub[m].origin = "ordinary"
\* The same request was enqueued before.
ExistingReply(d, m) ==
    pub[m].origin = "ordinary" /\ pub[m].replyTo = MessageOf[d]

\* The reply is enqueued, unless it already was, and the delivery acknowledged
\* in the same transaction.
ReplyAndAck(d, g, m, delay, life, t) ==
    LET key == Key("reply", m)
        acked == Acknowledged(dlv[d], t)
    IN /\ Unrecorded(d, g, key)
       /\ IsCurrent(d, g)
       /\ Undecided(d, g, NackKinds)
       /\ RequireLiveState(d, {"delivered"}, t)
       /\ ops' = ops \cup {OperationResult(d, g, key, acked)}
       /\ \/ /\ InsertPublished(m, delay, life, MessageOf[d])
             /\ dlv' = [NewDeliveries(m, delay, life, Now(d, t))
                          EXCEPT ![d] = acked]
             /\ lastEvent' = [e \in Delivery |->
                  IF e \in DeliveriesOf(m) THEN "enqueued"
                  ELSE IF e = d THEN "acknowledged" ELSE lastEvent[e]]
          \/ /\ ExistingReply(d, m)
             /\ dlv' = [dlv EXCEPT ![d] = acked]
             /\ lastEvent' = [lastEvent EXCEPT ![d] = "acknowledged"]
             /\ UNCHANGED <<pub, allocator>>
       /\ UNCHANGED <<attempts, transport, clock>>

-----------------------------------------------------------------------------
Tick == clock < MaxTime /\ clock' = clock + 1 /\ UNCHANGED tables

Receipts(d) == 1 .. Len(attempts[d])

Publication ==
    \E m \in Message, t \in Samples :
      \/ \E delay \in Delays, life \in Lifetimes,
            replyTo \in Message \cup {NoMessage} :
           \/ Enqueue(m, delay, life, replyTo, t)
           \/ Stage(m, delay, life, replyTo, t)
      \/ PublishStaged(m, t)
      \/ DiscardStaged(m)

Maintenance ==
    \E S \in SUBSET Delivery, t \in Samples :
      ExpireDue(S, t) \/ ReclaimExpired(S, t)

Consumption ==
    \E t \in Samples :
      \/ \E Q \in SUBSET Mailbox, S \in SUBSET Delivery : Claim(Q, S, t)
      \/ \E m \in Message, q \in Mailbox : ClaimMessage(m, q, t)
      \/ \E d \in Delivery : \E g \in Receipts(d) :
           \/ \E op \in RenewOp : Renew(d, g, op, t)
           \/ MarkDelivered(d, g, t)
           \/ \E x \in ExternalId : MarkTransportDelivered(d, g, x, t)
           \/ Acknowledge(d, g, t)
           \/ \E delay \in Delays : NackRetry(d, g, delay, t)
           \/ NackPermanent(d, g, t)
           \/ \E m \in Message, delay \in Delays, life \in Lifetimes :
                ReplyAndAck(d, g, m, delay, life, t)
      \/ \E d \in Delivery : Cancel(d, t)

Next == Publication \/ Maintenance \/ Consumption \/ Tick

Spec == Init /\ [][Next]_vars

\* The broker's maintenance loop runs for ever; consumers may disappear.
FairSpec == Spec /\ WF_vars(Tick) /\ WF_vars(Maintenance)

-----------------------------------------------------------------------------
(* Properties. *)

PublicationRecord ==
    [origin : {"none", "ordinary", "staged"},
     status : {"absent", "staged", "published", "discarded"}, seq : Nat,
     replyTo : Message \cup {NoMessage}]
DeliveryRecord ==
    [status : Status, avail : Nat, expires : Nat, gen : Nat, rev : Nat,
     lease : Nat, updated : Nat, reached : BOOLEAN,
     failure : {"none", "attempts_exhausted", "permanent"}]

\* The tables hold records of the declared shape.
TypeOK ==
    /\ pub \in [Message -> PublicationRecord]
    /\ dlv \in [Delivery -> DeliveryRecord]
    /\ attempts \in [Delivery -> Seq(Nat)]
    /\ transport \in [Delivery -> [gen : Nat, id : ExternalId \cup {NoId}]]
    /\ lastEvent \in [Delivery -> EventKind]
    /\ allocator \in [all : Nat, public : Nat]
    /\ \A o \in ops : /\ o.dlv \in Delivery /\ o.gen \in Nat
                      /\ o.status \in Status
                      /\ o.resultGen \in Nat /\ o.resultRev \in Nat
    /\ clock \in Nat

\* validate_stored_delivery, which every read of a row applies: attempts stay
\* within their bound, a lease is there exactly when the state says so, was
\* live when it was written and ends within the time to live.
DeliveriesWellFormed ==
    \A d \in Delivery : LET rec == dlv[d] IN
      /\ rec.gen <= MaxAttempts /\ Len(attempts[d]) = rec.gen
      /\ (rec.status \in HoldsLease) <=> (rec.lease # 0)
      /\ rec.status \in HoldsLease => rec.gen > 0
      /\ rec.status = "leased" => rec.lease > rec.updated
      /\ rec.lease # 0 /\ rec.expires # 0 => rec.lease <= rec.expires
      /\ rec.status \in {"delivered", "acknowledged"} => rec.reached
      /\ (rec.status = "dead_lettered") <=> (rec.failure # "none")

\* A delivery of a message that is not public has no life yet: no attempt, no
\* event, no receipt.  (invalid_hidden_delivery of the audit.)
HiddenUntilPublished ==
    \A d \in Delivery : ~ Published(d) =>
      /\ dlv[d].status \in {"absent", "pending"}
      /\ dlv[d].rev = 0 /\ attempts[d] = <<>>
      /\ ~ HasTransportReceipt(d) /\ lastEvent[d] = "none"

\* A waiting delivery has an attempt left: nothing waits for ever because
\* every claim passes over it.
WaitingIsClaimable ==
    \A d \in Delivery : dlv[d].status = "pending" => dlv[d].gen < MaxAttempts

\* Every delivery row can be read again and, while it waits, be claimed again.
DeliveriesSound == TypeOK /\ DeliveriesWellFormed /\ WaitingIsClaimable

\* An effect a provider confirmed belongs to the latest attempt, is never
\* undone or handed out again, and no provider identity names two deliveries.
ExternalEffectStands ==
    /\ \A d \in Delivery : HasTransportReceipt(d) =>
         /\ transport[d].gen = dlv[d].gen
         /\ dlv[d].status \in {"delivered", "acknowledged"}
    /\ \A d, e \in Delivery :
         HasTransportReceipt(d) /\ transport[d].id = transport[e].id => d = e

\* The public messages of a conversation are numbered 1..n in the order they
\* became public, staged and discarded ones leaving no gap.
PublicSequenceDense ==
    LET public == {m \in Message : pub[m].status = "published"} IN
    /\ {pub[m].seq : m \in public} = 1 .. Cardinality(public)
    /\ allocator.public = Cardinality(public) + 1

ResultStatus(kind) ==
    CASE kind = "renew"          -> HoldsLease
      [] kind = "delivered"      -> {"delivered"}
      [] kind \in AckKinds       -> {"acknowledged"}
      [] kind = "nack_retry"     -> {"pending", "dead_lettered"}
      [] kind = "nack_permanent" -> {"dead_lettered"}

\* A recorded result agrees with its key and with the row's history, an
\* attempt is not both accepted and refused, and a recorded reply is public
\* and answers the message it acknowledged.  (audit_receipt_operation.)
RecordedResultsAgree ==
    /\ \A o \in ops :
         /\ o.status \in ResultStatus(o.key.kind)
         /\ o.resultRev <= dlv[o.dlv].rev
         /\ o.key.kind = "reply" =>
              /\ pub[o.key.arg].status = "published"
              /\ pub[o.key.arg].replyTo = MessageOf[o.dlv]
    /\ \A o, p \in ops :
         /\ o.dlv = p.dlv /\ o.gen = p.gen
         /\ o.resultGen = o.gen /\ p.resultGen = p.gen
         => ~ (o.key.kind \in AckKinds /\ p.key.kind \in NackKinds)

\* audit_receipt_operation: a recorded result is of the attempt its receipt
\* belongs to.
ResultsOfOwnAttempt == \A o \in ops : o.resultGen = o.gen

\* validate_stored_event and the audit's transition chain: the steps a
\* delivery may take, in time and in generation.
LegalMove(from, to) ==
    \/ from = "absent"  /\ to = "pending"
    \/ from = "pending" /\ to \in {"leased", "delivered", "expired", "cancelled"}
    \/ from = "leased"  /\ to \in {"delivered", "pending", "leased"} \cup Terminal
    \/ from = "delivered" /\ to \in {"pending", "leased"} \cup Terminal

\* A row moves only along the lifecycle, one revision and at most one attempt
\* at a time, never back in time; only a reclaimed delivery may become
\* delivered without a new lease.
LifecycleChain ==
    [][\A d \in Delivery : LET old == dlv[d]
                               new == dlv'[d] IN
         /\ new.status # old.status => LegalMove(old.status, new.status)
         /\ new.updated >= old.updated /\ new.rev >= old.rev
         /\ new.gen # old.gen => new.gen = old.gen + 1 /\ new.status = "leased"
         /\ old.status = "pending" /\ new.status = "delivered" =>
              lastEvent[d] = "reclaimed" /\ transport'[d].gen = old.gen]_vars

\* What ended stays: terminal deliveries, decided publications, transport
\* receipts and recorded results never change.
EndedIsFinal ==
    [][/\ \A d \in Delivery : dlv[d].status \in Terminal => dlv'[d] = dlv[d]
       /\ \A m \in Message : pub[m].status \in {"published", "discarded"} =>
            pub'[m] = pub[m]
       /\ \A d \in Delivery : HasTransportReceipt(d) =>
            transport'[d] = transport[d]
       /\ ops \subseteq ops']_vars

\* A receipt of an earlier attempt never moves the row.
OldReceiptsAreInert ==
    [][\A o \in ops' \ ops :
         o.gen # dlv[o.dlv].gen => dlv'[o.dlv] = dlv[o.dlv]]_vars

\* Delivery histories stand: rows move along the lifecycle, what ended stays,
\* and late receipts of earlier attempts change nothing.
HistoriesStand == LifecycleChain /\ EndedIsFinal /\ OldReceiptsAreInert

\* The store implements what its consumers rely on.
Phase ==
    [d \in Delivery |->
       IF dlv[d].status = "absent" \/ ~ Published(d) THEN "hidden"
       ELSE CASE dlv[d].status = "pending"      -> "waiting"
              [] dlv[d].status \in HoldsLease   -> "handed"
              [] dlv[d].status = "acknowledged" -> "done"
              [] OTHER                          -> "dropped"]

Contract == INSTANCE DeliveryContract WITH
    phase <- Phase,
    handouts <- [d \in Delivery |-> dlv[d].gen],
    effect <- [d \in Delivery |-> HasTransportReceipt(d)]

\* Hand-outs, confirmed effects and ends of the store are the contract's.
ImplementsContract == Contract!CSpec

\* A delivery handed to a consumer that disappears comes back or ends.
HandoutsEnd ==
    \A d \in Delivery, g \in 1 .. MaxAttempts :
      dlv[d].status \in HoldsLease /\ dlv[d].gen = g ~>
        dlv[d].status \notin HoldsLease \/ dlv[d].gen # g

\* A public delivery with a time to live ends, whatever its consumers do.
ExpiringDeliveriesEnd ==
    \A d \in Delivery :
      Published(d) /\ dlv[d].expires # 0 ~> dlv[d].status \in Terminal

\* Maintenance alone brings every hand-out and every expiring delivery to an
\* end, whatever its consumers do.
DeliveriesEnd == HandoutsEnd /\ ExpiringDeliveriesEnd
=============================================================================
