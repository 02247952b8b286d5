------------------------------- MODULE Broker -------------------------------
(***************************************************************************)
(* The resident broker of vyane-broker over the message store: delivery    *)
(* loops (pump_once) that claim a delivery, call an adapter within the     *)
(* lease and settle what it answered, and the maintenance loop.  Loops on  *)
(* one mailbox belong to different processes, such as a daemon that drains *)
(* and its successor; a process may also die.  The rows and the clock are  *)
(* those of MessageStore, whose actions these loops take.                  *)
(***************************************************************************)
EXTENDS MessageStore

CONSTANTS
    Pump,             \* delivery loops, one process each
    ReplyMessage,     \* the answer of an adapter that replies
    AdapterTimeout,   \* adapter_timeout
    Margin,           \* settlement_margin
    MaxSpare,         \* bound of the model: time passing unneeded
    MaxKills          \* bound of the model: processes that die

VARIABLES
    kind,        \* what the adapter's success is
    worked,      \* deliveries whose work the adapter has done
    pump,        \* a delivery loop and the item it works on
    cancelled,   \* delivery loops whose cancellation token is set
    spare, kills

loops == <<worked, pump, cancelled, kills>>
brokerVars == <<vars, kind, loops, spare>>

Idle == [at |-> "idle", dlv |-> NoId, gen |-> 0, lease |-> 0, limit |-> 0]
Settling == {"settle", "ack", "retry", "permanent"}

BrokerInit ==
    /\ Init
    /\ kind \in {"local", "reply", "transport"}
    /\ worked = {} /\ cancelled = {}
    /\ pump = [p \in Pump |-> Idle]
    /\ spare = 0 /\ kills = 0

\* validate_pump_options
ASSUME WindowAssumption ==
    /\ AdapterTimeout \in Nat \ {0} /\ Margin \in Nat
    /\ AdapterTimeout + Margin < LeaseTicks
ASSUME ReplyAssumption == ReplyMessage \in Message

Publish ==
    /\ \E m \in Message \ {ReplyMessage}, delay \in Delays, life \in Lifetimes :
         Enqueue(m, delay, life, NoMessage, clock)
    /\ UNCHANGED <<kind, loops, spare>>

-----------------------------------------------------------------------------
(* run_delivery_loop and pump_once. *)

Put(p, item) == pump' = [pump EXCEPT ![p] = item]
At(p, phase) == pump[p].at = phase
Go(p, phase) == Put(p, [pump[p] EXCEPT !.at = phase, !.lease = 0, !.limit = 0])
Rest(p) == Put(p, Idle)
Others == <<kind, worked, cancelled, kills, spare>>

\* A cycle begins unless the token is set; a claim that fails changes nothing.
ClaimOne(p) ==
    /\ At(p, "idle") /\ p \notin cancelled
    /\ \E t \in Samples :
         \/ Claim(Mailbox, {}, t) /\ Rest(p)
         \/ \E d \in Delivery :
              /\ Claim(Mailbox, {d}, t)
              /\ Put(p, [at |-> "claimed", dlv |-> d, gen |-> dlv'[d].gen,
                         lease |-> dlv'[d].lease, limit |-> 0])
    /\ UNCHANGED Others

\* Mutant: the adapter is called whatever is left of the lease.
AnyWindow(p) == TRUE
\* process_one: the whole call and its settlement must fit into the lease as
\* it was granted.
HasWindow(p) == pump[p].lease - clock > AdapterTimeout + Margin
CallAdapter(p) ==
    /\ At(p, "claimed")
    /\ IF HasWindow(p)
         THEN Put(p, [pump[p] EXCEPT !.at = "adapter", !.lease = 0,
                                     !.limit = clock + AdapterTimeout])
         ELSE Rest(p)
    /\ UNCHANGED <<vars, Others>>

\* What the adapter does, at any moment of the call.
AdapterWorks(p) ==
    /\ At(p, "adapter") /\ pump[p].dlv \notin worked
    /\ worked' = worked \cup {pump[p].dlv}
    /\ UNCHANGED <<vars, kind, pump, cancelled, kills, spare>>

\* LocalHandled, Reply or TransportDelivered.
AdapterSucceeds(p) ==
    /\ At(p, "adapter") /\ pump[p].dlv \in worked
    /\ Go(p, "settle")
    /\ UNCHANGED <<vars, Others>>
\* Retry and Permanent: the adapter proved that nothing was done.
AdapterRefuses(p) ==
    /\ At(p, "adapter") /\ pump[p].dlv \notin worked
    /\ Go(p, "retry") \/ Go(p, "permanent")
    /\ UNCHANGED <<vars, Others>>
\* Uncertain, a panic or the timeout: the lease is left alone.
AdapterGivesUp(p) ==
    /\ At(p, "adapter")
    /\ Rest(p)
    /\ UNCHANGED <<vars, Others>>

\* settle_success, first half; an effect of a transport leaves its receipt.
Mark(p) ==
    /\ At(p, "settle")
    /\ LET d == pump[p].dlv
           g == pump[p].gen
       IN \E t \in Samples :
            IF kind = "transport"
              THEN \E x \in ExternalId : MarkTransportDelivered(d, g, x, t)
              ELSE MarkDelivered(d, g, t)
    /\ Go(p, "ack")
    /\ UNCHANGED Others

\* Mutant: the answer is dropped.
AcknowledgeOnly(p) ==
    /\ At(p, "ack")
    /\ \E t \in Samples : Acknowledge(pump[p].dlv, pump[p].gen, t)
    /\ Rest(p)
    /\ UNCHANGED Others
\* Second half: acknowledge, together with the answer if there is one.
AcknowledgeOne(p) ==
    /\ At(p, "ack")
    /\ LET d == pump[p].dlv
           g == pump[p].gen
       IN \E t \in Samples :
            IF kind = "reply"
              THEN \E delay \in Delays, life \in Lifetimes :
                     ReplyAndAck(d, g, ReplyMessage, delay, life, t)
              ELSE Acknowledge(d, g, t)
    /\ Rest(p)
    /\ UNCHANGED Others

\* settle_nack
Nack(p) ==
    /\ \E t \in Samples :
         \/ /\ At(p, "retry")
            /\ \E delay \in Delays :
                 NackRetry(pump[p].dlv, pump[p].gen, delay, t)
         \/ At(p, "permanent") /\ NackPermanent(pump[p].dlv, pump[p].gen, t)
    /\ Rest(p)
    /\ UNCHANGED Others
\* The store refuses the receipt or cannot be reached.
SettlementFails(p) ==
    /\ pump[p].at \in Settling
    /\ Rest(p)
    /\ UNCHANGED <<vars, Others>>

\* The loop sees its token between two cycles, never inside one.
Leave(p) ==
    /\ At(p, "idle") /\ p \in cancelled
    /\ Go(p, "gone")
    /\ UNCHANGED <<vars, Others>>

PumpStep(p) ==
    \/ ClaimOne(p) \/ CallAdapter(p)
    \/ AdapterSucceeds(p) \/ AdapterRefuses(p) \/ AdapterGivesUp(p)
    \/ Mark(p) \/ AcknowledgeOne(p) \/ Nack(p) \/ SettlementFails(p) \/ Leave(p)

-----------------------------------------------------------------------------
(* run_maintenance_loop: maintenance_once is two transactions, which share  *)
(* nothing but the rows.                                                   *)

MaintenanceOnce ==
    /\ \E t \in Samples, D \in SUBSET Delivery :
         ExpireDue(D, t) \/ ReclaimExpired(D, t)
    /\ UNCHANGED <<kind, loops, spare>>

-----------------------------------------------------------------------------
(* The surroundings. *)

CancelLoop(p) ==
    /\ p \notin cancelled
    /\ cancelled' = cancelled \cup {p}
    /\ UNCHANGED <<vars, kind, worked, pump, kills, spare>>

\* A process dies wherever it is, and another takes over its lane.
Kill(p) ==
    /\ kills < MaxKills
    /\ kills' = kills + 1
    /\ Rest(p)
    /\ cancelled' = cancelled \ {p}
    /\ UNCHANGED <<vars, kind, worked, spare>>

\* A timer fires within the settlement margin.
TimersHeld == \A p \in Pump : At(p, "adapter") => clock < pump[p].limit + Margin
\* Something waits for the time to come.
Awaited ==
    \/ \E p \in Pump : At(p, "adapter")
    \/ \E d \in Delivery :
         \/ dlv[d].status \in HoldsLease /\ dlv[d].lease > clock
         \/ dlv[d].status = "pending" /\ dlv[d].avail > clock
PassTime ==
    /\ TimersHeld
    /\ Tick
    /\ Awaited \/ spare < MaxSpare
    /\ spare' = IF Awaited THEN spare ELSE spare + 1
    /\ UNCHANGED <<kind, loops>>

BrokerNext ==
    \/ Publish \/ PassTime \/ MaintenanceOnce
    \/ \E p \in Pump : PumpStep(p) \/ AdapterWorks(p) \/ CancelLoop(p) \/ Kill(p)

BrokerSpec == BrokerInit /\ [][BrokerNext]_brokerVars

\* Loops keep running and time passes; the store does not fail for ever.
Fairness ==
    /\ WF_brokerVars(PassTime)
    /\ WF_brokerVars(MaintenanceOnce)
    /\ \A p \in Pump : WF_brokerVars(PumpStep(p))
FairBroker == BrokerSpec /\ Fairness

-----------------------------------------------------------------------------
(* Properties. *)

\* Items and loops are of the declared shape, and an item at work has a lease.
BrokerTypeOK ==
    /\ kind \in {"local", "reply", "transport"}
    /\ worked \subseteq Delivery /\ cancelled \subseteq Pump
    /\ \A p \in Pump :
         /\ pump[p].at \in {"idle", "claimed", "adapter", "gone"} \cup Settling
         /\ pump[p].at \in {"claimed", "adapter"} \cup Settling =>
              /\ pump[p].dlv \in Delivery
              /\ pump[p].gen \in 1 .. dlv[pump[p].dlv].gen

\* No delivery is in the hands of two adapter calls at once, however loops
\* overlap, lag or lose their lease.
ExclusiveDelivery ==
    \A p, q \in Pump :
      At(p, "adapter") /\ At(q, "adapter") /\ p # q => pump[p].dlv # pump[q].dlv

\* An acknowledged delivery was worked, by a transport with its receipt on
\* record, by a replying adapter with its answer public; and one the adapter
\* refused for good was not worked.
SettlementTellsTruth ==
    \A d \in Delivery :
      /\ dlv[d].status = "acknowledged" =>
           /\ d \in worked
           /\ kind = "transport" => HasTransportReceipt(d)
           /\ kind = "reply" => pub[ReplyMessage].replyTo = MessageOf[d]
      /\ dlv[d].failure = "permanent" => d \notin worked

\* An answer is public only once a delivery of its question is acknowledged.
AnswersAcknowledge ==
    pub[ReplyMessage].status = "published" =>
      \E d \in Delivery : /\ MessageOf[d] = pub[ReplyMessage].replyTo
                          /\ dlv[d].status = "acknowledged"

\* Adapter calls exclude each other per delivery, settlements tell what the
\* adapter did, and answers are public only with their question settled.
SettlementsSound ==
    BrokerTypeOK /\ ExclusiveDelivery /\ SettlementTellsTruth /\ AnswersAcknowledge

\* Every public delivery ends, unless all delivery loops are told to stop.
EveryDeliveryEnds ==
    \A d \in Delivery :
      Published(d) ~> dlv[d].status \in Terminal \/ Pump \subseteq cancelled

\* A cancelled loop finishes what it is doing and leaves.
DrainEnds ==
    \A p \in Pump : p \in cancelled ~> At(p, "gone") \/ p \notin cancelled

\* Deliveries end while loops run, and loops end when they are told to.
BrokerEnds == EveryDeliveryEnds /\ DrainEnds
=============================================================================
