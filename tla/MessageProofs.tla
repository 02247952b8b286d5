--------------------------- MODULE MessageProofs ----------------------------
(***************************************************************************)
(* Proofs about the message store, for any messages, deliveries, mailboxes *)
(* and identities, any number of attempts and any delays, lifetimes and    *)
(* lags; and about the broker over it, for any number of delivery loops,   *)
(* any adapter timeout and margin that fit into a lease, and any number of *)
(* processes that die.                                                     *)
(*                                                                         *)
(* A delivery row takes part in a transaction in one of a few ways, its    *)
(* fate: every action gives every row a fate, and every fate keeps what is *)
(* claimed of the row.                                                     *)
(*                                                                         *)
(* The broker takes no step the message store does not offer, so that the  *)
(* store keeps its invariant.  What is added is what a loop knows of the   *)
(* row behind the item in its hands: while the adapter works, the row is   *)
(* leased for this very attempt; afterwards it may have moved on, and then *)
(* the store refuses the receipt.                                          *)
(***************************************************************************)
EXTENDS Broker, SequenceTheorems, FiniteSetTheorems, TLAPS

-----------------------------------------------------------------------------
(* The store: the inductive invariant. *)

Failure == {"none", "attempts_exhausted", "permanent"}
Receipt == [gen : Nat, id : ExternalId \cup {NoId}]

RowTypeOK(d) ==
    /\ dlv[d] \in DeliveryRecord /\ attempts[d] \in Seq(Nat)
    /\ transport[d] \in Receipt /\ lastEvent[d] \in EventKind

\* validate_stored_delivery for the row rec with n attempts, and a waiting row
\* has an attempt left.
RowWellFormed(rec, n) ==
    /\ rec.gen <= MaxAttempts /\ n = rec.gen
    /\ (rec.status \in HoldsLease) <=> (rec.lease # 0)
    /\ rec.status \in HoldsLease => rec.gen > 0
    /\ rec.status = "leased" => rec.lease > rec.updated
    /\ rec.lease # 0 /\ rec.expires # 0 => rec.lease <= rec.expires
    /\ rec.status \in {"delivered", "acknowledged"} => rec.reached
    /\ (rec.status = "dead_lettered") <=> (rec.failure # "none")
    /\ rec.status = "pending" => rec.gen < MaxAttempts

\* Every lease ever given was one, and ended within the time to live.
AttemptsInTime(d) ==
    \A i \in 1 .. Len(attempts[d]) :
        /\ attempts[d][i] > 0
        /\ dlv[d].expires # 0 => attempts[d][i] <= dlv[d].expires

\* HiddenUntilPublished, and a row is there exactly when its message is.
RowHidden(d) ==
    /\ ~ Published(d) =>
        /\ dlv[d].status \in {"absent", "pending"}
        /\ dlv[d].rev = 0 /\ attempts[d] = <<>>
        /\ ~ HasTransportReceipt(d) /\ lastEvent[d] = "none"
    /\ pub[MessageOf[d]].status = "absent" => dlv[d] = NoDelivery
    /\ pub[MessageOf[d]].status # "absent" => dlv[d].status # "absent"

RowEffect(d) ==
    HasTransportReceipt(d) =>
        /\ transport[d].gen = dlv[d].gen
        /\ dlv[d].status \in {"delivered", "acknowledged"}

RowInv(d) ==
    /\ RowTypeOK(d) /\ RowWellFormed(dlv[d], Len(attempts[d]))
    /\ AttemptsInTime(d) /\ RowHidden(d) /\ RowEffect(d)

\* The message of a delivery exists.
LEMMA MessageExists ==
    ASSUME NEW d \in Delivery
    PROVE  MessageOf[d] \in Message
BY ShapeAssumption

-----------------------------------------------------------------------------
(* The operators on rows. *)

\* The later of two times is a time not before either.
LEMMA LaterIsLater ==
    ASSUME NEW a \in Nat, NEW b \in Nat
    PROVE  Later(a, b) \in Nat /\ Later(a, b) >= a /\ Later(a, b) >= b
BY DEF Later

\* update_delivery_state writes these fields and no other.
LEMMA MovedFields ==
    ASSUME NEW rec \in DeliveryRecord, NEW status \in Status, NEW t \in Nat,
           NEW avail \in Nat, NEW failure \in Failure
    PROVE  LET new == Moved(rec, status, t, avail, failure) IN
           /\ new \in DeliveryRecord
           /\ new.status = status /\ new.gen = rec.gen /\ new.rev = rec.rev + 1
           /\ new.lease = 0 /\ new.expires = rec.expires /\ new.reached = rec.reached
           /\ new.failure = failure /\ new.updated >= rec.updated
<1>1. /\ Later(t, rec.updated) \in Nat /\ Later(t, rec.updated) >= rec.updated
      /\ rec.rev + 1 \in Nat
  <2>1. rec.updated \in Nat /\ rec.expires \in Nat /\ rec.rev \in Nat /\ rec.gen \in Nat
    BY DEF DeliveryRecord
  <2> QED BY <2>1 DEF Later
<1> DEFINE new == Moved(rec, status, t, avail, failure)
<1>2. new \in DeliveryRecord
  BY <1>1 DEF Moved, DeliveryRecord, Failure
<1>3. /\ new.status = status /\ new.gen = rec.gen /\ new.rev = rec.rev + 1
      /\ new.lease = 0 /\ new.expires = rec.expires /\ new.reached = rec.reached
      /\ new.failure = failure /\ new.updated = Later(t, rec.updated)
  BY DEF Moved, DeliveryRecord
<1> HIDE DEF new
<1> QED BY <1>1, <1>2, <1>3 DEF new

\* mark_delivered and its transport variant write these fields and no other.
LEMMA ReachedFields ==
    ASSUME NEW rec \in DeliveryRecord, NEW t \in Nat
    PROVE  LET new == Reached(rec, t) IN
           /\ new \in DeliveryRecord
           /\ new.status = "delivered" /\ new.gen = rec.gen /\ new.rev = rec.rev + 1
           /\ new.lease = rec.lease /\ new.expires = rec.expires /\ new.reached = TRUE
           /\ new.failure = rec.failure /\ new.updated >= rec.updated
<1>1. /\ Later(t, rec.updated) \in Nat /\ Later(t, rec.updated) >= rec.updated
      /\ rec.rev + 1 \in Nat
  <2>1. rec.updated \in Nat /\ rec.expires \in Nat /\ rec.rev \in Nat /\ rec.gen \in Nat
    BY DEF DeliveryRecord
  <2> QED BY <2>1 DEF Later
<1>2. "delivered" \in Status
  BY DEF Status, Live, HoldsLease
<1> DEFINE new == Reached(rec, t)
<1>3. new \in DeliveryRecord
  BY <1>1, <1>2 DEF Reached, DeliveryRecord
<1>4. /\ new.status = "delivered" /\ new.gen = rec.gen /\ new.rev = rec.rev + 1
      /\ new.lease = rec.lease /\ new.expires = rec.expires /\ new.reached = TRUE
      /\ new.failure = rec.failure /\ new.updated = Later(t, rec.updated)
  BY DEF Reached, DeliveryRecord
<1> HIDE DEF new
<1> QED BY <1>1, <1>3, <1>4 DEF new

\* A claim writes these fields and no other; its lease is within the time to
\* live.
LEMMA LeasedFields ==
    ASSUME NEW rec \in DeliveryRecord, NEW t \in Nat
    PROVE  LET new == Leased(rec, t) IN
           /\ new \in DeliveryRecord /\ LeaseUntil(rec, t) \in Nat
           /\ new.status = "leased" /\ new.gen = rec.gen + 1 /\ new.rev = rec.rev + 1
           /\ new.lease = LeaseUntil(rec, t) /\ new.expires = rec.expires
           /\ new.failure = "none" /\ new.updated = Later(t, rec.updated)
           /\ new.updated >= rec.updated
           /\ rec.expires # 0 => LeaseUntil(rec, t) <= rec.expires
<1>1. /\ Later(t, rec.updated) \in Nat /\ Later(t, rec.updated) >= rec.updated
      /\ rec.expires \in Nat /\ rec.rev + 1 \in Nat /\ rec.gen + 1 \in Nat
  <2>1. rec.updated \in Nat /\ rec.expires \in Nat /\ rec.rev \in Nat /\ rec.gen \in Nat
    BY DEF DeliveryRecord
  <2> QED BY <2>1 DEF Later
<1>2. /\ LeaseUntil(rec, t) \in Nat
      /\ rec.expires # 0 => LeaseUntil(rec, t) <= rec.expires
  BY <1>1, BoundAssumption DEF LeaseUntil
<1>3. "leased" \in Status
  BY DEF Status, Live, HoldsLease
<1> DEFINE new == Leased(rec, t)
<1>4. new \in DeliveryRecord
  BY <1>1, <1>2, <1>3 DEF Leased, DeliveryRecord
<1>5. /\ new.status = "leased" /\ new.gen = rec.gen + 1 /\ new.rev = rec.rev + 1
      /\ new.lease = LeaseUntil(rec, t) /\ new.expires = rec.expires
      /\ new.failure = "none" /\ new.updated = Later(t, rec.updated)
  BY DEF Leased, DeliveryRecord
<1> HIDE DEF new
<1> QED BY <1>1, <1>2, <1>4, <1>5 DEF new

-----------------------------------------------------------------------------
(* The fates of a delivery row. *)

\* The row becomes rec, with its event; its attempts and receipt stay.
Row(d, rec, event) ==
    /\ dlv'[d] = rec /\ lastEvent'[d] = event
    /\ attempts'[d] = attempts[d] /\ transport'[d] = transport[d]

PubStatus(d) == pub[MessageOf[d]].status

Rests(d) ==
    /\ Row(d, dlv[d], lastEvent[d])
    /\ PubStatus(d)' = PubStatus(d) \/ (PubStatus(d) = "staged" /\ PubStatus(d)' = "discarded")
Born(d) ==
    \E t \in Nat, avail \in Nat, expires \in Nat :
        /\ PubStatus(d) = "absent" /\ PubStatus(d)' \in {"staged", "published"}
        /\ Row(d, [NoDelivery EXCEPT !.status = "pending", !.avail = avail,
                                     !.expires = expires, !.updated = t],
               IF PubStatus(d)' = "published" THEN "enqueued" ELSE lastEvent[d])
Published1(d) ==
    \E t \in Nat :
        /\ PubStatus(d) = "staged" /\ PubStatus(d)' = "published"
        /\ Row(d, [dlv[d] EXCEPT !.updated = Later(t, @)], "enqueued")

\* The other fates are those of a public row.
Public(d) == Published(d) /\ Published(d)'

Expires(d) ==
    \E t \in Nat :
        /\ Public(d) /\ ExpiryDue(d, t)
        /\ Row(d, ExpiredRow(d, dlv[d], t), EventOf(ExpiredRow(d, dlv[d], t).status))
Reclaims(d) ==
    \E t \in Nat :
        /\ Public(d) /\ LeaseDue(d, t)
        /\ Row(d, ReclaimedRow(d, dlv[d], t), EventOf(ReclaimedRow(d, dlv[d], t).status))
Leases(d) ==
    \E t \in Nat :
        LET rec == Maintained(d, t) IN
        /\ Public(d) /\ rec.status = "pending" /\ rec.gen < MaxAttempts
        /\ ~ HasTransportReceipt(d) /\ LeaseWindow(d, t)
        /\ dlv'[d] = Leased(rec, t) /\ lastEvent'[d] = "leased"
        /\ attempts'[d] = Append(attempts[d], LeaseUntil(rec, t))
        /\ transport'[d] = transport[d]
Renews(d) ==
    \E until \in Nat, now \in Nat :
        /\ Public(d) /\ dlv[d].status \in HoldsLease
        /\ until > now /\ now >= dlv[d].updated
        /\ dlv[d].expires = 0 \/ until <= dlv[d].expires
        /\ Row(d, [dlv[d] EXCEPT !.lease = until, !.rev = @ + 1, !.updated = now],
               "lease_renewed")
Delivers(d) ==
    \E t \in Nat :
        /\ Public(d) /\ dlv[d].status = "leased"
        /\ Row(d, Reached(dlv[d], t), "delivered")
Confirms(d) ==
    \E t \in Nat, x \in ExternalId :
        /\ Public(d) /\ ~ HasTransportReceipt(d) /\ dlv[d].gen > 0
        /\ \/ dlv[d].status = "leased"
           \/ dlv[d].status = "pending" /\ lastEvent[d] = "reclaimed"
        /\ dlv'[d] = [Reached(dlv[d], t) EXCEPT
                        !.lease = IF @ # 0 THEN @ ELSE attempts[d][dlv[d].gen]]
        /\ lastEvent'[d] = "delivered" /\ attempts'[d] = attempts[d]
        /\ transport'[d] = [gen |-> dlv[d].gen, id |-> x]
Accepts(d) ==
    \E t \in Nat :
        /\ Public(d) /\ dlv[d].status = "delivered"
        /\ Row(d, Acknowledged(dlv[d], t), "acknowledged")
Refuses(d) ==
    \E t \in Nat, avail \in Nat :
        /\ Public(d) /\ dlv[d].status \in HoldsLease /\ ~ HasTransportReceipt(d)
        /\ \/ /\ dlv[d].gen < MaxAttempts
              /\ Row(d, Moved(dlv[d], "pending", t, avail, "none"), "nacked")
           \/ \E failure \in {"attempts_exhausted", "permanent"} :
                Row(d, Moved(dlv[d], "dead_lettered", t, avail, failure), "dead_lettered")
Cancels(d) ==
    \E t \in Nat, avail \in Nat :
        /\ Public(d) /\ dlv[d].status \in Live /\ ~ HasTransportReceipt(d)
        /\ Row(d, Moved(dlv[d], "cancelled", t, avail, "none"), "cancelled")

Fate(d) ==
    \/ Rests(d) \/ Born(d) \/ Published1(d) \/ Expires(d) \/ Reclaims(d) \/ Leases(d)
    \/ Renews(d) \/ Delivers(d) \/ Confirms(d) \/ Accepts(d) \/ Refuses(d) \/ Cancels(d)

\* A refused attempt stays refused until the row is claimed again.
Refused(d) ==
    /\ dlv[d].status \in {"pending", "dead_lettered", "expired", "cancelled"}
    /\ dlv[d].status = "pending" => lastEvent[d] = "nacked"

\* What a fate does to the row: its part of LifecycleChain and EndedIsFinal.
RowStep(d) ==
    LET old == dlv[d]
        new == dlv'[d]
    IN  /\ new.status # old.status => LegalMove(old.status, new.status)
        /\ new.updated >= old.updated /\ new.rev >= old.rev
        /\ new.gen # old.gen => new.gen = old.gen + 1 /\ new.status = "leased"
        /\ old.status = "pending" /\ new.status = "delivered" =>
             lastEvent[d] = "reclaimed" /\ transport'[d].gen = old.gen
        /\ old.status \in Terminal => new = old
        /\ HasTransportReceipt(d) => transport'[d] = transport[d]
        /\ Refused(d) /\ new.gen = old.gen => Refused(d)'

\* Rows keep their place in the phases of the contract.
PhaseOf(d) ==
    IF dlv[d].status = "absent" \/ ~ Published(d) THEN "hidden"
    ELSE CASE dlv[d].status = "pending"      -> "waiting"
           [] dlv[d].status \in HoldsLease   -> "handed"
           [] dlv[d].status = "acknowledged" -> "done"
           [] OTHER                          -> "dropped"
PhaseStep(d) ==
    LET effect == HasTransportReceipt(d)
        kept == dlv'[d].gen = dlv[d].gen
        same == (HasTransportReceipt(d)' <=> HasTransportReceipt(d))
    IN  \/ PhaseOf(d)' = PhaseOf(d) /\ kept /\ same
        \/ PhaseOf(d) = "hidden" /\ PhaseOf(d)' = "waiting" /\ kept /\ same
        \/ /\ PhaseOf(d) \in {"waiting", "handed"} /\ ~effect /\ dlv[d].gen < MaxAttempts
           /\ PhaseOf(d)' = "handed" /\ dlv'[d].gen = dlv[d].gen + 1 /\ same
        \/ /\ PhaseOf(d) \in {"waiting", "handed"} /\ dlv[d].gen > 0 /\ ~effect
           /\ PhaseOf(d)' = "handed" /\ HasTransportReceipt(d)' /\ kept
        \/ /\ PhaseOf(d) = "handed" /\ ~effect /\ dlv[d].gen < MaxAttempts
           /\ PhaseOf(d)' = "waiting" /\ kept /\ same
        \/ /\ \/ PhaseOf(d) = "handed" /\ PhaseOf(d)' = "done"
              \/ PhaseOf(d) \in {"waiting", "handed"} /\ ~effect /\ PhaseOf(d)' = "dropped"
           /\ kept /\ same

\* What a fate must show of the row.
Kept(d) == RowInv(d)' /\ RowStep(d) /\ PhaseStep(d)

-----------------------------------------------------------------------------
(* Every fate keeps the row sound. *)

\* A public row that moves to another state, its lease dropped.
LEMMA MovedRow ==
    ASSUME NEW d \in Delivery, RowInv(d), Public(d),
           NEW status \in {"pending"} \cup Terminal, NEW t \in Nat, NEW avail \in Nat,
           NEW failure \in Failure, NEW event \in EventKind,
           (status = "dead_lettered") <=> (failure # "none"),
           dlv[d].status \in Live,
           status = "pending" => dlv[d].gen < MaxAttempts /\ dlv[d].status # "pending",
           status = "acknowledged" => dlv[d].status = "delivered",
           status = "dead_lettered" => dlv[d].status # "pending",
           HasTransportReceipt(d) => status = "acknowledged",
           Row(d, Moved(dlv[d], status, t, avail, failure), event)
    PROVE  Kept(d)
<1>1. dlv[d] \in DeliveryRecord /\ status \in Status
  BY DEF RowInv, RowTypeOK, Status, Live, Terminal
<1>2. /\ dlv'[d] \in DeliveryRecord
      /\ dlv'[d].status = status /\ dlv'[d].gen = dlv[d].gen /\ dlv'[d].rev = dlv[d].rev + 1
      /\ dlv'[d].lease = 0 /\ dlv'[d].expires = dlv[d].expires
      /\ dlv'[d].reached = dlv[d].reached
      /\ dlv'[d].failure = failure /\ dlv'[d].updated >= dlv[d].updated
  <2>1. dlv'[d] = Moved(dlv[d], status, t, avail, failure)
    BY DEF Row
  <2> QED BY <1>1, <2>1, MovedFields
<1>3. /\ attempts'[d] = attempts[d] /\ transport'[d] = transport[d] /\ lastEvent'[d] = event
      /\ HasTransportReceipt(d)' <=> HasTransportReceipt(d)
  BY DEF Row, HasTransportReceipt
<1>4. dlv[d].rev \in Nat /\ dlv[d].gen \in Nat
  BY <1>1 DEF DeliveryRecord
<1>5. RowTypeOK(d)'
  BY <1>2, <1>3 DEF RowInv, RowTypeOK
<1>6. RowWellFormed(dlv[d], Len(attempts[d]))'
  BY <1>2, <1>3 DEF RowInv, RowWellFormed, HoldsLease, Terminal, Live
<1>7. AttemptsInTime(d)' /\ RowEffect(d)'
  BY <1>2, <1>3 DEF RowInv, AttemptsInTime, RowEffect
<1>8. RowHidden(d)'
  BY <1>2 DEF Public, Published, RowHidden, Terminal
<1>9. RowStep(d)
  <2>1. LegalMove(dlv[d].status, status) \/ dlv[d].status = status
    BY DEF LegalMove, Terminal, Live, HoldsLease
  <2>2. dlv[d].status \notin Terminal
    BY DEF Terminal, Live, HoldsLease
  <2>3. Refused(d) => Refused(d)'
    BY <1>2, <1>3 DEF Refused, Terminal, Live, HoldsLease
  <2>4. status # "delivered"
    BY DEF Terminal
  <2> QED BY <1>2, <1>3, <1>4, <2>1, <2>2, <2>3, <2>4 DEF RowStep
<1>10. PhaseStep(d)
  <2>1. PhaseOf(d) = IF dlv[d].status = "pending" THEN "waiting" ELSE "handed"
    BY DEF PhaseOf, Public, Live, HoldsLease
  <2>2. PhaseOf(d)' = CASE status = "pending" -> "waiting"
                        [] status = "acknowledged" -> "done"
                        [] OTHER -> "dropped"
    BY <1>2 DEF PhaseOf, Public, Terminal, HoldsLease
  <2> QED BY <1>2, <1>3, <2>1, <2>2 DEF PhaseStep, Live, HoldsLease, Terminal
<1> QED BY <1>5, <1>6, <1>7, <1>8, <1>9, <1>10 DEF Kept, RowInv

\* What an acknowledgement, an expiry and a reclaim of a live row are: moves.
LEMMA MaintenanceMoves ==
    ASSUME NEW d \in Delivery, RowInv(d), NEW t \in Nat
    PROVE  /\ \E avail \in Nat : Acknowledged(dlv[d], t) =
                Moved(dlv[d], "acknowledged", t, avail, "none")
           /\ ~Delivered(d, dlv[d]) => \E avail \in Nat :
                ExpiredRow(d, dlv[d], t) = Moved(dlv[d], "expired", t, avail, "none")
           /\ ~Delivered(d, dlv[d]) => \E avail \in Nat :
                \/ ReclaimedRow(d, dlv[d], t) = Moved(dlv[d], "expired", t, avail, "none")
                \/ /\ dlv[d].gen < MaxAttempts
                   /\ ReclaimedRow(d, dlv[d], t) = Moved(dlv[d], "pending", t, avail, "none")
                \/ ReclaimedRow(d, dlv[d], t) =
                        Moved(dlv[d], "dead_lettered", t, avail, "attempts_exhausted")
           /\ Delivered(d, dlv[d]) =>
                /\ ExpiredRow(d, dlv[d], t) = Acknowledged(dlv[d], t)
                /\ ReclaimedRow(d, dlv[d], t) = Acknowledged(dlv[d], t)
<1>1. dlv[d].avail \in Nat /\ dlv[d].updated \in Nat /\ dlv[d].gen \in Nat
  BY DEF RowInv, RowTypeOK, DeliveryRecord
<1>2. Later(t, dlv[d].updated) \in Nat
  BY <1>1 DEF Later
<1>3. MaxAttempts \in Nat
  BY BoundAssumption
<1>4. \E avail \in Nat : Acknowledged(dlv[d], t) =
                Moved(dlv[d], "acknowledged", t, avail, "none")
  BY <1>1 DEF Acknowledged
<1>5. ~Delivered(d, dlv[d]) => \E avail \in Nat :
                ExpiredRow(d, dlv[d], t) = Moved(dlv[d], "expired", t, avail, "none")
  BY <1>1 DEF ExpiredRow
<1>6. ASSUME ~Delivered(d, dlv[d])
      PROVE  \E avail \in Nat :
                \/ ReclaimedRow(d, dlv[d], t) = Moved(dlv[d], "expired", t, avail, "none")
                \/ /\ dlv[d].gen < MaxAttempts
                   /\ ReclaimedRow(d, dlv[d], t) = Moved(dlv[d], "pending", t, avail, "none")
                \/ ReclaimedRow(d, dlv[d], t) =
                        Moved(dlv[d], "dead_lettered", t, avail, "attempts_exhausted")
  <2>1. WITNESS Later(t, dlv[d].updated) \in Nat
  <2> QED BY <1>1, <1>3, <1>6 DEF ReclaimedRow
<1>7. Delivered(d, dlv[d]) => /\ ExpiredRow(d, dlv[d], t) = Acknowledged(dlv[d], t)
                              /\ ReclaimedRow(d, dlv[d], t) = Acknowledged(dlv[d], t)
  BY DEF ExpiredRow, ReclaimedRow
<1> QED BY <1>4, <1>5, <1>6, <1>7

\* acknowledge_in_transaction keeps the row sound.
LEMMA AcceptsKeeps ==
    ASSUME NEW d \in Delivery, RowInv(d), Public(d), NEW t \in Nat, NEW event \in EventKind,
           dlv[d].status = "delivered", Row(d, Acknowledged(dlv[d], t), event)
    PROVE  Kept(d)
<1>1. PICK avail \in Nat : Acknowledged(dlv[d], t) =
                Moved(dlv[d], "acknowledged", t, avail, "none")
  BY MaintenanceMoves
<1>2. Row(d, Moved(dlv[d], "acknowledged", t, avail, "none"), event)
  BY <1>1 DEF Row
<1>3. "acknowledged" \in {"pending"} \cup Terminal /\ "none" \in Failure
      /\ dlv[d].status \in Live
  BY DEF Terminal, Failure, Live, HoldsLease
<1> QED BY <1>2, <1>3, MovedRow

\* expire_due keeps the row sound.
LEMMA ExpiresKeeps ==
    ASSUME NEW d \in Delivery, RowInv(d), Expires(d)
    PROVE  Kept(d)
<1>1. PICK t \in Nat :
        /\ Public(d) /\ ExpiryDue(d, t)
        /\ Row(d, ExpiredRow(d, dlv[d], t), EventOf(ExpiredRow(d, dlv[d], t).status))
  BY DEF Expires
<1>2. dlv[d].status \in Live /\ dlv[d] \in DeliveryRecord
  BY <1>1 DEF ExpiryDue, RowInv, RowTypeOK
<1>3. PICK a \in Nat : Acknowledged(dlv[d], t) = Moved(dlv[d], "acknowledged", t, a, "none")
  BY MaintenanceMoves
<1>4. /\ "acknowledged" \in Status /\ "expired" \in Status /\ "none" \in Failure
      /\ "acknowledged" \in EventKind /\ "expired" \in EventKind
      /\ "expired" \in {"pending"} \cup Terminal
  BY DEF Status, Terminal, Failure, EventKind
<1>5. CASE Delivered(d, dlv[d])
  <2>1. ExpiredRow(d, dlv[d], t) = Acknowledged(dlv[d], t) /\ dlv[d].status = "delivered"
    BY <1>5, MaintenanceMoves DEF Delivered
  <2>2. Acknowledged(dlv[d], t).status = "acknowledged"
    <3>1. Moved(dlv[d], "acknowledged", t, a, "none").status = "acknowledged"
      BY ONLY <1>2, <1>4, MovedFields, t \in Nat, a \in Nat
    <3> QED BY <1>3, <3>1
  <2>3. Row(d, Acknowledged(dlv[d], t), "acknowledged")
    BY <1>1, <2>1, <2>2 DEF EventOf
  <2> QED BY <1>1, <1>4, <2>1, <2>3, AcceptsKeeps
<1>6. CASE ~Delivered(d, dlv[d])
  <2>1. PICK avail \in Nat :
            ExpiredRow(d, dlv[d], t) = Moved(dlv[d], "expired", t, avail, "none")
    BY <1>6, MaintenanceMoves
  <2>2. ExpiredRow(d, dlv[d], t).status = "expired"
    BY <1>2, <1>4, <2>1, MovedFields
  <2>3. Row(d, Moved(dlv[d], "expired", t, avail, "none"), "expired")
    BY <1>1, <2>1, <2>2 DEF EventOf
  <2>4. ~HasTransportReceipt(d)
    BY <1>2, <1>6 DEF Delivered, RowInv, RowEffect, Live, HoldsLease
  <2> QED BY <1>1, <1>2, <1>4, <2>3, <2>4, MovedRow
<1> QED BY <1>5, <1>6

\* reclaim_expired keeps the row sound.
LEMMA ReclaimsKeeps ==
    ASSUME NEW d \in Delivery, RowInv(d), Reclaims(d)
    PROVE  Kept(d)
<1>1. PICK t \in Nat :
        /\ Public(d) /\ LeaseDue(d, t)
        /\ Row(d, ReclaimedRow(d, dlv[d], t), EventOf(ReclaimedRow(d, dlv[d], t).status))
  BY DEF Reclaims
<1>2. dlv[d].status \in HoldsLease /\ dlv[d].status \in Live /\ dlv[d] \in DeliveryRecord
      /\ dlv[d].status # "pending"
  BY <1>1 DEF LeaseDue, RowInv, RowTypeOK, Live, HoldsLease
<1>3. PICK a \in Nat : Acknowledged(dlv[d], t) = Moved(dlv[d], "acknowledged", t, a, "none")
  BY MaintenanceMoves
<1>4. /\ {"acknowledged", "expired", "pending", "dead_lettered"} \subseteq Status
      /\ {"none", "attempts_exhausted"} \subseteq Failure
      /\ {"acknowledged", "expired", "reclaimed", "dead_lettered"} \subseteq EventKind
      /\ {"expired", "dead_lettered"} \subseteq {"pending"} \cup Terminal
  BY DEF Status, Terminal, Failure, EventKind, Live
<1>5. CASE Delivered(d, dlv[d])
  <2>1. ReclaimedRow(d, dlv[d], t) = Acknowledged(dlv[d], t) /\ dlv[d].status = "delivered"
    BY <1>5, MaintenanceMoves DEF Delivered
  <2>2. Acknowledged(dlv[d], t).status = "acknowledged"
    <3>1. Moved(dlv[d], "acknowledged", t, a, "none").status = "acknowledged"
      BY ONLY <1>2, <1>4, MovedFields, t \in Nat, a \in Nat
    <3> QED BY <1>3, <3>1
  <2>3. Row(d, Acknowledged(dlv[d], t), "acknowledged")
    BY <1>1, <2>1, <2>2 DEF EventOf
  <2> QED BY <1>1, <1>4, <2>1, <2>3, AcceptsKeeps
<1>6. CASE ~Delivered(d, dlv[d])
  <2>0. ~HasTransportReceipt(d)
    BY <1>2, <1>6 DEF Delivered, RowInv, RowEffect, Live, HoldsLease
  <2>1. PICK avail \in Nat :
            \/ ReclaimedRow(d, dlv[d], t) = Moved(dlv[d], "expired", t, avail, "none")
            \/ /\ dlv[d].gen < MaxAttempts
               /\ ReclaimedRow(d, dlv[d], t) = Moved(dlv[d], "pending", t, avail, "none")
            \/ ReclaimedRow(d, dlv[d], t) =
                    Moved(dlv[d], "dead_lettered", t, avail, "attempts_exhausted")
    BY <1>6, MaintenanceMoves
  <2>2. ASSUME NEW status \in {"expired", "pending", "dead_lettered"},
               NEW failure \in {"none", "attempts_exhausted"},
               ReclaimedRow(d, dlv[d], t) = Moved(dlv[d], status, t, avail, failure)
        PROVE  /\ Row(d, Moved(dlv[d], status, t, avail, failure), EventOf(status))
               /\ EventOf(status) \in EventKind
    <3>1. ReclaimedRow(d, dlv[d], t).status = status
      BY <1>2, <1>4, <2>2, MovedFields
    <3> QED BY <1>1, <1>4, <2>2, <3>1 DEF EventOf
  <2>3. CASE ReclaimedRow(d, dlv[d], t) = Moved(dlv[d], "expired", t, avail, "none")
    BY <1>1, <1>2, <1>4, <2>0, <2>2, <2>3, MovedRow
  <2>4. CASE /\ dlv[d].gen < MaxAttempts
             /\ ReclaimedRow(d, dlv[d], t) = Moved(dlv[d], "pending", t, avail, "none")
    BY <1>1, <1>2, <1>4, <2>0, <2>2, <2>4, MovedRow
  <2>5. CASE ReclaimedRow(d, dlv[d], t) =
                    Moved(dlv[d], "dead_lettered", t, avail, "attempts_exhausted")
    BY <1>1, <1>2, <1>4, <2>0, <2>2, <2>5, MovedRow
  <2> QED BY <2>1, <2>3, <2>4, <2>5
<1> QED BY <1>5, <1>6

\* nack and cancel keep the row sound.
LEMMA RefusesKeeps ==
    ASSUME NEW d \in Delivery, RowInv(d), Refuses(d) \/ Cancels(d)
    PROVE  Kept(d)
<1>1. /\ {"pending", "dead_lettered", "cancelled"} \subseteq {"pending"} \cup Terminal
      /\ {"none", "attempts_exhausted", "permanent"} \subseteq Failure
      /\ {"nacked", "dead_lettered", "cancelled"} \subseteq EventKind
      /\ \A s \in HoldsLease : s \in Live /\ s # "pending"
  BY DEF Terminal, Failure, EventKind, Live, HoldsLease
<1>2. CASE Refuses(d)
  <2>1. PICK t \in Nat, avail \in Nat :
            /\ Public(d) /\ dlv[d].status \in HoldsLease /\ ~ HasTransportReceipt(d)
            /\ \/ /\ dlv[d].gen < MaxAttempts
                  /\ Row(d, Moved(dlv[d], "pending", t, avail, "none"), "nacked")
               \/ \E failure \in {"attempts_exhausted", "permanent"} :
                    Row(d, Moved(dlv[d], "dead_lettered", t, avail, failure), "dead_lettered")
    BY <1>2 DEF Refuses
  <2>2. CASE /\ dlv[d].gen < MaxAttempts
             /\ Row(d, Moved(dlv[d], "pending", t, avail, "none"), "nacked")
    BY <1>1, <2>1, <2>2, MovedRow
  <2>3. ASSUME NEW failure \in {"attempts_exhausted", "permanent"},
               Row(d, Moved(dlv[d], "dead_lettered", t, avail, failure), "dead_lettered")
        PROVE  Kept(d)
    BY <1>1, <2>1, <2>3, MovedRow
  <2> QED BY <2>1, <2>2, <2>3
<1>3. CASE Cancels(d)
  <2>1. PICK t \in Nat, avail \in Nat :
            /\ Public(d) /\ dlv[d].status \in Live /\ ~ HasTransportReceipt(d)
            /\ Row(d, Moved(dlv[d], "cancelled", t, avail, "none"), "cancelled")
    BY <1>3 DEF Cancels
  <2> QED BY <1>1, <2>1, MovedRow
<1> QED BY <1>2, <1>3

\* A row that waits after its maintenance: it waited before, or its lease ran
\* out and it has an attempt left.
LEMMA MaintainedWaits ==
    ASSUME NEW d \in Delivery, RowInv(d), Published(d), NEW t \in Nat,
           Maintained(d, t).status = "pending"
    PROVE  LET rec == Maintained(d, t) IN
           /\ rec \in DeliveryRecord /\ dlv[d].status \in Live
           /\ rec.gen = dlv[d].gen /\ rec.rev >= dlv[d].rev /\ rec.expires = dlv[d].expires
           /\ rec.updated >= dlv[d].updated
<1>1. dlv[d] \in DeliveryRecord
  BY DEF RowInv, RowTypeOK
<1>2. dlv[d].rev \in Nat /\ dlv[d].updated \in Nat
  BY <1>1 DEF DeliveryRecord
<1>3. /\ {"acknowledged", "expired", "pending", "dead_lettered"} \subseteq Status
      /\ {"none", "attempts_exhausted"} \subseteq Failure
  BY DEF Status, Terminal, Failure, Live
<1>4. ASSUME NEW avail \in Nat, NEW failure \in {"none", "attempts_exhausted"},
             NEW status \in {"acknowledged", "expired", "pending", "dead_lettered"}
      PROVE  LET rec == Moved(dlv[d], status, t, avail, failure) IN
             /\ rec \in DeliveryRecord /\ rec.status = status
             /\ rec.gen = dlv[d].gen /\ rec.rev >= dlv[d].rev
             /\ rec.expires = dlv[d].expires /\ rec.updated >= dlv[d].updated
  <2> DEFINE rec == Moved(dlv[d], status, t, avail, failure)
  <2>1. /\ rec \in DeliveryRecord /\ rec.status = status
        /\ rec.gen = dlv[d].gen /\ rec.rev = dlv[d].rev + 1
        /\ rec.expires = dlv[d].expires /\ rec.updated >= dlv[d].updated
    <3>1. status \in Status /\ failure \in Failure
      BY <1>3
    <3> QED BY <1>1, <3>1, MovedFields
  <2> HIDE DEF rec
  <2>2. rec.rev >= dlv[d].rev
    BY <1>2, <2>1
  <2> QED BY <2>1, <2>2 DEF rec
<1>5. PICK a \in Nat : Acknowledged(dlv[d], t) = Moved(dlv[d], "acknowledged", t, a, "none")
  BY MaintenanceMoves
<1>6. Acknowledged(dlv[d], t).status = "acknowledged"
  BY <1>4, <1>5
<1>7. CASE ExpiryDue(d, t)
  <2>1. Maintained(d, t) = ExpiredRow(d, dlv[d], t)
    BY <1>7 DEF Maintained
  <2>2. ExpiredRow(d, dlv[d], t).status # "pending"
    <3>1. CASE Delivered(d, dlv[d])
      BY <1>6, <3>1, MaintenanceMoves
    <3>2. CASE ~Delivered(d, dlv[d])
      <4>1. PICK avail \in Nat :
                ExpiredRow(d, dlv[d], t) = Moved(dlv[d], "expired", t, avail, "none")
        BY <3>2, MaintenanceMoves
      <4>2. Moved(dlv[d], "expired", t, avail, "none").status = "expired"
        BY <1>4
      <4> QED BY <4>1, <4>2
    <3> QED BY <3>1, <3>2
  <2> QED BY <2>1, <2>2
<1>8. CASE ~ExpiryDue(d, t) /\ LeaseDue(d, t)
  <2>1. Maintained(d, t) = ReclaimedRow(d, dlv[d], t)
    BY <1>8 DEF Maintained
  <2>2. ~Delivered(d, dlv[d])
    BY <1>6, <2>1, MaintenanceMoves
  <2>3. PICK avail \in Nat :
            \/ ReclaimedRow(d, dlv[d], t) = Moved(dlv[d], "expired", t, avail, "none")
            \/ ReclaimedRow(d, dlv[d], t) = Moved(dlv[d], "pending", t, avail, "none")
            \/ ReclaimedRow(d, dlv[d], t) =
                    Moved(dlv[d], "dead_lettered", t, avail, "attempts_exhausted")
    BY <2>2, MaintenanceMoves
  <2>4. dlv[d].status \in Live
    BY <1>8 DEF LeaseDue, Live
  <2> QED BY <1>4, <2>1, <2>3, <2>4
<1>9. CASE ~ExpiryDue(d, t) /\ ~LeaseDue(d, t)
  <2>1. Maintained(d, t) = dlv[d]
    BY <1>9 DEF Maintained
  <2> QED BY <1>1, <1>2, <2>1 DEF Live
<1> QED BY <1>7, <1>8, <1>9

\* A claim keeps the row sound: the lease it writes is live.
LEMMA LeasesKeeps ==
    ASSUME NEW d \in Delivery, RowInv(d), Leases(d)
    PROVE  Kept(d)
<1>1. PICK t \in Nat :
        /\ Public(d) /\ Maintained(d, t).status = "pending"
        /\ Maintained(d, t).gen < MaxAttempts
        /\ ~ HasTransportReceipt(d) /\ LeaseWindow(d, t)
        /\ dlv'[d] = Leased(Maintained(d, t), t) /\ lastEvent'[d] = "leased"
        /\ attempts'[d] = Append(attempts[d], LeaseUntil(Maintained(d, t), t))
        /\ transport'[d] = transport[d]
  BY DEF Leases
<1> DEFINE rec == Maintained(d, t)
           until == LeaseUntil(rec, t)
<1>2. /\ rec \in DeliveryRecord /\ dlv[d].status \in Live
      /\ rec.gen = dlv[d].gen /\ rec.rev >= dlv[d].rev /\ rec.expires = dlv[d].expires
      /\ rec.updated >= dlv[d].updated
  BY <1>1, MaintainedWaits DEF Public
<1>3. until > Later(t, rec.updated)
  BY <1>1 DEF LeaseWindow
<1> HIDE DEF rec
<1>4. /\ dlv'[d] \in DeliveryRecord /\ until \in Nat
      /\ dlv'[d].status = "leased" /\ dlv'[d].gen = rec.gen + 1 /\ dlv'[d].rev = rec.rev + 1
      /\ dlv'[d].lease = until /\ dlv'[d].expires = rec.expires
      /\ dlv'[d].failure = "none" /\ dlv'[d].updated = Later(t, rec.updated)
      /\ dlv'[d].updated >= rec.updated
      /\ rec.expires # 0 => until <= rec.expires
  <2>1. dlv'[d] = Leased(rec, t)
    BY <1>1 DEF rec
  <2>2. rec \in DeliveryRecord /\ t \in Nat
    BY <1>2
  <2>3. /\ Leased(rec, t) \in DeliveryRecord /\ LeaseUntil(rec, t) \in Nat
        /\ Leased(rec, t).status = "leased" /\ Leased(rec, t).gen = rec.gen + 1
        /\ Leased(rec, t).rev = rec.rev + 1
        /\ Leased(rec, t).lease = LeaseUntil(rec, t) /\ Leased(rec, t).expires = rec.expires
        /\ Leased(rec, t).failure = "none" /\ Leased(rec, t).updated = Later(t, rec.updated)
        /\ Leased(rec, t).updated >= rec.updated
        /\ rec.expires # 0 => LeaseUntil(rec, t) <= rec.expires
    BY <2>2, LeasedFields
  <2> QED BY <2>1, <2>3
<1> HIDE DEF until
<1>5. /\ dlv[d].gen \in Nat /\ dlv[d].rev \in Nat /\ dlv[d].updated \in Nat
      /\ rec.rev \in Nat /\ rec.updated \in Nat /\ dlv'[d].updated \in Nat
      /\ dlv[d].expires \in Nat
  BY <1>2, <1>4 DEF RowInv, RowTypeOK, DeliveryRecord
<1>6. /\ attempts'[d] \in Seq(Nat) /\ Len(attempts'[d]) = Len(attempts[d]) + 1
      /\ \A i \in 1 .. Len(attempts[d]) : attempts'[d][i] = attempts[d][i]
      /\ attempts'[d][Len(attempts[d]) + 1] = until
      /\ Len(attempts[d]) = dlv[d].gen
  <2>1. attempts[d] \in Seq(Nat) /\ Len(attempts[d]) = dlv[d].gen
    BY DEF RowInv, RowTypeOK, RowWellFormed
  <2> QED BY <1>1, <1>4, <2>1, AppendProperties DEF rec, until
<1>7. until > 0
  BY <1>3, <1>4, <1>5
<1>8. RowTypeOK(d)'
  BY <1>1, <1>4, <1>6 DEF RowInv, RowTypeOK, EventKind
<1>9. RowWellFormed(dlv[d], Len(attempts[d]))'
  <2>1. /\ dlv'[d].gen <= MaxAttempts /\ Len(attempts'[d]) = dlv'[d].gen /\ dlv'[d].gen > 0
    BY <1>1, <1>2, <1>4, <1>5, <1>6, BoundAssumption, SMTT(30) DEF rec
  <2>2. /\ dlv'[d].lease > dlv'[d].updated /\ dlv'[d].lease # 0
        /\ dlv'[d].expires # 0 => dlv'[d].lease <= dlv'[d].expires
    BY <1>3, <1>4, <1>7
  <2> QED BY <1>4, <2>1, <2>2 DEF RowWellFormed, HoldsLease
<1>10. AttemptsInTime(d)'
  <2>1. \A i \in 1 .. Len(attempts[d]) :
            /\ attempts[d][i] > 0
            /\ dlv[d].expires # 0 => attempts[d][i] <= dlv[d].expires
    BY DEF RowInv, AttemptsInTime
  <2>2. \A i \in 1 .. Len(attempts'[d]) :
            i \in 1 .. Len(attempts[d]) \/ i = Len(attempts[d]) + 1
    BY <1>5, <1>6
  <2> QED BY <1>2, <1>4, <1>6, <1>7, <2>1, <2>2 DEF AttemptsInTime
<1>11. RowHidden(d)' /\ RowEffect(d)'
  BY <1>1, <1>4 DEF RowHidden, RowEffect, Public, Published, HasTransportReceipt
<1>12. RowStep(d)
  <2>1. LegalMove(dlv[d].status, "leased") \/ dlv[d].status = "leased"
    BY <1>2 DEF LegalMove, Live, HoldsLease
  <2>2. dlv'[d].updated >= dlv[d].updated /\ dlv'[d].rev >= dlv[d].rev
    BY <1>2, <1>4, <1>5
  <2>3. dlv[d].status \notin Terminal
    BY <1>2 DEF Live, HoldsLease, Terminal
  <2>4. dlv'[d].gen = dlv[d].gen + 1 /\ dlv'[d].gen # dlv[d].gen
    BY <1>2, <1>4, <1>5
  <2> QED BY <1>1, <1>4, <2>1, <2>2, <2>3, <2>4 DEF RowStep
<1>13. PhaseStep(d)
  <2>1. PhaseOf(d) \in {"waiting", "handed"}
    BY <1>1, <1>2 DEF PhaseOf, Public, Live, HoldsLease
  <2>2. PhaseOf(d)' = "handed"
    BY <1>1, <1>4 DEF PhaseOf, Public, HoldsLease
  <2>3. HasTransportReceipt(d)' <=> HasTransportReceipt(d)
    BY <1>1 DEF HasTransportReceipt
  <2>4. dlv[d].gen < MaxAttempts
    BY <1>1, <1>2 DEF rec
  <2> QED BY <1>1, <1>2, <1>4, <2>1, <2>2, <2>3, <2>4 DEF PhaseStep
<1> QED BY <1>8, <1>9, <1>10, <1>11, <1>12, <1>13 DEF Kept, RowInv

\* A renewal keeps the row sound.
LEMMA RenewsKeeps ==
    ASSUME NEW d \in Delivery, RowInv(d), Renews(d)
    PROVE  Kept(d)
<1>1. PICK until \in Nat, now \in Nat :
        /\ Public(d) /\ dlv[d].status \in HoldsLease
        /\ until > now /\ now >= dlv[d].updated
        /\ dlv[d].expires = 0 \/ until <= dlv[d].expires
        /\ Row(d, [dlv[d] EXCEPT !.lease = until, !.rev = @ + 1, !.updated = now],
               "lease_renewed")
  BY DEF Renews
<1>2. dlv[d] \in DeliveryRecord
  BY DEF RowInv, RowTypeOK
<1>3. dlv[d].rev \in Nat /\ dlv[d].rev + 1 \in Nat /\ dlv[d].updated \in Nat
  <2>1. dlv[d].rev \in Nat /\ dlv[d].updated \in Nat
    BY <1>2 DEF DeliveryRecord
  <2> QED BY <2>1
<1>4. /\ dlv'[d] = [dlv[d] EXCEPT !.lease = until, !.rev = @ + 1, !.updated = now]
      /\ lastEvent'[d] = "lease_renewed"
      /\ attempts'[d] = attempts[d] /\ transport'[d] = transport[d]
      /\ HasTransportReceipt(d)' <=> HasTransportReceipt(d)
  BY <1>1 DEF Row, HasTransportReceipt
<1>5. dlv'[d] \in DeliveryRecord
  BY <1>2, <1>3, <1>4 DEF DeliveryRecord
<1>6. /\ dlv'[d].status = dlv[d].status /\ dlv'[d].gen = dlv[d].gen
      /\ dlv'[d].rev = dlv[d].rev + 1 /\ dlv'[d].lease = until
      /\ dlv'[d].expires = dlv[d].expires /\ dlv'[d].reached = dlv[d].reached
      /\ dlv'[d].failure = dlv[d].failure /\ dlv'[d].updated = now
  BY <1>2, <1>4 DEF DeliveryRecord
<1>7. RowTypeOK(d)'
  BY <1>4, <1>5 DEF RowInv, RowTypeOK, EventKind
<1>8. RowWellFormed(dlv[d], Len(attempts[d]))'
  <2>1. until # 0 /\ until > now
    BY <1>1
  <2> QED BY <1>1, <1>4, <1>6, <2>1 DEF RowInv, RowWellFormed, HoldsLease
<1>9. AttemptsInTime(d)' /\ RowEffect(d)'
  BY <1>4, <1>6 DEF RowInv, AttemptsInTime, RowEffect
<1>10. RowHidden(d)'
  BY <1>1, <1>6 DEF RowHidden, Public, Published, HoldsLease
<1>11. RowStep(d)
  BY <1>1, <1>3, <1>4, <1>6 DEF RowStep, HoldsLease, Terminal, Refused
<1>12. PhaseStep(d)
  <2>1. PhaseOf(d)' = PhaseOf(d)
    BY <1>1, <1>6 DEF PhaseOf, Public
  <2> QED BY <1>4, <1>6, <2>1 DEF PhaseStep
<1> QED BY <1>7, <1>8, <1>9, <1>10, <1>11, <1>12 DEF Kept, RowInv

\* mark_delivered keeps the row sound.
LEMMA DeliversKeeps ==
    ASSUME NEW d \in Delivery, RowInv(d), Delivers(d)
    PROVE  Kept(d)
<1>1. PICK t \in Nat :
        /\ Public(d) /\ dlv[d].status = "leased"
        /\ Row(d, Reached(dlv[d], t), "delivered")
  BY DEF Delivers
<1>2. dlv[d] \in DeliveryRecord
  BY DEF RowInv, RowTypeOK
<1>3. /\ dlv'[d] = Reached(dlv[d], t) /\ lastEvent'[d] = "delivered"
      /\ attempts'[d] = attempts[d] /\ transport'[d] = transport[d]
      /\ HasTransportReceipt(d)' <=> HasTransportReceipt(d)
  BY <1>1 DEF Row, HasTransportReceipt
<1>4. /\ dlv'[d] \in DeliveryRecord
      /\ dlv'[d].status = "delivered" /\ dlv'[d].gen = dlv[d].gen
      /\ dlv'[d].rev = dlv[d].rev + 1
      /\ dlv'[d].lease = dlv[d].lease /\ dlv'[d].expires = dlv[d].expires
      /\ dlv'[d].reached = TRUE
      /\ dlv'[d].failure = dlv[d].failure /\ dlv'[d].updated >= dlv[d].updated
  <2> DEFINE r == Reached(dlv[d], t)
  <2>1. /\ r \in DeliveryRecord
        /\ r.status = "delivered" /\ r.gen = dlv[d].gen /\ r.rev = dlv[d].rev + 1
        /\ r.lease = dlv[d].lease /\ r.expires = dlv[d].expires /\ r.reached = TRUE
        /\ r.failure = dlv[d].failure /\ r.updated >= dlv[d].updated
    BY <1>2, ReachedFields
  <2> QED BY <1>3, <2>1
<1>5. dlv[d].rev \in Nat
  BY <1>2 DEF DeliveryRecord
<1>6. RowTypeOK(d)'
  BY <1>3, <1>4 DEF RowInv, RowTypeOK, EventKind
<1>7. RowWellFormed(dlv[d], Len(attempts[d]))'
  BY <1>1, <1>3, <1>4 DEF RowInv, RowWellFormed, HoldsLease
<1>8. AttemptsInTime(d)' /\ RowEffect(d)'
  BY <1>3, <1>4 DEF RowInv, AttemptsInTime, RowEffect
<1>9. RowHidden(d)'
  BY <1>1, <1>4 DEF RowHidden, Public, Published
<1>10. ~HasTransportReceipt(d)
  BY <1>1 DEF RowInv, RowEffect
<1>11. RowStep(d)
  BY <1>1, <1>3, <1>4, <1>5, <1>10 DEF RowStep, LegalMove, Terminal, Refused
<1>12. PhaseStep(d)
  <2>1. PhaseOf(d)' = PhaseOf(d)
    BY <1>1, <1>4 DEF PhaseOf, Public, HoldsLease
  <2> QED BY <1>3, <1>4, <2>1 DEF PhaseStep
<1> QED BY <1>6, <1>7, <1>8, <1>9, <1>11, <1>12 DEF Kept, RowInv

\* mark_transport_delivered keeps the row sound, also after the lease ran out:
\* the lease it writes back is the one the attempt had.
LEMMA ConfirmsKeeps ==
    ASSUME NEW d \in Delivery, RowInv(d), Confirms(d)
    PROVE  Kept(d)
<1>1. PICK t \in Nat, x \in ExternalId :
        /\ Public(d) /\ ~ HasTransportReceipt(d) /\ dlv[d].gen > 0
        /\ \/ dlv[d].status = "leased"
           \/ dlv[d].status = "pending" /\ lastEvent[d] = "reclaimed"
        /\ dlv'[d] = [Reached(dlv[d], t) EXCEPT
                        !.lease = IF @ # 0 THEN @ ELSE attempts[d][dlv[d].gen]]
        /\ lastEvent'[d] = "delivered" /\ attempts'[d] = attempts[d]
        /\ transport'[d] = [gen |-> dlv[d].gen, id |-> x]
  BY DEF Confirms
<1> DEFINE r == Reached(dlv[d], t)
<1>2. /\ dlv[d] \in DeliveryRecord /\ dlv[d].rev \in Nat /\ dlv[d].gen \in Nat
      /\ dlv[d].lease \in Nat
  BY DEF RowInv, RowTypeOK, DeliveryRecord
<1>3. /\ r \in DeliveryRecord
      /\ r.status = "delivered" /\ r.gen = dlv[d].gen /\ r.rev = dlv[d].rev + 1
      /\ r.lease = dlv[d].lease /\ r.expires = dlv[d].expires /\ r.reached = TRUE
      /\ r.failure = dlv[d].failure /\ r.updated >= dlv[d].updated
  BY <1>2, ReachedFields
<1> HIDE DEF r
<1>4. PICK lease \in Nat : lease = IF r.lease # 0 THEN r.lease ELSE attempts[d][dlv[d].gen]
  <2>1. attempts[d] \in Seq(Nat) /\ Len(attempts[d]) = dlv[d].gen
    BY DEF RowInv, RowTypeOK, RowWellFormed
  <2>2. attempts[d][dlv[d].gen] \in Nat
    BY <1>1, <1>2, <2>1
  <2> QED BY <1>2, <1>3, <2>2
<1>5. lease # 0 /\ (dlv[d].expires # 0 => lease <= dlv[d].expires)
  <2>1. CASE dlv[d].lease # 0
    BY <1>3, <1>4, <2>1 DEF RowInv, RowWellFormed
  <2>2. CASE dlv[d].lease = 0
    <3>1. dlv[d].gen \in 1 .. Len(attempts[d])
      BY <1>1, <1>2 DEF RowInv, RowWellFormed
    <3>2. lease = attempts[d][dlv[d].gen]
      BY <1>3, <1>4, <2>2
    <3> QED BY <1>4, <3>1, <3>2 DEF RowInv, AttemptsInTime
  <2> QED BY <2>1, <2>2
<1>6. dlv'[d] = [r EXCEPT !.lease = lease]
  BY <1>1, <1>4 DEF r
<1>7. dlv'[d] \in DeliveryRecord
  BY <1>3, <1>6 DEF DeliveryRecord
<1>8. /\ dlv'[d].status = "delivered" /\ dlv'[d].gen = dlv[d].gen
      /\ dlv'[d].rev = dlv[d].rev + 1
      /\ dlv'[d].lease = lease /\ dlv'[d].expires = dlv[d].expires /\ dlv'[d].reached = TRUE
      /\ dlv'[d].failure = dlv[d].failure /\ dlv'[d].updated >= dlv[d].updated
  BY <1>3, <1>6 DEF DeliveryRecord
<1>9. transport'[d] \in Receipt /\ transport'[d].gen = dlv[d].gen /\ HasTransportReceipt(d)'
  BY <1>1, <1>2 DEF Receipt, HasTransportReceipt
<1>10. RowTypeOK(d)'
  BY <1>1, <1>7, <1>9 DEF RowInv, RowTypeOK, EventKind
<1>11. RowWellFormed(dlv[d], Len(attempts[d]))'
  BY <1>1, <1>5, <1>8 DEF RowInv, RowWellFormed, HoldsLease
<1>12. AttemptsInTime(d)' /\ RowEffect(d)'
  BY <1>1, <1>8, <1>9 DEF RowInv, AttemptsInTime, RowEffect
<1>13. RowHidden(d)'
  BY <1>1, <1>8 DEF RowHidden, Public, Published
<1>14. RowStep(d)
  <2>1. LegalMove(dlv[d].status, "delivered") /\ dlv[d].status \notin Terminal
    BY <1>1 DEF LegalMove, Terminal
  <2>2. ~Refused(d)
    BY <1>1 DEF Refused
  <2> QED BY <1>1, <1>2, <1>8, <1>9, <2>1, <2>2 DEF RowStep
<1>15. PhaseStep(d)
  <2>1. PhaseOf(d) \in {"waiting", "handed"} /\ PhaseOf(d)' = "handed"
    BY <1>1, <1>8 DEF PhaseOf, Public, HoldsLease
  <2> QED BY <1>1, <1>8, <1>9, <2>1 DEF PhaseStep
<1> QED BY <1>10, <1>11, <1>12, <1>13, <1>14, <1>15 DEF Kept, RowInv

\* A row a transaction does not touch stays sound.
LEMMA RestsKeeps ==
    ASSUME NEW d \in Delivery, RowInv(d), Rests(d)
    PROVE  Kept(d)
<1>1. /\ dlv'[d] = dlv[d] /\ lastEvent'[d] = lastEvent[d]
      /\ attempts'[d] = attempts[d] /\ transport'[d] = transport[d]
      /\ PubStatus(d)' = PubStatus(d) \/ (PubStatus(d) = "staged" /\ PubStatus(d)' = "discarded")
  BY DEF Rests, Row
<1>2. HasTransportReceipt(d)' <=> HasTransportReceipt(d)
  BY <1>1 DEF HasTransportReceipt
<1>3. Published(d)' <=> Published(d)
  BY <1>1 DEF PubStatus, Published
<1>4. /\ pub'[MessageOf[d]].status = "absent" <=> pub[MessageOf[d]].status = "absent"
  BY <1>1 DEF PubStatus
<1>5. RowTypeOK(d)' /\ RowWellFormed(dlv[d], Len(attempts[d]))' /\ AttemptsInTime(d)'
      /\ RowEffect(d)'
  BY <1>1, <1>2 DEF RowInv, RowTypeOK, RowWellFormed, AttemptsInTime, RowEffect
<1>6. RowHidden(d)'
  BY <1>1, <1>2, <1>3, <1>4 DEF RowInv, RowHidden
<1>7. dlv[d].updated \in Nat /\ dlv[d].rev \in Nat
  BY DEF RowInv, RowTypeOK, DeliveryRecord
<1>8. RowStep(d)
  BY <1>1, <1>7 DEF RowStep, Refused
<1>9. PhaseStep(d)
  <2>1. PhaseOf(d)' = PhaseOf(d)
    BY <1>1, <1>3 DEF PhaseOf
  <2> QED BY <1>1, <1>2, <2>1 DEF PhaseStep
<1> QED BY <1>5, <1>6, <1>8, <1>9 DEF Kept, RowInv

\* A row of a new message is sound; until the message is public it is hidden.
LEMMA BornKeeps ==
    ASSUME NEW d \in Delivery, RowInv(d), Born(d)
    PROVE  Kept(d)
<1>1. PICK t \in Nat, avail \in Nat, expires \in Nat :
        /\ PubStatus(d) = "absent" /\ PubStatus(d)' \in {"staged", "published"}
        /\ Row(d, [NoDelivery EXCEPT !.status = "pending", !.avail = avail,
                                     !.expires = expires, !.updated = t],
               IF PubStatus(d)' = "published" THEN "enqueued" ELSE lastEvent[d])
  BY DEF Born
<1>2. /\ dlv[d] = NoDelivery /\ attempts[d] = <<>> /\ ~HasTransportReceipt(d)
      /\ lastEvent[d] = "none" /\ ~Published(d)
  BY <1>1 DEF RowInv, RowHidden, PubStatus, Published
<1>3. dlv'[d] = [status |-> "pending", avail |-> avail, expires |-> expires, gen |-> 0,
                 rev |-> 0, lease |-> 0, updated |-> t, reached |-> FALSE, failure |-> "none"]
  BY <1>1 DEF Row, NoDelivery
<1>4. /\ lastEvent'[d] = (IF PubStatus(d)' = "published" THEN "enqueued" ELSE "none")
      /\ attempts'[d] = <<>> /\ transport'[d] = transport[d]
      /\ HasTransportReceipt(d)' <=> HasTransportReceipt(d)
  BY <1>1, <1>2 DEF Row, HasTransportReceipt
<1>5. dlv'[d] \in DeliveryRecord
  BY <1>3 DEF DeliveryRecord, Status, Live
<1>6. RowTypeOK(d)'
  BY <1>4, <1>5, EmptySeq DEF RowInv, RowTypeOK, EventKind
<1>7. RowWellFormed(dlv[d], Len(attempts[d]))' /\ AttemptsInTime(d)'
  BY <1>3, <1>4, BoundAssumption DEF RowWellFormed, HoldsLease, AttemptsInTime
<1>8. RowEffect(d)'
  BY <1>2, <1>4 DEF RowEffect
<1>9. RowHidden(d)'
  BY <1>1, <1>2, <1>3, <1>4 DEF RowHidden, PubStatus, Published
<1>10. RowStep(d)
  BY <1>2, <1>3, <1>4 DEF RowStep, NoDelivery, LegalMove, Terminal, Refused
<1>11. PhaseStep(d)
  <2>1. PhaseOf(d) = "hidden" /\ PhaseOf(d)' \in {"hidden", "waiting"}
    BY <1>2, <1>3 DEF PhaseOf, HoldsLease
  <2> QED BY <1>2, <1>3, <1>4, <2>1 DEF PhaseStep, NoDelivery
<1> QED BY <1>6, <1>7, <1>8, <1>9, <1>10, <1>11 DEF Kept, RowInv

\* A hidden row that becomes public is sound.
LEMMA PublishedKeeps ==
    ASSUME NEW d \in Delivery, RowInv(d), Published1(d)
    PROVE  Kept(d)
<1>1. PICK t \in Nat :
        /\ PubStatus(d) = "staged" /\ PubStatus(d)' = "published"
        /\ Row(d, [dlv[d] EXCEPT !.updated = Later(t, @)], "enqueued")
  BY DEF Published1
<1>2. /\ dlv[d].status = "pending" /\ ~HasTransportReceipt(d) /\ lastEvent[d] = "none"
      /\ ~Published(d) /\ Published(d)'
  BY <1>1 DEF RowInv, RowHidden, PubStatus, Published
<1>3. dlv[d] \in DeliveryRecord /\ dlv[d].updated \in Nat /\ dlv[d].rev \in Nat
  BY DEF RowInv, RowTypeOK, DeliveryRecord
<1>4. Later(t, dlv[d].updated) \in Nat /\ Later(t, dlv[d].updated) >= dlv[d].updated
  BY <1>3 DEF Later
<1>5. /\ dlv'[d] = [dlv[d] EXCEPT !.updated = Later(t, dlv[d].updated)]
      /\ lastEvent'[d] = "enqueued"
      /\ attempts'[d] = attempts[d] /\ transport'[d] = transport[d]
      /\ HasTransportReceipt(d)' <=> HasTransportReceipt(d)
  BY <1>1 DEF Row, HasTransportReceipt
<1>6. dlv'[d] \in DeliveryRecord
  BY <1>3, <1>4, <1>5 DEF DeliveryRecord
<1>7. /\ dlv'[d].status = dlv[d].status /\ dlv'[d].gen = dlv[d].gen
      /\ dlv'[d].rev = dlv[d].rev /\ dlv'[d].lease = dlv[d].lease
      /\ dlv'[d].expires = dlv[d].expires /\ dlv'[d].reached = dlv[d].reached
      /\ dlv'[d].failure = dlv[d].failure /\ dlv'[d].updated = Later(t, dlv[d].updated)
  BY <1>3, <1>5 DEF DeliveryRecord
<1>8. RowTypeOK(d)'
  BY <1>5, <1>6 DEF RowInv, RowTypeOK, EventKind
<1>9. RowWellFormed(dlv[d], Len(attempts[d]))'
  BY <1>2, <1>5, <1>7 DEF RowInv, RowWellFormed
<1>10. AttemptsInTime(d)' /\ RowEffect(d)'
  BY <1>5, <1>7 DEF RowInv, AttemptsInTime, RowEffect
<1>11. RowHidden(d)'
  BY <1>2, <1>7 DEF RowHidden, Published
<1>12. RowStep(d)
  BY <1>2, <1>3, <1>4, <1>5, <1>7 DEF RowStep, Terminal, Refused
<1>13. PhaseStep(d)
  <2>1. PhaseOf(d) = "hidden" /\ PhaseOf(d)' = "waiting"
    BY <1>2, <1>7 DEF PhaseOf, HoldsLease
  <2> QED BY <1>5, <1>7, <2>1 DEF PhaseStep
<1> QED BY <1>8, <1>9, <1>10, <1>11, <1>12, <1>13 DEF Kept, RowInv

\* Whatever its fate, the row stays sound.
LEMMA FateKeeps ==
    ASSUME NEW d \in Delivery, RowInv(d), Fate(d)
    PROVE  Kept(d)
<1>1. ASSUME Accepts(d) PROVE Kept(d)
  BY <1>1, AcceptsKeeps DEF Accepts, EventKind
<1> QED BY <1>1, RestsKeeps, BornKeeps, PublishedKeeps, ExpiresKeeps, ReclaimsKeeps, LeasesKeeps,
           RenewsKeeps, DeliversKeeps, ConfirmsKeeps, RefusesKeeps DEF Fate

-----------------------------------------------------------------------------
(* The other tables. *)

\* Every table of deliveries has one row per delivery.
Tables ==
    /\ dlv = [d \in Delivery |-> dlv[d]] /\ attempts = [d \in Delivery |-> attempts[d]]
    /\ transport = [d \in Delivery |-> transport[d]]
    /\ lastEvent = [d \in Delivery |-> lastEvent[d]]

PublicMessages == {m \in Message : pub[m].status = "published"}

\* A message that was never staged is public.
OrdinaryIsPublic ==
    \A m \in Message : pub[m].origin = "ordinary" => pub[m].status = "published"

PubInv ==
    /\ pub \in [Message -> PublicationRecord] /\ allocator \in [all : Nat, public : Nat]
    /\ OrdinaryIsPublic
    /\ IsFiniteSet(PublicMessages) /\ PublicSequenceDense

\* A recorded result is of an attempt that was made, an attempt is not both
\* accepted and refused, and a refused attempt shows in the row until it is
\* claimed again.
ResultInv(o) ==
    /\ o.dlv \in Delivery /\ o.gen \in Nat /\ o.status \in Status
    /\ o.resultGen \in Nat /\ o.resultRev \in Nat
    /\ 0 < o.gen /\ o.gen <= dlv[o.dlv].gen
    /\ o.status \in ResultStatus(o.key.kind)
    /\ o.resultRev <= dlv[o.dlv].rev
    /\ o.key.kind = "reply" =>
         /\ o.key.arg \in Message /\ pub[o.key.arg].status = "published"
         /\ pub[o.key.arg].replyTo = MessageOf[o.dlv]
    /\ o.key.kind \in NackKinds /\ o.gen = dlv[o.dlv].gen => Refused(o.dlv)
ResultsDecide ==
    \A o, p \in ops :
        /\ o.dlv = p.dlv /\ o.gen = p.gen
        /\ o.resultGen = o.gen /\ p.resultGen = p.gen
        => ~ (o.key.kind \in AckKinds /\ p.key.kind \in NackKinds)
OpsInv == (\A o \in ops : ResultInv(o)) /\ ResultsDecide

\* No provider identity names two deliveries.
OneDeliveryPerId ==
    \A d, e \in Delivery :
        HasTransportReceipt(d) /\ transport[d].id = transport[e].id => d = e

IInv ==
    /\ Tables /\ PubInv /\ OpsInv /\ OneDeliveryPerId /\ clock \in Nat
    /\ \A d \in Delivery : RowInv(d)

\* What every step shows of the tables that are not about one delivery.
PubStep ==
    /\ PubInv'
    /\ \A m \in Message : pub[m].status \in {"published", "discarded"} => pub'[m] = pub[m]

\* A result that may be added: of the attempt at hand, or an acceptance of
\* what a transport receipt closed.
NewResult(o) ==
    /\ ResultInv(o)'
    /\ \/ o.key.kind \in AckKinds /\ (o.resultGen = o.gen => Undecided(o.dlv, o.gen, NackKinds))
       \/ o.key.kind \in NackKinds /\ Undecided(o.dlv, o.gen, AckKinds)
       \/ o.key.kind \notin AckKinds \cup NackKinds
    /\ o.gen # dlv[o.dlv].gen => dlv'[o.dlv] = dlv[o.dlv]
OpsStep ==
    ops' = ops \/ \E o : NewResult(o) /\ ops' = ops \cup {o}

\* What an action does, seen from each table.
Shown ==
    /\ Tables' /\ PubStep /\ (\A d \in Delivery : Fate(d))
    /\ OneDeliveryPerId' /\ clock' \in Nat

\* A message that becomes public takes the next place among the public ones.
LEMMA PublicGrows ==
    ASSUME PubInv, NEW m \in Message, pub[m].status # "published",
           pub' \in [Message -> PublicationRecord], allocator' \in [all : Nat, public : Nat],
           pub'[m].status = "published", pub'[m].seq = allocator.public,
           \A n \in Message \ {m} : pub'[n] = pub[n],
           allocator'.public = allocator.public + 1
    PROVE  PubInv'
<1> DEFINE P == PublicMessages
<1>1. PublicMessages' = P \cup {m} /\ m \notin P /\ P \subseteq Message
  BY DEF PublicMessages
<1>2. IsFiniteSet(P) /\ Cardinality(P) \in Nat
  BY FS_CardinalityType DEF PubInv
<1>3. IsFiniteSet(PublicMessages') /\ Cardinality(PublicMessages') = Cardinality(P) + 1
  BY <1>1, <1>2, FS_AddElement
<1>4. {pub[n].seq : n \in P} = 1 .. Cardinality(P) /\ allocator.public = Cardinality(P) + 1
  BY DEF PubInv, PublicSequenceDense, PublicMessages
<1>5. {pub'[n].seq : n \in PublicMessages'} = {pub[n].seq : n \in P} \cup {allocator.public}
  BY <1>1
<1> HIDE DEF P
<1>6. {pub'[n].seq : n \in PublicMessages'} = 1 .. Cardinality(PublicMessages')
  <2>1. \A c \in Nat : (1 .. c) \cup {c + 1} = 1 .. (c + 1)
    OBVIOUS
  <2>2. (1 .. Cardinality(P)) \cup {Cardinality(P) + 1} = 1 .. (Cardinality(P) + 1)
    BY <1>2, <2>1
  <2> QED BY <1>3, <1>4, <1>5, <2>2
<1>7. allocator'.public = Cardinality(PublicMessages') + 1
  BY <1>3, <1>4
<1>8. PublicSequenceDense'
  BY <1>6, <1>7 DEF PublicSequenceDense, PublicMessages
<1>9. OrdinaryIsPublic'
  BY DEF PubInv, OrdinaryIsPublic
<1> QED BY <1>3, <1>8, <1>9 DEF PubInv

\* A message that is staged or discarded leaves the public ones alone.
LEMMA PublicStays ==
    ASSUME PubInv, NEW m \in Message, pub[m].status # "published",
           pub' \in [Message -> PublicationRecord], allocator' \in [all : Nat, public : Nat],
           pub'[m].status # "published", pub'[m].origin # "ordinary",
           \A n \in Message \ {m} : pub'[n] = pub[n],
           allocator'.public = allocator.public
    PROVE  PubInv'
<1>1. PublicMessages' = PublicMessages
  BY DEF PublicMessages
<1>2. \A n \in PublicMessages : pub'[n].seq = pub[n].seq
  BY DEF PublicMessages
<1>3. {pub'[n].seq : n \in PublicMessages} = {pub[n].seq : n \in PublicMessages}
  BY <1>2
<1>4. {pub[n].seq : n \in PublicMessages} = 1 .. Cardinality(PublicMessages)
      /\ allocator.public = Cardinality(PublicMessages) + 1
  BY DEF PubInv, PublicSequenceDense, PublicMessages
<1>5. PublicSequenceDense'
  BY <1>1, <1>3, <1>4 DEF PublicSequenceDense, PublicMessages
<1>6. OrdinaryIsPublic'
  BY DEF PubInv, OrdinaryIsPublic
<1> QED BY <1>1, <1>5, <1>6 DEF PubInv

\* A transaction that publishes nothing.
LEMMA PubSame ==
    ASSUME PubInv, pub' = pub, allocator' = allocator
    PROVE  PubStep
BY DEF PubInv, PubStep, PublicSequenceDense, PublicMessages, OrdinaryIsPublic

-----------------------------------------------------------------------------
(* Every action gives every row a fate. *)

\* The clock an operation read is a time.
LEMMA SampleIsTime ==
    ASSUME clock \in Nat, NEW t \in Samples
    PROVE  t \in Nat
BY DEF Samples

\* A transaction that publishes m at once: the public message and its place.
LEMMA InsertShown ==
    ASSUME PubInv, NEW m \in Message, NEW delay, NEW life,
           NEW replyTo \in Message \cup {NoMessage}, InsertPublished(m, delay, life, replyTo)
    PROVE  /\ PubStep /\ pub[m].status = "absent"
           /\ pub'[m].status = "published" /\ pub'[m].replyTo = replyTo
           /\ \A n \in Message \ {m} : pub'[n] = pub[n]
<1> DEFINE row == [origin |-> "ordinary", status |-> "published",
                   seq |-> allocator.public, replyTo |-> replyTo]
<1>1. /\ pub[m].status = "absent" /\ pub' = [pub EXCEPT ![m] = row]
      /\ allocator' = [all |-> allocator.all + 1, public |-> allocator.public + 1]
  BY DEF InsertPublished, Admissible
<1>2. allocator.all \in Nat /\ allocator.public \in Nat
  BY DEF PubInv
<1>3. row \in PublicationRecord
  BY <1>2 DEF PublicationRecord
<1>4. /\ row.status = "published" /\ row.seq = allocator.public /\ row.replyTo = replyTo
  OBVIOUS
<1> HIDE DEF row
<1>5. /\ pub' \in [Message -> PublicationRecord] /\ pub'[m] = row
      /\ \A n \in Message \ {m} : pub'[n] = pub[n]
  BY <1>1, <1>3 DEF PubInv
<1>6. allocator' \in [all : Nat, public : Nat] /\ allocator'.public = allocator.public + 1
  BY <1>1, <1>2
<1>7. PubInv'
  BY <1>1, <1>4, <1>5, <1>6, PublicGrows
<1>8. \A n \in Message : pub[n].status \in {"published", "discarded"} => pub'[n] = pub[n]
  BY <1>1, <1>5
<1> QED BY <1>1, <1>4, <1>5, <1>7, <1>8 DEF PubStep

\* The deliveries of a new message are born, the others rest.
LEMMA NewRows ==
    ASSUME IInv, NEW m \in Message, NEW delay \in Delays, NEW life \in Lifetimes,
           NEW t \in Nat, NEW d \in Delivery,
           pub[m].status = "absent", pub'[m].status \in {"staged", "published"},
           \A n \in Message \ {m} : pub'[n] = pub[n],
           dlv'[d] = NewDeliveries(m, delay, life, t)[d],
           lastEvent'[d] = IF d \in DeliveriesOf(m) /\ pub'[m].status = "published"
                           THEN "enqueued" ELSE lastEvent[d],
           attempts'[d] = attempts[d], transport'[d] = transport[d]
    PROVE  Fate(d)
<1>1. delay \in Nat /\ life \in Nat
  BY BoundAssumption
<1>2. CASE d \in DeliveriesOf(m)
  <2>1. MessageOf[d] = m
    BY <1>2 DEF DeliveriesOf
  <2>2. PICK avail \in Nat, expires \in Nat :
            avail = t + delay /\ expires = IF life = 0 THEN 0 ELSE t + life
    BY <1>1
  <2>3. dlv'[d] = [NoDelivery EXCEPT !.status = "pending", !.avail = avail,
                                     !.expires = expires, !.updated = t]
    BY <1>2, <2>2 DEF NewDeliveries
  <2>4. /\ PubStatus(d) = pub[m].status /\ PubStatus(d)' = pub'[m].status
        /\ lastEvent'[d] = IF pub'[m].status = "published" THEN "enqueued" ELSE lastEvent[d]
    BY <1>2, <2>1 DEF PubStatus
  <2>5. Row(d, [NoDelivery EXCEPT !.status = "pending", !.avail = avail,
                                  !.expires = expires, !.updated = t],
            IF PubStatus(d)' = "published" THEN "enqueued" ELSE lastEvent[d])
    BY <2>3, <2>4 DEF Row
  <2>6. PubStatus(d) = "absent" /\ PubStatus(d)' \in {"staged", "published"}
    BY <2>4
  <2>7. Born(d)
    BY <2>5, <2>6 DEF Born
  <2> QED BY <2>7 DEF Fate
<1>3. CASE d \notin DeliveriesOf(m)
  <2>1. MessageOf[d] \in Message \ {m}
    BY <1>3, MessageExists DEF DeliveriesOf
  <2>2. dlv'[d] = dlv[d] /\ lastEvent'[d] = lastEvent[d]
    BY <1>3 DEF NewDeliveries
  <2>3. PubStatus(d)' = PubStatus(d)
    BY <2>1 DEF PubStatus
  <2>4. Rests(d)
    BY <2>2, <2>3 DEF Rests, Row
  <2> QED BY <2>4 DEF Fate
<1> QED BY <1>2, <1>3

\* insert_message_in_transaction of a public message.
LEMMA EnqueueShown ==
    ASSUME IInv, NEW m \in Message, NEW delay \in Delays, NEW life \in Lifetimes,
           NEW replyTo \in Message \cup {NoMessage}, NEW t \in Samples,
           Enqueue(m, delay, life, replyTo, t)
    PROVE  Shown /\ ops' = ops
<1>1. /\ InsertPublished(m, delay, life, replyTo)
      /\ dlv' = NewDeliveries(m, delay, life, t)
      /\ lastEvent' = [d \in Delivery |->
            IF d \in DeliveriesOf(m) THEN "enqueued" ELSE lastEvent[d]]
      /\ UNCHANGED <<attempts, transport, ops, clock>>
  BY DEF Enqueue
<1>2. /\ PubStep /\ pub[m].status = "absent" /\ pub'[m].status = "published"
      /\ \A n \in Message \ {m} : pub'[n] = pub[n]
  BY <1>1, InsertShown DEF IInv
<1>3. t \in Nat
  BY SampleIsTime DEF IInv
<1>4. \A d \in Delivery : Fate(d)
  <2> TAKE d \in Delivery
  <2>1. /\ dlv'[d] = NewDeliveries(m, delay, life, t)[d]
        /\ lastEvent'[d] = IF d \in DeliveriesOf(m) THEN "enqueued" ELSE lastEvent[d]
        /\ attempts'[d] = attempts[d] /\ transport'[d] = transport[d]
    BY <1>1
  <2> QED BY <1>2, <1>3, <2>1, NewRows
<1>5. Tables'
  BY <1>1 DEF IInv, Tables, NewDeliveries
<1>6. OneDeliveryPerId' /\ clock' \in Nat
  BY <1>1 DEF IInv, OneDeliveryPerId, HasTransportReceipt
<1> QED BY <1>1, <1>2, <1>4, <1>5, <1>6 DEF Shown

\* insert_message_in_transaction of a staged message.
LEMMA StageShown ==
    ASSUME IInv, NEW m \in Message, NEW delay \in Delays, NEW life \in Lifetimes,
           NEW replyTo \in Message \cup {NoMessage}, NEW t \in Samples,
           Stage(m, delay, life, replyTo, t)
    PROVE  Shown /\ ops' = ops
<1> DEFINE row == [origin |-> "staged", status |-> "staged",
                   seq |-> allocator.all, replyTo |-> replyTo]
<1>1. /\ pub[m].status = "absent" /\ pub' = [pub EXCEPT ![m] = row]
      /\ allocator' = [allocator EXCEPT !.all = @ + 1]
      /\ dlv' = NewDeliveries(m, delay, life, t)
      /\ UNCHANGED <<attempts, transport, ops, lastEvent, clock>>
  BY DEF Stage, Admissible
<1>2. allocator.all \in Nat /\ allocator.public \in Nat
      /\ allocator \in [all : Nat, public : Nat]
  BY DEF IInv, PubInv
<1>3. row \in PublicationRecord /\ row.status = "staged" /\ row.origin = "staged"
  BY <1>2 DEF PublicationRecord
<1> HIDE DEF row
<1>4. /\ pub' \in [Message -> PublicationRecord] /\ pub'[m] = row
      /\ \A n \in Message \ {m} : pub'[n] = pub[n]
  BY <1>1, <1>3 DEF IInv, PubInv
<1>5. allocator' \in [all : Nat, public : Nat] /\ allocator'.public = allocator.public
  BY <1>1, <1>2
<1>6. PubStep
  <2>1. PubInv'
    BY <1>1, <1>3, <1>4, <1>5, PublicStays DEF IInv
  <2> QED BY <1>1, <1>4, <2>1 DEF PubStep
<1>7. t \in Nat
  BY SampleIsTime DEF IInv
<1>8. \A d \in Delivery : Fate(d)
  <2> TAKE d \in Delivery
  <2>1. /\ dlv'[d] = NewDeliveries(m, delay, life, t)[d]
        /\ lastEvent'[d] = lastEvent[d]
        /\ attempts'[d] = attempts[d] /\ transport'[d] = transport[d]
    BY <1>1
  <2> QED BY <1>1, <1>3, <1>4, <1>7, <2>1, NewRows
<1>9. Tables'
  BY <1>1 DEF IInv, Tables, NewDeliveries
<1>10. OneDeliveryPerId' /\ clock' \in Nat
  BY <1>1 DEF IInv, OneDeliveryPerId, HasTransportReceipt
<1> QED BY <1>1, <1>6, <1>8, <1>9, <1>10 DEF Shown

\* publish_staged: its deliveries become public.
LEMMA PublishShown ==
    ASSUME IInv, NEW m \in Message, NEW t \in Samples, PublishStaged(m, t)
    PROVE  Shown /\ ops' = ops
<1>1. /\ pub[m].status = "staged"
      /\ pub' = [pub EXCEPT ![m].status = "published", ![m].seq = allocator.public]
      /\ allocator' = [allocator EXCEPT !.public = @ + 1]
      /\ dlv' = [d \in Delivery |->
            IF d \in DeliveriesOf(m) THEN [dlv[d] EXCEPT !.updated = Later(t, @)] ELSE dlv[d]]
      /\ lastEvent' = [d \in Delivery |->
            IF d \in DeliveriesOf(m) THEN "enqueued" ELSE lastEvent[d]]
      /\ UNCHANGED <<attempts, transport, ops, clock>>
  BY DEF PublishStaged
<1>2. allocator.all \in Nat /\ allocator.public \in Nat
      /\ allocator \in [all : Nat, public : Nat]
  BY DEF IInv, PubInv
<1>3. pub \in [Message -> PublicationRecord] /\ pub[m] \in PublicationRecord
  BY DEF IInv, PubInv
<1> DEFINE row == [pub[m] EXCEPT !.status = "published", !.seq = allocator.public]
<1>4. row \in PublicationRecord /\ row.status = "published" /\ row.seq = allocator.public
  BY <1>2, <1>3 DEF PublicationRecord
<1>5. pub' = [pub EXCEPT ![m] = row]
  BY <1>1, <1>3
<1> HIDE DEF row
<1>6. /\ pub' \in [Message -> PublicationRecord] /\ pub'[m] = row
      /\ \A n \in Message \ {m} : pub'[n] = pub[n]
  BY <1>3, <1>4, <1>5
<1>7. allocator' \in [all : Nat, public : Nat] /\ allocator'.public = allocator.public + 1
  <2>1. allocator.public + 1 \in Nat
    BY <1>2
  <2> QED BY <1>1, <1>2, <2>1
<1>8. PubStep
  <2>1. PubInv'
    BY <1>1, <1>4, <1>6, <1>7, PublicGrows DEF IInv
  <2> QED BY <1>1, <1>6, <2>1 DEF PubStep
<1>9. t \in Nat
  BY SampleIsTime DEF IInv
<1>10. ASSUME NEW d \in Delivery PROVE Fate(d)
  <2>1. attempts'[d] = attempts[d] /\ transport'[d] = transport[d]
    BY <1>1
  <2>2. CASE d \in DeliveriesOf(m)
    <3>1. MessageOf[d] = m
      BY <2>2 DEF DeliveriesOf
    <3>2. /\ dlv'[d] = [dlv[d] EXCEPT !.updated = Later(t, @)]
          /\ lastEvent'[d] = "enqueued"
      BY <1>1, <2>2
    <3>3. PubStatus(d) = "staged" /\ PubStatus(d)' = "published"
      BY <1>1, <1>4, <1>6, <3>1 DEF PubStatus
    <3>4. Published1(d)
      BY <1>9, <2>1, <3>2, <3>3 DEF Published1, Row
    <3> QED BY <3>4 DEF Fate
  <2>3. CASE d \notin DeliveriesOf(m)
    <3>1. MessageOf[d] \in Message \ {m}
      BY <2>3, MessageExists DEF DeliveriesOf
    <3>2. dlv'[d] = dlv[d] /\ lastEvent'[d] = lastEvent[d]
      BY <1>1, <2>3
    <3>3. PubStatus(d)' = PubStatus(d)
      BY <1>6, <3>1 DEF PubStatus
    <3>4. Rests(d)
      BY <2>1, <3>2, <3>3 DEF Rests, Row
    <3> QED BY <3>4 DEF Fate
  <2> QED BY <2>2, <2>3
<1>11. Tables'
  BY <1>1 DEF IInv, Tables
<1>12. OneDeliveryPerId' /\ clock' \in Nat
  BY <1>1 DEF IInv, OneDeliveryPerId, HasTransportReceipt
<1> QED BY <1>1, <1>8, <1>10, <1>11, <1>12 DEF Shown

\* discard_staged: its deliveries stay hidden for ever.
LEMMA DiscardShown ==
    ASSUME IInv, NEW m \in Message, DiscardStaged(m)
    PROVE  Shown /\ ops' = ops
<1>1. /\ pub[m].status = "staged" /\ pub' = [pub EXCEPT ![m].status = "discarded"]
      /\ UNCHANGED <<dlv, attempts, transport, ops, lastEvent, allocator, clock>>
  BY DEF DiscardStaged
<1>2. pub \in [Message -> PublicationRecord] /\ pub[m] \in PublicationRecord
  BY DEF IInv, PubInv
<1> DEFINE row == [pub[m] EXCEPT !.status = "discarded"]
<1>3. row \in PublicationRecord /\ row.status = "discarded" /\ row.origin # "ordinary"
  BY <1>1, <1>2 DEF PublicationRecord, IInv, PubInv, OrdinaryIsPublic
<1>4. pub' = [pub EXCEPT ![m] = row]
  BY <1>1, <1>2
<1> HIDE DEF row
<1>5. /\ pub' \in [Message -> PublicationRecord] /\ pub'[m] = row
      /\ \A n \in Message \ {m} : pub'[n] = pub[n]
  BY <1>2, <1>3, <1>4
<1>6. PubStep
  <2>1. allocator' \in [all : Nat, public : Nat] /\ allocator'.public = allocator.public
    BY <1>1 DEF IInv, PubInv
  <2>2. PubInv'
    BY <1>1, <1>3, <1>5, <2>1, PublicStays DEF IInv
  <2> QED BY <1>1, <1>5, <2>2 DEF PubStep
<1>7. ASSUME NEW d \in Delivery PROVE Fate(d)
  <2>1. PubStatus(d)' = PubStatus(d) \/ (PubStatus(d) = "staged" /\ PubStatus(d)' = "discarded")
    <3>1. MessageOf[d] \in Message
      BY MessageExists
    <3>2. PubStatus(d)' = pub'[MessageOf[d]].status
      BY DEF PubStatus
    <3>3. CASE MessageOf[d] = m
      BY <1>1, <1>3, <1>5, <3>2, <3>3 DEF PubStatus
    <3>4. CASE MessageOf[d] # m
      <4>1. pub'[MessageOf[d]] = pub[MessageOf[d]]
        BY <1>5, <3>1, <3>4
      <4> QED BY <3>2, <4>1 DEF PubStatus
    <3> QED BY <3>3, <3>4
  <2>2. Rests(d)
    BY <1>1, <2>1 DEF Rests, Row
  <2> QED BY <2>2 DEF Fate
<1>8. Tables'
  BY <1>1 DEF IInv, Tables
<1>9. OneDeliveryPerId' /\ clock' \in Nat
  BY <1>1 DEF IInv, OneDeliveryPerId, HasTransportReceipt
<1> QED BY <1>1, <1>6, <1>7, <1>8, <1>9 DEF Shown


\* A row that no table of the transaction touches rests.
LEMMA UntouchedRests ==
    ASSUME NEW d \in Delivery, Row(d, dlv[d], lastEvent[d]), pub' = pub
    PROVE  Fate(d)
BY DEF Rests, PubStatus, Fate

\* A public row stays public.
LEMMA StaysPublic ==
    ASSUME NEW d \in Delivery, Published(d), pub' = pub
    PROVE  Public(d)
BY DEF Public, Published

\* A row with a lease, an end or a reclaimed attempt is public.
LEMMA InUseIsPublic ==
    ASSUME NEW d \in Delivery, RowInv(d),
           dlv[d].status \notin {"absent", "pending"} \/ lastEvent[d] # "none"
    PROVE  Published(d)
BY DEF RowInv, RowHidden

\* The receipt a caller holds is of an attempt that was made.
LEMMA ReceiptIsOfAttempt ==
    ASSUME NEW d \in Delivery, RowInv(d), NEW g \in Receipts(d)
    PROVE  g \in Nat /\ 0 < g /\ g <= dlv[d].gen
<1>1. Len(attempts[d]) = dlv[d].gen /\ dlv[d].gen \in Nat
  BY DEF RowInv, RowWellFormed, RowTypeOK, DeliveryRecord
<1> QED BY <1>1 DEF Receipts

\* A step of the clock, or none.
LEMMA UnmovedShown ==
    ASSUME IInv, UNCHANGED tables, clock' \in Nat
    PROVE  Shown /\ ops' = ops
<1>1. UNCHANGED <<pub, dlv, attempts, transport, ops, lastEvent, allocator>>
  BY DEF tables
<1>2. PubStep
  BY <1>1, PubSame DEF IInv
<1>3. ASSUME NEW d \in Delivery PROVE Fate(d)
  BY <1>1, UntouchedRests DEF Row
<1>4. Tables' /\ OneDeliveryPerId'
  BY <1>1 DEF IInv, Tables, OneDeliveryPerId, HasTransportReceipt
<1> QED BY <1>1, <1>2, <1>3, <1>4 DEF Shown

\* expire_due: the selected rows expire, the others rest.
LEMMA ExpireShown ==
    ASSUME IInv, NEW S \in SUBSET Delivery, NEW t \in Samples, ExpireDue(S, t)
    PROVE  Shown /\ ops' = ops
<1>1. /\ S \subseteq {d \in Delivery : ExpiryDue(d, t)}
      /\ dlv' = [d \in Delivery |-> IF d \in S THEN ExpiredRow(d, dlv[d], t) ELSE dlv[d]]
      /\ lastEvent' = [d \in Delivery |->
            IF d \in S THEN EventOf(ExpiredRow(d, dlv[d], t).status) ELSE lastEvent[d]]
      /\ UNCHANGED <<pub, attempts, transport, ops, allocator, clock>>
  BY DEF ExpireDue, Maintain
<1>2. t \in Nat
  BY SampleIsTime DEF IInv
<1>3. ASSUME NEW d \in Delivery PROVE Fate(d)
  <2>1. CASE d \in S
    <3>1. Row(d, ExpiredRow(d, dlv[d], t), EventOf(ExpiredRow(d, dlv[d], t).status))
      BY <1>1, <2>1 DEF Row
    <3>2. ExpiryDue(d, t)
      BY <1>1, <2>1
    <3>3. Public(d)
      BY <1>1, <3>2, StaysPublic DEF ExpiryDue
    <3> QED BY <1>2, <3>1, <3>2, <3>3 DEF Expires, Fate
  <2>2. CASE d \notin S
    BY <1>1, <2>2, UntouchedRests DEF Row
  <2> QED BY <2>1, <2>2
<1>4. Tables' /\ OneDeliveryPerId' /\ clock' \in Nat
  BY <1>1 DEF IInv, Tables, OneDeliveryPerId, HasTransportReceipt
<1>5. PubStep
  BY <1>1, PubSame DEF IInv
<1> QED BY <1>1, <1>3, <1>4, <1>5 DEF Shown

\* reclaim_expired: the selected rows come back or end, the others rest.
LEMMA ReclaimShown ==
    ASSUME IInv, NEW S \in SUBSET Delivery, NEW t \in Samples, ReclaimExpired(S, t)
    PROVE  Shown /\ ops' = ops
<1>1. /\ S \subseteq {d \in Delivery : LeaseDue(d, t)}
      /\ dlv' = [d \in Delivery |-> IF d \in S THEN ReclaimedRow(d, dlv[d], t) ELSE dlv[d]]
      /\ lastEvent' = [d \in Delivery |->
            IF d \in S THEN EventOf(ReclaimedRow(d, dlv[d], t).status) ELSE lastEvent[d]]
      /\ UNCHANGED <<pub, attempts, transport, ops, allocator, clock>>
  BY DEF ReclaimExpired, Maintain
<1>2. t \in Nat
  BY SampleIsTime DEF IInv
<1>3. ASSUME NEW d \in Delivery PROVE Fate(d)
  <2>1. CASE d \in S
    <3>1. Row(d, ReclaimedRow(d, dlv[d], t), EventOf(ReclaimedRow(d, dlv[d], t).status))
      BY <1>1, <2>1 DEF Row
    <3>2. LeaseDue(d, t)
      BY <1>1, <2>1
    <3>3. Public(d)
      BY <1>1, <3>2, StaysPublic DEF LeaseDue
    <3> QED BY <1>2, <3>1, <3>2, <3>3 DEF Reclaims, Fate
  <2>2. CASE d \notin S
    BY <1>1, <2>2, UntouchedRests DEF Row
  <2> QED BY <2>1, <2>2
<1>4. Tables' /\ OneDeliveryPerId' /\ clock' \in Nat
  BY <1>1 DEF IInv, Tables, OneDeliveryPerId, HasTransportReceipt
<1>5. PubStep
  BY <1>1, PubSame DEF IInv
<1> QED BY <1>1, <1>3, <1>4, <1>5 DEF Shown

\* Maintenance of a row that is due writes a new revision.
LEMMA MaintainedIsNew ==
    ASSUME NEW d \in Delivery, RowInv(d), NEW t \in Nat, ExpiryDue(d, t) \/ LeaseDue(d, t)
    PROVE  Maintained(d, t) # dlv[d]
<1>1. dlv[d] \in DeliveryRecord /\ dlv[d].rev \in Nat
  BY DEF RowInv, RowTypeOK, DeliveryRecord
<1>2. ASSUME NEW status \in {"pending", "acknowledged", "expired", "dead_lettered"},
             NEW avail \in Nat, NEW failure \in Failure
      PROVE  Moved(dlv[d], status, t, avail, failure) # dlv[d]
  <2>1. status \in Status
    BY DEF Status, Live, Terminal
  <2>2. Moved(dlv[d], status, t, avail, failure).rev = dlv[d].rev + 1
    BY <1>1, <2>1, MovedFields
  <2> QED BY <1>1, <2>2
<1>3. "none" \in Failure /\ "attempts_exhausted" \in Failure
  BY DEF Failure
<1>4. Acknowledged(dlv[d], t) # dlv[d]
  BY <1>2, <1>3, MaintenanceMoves
<1>5. ExpiredRow(d, dlv[d], t) # dlv[d]
  BY <1>2, <1>3, <1>4, MaintenanceMoves
<1>6. ReclaimedRow(d, dlv[d], t) # dlv[d]
  <2>1. CASE Delivered(d, dlv[d])
    BY <1>4, <2>1, MaintenanceMoves
  <2>2. CASE ~Delivered(d, dlv[d])
    <3>1. PICK avail \in Nat :
            \/ ReclaimedRow(d, dlv[d], t) = Moved(dlv[d], "expired", t, avail, "none")
            \/ ReclaimedRow(d, dlv[d], t) = Moved(dlv[d], "pending", t, avail, "none")
            \/ ReclaimedRow(d, dlv[d], t) =
                    Moved(dlv[d], "dead_lettered", t, avail, "attempts_exhausted")
      BY <2>2, MaintenanceMoves
    <3> QED BY <1>2, <1>3, <3>1
  <2> QED BY <2>1, <2>2
<1> QED BY <1>5, <1>6 DEF Maintained

\* A claim: due rows are maintained, and the selected ones leased.
LEMMA ClaimShown ==
    ASSUME IInv, NEW Q, NEW S, NEW t \in Samples, S \subseteq Claimable(Q, t),
           MaintainAndLease(S, t)
    PROVE  Shown /\ ops' = ops
<1>1. /\ \A d \in S : LeaseWindow(d, t)
      /\ dlv' = [d \in Delivery |->
            IF d \in S THEN Leased(Maintained(d, t), t) ELSE Maintained(d, t)]
      /\ attempts' = [d \in Delivery |->
            IF d \in S THEN Append(attempts[d], LeaseUntil(Maintained(d, t), t))
                       ELSE attempts[d]]
      /\ lastEvent' = [d \in Delivery |->
            IF d \in S THEN "leased"
            ELSE IF Maintained(d, t) # dlv[d] THEN EventOf(Maintained(d, t).status)
            ELSE lastEvent[d]]
      /\ UNCHANGED <<pub, transport, ops, allocator, clock>>
  BY DEF MaintainAndLease
<1>2. t \in Nat
  BY SampleIsTime DEF IInv
<1>3. ASSUME NEW d \in Delivery PROVE Fate(d)
  <2>1. CASE d \in S
    <3>1. /\ Published(d) /\ Maintained(d, t).status = "pending"
          /\ Maintained(d, t).gen < MaxAttempts /\ ~HasTransportReceipt(d)
      BY <2>1 DEF Claimable
    <3>2. Public(d)
      BY <1>1, <3>1, StaysPublic
    <3>3. /\ LeaseWindow(d, t) /\ dlv'[d] = Leased(Maintained(d, t), t)
          /\ lastEvent'[d] = "leased" /\ transport'[d] = transport[d]
          /\ attempts'[d] = Append(attempts[d], LeaseUntil(Maintained(d, t), t))
      BY <1>1, <2>1
    <3> QED BY <1>2, <3>1, <3>2, <3>3 DEF Leases, Fate
  <2>2. CASE d \notin S
    <3>1. /\ dlv'[d] = Maintained(d, t)
          /\ lastEvent'[d] = IF Maintained(d, t) # dlv[d] THEN EventOf(Maintained(d, t).status)
                             ELSE lastEvent[d]
          /\ attempts'[d] = attempts[d] /\ transport'[d] = transport[d]
      BY <1>1, <2>2
    <3>2. CASE ExpiryDue(d, t)
      <4>1. Maintained(d, t) = ExpiredRow(d, dlv[d], t) /\ Maintained(d, t) # dlv[d]
        BY <1>2, <3>2, MaintainedIsNew DEF Maintained, IInv
      <4>2. Row(d, ExpiredRow(d, dlv[d], t), EventOf(ExpiredRow(d, dlv[d], t).status))
        BY <3>1, <4>1 DEF Row
      <4>3. Public(d)
        BY <1>1, <3>2, StaysPublic DEF ExpiryDue
      <4> QED BY <1>2, <3>2, <4>2, <4>3 DEF Expires, Fate
    <3>3. CASE ~ExpiryDue(d, t) /\ LeaseDue(d, t)
      <4>1. Maintained(d, t) = ReclaimedRow(d, dlv[d], t) /\ Maintained(d, t) # dlv[d]
        BY <1>2, <3>3, MaintainedIsNew DEF Maintained, IInv
      <4>2. Row(d, ReclaimedRow(d, dlv[d], t), EventOf(ReclaimedRow(d, dlv[d], t).status))
        BY <3>1, <4>1 DEF Row
      <4>3. Public(d)
        BY <1>1, <3>3, StaysPublic DEF LeaseDue
      <4> QED BY <1>2, <3>3, <4>2, <4>3 DEF Reclaims, Fate
    <3>4. CASE ~ExpiryDue(d, t) /\ ~LeaseDue(d, t)
      <4>1. Maintained(d, t) = dlv[d]
        BY <3>4 DEF Maintained
      <4>2. Row(d, dlv[d], lastEvent[d])
        BY <3>1, <4>1 DEF Row
      <4> QED BY <1>1, <4>2, UntouchedRests
    <3> QED BY <3>2, <3>3, <3>4
  <2> QED BY <2>1, <2>2
<1>4. Tables' /\ OneDeliveryPerId' /\ clock' \in Nat
  BY <1>1 DEF IInv, Tables, OneDeliveryPerId, HasTransportReceipt
<1>5. PubStep
  BY <1>1, PubSame DEF IInv
<1> QED BY <1>1, <1>3, <1>4, <1>5 DEF Shown

-----------------------------------------------------------------------------
(* Receipt operations. *)

\* What a recorded transition does to the tables, but for its result.
LEMMA SettleShown ==
    ASSUME IInv, NEW d \in Delivery, NEW g, NEW key, NEW rec, NEW event,
           Settle(d, g, key, rec, event)
    PROVE  /\ Row(d, rec, event) /\ pub' = pub
           /\ Fate(d) => Shown
           /\ ops' = ops \cup {OperationResult(d, g, key, rec)}
<1>1. /\ dlv' = [dlv EXCEPT ![d] = rec] /\ lastEvent' = [lastEvent EXCEPT ![d] = event]
      /\ ops' = ops \cup {OperationResult(d, g, key, rec)}
      /\ UNCHANGED <<pub, attempts, transport, allocator, clock>>
  BY DEF Settle
<1>2. /\ DOMAIN dlv = Delivery /\ DOMAIN lastEvent = Delivery
  BY DEF IInv, Tables
<1>3. Row(d, rec, event)
  BY <1>1, <1>2 DEF Row
<1>4. ASSUME NEW e \in Delivery \ {d} PROVE Fate(e)
  BY <1>1, <1>2, UntouchedRests DEF Row
<1>5. Tables' /\ OneDeliveryPerId' /\ clock' \in Nat
  BY <1>1 DEF IInv, Tables, OneDeliveryPerId, HasTransportReceipt
<1>6. PubStep
  BY <1>1, PubSame DEF IInv
<1> QED BY <1>1, <1>3, <1>4, <1>5, <1>6 DEF Shown

\* A recorded result may be added when it agrees with the row as it is now,
\* and with the results recorded before.
LEMMA RecordShown ==
    ASSUME NEW d \in Delivery, RowInv(d), Fate(d), NEW g \in Receipts(d), NEW key, NEW o,
           o = OperationResult(d, g, key, dlv'[d]), ops' = ops \cup {o},
           dlv'[d].status \in ResultStatus(key.kind),
           key.kind = "reply" =>
               /\ key.arg \in Message /\ pub'[key.arg].status = "published"
               /\ pub'[key.arg].replyTo = MessageOf[d],
           key.kind \in NackKinds => Refused(d)',
           \/ key.kind \in AckKinds /\ (dlv'[d].gen = g => Undecided(d, g, NackKinds))
           \/ key.kind \in NackKinds /\ Undecided(d, g, AckKinds)
           \/ key.kind \notin AckKinds \cup NackKinds,
           g # dlv[d].gen => dlv'[d] = dlv[d]
    PROVE  OpsStep
<1>1. Kept(d)
  BY FateKeeps
<1>2. /\ dlv'[d].gen \in Nat /\ dlv'[d].rev \in Nat /\ dlv'[d].status \in Status
      /\ dlv[d].gen \in Nat
  BY <1>1 DEF Kept, RowInv, RowTypeOK, DeliveryRecord
<1>3. dlv'[d].gen >= dlv[d].gen
  BY <1>1, <1>2 DEF Kept, RowStep
<1>4. g \in Nat /\ 0 < g /\ g <= dlv'[d].gen
  BY <1>2, <1>3, ReceiptIsOfAttempt
<1>5. /\ o.dlv = d /\ o.gen = g /\ o.key = key /\ o.status = dlv'[d].status
      /\ o.resultGen = dlv'[d].gen /\ o.resultRev = dlv'[d].rev
  BY DEF OperationResult
<1>6. ResultInv(o)'
  <2>1. o.resultRev <= dlv'[o.dlv].rev
    BY <1>2, <1>5
  <2> QED BY <1>2, <1>4, <1>5, <2>1 DEF ResultInv
<1>7. NewResult(o)
  BY <1>5, <1>6 DEF NewResult
<1> QED BY <1>7 DEF OpsStep

\* The kinds of results.
LEMMA KindsOfResults ==
    /\ ResultStatus("renew") = HoldsLease
    /\ ResultStatus("delivered") = {"delivered"}
    /\ ResultStatus("acknowledged") = {"acknowledged"}
    /\ ResultStatus("reply") = {"acknowledged"}
    /\ ResultStatus("nack_retry") = {"pending", "dead_lettered"}
    /\ ResultStatus("nack_permanent") = {"dead_lettered"}
BY DEF ResultStatus, AckKinds

\* renew: recorded whether or not it extends the lease.
LEMMA RenewShown ==
    ASSUME IInv, NEW d \in Delivery, NEW g \in Receipts(d), NEW op, NEW t \in Samples,
           Renew(d, g, op, t)
    PROVE  Shown /\ OpsStep
<1>1. PICK key, until, now : key = Key("renew", op) /\ now = Now(d, t) /\ until = now + LeaseTicks
  OBVIOUS
<1>2. /\ dlv[d].gen = g /\ dlv[d].status \in HoldsLease
      /\ dlv[d].expires = 0 \/ until <= dlv[d].expires
  BY <1>1 DEF Renew, IsCurrent, RequireLiveState
<1>3. dlv[d].updated \in Nat /\ t \in Nat /\ RowInv(d) /\ dlv[d] \in DeliveryRecord
  BY SampleIsTime DEF IInv, RowInv, RowTypeOK, DeliveryRecord
<1>4. now \in Nat /\ until \in Nat /\ until > now /\ now >= dlv[d].updated
  BY <1>1, <1>3, BoundAssumption DEF Now, Later
<1>5. key.kind = "renew"
  BY <1>1 DEF Key
<1>6. Published(d)
  BY <1>2, <1>3, InUseIsPublic DEF HoldsLease
<1>7. PICK rec, event :
        /\ Settle(d, g, key, rec, event)
        /\ \/ rec = dlv[d] /\ event = lastEvent[d]
           \/ /\ rec = [dlv[d] EXCEPT !.lease = until, !.rev = @ + 1, !.updated = now]
              /\ event = "lease_renewed"
  BY <1>1 DEF Renew
<1>8. Row(d, rec, event) /\ pub' = pub /\ (Fate(d) => Shown)
      /\ ops' = ops \cup {OperationResult(d, g, key, rec)}
  BY <1>7, SettleShown
<1>9. Fate(d)
  <2>1. CASE rec = dlv[d] /\ event = lastEvent[d]
    BY <1>8, <2>1, UntouchedRests
  <2>2. CASE /\ rec = [dlv[d] EXCEPT !.lease = until, !.rev = @ + 1, !.updated = now]
             /\ event = "lease_renewed"
    <3>1. Public(d)
      BY <1>6, <1>8, StaysPublic
    <3>2. Row(d, [dlv[d] EXCEPT !.lease = until, !.rev = @ + 1, !.updated = now],
              "lease_renewed")
      BY <1>8, <2>2
    <3> QED BY <1>2, <1>4, <3>1, <3>2 DEF Renews, Fate
  <2> QED BY <1>7, <2>1, <2>2
<1>10. dlv'[d] = rec /\ rec.status = dlv[d].status
  BY <1>3, <1>7, <1>8 DEF Row, DeliveryRecord
<1>11. OpsStep
  <2>1. PICK o : o = OperationResult(d, g, key, rec)
    OBVIOUS
  <2>2. dlv'[d].status \in ResultStatus(key.kind)
    BY <1>2, <1>5, <1>10, KindsOfResults
  <2>3. key.kind # "reply" /\ key.kind \notin AckKinds \cup NackKinds
    BY <1>5 DEF AckKinds, NackKinds
  <2> QED BY <1>2, <1>3, <1>8, <1>9, <1>10, <2>1, <2>2, <2>3, RecordShown
<1> QED BY <1>8, <1>9, <1>11

\* mark_delivered.
LEMMA MarkDeliveredShown ==
    ASSUME IInv, NEW d \in Delivery, NEW g \in Receipts(d), NEW t \in Samples,
           MarkDelivered(d, g, t)
    PROVE  Shown /\ OpsStep
<1>1. PICK key, rec, o : /\ key = Key("delivered", 0) /\ rec = Reached(dlv[d], t)
                         /\ o = OperationResult(d, g, key, rec)
  OBVIOUS
<1>2. dlv[d].gen = g /\ dlv[d].status = "leased" /\ Settle(d, g, key, rec, "delivered")
  BY <1>1 DEF MarkDelivered, IsCurrent, RequireLiveState
<1>3. t \in Nat /\ RowInv(d) /\ dlv[d] \in DeliveryRecord
  BY SampleIsTime DEF IInv, RowInv, RowTypeOK
<1>4. Row(d, rec, "delivered") /\ pub' = pub /\ (Fate(d) => Shown) /\ ops' = ops \cup {o}
  BY <1>1, <1>2, SettleShown
<1>5. Public(d)
  BY <1>2, <1>3, <1>4, InUseIsPublic, StaysPublic
<1>6. Fate(d)
  BY <1>1, <1>2, <1>3, <1>4, <1>5 DEF Delivers, Fate
<1>7. dlv'[d] = rec /\ rec.status = "delivered"
  <2>1. Reached(dlv[d], t).status = "delivered"
    BY <1>3, ReachedFields
  <2> QED BY <1>1, <1>4, <2>1 DEF Row
<1>8. key.kind = "delivered"
  BY <1>1 DEF Key
<1>9. dlv'[d].status \in ResultStatus(key.kind)
  BY <1>7, <1>8, KindsOfResults
<1>10. key.kind # "reply" /\ key.kind \notin AckKinds \cup NackKinds
  BY <1>8 DEF AckKinds, NackKinds
<1>11. OpsStep
  BY <1>1, <1>2, <1>3, <1>4, <1>6, <1>7, <1>9, <1>10, RecordShown
<1> QED BY <1>4, <1>6, <1>11

\* mark_transport_delivered: the receipt names an identity no other has.
LEMMA ConfirmShown ==
    ASSUME IInv, NEW d \in Delivery, NEW g \in Receipts(d), NEW x \in ExternalId,
           NEW t \in Samples, MarkTransportDelivered(d, g, x, t)
    PROVE  Shown /\ ops' = ops
<1>1. /\ ~HasTransportReceipt(d) /\ dlv[d].gen = g
      /\ \A e \in Delivery : transport[e].id # x
      /\ \/ dlv[d].status = "leased"
         \/ dlv[d].status = "pending" /\ lastEvent[d] = "reclaimed"
      /\ transport' = [transport EXCEPT ![d] = [gen |-> g, id |-> x]]
      /\ lastEvent' = [lastEvent EXCEPT ![d] = "delivered"]
      /\ UNCHANGED <<pub, attempts, ops, allocator, clock>>
  BY DEF MarkTransportDelivered, IsCurrent
<1>2. dlv' = [dlv EXCEPT ![d] =
         [Reached(dlv[d], t) EXCEPT !.lease = IF @ # 0 THEN @ ELSE attempts[d][g]]]
  BY DEF MarkTransportDelivered
<1>3. /\ DOMAIN dlv = Delivery /\ DOMAIN lastEvent = Delivery
      /\ DOMAIN transport = Delivery /\ DOMAIN attempts = Delivery
  BY DEF IInv, Tables
<1>4. t \in Nat /\ RowInv(d) /\ dlv[d].gen > 0
  BY <1>1, SampleIsTime, ReceiptIsOfAttempt DEF IInv
<1>5. Public(d)
  BY <1>1, <1>4, InUseIsPublic, StaysPublic
<1>6. Confirms(d)
  <2>1. dlv'[d] = [Reached(dlv[d], t) EXCEPT
                      !.lease = IF @ # 0 THEN @ ELSE attempts[d][dlv[d].gen]]
    BY <1>1, <1>2, <1>3
  <2>2. /\ lastEvent'[d] = "delivered" /\ attempts'[d] = attempts[d]
        /\ transport'[d] = [gen |-> dlv[d].gen, id |-> x]
    BY <1>1, <1>3
  <2> QED BY <1>1, <1>4, <1>5, <2>1, <2>2 DEF Confirms
<1>7. ASSUME NEW e \in Delivery \ {d} PROVE Fate(e)
  BY <1>1, <1>2, <1>3, UntouchedRests DEF Row
<1>8. OneDeliveryPerId'
  <2>1. transport'[d].id = x
    BY <1>1, <1>3
  <2>2. \A e \in Delivery \ {d} : transport'[e] = transport[e]
    BY <1>1, <1>3
  <2> QED BY <1>1, <2>1, <2>2 DEF IInv, OneDeliveryPerId, HasTransportReceipt
<1>9. Tables'
  BY <1>1, <1>2 DEF IInv, Tables
<1>10. PubStep /\ clock' \in Nat
  BY <1>1, PubSame DEF IInv
<1> QED BY <1>1, <1>6, <1>7, <1>8, <1>9, <1>10 DEF Shown, Fate

\* acknowledge_in_transaction, or the record of a late acknowledgement.
LEMMA AcknowledgeShown ==
    ASSUME IInv, NEW d \in Delivery, NEW g \in Receipts(d), NEW t \in Samples,
           Acknowledge(d, g, t)
    PROVE  Shown /\ OpsStep
<1>1. PICK key : key = Key("acknowledged", 0)
  OBVIOUS
<1>2. key.kind = "acknowledged"
  BY <1>1 DEF Key
<1>3. key.kind # "reply" /\ key.kind \in AckKinds /\ key.kind \notin NackKinds
  BY <1>2 DEF AckKinds, NackKinds
<1>4. t \in Nat /\ RowInv(d) /\ dlv[d] \in DeliveryRecord
  BY SampleIsTime DEF IInv, RowInv, RowTypeOK
<1>5. CASE dlv[d].status = "acknowledged" /\ Settle(d, g, key, dlv[d], lastEvent[d])
  <2>1. PICK rec, event, o : /\ rec = dlv[d] /\ event = lastEvent[d]
                             /\ o = OperationResult(d, g, key, rec)
    OBVIOUS
  <2>2. Row(d, rec, event) /\ pub' = pub /\ (Fate(d) => Shown) /\ ops' = ops \cup {o}
    BY <1>5, <2>1, SettleShown
  <2>3. Fate(d) /\ dlv'[d] = dlv[d]
    BY <2>1, <2>2, UntouchedRests DEF Row
  <2>4. dlv[d].gen = g => Undecided(d, g, NackKinds)
    <3>1. ~Refused(d)
      BY <1>5 DEF Refused
    <3> QED BY <3>1 DEF IInv, OpsInv, ResultInv, Undecided
  <2>5. dlv'[d].status \in ResultStatus(key.kind)
    BY <1>2, <1>5, <2>3, KindsOfResults
  <2>6. OpsStep
    BY <1>3, <1>4, <2>1, <2>2, <2>3, <2>4, <2>5, RecordShown
  <2> QED BY <2>2, <2>3, <2>6
<1>6. CASE /\ dlv[d].gen = g /\ Undecided(d, g, NackKinds) /\ dlv[d].status = "delivered"
           /\ Settle(d, g, key, Acknowledged(dlv[d], t), "acknowledged")
  <2>1. PICK rec, o : rec = Acknowledged(dlv[d], t) /\ o = OperationResult(d, g, key, rec)
    OBVIOUS
  <2>2. Row(d, rec, "acknowledged") /\ pub' = pub /\ (Fate(d) => Shown) /\ ops' = ops \cup {o}
    BY <1>6, <2>1, SettleShown
  <2>3. Public(d)
    BY <1>4, <1>6, <2>2, InUseIsPublic, StaysPublic
  <2>4. Fate(d)
    BY <1>4, <1>6, <2>1, <2>2, <2>3 DEF Accepts, Fate
  <2>5. dlv'[d] = rec /\ rec.status = "acknowledged"
    <3>1. Acknowledged(dlv[d], t).status = "acknowledged"
      BY <1>4 DEF Acknowledged, Moved, DeliveryRecord
    <3> QED BY <2>1, <2>2, <3>1 DEF Row
  <2>6. dlv'[d].status \in ResultStatus(key.kind)
    BY <1>2, <2>5, KindsOfResults
  <2>7. OpsStep
    BY <1>3, <1>4, <1>6, <2>1, <2>2, <2>4, <2>5, <2>6, RecordShown
  <2> QED BY <2>2, <2>4, <2>7
<1> QED BY <1>1, <1>5, <1>6
        DEF Acknowledge, IsCurrent, MayAcknowledge, Delivered, RequireLiveState

\* nack, retryable or permanent: the refusal shows in the row.
LEMMA RefuseShown ==
    ASSUME IInv, NEW d \in Delivery, NEW g \in Receipts(d), NEW key, NEW t \in Samples,
           key.kind \in NackKinds, Nackable(d, g, key, t), NEW rec, NEW event, NEW avail \in Nat,
           Settle(d, g, key, rec, event),
           \/ /\ dlv[d].gen < MaxAttempts /\ key.kind = "nack_retry"
              /\ rec = Moved(dlv[d], "pending", t, avail, "none") /\ event = "nacked"
           \/ /\ event = "dead_lettered"
              /\ \E failure \in {"attempts_exhausted", "permanent"} :
                    rec = Moved(dlv[d], "dead_lettered", t, avail, failure)
    PROVE  Shown /\ OpsStep
<1>1. /\ dlv[d].gen = g /\ Undecided(d, g, AckKinds) /\ dlv[d].status \in HoldsLease
      /\ ~HasTransportReceipt(d)
  BY DEF Nackable, IsCurrent, RequireLiveState
<1>2. t \in Nat /\ RowInv(d) /\ dlv[d] \in DeliveryRecord
  BY SampleIsTime DEF IInv, RowInv, RowTypeOK
<1>3. PICK o : o = OperationResult(d, g, key, rec)
  OBVIOUS
<1>4. Row(d, rec, event) /\ pub' = pub /\ (Fate(d) => Shown) /\ ops' = ops \cup {o}
  BY <1>3, SettleShown
<1>5. Public(d)
  <2>1. Published(d)
    BY <1>1, <1>2, InUseIsPublic DEF HoldsLease
  <2> QED BY <1>4, <2>1, StaysPublic
<1>6. Fate(d)
  <2>1. Refuses(d)
    BY <1>1, <1>2, <1>4, <1>5 DEF Refuses
  <2> QED BY <2>1 DEF Fate
<1>7. /\ dlv'[d] = rec /\ lastEvent'[d] = event
      /\ \/ rec.status = "pending" /\ event = "nacked" /\ key.kind = "nack_retry"
         \/ rec.status = "dead_lettered"
  <2>1. \A status \in Status, failure \in Failure :
            Moved(dlv[d], status, t, avail, failure).status = status
    BY <1>2, MovedFields
  <2>2. /\ "pending" \in Status /\ "dead_lettered" \in Status /\ "none" \in Failure
        /\ "attempts_exhausted" \in Failure /\ "permanent" \in Failure
    BY DEF Status, Live, Terminal, Failure
  <2> QED BY <1>4, <2>1, <2>2 DEF Row
<1>8. Refused(d)'
  BY <1>7 DEF Refused
<1>9. dlv'[d].status \in ResultStatus(key.kind)
  BY <1>7, KindsOfResults DEF NackKinds
<1>10. key.kind # "reply" /\ key.kind \notin AckKinds
  BY DEF NackKinds, AckKinds
<1>11. OpsStep
  BY <1>1, <1>2, <1>3, <1>4, <1>6, <1>7, <1>8, <1>9, <1>10, RecordShown
<1> QED BY <1>4, <1>6, <1>11

\* nack with a delay: the row waits again, or its attempts are used up.
LEMMA NackRetryShown ==
    ASSUME IInv, NEW d \in Delivery, NEW g \in Receipts(d), NEW delay \in Delays,
           NEW t \in Samples, NackRetry(d, g, delay, t)
    PROVE  Shown /\ OpsStep
<1>1. PICK key, again : key = Key("nack_retry", delay) /\ again = Now(d, t) + delay
  OBVIOUS
<1>2. key.kind = "nack_retry" /\ key.kind \in NackKinds
  BY <1>1 DEF Key, NackKinds
<1>3. t \in Nat /\ dlv[d].updated \in Nat /\ dlv[d].avail \in Nat
  BY SampleIsTime DEF IInv, RowInv, RowTypeOK, DeliveryRecord
<1>4. again \in Nat
  BY <1>1, <1>3, BoundAssumption DEF Now, Later
<1>5. CASE /\ Nackable(d, g, key, t) /\ dlv[d].gen < MaxAttempts
           /\ Settle(d, g, key, Moved(dlv[d], "pending", t, again, "none"), "nacked")
  <2>1. PICK rec : rec = Moved(dlv[d], "pending", t, again, "none")
    OBVIOUS
  <2> QED BY <1>2, <1>4, <1>5, <2>1, RefuseShown
<1>6. CASE /\ Nackable(d, g, key, t)
           /\ Settle(d, g, key, Moved(dlv[d], "dead_lettered", t, dlv[d].avail,
                                      "attempts_exhausted"), "dead_lettered")
  <2>1. PICK avail \in Nat : avail = dlv[d].avail
    BY <1>3
  <2>2. PICK rec : rec = Moved(dlv[d], "dead_lettered", t, avail, "attempts_exhausted")
    OBVIOUS
  <2> QED BY <1>2, <1>6, <2>1, <2>2, RefuseShown
<1> QED BY <1>1, <1>5, <1>6 DEF NackRetry

\* nack for good.
LEMMA NackPermanentShown ==
    ASSUME IInv, NEW d \in Delivery, NEW g \in Receipts(d), NEW t \in Samples,
           NackPermanent(d, g, t)
    PROVE  Shown /\ OpsStep
<1>1. PICK key : key = Key("nack_permanent", 0)
  OBVIOUS
<1>2. key.kind = "nack_permanent" /\ key.kind \in NackKinds
  BY <1>1 DEF Key, NackKinds
<1>3. dlv[d].avail \in Nat
  BY DEF IInv, RowInv, RowTypeOK, DeliveryRecord
<1>4. PICK avail \in Nat : avail = dlv[d].avail
  BY <1>3
<1>5. PICK rec : rec = Moved(dlv[d], "dead_lettered", t, avail, "permanent")
  OBVIOUS
<1>6. Nackable(d, g, key, t) /\ Settle(d, g, key, rec, "dead_lettered")
  BY <1>1, <1>4, <1>5 DEF NackPermanent
<1> QED BY <1>2, <1>5, <1>6, RefuseShown

\* cancel.
LEMMA CancelShown ==
    ASSUME IInv, NEW d \in Delivery, NEW t \in Samples, Cancel(d, t)
    PROVE  Shown /\ ops' = ops
<1>1. PICK avail : avail = Now(d, t)
  OBVIOUS
<1>2. /\ Published(d) /\ dlv[d].status \in Live /\ ~HasTransportReceipt(d)
      /\ dlv' = [dlv EXCEPT ![d] = Moved(dlv[d], "cancelled", t, avail, "none")]
      /\ lastEvent' = [lastEvent EXCEPT ![d] = "cancelled"]
      /\ UNCHANGED <<pub, attempts, transport, ops, allocator, clock>>
  BY <1>1 DEF Cancel
<1>3. t \in Nat /\ dlv[d].updated \in Nat
  BY SampleIsTime DEF IInv, RowInv, RowTypeOK, DeliveryRecord
<1>4. avail \in Nat
  BY <1>1, <1>3 DEF Now, Later
<1>5. DOMAIN dlv = Delivery /\ DOMAIN lastEvent = Delivery
  BY DEF IInv, Tables
<1>6. Cancels(d)
  <2>1. Row(d, Moved(dlv[d], "cancelled", t, avail, "none"), "cancelled")
    BY <1>2, <1>5 DEF Row
  <2>2. Public(d)
    BY <1>2, StaysPublic
  <2> QED BY <1>2, <1>3, <1>4, <2>1, <2>2 DEF Cancels
<1>7. ASSUME NEW e \in Delivery \ {d} PROVE Fate(e)
  BY <1>2, <1>5, UntouchedRests DEF Row
<1>8. Tables' /\ OneDeliveryPerId' /\ clock' \in Nat
  BY <1>2 DEF IInv, Tables, OneDeliveryPerId, HasTransportReceipt
<1>9. PubStep
  BY <1>2, PubSame DEF IInv
<1> QED BY <1>2, <1>6, <1>7, <1>8, <1>9 DEF Shown, Fate

\* reply_and_acknowledge: the reply is inserted, unless it already was, and
\* the row accepted.
LEMMA ReplyShown ==
    ASSUME IInv, NEW d \in Delivery, NEW g \in Receipts(d), NEW m \in Message,
           NEW delay \in Delays, NEW life \in Lifetimes, NEW t \in Samples,
           ReplyAndAck(d, g, m, delay, life, t)
    PROVE  Shown /\ OpsStep
<1>1. PICK key, acked, now, o :
        /\ key = Key("reply", m) /\ acked = Acknowledged(dlv[d], t) /\ now = Now(d, t)
        /\ o = OperationResult(d, g, key, acked)
  OBVIOUS
<1>2. key.kind = "reply" /\ key.arg = m
  BY <1>1 DEF Key
<1>3. key.kind \in AckKinds /\ key.kind \notin NackKinds
  BY <1>2 DEF AckKinds, NackKinds
<1>4. /\ dlv[d].gen = g /\ Undecided(d, g, NackKinds) /\ dlv[d].status = "delivered"
      /\ ops' = ops \cup {o}
      /\ UNCHANGED <<attempts, transport, clock>>
  BY <1>1 DEF ReplyAndAck, IsCurrent, RequireLiveState
<1>5. t \in Nat /\ RowInv(d) /\ dlv[d] \in DeliveryRecord /\ dlv[d].updated \in Nat
  BY SampleIsTime DEF IInv, RowInv, RowTypeOK, DeliveryRecord
<1>6. now \in Nat
  BY <1>1, <1>5 DEF Now, Later
<1>7. Published(d) /\ MessageOf[d] \in Message
  BY <1>4, <1>5, InUseIsPublic, MessageExists
<1>8. acked.status = "acknowledged"
  BY <1>1, <1>5 DEF Acknowledged, Moved, DeliveryRecord
<1>9. ASSUME /\ PubStep /\ pub'[m].status = "published" /\ pub'[m].replyTo = MessageOf[d]
             /\ pub'[MessageOf[d]] = pub[MessageOf[d]]
             /\ dlv'[d] = acked /\ lastEvent'[d] = "acknowledged" /\ Tables'
             /\ \A e \in Delivery \ {d} : Fate(e)
      PROVE  Shown /\ OpsStep
  <2>1. Row(d, Acknowledged(dlv[d], t), "acknowledged")
    BY <1>1, <1>4, <1>9 DEF Row
  <2>2. Public(d)
    BY <1>7, <1>9 DEF Public, Published
  <2>3. Fate(d)
    BY <1>4, <1>5, <2>1, <2>2 DEF Accepts, Fate
  <2>4. OneDeliveryPerId' /\ clock' \in Nat
    BY <1>4 DEF IInv, OneDeliveryPerId, HasTransportReceipt
  <2>5. dlv'[d].status \in ResultStatus(key.kind)
    BY <1>2, <1>8, <1>9, KindsOfResults
  <2>6. OpsStep
    BY <1>1, <1>2, <1>3, <1>4, <1>5, <1>9, <2>3, <2>5, RecordShown
  <2> QED BY <1>9, <2>3, <2>4, <2>6 DEF Shown
<1>10. CASE /\ InsertPublished(m, delay, life, MessageOf[d])
            /\ dlv' = [NewDeliveries(m, delay, life, now) EXCEPT ![d] = acked]
            /\ lastEvent' = [e \in Delivery |->
                 IF e \in DeliveriesOf(m) THEN "enqueued"
                 ELSE IF e = d THEN "acknowledged" ELSE lastEvent[e]]
  <2>1. /\ PubStep /\ pub[m].status = "absent"
        /\ pub'[m].status = "published" /\ pub'[m].replyTo = MessageOf[d]
        /\ \A n \in Message \ {m} : pub'[n] = pub[n]
    BY <1>7, <1>10, InsertShown DEF IInv
  <2>2. MessageOf[d] # m
    BY <1>7, <2>1 DEF Published
  <2>3. d \notin DeliveriesOf(m)
    BY <2>2 DEF DeliveriesOf
  <2>4. /\ dlv'[d] = acked /\ lastEvent'[d] = "acknowledged"
        /\ \A e \in Delivery \ {d} : dlv'[e] = NewDeliveries(m, delay, life, now)[e]
    BY <1>10, <2>3 DEF NewDeliveries
  <2>5. ASSUME NEW e \in Delivery \ {d} PROVE Fate(e)
    <3>1. /\ dlv'[e] = NewDeliveries(m, delay, life, now)[e]
          /\ lastEvent'[e] = IF e \in DeliveriesOf(m) THEN "enqueued" ELSE lastEvent[e]
          /\ attempts'[e] = attempts[e] /\ transport'[e] = transport[e]
      BY <1>4, <1>10, <2>4
    <3> QED BY <1>6, <2>1, <3>1, NewRows
  <2>6. Tables'
    BY <1>4, <1>10 DEF IInv, Tables, NewDeliveries
  <2> QED BY <1>7, <1>9, <2>1, <2>2, <2>4, <2>5, <2>6
<1>11. CASE /\ ExistingReply(d, m) /\ dlv' = [dlv EXCEPT ![d] = acked]
            /\ lastEvent' = [lastEvent EXCEPT ![d] = "acknowledged"]
            /\ UNCHANGED <<pub, allocator>>
  <2>1. PubStep /\ pub' = pub
    BY <1>11, PubSame DEF IInv
  <2>2. pub[m].status = "published" /\ pub[m].replyTo = MessageOf[d]
    BY <1>11 DEF ExistingReply, IInv, PubInv, OrdinaryIsPublic
  <2>3. DOMAIN dlv = Delivery /\ DOMAIN lastEvent = Delivery
    BY DEF IInv, Tables
  <2>4. /\ dlv'[d] = acked /\ lastEvent'[d] = "acknowledged"
    BY <1>11, <2>3
  <2>5. ASSUME NEW e \in Delivery \ {d} PROVE Fate(e)
    BY <1>4, <1>11, <2>1, <2>3, UntouchedRests DEF Row
  <2>6. Tables'
    BY <1>4, <1>11 DEF IInv, Tables
  <2> QED BY <1>9, <2>1, <2>2, <2>4, <2>5, <2>6
<1> QED BY <1>1, <1>10, <1>11 DEF ReplyAndAck

-----------------------------------------------------------------------------
(* The invariant and what follows from it. *)

\* What every step of the store shows.
StoreStep ==
    Shown /\ OpsStep

\* Every action shows it, and so does a step that changes nothing.
LEMMA NextShown ==
    ASSUME IInv, [Next]_vars
    PROVE  StoreStep
<1>1. ASSUME Shown, ops' = ops PROVE StoreStep
  BY <1>1 DEF StoreStep, OpsStep
<1>2. CASE Publication
  <2>1. PICK m \in Message, t \in Samples :
          \/ \E delay \in Delays, life \in Lifetimes, replyTo \in Message \cup {NoMessage} :
               \/ Enqueue(m, delay, life, replyTo, t)
               \/ Stage(m, delay, life, replyTo, t)
          \/ PublishStaged(m, t)
          \/ DiscardStaged(m)
    BY <1>2 DEF Publication
  <2> QED BY <1>1, <2>1, EnqueueShown, StageShown, PublishShown, DiscardShown
<1>3. CASE Maintenance
  BY <1>1, <1>3, ExpireShown, ReclaimShown DEF Maintenance
<1>4. CASE Consumption
  <2>1. PICK t \in Samples :
          \/ \E Q \in SUBSET Mailbox, S \in SUBSET Delivery : Claim(Q, S, t)
          \/ \E m \in Message, q \in Mailbox : ClaimMessage(m, q, t)
          \/ \E d \in Delivery : \E g \in Receipts(d) :
               \/ \E op \in RenewOp : Renew(d, g, op, t)
               \/ MarkDelivered(d, g, t)
               \/ \E x \in ExternalId : MarkTransportDelivered(d, g, x, t)
               \/ Acknowledge(d, g, t)
               \/ \E delay \in Delays : NackRetry(d, g, delay, t)
               \/ NackPermanent(d, g, t)
               \/ \E m \in Message, delay \in Delays, life \in Lifetimes :
                    ReplyAndAck(d, g, m, delay, life, t)
          \/ \E d \in Delivery : Cancel(d, t)
    BY <1>4 DEF Consumption
  <2>2. CASE \E Q \in SUBSET Mailbox, S \in SUBSET Delivery : Claim(Q, S, t)
    <3>1. PICK Q \in SUBSET Mailbox, S \in SUBSET Delivery : Claim(Q, S, t)
      BY <2>2
    <3>2. S \subseteq Claimable(Q, t) /\ MaintainAndLease(S, t)
      BY <3>1 DEF Claim
    <3> QED BY <1>1, <3>2, ClaimShown
  <2>3. CASE \E m \in Message, q \in Mailbox : ClaimMessage(m, q, t)
    <3>1. PICK m \in Message, q \in Mailbox : ClaimMessage(m, q, t)
      BY <2>3
    <3>2. PICK Q, S : Q = {q} /\ S = Claimable({q}, t) \cap DeliveriesOf(m)
      OBVIOUS
    <3>3. S \subseteq Claimable(Q, t) /\ MaintainAndLease(S, t)
      BY <3>1, <3>2 DEF ClaimMessage
    <3> QED BY <1>1, <3>3, ClaimShown
  <2>4. CASE \E d \in Delivery : Cancel(d, t)
    BY <1>1, <2>4, CancelShown
  <2>5. ASSUME NEW d \in Delivery, NEW g \in Receipts(d),
               \/ \E op \in RenewOp : Renew(d, g, op, t)
               \/ MarkDelivered(d, g, t)
               \/ \E x \in ExternalId : MarkTransportDelivered(d, g, x, t)
               \/ Acknowledge(d, g, t)
               \/ \E delay \in Delays : NackRetry(d, g, delay, t)
               \/ NackPermanent(d, g, t)
               \/ \E m \in Message, delay \in Delays, life \in Lifetimes :
                    ReplyAndAck(d, g, m, delay, life, t)
        PROVE  StoreStep
    BY <1>1, <2>5, RenewShown, MarkDeliveredShown, ConfirmShown, AcknowledgeShown,
       NackRetryShown, NackPermanentShown, ReplyShown DEF StoreStep
  <2> QED BY <2>1, <2>2, <2>3, <2>4, <2>5
<1>5. CASE Tick
  BY <1>1, <1>5, UnmovedShown DEF Tick, IInv
<1>6. CASE UNCHANGED vars
  BY <1>1, <1>6, UnmovedShown DEF vars, tables, IInv
<1> QED BY <1>2, <1>3, <1>4, <1>5, <1>6 DEF Next

\* A recorded result keeps agreeing with its row.
LEMMA ResultKept ==
    ASSUME NEW o, ResultInv(o), RowInv(o.dlv), Kept(o.dlv), PubStep
    PROVE  ResultInv(o)'
<1> DEFINE d == o.dlv
<1>1. /\ d \in Delivery /\ o.gen \in Nat /\ o.status \in Status
      /\ o.resultGen \in Nat /\ o.resultRev \in Nat
      /\ 0 < o.gen /\ o.gen <= dlv[d].gen
      /\ o.status \in ResultStatus(o.key.kind)
      /\ o.resultRev <= dlv[d].rev
  BY DEF ResultInv
<1>2. /\ dlv[d].gen \in Nat /\ dlv'[d].gen \in Nat /\ dlv[d].rev \in Nat /\ dlv'[d].rev \in Nat
  BY DEF Kept, RowInv, RowTypeOK, DeliveryRecord
<1>3. /\ dlv'[d].rev >= dlv[d].rev
      /\ dlv'[d].gen = dlv[d].gen \/ dlv'[d].gen = dlv[d].gen + 1
      /\ Refused(d) /\ dlv'[d].gen = dlv[d].gen => Refused(d)'
  BY DEF Kept, RowStep
<1>4. o.gen <= dlv'[d].gen /\ o.resultRev <= dlv'[d].rev
  BY <1>1, <1>2, <1>3
<1>5. o.key.kind = "reply" =>
         /\ o.key.arg \in Message /\ pub'[o.key.arg].status = "published"
         /\ pub'[o.key.arg].replyTo = MessageOf[d]
  BY DEF ResultInv, PubStep
<1>6. o.key.kind \in NackKinds /\ o.gen = dlv'[d].gen => Refused(d)'
  <2>1. o.gen = dlv'[d].gen => o.gen = dlv[d].gen /\ dlv'[d].gen = dlv[d].gen
    BY <1>1, <1>2, <1>3
  <2> QED BY <1>3, <2>1 DEF ResultInv
<1> QED BY <1>1, <1>4, <1>5, <1>6 DEF ResultInv

\* The recorded results stay sound.
LEMMA OpsKept ==
    ASSUME IInv, Shown, OpsStep, \A d \in Delivery : Kept(d)
    PROVE  OpsInv'
<1>1. PubStep
  BY DEF Shown
<1>2. ASSUME NEW o \in ops PROVE ResultInv(o)'
  <2>1. ResultInv(o) /\ o.dlv \in Delivery
    BY DEF IInv, OpsInv, ResultInv
  <2> QED BY <1>1, <2>1, ResultKept DEF IInv
<1>3. CASE ops' = ops
  BY <1>2, <1>3 DEF OpsInv, ResultsDecide, IInv
<1>4. ASSUME NEW o, NewResult(o), ops' = ops \cup {o} PROVE OpsInv'
  <2>1. \A p \in ops' : ResultInv(p)'
    BY <1>2, <1>4 DEF NewResult
  <2>2. ResultsDecide'
    <3>1. AckKinds \cap NackKinds = {}
      BY DEF AckKinds, NackKinds
    <3>2. SUFFICES ASSUME NEW a \in ops', NEW b \in ops', a.dlv = b.dlv, a.gen = b.gen,
                          a.resultGen = a.gen, b.resultGen = b.gen,
                          a.key.kind \in AckKinds, b.key.kind \in NackKinds
                   PROVE  FALSE
      BY DEF ResultsDecide
    <3>3. CASE a \in ops /\ b \in ops
      BY <3>2, <3>3 DEF IInv, OpsInv, ResultsDecide
    <3>4. CASE a = o /\ b \in ops
      BY <1>4, <3>1, <3>2, <3>4 DEF NewResult, Undecided
    <3>5. CASE a \in ops /\ b = o
      BY <1>4, <3>1, <3>2, <3>5 DEF NewResult, Undecided
    <3>6. CASE a = o /\ b = o
      BY <3>1, <3>2, <3>6
    <3> QED BY <1>4, <3>3, <3>4, <3>5, <3>6
  <2> QED BY <2>1, <2>2 DEF OpsInv
<1> QED BY <1>3, <1>4 DEF OpsStep

\* Every row is kept by every step.
LEMMA RowsKept ==
    ASSUME IInv, StoreStep
    PROVE  \A d \in Delivery : Kept(d)
BY FateKeeps DEF IInv, StoreStep, Shown

\* A step keeps the invariant.
LEMMA StepKeeps ==
    ASSUME IInv, StoreStep
    PROVE  IInv'
<1>1. \A d \in Delivery : Kept(d)
  BY RowsKept
<1>2. \A d \in Delivery : RowInv(d)'
  BY <1>1 DEF Kept
<1>3. OpsInv'
  BY <1>1, OpsKept DEF StoreStep
<1> QED BY <1>2, <1>3 DEF IInv, StoreStep, Shown, PubStep

\* The empty store satisfies it.
LEMMA InitHolds == Init => IInv
<1> SUFFICES ASSUME Init PROVE IInv
  OBVIOUS
<1>1. /\ pub = [m \in Message |-> NoPublication]
      /\ dlv = [d \in Delivery |-> NoDelivery]
      /\ attempts = [d \in Delivery |-> <<>>]
      /\ transport = [d \in Delivery |-> NoReceipt]
      /\ ops = {} /\ lastEvent = [d \in Delivery |-> "none"]
      /\ allocator = [all |-> 1, public |-> 1] /\ clock = 1
  BY DEF Init
<1>2. Tables
  BY <1>1 DEF Tables
<1>3. PubInv
  <2>1. NoPublication \in PublicationRecord /\ NoPublication.status = "absent"
        /\ NoPublication.origin = "none"
    BY DEF NoPublication, PublicationRecord
  <2>2. PublicMessages = {}
    BY <1>1, <2>1 DEF PublicMessages
  <2>3. IsFiniteSet({}) /\ Cardinality({}) = 0
    BY FS_EmptySet
  <2>4. PublicSequenceDense
    <3>1. {pub[m].seq : m \in PublicMessages} = {}
      BY <2>2
    <3>2. 1 .. Cardinality(PublicMessages) = {} /\ allocator.public = Cardinality(PublicMessages) + 1
      BY <1>1, <2>2, <2>3
    <3> QED BY <3>1, <3>2 DEF PublicSequenceDense, PublicMessages
  <2>5. OrdinaryIsPublic
    BY <1>1, <2>1 DEF OrdinaryIsPublic
  <2> QED BY <1>1, <2>1, <2>2, <2>3, <2>4, <2>5 DEF PubInv
<1>4. OpsInv /\ OneDeliveryPerId /\ clock \in Nat
  BY <1>1 DEF OpsInv, ResultsDecide, OneDeliveryPerId, HasTransportReceipt, NoReceipt
<1>5. ASSUME NEW d \in Delivery PROVE RowInv(d)
  <2>1. dlv[d] = NoDelivery /\ attempts[d] = <<>> /\ transport[d] = NoReceipt
        /\ lastEvent[d] = "none"
    BY <1>1
  <2>2. NoDelivery \in DeliveryRecord
    BY DEF NoDelivery, DeliveryRecord, Status
  <2>3. NoReceipt \in Receipt
    BY DEF NoReceipt, Receipt
  <2>4. RowTypeOK(d)
    BY <2>1, <2>2, <2>3, EmptySeq DEF RowTypeOK, EventKind
  <2>5. RowWellFormed(dlv[d], Len(attempts[d])) /\ AttemptsInTime(d)
    BY <2>1, BoundAssumption DEF NoDelivery, RowWellFormed, HoldsLease, AttemptsInTime
  <2>6. ~HasTransportReceipt(d) /\ pub[MessageOf[d]].status = "absent"
    BY <1>1, <2>1, MessageExists DEF HasTransportReceipt, NoReceipt, NoPublication
  <2>7. RowHidden(d) /\ RowEffect(d)
    BY <2>1, <2>6 DEF RowHidden, RowEffect, NoDelivery
  <2> QED BY <2>4, <2>5, <2>7 DEF RowInv
<1> QED BY <1>2, <1>3, <1>4, <1>5 DEF IInv

\* The invariant of the store: every operation of vyane-message's
\* SqliteMessageStore keeps its tables consistent.
THEOREM StoreInvariant == Spec => []IInv
<1>1. IInv /\ [Next]_vars => IInv'
  BY NextShown, StepKeeps
<1> QED BY <1>1, InitHolds, PTL DEF Spec

\* Every delivery row can be read again and, while it waits, be claimed again
\* (validate_stored_delivery, claim).
THEOREM DeliveriesStaySound == Spec => []DeliveriesSound
<1>1. IInv => DeliveriesSound
  <2> SUFFICES ASSUME IInv PROVE DeliveriesSound
    OBVIOUS
  <2>1. /\ pub \in [Message -> PublicationRecord] /\ allocator \in [all : Nat, public : Nat]
        /\ clock \in Nat
    BY DEF IInv, PubInv
  <2>2. \A d \in Delivery : RowTypeOK(d) /\ RowWellFormed(dlv[d], Len(attempts[d]))
    BY DEF IInv, RowInv
  <2>3. /\ dlv \in [Delivery -> DeliveryRecord] /\ attempts \in [Delivery -> Seq(Nat)]
        /\ transport \in [Delivery -> [gen : Nat, id : ExternalId \cup {NoId}]]
        /\ lastEvent \in [Delivery -> EventKind]
    BY <2>2 DEF IInv, Tables, RowTypeOK, Receipt
  <2>4. \A o \in ops : /\ o.dlv \in Delivery /\ o.gen \in Nat /\ o.status \in Status
                       /\ o.resultGen \in Nat /\ o.resultRev \in Nat
    BY DEF IInv, OpsInv, ResultInv
  <2>5. TypeOK
    BY <2>1, <2>3, <2>4 DEF TypeOK
  <2>6. DeliveriesWellFormed /\ WaitingIsClaimable
    BY <2>2 DEF DeliveriesWellFormed, WaitingIsClaimable, RowWellFormed
  <2> QED BY <2>5, <2>6 DEF DeliveriesSound
<1> QED BY <1>1, StoreInvariant, PTL

\* The audits of the other tables always pass: hidden deliveries have no
\* history, a confirmed effect stands and is of one delivery, the public
\* messages are numbered without a gap, and the recorded results agree with
\* their keys, their rows and each other.
THEOREM StoreAuditPasses ==
    Spec => [](HiddenUntilPublished /\ ExternalEffectStands
               /\ PublicSequenceDense /\ RecordedResultsAgree)
<1>1. IInv => /\ HiddenUntilPublished /\ ExternalEffectStands
              /\ PublicSequenceDense /\ RecordedResultsAgree
  <2> SUFFICES ASSUME IInv PROVE /\ HiddenUntilPublished /\ ExternalEffectStands
                                 /\ PublicSequenceDense /\ RecordedResultsAgree
    OBVIOUS
  <2>1. HiddenUntilPublished
    BY DEF IInv, RowInv, RowHidden, HiddenUntilPublished
  <2>2. ExternalEffectStands
    BY DEF IInv, RowInv, RowEffect, OneDeliveryPerId, ExternalEffectStands
  <2>3. PublicSequenceDense
    BY DEF IInv, PubInv
  <2>4. RecordedResultsAgree
    BY DEF IInv, OpsInv, ResultInv, ResultsDecide, RecordedResultsAgree
  <2> QED BY <2>1, <2>2, <2>3, <2>4
<1> QED BY <1>1, StoreInvariant, PTL

\* Rows move along the lifecycle, what ended stays, and late receipts of
\* earlier attempts change nothing, in every operation of the store.
THEOREM HistoriesAlwaysStand == Spec => HistoriesStand
<1> DEFINE Chain == \A d \in Delivery : LET old == dlv[d]
                                            new == dlv'[d] IN
         /\ new.status # old.status => LegalMove(old.status, new.status)
         /\ new.updated >= old.updated /\ new.rev >= old.rev
         /\ new.gen # old.gen => new.gen = old.gen + 1 /\ new.status = "leased"
         /\ old.status = "pending" /\ new.status = "delivered" =>
              lastEvent[d] = "reclaimed" /\ transport'[d].gen = old.gen
    Final ==
       /\ \A d \in Delivery : dlv[d].status \in Terminal => dlv'[d] = dlv[d]
       /\ \A m \in Message : pub[m].status \in {"published", "discarded"} =>
            pub'[m] = pub[m]
       /\ \A d \in Delivery : HasTransportReceipt(d) => transport'[d] = transport[d]
       /\ ops \subseteq ops'
    Inert == \A o \in ops' \ ops : o.gen # dlv[o.dlv].gen => dlv'[o.dlv] = dlv[o.dlv]
<1>1. ASSUME IInv, [Next]_vars PROVE Chain /\ Final /\ Inert
  <2>1. StoreStep /\ \A d \in Delivery : RowStep(d)
    BY <1>1, NextShown, RowsKept DEF Kept
  <2>2. Chain
    BY <2>1 DEF RowStep
  <2>3. Final
    BY <2>1 DEF RowStep, StoreStep, Shown, PubStep, OpsStep
  <2>4. Inert
    BY <2>1 DEF StoreStep, OpsStep, NewResult
  <2> QED BY <2>2, <2>3, <2>4
<1>2. IInv /\ [Next]_vars => [Chain]_vars /\ [Final]_vars /\ [Inert]_vars
  BY <1>1
<1> QED BY <1>2, StoreInvariant, PTL
        DEF Spec, HistoriesStand, LifecycleChain, EndedIsFinal, OldReceiptsAreInert

\* The store implements the delivery contract: seen as hand-outs, confirmed
\* effects and ends, every transaction of the store is a step its consumers
\* were promised.
THEOREM StoreImplementsContract == Spec => ImplementsContract
<1>1. Init => Contract!CInit
  <2> SUFFICES ASSUME Init PROVE Contract!CInit
    OBVIOUS
  <2>1. \A d \in Delivery : dlv[d] = NoDelivery /\ transport[d] = NoReceipt
    BY DEF Init
  <2>2. Phase = [d \in Delivery |-> "hidden"]
    BY <2>1 DEF Phase, NoDelivery
  <2>3. [d \in Delivery |-> dlv[d].gen] = [d \in Delivery |-> 0]
    BY <2>1 DEF NoDelivery
  <2>4. [d \in Delivery |-> HasTransportReceipt(d)] = [d \in Delivery |-> FALSE]
    <3>1. \A d \in Delivery : transport[d].gen = 0
      BY <2>1 DEF NoReceipt
    <3>2. \A d \in Delivery : HasTransportReceipt(d) = FALSE
      BY <3>1, Zenon DEF HasTransportReceipt
    <3> QED BY <3>2, Zenon
  <2> QED BY <2>2, <2>3, <2>4 DEF Contract!CInit
<1>2. ASSUME IInv, [Next]_vars PROVE Contract!CNext
  <2>1. \A d \in Delivery : PhaseStep(d)
    BY <1>2, NextShown, RowsKept DEF Kept
  <2> SUFFICES ASSUME NEW d \in Delivery
               PROVE  \/ Contract!Stay(d) \/ Contract!Appear(d) \/ Contract!HandOut(d)
                      \/ Contract!Confirm(d) \/ Contract!ComeBack(d) \/ Contract!Finish(d)
    BY DEF Contract!CNext
  <2>2. Phase[d] = PhaseOf(d) /\ Phase'[d] = PhaseOf(d)'
    BY DEF Phase, PhaseOf
  <2>3. /\ [e \in Delivery |-> dlv[e].gen][d] = dlv[d].gen
        /\ [e \in Delivery |-> dlv[e].gen]'[d] = dlv'[d].gen
        /\ [e \in Delivery |-> HasTransportReceipt(e)][d] = HasTransportReceipt(d)
        /\ [e \in Delivery |-> HasTransportReceipt(e)]'[d] = HasTransportReceipt(d)'
    OBVIOUS
  <2>4. PhaseStep(d)
    BY <2>1
  <2> QED BY <2>2, <2>3, <2>4
          DEF PhaseStep, HasTransportReceipt, Contract!Stay, Contract!Appear, Contract!HandOut,
              Contract!Confirm, Contract!ComeBack, Contract!Finish
<1>3. IInv /\ [Next]_vars => [Contract!CNext]_(Contract!cvars)
  BY <1>2
<1> QED BY <1>1, <1>3, StoreInvariant, PTL DEF Spec, ImplementsContract, Contract!CSpec

-----------------------------------------------------------------------------
(* The broker: the inductive invariant. *)

Busy == {"claimed", "adapter"} \cup Settling
Item == [at : {"idle", "gone"} \cup Busy, dlv : Delivery \cup {NoId}, gen : Nat,
         lease : Nat, limit : Nat]

LoopTypes ==
    /\ kind \in {"local", "reply", "transport"}
    /\ worked \subseteq Delivery /\ cancelled \subseteq Pump
    /\ pump \in [Pump -> Item] /\ clock > 0

\* What the loop p knows of the row of its item.  A claimed item whose lease
\* has not passed still holds it; an adapter at work always does.
ItemSound(p) ==
    LET item == pump[p]
        rec == dlv[item.dlv]
    IN  item.at \in Busy =>
        /\ item.dlv \in Delivery /\ 0 < item.gen /\ item.gen <= rec.gen
        /\ item.at = "claimed" /\ item.lease > clock =>
             rec.gen = item.gen /\ rec.status = "leased" /\ rec.lease = item.lease
        /\ item.at = "adapter" =>
             /\ rec.gen = item.gen /\ rec.status = "leased"
             /\ clock <= item.limit + Margin /\ item.limit + Margin < rec.lease
        /\ item.at \in {"settle", "ack"} => item.dlv \in worked
        /\ item.at \in {"retry", "permanent"} /\ rec.gen = item.gen =>
             item.dlv \notin worked

\* An attempt is in the hands of one loop.
OneLoopPerAttempt ==
    \A p, q \in Pump :
        /\ pump[p].at \in Busy /\ pump[q].at \in Busy
        /\ pump[p].dlv = pump[q].dlv /\ pump[p].gen = pump[q].gen
        => p = q

\* What the row of d says was done, was done.
RowTruth(d) ==
    /\ HasTransportReceipt(d) => d \in worked /\ kind = "transport"
    /\ dlv[d].status = "delivered" /\ kind = "transport" => HasTransportReceipt(d)
    /\ dlv[d].status = "acknowledged" =>
         /\ d \in worked
         /\ kind = "transport" => HasTransportReceipt(d)
         /\ kind = "reply" => /\ pub[ReplyMessage].status = "published"
                              /\ pub[ReplyMessage].replyTo = MessageOf[d]
    /\ dlv[d].failure = "permanent" => d \notin worked

BrokerInv ==
    /\ IInv /\ LoopTypes /\ (\A p \in Pump : ItemSound(p)) /\ OneLoopPerAttempt
    /\ (\A d \in Delivery : RowTruth(d)) /\ AnswersAcknowledge

-----------------------------------------------------------------------------
(* What happens to rows. *)

\* A step that does not settle the row's current attempt: a live lease
\* stands, and nothing is said to be done that was not said before.
Steady(d) ==
    /\ transport'[d] = transport[d]
    /\ dlv[d].status = "leased" /\ dlv[d].lease > clock => dlv'[d] = dlv[d]
    /\ dlv'[d].status = "delivered" => dlv[d].status = "delivered"
    /\ dlv'[d].status = "acknowledged" =>
         dlv[d].status = "acknowledged" \/ HasTransportReceipt(d)
    /\ dlv'[d].failure = "permanent" => dlv[d].failure = "permanent"

\* What maintenance makes of a row that is due.
LEMMA DueRow ==
    ASSUME NEW d \in Delivery, RowInv(d), clock \in Nat, NEW t \in Samples,
           ExpiryDue(d, t) \/ LeaseDue(d, t), NEW rec,
           rec = ExpiredRow(d, dlv[d], t) \/ rec = ReclaimedRow(d, dlv[d], t)
    PROVE  /\ rec \in DeliveryRecord /\ rec.gen = dlv[d].gen
           /\ ~ (dlv[d].status = "leased" /\ dlv[d].lease > clock)
           /\ rec.status \in {"pending", "acknowledged", "expired", "dead_lettered"}
           /\ rec.status = "acknowledged" => HasTransportReceipt(d)
           /\ rec.failure # "permanent"
<1>1. t \in Nat /\ t <= clock
  BY DEF Samples
<1>2. dlv[d] \in DeliveryRecord /\ dlv[d].lease \in Nat /\ dlv[d].expires \in Nat
  BY DEF RowInv, RowTypeOK, DeliveryRecord
<1>3. ~ (dlv[d].status = "leased" /\ dlv[d].lease > clock)
  BY <1>1, <1>2 DEF ExpiryDue, LeaseDue, Past, RowInv, RowWellFormed, HoldsLease
<1>4. \E status \in {"pending", "acknowledged", "expired", "dead_lettered"}, avail \in Nat,
         failure \in {"none", "attempts_exhausted"} :
           /\ rec = Moved(dlv[d], status, t, avail, failure)
           /\ status = "acknowledged" => Delivered(d, dlv[d])
  BY <1>1, MaintenanceMoves
<1>5. PICK status \in {"pending", "acknowledged", "expired", "dead_lettered"}, avail \in Nat,
         failure \in {"none", "attempts_exhausted"} :
           /\ rec = Moved(dlv[d], status, t, avail, failure)
           /\ status = "acknowledged" => Delivered(d, dlv[d])
  BY <1>4
<1>6. status \in Status /\ failure \in Failure
  BY DEF Status, Live, Terminal, Failure
<1>7. rec \in DeliveryRecord /\ rec.gen = dlv[d].gen /\ rec.status = status /\ rec.failure = failure
  BY <1>1, <1>2, <1>5, <1>6, MovedFields, SMTT(30)
<1> QED BY <1>3, <1>5, <1>7 DEF Delivered

\* Maintenance leaves rows steady.
LEMMA MaintenanceSteady ==
    ASSUME IInv, NEW t \in Samples, NEW S \in SUBSET Delivery,
           ExpireDue(S, t) \/ ReclaimExpired(S, t)
    PROVE  \A d \in Delivery : Steady(d)
<1> SUFFICES ASSUME NEW d \in Delivery PROVE Steady(d)
  OBVIOUS
<1>1. RowInv(d) /\ clock \in Nat /\ transport'[d] = transport[d]
  BY DEF IInv, ExpireDue, ReclaimExpired, Maintain
<1>2. \/ dlv'[d] = dlv[d]
      \/ ExpiryDue(d, t) /\ dlv'[d] = ExpiredRow(d, dlv[d], t)
      \/ LeaseDue(d, t) /\ dlv'[d] = ReclaimedRow(d, dlv[d], t)
  BY DEF ExpireDue, ReclaimExpired, Maintain
<1>3. CASE dlv'[d] = dlv[d]
  BY <1>1, <1>3 DEF Steady
<1>4. CASE dlv'[d] # dlv[d]
  BY <1>1, <1>2, <1>4, DueRow DEF Steady
<1> QED BY <1>3, <1>4

\* So does a claim, which leases nothing that was leased and alive.
LEMMA ClaimSteady ==
    ASSUME IInv, NEW t \in Samples, NEW S, S \subseteq Claimable(Mailbox, t),
           MaintainAndLease(S, t)
    PROVE  /\ \A d \in Delivery : Steady(d)
           /\ \A d \in S : /\ d \in Delivery /\ dlv'[d].gen = dlv[d].gen + 1
                           /\ dlv'[d].status = "leased"
<1> SUFFICES ASSUME NEW d \in Delivery
             PROVE  /\ Steady(d)
                    /\ d \in S => /\ dlv'[d].gen = dlv[d].gen + 1
                                  /\ dlv'[d].status = "leased"
  BY DEF Claimable
<1>1. RowInv(d) /\ clock \in Nat /\ transport'[d] = transport[d] /\ t \in Nat
  BY SampleIsTime DEF IInv, MaintainAndLease
<1>2. dlv'[d] = IF d \in S THEN Leased(Maintained(d, t), t) ELSE Maintained(d, t)
  BY DEF MaintainAndLease
<1>3. PICK rec : rec = Maintained(d, t)
  OBVIOUS
<1>4. /\ rec \in DeliveryRecord /\ rec.gen = dlv[d].gen
      /\ \/ rec = dlv[d]
         \/ /\ ~ (dlv[d].status = "leased" /\ dlv[d].lease > clock)
            /\ rec.status \in {"pending", "acknowledged", "expired", "dead_lettered"}
            /\ rec.status = "acknowledged" => HasTransportReceipt(d)
            /\ rec.failure # "permanent"
  <2>1. dlv[d] \in DeliveryRecord
    BY <1>1 DEF RowInv, RowTypeOK
  <2>2. CASE ExpiryDue(d, t)
    <3>1. rec = ExpiredRow(d, dlv[d], t)
      BY <1>3, <2>2 DEF Maintained
    <3> QED BY <1>1, <2>2, <3>1, DueRow
  <2>3. CASE ~ExpiryDue(d, t) /\ LeaseDue(d, t)
    <3>1. rec = ReclaimedRow(d, dlv[d], t)
      BY <1>3, <2>3 DEF Maintained
    <3> QED BY <1>1, <2>3, <3>1, DueRow
  <2>4. CASE ~ExpiryDue(d, t) /\ ~LeaseDue(d, t)
    BY <1>3, <2>1, <2>4 DEF Maintained
  <2> QED BY <2>2, <2>3, <2>4
<1>5. CASE d \notin S
  BY <1>1, <1>2, <1>3, <1>4, <1>5 DEF Steady
<1>6. CASE d \in S
  <2>1. rec.status = "pending"
    BY <1>3, <1>6 DEF Claimable
  <2>2. /\ dlv'[d].status = "leased" /\ dlv'[d].gen = rec.gen + 1 /\ dlv'[d].failure = "none"
    <3>1. dlv'[d] = Leased(rec, t) /\ rec \in DeliveryRecord
      BY <1>2, <1>3, <1>4, <1>6
    <3> QED BY <1>1, <3>1, LeasedFields
  <2> QED BY <1>1, <1>4, <2>1, <2>2 DEF Steady
<1> QED BY <1>5, <1>6

\* So does a new message: it has no row in use yet.
LEMMA PublishSteady ==
    ASSUME IInv, NEW m \in Message, NEW delay \in Delays, NEW life \in Lifetimes, NEW t \in Nat,
           NEW d \in Delivery, pub[m].status = "absent",
           dlv'[d] = NewDeliveries(m, delay, life, t)[d], transport'[d] = transport[d]
    PROVE  Steady(d)
<1>1. CASE d \notin DeliveriesOf(m)
  BY <1>1 DEF NewDeliveries, Steady
<1>2. CASE d \in DeliveriesOf(m)
  <2>1. dlv[d] = NoDelivery
    BY <1>2 DEF DeliveriesOf, IInv, RowInv, RowHidden
  <2>2. PICK avail, expires :
          dlv'[d] = [NoDelivery EXCEPT !.status = "pending", !.avail = avail,
                                       !.expires = expires, !.updated = t]
    BY <1>2 DEF NewDeliveries
  <2> QED BY <2>1, <2>2 DEF Steady, NoDelivery
<1> QED BY <1>1, <1>2

-----------------------------------------------------------------------------
(* What a step keeps. *)

\* What the store promises of every step the broker takes.
StoreKeeps ==
    /\ IInv' /\ PubStep
    /\ \A d \in Delivery : RowStep(d)

\* A step of the store gives it.
LEMMA StepOfStore ==
    ASSUME IInv, StoreStep
    PROVE  StoreKeeps
<1>1. IInv' /\ \A d \in Delivery : Kept(d)
  BY StepKeeps, RowsKept
<1> QED BY <1>1 DEF StoreKeeps, StoreStep, Shown, Kept

\* A row's attempts are counted upwards.
LEMMA GenerationGrows ==
    ASSUME IInv, StoreKeeps, NEW d \in Delivery
    PROVE  /\ dlv[d].gen \in Nat /\ dlv'[d].gen \in Nat /\ dlv[d].gen <= dlv'[d].gen
           /\ dlv[d].lease \in Nat /\ clock \in Nat /\ clock' \in Nat
<1>1. RowInv(d) /\ RowInv(d)' /\ RowStep(d) /\ clock \in Nat /\ clock' \in Nat
  BY DEF IInv, StoreKeeps
<1>2. dlv[d].gen \in Nat /\ dlv'[d].gen \in Nat /\ dlv[d].lease \in Nat
  BY <1>1 DEF RowInv, RowTypeOK, DeliveryRecord
<1> QED BY <1>1, <1>2 DEF RowStep

\* A loop that does not take part keeps what it knows, where its row is steady
\* or at another attempt.
LEMMA ItemKept ==
    ASSUME BrokerInv, StoreKeeps, clock' = clock, worked' = worked, NEW q \in Pump,
           pump'[q] = pump[q],
           pump[q].at \in Busy =>
             Steady(pump[q].dlv) \/ pump[q].gen # dlv[pump[q].dlv].gen
    PROVE  ItemSound(q)'
<1> SUFFICES ASSUME pump[q].at \in Busy PROVE ItemSound(q)'
  BY DEF ItemSound
<1>1. PICK d : d = pump[q].dlv
  OBVIOUS
<1>2. ItemSound(q) /\ d \in Delivery /\ pump[q] \in Item
  BY <1>1 DEF BrokerInv, ItemSound, LoopTypes
<1>3. /\ pump[q].gen \in Nat /\ pump[q].lease \in Nat /\ pump[q].limit \in Nat
  BY <1>2 DEF Item
<1>4. /\ dlv[d].gen \in Nat /\ dlv'[d].gen \in Nat /\ dlv[d].gen <= dlv'[d].gen
      /\ dlv[d].lease \in Nat /\ clock \in Nat /\ Margin \in Nat
  BY <1>2, GenerationGrows, WindowAssumption DEF BrokerInv
<1>5. CASE Steady(d)
  <2>1. pump[q].at \in {"claimed", "adapter"} /\ dlv[d].status = "leased" /\ dlv[d].lease > clock
          => dlv'[d] = dlv[d]
    BY <1>5 DEF Steady
  <2> QED BY <1>1, <1>2, <1>3, <1>4, <2>1 DEF ItemSound
<1>6. CASE pump[q].gen # dlv[d].gen
  BY <1>1, <1>2, <1>3, <1>4, <1>6 DEF ItemSound
<1> QED BY <1>1, <1>5, <1>6

\* A steady row says what it said.
LEMMA TruthKept ==
    ASSUME BrokerInv, StoreKeeps, NEW d \in Delivery, Steady(d), kind' = kind, worked' = worked
    PROVE  RowTruth(d)'
<1>1. RowTruth(d) /\ RowStep(d) /\ (HasTransportReceipt(d)' <=> HasTransportReceipt(d))
  BY DEF BrokerInv, StoreKeeps, Steady, HasTransportReceipt
<1>2. pub[ReplyMessage].status = "published" => pub'[ReplyMessage] = pub[ReplyMessage]
  BY ReplyAssumption DEF StoreKeeps, PubStep
<1> QED BY <1>1, <1>2 DEF RowTruth, Steady

\* An answer that was public stays so, with its question settled.
LEMMA AnswerKept ==
    ASSUME BrokerInv, StoreKeeps,
           \/ pub'[ReplyMessage] = pub[ReplyMessage]
           \/ pub[ReplyMessage].status = "published"
    PROVE  AnswersAcknowledge'
<1>1. pub[ReplyMessage].status = "published" => pub'[ReplyMessage] = pub[ReplyMessage]
  BY ReplyAssumption DEF StoreKeeps, PubStep
<1>2. ASSUME NEW d \in Delivery, dlv[d].status = "acknowledged"
      PROVE  dlv'[d].status = "acknowledged"
  BY <1>2 DEF StoreKeeps, RowStep, Terminal
<1> QED BY <1>1, <1>2 DEF AnswersAcknowledge, BrokerInv

\* Idle loops know nothing, so a loop may always rest.
LEMMA IdleIsSound ==
    /\ Idle \in Item /\ Idle.at \notin Busy
BY DEF Idle, Item, Busy, Settling

\* The loop p takes up another item, which no other loop holds.
LEMMA PutTypes ==
    ASSUME LoopTypes, OneLoopPerAttempt, NEW p \in Pump, NEW item \in Item, Put(p, item),
           \/ item.at \notin Busy
           \/ pump[p].at \in Busy /\ item.dlv = pump[p].dlv /\ item.gen = pump[p].gen
           \/ \A q \in Pump : pump[q].at \in Busy /\ pump[q].dlv = item.dlv =>
                pump[q].gen # item.gen
    PROVE  /\ pump' \in [Pump -> Item] /\ pump'[p] = item /\ OneLoopPerAttempt'
           /\ \A q \in Pump \ {p} : pump'[q] = pump[q]
<1>1. /\ pump' = [pump EXCEPT ![p] = item] /\ pump \in [Pump -> Item]
  BY DEF Put, LoopTypes
<1>2. /\ pump' \in [Pump -> Item] /\ pump'[p] = item
      /\ \A q \in Pump \ {p} : pump'[q] = pump[q]
  BY <1>1
<1>3. OneLoopPerAttempt'
  BY <1>2 DEF OneLoopPerAttempt
<1> QED BY <1>2, <1>3

\* The item of a busy loop is a receipt of its delivery.
LEMMA ItemIsReceipt ==
    ASSUME BrokerInv, NEW p \in Pump, pump[p].at \in Busy
    PROVE  /\ pump[p].dlv \in Delivery /\ pump[p].gen \in Receipts(pump[p].dlv)
           /\ pump[p] \in Item /\ RowInv(pump[p].dlv)
<1>1. PICK d : d = pump[p].dlv
  OBVIOUS
<1>2. d \in Delivery /\ pump[p].gen \in Nat /\ 0 < pump[p].gen /\ pump[p].gen <= dlv[d].gen
      /\ pump[p] \in Item
  BY <1>1 DEF BrokerInv, ItemSound, LoopTypes, Item
<1>3. RowInv(d) /\ Len(attempts[d]) = dlv[d].gen /\ dlv[d].gen \in Nat
  BY <1>2 DEF BrokerInv, IInv, RowInv, RowWellFormed, RowTypeOK, DeliveryRecord
<1> QED BY <1>1, <1>2, <1>3 DEF Receipts

\* A step of one loop, in parts.
LEMMA LoopStep ==
    ASSUME BrokerInv, StoreKeeps, clock' = clock, worked' = worked, kind' = kind,
           cancelled' \subseteq Pump, NEW p \in Pump, NEW item \in Item, Put(p, item),
           \/ item.at \notin Busy
           \/ pump[p].at \in Busy /\ item.dlv = pump[p].dlv /\ item.gen = pump[p].gen
           \/ \A q \in Pump : pump[q].at \in Busy /\ pump[q].dlv = item.dlv =>
                pump[q].gen # item.gen,
           ItemSound(p)',
           \A q \in Pump \ {p} : pump[q].at \in Busy =>
             Steady(pump[q].dlv) \/ pump[q].gen # dlv[pump[q].dlv].gen,
           \A d \in Delivery : RowTruth(d)',
           AnswersAcknowledge'
    PROVE  BrokerInv'
<1>1. LoopTypes /\ OneLoopPerAttempt
  BY DEF BrokerInv
<1>2. /\ pump' \in [Pump -> Item] /\ pump'[p] = item /\ OneLoopPerAttempt'
      /\ \A q \in Pump \ {p} : pump'[q] = pump[q]
  BY <1>1, PutTypes
<1>3. LoopTypes'
  BY <1>1, <1>2 DEF LoopTypes
<1>4. ASSUME NEW q \in Pump PROVE ItemSound(q)'
  <2>1. CASE q = p
    BY <2>1
  <2>2. CASE q # p
    BY <1>2, <2>2, ItemKept
  <2> QED BY <2>1, <2>2
<1> QED BY <1>2, <1>3, <1>4 DEF BrokerInv, StoreKeeps

\* A step of one loop that leaves all rows steady.
LEMMA SteadyLoop ==
    ASSUME BrokerInv, StoreKeeps, \A d \in Delivery : Steady(d), pub' = pub,
           clock' = clock, worked' = worked, kind' = kind, cancelled' \subseteq Pump,
           NEW p \in Pump, NEW item \in Item, Put(p, item),
           \/ item.at \notin Busy
           \/ pump[p].at \in Busy /\ item.dlv = pump[p].dlv /\ item.gen = pump[p].gen
           \/ \A q \in Pump : pump[q].at \in Busy /\ pump[q].dlv = item.dlv =>
                pump[q].gen # item.gen,
           ItemSound(p)'
    PROVE  BrokerInv'
<1>1. \A d \in Delivery : RowTruth(d)'
  BY TruthKept
<1>2. AnswersAcknowledge'
  BY AnswerKept
<1>3. \A q \in Pump \ {p} : pump[q].at \in Busy => Steady(pump[q].dlv)
  BY DEF BrokerInv, ItemSound
<1> QED BY <1>1, <1>2, <1>3, LoopStep

\* A step of one loop that settles the attempt in its hands.
LEMMA SettlingLoop ==
    ASSUME BrokerInv, StoreKeeps, clock' = clock, worked' = worked, kind' = kind,
           cancelled' \subseteq Pump, NEW p \in Pump, NEW item \in Item, Put(p, item),
           NEW d, d = pump[p].dlv,
           item.at \notin Busy \/ (item.dlv = d /\ item.gen = pump[p].gen),
           pump[p].at \in Busy, pump[p].gen = dlv[d].gen,
           \A e \in Delivery \ {d} : Steady(e),
           ItemSound(p)', RowTruth(d)', AnswersAcknowledge'
    PROVE  BrokerInv'
<1>2. ASSUME NEW e \in Delivery PROVE RowTruth(e)'
  <2>1. CASE e = d
    BY <2>1
  <2>2. CASE e # d
    <3>1. Steady(e)
      BY <2>2
    <3> QED BY <3>1, TruthKept
  <2> QED BY <2>1, <2>2
<1>3. ASSUME NEW q \in Pump \ {p}, pump[q].at \in Busy
      PROVE  Steady(pump[q].dlv) \/ pump[q].gen # dlv[pump[q].dlv].gen
  <2>1. pump[q].dlv \in Delivery
    BY <1>3 DEF BrokerInv, ItemSound
  <2>2. CASE pump[q].dlv = d
    BY <1>3, <2>2 DEF BrokerInv, OneLoopPerAttempt
  <2> QED BY <2>1, <2>2
<1> QED BY <1>2, <1>3, LoopStep

\* A loop's item after it goes on to another phase.
LEMMA GoItem ==
    ASSUME LoopTypes, NEW p \in Pump, NEW phase \in {"idle", "gone"} \cup Busy, Go(p, phase)
    PROVE  \E item \in Item : /\ Put(p, item) /\ item.at = phase
                              /\ item.dlv = pump[p].dlv /\ item.gen = pump[p].gen
                              /\ pump'[p] = item
<1>1. pump[p] \in Item
  BY DEF LoopTypes
<1>2. PICK item : item = [pump[p] EXCEPT !.at = phase, !.lease = 0, !.limit = 0]
  OBVIOUS
<1>3. item \in Item /\ item.at = phase /\ item.dlv = pump[p].dlv /\ item.gen = pump[p].gen
  BY <1>1, <1>2 DEF Item
<1>4. Put(p, item) /\ pump'[p] = item
  BY <1>2 DEF Go, Put, LoopTypes
<1> QED BY <1>3, <1>4

\* A step that leaves the tables alone.
LEMMA QuietStore ==
    ASSUME IInv, UNCHANGED vars
    PROVE  /\ StoreKeeps /\ (\A d \in Delivery : Steady(d)) /\ pub' = pub /\ clock' = clock
           /\ dlv' = dlv
<1>1. UNCHANGED tables /\ clock' \in Nat /\ pub' = pub /\ dlv' = dlv /\ clock' = clock
      /\ transport' = transport
  BY DEF vars, tables, IInv
<1>2. StoreKeeps
  BY <1>1, UnmovedShown, StepOfStore DEF StoreStep, OpsStep
<1> QED BY <1>1, <1>2 DEF Steady

\* A loop that gives its item up, wherever it is.
LEMMA RestKeeps ==
    ASSUME BrokerInv, NEW p \in Pump, Rest(p), UNCHANGED <<vars, kind, worked>>,
           cancelled' \subseteq Pump
    PROVE  BrokerInv'
<1>1. StoreKeeps /\ (\A d \in Delivery : Steady(d)) /\ pub' = pub /\ clock' = clock
  BY QuietStore DEF BrokerInv
<1>2. Idle \in Item /\ Idle.at \notin Busy /\ Put(p, Idle)
  BY IdleIsSound DEF Rest
<1>3. pump'[p] = Idle
  BY DEF Rest, Put, BrokerInv, LoopTypes
<1>4. ItemSound(p)'
  BY <1>2, <1>3 DEF ItemSound
<1> QED BY <1>1, <1>2, <1>4, SteadyLoop

\* A loop that goes on to another phase of its cycle.
LEMMA GoKeeps ==
    ASSUME BrokerInv, NEW p \in Pump, UNCHANGED <<vars, Others>>,
           NEW phase \in {"gone"} \cup Settling, Go(p, phase),
           phase # "gone" => pump[p].at = "adapter",
           phase \in {"settle", "ack"} => pump[p].dlv \in worked,
           phase \in {"retry", "permanent"} => pump[p].dlv \notin worked
    PROVE  BrokerInv'
<1>1. /\ StoreKeeps /\ (\A d \in Delivery : Steady(d)) /\ pub' = pub /\ clock' = clock
      /\ dlv' = dlv
  BY QuietStore DEF BrokerInv
<1>2. /\ worked' = worked /\ kind' = kind /\ cancelled' \subseteq Pump
  BY DEF Others, BrokerInv, LoopTypes
<1>3. LoopTypes /\ phase \in {"idle", "gone"} \cup Busy
  BY DEF Busy, Settling, BrokerInv
<1>4. PICK item \in Item : /\ Put(p, item) /\ item.at = phase
                           /\ item.dlv = pump[p].dlv /\ item.gen = pump[p].gen
                           /\ pump'[p] = item
  BY <1>3, GoItem
<1>5. phase # "gone" => pump[p].at \in Busy
  BY DEF Busy
<1>6. phase = "gone" => item.at \notin Busy
  BY <1>4 DEF Busy, Settling
<1>7. ItemSound(p)'
  <2>1. CASE phase = "gone"
    BY <1>4, <1>6, <2>1 DEF ItemSound
  <2>2. CASE phase # "gone"
    <3>1. phase \notin {"claimed", "adapter"} /\ ItemSound(p)
      BY <2>2 DEF Settling, BrokerInv
    <3> QED BY <1>1, <1>2, <1>4, <1>5, <2>2, <3>1 DEF ItemSound
  <2> QED BY <2>1, <2>2
<1> QED BY <1>1, <1>2, <1>4, <1>5, <1>6, <1>7, SteadyLoop

-----------------------------------------------------------------------------
(* The actions. *)

\* A step of the store that leaves all rows steady and no loop takes part in.
LEMMA StoreOnly ==
    ASSUME BrokerInv, StoreKeeps, \A d \in Delivery : Steady(d), clock' = clock,
           pub'[ReplyMessage] = pub[ReplyMessage], UNCHANGED <<kind, loops>>
    PROVE  BrokerInv'
<1>1. worked' = worked /\ pump' = pump /\ cancelled' = cancelled /\ kind' = kind
  BY DEF loops
<1>2. \A d \in Delivery : RowTruth(d)'
  BY <1>1, TruthKept
<1>3. AnswersAcknowledge'
  BY AnswerKept
<1>4. ASSUME NEW q \in Pump PROVE ItemSound(q)'
  <2>1. pump[q].at \in Busy => Steady(pump[q].dlv)
    BY DEF BrokerInv, ItemSound
  <2> QED BY <1>1, <2>1, ItemKept
<1>5. LoopTypes' /\ OneLoopPerAttempt'
  BY <1>1 DEF BrokerInv, LoopTypes, OneLoopPerAttempt
<1> QED BY <1>2, <1>3, <1>4, <1>5 DEF BrokerInv, StoreKeeps

\* publish
LEMMA PublishKeeps ==
    ASSUME BrokerInv, Publish
    PROVE  BrokerInv'
<1>1. PICK m \in Message \ {ReplyMessage}, delay \in Delays, life \in Lifetimes :
        Enqueue(m, delay, life, NoMessage, clock)
  BY DEF Publish
<1>2. IInv /\ clock \in Samples /\ clock \in Nat
  BY BoundAssumption DEF BrokerInv, LoopTypes, IInv, Samples
<1>3. Shown /\ ops' = ops
  BY <1>1, <1>2, EnqueueShown
<1>4. StoreKeeps
  BY <1>2, <1>3, StepOfStore DEF StoreStep, OpsStep
<1>5. /\ pub[m].status = "absent" /\ pub'[ReplyMessage] = pub[ReplyMessage]
      /\ dlv' = NewDeliveries(m, delay, life, clock) /\ transport' = transport /\ clock' = clock
  BY <1>1, <1>2, ReplyAssumption DEF Enqueue, InsertPublished, Admissible, IInv, PubInv
<1>6. \A d \in Delivery : Steady(d)
  BY <1>1, <1>2, <1>5, PublishSteady
<1> QED BY <1>4, <1>5, <1>6, StoreOnly DEF Publish

\* maintenance_once
LEMMA MaintenanceOnceKeeps ==
    ASSUME BrokerInv, MaintenanceOnce
    PROVE  BrokerInv'
<1>1. PICK t \in Samples, D \in SUBSET Delivery : ExpireDue(D, t) \/ ReclaimExpired(D, t)
  BY DEF MaintenanceOnce
<1>2. Shown /\ ops' = ops /\ IInv
  BY <1>1, ExpireShown, ReclaimShown DEF BrokerInv
<1>3. StoreKeeps
  BY <1>2, StepOfStore DEF StoreStep, OpsStep
<1>4. \A d \in Delivery : Steady(d)
  BY <1>1, <1>2, MaintenanceSteady
<1>5. clock' = clock /\ pub' = pub
  BY <1>1 DEF ExpireDue, ReclaimExpired, Maintain
<1> QED BY <1>3, <1>4, <1>5, StoreOnly DEF MaintenanceOnce

\* Time passes, but not beyond the margin of a timer that is due.
LEMMA PassTimeKeeps ==
    ASSUME BrokerInv, PassTime
    PROVE  BrokerInv'
<1>1. UNCHANGED tables /\ clock' = clock + 1 /\ clock \in Nat /\ IInv
  BY DEF PassTime, Tick, BrokerInv, IInv
<1>2. /\ dlv' = dlv /\ pub' = pub /\ transport' = transport
      /\ worked' = worked /\ pump' = pump /\ cancelled' = cancelled /\ kind' = kind
  BY <1>1 DEF PassTime, loops, tables
<1>3. StoreKeeps
  <2>1. clock' \in Nat
    BY <1>1
  <2> QED BY <1>1, <2>1, UnmovedShown, StepOfStore DEF StoreStep, OpsStep
<1>4. \A d \in Delivery : RowTruth(d)'
  BY <1>2 DEF BrokerInv, RowTruth, HasTransportReceipt
<1>5. AnswersAcknowledge'
  BY <1>2, <1>3, AnswerKept
<1>6. LoopTypes' /\ OneLoopPerAttempt'
  BY <1>1, <1>2 DEF BrokerInv, LoopTypes, OneLoopPerAttempt
<1>7. ASSUME NEW q \in Pump PROVE ItemSound(q)'
  <2>1. ItemSound(q) /\ pump[q] \in Item /\ Margin \in Nat
    BY WindowAssumption DEF BrokerInv, LoopTypes
  <2>2. pump[q].limit \in Nat /\ pump[q].lease \in Nat
    BY <2>1 DEF Item
  <2>3. pump[q].at = "adapter" => clock < pump[q].limit + Margin
    BY DEF PassTime, TimersHeld, At
  <2> QED BY <1>1, <1>2, <2>1, <2>2, <2>3 DEF ItemSound
<1> QED BY <1>3, <1>4, <1>5, <1>6, <1>7 DEF BrokerInv, StoreKeeps

\* pump_once claims: the attempt is new, so no other loop holds it.
LEMMA ClaimOneKeeps ==
    ASSUME BrokerInv, NEW p \in Pump, ClaimOne(p)
    PROVE  BrokerInv'
<1>1. PICK t \in Samples :
         \/ Claim(Mailbox, {}, t) /\ Rest(p)
         \/ \E d \in Delivery :
              /\ Claim(Mailbox, {d}, t)
              /\ Put(p, [at |-> "claimed", dlv |-> d, gen |-> dlv'[d].gen,
                         lease |-> dlv'[d].lease, limit |-> 0])
  BY DEF ClaimOne
<1>2. IInv /\ worked' = worked /\ kind' = kind /\ cancelled' \subseteq Pump
  BY DEF ClaimOne, Others, BrokerInv, LoopTypes
<1>3. ASSUME NEW S, Claim(Mailbox, S, t)
      PROVE  /\ StoreKeeps /\ (\A d \in Delivery : Steady(d)) /\ pub' = pub /\ clock' = clock
             /\ \A d \in S : /\ d \in Delivery /\ dlv'[d].gen = dlv[d].gen + 1
                             /\ dlv'[d].status = "leased"
  <2>1. S \subseteq Claimable(Mailbox, t) /\ MaintainAndLease(S, t)
    BY <1>3 DEF Claim
  <2>2. Shown /\ ops' = ops
    BY <1>2, <2>1, ClaimShown
  <2>3. StoreKeeps
    BY <1>2, <2>2, StepOfStore DEF StoreStep, OpsStep
  <2>4. pub' = pub /\ clock' = clock
    BY <2>1 DEF MaintainAndLease
  <2> QED BY <1>2, <2>1, <2>3, <2>4, ClaimSteady
<1>4. CASE Claim(Mailbox, {}, t) /\ Rest(p)
  <2>1. Idle \in Item /\ Idle.at \notin Busy /\ Put(p, Idle)
    BY <1>4, IdleIsSound DEF Rest
  <2>2. pump'[p] = Idle
    BY <2>1 DEF Put, BrokerInv, LoopTypes
  <2>3. ItemSound(p)'
    BY <2>1, <2>2 DEF ItemSound
  <2> QED BY <1>2, <1>3, <1>4, <2>1, <2>3, SteadyLoop
<1>5. ASSUME NEW d \in Delivery, Claim(Mailbox, {d}, t),
             Put(p, [at |-> "claimed", dlv |-> d, gen |-> dlv'[d].gen,
                     lease |-> dlv'[d].lease, limit |-> 0])
      PROVE  BrokerInv'
  <2>1. /\ StoreKeeps /\ (\A e \in Delivery : Steady(e)) /\ pub' = pub /\ clock' = clock
        /\ dlv'[d].gen = dlv[d].gen + 1 /\ dlv'[d].status = "leased"
    BY <1>3, <1>5
  <2>2. dlv[d].gen \in Nat /\ dlv'[d].gen \in Nat /\ dlv'[d].lease \in Nat
    <3>1. RowInv(d) /\ RowInv(d)'
      BY <1>2, <2>1 DEF StoreKeeps, IInv
    <3> QED BY <3>1 DEF RowInv, RowTypeOK, DeliveryRecord
  <2>3. PICK item : item = [at |-> "claimed", dlv |-> d, gen |-> dlv'[d].gen,
                            lease |-> dlv'[d].lease, limit |-> 0]
    OBVIOUS
  <2>4. item \in Item /\ Put(p, item) /\ item.dlv = d /\ item.gen = dlv'[d].gen
        /\ item.at = "claimed" /\ item.lease = dlv'[d].lease
    BY <1>5, <2>2, <2>3 DEF Item, Busy
  <2>5. \A q \in Pump : pump[q].at \in Busy /\ pump[q].dlv = item.dlv => pump[q].gen # item.gen
    <3> SUFFICES ASSUME NEW q \in Pump, pump[q].at \in Busy, pump[q].dlv = d
                 PROVE  pump[q].gen # dlv'[d].gen
      BY <2>4
    <3>1. pump[q].gen \in Nat /\ pump[q].gen <= dlv[d].gen
      BY DEF BrokerInv, ItemSound, LoopTypes, Item
    <3> QED BY <2>1, <2>2, <3>1
  <2>6. pump'[p] = item
    BY <2>4 DEF Put, BrokerInv, LoopTypes
  <2>7. ItemSound(p)'
    BY <2>1, <2>2, <2>4, <2>6 DEF ItemSound
  <2> QED BY <1>2, <2>1, <2>4, <2>5, <2>7, SteadyLoop
<1> QED BY <1>1, <1>4, <1>5

\* process_one calls the adapter only where the whole call fits into the lease.
LEMMA CallAdapterKeeps ==
    ASSUME BrokerInv, NEW p \in Pump, CallAdapter(p)
    PROVE  BrokerInv'
<1>1. /\ pump[p].at = "claimed" /\ UNCHANGED <<vars, kind, worked, cancelled>>
      /\ cancelled' \subseteq Pump
  BY DEF CallAdapter, At, Others, BrokerInv, LoopTypes
<1>2. CASE ~HasWindow(p)
  BY <1>1, <1>2, RestKeeps DEF CallAdapter
<1>3. CASE HasWindow(p)
  <2>1. /\ StoreKeeps /\ (\A d \in Delivery : Steady(d)) /\ pub' = pub /\ clock' = clock
        /\ dlv' = dlv
    BY <1>1, QuietStore DEF BrokerInv
  <2>2. PICK item : item = [pump[p] EXCEPT !.at = "adapter", !.lease = 0,
                                           !.limit = clock + AdapterTimeout]
    OBVIOUS
  <2>3. /\ clock \in Nat /\ AdapterTimeout \in Nat /\ Margin \in Nat
        /\ clock + AdapterTimeout \in Nat /\ pump[p] \in Item
    BY WindowAssumption DEF BrokerInv, IInv, LoopTypes
  <2>4. /\ item \in Item /\ item.at = "adapter" /\ item.dlv = pump[p].dlv
        /\ item.gen = pump[p].gen /\ item.limit = clock + AdapterTimeout
        /\ pump[p].lease \in Nat
    BY <2>2, <2>3 DEF Item, Busy
  <2>5. Put(p, item) /\ pump'[p] = item
    BY <1>3, <2>2 DEF CallAdapter, Put, BrokerInv, LoopTypes
  <2>6. pump[p].at \in Busy /\ ItemSound(p)
    BY <1>1 DEF Busy, BrokerInv
  <2>7. pump[p].lease > clock + AdapterTimeout + Margin
    BY <1>3, <2>3, <2>4 DEF HasWindow
  <2>8. pump[p].lease > clock
    BY <2>3, <2>4, <2>7
  <2>9. ItemSound(p)'
    BY <1>1, <2>1, <2>3, <2>4, <2>5, <2>6, <2>7, <2>8 DEF ItemSound
  <2> QED BY <1>1, <2>1, <2>4, <2>5, <2>6, <2>9, SteadyLoop
<1> QED BY <1>2, <1>3

\* The adapter does its work while the row is leased for its attempt: nobody
\* else can have refused this attempt, and the row is not refused for good.
LEMMA AdapterWorksKeeps ==
    ASSUME BrokerInv, NEW p \in Pump, AdapterWorks(p)
    PROVE  BrokerInv'
<1>1. PICK d : d = pump[p].dlv
  OBVIOUS
<1>2. /\ pump[p].at = "adapter" /\ worked' = worked \cup {d} /\ UNCHANGED vars
      /\ kind' = kind /\ pump' = pump /\ cancelled' = cancelled
  BY <1>1 DEF AdapterWorks, At
<1>3. /\ StoreKeeps /\ (\A e \in Delivery : Steady(e)) /\ pub' = pub /\ clock' = clock
      /\ dlv' = dlv
  BY <1>2, QuietStore DEF BrokerInv
<1>4. pump[p].at \in Busy
  BY <1>2 DEF Busy
<1>5. d \in Delivery /\ dlv[d].gen = pump[p].gen /\ dlv[d].status = "leased"
  BY <1>1, <1>2, <1>4 DEF BrokerInv, ItemSound
<1>6. ASSUME NEW q \in Pump PROVE ItemSound(q)'
  <2>1. ItemSound(q)
    BY DEF BrokerInv
  <2>2. ASSUME pump[q].at \in {"retry", "permanent"}, pump[q].dlv = d
        PROVE  pump[q].gen # dlv[d].gen
    <3>1. pump[q].at \in Busy
      BY <2>2 DEF Busy, Settling
    <3>2. pump[q].gen = pump[p].gen => p = q
      BY <1>1, <1>4, <2>2, <3>1 DEF BrokerInv, OneLoopPerAttempt
    <3> QED BY <1>2, <1>5, <2>2, <3>2
  <2> QED BY <1>2, <1>3, <2>1, <2>2 DEF ItemSound
<1>7. ASSUME NEW e \in Delivery PROVE RowTruth(e)'
  <2>1. RowTruth(e) /\ (HasTransportReceipt(e)' <=> HasTransportReceipt(e))
    BY <1>3 DEF BrokerInv, Steady, HasTransportReceipt
  <2>2. dlv[d].failure # "permanent"
    BY <1>5 DEF BrokerInv, IInv, RowInv, RowWellFormed
  <2> QED BY <1>2, <1>3, <2>1, <2>2 DEF RowTruth
<1>8. AnswersAcknowledge'
  BY <1>3, AnswerKept
<1>9. LoopTypes' /\ OneLoopPerAttempt'
  BY <1>2, <1>3, <1>5 DEF BrokerInv, LoopTypes, OneLoopPerAttempt
<1> QED BY <1>3, <1>6, <1>7, <1>8, <1>9 DEF BrokerInv, StoreKeeps

\* A receipt operation leaves every other row alone.
LEMMA OthersSteady ==
    ASSUME IInv, NEW d \in Delivery, NEW rec, dlv' = [dlv EXCEPT ![d] = rec],
           \A e \in Delivery \ {d} : transport'[e] = transport[e]
    PROVE  dlv'[d] = rec /\ \A e \in Delivery \ {d} : Steady(e)
<1>1. dlv = [e \in Delivery |-> dlv[e]]
  BY DEF IInv, Tables
<1>2. dlv'[d] = rec /\ \A e \in Delivery \ {d} : dlv'[e] = dlv[e]
  BY <1>1
<1> QED BY <1>2 DEF Steady

\* mark_delivered or mark_transport_delivered, of an attempt that worked.
LEMMA MarkKeeps ==
    ASSUME BrokerInv, NEW p \in Pump, Mark(p)
    PROVE  BrokerInv'
<1>1. PICK d, g : d = pump[p].dlv /\ g = pump[p].gen
  OBVIOUS
<1>2. pump[p].at = "settle" /\ pump[p].at \in Busy /\ Go(p, "ack")
  BY DEF Mark, At, Busy, Settling
<1>3. /\ worked' = worked /\ kind' = kind /\ cancelled' \subseteq Pump
  BY DEF Mark, Others, BrokerInv, LoopTypes
<1>4. d \in Delivery /\ g \in Receipts(d) /\ RowInv(d) /\ IInv /\ d \in worked
  BY <1>1, <1>2, ItemIsReceipt DEF BrokerInv, ItemSound
<1>5. PICK t \in Samples :
        IF kind = "transport"
          THEN \E x \in ExternalId : MarkTransportDelivered(d, g, x, t)
          ELSE MarkDelivered(d, g, t)
  BY <1>1 DEF Mark
<1>6. t \in Nat /\ dlv[d] \in DeliveryRecord
  BY <1>4, SampleIsTime DEF IInv, RowInv, RowTypeOK
<1>7. /\ StoreKeeps /\ dlv[d].gen = g /\ pub' = pub /\ clock' = clock
      /\ dlv[d].failure = "none"
      /\ dlv'[d].status = "delivered" /\ dlv'[d].failure = "none"
      /\ \A e \in Delivery \ {d} : Steady(e)
      /\ kind = "transport" => transport'[d].gen = g
      /\ kind # "transport" => transport'[d] = transport[d]
  <2>1. CASE kind = "transport"
    <3>1. PICK x \in ExternalId : MarkTransportDelivered(d, g, x, t)
      BY <1>5, <2>1
    <3>2. Shown /\ ops' = ops
      BY <1>4, <3>1, ConfirmShown
    <3>3. StoreKeeps
      BY <1>4, <3>2, StepOfStore DEF StoreStep, OpsStep
    <3>4. PICK lease : dlv' = [dlv EXCEPT ![d] = [Reached(dlv[d], t) EXCEPT !.lease = lease]]
      BY <3>1 DEF MarkTransportDelivered
    <3>5. /\ dlv[d].gen = g /\ pub' = pub /\ clock' = clock
          /\ transport' = [transport EXCEPT ![d] = [gen |-> g, id |-> x]]
          /\ dlv[d].status \in {"leased", "pending"}
      BY <3>1 DEF MarkTransportDelivered, IsCurrent
    <3>6. dlv[d].failure = "none"
      BY <1>4, <3>5 DEF RowInv, RowWellFormed
    <3>7. transport'[d].gen = g /\ \A e \in Delivery \ {d} : transport'[e] = transport[e]
      <4>1. transport = [e \in Delivery |-> transport[e]]
        BY <1>4 DEF IInv, Tables
      <4> QED BY <1>4, <3>5, <4>1
    <3>8. PICK rec : rec = [Reached(dlv[d], t) EXCEPT !.lease = lease]
      OBVIOUS
    <3>9. rec.status = "delivered" /\ rec.failure = dlv[d].failure
      BY <1>6, <3>8 DEF Reached, DeliveryRecord
    <3>10. dlv'[d] = rec /\ \A e \in Delivery \ {d} : Steady(e)
      BY <1>4, <3>4, <3>7, <3>8, OthersSteady
    <3> QED BY <2>1, <3>3, <3>5, <3>6, <3>7, <3>9, <3>10
  <2>2. CASE kind # "transport"
    <3>1. MarkDelivered(d, g, t)
      BY <1>5, <2>2
    <3>2. Shown /\ OpsStep
      BY <1>4, <3>1, MarkDeliveredShown
    <3>3. StoreKeeps
      BY <1>4, <3>2, StepOfStore DEF StoreStep
    <3>4. PICK rec : rec = Reached(dlv[d], t)
      OBVIOUS
    <3>5. /\ dlv[d].gen = g /\ pub' = pub /\ clock' = clock /\ transport' = transport
          /\ dlv' = [dlv EXCEPT ![d] = rec] /\ dlv[d].status = "leased"
      BY <3>1, <3>4 DEF MarkDelivered, Settle, IsCurrent, RequireLiveState
    <3>6. rec.status = "delivered" /\ rec.failure = dlv[d].failure
      BY <1>6, <3>4 DEF Reached, DeliveryRecord
    <3>7. dlv[d].failure = "none"
      BY <1>4, <3>5 DEF RowInv, RowWellFormed
    <3>8. dlv'[d] = rec /\ \A e \in Delivery \ {d} : Steady(e)
      BY <1>4, <3>5, OthersSteady
    <3> QED BY <2>2, <3>3, <3>5, <3>6, <3>7, <3>8
  <2> QED BY <2>1, <2>2
<1>8. LoopTypes /\ "ack" \in {"idle", "gone"} \cup Busy
  BY DEF Busy, Settling, BrokerInv
<1>9. PICK item \in Item : /\ Put(p, item) /\ item.at = "ack"
                           /\ item.dlv = pump[p].dlv /\ item.gen = pump[p].gen
                           /\ pump'[p] = item
  BY <1>2, <1>8, GoItem
<1>10. ItemSound(p)'
  <2>1. ItemSound(p) /\ dlv[d].gen <= dlv'[d].gen /\ dlv[d].gen \in Nat /\ dlv'[d].gen \in Nat
        /\ pump[p].gen \in Nat
    BY <1>4, <1>7, GenerationGrows DEF BrokerInv, LoopTypes, Item
  <2> QED BY <1>1, <1>2, <1>3, <1>4, <1>9, <2>1 DEF ItemSound
<1>11. RowTruth(d)'
  <2>1. RowTruth(d) /\ g > 0 /\ g \in Nat
    BY <1>4, ReceiptIsOfAttempt DEF BrokerInv
  <2> QED BY <1>3, <1>4, <1>7, <2>1 DEF RowTruth, HasTransportReceipt
<1>12. AnswersAcknowledge'
  BY <1>7, AnswerKept
<1> QED BY <1>1, <1>2, <1>3, <1>7, <1>9, <1>10, <1>11, <1>12, SettlingLoop

\* acknowledge: the row becomes acknowledged, or was before.
LEMMA AcknowledgeKeeps ==
    ASSUME BrokerInv, NEW p \in Pump, pump[p].at = "ack", kind # "reply", Rest(p),
           UNCHANGED Others, NEW t \in Samples, Acknowledge(pump[p].dlv, pump[p].gen, t)
    PROVE  BrokerInv'
<1>1. PICK d, g : d = pump[p].dlv /\ g = pump[p].gen
  OBVIOUS
<1>2. pump[p].at \in Busy
  BY DEF Busy, Settling
<1>3. /\ worked' = worked /\ kind' = kind /\ cancelled' \subseteq Pump
  BY DEF Others, BrokerInv, LoopTypes
<1>4. d \in Delivery /\ g \in Receipts(d) /\ RowInv(d) /\ IInv /\ d \in worked
  BY <1>1, <1>2, ItemIsReceipt DEF BrokerInv, ItemSound
<1>5. t \in Nat /\ dlv[d] \in DeliveryRecord /\ dlv[d].avail \in Nat
  BY <1>4, SampleIsTime DEF IInv, RowInv, RowTypeOK, DeliveryRecord
<1>6. Acknowledge(d, g, t)
  BY <1>1
<1>7. StoreKeeps
  BY <1>4, <1>6, AcknowledgeShown, StepOfStore DEF StoreStep
<1>8. pub' = pub /\ clock' = clock /\ transport' = transport
  BY <1>6 DEF Acknowledge, Settle
<1>9. /\ Idle \in Item /\ Idle.at \notin Busy /\ Put(p, Idle) /\ pump'[p] = Idle
  BY IdleIsSound DEF Rest, Put, BrokerInv, LoopTypes
<1>10. ItemSound(p)'
  BY <1>9 DEF ItemSound
<1>11. CASE dlv' = [dlv EXCEPT ![d] = dlv[d]]
  <2>1. dlv'[d] = dlv[d] /\ \A e \in Delivery \ {d} : Steady(e)
    BY <1>4, <1>8, <1>11, OthersSteady
  <2>2. \A e \in Delivery : Steady(e)
    BY <1>4, <1>8, <2>1 DEF Steady
  <2> QED BY <1>3, <1>7, <1>8, <1>9, <1>10, <2>2, SteadyLoop
<1>12. CASE ~ (dlv' = [dlv EXCEPT ![d] = dlv[d]])
  <2>1. PICK rec : rec = Moved(dlv[d], "acknowledged", t, dlv[d].avail, "none")
    OBVIOUS
  <2>2. dlv[d].gen = g /\ dlv[d].status = "delivered" /\ dlv' = [dlv EXCEPT ![d] = rec]
    BY <1>6, <1>12, <2>1
       DEF Acknowledge, Settle, IsCurrent, MayAcknowledge, Delivered, RequireLiveState,
           Acknowledged
  <2>3. rec.status = "acknowledged" /\ rec.failure = "none"
    <3>1. "acknowledged" \in Status /\ "none" \in Failure
      BY DEF Status, Terminal, Failure
    <3>2. PICK row, avail : row = dlv[d] /\ avail = dlv[d].avail
      OBVIOUS
    <3> QED BY ONLY <1>5, <2>1, <3>1, <3>2, MovedFields
  <2>4. dlv'[d] = rec /\ \A e \in Delivery \ {d} : Steady(e)
    BY <1>4, <1>8, <2>2, OthersSteady
  <2>5. RowTruth(d)'
    <3>1. RowTruth(d) /\ (HasTransportReceipt(d)' <=> HasTransportReceipt(d))
      BY <1>4, <1>8 DEF BrokerInv, HasTransportReceipt
    <3> QED BY <1>3, <1>4, <2>2, <2>3, <2>4, <3>1 DEF RowTruth
  <2>6. AnswersAcknowledge'
    BY <1>7, <1>8, AnswerKept
  <2> QED BY <1>1, <1>2, <1>3, <1>7, <1>8, <1>9, <1>10, <2>2, <2>4, <2>5, <2>6, SettlingLoop
<1> QED BY <1>11, <1>12

\* reply_and_ack: the answer becomes public with the acknowledgement.
LEMMA ReplyKeeps ==
    ASSUME BrokerInv, NEW p \in Pump, pump[p].at = "ack", kind = "reply", Rest(p),
           UNCHANGED Others, NEW t \in Samples, NEW delay \in Delays, NEW life \in Lifetimes,
           ReplyAndAck(pump[p].dlv, pump[p].gen, ReplyMessage, delay, life, t)
    PROVE  BrokerInv'
<1>1. PICK d, g : d = pump[p].dlv /\ g = pump[p].gen
  OBVIOUS
<1>2. pump[p].at \in Busy
  BY DEF Busy, Settling
<1>3. /\ worked' = worked /\ kind' = kind /\ cancelled' \subseteq Pump
  BY DEF Others, BrokerInv, LoopTypes
<1>4. d \in Delivery /\ g \in Receipts(d) /\ RowInv(d) /\ IInv /\ d \in worked
  BY <1>1, <1>2, ItemIsReceipt DEF BrokerInv, ItemSound
<1>5. /\ t \in Nat /\ dlv[d] \in DeliveryRecord /\ dlv[d].avail \in Nat
      /\ Now(d, t) \in Nat
  <2>1. t \in Nat /\ dlv[d] \in DeliveryRecord /\ dlv[d].avail \in Nat /\ dlv[d].updated \in Nat
    BY <1>4, SampleIsTime DEF IInv, RowInv, RowTypeOK, DeliveryRecord
  <2> QED BY <2>1, LaterIsLater DEF Now
<1>6. ReplyAndAck(d, g, ReplyMessage, delay, life, t)
  BY <1>1
<1>7. StoreKeeps
  BY <1>4, <1>6, ReplyAssumption, ReplyShown, StepOfStore DEF StoreStep
<1>8. PICK rec : rec = Moved(dlv[d], "acknowledged", t, dlv[d].avail, "none")
  OBVIOUS
<1>9. rec.status = "acknowledged" /\ rec.failure = "none"
  <2>1. "acknowledged" \in Status /\ "none" \in Failure
    BY DEF Status, Terminal, Failure
  <2> QED BY <1>5, <1>8, <2>1, MovedFields
<1>10. /\ dlv[d].gen = g /\ dlv[d].status = "delivered"
       /\ transport' = transport /\ clock' = clock
       /\ \/ /\ InsertPublished(ReplyMessage, delay, life, MessageOf[d])
             /\ dlv' = [NewDeliveries(ReplyMessage, delay, life, Now(d, t)) EXCEPT ![d] = rec]
          \/ /\ ExistingReply(d, ReplyMessage) /\ pub' = pub
             /\ dlv' = [dlv EXCEPT ![d] = rec]
  BY <1>6, <1>8 DEF ReplyAndAck, IsCurrent, RequireLiveState, Acknowledged
<1>11. /\ dlv'[d] = rec /\ (\A e \in Delivery \ {d} : Steady(e))
       /\ pub'[ReplyMessage].status = "published"
       /\ pub'[ReplyMessage].replyTo = MessageOf[d]
  <2>1. CASE /\ InsertPublished(ReplyMessage, delay, life, MessageOf[d])
             /\ dlv' = [NewDeliveries(ReplyMessage, delay, life, Now(d, t)) EXCEPT ![d] = rec]
    <3>1. PICK rows, now : rows = NewDeliveries(ReplyMessage, delay, life, now) /\ now = Now(d, t)
      OBVIOUS
    <3>2. dlv' = [rows EXCEPT ![d] = rec] /\ rows = [e \in Delivery |-> rows[e]]
      BY <2>1, <3>1 DEF NewDeliveries
    <3>3. dlv'[d] = rec /\ \A e \in Delivery \ {d} : dlv'[e] = rows[e]
      BY <1>4, <3>2
    <3>4. /\ pub[ReplyMessage].status = "absent" /\ pub'[ReplyMessage].status = "published"
          /\ pub'[ReplyMessage].replyTo = MessageOf[d]
      BY <1>4, <2>1, ReplyAssumption DEF InsertPublished, Admissible, IInv, PubInv
    <3>5. \A e \in Delivery \ {d} : Steady(e)
      BY <1>4, <1>5, <1>10, <3>1, <3>3, <3>4, ReplyAssumption, PublishSteady
    <3> QED BY <3>3, <3>4, <3>5
  <2>2. CASE /\ ExistingReply(d, ReplyMessage) /\ pub' = pub
             /\ dlv' = [dlv EXCEPT ![d] = rec]
    <3>1. pub[ReplyMessage].status = "published" /\ pub[ReplyMessage].replyTo = MessageOf[d]
      BY <1>4, <2>2, ReplyAssumption DEF ExistingReply, IInv, PubInv, OrdinaryIsPublic
    <3> QED BY <1>4, <1>10, <2>2, <3>1, OthersSteady
  <2> QED BY <1>10, <2>1, <2>2
<1>12. RowTruth(d)'
  <2>1. RowTruth(d) /\ (HasTransportReceipt(d)' <=> HasTransportReceipt(d))
    BY <1>4, <1>10 DEF BrokerInv, HasTransportReceipt
  <2> QED BY <1>3, <1>4, <1>9, <1>11, <2>1 DEF RowTruth
<1>13. AnswersAcknowledge'
  BY <1>4, <1>9, <1>11 DEF AnswersAcknowledge
<1>14. /\ Idle \in Item /\ Idle.at \notin Busy /\ Put(p, Idle) /\ pump'[p] = Idle
  BY IdleIsSound DEF Rest, Put, BrokerInv, LoopTypes
<1>15. ItemSound(p)'
  BY <1>14 DEF ItemSound
<1> QED BY <1>1, <1>2, <1>3, <1>7, <1>10, <1>11, <1>12, <1>13, <1>14, <1>15, SettlingLoop

\* settle_nack: only an attempt that did nothing is refused.
LEMMA NackKeeps ==
    ASSUME BrokerInv, NEW p \in Pump, Nack(p)
    PROVE  BrokerInv'
<1>1. PICK d, g : d = pump[p].dlv /\ g = pump[p].gen
  OBVIOUS
<1>2. PICK t \in Samples :
        \/ pump[p].at = "retry" /\ \E delay \in Delays : NackRetry(d, g, delay, t)
        \/ pump[p].at = "permanent" /\ NackPermanent(d, g, t)
  BY <1>1 DEF Nack, At
<1>3. pump[p].at \in Busy /\ pump[p].at \in {"retry", "permanent"}
  BY <1>2 DEF Busy, Settling
<1>4. /\ worked' = worked /\ kind' = kind /\ cancelled' \subseteq Pump
  BY DEF Nack, Others, BrokerInv, LoopTypes
<1>5. d \in Delivery /\ g \in Receipts(d) /\ RowInv(d) /\ IInv
  BY <1>1, <1>3, ItemIsReceipt DEF BrokerInv
<1>6. t \in Nat /\ dlv[d] \in DeliveryRecord /\ dlv[d].avail \in Nat /\ dlv[d].updated \in Nat
  BY <1>5, SampleIsTime DEF IInv, RowInv, RowTypeOK, DeliveryRecord
<1>7. StoreKeeps
  BY <1>2, <1>5, NackRetryShown, NackPermanentShown, StepOfStore DEF StoreStep
<1>8. dlv[d].gen = g /\ ~HasTransportReceipt(d)
  BY <1>2 DEF NackRetry, NackPermanent, Nackable, IsCurrent
<1>9. pub' = pub /\ clock' = clock /\ transport' = transport
  BY <1>2 DEF NackRetry, NackPermanent, Settle
<1>10. \E status \in {"pending", "dead_lettered"}, avail \in Nat, failure \in Failure :
         dlv' = [dlv EXCEPT ![d] = Moved(dlv[d], status, t, avail, failure)]
  <2>1. CASE \E delay \in Delays : NackRetry(d, g, delay, t)
    <3>1. PICK delay \in Delays : NackRetry(d, g, delay, t)
      BY <2>1
    <3>2. Now(d, t) + delay \in Nat
      <4>1. Now(d, t) \in Nat /\ delay \in Nat
        BY <1>6, LaterIsLater, BoundAssumption DEF Now
      <4> QED BY <4>1
    <3>3. \/ dlv' = [dlv EXCEPT ![d] = Moved(dlv[d], "pending", t, Now(d, t) + delay, "none")]
          \/ dlv' = [dlv EXCEPT ![d] =
                       Moved(dlv[d], "dead_lettered", t, dlv[d].avail, "attempts_exhausted")]
      BY <3>1 DEF NackRetry, Settle
    <3> QED BY <1>6, <3>2, <3>3 DEF Failure
  <2>2. CASE NackPermanent(d, g, t)
    BY <1>6, <2>2 DEF NackPermanent, Settle, Failure
  <2> QED BY <1>2, <2>1, <2>2
<1>11. PICK status \in {"pending", "dead_lettered"}, avail \in Nat, failure \in Failure :
         dlv' = [dlv EXCEPT ![d] = Moved(dlv[d], status, t, avail, failure)]
  BY <1>10
<1>12. PICK rec : rec = Moved(dlv[d], status, t, avail, failure)
  OBVIOUS
<1>13. rec.status = status
  <2>1. status \in Status
    BY DEF Status, Live, Terminal
  <2> QED BY <1>6, <1>12, <2>1, MovedFields
<1>14. dlv'[d] = rec /\ \A e \in Delivery \ {d} : Steady(e)
  BY <1>5, <1>9, <1>11, <1>12, OthersSteady
<1>15. RowTruth(d)'
  <2>1. d \notin worked
    BY <1>1, <1>3, <1>8 DEF BrokerInv, ItemSound
  <2>2. ~HasTransportReceipt(d)'
    BY <1>8, <1>9 DEF HasTransportReceipt
  <2> QED BY <1>4, <1>13, <1>14, <2>1, <2>2 DEF RowTruth
<1>16. AnswersAcknowledge'
  BY <1>7, <1>9, AnswerKept
<1>17. /\ Idle \in Item /\ Idle.at \notin Busy /\ Put(p, Idle) /\ pump'[p] = Idle
  BY IdleIsSound DEF Nack, Rest, Put, BrokerInv, LoopTypes
<1>18. ItemSound(p)'
  BY <1>17 DEF ItemSound
<1> QED BY <1>1, <1>3, <1>4, <1>7, <1>8, <1>9, <1>14, <1>15, <1>16, <1>17, <1>18, SettlingLoop

\* Whatever a loop does in its cycle.
LEMMA PumpStepKeeps ==
    ASSUME BrokerInv, NEW p \in Pump, PumpStep(p)
    PROVE  BrokerInv'
<1>1. CASE ClaimOne(p)
  BY <1>1, ClaimOneKeeps
<1>2. CASE CallAdapter(p)
  BY <1>2, CallAdapterKeeps
<1>3. CASE AdapterSucceeds(p)
  BY <1>3, GoKeeps DEF AdapterSucceeds, At, Settling
<1>4. CASE AdapterRefuses(p)
  BY <1>4, GoKeeps DEF AdapterRefuses, At, Settling
<1>5. CASE AdapterGivesUp(p) \/ SettlementFails(p)
  BY <1>5, RestKeeps DEF AdapterGivesUp, SettlementFails, Others, BrokerInv, LoopTypes
<1>6. CASE Mark(p)
  BY <1>6, MarkKeeps
<1>7. CASE AcknowledgeOne(p)
  BY <1>7, AcknowledgeKeeps, ReplyKeeps DEF AcknowledgeOne, At
<1>8. CASE Nack(p)
  BY <1>8, NackKeeps
<1>9. CASE Leave(p)
  BY <1>9, GoKeeps DEF Leave
<1> QED BY <1>1, <1>2, <1>3, <1>4, <1>5, <1>6, <1>7, <1>8, <1>9 DEF PumpStep

\* Every step keeps the invariant.
LEMMA BrokerStepKeeps ==
    ASSUME BrokerInv, [BrokerNext]_brokerVars
    PROVE  BrokerInv'
<1>1. ASSUME NEW p \in Pump, CancelLoop(p)
      PROVE  BrokerInv'
  <2>1. StoreKeeps /\ (\A d \in Delivery : Steady(d)) /\ pub' = pub /\ clock' = clock
    BY <1>1, QuietStore DEF CancelLoop, BrokerInv
  <2>2. /\ worked' = worked /\ pump' = pump /\ kind' = kind /\ cancelled' \subseteq Pump
    BY <1>1 DEF CancelLoop, BrokerInv, LoopTypes
  <2>3. \A d \in Delivery : RowTruth(d)'
    BY <2>1, <2>2, TruthKept
  <2>4. AnswersAcknowledge'
    BY <2>1, AnswerKept
  <2>5. ASSUME NEW q \in Pump PROVE ItemSound(q)'
    <3>1. pump[q].at \in Busy => Steady(pump[q].dlv)
      BY <2>1 DEF BrokerInv, ItemSound
    <3> QED BY <2>1, <2>2, <3>1, ItemKept
  <2>6. LoopTypes' /\ OneLoopPerAttempt'
    BY <2>1, <2>2 DEF BrokerInv, LoopTypes, OneLoopPerAttempt
  <2> QED BY <2>1, <2>3, <2>4, <2>5, <2>6 DEF BrokerInv, StoreKeeps
<1>2. ASSUME NEW p \in Pump, Kill(p)
      PROVE  BrokerInv'
  BY <1>2, RestKeeps DEF Kill, BrokerInv, LoopTypes
<1>3. CASE UNCHANGED brokerVars
  <2>1. UNCHANGED <<vars, kind, loops>>
    BY <1>3 DEF brokerVars
  <2>2. StoreKeeps /\ (\A d \in Delivery : Steady(d)) /\ pub' = pub /\ clock' = clock
    BY <2>1, QuietStore DEF BrokerInv
  <2> QED BY <2>1, <2>2, StoreOnly
<1> QED BY <1>1, <1>2, <1>3, PublishKeeps, PassTimeKeeps, MaintenanceOnceKeeps,
           PumpStepKeeps, AdapterWorksKeeps DEF BrokerNext

\* At the start nothing is public and no loop has an item.
LEMMA BrokerInitHolds == BrokerInit => BrokerInv
<1> SUFFICES ASSUME BrokerInit PROVE BrokerInv
  OBVIOUS
<1>1. IInv /\ clock > 0
  BY InitHolds DEF BrokerInit, Init
<1>2. pump = [p \in Pump |-> Idle] /\ worked = {} /\ cancelled = {}
      /\ kind \in {"local", "reply", "transport"}
  BY DEF BrokerInit
<1>3. LoopTypes
  BY <1>1, <1>2, IdleIsSound DEF LoopTypes
<1>4. (\A p \in Pump : ItemSound(p)) /\ OneLoopPerAttempt
  BY <1>2, IdleIsSound DEF ItemSound, OneLoopPerAttempt
<1>5. ASSUME NEW d \in Delivery PROVE RowTruth(d)
  <2>1. dlv[d] = NoDelivery /\ transport[d] = NoReceipt
    BY DEF BrokerInit, Init
  <2> QED BY <2>1 DEF RowTruth, HasTransportReceipt, NoDelivery, NoReceipt
<1>6. AnswersAcknowledge
  <2>1. pub[ReplyMessage] = NoPublication
    BY ReplyAssumption DEF BrokerInit, Init
  <2> QED BY <2>1 DEF AnswersAcknowledge, NoPublication
<1> QED BY <1>1, <1>3, <1>4, <1>5, <1>6 DEF BrokerInv

-----------------------------------------------------------------------------
(* The theorems. *)

\* The inductive invariant: what pump_once and process_one know of the rows
\* behind their items holds at every step of every loop.
THEOREM BrokerInvariant == BrokerSpec => []BrokerInv
<1>1. BrokerInv /\ [BrokerNext]_brokerVars => BrokerInv'
  BY BrokerStepKeeps
<1> QED BY <1>1, BrokerInitHolds, PTL DEF BrokerSpec

\* No delivery is in two adapter calls, rows tell what the adapter did, and
\* answers are public only with their question acknowledged, however loops
\* overlap, lag, are cancelled or die (process_one, settle_success,
\* settle_nack).
THEOREM SettlementsStaySound == BrokerSpec => []SettlementsSound
<1>1. BrokerInv => SettlementsSound
  <2> SUFFICES ASSUME BrokerInv PROVE SettlementsSound
    OBVIOUS
  <2>1. LoopTypes /\ OneLoopPerAttempt /\ (\A p \in Pump : ItemSound(p))
        /\ (\A d \in Delivery : RowTruth(d)) /\ AnswersAcknowledge
    BY DEF BrokerInv
  <2>2. BrokerTypeOK
    <3>1. ASSUME NEW p \in Pump
          PROVE  /\ pump[p].at \in {"idle", "claimed", "adapter", "gone"} \cup Settling
                 /\ pump[p].at \in Busy =>
                      /\ pump[p].dlv \in Delivery
                      /\ pump[p].gen \in 1 .. dlv[pump[p].dlv].gen
      <4>1. pump[p].at \in {"idle", "gone"} \cup Busy /\ pump[p].gen \in Nat
        BY <2>1 DEF LoopTypes, Item
      <4>2. ASSUME pump[p].at \in Busy
            PROVE  pump[p].dlv \in Delivery /\ pump[p].gen \in 1 .. dlv[pump[p].dlv].gen
        <5>1. pump[p].dlv \in Delivery /\ 0 < pump[p].gen /\ pump[p].gen <= dlv[pump[p].dlv].gen
          BY <2>1, <4>2 DEF ItemSound
        <5>2. dlv[pump[p].dlv].gen \in Nat
          BY <5>1 DEF BrokerInv, IInv, RowInv, RowTypeOK, DeliveryRecord
        <5> QED BY <4>1, <5>1, <5>2
      <4> QED BY <4>1, <4>2 DEF Busy
    <3> QED BY <2>1, <3>1 DEF BrokerTypeOK, LoopTypes, Busy
  <2>3. ExclusiveDelivery
    <3> SUFFICES ASSUME NEW p \in Pump, NEW q \in Pump, pump[p].at = "adapter",
                        pump[q].at = "adapter", pump[p].dlv = pump[q].dlv
                 PROVE  p = q
      BY DEF ExclusiveDelivery, At
    <3>1. pump[p].at \in Busy /\ pump[q].at \in Busy
      BY DEF Busy
    <3>2. pump[p].gen = dlv[pump[p].dlv].gen /\ pump[q].gen = dlv[pump[q].dlv].gen
      BY <2>1, <3>1 DEF ItemSound
    <3> QED BY <2>1, <3>1, <3>2 DEF OneLoopPerAttempt
  <2>4. SettlementTellsTruth
    BY <2>1 DEF SettlementTellsTruth, RowTruth
  <2> QED BY <2>1, <2>2, <2>3, <2>4 DEF SettlementsSound
<1> QED BY <1>1, BrokerInvariant, PTL

\* What a loop does to the store, a consumer of the store may do.
LEMMA PumpUsesStore ==
    ASSUME BrokerInv, NEW p \in Pump, PumpStep(p)
    PROVE  [Next]_vars
<1>1. CASE ClaimOne(p)
  <2>1. PICK t \in Samples :
          Claim(Mailbox, {}, t) \/ \E d \in Delivery : Claim(Mailbox, {d}, t)
    BY <1>1 DEF ClaimOne
  <2>2. \E Q \in SUBSET Mailbox, S \in SUBSET Delivery : Claim(Q, S, t)
    BY <2>1
  <2> QED BY <2>2 DEF Consumption, Next
<1>2. CASE Mark(p) \/ AcknowledgeOne(p) \/ Nack(p)
  <2>1. PICK d, g : d = pump[p].dlv /\ g = pump[p].gen
    OBVIOUS
  <2>2. pump[p].at \in Busy
    BY <1>2 DEF Mark, AcknowledgeOne, Nack, At, Busy, Settling
  <2>3. d \in Delivery /\ g \in Receipts(d)
    BY <2>1, <2>2, ItemIsReceipt
  <2>4. PICK t \in Samples :
          \/ MarkDelivered(d, g, t)
          \/ \E x \in ExternalId : MarkTransportDelivered(d, g, x, t)
          \/ Acknowledge(d, g, t)
          \/ \E delay \in Delays : NackRetry(d, g, delay, t)
          \/ NackPermanent(d, g, t)
          \/ \E delay \in Delays, life \in Lifetimes :
               ReplyAndAck(d, g, ReplyMessage, delay, life, t)
    BY <1>2, <2>1 DEF Mark, AcknowledgeOne, Nack
  <2>5. Consumption
    BY <2>3, <2>4, ReplyAssumption DEF Consumption
  <2> QED BY <2>5 DEF Next
<1>3. CASE \/ CallAdapter(p) \/ AdapterSucceeds(p) \/ AdapterRefuses(p)
           \/ AdapterGivesUp(p) \/ SettlementFails(p) \/ Leave(p)
  BY <1>3 DEF CallAdapter, AdapterSucceeds, AdapterRefuses, AdapterGivesUp, SettlementFails,
              Leave
<1> QED BY <1>1, <1>2, <1>3 DEF PumpStep

\* The broker takes no step the message store does not offer, and presents
\* only receipts it was given; so every theorem about the store is one about
\* the store behind a broker.
THEOREM BrokerUsesStore == BrokerSpec => Spec
<1>1. BrokerInit => Init
  BY DEF BrokerInit
<1>2. BrokerInv /\ [BrokerNext]_brokerVars => [Next]_vars
  <2> SUFFICES ASSUME BrokerInv, [BrokerNext]_brokerVars PROVE [Next]_vars
    OBVIOUS
  <2>1. CASE Publish
    <3>1. clock \in Samples
      BY BoundAssumption DEF BrokerInv, LoopTypes, IInv, Samples
    <3>2. Publication
      BY <2>1, <3>1 DEF Publish, Publication
    <3> QED BY <3>2 DEF Next
  <2>2. CASE MaintenanceOnce
    BY <2>2 DEF MaintenanceOnce, Maintenance, Next
  <2>3. CASE PassTime
    BY <2>3 DEF PassTime, Next
  <2>4. ASSUME NEW p \in Pump, AdapterWorks(p) \/ CancelLoop(p) \/ Kill(p)
        PROVE  [Next]_vars
    BY <2>4 DEF AdapterWorks, CancelLoop, Kill
  <2>5. CASE UNCHANGED brokerVars
    BY <2>5 DEF brokerVars
  <2> QED BY <2>1, <2>2, <2>3, <2>4, <2>5, PumpUsesStore DEF BrokerNext
<1> QED BY <1>1, <1>2, BrokerInvariant, PTL DEF BrokerSpec, Spec
=============================================================================
