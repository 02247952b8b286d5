-------------------------- MODULE DeliveryContract --------------------------
(***************************************************************************)
(* What the message store promises consumers, without leases, revisions or *)
(* time: a delivery is handed out at most MaxAttempts times, one hand-out  *)
(* at a time; once an external effect is confirmed it is never handed out  *)
(* again and ends as done; an ended delivery stays ended.                  *)
(***************************************************************************)
EXTENDS Naturals

CONSTANTS Delivery, MaxAttempts

VARIABLES
    phase,     \* hidden, waiting, handed, done or dropped
    handouts,  \* how often the delivery was handed out
    effect     \* has an external effect been confirmed?

cvars == <<phase, handouts, effect>>

CInit ==
    /\ phase = [d \in Delivery |-> "hidden"]
    /\ handouts = [d \in Delivery |-> 0]
    /\ effect = [d \in Delivery |-> FALSE]

Stay(d) == phase'[d] = phase[d] /\ handouts'[d] = handouts[d]
                                 /\ effect'[d] = effect[d]

Appear(d) ==
    /\ phase[d] = "hidden" /\ phase'[d] = "waiting"
    /\ handouts'[d] = handouts[d] /\ effect'[d] = effect[d]

\* A delivery that came back may be handed out again in the same step.
HandOut(d) ==
    /\ phase[d] \in {"waiting", "handed"} /\ ~ effect[d]
    /\ handouts[d] < MaxAttempts
    /\ phase'[d] = "handed" /\ handouts'[d] = handouts[d] + 1
    /\ effect'[d] = effect[d]

\* The consumer of the latest hand-out reports an effect, perhaps late.
Confirm(d) ==
    /\ phase[d] \in {"waiting", "handed"} /\ handouts[d] > 0 /\ ~ effect[d]
    /\ phase'[d] = "handed" /\ effect'[d] = TRUE
    /\ handouts'[d] = handouts[d]

ComeBack(d) ==
    /\ phase[d] = "handed" /\ ~ effect[d] /\ handouts[d] < MaxAttempts
    /\ phase'[d] = "waiting"
    /\ handouts'[d] = handouts[d] /\ effect'[d] = effect[d]

Finish(d) ==
    /\ \/ phase[d] = "handed" /\ phase'[d] = "done"
       \/ phase[d] \in {"waiting", "handed"} /\ ~ effect[d]
            /\ phase'[d] = "dropped"
    /\ handouts'[d] = handouts[d] /\ effect'[d] = effect[d]

\* One transaction may move several deliveries, each by a move of its own.
CNext ==
    \A d \in Delivery :
      Stay(d) \/ Appear(d) \/ HandOut(d) \/ Confirm(d) \/ ComeBack(d) \/ Finish(d)

CSpec == CInit /\ [][CNext]_cvars
=============================================================================
