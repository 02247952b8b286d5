--------------------------- MODULE EventProjector ---------------------------
(***************************************************************************)
(* Projectors copy the outbox of a store into a stream of the event log:   *)
(* AgentEventProjector (agent_projector.rs) and MessageEventProjector      *)
(* (projector.rs).  Several instances may serve one stream: an old daemon  *)
(* and its successor, or a daemon and a command.  An event is appended     *)
(* durably first and acknowledged in the outbox afterwards, so duplicates  *)
(* are normal and consumers drop them by event id: the stream is modelled  *)
(* as they see it, by the first appearance of each event.                  *)
(*                                                                         *)
(* The names of its specification say "Projector", so that EventLogProofs  *)
(* can read it beside the specification of the stream, EventLog.           *)
(***************************************************************************)
EXTENDS Integers, Sequences, FiniteSets

CONSTANTS
    Instance,     \* projector instances, each with its own order mutex
    PageLimit,    \* events per page of the outbox
    MaxEvents,    \* bound of the model: events of the outbox
    MaxFaults     \* bound of the model: restarts and deferrals

ASSUME ProjectorAssumption ==
    PageLimit \in Nat \ {0} /\ MaxEvents \in Nat /\ MaxFaults \in Nat

VARIABLES
    ordered,   \* does this stream keep an order floor (the agent stream)?
    source,    \* the outbox holds the events 1 .. source
    hidden,    \* events whose retry is deferred
    marked,    \* events acknowledged for this projector
    stream,    \* the stream, without repetitions
    floor,     \* an instance's floor; -1 while it is not known
    page,      \* what is left of an instance's page
    at,        \* what an instance is doing
    faults

outboxVars == <<source, hidden>>
projectorVars == <<marked, stream, floor, page, at>>
projectionVars == <<ordered, outboxVars, projectorVars, faults>>

Phase == {"idle", "read", "item", "append", "mark"}

Seen == {stream[k] : k \in 1 .. Len(stream)}
Smallest(S) == CHOOSE s \in S : \A e \in S : s <= e
\* Mutant: the newest event of the stream does not count.
HighestBefore == IF Seen = {} THEN 0 ELSE Cardinality(Seen) - 1
\* scan_source_floor: the highest source sequence in the stream.
Highest == IF Seen = {} THEN 0 ELSE CHOOSE s \in Seen : \A e \in Seen : e <= s
Larger(a, b) == IF a >= b THEN a ELSE b

ProjectorInit ==
    /\ ordered \in BOOLEAN
    /\ source = 0 /\ hidden = {} /\ marked = {}
    /\ stream = <<>>
    /\ floor = [i \in Instance |-> -1]
    /\ page = [i \in Instance |-> {}]
    /\ at = [i \in Instance |-> "idle"]
    /\ faults = 0

-----------------------------------------------------------------------------
(* The outbox. *)

\* A store transaction appends an event under the owner's next sequence.
Emit == source < MaxEvents /\ source' = source + 1

\* Somebody defers the projection of an event the projector has not marked;
\* the delay passes.
Defer(e) ==
    /\ ordered /\ faults < MaxFaults
    /\ e \notin marked \cup hidden
    /\ hidden' = hidden \cup {e}
    /\ faults' = faults + 1
    /\ UNCHANGED <<ordered, source, projectorVars>>
Reappear(e) ==
    /\ e \in hidden
    /\ hidden' = hidden \ {e}
    /\ UNCHANGED <<ordered, source, projectorVars, faults>>

\* unprojected_events: the first events neither marked nor deferred.
Due == (1 .. source) \ (marked \cup hidden)
IsPage(P) ==
    /\ P \subseteq Due
    /\ \A e \in P, d \in Due \ P : e < d
    /\ Cardinality(P) <= PageLimit
    /\ P # Due => Cardinality(P) = PageLimit

-----------------------------------------------------------------------------
(* project_once. *)

Go(i, phase) == at' = [at EXCEPT ![i] = phase]
Leave(i) == Go(i, "idle") /\ page' = [page EXCEPT ![i] = {}]
Raise(i, n) == floor' = [floor EXCEPT ![i] = Larger(@, n)]

\* The agent projector reads its floor from the stream before its first page.
ScanFloor(i) ==
    /\ at[i] = "idle"
    /\ IF ordered /\ floor[i] = -1
         THEN floor' = [floor EXCEPT ![i] = Highest] ELSE UNCHANGED floor
    /\ Go(i, "read")
    /\ UNCHANGED <<ordered, outboxVars, marked, stream, page, faults>>

ReadOutboxPage(i) ==
    /\ at[i] = "read"
    /\ \E P \in SUBSET Due : IsPage(P) /\ page' = [page EXCEPT ![i] = P]
    /\ Go(i, "item")
    /\ UNCHANGED <<ordered, outboxVars, marked, stream, floor, faults>>

EndPage(i) ==
    /\ at[i] = "item" /\ page[i] = {}
    /\ Leave(i)
    /\ UNCHANGED <<ordered, outboxVars, marked, stream, floor, faults>>

\* Mutant: no hole is looked for.
TakeAnyItem(i) ==
    /\ at[i] = "item" /\ page[i] # {}
    /\ Go(i, "append")
    /\ UNCHANGED <<ordered, outboxVars, marked, stream, floor, page, faults>>
\* A hole in the sequence: the floor is read again, and if the hole is real
\* the page ends here.
TakeItem(i) ==
    /\ at[i] = "item" /\ page[i] # {}
    /\ LET s == Smallest(page[i]) IN
       \/ /\ ~ ordered \/ s <= floor[i] + 1
          /\ Go(i, "append") /\ UNCHANGED <<floor, page>>
       \/ /\ ordered /\ s > floor[i] + 1
          /\ Raise(i, Highest)
          /\ IF s <= Larger(floor[i], Highest) + 1
               THEN Go(i, "append") /\ UNCHANGED page ELSE Leave(i)
    /\ UNCHANGED <<ordered, outboxVars, marked, stream, faults>>

Appended(e) == IF e \in Seen THEN stream ELSE Append(stream, e)

AppendEvent(i) ==
    /\ at[i] = "append"
    /\ stream' = Appended(Smallest(page[i]))
    /\ Go(i, "mark")
    /\ UNCHANGED <<ordered, outboxVars, marked, floor, page, faults>>

\* An append that fails may have written its line.
AppendFails(i) ==
    /\ at[i] = "append"
    /\ stream' \in {stream, Appended(Smallest(page[i]))}
    /\ Leave(i)
    /\ UNCHANGED <<ordered, outboxVars, marked, floor, faults>>

\* mark_projected also lifts a deferral.
MarkProjected(i) ==
    /\ at[i] = "mark"
    /\ LET s == Smallest(page[i]) IN
       /\ marked' = marked \cup {s}
       /\ hidden' = hidden \ {s}
       /\ page' = [page EXCEPT ![i] = @ \ {s}]
       /\ IF ordered THEN Raise(i, s) ELSE UNCHANGED floor
    /\ Go(i, "item")
    /\ UNCHANGED <<ordered, source, stream, faults>>
MarkFails(i) ==
    /\ at[i] = "mark"
    /\ Leave(i)
    /\ UNCHANGED <<ordered, outboxVars, marked, stream, floor, faults>>

\* The process dies and another starts, or the future is dropped.
Restart(i) ==
    /\ faults < MaxFaults
    /\ faults' = faults + 1
    /\ Leave(i)
    /\ floor' = [floor EXCEPT ![i] = -1]
    /\ UNCHANGED <<ordered, outboxVars, marked, stream>>

ProjectOnce(i) ==
    \/ ScanFloor(i) \/ ReadOutboxPage(i) \/ EndPage(i) \/ TakeItem(i)
    \/ AppendEvent(i) \/ AppendFails(i) \/ MarkProjected(i) \/ MarkFails(i)

Produce == Emit /\ UNCHANGED <<ordered, hidden, projectorVars, faults>>

ProjectorNext ==
    \/ Produce
    \/ \E e \in 1 .. source : Defer(e) \/ Reappear(e)
    \/ \E i \in Instance : ProjectOnce(i) \/ Restart(i)

ProjectorSpec == ProjectorInit /\ [][ProjectorNext]_projectionVars

\* Loops run on, delays pass, and neither log nor store fails for ever.
Fairness ==
    /\ \A e \in 1 .. MaxEvents : WF_projectionVars(Reappear(e))
    /\ \A i \in Instance :
         /\ WF_projectionVars(ProjectOnce(i))
         /\ SF_projectionVars(AppendEvent(i)) /\ SF_projectionVars(MarkProjected(i))
ProjectorFairSpec == ProjectorSpec /\ Fairness

-----------------------------------------------------------------------------
(* Properties. *)

\* The variables have the declared shape, and whoever writes has an event to
\* write.
ProjectorTypeOK ==
    /\ ordered \in BOOLEAN /\ source \in 0 .. MaxEvents /\ faults \in 0 .. MaxFaults
    /\ hidden \subseteq 1 .. source /\ marked \subseteq 1 .. source
    /\ stream \in Seq(1 .. source)
    /\ floor \in [Instance -> -1 .. source]
    /\ page \in [Instance -> SUBSET (1 .. source)]
    /\ at \in [Instance -> Phase]
    /\ \A i \in Instance : at[i] \in {"append", "mark"} => page[i] # {}

\* Whatever instances overlap, die or lag behind, a reader of the stream meets
\* the events of the outbox in their order and without a gap.
StreamInOrder == \A k \in 1 .. Len(stream) : stream[k] = k

\* No event is acknowledged in the outbox before it is in the stream.
MarkedIsVisible == marked \subseteq Seen

\* What instances leave behind: the stream in order, and nothing acknowledged
\* that is not in it.
ProjectionSound == ProjectorTypeOK /\ StreamInOrder /\ MarkedIsVisible

\* Every event reaches the stream and is acknowledged.  (Neither is undone, and
\* []<> says the same as ~> does.)
EventsAreProjected ==
    \A e \in 1 .. MaxEvents : []<>(e <= source => e \in Seen /\ e \in marked)
=============================================================================
