----------------------------- MODULE MCEventLog -----------------------------
(***************************************************************************)
(* The event log under its writers and readers, and the projectors that    *)
(* fill it from an outbox, side by side.  A behaviour belongs to one of    *)
(* them and leaves the other at rest.                                      *)
(***************************************************************************)
EXTENDS EventLog, EventProjector, SequencesExt

VARIABLE part   \* what this behaviour is about

MCInit ==
    /\ Init /\ ProjectorInit /\ part \in {"log", "projectors"}
    /\ part = "log" => ordered
MCNext ==
    \/ part = "log" /\ Running /\ UNCHANGED <<part, projectionVars>>
    \/ part = "projectors" /\ ProjectorNext /\ UNCHANGED <<part, vars>>

MCFairSpec ==
    /\ MCInit /\ [][MCNext]_<<part, vars, projectionVars>>
    /\ \/ part = "log" /\ LogFairness
       \/ part = "projectors" /\ Fairness

\* What a reader that starts now would be given, page after page.
StreamNow ==
    LET lines == SetToSortSeq({i \in Readable : Accepted(Origin, i)}, <)
    IN  [k \in DOMAIN lines |-> Record(file[lines[k]])]

Contract == INSTANCE EventStreamContract WITH stream <- StreamNow

\* The stream as its readers see it only grows at its end, one record at a
\* time, with increasing numbers: no writer, interrupted where it may be,
\* rewrites, hides or reorders what append_blocking has committed.
ImplementsContract == Contract!Spec
=============================================================================
