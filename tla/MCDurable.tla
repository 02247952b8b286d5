----------------------------- MODULE MCDurable ------------------------------
(***************************************************************************)
(* What must outlive a process, side by side: the continuity plans of a    *)
(* goal, the journals of the workflow engine, a session under the dispatch *)
(* kernel, a delivery of the process lane, a detached task, and an event   *)
(* stream whose machine loses power.  A behaviour belongs to one of them   *)
(* and leaves the others at rest.                                          *)
(***************************************************************************)
EXTENDS Continuity, TLC

CONSTANTS
    Runs, Prepared, StepCount, Plans, MaxConcurrency, MaxSkips, MaxEngines,
    MaxExecutions, NoJournal,
    Event, Durability, Reader, ByteReader, Body, NameWithData, MaxAppends,
    MaxLosses, NoAppend, NoAllocator,
    Dispatches, Control, Tasks, Bindings, Flats, MaxOutages, NoFile, Nobody, d1, d2,
    Paths, Ceilings, MaxRevision, MaxCalls, NoRow,
    Cancellers, MaxLegs, Scenarios

VARIABLES
    part,   \* what this behaviour is about
    x1, x2, x3, x4, x5, x6, x7, x8, x9, x10, x11    \* the variables of that part

W == INSTANCE Workflow WITH
    plan <- x1, disk <- x2, mem <- x3, eng <- x4, cancel <- x5, tree <- x6,
    executions <- x7, read <- x8, overlapped <- x9

Log == INSTANCE EventLog WITH
    file <- x1, alloc <- x2, append <- x3, synced <- x4, onDisk <- x5, name <- x6,
    acked <- x7, cursor <- x8, delivered <- x9, appends <- x10, losses <- x11

S == INSTANCE Sessions WITH
    Dispatch <- Dispatches,
    v2 <- x1, flat <- x2, disk <- x3, lease <- x4, st <- x5, task <- x6, saved <- x7,
    outages <- x8

D == INSTANCE ProcessDelivery WITH
    Sessions <- Paths,
    ceiling <- x1, rcpt <- x2, effect <- x3, row <- x4, fence <- x5, dlv <- x6,
    run <- x7, marker <- x8, children <- x9, mem <- x10, calls <- x11

T == INSTANCE DetachedTask WITH
    NoOne <- 0, Canceller <- Cancellers, MaxRuns <- MaxLegs,
    row <- x1, parent <- x2, pipe <- x3, worker <- x4, group <- x5, sidecar <- x6,
    taken <- x7, amiss <- x8, can <- x9, legs <- x10

\* The permissions there are, and rows that are none.
ASSUME DeliveryAssumption ==
    /\ Ceilings \subseteq {"allow", "ask", "deny"} /\ MaxRevision \in Nat \ {0}
    /\ NoRow \notin D!Receipt /\ NoRow \notin D!ApprovalRow /\ NoRow \notin D!DeliveryRow

\* Chains that are not empty, a flat file of the first layout or none, and
\* names that do not meet.
ASSUME SessionAssumption ==
    /\ Dispatches \intersect Control = {} /\ "old" \notin S!Client /\ Nobody \notin S!Client
    /\ Tasks \subseteq [Dispatches -> [chain : Seq({"chat", "cli"}), inSession : BOOLEAN]]
    /\ \A t \in Tasks : \A d \in Dispatches : t[d].chain # <<>>
    /\ Flats \subseteq S!FlatRecord \union {NoFile} /\ NoFile \notin S!Envelope

\* Chains no longer than the numbers of groups.
ASSUME DetachedAssumption == T!ScenariosOK

\* Plans in topological order, and a permit at least.
ASSUME WorkflowAssumption == W!PlansOK

partVars == <<x1, x2, x3, x4, x5, x6, x7, x8, x9, x10, x11>>
allVars == <<part, vars, partVars>>

-----------------------------------------------------------------------------
(* The quota events of a goal are alike.                                   *)
QuotaEvents == Permutations(Events)

(* Policies that give plans of different shapes: every step, no checks,    *)
(* neither review nor checks, neither checks nor resume, no takeover.      *)
Full == [takeover |-> TRUE, review |-> TRUE, checks |-> TRUE, resume |-> TRUE]
MCPolicies == {Full, [Full EXCEPT !.checks = FALSE],
               [Full EXCEPT !.checks = FALSE, !.review = FALSE],
               [Full EXCEPT !.checks = FALSE, !.resume = FALSE],
               [Full EXCEPT !.takeover = FALSE]}

\* A workflow of three steps: what each needs, which may fail without ending
\* the run, which has several targets and which works in a tree of its own.
PlanOf(needs, keepGoing, fanOut, isolated) ==
    [needs |-> needs, keepGoing |-> keepGoing, fanOut |-> fanOut, isolated |-> isolated]

MCPlans ==
    { PlanOf(<<{}, {}, {1}>>, {1}, {2}, {3}),
      PlanOf(<<{}, {1}, {}>>, {3}, {}, {2}),
      PlanOf(<<{}, {1}, {2}>>, {1, 2}, {2}, {1}) }

\* Two dispatches into the session, one with a harness to fail over from, or
\* one of them outside it and free to stream.
TaskOf(chain, inSession) == [chain |-> chain, inSession |-> inSession]
MCSessionTasks ==
    { d1 :> TaskOf(<<"chat">>, TRUE) @@ d2 :> TaskOf(<<"cli", "chat">>, TRUE),
      d1 :> TaskOf(<<"chat">>, FALSE) @@ d2 :> TaskOf(<<"chat">>, TRUE) }

\* A worker with a chain of harnesses and one command that cancels it, and a
\* worker with one harness and all of them.
MCScenarios ==
    { [legs |-> MaxLegs, crew |-> {CHOOSE c \in Cancellers : TRUE}],
      [legs |-> 1, crew |-> Cancellers] }

\* A session of the first layout with one turn in it, or none.
OldSession == [native |-> "legacy", turns |-> <<[by |-> "old", on |-> 0]>>]
MCFlats == {NoFile, OldSession}
-----------------------------------------------------------------------------

\* Goals take the variables of Continuity, the others share x1 to x11.
MCInit ==
    \/ /\ part = "continuity" /\ Init
       /\ x1 = NoRow /\ x2 = NoRow /\ x3 = NoRow /\ x4 = NoRow /\ x5 = NoRow /\ x6 = NoRow
       /\ x7 = NoRow /\ x8 = NoRow /\ x9 = NoRow /\ x10 = NoRow /\ x11 = NoRow
    \/ /\ Init /\ policy = CHOOSE p \in Policies : TRUE
       /\ \/ /\ part = "workflow" /\ W!Init
             /\ x10 = NoRow /\ x11 = NoRow
          \/ part = "log" /\ Log!Init
          \/ part = "session" /\ S!Init /\ x9 = NoRow /\ x10 = NoRow /\ x11 = NoRow
          \/ part = "delivery" /\ D!Init
          \/ part = "detached" /\ T!Init /\ x11 = NoRow

MCNext ==
    \/ part = "continuity" /\ Next /\ UNCHANGED <<part, partVars>>
    \/ part = "workflow" /\ W!Next /\ UNCHANGED <<part, vars, x10, x11>>
    \/ part = "log" /\ Log!Next /\ UNCHANGED <<part, vars>>
    \/ part = "session" /\ S!Next /\ UNCHANGED <<part, vars, x9, x10, x11>>
    \/ part = "delivery" /\ D!Next /\ UNCHANGED <<part, vars>>
    \/ part = "detached" /\ T!Next /\ UNCHANGED <<part, vars, x11>>

MCSpec == MCInit /\ [][MCNext]_allVars

\* The journals of the workflow engine tell the truth about the steps, and a
\* step runs on recorded successes, as long as no start overtakes an engine at
\* work on its journal or a write to it.  (See Workflow.)
JournalsSound == part = "workflow" => W!JournalsSound

\* In steps that overtake no engine and no write: no recorded success is run
\* again, by a resume or a replay, and no worktree with work in it is removed,
\* reused or lost from the journal.
WorkKept == [][part = "workflow" => W!KeepsWork]_allVars

\* The event stream under power losses: what append_blocking acknowledged as
\* durable is still there, in order and under its own number.
StreamSurvives == part = "log" => Log!StreamSound

\* A session is exclusive under its lease, linear and durable, and an execution
\* calls each target at most once and leaves at most one record.
SessionsSound == part = "session" => S!SessionsSound /\ S!ExecutesOnce

\* A receipt of the process lane says completed only of what is, its effect
\* happened once and with the permission it needs.  (See ProcessDelivery.)
DeliverySound == part = "delivery" => D!DeliverySound

\* An approval decided, or a receipt that ended, stays what it is.
DecisionsStand == [][part = "delivery" => D!DecisionStands]_allVars

\* Of a detached task: what works for it is on record, a cancellation that
\* reports success stopped it, and no signal goes astray.  (See DetachedTask.)
DetachedSound == part = "detached" => T!DetachedSound

\* What the documents say of every resume: only work that did not succeed is
\* run again, so a success in the file of a run stays.  (See Workflow.)
SuccessesStand == [][part = "workflow" => W!SuccessStands]_allVars

\* What dispatch_prepared_inner says of a session: a model is called with its
\* transcript as it is, or not at all.  (See Sessions.)
ContinuityKept == part = "session" => S!ContinuityKept
=============================================================================
