----------------------------- MODULE AgentStore -----------------------------
(***************************************************************************)
(* The durable AgentRun store of vyane-agent (SqliteAgentStore): worker    *)
(* topology, every worker's ordered run queue, run leases, fenced control  *)
(* operations (tree cancellation and recovery) and two-stage completion.   *)
(*                                                                         *)
(* Every public operation of the store runs in one write transaction, so   *)
(* each is one action.  An operation that returns an error rolls back and  *)
(* is therefore a stuttering step; the guards are the conditions under     *)
(* which it commits.  Records are those of one owner.  Secrets, digests    *)
(* and holder names only decide whether a caller is the one the store      *)
(* handed a receipt, permit or ticket to: the caller of an action below is *)
(* always such a caller, but what it holds may be arbitrarily old.         *)
(***************************************************************************)
EXTENDS Integers, FiniteSets, FiniteSetsExt

CONSTANTS
    Worker, Run,          \* identities a client may create
    Backend,              \* claimable execution backends
    CancelOp,             \* caller-chosen cancel operation ids
    None,                 \* NULL
    LeaseTicks,           \* length of a run lease
    ControlTicks,         \* length of a control operation's lease
    TimeoutTicks,         \* execution timeout, fixed at claim
    MaxResumeAttempts,    \* max_resume_attempts of every run
    MaxTopologyNodes,     \* MAX_TOPOLOGY_NODES
    MaxTreeCancelRuns,    \* MAX_TREE_CANCEL_RUNS
    AvailableAt,          \* available_at a client may ask for
    ClockMayStepBack,     \* may the wall clock be set back?
    MaxTime, MaxRevision  \* bounds of the model: clock, renewals of one run

ASSUME TimingAssumption ==
    /\ LeaseTicks \in Nat \ {0} /\ ControlTicks \in Nat \ {0}
    /\ TimeoutTicks \in Nat \ {0} /\ MaxResumeAttempts \in Nat
    /\ AvailableAt \subseteq Nat /\ MaxTime \in Nat /\ MaxRevision \in Nat
    /\ MaxTopologyNodes \in Nat /\ MaxTreeCancelRuns \in Nat
    /\ ClockMayStepBack \in BOOLEAN

ASSUME IdentityAssumption ==
    /\ None \notin Worker \cup Run \cup Backend
    /\ CancelOp \cap Nat = {} \* recovery ids are drawn by the store itself

VARIABLES
    workers,     \* table workers
    runs,        \* table agent_runs
    ops,         \* table run_control_operations
    plans,       \* tables cancel_tree_operations, _workers and _runs
    completion,  \* table agent_run_completions, at most one row per run
    clock,       \* the wall clock
    latest       \* time of the owner's latest event

tables == <<workers, runs, ops, plans, completion>>
vars == <<workers, runs, ops, plans, completion, clock, latest>>

-----------------------------------------------------------------------------
(* Records.  Time 0 stands for NULL: every time the store writes is later. *)

Leased     == {"starting", "running"}
Active     == Leased \cup {"cancelling"}
Terminal   == {"succeeded", "failed", "timed_out", "cancelled", "interrupted"}
RunState   == {"absent", "queued"} \cup Active \cup Terminal
Lifecycle  == {"absent", "open", "draining", "released"}
\* Failure codes by what the store makes of them: controller_lost and
\* transport_interrupted can be resumed, "error" stands for the other codes.
Resumable  == {"interruption"}
Failure    == {"none", "error", "timed_out", "cancelled"} \cup Resumable
OpKind     == {"cancel", "lease_expired", "execution_timed_out",
               "cancellation_abandoned"}

NoPlan       == [root |-> None, workers |-> {}, queued |-> {},
                 controlled |-> {}]
NoCompletion == [status |-> "none", preparedRev |-> 0, endRev |-> 0,
                 byOp |-> 0]
NoRunRecord  == [state |-> "absent", worker |-> None, backend |-> None,
                 rev |-> 0, gen |-> 0, queue |-> 0, avail |-> 0,
                 deadline |-> 0, lease |-> 0, controller |-> "none",
                 failure |-> "none", binding |-> "none", resumeOf |-> None,
                 attempt |-> 0]

Init ==
    /\ workers = [w \in Worker |-> [life |-> "absent", parent |-> None,
                                    rev |-> 0]]
    /\ runs = [r \in Run |-> NoRunRecord]
    /\ ops = {}
    /\ plans = [c \in CancelOp |-> NoPlan]
    /\ completion = [r \in Run |-> NoCompletion]
    /\ clock = 0 /\ latest = 0

-----------------------------------------------------------------------------
(* Helpers. *)

\* The time of an operation never precedes the owner's latest event.
OperationNow == IF clock >= latest THEN clock ELSE latest

\* Bound of the model: a period of d ticks begun now ends before time does.
WithinHorizon(d) == OperationNow + d <= MaxTime

\* Every mutation records an event of its own time in the same transaction.
Record == latest' = OperationNow /\ clock' = clock

Open(w) == workers[w].life = "open"
RunsOf(w) == {r \in Run : runs[r].worker = w}
NextWorkerGeneration(w) == Max({0} \cup {runs[r].gen : r \in RunsOf(w)}) + 1
NextQueueSequence == Max({0} \cup {runs[r].queue : r \in Run}) + 1

NewRunRecord(w, b, a) ==
    [NoRunRecord EXCEPT !.state = "queued", !.worker = w, !.backend = b,
                        !.avail = a, !.queue = NextQueueSequence]

\* A receipt is honoured while its lease and its fixed deadline are live.
AuthenticatedRun(r, states) ==
    /\ runs[r].state \in states
    /\ runs[r].lease > OperationNow
    /\ runs[r].deadline > OperationNow

\* Every update of a row carries the next revision.
NextRevision(rec) == [rec EXCEPT !.rev = @ + 1]
Enter(worker, life) == [worker EXCEPT !.life = life, !.rev = @ + 1]

\* A terminal run keeps no lease and no controller.
Finish(rec, state, failure) ==
    [rec EXCEPT !.state = state, !.failure = failure, !.rev = @ + 1,
                !.lease = 0, !.controller = "none"]

Close(c, status, rev, op) ==
    [c EXCEPT !.status = status, !.endRev = rev, !.byOp = op]

\* A prepared completion of a run that ends otherwise is abandoned with it.
AbandonCompletionIfPrepared(r) ==
    completion' = [completion EXCEPT ![r] =
        IF @.status = "prepared"
          THEN Close(@, "abandoned", runs[r].rev + 1, 0) ELSE @]

ActiveOps(r) == {o \in ops : o.run = r /\ o.status = "active"}

FinishControlOperation(o, status) ==
    ops' = (ops \ {o}) \cup {[o EXCEPT !.status = status]}

\* The exact unexpired ticket of the operation that controls its run.
ControlTicketMatches(o, kinds) ==
    /\ o.status = "active" /\ o.kind \in kinds /\ o.expires > OperationNow
    /\ runs[o.run].state = "cancelling" /\ runs[o.run].rev = o.rev

\* S is what a query with ORDER BY key, queue_sequence LIMIT n may return.
OrderedPrefix(S, due, key(_)) ==
    /\ S # {}
    /\ \A s \in S, d \in due \ S :
         \/ key(s) < key(d)
         \/ key(s) = key(d) /\ runs[s].queue < runs[d].queue

-----------------------------------------------------------------------------
(* Workers and queueing. *)

OpenWorker(parent) == [life |-> "open", parent |-> parent, rev |-> 0]

CreateRoot(w, r, b, a) ==
    /\ workers[w].life = "absent" /\ runs[r].state = "absent"
    /\ workers' = [workers EXCEPT ![w] = OpenWorker(None)]
    /\ runs' = [runs EXCEPT ![r] = NewRunRecord(w, b, a)]
    /\ Record
    /\ UNCHANGED <<ops, plans, completion>>

\* Mutant: a draining parent may spawn.
SpawnUnderDraining(p, w, r, b, a) ==
    /\ workers[p].life \in {"open", "draining"}
    /\ workers[w].life = "absent" /\ runs[r].state = "absent"
    /\ workers' = [workers EXCEPT ![w] = OpenWorker(p)]
    /\ runs' = [runs EXCEPT ![r] = NewRunRecord(w, b, a)]
    /\ Record
    /\ UNCHANGED <<ops, plans, completion>>
SpawnChild(p, w, r, b, a) ==
    /\ Open(p)
    /\ workers[w].life = "absent" /\ runs[r].state = "absent"
    /\ workers' = [workers EXCEPT
         ![p] = NextRevision(@),
         ![w] = OpenWorker(p)]
    /\ runs' = [runs EXCEPT ![r] = NewRunRecord(w, b, a)]
    /\ Record
    /\ UNCHANGED <<ops, plans, completion>>

EnqueueRun(w, r, b, a) ==
    /\ Open(w) /\ runs[r].state = "absent"
    /\ runs' = [runs EXCEPT ![r] = NewRunRecord(w, b, a)]
    /\ Record
    /\ UNCHANGED <<workers, ops, plans, completion>>

\* A resume continues an interrupted run in a new queued run, once.
EnqueueResume(src, r, a) ==
    /\ runs[r].state = "absent"
    /\ runs[src].state = "interrupted" /\ runs[src].failure \in Resumable
    /\ runs[src].attempt < MaxResumeAttempts
    /\ Open(runs[src].worker)
    /\ runs[src].binding = "bound"
    /\ \A x \in Run : runs[x].resumeOf # src
    /\ runs' = [runs EXCEPT ![r] =
         [NewRunRecord(runs[src].worker, runs[src].backend, a) EXCEPT
            !.binding = "bound", !.resumeOf = src,
            !.attempt = runs[src].attempt + 1]]
    /\ Record
    /\ UNCHANGED <<workers, ops, plans, completion>>

ReleaseWorker(w) ==
    /\ workers[w].life = "draining"
    /\ \A r \in RunsOf(w) : runs[r].state \in Terminal
    /\ \A x \in Worker : workers[x].parent = w => workers[x].life = "released"
    /\ workers' = [workers EXCEPT ![w] = Enter(@, "released")]
    /\ Record
    /\ UNCHANGED <<runs, ops, plans, completion>>

-----------------------------------------------------------------------------
(* The life of a claimed run. *)

\* Due runs of a backend: the head of the queue of an idle, open worker.  The
\* head is taken over all backends.
DueQueued(w) ==
    {r \in RunsOf(w) : runs[r].state = "queued" /\ runs[r].avail <= OperationNow}

\* Mutant: the head of the queue is taken among the runs of the backend.
ClaimableOfBackend(b) ==
    {r \in Run :
       /\ runs[r].state = "queued" /\ runs[r].backend = b
       /\ runs[r].avail <= OperationNow
       /\ Open(runs[r].worker)
       /\ \A x \in RunsOf(runs[r].worker) : runs[x].state \notin Active
       /\ \A x \in DueQueued(runs[r].worker) : runs[x].backend = b =>
            /\ runs[x].avail >= runs[r].avail
            /\ runs[x].avail = runs[r].avail => runs[x].queue >= runs[r].queue}
ClaimableRuns(b) ==
    {r \in Run :
       /\ runs[r].state = "queued" /\ runs[r].backend = b
       /\ runs[r].avail <= OperationNow
       /\ Open(runs[r].worker)
       /\ \A x \in RunsOf(runs[r].worker) : runs[x].state \notin Active
       /\ \A x \in DueQueued(runs[r].worker) :
            /\ runs[x].avail >= runs[r].avail
            /\ runs[x].avail = runs[r].avail => runs[x].queue >= runs[r].queue}

Claim(rec, generation) ==
    [rec EXCEPT !.state = "starting", !.rev = @ + 1, !.gen = generation,
                !.deadline = OperationNow + TimeoutTicks,
                !.lease = OperationNow + LeaseTicks]

ClaimDue(b, S) ==
    /\ WithinHorizon(TimeoutTicks)
    /\ S \subseteq ClaimableRuns(b)
    /\ LET key(r) == runs[r].avail IN OrderedPrefix(S, ClaimableRuns(b), key)
    /\ runs' = [r \in Run |->
         IF r \notin S THEN runs[r]
         ELSE Claim(runs[r], NextWorkerGeneration(runs[r].worker))]
    /\ Record
    /\ UNCHANGED <<workers, ops, plans, completion>>

Attach(rec) == [rec EXCEPT !.state = "running", !.controller = "attached",
                           !.rev = @ + 1]

Start(r) ==
    /\ AuthenticatedRun(r, {"starting"})
    /\ runs' = [runs EXCEPT ![r] = Attach(@)]
    /\ Record
    /\ UNCHANGED <<workers, ops, plans, completion>>

Renew(rec, expiry) == [rec EXCEPT !.lease = Max({@, expiry}), !.rev = @ + 1]

\* A heartbeat renews the lease, never the deadline.
Heartbeat(r) ==
    /\ AuthenticatedRun(r, {"running"})
    /\ runs[r].rev < MaxRevision
    /\ runs' = [runs EXCEPT ![r] = Renew(@, OperationNow + LeaseTicks)]
    /\ Record
    /\ UNCHANGED <<workers, ops, plans, completion>>

RecordActivity(r) ==
    /\ AuthenticatedRun(r, {"running"})
    /\ completion[r].status = "none"
    /\ runs[r].rev < MaxRevision
    /\ runs' = [runs EXCEPT ![r] = NextRevision(@)]
    /\ Record
    /\ UNCHANGED <<workers, ops, plans, completion>>

Bind(rec) == [rec EXCEPT !.binding = "bound", !.rev = @ + 1]

\* A second binding of a bound run is idempotent or refused: no step.
BindResumeSession(r) ==
    /\ AuthenticatedRun(r, {"running"})
    /\ completion[r].status = "none"
    /\ runs[r].binding = "none"
    /\ runs' = [runs EXCEPT ![r] = Bind(@)]
    /\ Record
    /\ UNCHANGED <<workers, ops, plans, completion>>

\* The predicate every use of an ActiveExecutionPermit re-evaluates.
ExecutionPermitValid(r) ==
    /\ AuthenticatedRun(r, {"running"})
    /\ Open(runs[r].worker)
    /\ completion[r].status = "none"

\* Preparing freezes the run revision it saw; repeating it is idempotent.
PrepareCompletion(r) ==
    /\ ExecutionPermitValid(r)
    /\ completion' = [completion EXCEPT ![r] =
         [status |-> "prepared", preparedRev |-> runs[r].rev, endRev |-> 0,
          byOp |-> 0]]
    /\ Record
    /\ UNCHANGED <<workers, runs, ops, plans>>

CommitCompletion(r) ==
    /\ completion[r].status = "prepared"
    /\ AuthenticatedRun(r, {"running"})
    /\ ActiveOps(r) = {}
    /\ completion' = [completion EXCEPT ![r] =
         Close(@, "committed", runs[r].rev + 1, 0)]
    /\ runs' = [runs EXCEPT ![r] = Finish(@, "succeeded", "none")]
    /\ Record
    /\ UNCHANGED <<workers, ops, plans>>

\* RunSettlement: a failure has a code of its own, an interruption one that
\* can be resumed.
Settlements ==
    ({"failed"} \X (Failure \ {"none", "timed_out", "cancelled"}))
    \cup {<<"timed_out", "timed_out">>}
    \cup ({"interrupted"} \X Resumable)

Settle(r, outcome) ==
    /\ AuthenticatedRun(r, Leased)
    /\ runs' = [runs EXCEPT ![r] = Finish(@, outcome[1], outcome[2])]
    /\ AbandonCompletionIfPrepared(r)
    /\ Record
    /\ UNCHANGED <<workers, ops, plans>>

-----------------------------------------------------------------------------
(* Control operations: cancelling a tree, and recovering a run whose       *)
(* controller, deadline or canceller was lost.                             *)

\* Taking control of a run bumps its revision, which voids every receipt and
\* every earlier ticket.
TakeControl(rec) == [rec EXCEPT !.state = "cancelling", !.rev = @ + 1,
                                !.lease = 0, !.failure = "none"]

\* Mutant: the ticket carries the revision it read, not the one it wrote.
NewOperationStale(r, id, kind) ==
    [run |-> r, id |-> id, kind |-> kind, status |-> "active",
     rev |-> runs[r].rev, controller |-> runs[r].controller,
     expires |-> OperationNow + ControlTicks]
NewOperation(r, id, kind) ==
    [run |-> r, id |-> id, kind |-> kind, status |-> "active",
     rev |-> runs[r].rev + 1, controller |-> runs[r].controller,
     expires |-> OperationNow + ControlTicks]

\* Mutant: a used operation id is accepted again.
AnyOperation(r, id) == TRUE
\* The primary key: an operation id is used once per run.
FreshOperation(r, id) == \A o \in ops : o.run = r => o.id # id

\* The operations after taking control of the runs in S.
TakeOver(S, id(_), kind(_)) ==
    {IF o.run \in S /\ o.status = "active"
       THEN [o EXCEPT !.status = "superseded"] ELSE o : o \in ops}
    \cup {NewOperation(r, id(r), kind(r)) : r \in S}

\* The least set of workers that holds w and the children of its members.
Subtree(w) ==
    {x \in Worker : \A S \in SUBSET Worker :
        (w \in S /\ \A y \in Worker : workers[y].parent \in S => y \in S)
           => x \in S}

RunsIn(T, states) ==
    {r \in Run : runs[r].worker \in T /\ runs[r].state \in states}

\* A first request freezes the plan; a later one must find the tree within it.
FreezeOrMatchPlan(w, c, retry) ==
    LET T == Subtree(w)
        plan == [root |-> w, workers |-> T, queued |-> RunsIn(T, {"queued"}),
                 controlled |-> RunsIn(T, Active)]
    IN \/ /\ plans[c] = NoPlan /\ retry = {}
          /\ plans' = [plans EXCEPT ![c] = plan]
       \/ /\ plans[c].root = w /\ plans[c].workers = T
          /\ plan.queued \subseteq plans[c].queued
          /\ plan.controlled \subseteq plans[c].controlled
          /\ \A x \in T : ~ Open(x)
          /\ UNCHANGED plans

CancelTickets(c) == {o \in ops : o.id = c /\ o.status = "active"}

\* retry: the tickets of an earlier call for c that the caller presents again.
\* Every run under c's live operation must be presented, and nothing else.
RequestCancelTree(w, c, retry) ==
    LET T == Subtree(w)
        queued == RunsIn(T, {"queued"})
        reused == {o.run : o \in retry}
        taken == RunsIn(T, Active) \ reused
        opened == {x \in T : Open(x)}
        id(r) == c
        kind(r) == "cancel"
    IN /\ WithinHorizon(ControlTicks)
       /\ workers[w].life # "absent"
       /\ Cardinality(T) <= MaxTopologyNodes
       /\ Cardinality(queued \cup RunsIn(T, Active)) <= MaxTreeCancelRuns
       /\ FreezeOrMatchPlan(w, c, retry)
       /\ \A o \in retry :
            ControlTicketMatches(o, {"cancel"}) /\ o.run \in RunsIn(T, Active)
       /\ \A r \in taken :
            /\ \A o \in ActiveOps(r) : o.expires <= OperationNow
            /\ runs[r].state = "cancelling" => ActiveOps(r) # {}
            /\ FreshOperation(r, c)
       /\ workers' = [x \in Worker |->
            IF x \in opened
              THEN Enter(workers[x], "draining")
              ELSE workers[x]]
       /\ runs' = [r \in Run |->
            IF r \in queued THEN Finish(runs[r], "cancelled", "cancelled")
            ELSE IF r \in taken THEN TakeControl(runs[r]) ELSE runs[r]]
       /\ ops' = TakeOver(taken, id, kind)
       /\ IF opened \cup queued \cup taken = {}
            THEN UNCHANGED <<clock, latest>> ELSE Record
       /\ UNCHANGED completion

CancelOutcomes == {<<"cancelled", "cancelled">>,
                   <<"interrupted", "error">>}

SettleCancel(o, outcome) ==
    /\ ControlTicketMatches(o, {"cancel"})
    /\ runs' = [runs EXCEPT ![o.run] = Finish(@, outcome[1], outcome[2])]
    /\ AbandonCompletionIfPrepared(o.run)
    /\ FinishControlOperation(o, "settled")
    /\ Record
    /\ UNCHANGED <<workers, plans>>

\* Mutant: nobody takes over from a dead canceller.
RecoveryDueLeases ==
    {r \in Run :
       /\ runs[r].state \in Leased
       /\ runs[r].deadline <= OperationNow \/ runs[r].lease <= OperationNow}
\* A run is due for recovery when its deadline or lease passed, or when the
\* operation that controls it was abandoned.
RecoveryDue ==
    {r \in Run :
       \/ /\ runs[r].state \in Leased
          /\ runs[r].deadline <= OperationNow \/ runs[r].lease <= OperationNow
       \/ /\ runs[r].state = "cancelling"
          /\ \E o \in ActiveOps(r) : o.expires <= OperationNow}

ControllingOp(r) == CHOOSE o \in ops : o \in ActiveOps(r)

RecoveryKey(r) ==
    IF runs[r].deadline <= OperationNow THEN runs[r].deadline
    ELSE IF runs[r].state = "cancelling" THEN ControllingOp(r).expires
    ELSE runs[r].lease

\* Mutant: what was being cancelled is forgotten.
ReasonForgotten(r) ==
    IF runs[r].deadline <= OperationNow THEN "execution_timed_out"
    ELSE "lease_expired"
\* The deadline outranks the lease; an abandoned recovery keeps its reason.
RecoveryReason(r) ==
    IF runs[r].state \in Leased
      THEN IF runs[r].deadline <= OperationNow
             THEN "execution_timed_out" ELSE "lease_expired"
      ELSE IF ControllingOp(r).kind = "cancel"
             THEN "cancellation_abandoned" ELSE ControllingOp(r).kind

ClaimRecoveryDue(S) ==
    LET id(r) == runs[r].rev + 1 IN
    /\ S \subseteq RecoveryDue
    /\ OrderedPrefix(S, RecoveryDue, RecoveryKey)
    /\ runs' = [r \in Run |-> IF r \in S THEN TakeControl(runs[r]) ELSE runs[r]]
    /\ ops' = TakeOver(S, id, RecoveryReason)
    /\ Record
    /\ UNCHANGED <<workers, plans, completion>>

RecoveryKinds == OpKind \ {"cancel"}

RecoveryOutcome(kind) ==
    CASE kind = "lease_expired"          -> <<"interrupted", "interruption">>
      [] kind = "execution_timed_out"    -> <<"timed_out", "timed_out">>
      [] kind = "cancellation_abandoned" -> <<"cancelled", "cancelled">>

ConfirmControllerGone(o) ==
    /\ ControlTicketMatches(o, RecoveryKinds)
    /\ runs' = [runs EXCEPT ![o.run] =
         Finish(@, RecoveryOutcome(o.kind)[1], RecoveryOutcome(o.kind)[2])]
    /\ AbandonCompletionIfPrepared(o.run)
    /\ FinishControlOperation(o, "settled")
    /\ Record
    /\ UNCHANGED <<workers, plans>>

\* Mutant: any recovery may commit.
CommitUnderAnyRecovery(o) ==
    /\ ControlTicketMatches(o, RecoveryKinds)
    /\ completion[o.run].status = "prepared"
    /\ completion' = [completion EXCEPT ![o.run] =
         Close(@, "committed", runs[o.run].rev + 1, o.id)]
    /\ runs' = [runs EXCEPT ![o.run] = Finish(@, "succeeded", "none")]
    /\ FinishControlOperation(o, "settled")
    /\ Record
    /\ UNCHANGED <<workers, plans>>
\* A completion prepared before the lease was lost may still be committed.
CommitRecoveredCompletion(o) ==
    /\ ControlTicketMatches(o, {"lease_expired"})
    /\ completion[o.run].status = "prepared"
    /\ completion' = [completion EXCEPT ![o.run] =
         Close(@, "committed", runs[o.run].rev + 1, o.id)]
    /\ runs' = [runs EXCEPT ![o.run] = Finish(@, "succeeded", "none")]
    /\ FinishControlOperation(o, "settled")
    /\ Record
    /\ UNCHANGED <<workers, plans>>

-----------------------------------------------------------------------------
(* The wall clock, which an administrator or NTP may set back. *)

Tick ==
    /\ clock < MaxTime
    /\ clock' = clock + 1
    /\ UNCHANGED <<tables, latest>>

StepBack ==
    /\ ClockMayStepBack
    /\ \E t \in 0 .. clock - 1 : clock' = t
    /\ UNCHANGED <<tables, latest>>

Next ==
    \/ \E w \in Worker, r \in Run, b \in Backend, a \in AvailableAt :
         \/ CreateRoot(w, r, b, a)
         \/ EnqueueRun(w, r, b, a)
         \/ \E p \in Worker : SpawnChild(p, w, r, b, a)
    \/ \E src, r \in Run, a \in AvailableAt : EnqueueResume(src, r, a)
    \/ \E w \in Worker : ReleaseWorker(w)
    \/ \E b \in Backend, S \in SUBSET Run : ClaimDue(b, S)
    \/ \E r \in Run :
         \/ Start(r) \/ Heartbeat(r) \/ RecordActivity(r) \/ BindResumeSession(r)
         \/ PrepareCompletion(r) \/ CommitCompletion(r)
         \/ \E outcome \in Settlements : Settle(r, outcome)
    \/ \E w \in Worker, c \in CancelOp : \E retry \in SUBSET CancelTickets(c) :
         RequestCancelTree(w, c, retry)
    \/ \E o \in ops :
         \/ \E outcome \in CancelOutcomes : SettleCancel(o, outcome)
         \/ ConfirmControllerGone(o) \/ CommitRecoveredCompletion(o)
    \/ \E S \in SUBSET Run : ClaimRecoveryDue(S)
    \/ Tick \/ StepBack

Spec == Init /\ [][Next]_vars

\* The reconciler polls for ever and every controller is eventually confirmed
\* gone; nothing is assumed of hosts, cancellers or clients, which may crash.
Fairness ==
    /\ WF_vars(Tick)
    /\ WF_vars(\E S \in SUBSET Run : ClaimRecoveryDue(S))
    /\ WF_vars(\E o \in ops : ConfirmControllerGone(o))

FairSpec == Spec /\ Fairness

-----------------------------------------------------------------------------
(* Properties. *)

WorkerRecord == [life : Lifecycle, parent : Worker \cup {None}, rev : Nat]
RunRecord ==
    [state : RunState, worker : Worker \cup {None},
     backend : Backend \cup {None}, rev : Nat, gen : Nat, queue : Nat,
     avail : Nat, deadline : Nat, lease : Nat,
     controller : {"none", "attached"},
     failure : Failure, binding : {"none", "bound"}, resumeOf : Run \cup {None},
     attempt : Nat]
OpId == CancelOp \cup Nat
OpRecord ==
    [run : Run, id : OpId, kind : OpKind,
     status : {"active", "settled", "superseded"}, rev : Nat,
     controller : {"none", "attached"}, expires : Nat]
PlanRecord == [root : Worker \cup {None}, workers : SUBSET Worker,
               queued : SUBSET Run, controlled : SUBSET Run]
CompletionRecord ==
    [status : {"none", "prepared", "committed", "abandoned"},
     preparedRev : Nat, endRev : Nat, byOp : OpId]

\* The tables hold records of the declared shape.
TypeOK ==
    /\ workers \in [Worker -> WorkerRecord]
    /\ runs \in [Run -> RunRecord]
    /\ ops \subseteq OpRecord
    /\ plans \in [CancelOp -> PlanRecord]
    /\ completion \in [Run -> CompletionRecord]
    /\ clock \in Nat /\ latest \in Nat

\* validate_stored_run: what each state says of generation, lease, deadline,
\* controller and failure code.  update_run refuses a record that breaks it,
\* and opening the database audits every row, so a store that could write
\* one would lock itself out.
RunsWellFormed ==
    \A r \in Run : LET run == runs[r] IN
      /\ run.state # "absent" =>
           run.worker \in Worker /\ workers[run.worker].life # "absent"
      /\ run.state \in {"absent", "queued"} =>
           run.gen = 0 /\ run.deadline = 0 /\ run.controller = "none"
      /\ run.state \in Active => run.gen > 0 /\ run.deadline > 0
      /\ (run.state \in Leased) <=> (run.lease > 0)
      /\ run.state = "starting" => run.controller = "none"
      /\ run.state = "running" => run.controller = "attached"
      /\ run.state \in Terminal => run.controller = "none"
      /\ run.state = "timed_out" => run.failure = "timed_out"
      /\ run.state = "cancelled" => run.failure = "cancelled"
      /\ run.state = "failed" => run.failure \notin {"none", "timed_out", "cancelled"}
      /\ (run.state \in {"failed", "timed_out", "cancelled", "interrupted"})
            <=> (run.failure # "none")
      /\ (run.resumeOf = None) <=> (run.attempt = 0)
      /\ run.attempt <= MaxResumeAttempts

\* A run is cancelling exactly while one operation controls it, and that
\* operation was fenced at the run's current revision and controller; no
\* older ticket can match.  (invalid_control_state of the audit.)
ControlFenced ==
    /\ \A r \in Run : (runs[r].state = "cancelling") <=> (ActiveOps(r) # {})
    /\ \A o, p \in ops : o.run = p.run =>
         /\ o.id = p.id => o = p
         /\ o.status = "active" /\ p.status = "active" => o = p
    /\ \A o \in ops :
         /\ runs[o.run].gen > 0 /\ o.rev <= runs[o.run].rev
         /\ o.status = "active" => /\ o.rev = runs[o.run].rev
                                   /\ o.controller = runs[o.run].controller
         /\ o.kind = "cancel" =>
              o.id \in CancelOp /\ o.run \in plans[o.id].controlled

\* A completion is committed exactly when its run succeeded, prepared only
\* while the run can still succeed, and abandoned with any other end; one
\* committed by recovery names a settled lease_expired operation.
\* (audit_completion_integrity.)
CompletionFenced ==
    \A r \in Run : LET c == completion[r] IN
      /\ (c.status = "committed") <=> (runs[r].state = "succeeded")
      /\ c.status = "prepared" => runs[r].state \in {"running", "cancelling"}
      /\ c.status = "abandoned" => runs[r].state \in Terminal \ {"succeeded"}
      /\ c.status # "none" => c.preparedRev > 0 /\ c.preparedRev <= runs[r].rev
      /\ c.status \in {"committed", "abandoned"} => c.endRev = runs[r].rev
      /\ c.byOp # 0 => \E o \in ops : /\ o.run = r /\ o.id = c.byOp
                                       /\ o.kind = "lease_expired"
                                       /\ o.status = "settled"

\* The audit of runs, operations and completions that opening the database
\* makes would pass after every step: no sequence of legal calls, crashes and
\* take-overs locks the store out.
AuditPasses == TypeOK /\ RunsWellFormed /\ ControlFenced /\ CompletionFenced

\* A worker has at most one run in flight: the partial unique index on
\* active runs never has to refuse a claim.
OneActiveRunPerWorker ==
    \A r, x \in Run :
      /\ runs[r].state \in Active /\ runs[x].state \in Active
      /\ runs[r].worker = runs[x].worker
      => r = x

\* The generations of a worker's claimed runs are 1..n without a gap or a
\* repetition, and so are the queue numbers of all runs.
SequencesComplete ==
    /\ \A w \in Worker :
         LET claimed == {r \in RunsOf(w) : runs[r].gen > 0} IN
         {runs[r].gen : r \in claimed} = 1 .. Cardinality(claimed)
    /\ LET known == {r \in Run : runs[r].state # "absent"} IN
         {runs[r].queue : r \in known} = 1 .. Cardinality(known)

\* A worker that left the open state holds nothing that could still be
\* claimed or keep running unfenced, and a released one holds nothing live at
\* all, nor does its subtree.  (invalid_released of the audit.)
DrainedWorkersIdle ==
    /\ \A r \in Run : runs[r].state \in {"queued"} \cup Leased =>
         Open(runs[r].worker)
    /\ \A r \in Run : runs[r].state = "cancelling" =>
         workers[runs[r].worker].life # "released"
    /\ \A w \in Worker : workers[w].parent # None =>
         /\ workers[workers[w].parent].life # "absent"
         /\ workers[workers[w].parent].life = "released" =>
              workers[w].life = "released"

\* The topology is a forest.
TopologyAcyclic ==
    \A w \in Worker : workers[w].parent \notin Subtree(w)

\* A frozen cancel plan stays the tree's authority: its scope is the present
\* subtree, nobody in it is open again, whatever is not yet terminal there was
\* planned, queued members stayed cancelled and controlled members have their
\* fenced operation.  A replayed request can therefore never meet the
\* CorruptData branches.  (audit_cancel_tree_plans.)
CancelPlansHold ==
    \A c \in CancelOp : LET plan == plans[c] IN plan.root # None =>
      /\ plan.workers = Subtree(plan.root)
      /\ \A w \in plan.workers : workers[w].life \in {"draining", "released"}
      /\ RunsIn(plan.workers, {"queued"}) \subseteq plan.queued
      /\ RunsIn(plan.workers, Active) \subseteq plan.controlled
      /\ \A r \in plan.queued : runs[r].state = "cancelled"
      /\ \A r \in plan.controlled :
           \E o \in ops : o.run = r /\ o.id = c /\ o.kind = "cancel"

\* The audit of the topology and of frozen cancellations would pass as well,
\* whatever was spawned, enqueued, resumed or released around a cancellation.
TreeAuditPasses == DrainedWorkersIdle /\ TopologyAcyclic /\ CancelPlansHold

\* A run that a cancel operation ever controlled never succeeds, whatever
\* completion it had prepared and whoever takes over when the canceller dies.
CancelledNeverSucceeds ==
    \A o \in ops : o.kind = "cancel" =>
      /\ runs[o.run].state # "succeeded"
      /\ \A a \in ActiveOps(o.run) :
           a.kind \in {"cancel", "cancellation_abandoned"}

\* A worker executes its runs in the order they were queued and fell due,
\* whichever backends serve them: a later run never overtakes one that waits
\* for a backend nobody polls.
QueueOrder ==
    \A r, x \in Run :
      /\ runs[r].state # "absent" /\ runs[x].gen > 0
      /\ runs[r].worker = runs[x].worker
      /\ runs[r].queue < runs[x].queue /\ runs[r].avail <= runs[x].avail
      => \/ runs[r].gen > 0 /\ runs[r].gen < runs[x].gen
         \/ runs[r].gen = 0 /\ runs[r].state = "cancelled"

\* A resume continues an ended run of the same worker, at most once each.
ResumeChain ==
    \A r \in Run : LET src == runs[r].resumeOf IN src # None =>
      /\ runs[src].state = "interrupted"
      /\ runs[src].binding = "bound" /\ runs[r].binding = "bound"
      /\ runs[src].worker = runs[r].worker
      /\ runs[r].attempt = runs[src].attempt + 1
      /\ \A x \in Run : runs[x].resumeOf = src => x = r

\* The history of a worker: one run at a time, numbered without a gap, in the
\* order of its queue, each interrupted run resumed at most once.
WorkerHistory ==
    OneActiveRunPerWorker /\ SequencesComplete /\ QueueOrder /\ ResumeChain

\* A terminal run never changes again.
TerminalIsFinal ==
    [][\A r \in Run : runs[r].state \in Terminal =>
          runs'[r] = runs[r] /\ completion'[r] = completion[r]]_vars

\* Repeating a cancel request, with or without its tickets, changes nothing.
ReplayedCancelIsInert ==
    [][\A c \in CancelOp, w \in Worker : plans[c] # NoPlan =>
         ~ \E retry \in SUBSET CancelTickets(c) : RequestCancelTree(w, c, retry)
      ]_vars

\* The store implements the contract its clients rely on.
Place ==
    [r \in Run |->
       CASE runs[r].state = "absent"    -> "unborn"
         [] runs[r].state = "queued"    -> "waiting"
         [] runs[r].state \in Active    -> "seated"
         [] runs[r].state = "succeeded" -> "won"
         [] OTHER                       -> "lost"]

Home == [r \in Run |-> runs[r].worker]
Doomed == {o.run : o \in {p \in ops : p.kind = "cancel"}}

Contract == INSTANCE AgentRunContract WITH
    NoWorker <- None, place <- Place, home <- Home, doomed <- Doomed

\* Seats, ends and cancellations of the store are those of the contract.
ImplementsContract == Contract!CSpec

\* Every claimed run reaches a terminal state, even when its host stops
\* renewing or settling it and a canceller dies halfway.
ClaimedRunsEnd ==
    \A r \in Run : runs[r].state \in Active ~> runs[r].state \in Terminal

\* An accepted tree cancellation ends every run of the tree and leaves nothing
\* that could be claimed there.
CancelledTreesEnd ==
    \A c \in CancelOp : plans[c].root # None ~>
      \A r \in Run : runs[r].worker \in plans[c].workers =>
                       runs[r].state \in Terminal

\* Claimed runs and cancelled trees come to an end under a reconciler that
\* keeps running, although hosts and cancellers may die at any step.
RunsEnd == ClaimedRunsEnd /\ CancelledTreesEnd
=============================================================================
