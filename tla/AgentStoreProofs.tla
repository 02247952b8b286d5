-------------------------- MODULE AgentStoreProofs --------------------------
(***************************************************************************)
(* Theorems about the AgentRun store, for every set of workers and runs    *)
(* and every length of lease, deadline and control operation.              *)
(***************************************************************************)
EXTENDS AgentStore, FiniteSetTheorems, TLAPS

-----------------------------------------------------------------------------
(* Counters.  The store numbers runs and generations with MAX + 1, so the  *)
(* invariant has to say that a maximum exists.                             *)

Generations(w) == {0} \cup {runs[r].gen : r \in RunsOf(w)}
Places == {0} \cup {runs[r].queue : r \in Run}
HasMax(S) == \E m \in S : \A y \in S : m >= y

CountersBounded ==
    /\ HasMax(Places)
    /\ \A w \in Worker : HasMax(Generations(w))

\* The maximum of a set that has one is a member and an upper bound.
LEMMA MaxIsMember ==
    ASSUME NEW S, HasMax(S)
    PROVE  Max(S) \in S /\ \A y \in S : Max(S) >= y
BY DEF HasMax, Max

\* Two numbers have a maximum.
LEMMA MaxOfTwo ==
    ASSUME NEW a \in Nat, NEW b \in Nat
    PROVE  Max({a, b}) \in Nat /\ Max({a, b}) >= a /\ Max({a, b}) >= b
<1>1. HasMax({a, b})
  BY DEF HasMax
<1>. QED
  BY <1>1, MaxIsMember

\* The number a new run is queued under is new and positive.
LEMMA QueueNumberFresh ==
    ASSUME TypeOK, CountersBounded
    PROVE  /\ NextQueueSequence \in Nat \ {0}
           /\ \A r \in Run : runs[r].queue < NextQueueSequence
<1>1. Places \subseteq Nat
  BY DEF Places, TypeOK, RunRecord
<1>2. Max(Places) \in Places /\ \A y \in Places : Max(Places) >= y
  BY MaxIsMember DEF CountersBounded
<1>3. NextQueueSequence = Max(Places) + 1
  BY DEF NextQueueSequence, Places
<1>4. \A r \in Run : runs[r].queue \in Places
  BY DEF Places
<1>. QED
  BY <1>1, <1>2, <1>3, <1>4

\* The generation a claim assigns exceeds every earlier one of the worker.
LEMMA GenerationFresh ==
    ASSUME TypeOK, CountersBounded, NEW w \in Worker
    PROVE  /\ NextWorkerGeneration(w) \in Nat \ {0}
           /\ \A r \in RunsOf(w) : runs[r].gen < NextWorkerGeneration(w)
<1>1. Generations(w) \subseteq Nat
  BY DEF Generations, TypeOK, RunRecord, RunsOf
<1>2. Max(Generations(w)) \in Generations(w)
        /\ \A y \in Generations(w) : Max(Generations(w)) >= y
  BY MaxIsMember DEF CountersBounded
<1>3. NextWorkerGeneration(w) = Max(Generations(w)) + 1
  BY DEF NextWorkerGeneration, Generations
<1>4. \A r \in RunsOf(w) : runs[r].gen \in Generations(w)
  BY DEF Generations
<1>. QED
  BY <1>1, <1>2, <1>3, <1>4

\* The time of an operation is a natural number.
LEMMA OperationNowType ==
    ASSUME TypeOK
    PROVE  OperationNow \in Nat
BY DEF OperationNow, TypeOK

\* A run record is the tuple of its fields, each of its type.
LEMMA RunRecordFields ==
    ASSUME NEW rec \in RunRecord
    PROVE  /\ rec.state \in RunState /\ rec.worker \in Worker \cup {None}
           /\ rec.backend \in Backend \cup {None} /\ rec.rev \in Nat
           /\ rec.rev + 1 \in Nat
           /\ rec.gen \in Nat /\ rec.queue \in Nat /\ rec.avail \in Nat
           /\ rec.deadline \in Nat /\ rec.lease \in Nat
           /\ rec.controller \in {"none", "attached"} /\ rec.failure \in Failure
           /\ rec.binding \in {"none", "bound"} /\ rec.resumeOf \in Run \cup {None}
           /\ rec.attempt \in Nat /\ rec.attempt + 1 \in Nat
           /\ rec = [state |-> rec.state, worker |-> rec.worker,
                     backend |-> rec.backend, rev |-> rec.rev, gen |-> rec.gen,
                     queue |-> rec.queue, avail |-> rec.avail,
                     deadline |-> rec.deadline, lease |-> rec.lease,
                     controller |-> rec.controller, failure |-> rec.failure,
                     binding |-> rec.binding, resumeOf |-> rec.resumeOf,
                     attempt |-> rec.attempt]
BY DEF RunRecord

\* The states, failures and constants a step writes belong to their types.
LEMMA StatesTyped ==
    /\ 0 \in Nat /\ 0 \in OpId
    /\ {"absent", "queued", "starting", "running", "cancelling"} \subseteq RunState
    /\ Terminal \subseteq RunState
    /\ "none" \in Failure
    /\ \A outcome \in Settlements \cup CancelOutcomes :
         outcome[1] \in Terminal /\ outcome[2] \in Failure
    /\ "succeeded" \in Terminal
BY DEF RunState, Active, Leased, Terminal, Failure, Resumable, Settlements,
       CancelOutcomes, OpId

\* Every reason of a recovery has a terminal outcome.
LEMMA RecoveryOutcomeTyped ==
    ASSUME NEW kind \in RecoveryKinds
    PROVE  /\ RecoveryOutcome(kind)[1] \in Terminal \ {"succeeded"}
           /\ RecoveryOutcome(kind)[2] \in Failure
BY DEF RecoveryKinds, OpKind, RecoveryOutcome, Terminal, Failure, Resumable

\* Finishing a run record.
LEMMA FinishFields ==
    ASSUME NEW rec \in RunRecord, NEW s \in Terminal, NEW f \in Failure
    PROVE  LET fin == Finish(rec, s, f) IN
           /\ fin \in RunRecord
           /\ fin.state = s /\ fin.failure = f /\ fin.rev = rec.rev + 1
           /\ fin.lease = 0 /\ fin.controller = "none"
           /\ fin.worker = rec.worker /\ fin.gen = rec.gen
           /\ fin.queue = rec.queue /\ fin.avail = rec.avail
           /\ fin.deadline = rec.deadline /\ fin.binding = rec.binding
           /\ fin.resumeOf = rec.resumeOf /\ fin.attempt = rec.attempt
<1>1. s \in RunState
  BY StatesTyped
<1>2. Finish(rec, s, f) \in RunRecord
  BY <1>1, StatesTyped, RunRecordFields, Zenon DEF Finish, RunRecord
<1>. QED
  BY <1>2 DEF Finish, RunRecord

\* Taking control of a run record.
LEMMA TakeControlFields ==
    ASSUME NEW rec \in RunRecord
    PROVE  LET held == TakeControl(rec) IN
           /\ held \in RunRecord
           /\ held.state = "cancelling" /\ held.failure = "none"
           /\ held.rev = rec.rev + 1 /\ held.lease = 0
           /\ held.controller = rec.controller
           /\ held.worker = rec.worker /\ held.gen = rec.gen
           /\ held.queue = rec.queue /\ held.avail = rec.avail
           /\ held.deadline = rec.deadline /\ held.binding = rec.binding
           /\ held.resumeOf = rec.resumeOf /\ held.attempt = rec.attempt
<1>1. TakeControl(rec) \in RunRecord
  BY StatesTyped, RunRecordFields, Zenon DEF TakeControl, RunRecord
<1>. QED
  BY <1>1 DEF TakeControl, RunRecord

\* A worker record whose lifecycle moves.
LEMMA EnterFields ==
    ASSUME NEW worker \in WorkerRecord, NEW life \in Lifecycle
    PROVE  /\ Enter(worker, life) \in WorkerRecord
           /\ Enter(worker, life).life = life
           /\ Enter(worker, life).parent = worker.parent
<1>1. /\ worker = [life |-> worker.life, parent |-> worker.parent,
                   rev |-> worker.rev]
      /\ worker.parent \in Worker \cup {None} /\ worker.rev + 1 \in Nat
  BY DEF WorkerRecord
<1>2. Enter(worker, life) \in WorkerRecord
  BY <1>1, Zenon DEF Enter, WorkerRecord
<1>. QED
  BY <1>2 DEF Enter, WorkerRecord

\* A queued run record.
LEMMA NewRunFields ==
    ASSUME TypeOK, CountersBounded, NEW w \in Worker,
           NEW b \in Backend \cup {None}, NEW a \in Nat
    PROVE  LET new == NewRunRecord(w, b, a) IN
           /\ new \in RunRecord
           /\ new.state = "queued" /\ new.failure = "none" /\ new.rev = 0
           /\ new.lease = 0 /\ new.controller = "none" /\ new.worker = w
           /\ new.gen = 0 /\ new.queue = NextQueueSequence /\ new.avail = a
           /\ new.deadline = 0 /\ new.binding = "none" /\ new.resumeOf = None
           /\ new.attempt = 0 /\ new.backend = b
<1>1. NextQueueSequence \in Nat
  BY QueueNumberFresh
<1>2. NoRunRecord \in RunRecord
  BY StatesTyped DEF NoRunRecord, RunRecord
<1>3. NewRunRecord(w, b, a) \in RunRecord
  BY <1>1, <1>2, StatesTyped, RunRecordFields, Zenon DEF NewRunRecord, RunRecord
<1>. QED
  BY <1>2, <1>3 DEF NewRunRecord, NoRunRecord, RunRecord

-----------------------------------------------------------------------------
(* Effects: what an action does to the run table, field by field.          *)

\* One row of the run table is replaced.
LEMMA RowReplaced ==
    ASSUME runs \in [Run -> RunRecord], NEW r \in Run, NEW rec \in RunRecord,
           runs' = [runs EXCEPT ![r] = rec]
    PROVE  /\ runs' \in [Run -> RunRecord]
           /\ runs'[r] = rec
           /\ \A x \in Run : x # r => runs'[x] = runs[x]
OBVIOUS

\* What claim and enqueue fixed did not move in this step.
PlacesKept ==
    \A x \in Run : /\ runs'[x].gen = runs[x].gen
                   /\ runs'[x].queue = runs[x].queue
                   /\ runs'[x].worker = runs[x].worker

\* Counters are unaffected by a step that assigns no number.
LEMMA CountersKept ==
    ASSUME CountersBounded, PlacesKept
    PROVE  CountersBounded'
<1>1. Places' = Places
  BY DEF Places, PlacesKept
<1>2. \A w \in Worker : Generations(w)' = Generations(w)
  BY DEF Generations, RunsOf, PlacesKept
<1>. QED
  BY <1>1, <1>2 DEF CountersBounded, HasMax

Typed == TypeOK /\ CountersBounded

\* A queued run enters at row r, everything else in the table stays.
Inserted(r, rec) ==
    /\ runs[r].state = "absent"
    /\ runs' = [runs EXCEPT ![r] = rec]
    /\ rec.state = "queued" /\ rec.failure = "none" /\ rec.rev = 0
    /\ rec.lease = 0 /\ rec.controller = "none" /\ rec.gen = 0
    /\ rec.deadline = 0 /\ rec.queue = NextQueueSequence
    /\ rec.worker \in Worker /\ workers'[rec.worker].life = "open"
    /\ (rec.resumeOf = None) <=> (rec.attempt = 0)
    /\ rec.attempt <= MaxResumeAttempts

\* What an insertion leaves: live workers keep their lifecycle, and the other
\* tables do not change.
InsertionFrame ==
    /\ workers' \in [Worker -> WorkerRecord]
    /\ \A x \in Worker :
         workers[x].life # "absent" => workers'[x].life = workers[x].life
    /\ UNCHANGED <<ops, plans, completion>>
    /\ latest' \in Nat /\ clock' \in Nat

InsertionStep == InsertionFrame /\ \E r \in Run, rec \in RunRecord : Inserted(r, rec)

\* Recording an event keeps the clocks natural numbers.
LEMMA RecordTyped ==
    ASSUME TypeOK, Record
    PROVE  latest' \in Nat /\ clock' \in Nat
BY OperationNowType DEF Record, TypeOK

\* A queued record is fit to be inserted at an absent row.
LEMMA NewRunInserted ==
    ASSUME Typed, NEW w \in Worker, NEW r \in Run, NEW b \in Backend,
           NEW a \in AvailableAt, runs[r].state = "absent",
           runs' = [runs EXCEPT ![r] = NewRunRecord(w, b, a)],
           workers'[w].life = "open"
    PROVE  \E rec \in RunRecord : Inserted(r, rec)
<1>. DEFINE new == NewRunRecord(w, b, a)
<1>1. /\ new \in RunRecord
      /\ new.state = "queued" /\ new.failure = "none" /\ new.rev = 0
      /\ new.lease = 0 /\ new.controller = "none" /\ new.gen = 0
      /\ new.deadline = 0 /\ new.queue = NextQueueSequence
      /\ new.worker = w /\ new.resumeOf = None /\ new.attempt = 0
  BY TimingAssumption, NewRunFields DEF Typed
<1>2. Inserted(r, new)
  BY <1>1, TimingAssumption DEF Inserted
<1>. QED
  BY <1>1, <1>2

\* create_root inserts a worker and its first run.
LEMMA CreateRootEffect ==
    ASSUME Typed, NEW w \in Worker, NEW r \in Run, NEW b \in Backend,
           NEW a \in AvailableAt, CreateRoot(w, r, b, a)
    PROVE  InsertionStep
<1>1. /\ workers' \in [Worker -> WorkerRecord] /\ workers'[w].life = "open"
      /\ \A x \in Worker :
           workers[x].life # "absent" => workers'[x].life = workers[x].life
  BY DEF CreateRoot, OpenWorker, Typed, TypeOK, WorkerRecord, Lifecycle
<1>2. \E rec \in RunRecord : Inserted(r, rec)
  BY <1>1, NewRunInserted DEF CreateRoot
<1>. QED
  BY <1>1, <1>2, RecordTyped DEF CreateRoot, Typed, InsertionStep, InsertionFrame

\* enqueue_run inserts a run of an open worker.
LEMMA EnqueueRunEffect ==
    ASSUME Typed, NEW w \in Worker, NEW r \in Run, NEW b \in Backend,
           NEW a \in AvailableAt, EnqueueRun(w, r, b, a)
    PROVE  InsertionStep
<1>1. \E rec \in RunRecord : Inserted(r, rec)
  BY NewRunInserted DEF EnqueueRun, Open
<1>. QED
  BY <1>1, RecordTyped
     DEF EnqueueRun, Typed, TypeOK, InsertionStep, InsertionFrame

\* spawn_child inserts a worker and its first run, and touches its parent.
LEMMA SpawnChildEffect ==
    ASSUME Typed, NEW p \in Worker, NEW w \in Worker, NEW r \in Run,
           NEW b \in Backend, NEW a \in AvailableAt, SpawnChild(p, w, r, b, a)
    PROVE  InsertionStep
<1>1. p # w
  BY DEF SpawnChild, Open
<1>2. /\ OpenWorker(p) \in WorkerRecord /\ OpenWorker(p).life = "open"
      /\ NextRevision(workers[p]) \in WorkerRecord
      /\ NextRevision(workers[p]).life = workers[p].life
  BY DEF NextRevision, OpenWorker, Typed, TypeOK, WorkerRecord, Lifecycle
<1>3. workers' = [workers EXCEPT ![p] = NextRevision(@), ![w] = OpenWorker(p)]
  BY DEF SpawnChild
<1>4. /\ workers'[w] = OpenWorker(p) /\ workers'[p] = NextRevision(workers[p])
      /\ \A x \in Worker : x # p /\ x # w => workers'[x] = workers[x]
      /\ workers' \in [Worker -> WorkerRecord]
  BY <1>1, <1>2, <1>3 DEF Typed, TypeOK
<1>5. \A x \in Worker :
        workers[x].life # "absent" => workers'[x].life = workers[x].life
  BY <1>2, <1>4 DEF SpawnChild
<1>6. \E rec \in RunRecord : Inserted(r, rec)
  BY <1>2, <1>4, NewRunInserted DEF SpawnChild
<1>. QED
  BY <1>4, <1>5, <1>6, RecordTyped DEF SpawnChild, Typed, InsertionStep, InsertionFrame

\* enqueue_resume inserts a run that copies its source's frozen fields.
LEMMA EnqueueResumeEffect ==
    ASSUME Typed, RunsWellFormed, NEW src \in Run, NEW r \in Run,
           NEW a \in AvailableAt, EnqueueResume(src, r, a)
    PROVE  InsertionStep
<1>. DEFINE base == NewRunRecord(runs[src].worker, runs[src].backend, a)
            rec == [base EXCEPT !.binding = "bound", !.resumeOf = src,
                                !.attempt = runs[src].attempt + 1]
<1>1. /\ runs[src] \in RunRecord /\ runs[src].attempt \in Nat
      /\ runs[src].attempt < MaxResumeAttempts
      /\ workers[runs[src].worker].life = "open"
  BY DEF EnqueueResume, Open, Typed, TypeOK, RunRecord
<1>2. runs[src].worker \in Worker /\ runs[src].backend \in Backend \cup {None}
  BY DEF EnqueueResume, RunsWellFormed, Typed, TypeOK, RunRecord
<1>3. /\ base \in RunRecord
      /\ base.state = "queued" /\ base.failure = "none" /\ base.rev = 0
      /\ base.lease = 0 /\ base.controller = "none" /\ base.gen = 0
      /\ base.deadline = 0 /\ base.queue = NextQueueSequence
      /\ base.worker = runs[src].worker
  BY <1>2, NewRunFields, TimingAssumption DEF Typed
<1>. HIDE DEF base
<1>4. rec \in RunRecord
  BY <1>1, <1>3, StatesTyped, RunRecordFields, Zenon DEF RunRecord
<1>5. /\ rec.state = "queued" /\ rec.failure = "none" /\ rec.rev = 0
      /\ rec.lease = 0 /\ rec.controller = "none" /\ rec.gen = 0
      /\ rec.deadline = 0 /\ rec.queue = NextQueueSequence
      /\ rec.worker = runs[src].worker /\ rec.resumeOf = src
      /\ rec.attempt = runs[src].attempt + 1
  BY <1>3 DEF RunRecord
<1>6. /\ runs' = [runs EXCEPT ![r] = rec] /\ runs[r].state = "absent"
      /\ workers' = workers
  BY DEF EnqueueResume, base
<1>. HIDE DEF rec
<1>7. (rec.resumeOf = None) <=> (rec.attempt = 0)
  BY <1>1, <1>5, IdentityAssumption
<1>8. rec.attempt <= MaxResumeAttempts
  BY <1>1, <1>5, TimingAssumption
<1>9. Inserted(r, rec)
  BY <1>1, <1>2, <1>5, <1>6, <1>7, <1>8 DEF Inserted
<1>. QED
  BY <1>4, <1>6, <1>9, RecordTyped
     DEF EnqueueResume, Typed, TypeOK, InsertionStep, InsertionFrame

\* An insertion keeps the tables well typed and the counters bounded.
LEMMA InsertionTyped ==
    ASSUME Typed, RunsWellFormed, InsertionStep
    PROVE  Typed'
<1>1. PICK r \in Run, rec \in RunRecord : Inserted(r, rec)
  BY DEF InsertionStep
<1>2. /\ runs' \in [Run -> RunRecord] /\ runs'[r] = rec
      /\ \A x \in Run : x # r => runs'[x] = runs[x]
  BY <1>1, RowReplaced DEF Inserted, Typed, TypeOK
<1>3. TypeOK'
  BY <1>2 DEF InsertionStep, InsertionFrame, Typed, TypeOK
<1>4. HasMax(Places)'
  <2>1. rec.queue \in Places' /\ rec.queue \in Nat
    BY <1>2 DEF Places, RunRecord
  <2>2. \A y \in Places' : rec.queue >= y
    BY <1>1, <1>2, QueueNumberFresh DEF Inserted, Places, Typed, TypeOK, RunRecord
  <2>. QED
    BY <2>1, <2>2 DEF HasMax
<1>5. ASSUME NEW w \in Worker
      PROVE  HasMax(Generations(w))'
  <2>1. runs[r].gen = 0 /\ rec.gen = 0
    BY <1>1 DEF Inserted, RunsWellFormed
  <2>2. Generations(w)' = Generations(w)
    BY <1>2, <2>1 DEF Generations, RunsOf
  <2>. QED
    BY <2>2 DEF Typed, CountersBounded, HasMax
<1>. QED
  BY <1>3, <1>4, <1>5 DEF Typed, CountersBounded

-----------------------------------------------------------------------------
(* Effects of the lease holder's operations.                               *)

\* The fields that nothing changes once a run is claimed.
SameOrigin(rec, old) ==
    /\ rec.worker = old.worker /\ rec.gen = old.gen /\ rec.queue = old.queue
    /\ rec.deadline = old.deadline /\ rec.resumeOf = old.resumeOf
    /\ rec.attempt = old.attempt /\ rec.avail = old.avail
    /\ old.binding = "bound" => rec.binding = "bound"

\* A leased run at row r moves to its next revision and is running.
Advanced(r, rec) ==
    /\ runs[r].state \in Leased
    /\ runs' = [runs EXCEPT ![r] = rec]
    /\ rec.state = "running" /\ rec.controller = "attached" /\ rec.lease > 0
    /\ rec.rev = runs[r].rev + 1 /\ rec.failure = runs[r].failure
    /\ SameOrigin(rec, runs[r])

AdvanceStep ==
    /\ \E r \in Run, rec \in RunRecord : Advanced(r, rec)
    /\ UNCHANGED <<workers, ops, plans, completion>>
    /\ latest' \in Nat /\ clock' \in Nat

\* start, heartbeat, record_activity and bind_resume_session advance one run.
LEMMA AdvanceEffect ==
    ASSUME Typed, RunsWellFormed, NEW r \in Run,
           Start(r) \/ Heartbeat(r) \/ RecordActivity(r) \/ BindResumeSession(r)
    PROVE  AdvanceStep
<1>. DEFINE old == runs[r]
<1>1. /\ old \in RunRecord /\ old.lease \in Nat /\ OperationNow \in Nat
      /\ OperationNow + LeaseTicks \in Nat
  BY OperationNowType, TimingAssumption DEF Typed, TypeOK, RunRecord
<1>2. AuthenticatedRun(r, Leased) /\ Record /\ UNCHANGED <<workers, ops, plans, completion>>
  BY DEF Start, Heartbeat, RecordActivity, BindResumeSession, AuthenticatedRun, Leased
<1>3. old.state \in Leased /\ old.lease > 0
  BY <1>1, <1>2 DEF AuthenticatedRun
<1>4. CASE Start(r)
  <2>1. Attach(old) \in RunRecord
    BY <1>1, StatesTyped, RunRecordFields, Zenon DEF Attach, RunRecord
  <2>2. /\ Attach(old).state = "running" /\ Attach(old).controller = "attached"
        /\ Attach(old).lease = old.lease /\ Attach(old).rev = old.rev + 1
        /\ Attach(old).failure = old.failure /\ SameOrigin(Attach(old), old)
    BY <1>1 DEF Attach, RunRecord, SameOrigin
  <2>3. Advanced(r, Attach(old))
    BY <1>3, <1>4, <2>2 DEF Start, Advanced
  <2>. QED
    BY <1>2, <2>1, <2>3, RecordTyped DEF AdvanceStep, Typed
<1>5. CASE Heartbeat(r)
  <2>. DEFINE rec == Renew(old, OperationNow + LeaseTicks)
  <2>1. /\ Max({old.lease, OperationNow + LeaseTicks}) \in Nat
        /\ Max({old.lease, OperationNow + LeaseTicks}) >= old.lease
    BY <1>1, MaxOfTwo
  <2>2. rec \in RunRecord
    BY <1>1, <2>1, StatesTyped, RunRecordFields, Zenon DEF Renew, RunRecord
  <2>3. /\ rec.state = old.state /\ rec.controller = old.controller
        /\ rec.lease = Max({old.lease, OperationNow + LeaseTicks})
        /\ rec.rev = old.rev + 1 /\ rec.failure = old.failure
        /\ SameOrigin(rec, old)
    BY <1>1 DEF Renew, RunRecord, SameOrigin
  <2>4. old.state = "running" /\ old.controller = "attached"
    BY <1>5 DEF Heartbeat, AuthenticatedRun, RunsWellFormed
  <2>5. rec.lease > 0
    BY <1>1, <1>3, <2>1, <2>3
  <2>6. runs' = [runs EXCEPT ![r] = rec]
    BY <1>5 DEF Heartbeat
  <2>7. Advanced(r, rec)
    BY <1>3, <2>3, <2>4, <2>5, <2>6 DEF Advanced
  <2>. QED
    BY <1>2, <2>2, <2>7, RecordTyped DEF AdvanceStep, Typed
<1>6. CASE RecordActivity(r)
  <2>1. NextRevision(old) \in RunRecord
    BY <1>1, StatesTyped, RunRecordFields, Zenon DEF NextRevision, RunRecord
  <2>2. /\ NextRevision(old).state = old.state
        /\ NextRevision(old).controller = old.controller
        /\ NextRevision(old).lease = old.lease
        /\ NextRevision(old).rev = old.rev + 1
        /\ NextRevision(old).failure = old.failure
        /\ SameOrigin(NextRevision(old), old)
    BY <1>1 DEF NextRevision, RunRecord, SameOrigin
  <2>3. old.state = "running" /\ old.controller = "attached"
    BY <1>6 DEF RecordActivity, AuthenticatedRun, RunsWellFormed
  <2>4. Advanced(r, NextRevision(old))
    BY <1>3, <1>6, <2>2, <2>3 DEF RecordActivity, Advanced
  <2>. QED
    BY <1>2, <2>1, <2>4, RecordTyped DEF AdvanceStep, Typed
<1>7. CASE BindResumeSession(r)
  <2>1. Bind(old) \in RunRecord
    BY <1>1, StatesTyped, RunRecordFields, Zenon DEF Bind, RunRecord
  <2>2. /\ Bind(old).state = old.state /\ Bind(old).controller = old.controller
        /\ Bind(old).lease = old.lease /\ Bind(old).rev = old.rev + 1
        /\ Bind(old).failure = old.failure /\ SameOrigin(Bind(old), old)
    BY <1>1 DEF Bind, RunRecord, SameOrigin
  <2>3. old.state = "running" /\ old.controller = "attached"
    BY <1>7 DEF BindResumeSession, AuthenticatedRun, RunsWellFormed
  <2>4. Advanced(r, Bind(old))
    BY <1>3, <1>7, <2>2, <2>3 DEF BindResumeSession, Advanced
  <2>. QED
    BY <1>2, <2>1, <2>4, RecordTyped DEF AdvanceStep, Typed
<1>. QED
  BY <1>4, <1>5, <1>6, <1>7

\* Advancing a run keeps the tables well typed.
LEMMA AdvanceTyped ==
    ASSUME Typed, AdvanceStep
    PROVE  Typed'
<1>1. PICK r \in Run, rec \in RunRecord : Advanced(r, rec)
  BY DEF AdvanceStep
<1>2. /\ runs' \in [Run -> RunRecord] /\ runs'[r] = rec
      /\ \A x \in Run : x # r => runs'[x] = runs[x]
  BY <1>1, RowReplaced DEF Advanced, Typed, TypeOK
<1>3. TypeOK'
  BY <1>2 DEF AdvanceStep, Typed, TypeOK
<1>4. PlacesKept
  BY <1>1, <1>2 DEF PlacesKept, Advanced, SameOrigin
<1>. QED
  BY <1>3, <1>4, CountersKept DEF Typed

-----------------------------------------------------------------------------
(* Effects of the operations that end a run.                               *)

EndConsistent(s, f) ==
    /\ s \in Terminal /\ f \in Failure
    /\ (s = "succeeded") <=> (f = "none")
    /\ s = "timed_out" => f = "timed_out"
    /\ s = "cancelled" => f = "cancelled"
    /\ s = "failed" => f \notin {"none", "timed_out", "cancelled"}

\* Run r, which was in flight, ends in state s with failure f.
Ended(r, s, f) ==
    /\ EndConsistent(s, f)
    /\ runs[r].state \in Active
    /\ runs' = [runs EXCEPT ![r] = Finish(runs[r], s, f)]

\* The completion of r closes with its run: committed by op or abandoned.
CompletionClosed(r, s, op) ==
    /\ completion' \in [Run -> CompletionRecord]
    /\ \A x \in Run : x # r => completion'[x] = completion[x]
    /\ completion'[r].preparedRev = completion[r].preparedRev
    /\ IF completion[r].status = "prepared"
         THEN /\ completion'[r].endRev = runs[r].rev + 1
              /\ s = "succeeded" => /\ completion'[r].status = "committed"
                                    /\ completion'[r].byOp = op
              /\ s # "succeeded" => /\ completion'[r].status = "abandoned"
                                    /\ completion'[r].byOp = 0
         ELSE s # "succeeded" /\ completion'[r] = completion[r]

HolderEndStep ==
    /\ \E r \in Run, s \in Terminal, f \in Failure :
         /\ Ended(r, s, f) /\ runs[r].state \in Leased
         /\ CompletionClosed(r, s, 0)
    /\ UNCHANGED <<workers, ops, plans>>
    /\ latest' \in Nat /\ clock' \in Nat

TicketEndStep ==
    /\ \E o \in ops, s \in Terminal, f \in Failure :
         /\ Ended(o.run, s, f)
         /\ runs[o.run].state = "cancelling" /\ o.status = "active"
         /\ s = "succeeded" => o.kind = "lease_expired"
         /\ CompletionClosed(o.run, s, o.id)
         /\ FinishControlOperation(o, "settled")
    /\ UNCHANGED <<workers, plans>>
    /\ latest' \in Nat /\ clock' \in Nat

\* Closing a completion record.
LEMMA CloseFields ==
    ASSUME NEW c \in CompletionRecord, NEW rev \in Nat,
           NEW status \in {"committed", "abandoned"}, NEW op \in OpId
    PROVE  /\ Close(c, status, rev, op) \in CompletionRecord
           /\ Close(c, status, rev, op).status = status
           /\ Close(c, status, rev, op).endRev = rev
           /\ Close(c, status, rev, op).byOp = op
           /\ Close(c, status, rev, op).preparedRev = c.preparedRev
<1>1. /\ c = [status |-> c.status, preparedRev |-> c.preparedRev,
              endRev |-> c.endRev, byOp |-> c.byOp]
      /\ c.preparedRev \in Nat
      /\ status \in {"none", "prepared", "committed", "abandoned"}
  BY DEF CompletionRecord
<1>2. Close(c, status, rev, op) \in CompletionRecord
  BY <1>1, Zenon DEF Close, CompletionRecord
<1>. QED
  BY <1>2 DEF Close, CompletionRecord

\* Committing closes a prepared completion as committed.
LEMMA CommitCloses ==
    ASSUME TypeOK, NEW r \in Run, NEW op \in OpId,
           completion[r].status = "prepared",
           completion' = [completion EXCEPT ![r] =
                            Close(@, "committed", runs[r].rev + 1, op)]
    PROVE  CompletionClosed(r, "succeeded", op)
<1>. DEFINE closed == Close(completion[r], "committed", runs[r].rev + 1, op)
<1>1. completion[r] \in CompletionRecord /\ runs[r].rev + 1 \in Nat
  BY DEF TypeOK, RunRecord
<1>2. /\ closed \in CompletionRecord /\ closed.status = "committed"
      /\ closed.endRev = runs[r].rev + 1 /\ closed.byOp = op
      /\ closed.preparedRev = completion[r].preparedRev
  BY <1>1, CloseFields
<1>3. completion' = [completion EXCEPT ![r] = closed]
  OBVIOUS
<1>. HIDE DEF closed
<1>. QED
  BY <1>2, <1>3 DEF CompletionClosed, TypeOK

\* Any other end abandons a prepared completion and leaves others alone.
LEMMA AbandonCloses ==
    ASSUME TypeOK, NEW r \in Run, NEW s \in Terminal \ {"succeeded"}, NEW op,
           AbandonCompletionIfPrepared(r)
    PROVE  CompletionClosed(r, s, op)
<1>. DEFINE closed == Close(completion[r], "abandoned", runs[r].rev + 1, 0)
            next == IF completion[r].status = "prepared" THEN closed ELSE completion[r]
<1>1. completion[r] \in CompletionRecord /\ runs[r].rev + 1 \in Nat
  BY DEF TypeOK, RunRecord
<1>2. /\ closed \in CompletionRecord /\ closed.status = "abandoned"
      /\ closed.endRev = runs[r].rev + 1 /\ closed.byOp = 0
      /\ closed.preparedRev = completion[r].preparedRev
  <2>1. \A noOp \in OpId :
          LET abandoned == Close(completion[r], "abandoned", runs[r].rev + 1, noOp)
          IN /\ abandoned \in CompletionRecord /\ abandoned.status = "abandoned"
             /\ abandoned.endRev = runs[r].rev + 1 /\ abandoned.byOp = noOp
             /\ abandoned.preparedRev = completion[r].preparedRev
    BY <1>1, CloseFields
  <2>2. 0 \in OpId
    BY DEF OpId
  <2>. QED
    BY <2>1, <2>2, Zenon
<1>3. completion' = [completion EXCEPT ![r] = next]
  BY DEF AbandonCompletionIfPrepared
<1>. HIDE DEF closed
<1>4. next \in CompletionRecord
  BY <1>1, <1>2
<1>. QED
  BY <1>2, <1>3, <1>4 DEF CompletionClosed, TypeOK

\* commit_completion and settle end a leased run.
LEMMA HolderEndEffect ==
    ASSUME Typed, NEW r \in Run,
           CommitCompletion(r) \/ \E outcome \in Settlements : Settle(r, outcome)
    PROVE  HolderEndStep
<1>. USE DEF Typed
<1>1. CASE CommitCompletion(r)
  <2>1. EndConsistent("succeeded", "none")
    BY DEF EndConsistent, Terminal, Failure
  <2>2. runs[r].state \in Leased /\ runs[r].state \in Active
    BY <1>1 DEF CommitCompletion, AuthenticatedRun, Leased, Active
  <2>3. CompletionClosed(r, "succeeded", 0)
    BY <1>1, StatesTyped, CommitCloses DEF CommitCompletion
  <2>4. Ended(r, "succeeded", "none")
    BY <1>1, <2>1, <2>2 DEF CommitCompletion, Ended
  <2>. QED
    BY <1>1, <2>1, <2>2, <2>3, <2>4, RecordTyped
       DEF HolderEndStep, CommitCompletion, EndConsistent
<1>2. CASE \E outcome \in Settlements : Settle(r, outcome)
  <2>1. PICK outcome \in Settlements : Settle(r, outcome)
    BY <1>2
  <2>. DEFINE s == outcome[1]  f == outcome[2]
  <2>2. EndConsistent(s, f) /\ s \in Terminal \ {"succeeded"}
    BY DEF Settlements, EndConsistent, Terminal, Failure, Resumable
  <2>3. runs[r].state \in Leased /\ runs[r].state \in Active
    BY <2>1 DEF Settle, AuthenticatedRun, Leased, Active
  <2>4. CompletionClosed(r, s, 0)
    BY <2>1, <2>2, AbandonCloses DEF Settle
  <2>5. Ended(r, s, f)
    BY <2>1, <2>2, <2>3 DEF Settle, Ended
  <2>6. s \in Terminal /\ f \in Failure
    BY <2>2 DEF EndConsistent
  <2>. HIDE DEF s, f
  <2>. QED
    BY <2>1, <2>3, <2>4, <2>5, <2>6, RecordTyped DEF HolderEndStep, Settle
<1>. QED
  BY <1>1, <1>2

\* settle_cancel, confirm_controller_gone and commit_recovered_completion end
\* the run their ticket controls.
LEMMA TicketEndEffect ==
    ASSUME Typed, NEW o \in ops,
           \/ \E outcome \in CancelOutcomes : SettleCancel(o, outcome)
           \/ ConfirmControllerGone(o) \/ CommitRecoveredCompletion(o)
    PROVE  TicketEndStep
<1>. USE DEF Typed
<1>0. o.run \in Run /\ o.id \in OpId
  BY DEF TypeOK, OpRecord
<1>1. CASE \E outcome \in CancelOutcomes : SettleCancel(o, outcome)
  <2>1. PICK outcome \in CancelOutcomes : SettleCancel(o, outcome)
    BY <1>1
  <2>. DEFINE s == outcome[1]  f == outcome[2]
  <2>2. EndConsistent(s, f) /\ s \in Terminal \ {"succeeded"}
    BY DEF CancelOutcomes, EndConsistent, Terminal, Failure, Resumable
  <2>3. /\ runs[o.run].state = "cancelling" /\ runs[o.run].state \in Active
        /\ o.status = "active"
    BY <2>1 DEF SettleCancel, ControlTicketMatches, Active
  <2>4. CompletionClosed(o.run, s, o.id)
    BY <1>0, <2>1, <2>2, AbandonCloses DEF SettleCancel
  <2>5. Ended(o.run, s, f)
    BY <2>1, <2>2, <2>3 DEF SettleCancel, Ended
  <2>6. s \in Terminal /\ f \in Failure /\ s # "succeeded"
    BY <2>2 DEF EndConsistent
  <2>. HIDE DEF s, f
  <2>. QED
    BY <2>1, <2>3, <2>4, <2>5, <2>6, RecordTyped DEF TicketEndStep, SettleCancel
<1>2. CASE ConfirmControllerGone(o)
  <2>. DEFINE s == RecoveryOutcome(o.kind)[1]  f == RecoveryOutcome(o.kind)[2]
  <2>1. o.kind \in RecoveryKinds
    BY <1>2 DEF ConfirmControllerGone, ControlTicketMatches
  <2>2. EndConsistent(s, f) /\ s \in Terminal \ {"succeeded"}
    BY <2>1 DEF RecoveryKinds, OpKind, RecoveryOutcome, EndConsistent, Terminal,
                Failure, Resumable
  <2>3. /\ runs[o.run].state = "cancelling" /\ runs[o.run].state \in Active
        /\ o.status = "active"
    BY <1>2 DEF ConfirmControllerGone, ControlTicketMatches, Active
  <2>4. CompletionClosed(o.run, s, o.id)
    BY <1>0, <1>2, <2>2, AbandonCloses DEF ConfirmControllerGone
  <2>5. Ended(o.run, s, f)
    BY <1>2, <2>2, <2>3 DEF ConfirmControllerGone, Ended
  <2>6. s \in Terminal /\ f \in Failure /\ s # "succeeded"
    BY <2>2 DEF EndConsistent
  <2>. HIDE DEF s, f
  <2>. QED
    BY <1>2, <2>3, <2>4, <2>5, <2>6, RecordTyped
       DEF TicketEndStep, ConfirmControllerGone
<1>3. CASE CommitRecoveredCompletion(o)
  <2>1. EndConsistent("succeeded", "none")
    BY DEF EndConsistent, Terminal, Failure
  <2>2. /\ runs[o.run].state = "cancelling" /\ runs[o.run].state \in Active
        /\ o.status = "active" /\ o.kind = "lease_expired"
    BY <1>3 DEF CommitRecoveredCompletion, ControlTicketMatches, Active
  <2>3. CompletionClosed(o.run, "succeeded", o.id)
    BY <1>0, <1>3, CommitCloses DEF CommitRecoveredCompletion
  <2>4. Ended(o.run, "succeeded", "none")
    BY <1>3, <2>1, <2>2 DEF CommitRecoveredCompletion, Ended
  <2>. QED
    BY <1>3, <2>1, <2>2, <2>3, <2>4, RecordTyped
       DEF TicketEndStep, CommitRecoveredCompletion, EndConsistent
<1>. QED
  BY <1>1, <1>2, <1>3

\* The row of a run that ended, and the other rows.
LEMMA EndedRow ==
    ASSUME TypeOK, NEW r \in Run, NEW s, NEW f, Ended(r, s, f)
    PROVE  /\ runs' \in [Run -> RunRecord]
           /\ \A x \in Run : x # r => runs'[x] = runs[x]
           /\ runs'[r].state = s /\ runs'[r].failure = f
           /\ runs'[r].rev = runs[r].rev + 1 /\ runs'[r].lease = 0
           /\ runs'[r].controller = "none" /\ SameOrigin(runs'[r], runs[r])
<1>. DEFINE fin == Finish(runs[r], s, f)
<1>1. /\ fin \in RunRecord
      /\ fin.state = s /\ fin.failure = f /\ fin.rev = runs[r].rev + 1
      /\ fin.lease = 0 /\ fin.controller = "none" /\ SameOrigin(fin, runs[r])
  BY FinishFields DEF Ended, EndConsistent, TypeOK, SameOrigin
<1>2. runs' = [runs EXCEPT ![r] = fin]
  BY DEF Ended
<1>. HIDE DEF fin
<1>. QED
  BY <1>1, <1>2, RowReplaced DEF TypeOK

\* Ending a run keeps the tables well typed.
LEMMA EndTyped ==
    ASSUME Typed, HolderEndStep \/ TicketEndStep
    PROVE  Typed'
<1>. USE DEF Typed
<1>1. CASE HolderEndStep
  <2>1. PICK r \in Run, s \in Terminal, f \in Failure :
          Ended(r, s, f) /\ CompletionClosed(r, s, 0)
    BY <1>1 DEF HolderEndStep
  <2>2. TypeOK'
    BY <1>1, <2>1, EndedRow DEF HolderEndStep, CompletionClosed, TypeOK
  <2>3. PlacesKept
    BY <2>1, EndedRow DEF PlacesKept, SameOrigin
  <2>. QED
    BY <2>2, <2>3, CountersKept
<1>2. CASE TicketEndStep
  <2>1. PICK o \in ops, s \in Terminal, f \in Failure :
          /\ Ended(o.run, s, f) /\ CompletionClosed(o.run, s, o.id)
          /\ FinishControlOperation(o, "settled")
    BY <1>2 DEF TicketEndStep
  <2>2. o.run \in Run /\ o \in OpRecord
    BY DEF TypeOK, OpRecord
  <2>3. ops' \subseteq OpRecord
    BY <2>1, <2>2 DEF FinishControlOperation, TypeOK, OpRecord
  <2>4. TypeOK'
    BY <1>2, <2>1, <2>2, <2>3, EndedRow DEF TicketEndStep, CompletionClosed, TypeOK
  <2>5. PlacesKept
    BY <2>1, <2>2, EndedRow DEF PlacesKept, SameOrigin
  <2>. QED
    BY <2>4, <2>5, CountersKept
<1>. QED
  BY <1>1, <1>2

-----------------------------------------------------------------------------
(* Effects of a claim.                                                     *)

\* The runs in S are claimed: none of their workers had a run in flight.
ClaimStep ==
    /\ \E S \in SUBSET Run :
         /\ \A r \in S : /\ runs[r].state = "queued"
                          /\ \A x \in Run : runs[x].worker = runs[r].worker =>
                               /\ runs[x].state \notin Active
                               /\ x \in S => x = r
         /\ runs' = [r \in Run |->
              IF r \notin S THEN runs[r]
              ELSE Claim(runs[r], NextWorkerGeneration(runs[r].worker))]
    /\ UNCHANGED <<workers, ops, plans, completion>>
    /\ latest' \in Nat /\ clock' \in Nat

\* No two runs share a place in the queue.
QueueUnique ==
    \A r, x \in Run :
      runs[r].state # "absent" /\ runs[x].state # "absent"
        /\ runs[r].queue = runs[x].queue => r = x

\* claim_due claims at most one run of a worker: the first in queue order.
LEMMA ClaimEffect ==
    ASSUME Typed, QueueUnique, NEW b \in Backend, NEW S \in SUBSET Run,
           ClaimDue(b, S)
    PROVE  ClaimStep
<1>1. S \subseteq ClaimableRuns(b)
  BY DEF ClaimDue
<1>2. \A r \in S : /\ runs[r].state = "queued"
                   /\ \A x \in Run : runs[x].worker = runs[r].worker =>
                        runs[x].state \notin Active
  BY <1>1 DEF ClaimableRuns, RunsOf
<1>3. ASSUME NEW r \in S, NEW x \in S, runs[x].worker = runs[r].worker
      PROVE  x = r
  <2>1. r \in Run /\ x \in Run
    OBVIOUS
  <2>2. r \in DueQueued(runs[x].worker) /\ x \in DueQueued(runs[r].worker)
    BY <1>1, <1>3, <2>1 DEF ClaimableRuns, DueQueued, RunsOf
  <2>3. /\ runs[x].avail >= runs[r].avail /\ runs[r].avail >= runs[x].avail
        /\ runs[x].avail = runs[r].avail => runs[x].queue >= runs[r].queue
        /\ runs[x].avail = runs[r].avail => runs[r].queue >= runs[x].queue
    BY <1>1, <2>2 DEF ClaimableRuns
  <2>4. /\ runs[x].avail \in Nat /\ runs[r].avail \in Nat
        /\ runs[x].queue \in Nat /\ runs[r].queue \in Nat
    BY <2>1 DEF Typed, TypeOK, RunRecord
  <2>5. runs[x].queue = runs[r].queue
    BY <2>3, <2>4
  <2>. QED
    BY <1>2, <2>1, <2>5 DEF QueueUnique
<1>4. Record /\ TypeOK
  BY DEF ClaimDue, Typed
<1>. QED
  BY <1>2, <1>3, <1>4, RecordTyped DEF ClaimDue, ClaimStep

\* A claimed record.
LEMMA ClaimFields ==
    ASSUME TypeOK, NEW rec \in RunRecord, NEW g \in Nat
    PROVE  LET claimed == Claim(rec, g) IN
           /\ claimed \in RunRecord
           /\ claimed.state = "starting" /\ claimed.rev = rec.rev + 1
           /\ claimed.gen = g /\ claimed.deadline > 0 /\ claimed.lease > 0
           /\ claimed.controller = rec.controller
           /\ claimed.failure = rec.failure
           /\ claimed.worker = rec.worker /\ claimed.queue = rec.queue
           /\ claimed.resumeOf = rec.resumeOf /\ claimed.attempt = rec.attempt
           /\ claimed.avail = rec.avail /\ claimed.binding = rec.binding
<1>1. /\ OperationNow + TimeoutTicks \in Nat /\ OperationNow + TimeoutTicks > 0
      /\ OperationNow + LeaseTicks \in Nat /\ OperationNow + LeaseTicks > 0
  BY OperationNowType, TimingAssumption
<1>2. Claim(rec, g) \in RunRecord
  BY <1>1, StatesTyped, RunRecordFields, Zenon DEF Claim, RunRecord
<1>. QED
  BY <1>1, <1>2 DEF Claim, RunRecord

\* The rows after a claim of the runs in S.
ClaimRows(S) ==
    /\ runs' \in [Run -> RunRecord]
    /\ \A r \in Run : r \notin S => runs'[r] = runs[r]
    /\ \A r \in S :
         /\ runs[r].state = "queued" /\ runs[r].worker \in Worker
         /\ runs'[r].state = "starting" /\ runs'[r].rev = runs[r].rev + 1
         /\ runs'[r].gen = NextWorkerGeneration(runs[r].worker)
         /\ runs'[r].deadline > 0 /\ runs'[r].lease > 0
         /\ runs'[r].controller = runs[r].controller
         /\ runs'[r].failure = runs[r].failure
         /\ runs'[r].resumeOf = runs[r].resumeOf
         /\ runs'[r].attempt = runs[r].attempt
    /\ \A r \in Run : /\ runs'[r].worker = runs[r].worker
                      /\ runs'[r].queue = runs[r].queue
                      /\ runs'[r].avail = runs[r].avail
                      /\ runs'[r].binding = runs[r].binding

\* A claim step changes rows so.
LEMMA ClaimedRows ==
    ASSUME Typed, RunsWellFormed, NEW S \in SUBSET Run,
           \A r \in S : runs[r].state = "queued",
           runs' = [r \in Run |->
              IF r \notin S THEN runs[r]
              ELSE Claim(runs[r], NextWorkerGeneration(runs[r].worker))]
    PROVE  ClaimRows(S)
<1>1. \A r \in S : /\ runs[r] \in RunRecord /\ runs[r].worker \in Worker
  BY DEF RunsWellFormed, Typed, TypeOK
<1>2. \A r \in S : NextWorkerGeneration(runs[r].worker) \in Nat
  BY <1>1, GenerationFresh DEF Typed
<1>3. \A r \in S :
        LET claimed == Claim(runs[r], NextWorkerGeneration(runs[r].worker)) IN
        /\ claimed \in RunRecord
        /\ claimed.state = "starting" /\ claimed.rev = runs[r].rev + 1
        /\ claimed.gen = NextWorkerGeneration(runs[r].worker)
        /\ claimed.deadline > 0 /\ claimed.lease > 0
        /\ claimed.controller = runs[r].controller
        /\ claimed.failure = runs[r].failure
        /\ claimed.worker = runs[r].worker /\ claimed.queue = runs[r].queue
        /\ claimed.resumeOf = runs[r].resumeOf
        /\ claimed.attempt = runs[r].attempt
        /\ claimed.avail = runs[r].avail /\ claimed.binding = runs[r].binding
  <2>1. TAKE r \in S
  <2>2. runs[r] \in RunRecord /\ NextWorkerGeneration(runs[r].worker) \in Nat
    BY <1>1, <1>2
  <2>3. PICK rec \in RunRecord, g \in Nat :
          rec = runs[r] /\ g = NextWorkerGeneration(runs[r].worker)
    BY <2>2
  <2>4. TypeOK
    BY DEF Typed
  <2>5. LET claimed == Claim(rec, g) IN
        /\ claimed \in RunRecord
        /\ claimed.state = "starting" /\ claimed.rev = rec.rev + 1
        /\ claimed.gen = g /\ claimed.deadline > 0 /\ claimed.lease > 0
        /\ claimed.controller = rec.controller
        /\ claimed.failure = rec.failure
        /\ claimed.worker = rec.worker /\ claimed.queue = rec.queue
        /\ claimed.resumeOf = rec.resumeOf /\ claimed.attempt = rec.attempt
        /\ claimed.avail = rec.avail /\ claimed.binding = rec.binding
    BY <2>4, ClaimFields
  <2>. QED
    BY <2>3, <2>5, Zenon
<1>4. \A r \in S :
        runs'[r] = Claim(runs[r], NextWorkerGeneration(runs[r].worker))
  OBVIOUS
<1>5. \A r \in Run : r \notin S => runs'[r] = runs[r]
  OBVIOUS
<1>6. runs' \in [Run -> RunRecord]
  BY <1>3 DEF Typed, TypeOK
<1>. QED
  BY <1>1, <1>3, <1>4, <1>5, <1>6, Zenon DEF ClaimRows

\* A claim keeps the tables well typed and the counters bounded.
LEMMA ClaimTyped ==
    ASSUME Typed, RunsWellFormed, ClaimStep
    PROVE  Typed'
<1>1. PICK S \in SUBSET Run : ClaimRows(S)
  BY ClaimedRows DEF ClaimStep
<1>2. TypeOK'
  BY <1>1 DEF ClaimRows, ClaimStep, Typed, TypeOK
<1>3. HasMax(Places)'
  <2>1. Places' = Places
    BY <1>1 DEF ClaimRows, Places
  <2>. QED
    BY <2>1 DEF Typed, CountersBounded, HasMax
<1>4. ASSUME NEW w \in Worker
      PROVE  HasMax(Generations(w))'
  <2>1. CASE \E r \in S : runs[r].worker = w
    <3>. DEFINE g == NextWorkerGeneration(w)
    <3>1. g \in Generations(w)'
      BY <1>1, <2>1 DEF ClaimRows, Generations, RunsOf
    <3>2. g \in Nat /\ g > 0 /\ \A r \in RunsOf(w) : runs[r].gen < g
      BY GenerationFresh DEF Typed
    <3>3. \A r \in Run : runs[r].gen \in Nat
      BY DEF Typed, TypeOK, RunRecord
    <3>. HIDE DEF g
    <3>4. ASSUME NEW r \in Run, runs'[r].worker = w
          PROVE  g >= runs'[r].gen
      <4>1. runs[r].worker = w
        BY <1>1, <3>4 DEF ClaimRows
      <4>2. CASE r \in S
        BY <1>1, <3>2, <4>1, <4>2 DEF ClaimRows, g
      <4>3. CASE r \notin S
        BY <1>1, <3>2, <3>3, <4>1, <4>3 DEF ClaimRows, RunsOf
      <4>. QED
        BY <4>2, <4>3
    <3>5. \A y \in Generations(w)' : g >= y
      BY <3>2, <3>4 DEF Generations, RunsOf
    <3>. QED
      BY <3>1, <3>5 DEF HasMax
  <2>2. CASE ~ \E r \in S : runs[r].worker = w
    <3>1. Generations(w)' = Generations(w)
      BY <1>1, <2>2 DEF ClaimRows, Generations, RunsOf
    <3>. QED
      BY <3>1 DEF Typed, CountersBounded, HasMax
  <2>. QED
    BY <2>1, <2>2
<1>. QED
  BY <1>2, <1>3, <1>4 DEF Typed, CountersBounded

-----------------------------------------------------------------------------
(* Effects of taking control: request_cancel_tree and claim_recovery_due.  *)

Supersede(o, S) == IF o.run \in S /\ o.status = "active"
                     THEN [o EXCEPT !.status = "superseded"] ELSE o

\* Runs in S come under new operations named by id and kind, those in Q, which
\* were queued, are cancelled.
TakenOver(S, Q, id, kind) ==
    /\ S \subseteq Run /\ Q \subseteq Run
    /\ \A r \in S : runs[r].state \in Active
    /\ \A r \in Q : runs[r].state = "queued"
    /\ id \in [Run -> OpId] /\ kind \in [Run -> OpKind]
    /\ runs' = [r \in Run |->
         IF r \in Q THEN Finish(runs[r], "cancelled", "cancelled")
         ELSE IF r \in S THEN TakeControl(runs[r]) ELSE runs[r]]
    /\ ops' = {Supersede(o, S) : o \in ops}
               \cup {NewOperation(r, id[r], kind[r]) : r \in S}

ControlFrame ==
    /\ workers' \in [Worker -> WorkerRecord]
    /\ plans' \in [CancelOp -> PlanRecord]
    /\ \A w \in Worker :
         workers[w].life # "absent" => workers'[w].life # "absent"
    /\ UNCHANGED completion
    /\ latest' \in Nat /\ clock' \in Nat

\* The rows after control of S was taken and Q was cancelled.
ControlRows(S, Q) ==
    /\ runs' \in [Run -> RunRecord]
    /\ \A r \in Run : r \notin S /\ r \notin Q => runs'[r] = runs[r]
    /\ \A r \in Run : SameOrigin(runs'[r], runs[r])
    /\ \A r \in Q :
         /\ runs[r].state = "queued"
         /\ runs'[r].state = "cancelled" /\ runs'[r].failure = "cancelled"
         /\ runs'[r].rev = runs[r].rev + 1
         /\ runs'[r].lease = 0 /\ runs'[r].controller = "none"
    /\ \A r \in S :
         /\ runs[r].state \in Active
         /\ runs'[r].state = "cancelling" /\ runs'[r].failure = "none"
         /\ runs'[r].rev = runs[r].rev + 1 /\ runs'[r].lease = 0
         /\ runs'[r].controller = runs[r].controller

\* Taking control changes rows so.
LEMMA TakenOverRows ==
    ASSUME TypeOK, NEW S, NEW Q, NEW id, NEW kind, TakenOver(S, Q, id, kind)
    PROVE  ControlRows(S, Q)
<1>1. /\ S \subseteq Run /\ Q \subseteq Run
      /\ \A r \in S : runs[r].state \in Active
      /\ \A r \in Q : runs[r].state = "queued"
  BY DEF TakenOver
<1>2. \A r \in Q : r \notin S
  BY <1>1 DEF Active, Leased
<1>3. \A r \in Q : runs'[r] = Finish(runs[r], "cancelled", "cancelled")
  BY <1>1 DEF TakenOver
<1>4. \A r \in S : runs'[r] = TakeControl(runs[r])
  BY <1>1, <1>2 DEF TakenOver
<1>5. \A r \in Run : r \notin S /\ r \notin Q => runs'[r] = runs[r]
  BY DEF TakenOver
<1>6. ASSUME NEW r \in Q
      PROVE  /\ runs'[r] \in RunRecord /\ SameOrigin(runs'[r], runs[r])
             /\ runs'[r].state = "cancelled" /\ runs'[r].failure = "cancelled"
             /\ runs'[r].rev = runs[r].rev + 1
             /\ runs'[r].lease = 0 /\ runs'[r].controller = "none"
  <2>1. /\ runs[r] \in RunRecord /\ "cancelled" \in Terminal
        /\ "cancelled" \in Failure
    BY <1>1 DEF TypeOK, Terminal, Failure
  <2>. QED
    BY <1>3, <2>1, FinishFields DEF SameOrigin
<1>7. ASSUME NEW r \in S
      PROVE  /\ runs'[r] \in RunRecord /\ SameOrigin(runs'[r], runs[r])
             /\ runs'[r].state = "cancelling" /\ runs'[r].failure = "none"
             /\ runs'[r].rev = runs[r].rev + 1 /\ runs'[r].lease = 0
             /\ runs'[r].controller = runs[r].controller
  <2>1. runs[r] \in RunRecord
    BY <1>1 DEF TypeOK
  <2>. QED
    BY <1>4, <2>1, TakeControlFields DEF SameOrigin
<1>8. \A r \in Run : runs'[r] \in RunRecord /\ SameOrigin(runs'[r], runs[r])
  BY <1>5, <1>6, <1>7 DEF TypeOK, SameOrigin
<1>9. runs' \in [Run -> RunRecord]
  <2>1. runs' = [r \in Run |-> runs'[r]]
    BY DEF TakenOver
  <2>. QED
    BY <1>8, <2>1
<1>. QED
  BY <1>1, <1>5, <1>6, <1>7, <1>8, <1>9 DEF ControlRows

\* A new operation, field by field.
LEMMA NewOperationFields ==
    ASSUME TypeOK, NEW r \in Run, NEW id \in OpId, NEW kind \in OpKind
    PROVE  LET o == NewOperation(r, id, kind) IN
           /\ o \in OpRecord
           /\ o.run = r /\ o.id = id /\ o.kind = kind /\ o.status = "active"
           /\ o.rev = runs[r].rev + 1 /\ o.controller = runs[r].controller
<1>1. /\ runs[r].rev + 1 \in Nat /\ runs[r].controller \in {"none", "attached"}
      /\ OperationNow + ControlTicks \in Nat
  BY OperationNowType, TimingAssumption DEF TypeOK, RunRecord
<1>. QED
  BY <1>1 DEF NewOperation, OpRecord

\* A superseded operation, field by field.
LEMMA SupersedeFields ==
    ASSUME NEW o \in OpRecord, NEW S
    PROVE  LET p == Supersede(o, S) IN
           /\ p \in OpRecord
           /\ p.run = o.run /\ p.id = o.id /\ p.kind = o.kind /\ p.rev = o.rev
           /\ p.controller = o.controller
           /\ o.run \in S => p.status # "active"
           /\ o.run \notin S => p = o
           /\ p.status = "active" => p = o
           /\ p.status = "settled" <=> o.status = "settled"
<1>1. CASE o.run \in S /\ o.status = "active"
  <2>1. Supersede(o, S) = [o EXCEPT !.status = "superseded"]
    BY <1>1 DEF Supersede
  <2>. QED
    BY <1>1, <2>1 DEF OpRecord
<1>2. CASE ~ (o.run \in S /\ o.status = "active")
  BY <1>2 DEF Supersede, OpRecord
<1>. QED
  BY <1>1, <1>2

\* Taking control keeps the tables well typed.
LEMMA ControlTyped ==
    ASSUME Typed, ControlFrame, NEW S, NEW Q, NEW id, NEW kind,
           TakenOver(S, Q, id, kind)
    PROVE  Typed'
<1>. USE DEF Typed
<1>1. ControlRows(S, Q)
  BY TakenOverRows
<1>2. \A o \in ops : Supersede(o, S) \in OpRecord
  BY SupersedeFields DEF TypeOK
<1>3. \A r \in S : NewOperation(r, id[r], kind[r]) \in OpRecord
  <2>1. TAKE r \in S
  <2>2. r \in Run /\ id[r] \in OpId /\ kind[r] \in OpKind
    BY DEF TakenOver
  <2>. QED
    BY <2>2, NewOperationFields
<1>4. ops' \subseteq OpRecord
  BY <1>2, <1>3 DEF TakenOver
<1>5. TypeOK'
  BY <1>1, <1>4 DEF ControlRows, ControlFrame, TypeOK
<1>6. PlacesKept
  BY <1>1 DEF ControlRows, PlacesKept, SameOrigin
<1>. QED
  BY <1>5, <1>6, CountersKept

\* A cancel operation was planned for the run it controls; a recovery is named
\* by the revision it takes the run to, and keeps a cancellation alive.
Authorised(S, id, kind) ==
    \A r \in S :
      /\ \A o \in ops : o.run = r => o.id # id[r]
      /\ kind[r] = "cancel" => /\ id[r] \in CancelOp
                               /\ r \in plans'[id[r]].controlled
      /\ kind[r] # "cancel" => id[r] = runs[r].rev + 1
      /\ (\E o \in ops : o.run = r /\ o.kind = "cancel") =>
            kind[r] \in {"cancel", "cancellation_abandoned"}

PlansKept == \A c \in CancelOp : plans[c].controlled \subseteq plans'[c].controlled

ControlStep ==
    /\ ControlFrame /\ PlansKept
    /\ \E S, Q \in SUBSET Run, id \in [Run -> OpId], kind \in [Run -> OpKind] :
         TakenOver(S, Q, id, kind) /\ Authorised(S, id, kind)

\* request_cancel_tree takes control of the subtree's runs in flight and
\* cancels its queued ones.
LEMMA CancelTreeEffect ==
    ASSUME Typed, NEW w \in Worker, NEW c \in CancelOp, NEW retry,
           RequestCancelTree(w, c, retry)
    PROVE  ControlStep
<1>. DEFINE T == Subtree(w)
            Q == RunsIn(T, {"queued"})
            S == RunsIn(T, Active) \ {o.run : o \in retry}
            id == [r \in Run |-> c]
            kind == [r \in Run |-> "cancel"]
            plan == [root |-> w, workers |-> T, queued |-> Q,
                     controlled |-> RunsIn(T, Active)]
<1>1. /\ T \subseteq Worker /\ S \subseteq Run /\ Q \subseteq Run
      /\ RunsIn(T, Active) \subseteq Run
      /\ \A r \in S : runs[r].state \in Active
      /\ \A r \in Q : runs[r].state = "queued"
  BY DEF Subtree, RunsIn
<1>2. id \in [Run -> OpId] /\ kind \in [Run -> OpKind]
  BY DEF OpId, OpKind
<1>3. runs' = [r \in Run |->
         IF r \in Q THEN Finish(runs[r], "cancelled", "cancelled")
         ELSE IF r \in S THEN TakeControl(runs[r]) ELSE runs[r]]
  BY DEF RequestCancelTree
<1>4. ops' = {Supersede(o, S) : o \in ops}
               \cup {NewOperation(r, id[r], kind[r]) : r \in S}
  <2>1. ops' = {Supersede(o, S) : o \in ops}
               \cup {NewOperation(r, c, "cancel") : r \in S}
    BY Zenon DEF RequestCancelTree, TakeOver, Supersede
  <2>. QED
    BY <1>1, <2>1
<1>5. /\ \A r \in S : \A o \in ops : o.run = r => o.id # c
      /\ workers' = [x \in Worker |->
            IF x \in {y \in T : Open(y)}
              THEN Enter(workers[x], "draining") ELSE workers[x]]
      /\ UNCHANGED completion
      /\ UNCHANGED <<clock, latest>> \/ Record
      /\ FreezeOrMatchPlan(w, c, retry)
  BY DEF RequestCancelTree, FreshOperation
<1>6. plan \in PlanRecord
  BY <1>1 DEF PlanRecord
<1>7. /\ plans' \in [CancelOp -> PlanRecord] /\ PlansKept
      /\ RunsIn(T, Active) \subseteq plans'[c].controlled
  <2>1. CASE plans[c] = NoPlan /\ plans' = [plans EXCEPT ![c] = plan]
    <3>1. plans[c].controlled = {} /\ plan.controlled = RunsIn(T, Active)
      BY <2>1 DEF NoPlan
    <3>2. plans \in [CancelOp -> PlanRecord]
      BY DEF Typed, TypeOK
    <3>. HIDE DEF plan
    <3>. QED
      BY <1>6, <2>1, <3>1, <3>2 DEF PlansKept
  <2>2. CASE plan.controlled \subseteq plans[c].controlled /\ plans' = plans
    BY <2>2 DEF Typed, TypeOK, PlansKept
  <2>. QED
    BY <1>5, <2>1, <2>2 DEF FreezeOrMatchPlan
<1>8. /\ workers' \in [Worker -> WorkerRecord]
      /\ \A x \in Worker :
           workers[x].life # "absent" => workers'[x].life # "absent"
  <2>1. ASSUME NEW x \in Worker
        PROVE  /\ Enter(workers[x], "draining") \in WorkerRecord
               /\ Enter(workers[x], "draining").life = "draining"
    BY EnterFields DEF Typed, TypeOK, Lifecycle
  <2>. QED
    BY <1>5, <2>1 DEF Typed, TypeOK
<1>9. latest' \in Nat /\ clock' \in Nat
  BY <1>5, RecordTyped DEF Typed, TypeOK
<1>10. ControlFrame
  BY <1>5, <1>7, <1>8, <1>9 DEF ControlFrame
<1>11. Authorised(S, id, kind)
  BY <1>1, <1>5, <1>7 DEF Authorised
<1>12. TakenOver(S, Q, id, kind)
  BY <1>1, <1>2, <1>3, <1>4, Zenon DEF TakenOver
<1>. HIDE DEF S, Q, id, kind
<1>. QED
  BY <1>1, <1>2, <1>7, <1>10, <1>11, <1>12 DEF ControlStep

\* A recovery is numbered by the revision it was fenced at.
RecoveryIds == \A o \in ops : o.kind # "cancel" => o.id = o.rev

\* Only a run that is or was under control has operations.
OnlyControlledHaveOps ==
    \A o \in ops : runs[o.run].state \in {"cancelling"} \cup Terminal

\* The operation in control of a run is the one ControllingOp chooses.
LEMMA ControllingOpIsActive ==
    ASSUME NEW r \in Run, ActiveOps(r) # {}
    PROVE  ControllingOp(r) \in ActiveOps(r)
<1>1. PICK o \in ActiveOps(r) : TRUE
  OBVIOUS
<1>2. o \in ops /\ o \in ActiveOps(r)
  BY <1>1 DEF ActiveOps
<1>. QED
  BY <1>2, Zenon DEF ControllingOp

\* claim_recovery_due takes control of abandoned runs.
LEMMA RecoveryEffect ==
    ASSUME Typed, ControlFenced, RecoveryIds, OnlyControlledHaveOps,
           CancelledNeverSucceeds, NEW S \in SUBSET Run, ClaimRecoveryDue(S)
    PROVE  ControlStep
<1>. DEFINE id == [r \in Run |-> runs[r].rev + 1]
            kind == [r \in Run |-> IF r \in S THEN RecoveryReason(r)
                                   ELSE "lease_expired"]
<1>1. \A r \in S : /\ r \in Run /\ runs[r].state \in Active
                   /\ runs[r].state \notin Leased =>
                        ActiveOps(r) # {} /\ runs[r].state = "cancelling"
  BY DEF ClaimRecoveryDue, RecoveryDue, Active, Leased
<1>2. \A r \in S : /\ RecoveryReason(r) \in OpKind \ {"cancel"}
                   /\ (\E o \in ops : o.run = r /\ o.kind = "cancel") =>
                        RecoveryReason(r) = "cancellation_abandoned"
  <2>1. TAKE r \in S
  <2>2. CASE runs[r].state \in Leased
    <3>1. RecoveryReason(r) \in {"execution_timed_out", "lease_expired"}
      BY <2>2 DEF RecoveryReason
    <3>2. \A o \in ops : o.run # r
      BY <2>2 DEF OnlyControlledHaveOps, Leased, Terminal
    <3>. QED
      BY <3>1, <3>2 DEF OpKind
  <2>3. CASE runs[r].state \notin Leased
    <3>. DEFINE o == ControllingOp(r)
    <3>1. o \in ActiveOps(r)
      BY <1>1, <2>3, ControllingOpIsActive
    <3>2. o.kind \in OpKind
      BY <3>1 DEF ActiveOps, Typed, TypeOK, OpRecord
    <3>3. (\E p \in ops : p.run = r /\ p.kind = "cancel") =>
            o.kind \in {"cancel", "cancellation_abandoned"}
      BY <3>1 DEF CancelledNeverSucceeds
    <3>4. RecoveryReason(r) = IF o.kind = "cancel"
                                THEN "cancellation_abandoned" ELSE o.kind
      BY <2>3 DEF RecoveryReason
    <3>. HIDE DEF o
    <3>. QED
      BY <3>2, <3>3, <3>4 DEF OpKind
  <2>. QED
    BY <2>2, <2>3
<1>3. \A r \in Run : runs[r].rev \in Nat /\ runs[r].rev + 1 \in Nat
  BY DEF Typed, TypeOK, RunRecord
<1>4. id \in [Run -> OpId] /\ kind \in [Run -> OpKind]
  BY <1>2, <1>3 DEF OpId, OpKind
<1>5. ops' = {Supersede(o, S) : o \in ops}
               \cup {NewOperation(r, id[r], kind[r]) : r \in S}
  <2>1. ops' = {Supersede(o, S) : o \in ops}
               \cup {NewOperation(r, runs[r].rev + 1, RecoveryReason(r)) : r \in S}
    BY Zenon DEF ClaimRecoveryDue, TakeOver, Supersede
  <2>2. \A r \in S : id[r] = runs[r].rev + 1 /\ kind[r] = RecoveryReason(r)
    BY <1>1
  <2>. HIDE DEF id, kind
  <2>. QED
    BY <2>1, <2>2
<1>6. runs' = [r \in Run |->
         IF r \in {} THEN Finish(runs[r], "cancelled", "cancelled")
         ELSE IF r \in S THEN TakeControl(runs[r]) ELSE runs[r]]
  BY DEF ClaimRecoveryDue
<1>7. TakenOver(S, {}, id, kind)
  BY <1>1, <1>4, <1>5, <1>6, Zenon DEF TakenOver
<1>8. ASSUME NEW r \in S, NEW o \in ops, o.run = r
      PROVE  o.id # runs[r].rev + 1
  <2>1. r \in Run /\ runs[r].rev \in Nat /\ o.rev \in Nat
    BY <1>1, <1>3 DEF Typed, TypeOK, OpRecord
  <2>2. o.rev <= runs[r].rev /\ (o.kind = "cancel" => o.id \in CancelOp)
    BY <1>8 DEF ControlFenced
  <2>3. CASE o.kind = "cancel"
    BY <2>1, <2>2, <2>3, IdentityAssumption
  <2>4. CASE o.kind # "cancel"
    BY <2>1, <2>2, <2>4 DEF RecoveryIds
  <2>. QED
    BY <2>3, <2>4
<1>9. \A r \in S : /\ id[r] = runs[r].rev + 1 /\ kind[r] = RecoveryReason(r)
                   /\ kind[r] # "cancel"
  BY <1>1, <1>2
<1>10. ControlFrame /\ PlansKept
  BY RecordTyped DEF ClaimRecoveryDue, ControlFrame, PlansKept, Typed, TypeOK
<1>. HIDE DEF id, kind
<1>11. Authorised(S, id, kind)
  BY <1>2, <1>8, <1>9 DEF Authorised
<1>. QED
  BY <1>4, <1>7, <1>10, <1>11 DEF ControlStep

-----------------------------------------------------------------------------
(* The inductive invariant.                                                *)

\* A claimed run was updated at least once.
ClaimedHaveRevision == \A r \in Run : runs[r].gen > 0 => runs[r].rev > 0

Inv ==
    /\ Typed /\ QueueUnique /\ RunsWellFormed /\ ClaimedHaveRevision
    /\ OneActiveRunPerWorker
    /\ ControlFenced /\ RecoveryIds /\ OnlyControlledHaveOps
    /\ CompletionFenced
    /\ CancelledNeverSucceeds

\* An insertion preserves the invariant: the row it fills was never claimed,
\* so it has neither operations nor a completion.
LEMMA InsertionInv ==
    ASSUME Inv, InsertionStep
    PROVE  Inv'
<1>. USE DEF Inv
<1>1. PICK r \in Run, rec \in RunRecord : Inserted(r, rec)
  BY DEF InsertionStep
<1>2. /\ runs' \in [Run -> RunRecord] /\ runs'[r] = rec
      /\ \A x \in Run : x # r => runs'[x] = runs[x]
  BY <1>1, RowReplaced DEF Inserted, Typed, TypeOK
<1>3. /\ runs'[r].state = "queued" /\ runs'[r].failure = "none"
      /\ runs'[r].lease = 0 /\ runs'[r].controller = "none"
      /\ runs'[r].gen = 0 /\ runs'[r].deadline = 0
      /\ runs'[r].queue = NextQueueSequence
      /\ runs'[r].worker \in Worker /\ workers'[runs'[r].worker].life = "open"
      /\ (runs'[r].resumeOf = None) <=> (runs'[r].attempt = 0)
      /\ runs'[r].attempt <= MaxResumeAttempts
      /\ runs[r].state = "absent" /\ runs[r].gen = 0
  BY <1>1, <1>2 DEF Inserted, RunsWellFormed
<1>4. /\ \A x \in Worker :
           workers[x].life # "absent" => workers'[x].life = workers[x].life
      /\ ops' = ops /\ plans' = plans /\ completion' = completion
  BY DEF InsertionStep, InsertionFrame
<1>5. \A o \in ops : o.run \in Run /\ o.run # r /\ runs'[o.run] = runs[o.run]
  BY <1>2, <1>3 DEF ControlFenced, Typed, TypeOK, OpRecord
<1>6. Typed'
  BY InsertionTyped
<1>7. QueueUnique'
  BY <1>2, <1>3, QueueNumberFresh DEF QueueUnique, Typed, TypeOK, RunRecord
<1>8. RunsWellFormed'
  <2>1. ASSUME NEW x \in Run, x # r, runs[x].state # "absent"
        PROVE  workers'[runs[x].worker].life # "absent"
    BY <1>4, <2>1 DEF RunsWellFormed
  <2>. QED
    BY <1>2, <1>3, <2>1 DEF RunsWellFormed, Active, Leased, Terminal
<1>9. ClaimedHaveRevision'
  BY <1>2, <1>3 DEF ClaimedHaveRevision
<1>10. OneActiveRunPerWorker'
  BY <1>2, <1>3 DEF OneActiveRunPerWorker, Active, Leased
<1>11. ControlFenced'
  <2>1. \A x \in Run : (runs'[x].state = "cancelling") <=> (ActiveOps(x)' # {})
    BY <1>2, <1>3, <1>4, <1>5 DEF ControlFenced, ActiveOps
  <2>. QED
    BY <1>4, <1>5, <2>1 DEF ControlFenced
<1>12. RecoveryIds' /\ OnlyControlledHaveOps'
  BY <1>4, <1>5 DEF RecoveryIds, OnlyControlledHaveOps
<1>13. CompletionFenced'
  <2>1. completion[r].status = "none"
    BY <1>3 DEF CompletionFenced, Typed, TypeOK, CompletionRecord, Terminal
  <2>. QED
    BY <1>2, <1>3, <1>4, <2>1 DEF CompletionFenced, Terminal
<1>14. CancelledNeverSucceeds'
  BY <1>4, <1>5 DEF CancelledNeverSucceeds, ActiveOps
<1>. QED
  BY <1>6, <1>7, <1>8, <1>9, <1>10, <1>11, <1>12, <1>13, <1>14

\* Advancing a leased run preserves the invariant: nothing controls it yet.
LEMMA AdvanceInv ==
    ASSUME Inv, AdvanceStep
    PROVE  Inv'
<1>. USE DEF Inv
<1>1. PICK r \in Run, rec \in RunRecord : Advanced(r, rec)
  BY DEF AdvanceStep
<1>2. /\ runs' \in [Run -> RunRecord] /\ runs'[r] = rec
      /\ \A x \in Run : x # r => runs'[x] = runs[x]
  BY <1>1, RowReplaced DEF Advanced, Typed, TypeOK
<1>3. /\ runs[r].state \in Leased
      /\ runs'[r].state = "running" /\ runs'[r].controller = "attached"
      /\ runs'[r].lease > 0 /\ runs'[r].rev = runs[r].rev + 1
      /\ runs'[r].failure = runs[r].failure /\ SameOrigin(runs'[r], runs[r])
      /\ runs[r].rev \in Nat
  BY <1>1, <1>2 DEF Advanced, Typed, TypeOK, RunRecord
<1>4. /\ workers' = workers /\ ops' = ops /\ plans' = plans
      /\ completion' = completion
  BY DEF AdvanceStep
<1>5. \A o \in ops : o.run \in Run /\ o.run # r /\ runs'[o.run] = runs[o.run]
  BY <1>2, <1>3 DEF OnlyControlledHaveOps, Leased, Terminal, Typed, TypeOK, OpRecord
<1>6. Typed'
  BY AdvanceTyped
<1>7. QueueUnique'
  BY <1>2, <1>3 DEF QueueUnique, SameOrigin, Leased
<1>8. RunsWellFormed'
  BY <1>2, <1>3, <1>4 DEF RunsWellFormed, SameOrigin, Active, Leased, Terminal
<1>9. ClaimedHaveRevision'
  BY <1>2, <1>3 DEF ClaimedHaveRevision
<1>10. OneActiveRunPerWorker'
  BY <1>2, <1>3 DEF OneActiveRunPerWorker, SameOrigin, Active, Leased
<1>11. ControlFenced'
  <2>1. \A x \in Run : (runs'[x].state = "cancelling") <=> (ActiveOps(x)' # {})
    BY <1>2, <1>3, <1>4, <1>5 DEF ControlFenced, ActiveOps
  <2>. QED
    BY <1>4, <1>5, <2>1 DEF ControlFenced
<1>12. RecoveryIds' /\ OnlyControlledHaveOps'
  BY <1>4, <1>5 DEF RecoveryIds, OnlyControlledHaveOps
<1>13. CompletionFenced'
  <2>1. completion[r] \in CompletionRecord /\ completion[r].preparedRev \in Nat
    BY DEF Typed, TypeOK, CompletionRecord
  <2>. QED
    BY <1>2, <1>3, <1>4, <2>1 DEF CompletionFenced, Leased, Terminal
<1>14. CancelledNeverSucceeds'
  BY <1>4, <1>5 DEF CancelledNeverSucceeds, ActiveOps
<1>. QED
  BY <1>6, <1>7, <1>8, <1>9, <1>10, <1>11, <1>12, <1>13, <1>14

\* A claim preserves the invariant: a claimed run was queued, so nothing
\* controls it and it has no completion.
LEMMA ClaimInv ==
    ASSUME Inv, ClaimStep
    PROVE  Inv'
<1>. USE DEF Inv
<1>1. PICK S \in SUBSET Run :
        /\ ClaimRows(S)
        /\ \A r \in S : \A x \in Run : runs[x].worker = runs[r].worker =>
             runs[x].state \notin Active /\ (x \in S => x = r)
  BY ClaimedRows DEF ClaimStep
<1>2. /\ workers' = workers /\ ops' = ops /\ plans' = plans
      /\ completion' = completion
  BY DEF ClaimStep
<1>3. \A o \in ops : o.run \in Run /\ o.run \notin S /\ runs'[o.run] = runs[o.run]
  BY <1>1 DEF ClaimRows, OnlyControlledHaveOps, Terminal, Typed, TypeOK, OpRecord
<1>4. \A r \in S : runs'[r].gen \in Nat \ {0} /\ runs[r].rev \in Nat
  <2>1. \A r \in S : runs[r].worker \in Worker
    BY <1>1 DEF ClaimRows
  <2>. QED
    BY <1>1, <2>1, GenerationFresh DEF ClaimRows, Typed, TypeOK, RunRecord
<1>5. Typed'
  BY ClaimTyped
<1>6. QueueUnique'
  BY <1>1 DEF QueueUnique, ClaimRows
<1>7. RunsWellFormed'
  <2>1. ASSUME NEW r \in S
        PROVE  /\ runs[r].state = "queued" /\ runs'[r].state = "starting"
               /\ runs'[r].worker \in Worker
               /\ workers'[runs'[r].worker].life # "absent"
               /\ runs'[r].gen > 0 /\ runs'[r].deadline > 0 /\ runs'[r].lease > 0
               /\ runs'[r].controller = "none" /\ runs'[r].failure = "none"
               /\ (runs'[r].resumeOf = None) <=> (runs'[r].attempt = 0)
               /\ runs'[r].attempt <= MaxResumeAttempts
    BY <1>1, <1>2, <1>4 DEF RunsWellFormed, ClaimRows
  <2>. QED
    BY <1>1, <1>2, <2>1 DEF RunsWellFormed, ClaimRows, Active, Leased, Terminal
<1>8. ClaimedHaveRevision'
  BY <1>1, <1>4 DEF ClaimedHaveRevision, ClaimRows
<1>9. OneActiveRunPerWorker'
  BY <1>1 DEF OneActiveRunPerWorker, ClaimRows
<1>10. ControlFenced'
  <2>1. \A x \in Run : (runs'[x].state = "cancelling") <=> (ActiveOps(x)' # {})
    BY <1>1, <1>2, <1>3 DEF ControlFenced, ActiveOps, ClaimRows
  <2>. QED
    BY <1>2, <1>3, <2>1 DEF ControlFenced
<1>11. RecoveryIds' /\ OnlyControlledHaveOps'
  BY <1>2, <1>3 DEF RecoveryIds, OnlyControlledHaveOps
<1>12. CompletionFenced'
  <2>1. \A r \in S : completion[r].status = "none"
    BY <1>1 DEF ClaimRows, CompletionFenced, Typed, TypeOK, CompletionRecord, Terminal
  <2>. QED
    BY <1>1, <1>2, <2>1 DEF CompletionFenced, ClaimRows, Terminal
<1>13. CancelledNeverSucceeds'
  BY <1>2, <1>3 DEF CancelledNeverSucceeds, ActiveOps
<1>. QED
  BY <1>5, <1>6, <1>7, <1>8, <1>9, <1>10, <1>11, <1>12, <1>13

\* What a step that ends run r keeps, whoever ends it.
LEMMA EndKeepsRows ==
    ASSUME Inv, NEW r \in Run, NEW s, NEW f, Ended(r, s, f), workers' = workers
    PROVE  /\ QueueUnique' /\ RunsWellFormed' /\ ClaimedHaveRevision'
           /\ OneActiveRunPerWorker'
<1>. USE DEF Inv
<1>1. /\ runs' \in [Run -> RunRecord]
      /\ \A x \in Run : x # r => runs'[x] = runs[x]
      /\ runs'[r].state = s /\ runs'[r].failure = f
      /\ runs'[r].rev = runs[r].rev + 1 /\ runs'[r].lease = 0
      /\ runs'[r].controller = "none" /\ SameOrigin(runs'[r], runs[r])
      /\ EndConsistent(s, f) /\ runs[r].state \in Active /\ runs[r].rev \in Nat
  BY EndedRow, ZenonT(60) DEF Ended, Typed, TypeOK, RunRecord
<1>2. QueueUnique'
  BY <1>1 DEF QueueUnique, SameOrigin, Active, Leased
<1>3. RunsWellFormed'
  BY <1>1 DEF RunsWellFormed, SameOrigin, EndConsistent, Active, Leased, Terminal
<1>4. ClaimedHaveRevision'
  BY <1>1 DEF ClaimedHaveRevision, SameOrigin
<1>5. OneActiveRunPerWorker'
  BY <1>1 DEF OneActiveRunPerWorker, SameOrigin, EndConsistent, Active, Leased, Terminal
<1>. QED
  BY <1>2, <1>3, <1>4, <1>5

\* The completions after run r ended, given the operations after it.
LEMMA EndKeepsCompletions ==
    ASSUME Inv, NEW r \in Run, NEW s, NEW f, NEW op, Ended(r, s, f),
           CompletionClosed(r, s, op),
           \A o \in ops : o.status = "settled" => o \in ops',
           s = "succeeded" /\ op # 0 =>
             \E o \in ops' : /\ o.run = r /\ o.id = op
                             /\ o.kind = "lease_expired" /\ o.status = "settled"
    PROVE  CompletionFenced'
<1>. USE DEF Inv
<1>0. s \in Terminal
  BY DEF Ended, EndConsistent
<1>1. /\ \A x \in Run : x # r => runs'[x] = runs[x]
      /\ runs'[r].state = s /\ runs'[r].rev = runs[r].rev + 1
      /\ s \in Terminal /\ runs[r].state \in Active /\ runs[r].rev \in Nat
  BY <1>0, EndedRow DEF Ended, Typed, TypeOK, RunRecord
<1>2. \A x \in Run : completion[x].status \in
                       {"none", "prepared", "committed", "abandoned"}
  BY DEF Typed, TypeOK, CompletionRecord
<1>3. completion[r].status \in {"none", "prepared"} /\ completion[r].preparedRev \in Nat
  BY <1>1, <1>2 DEF CompletionFenced, Active, Leased, Terminal, Typed, TypeOK,
                    CompletionRecord
<1>4. ASSUME NEW x \in Run, x # r
      PROVE  LET c == completion'[x] IN
             /\ (c.status = "committed") <=> (runs'[x].state = "succeeded")
             /\ c.status = "prepared" => runs'[x].state \in {"running", "cancelling"}
             /\ c.status = "abandoned" => runs'[x].state \in Terminal \ {"succeeded"}
             /\ c.status # "none" => c.preparedRev > 0 /\ c.preparedRev <= runs'[x].rev
             /\ c.status \in {"committed", "abandoned"} => c.endRev = runs'[x].rev
             /\ c.byOp # 0 => \E o \in ops' : /\ o.run = x /\ o.id = c.byOp
                                               /\ o.kind = "lease_expired"
                                               /\ o.status = "settled"
  <2>1. completion'[x] = completion[x] /\ runs'[x] = runs[x]
    BY <1>1, <1>4 DEF CompletionClosed
  <2>. QED
    BY <2>1 DEF CompletionFenced
<1>5. LET c == completion'[r] IN
      /\ (c.status = "committed") <=> (runs'[r].state = "succeeded")
      /\ c.status # "prepared"
      /\ c.status = "abandoned" => runs'[r].state \in Terminal \ {"succeeded"}
      /\ c.status # "none" => c.preparedRev > 0 /\ c.preparedRev <= runs'[r].rev
      /\ c.status \in {"committed", "abandoned"} => c.endRev = runs'[r].rev
  <2>1. CASE completion[r].status = "prepared"
    <3>1. /\ completion[r].preparedRev > 0
          /\ completion[r].preparedRev <= runs[r].rev
      BY <2>1 DEF CompletionFenced
    <3>. QED
      BY <1>1, <1>3, <2>1, <3>1 DEF CompletionClosed
  <2>2. CASE completion[r].status = "none"
    BY <1>1, <2>2 DEF CompletionClosed
  <2>. QED
    BY <1>3, <2>1, <2>2
<1>6. completion'[r].byOp # 0 =>
        \E o \in ops' : /\ o.run = r /\ o.id = completion'[r].byOp
                        /\ o.kind = "lease_expired" /\ o.status = "settled"
  <2>1. CASE completion[r].status = "prepared"
    BY <2>1 DEF CompletionClosed
  <2>2. CASE completion[r].status = "none"
    <3>1. completion'[r] = completion[r]
      BY <2>2 DEF CompletionClosed
    <3>. QED
      BY <3>1 DEF CompletionFenced
  <2>. QED
    BY <1>3, <2>1, <2>2
<1>. QED
  BY <1>4, <1>5, <1>6 DEF CompletionFenced

\* A holder that ends its run preserves the invariant.
LEMMA HolderEndInv ==
    ASSUME Inv, HolderEndStep
    PROVE  Inv'
<1>. USE DEF Inv
<1>1. PICK r \in Run, s \in Terminal, f \in Failure :
        Ended(r, s, f) /\ runs[r].state \in Leased /\ CompletionClosed(r, s, 0)
  BY DEF HolderEndStep
<1>2. workers' = workers /\ ops' = ops /\ plans' = plans
  BY DEF HolderEndStep
<1>3. \A x \in Run : x # r => runs'[x] = runs[x]
  BY <1>1, EndedRow DEF Typed
<1>4. \A o \in ops : o.run \in Run /\ o.run # r /\ runs'[o.run] = runs[o.run]
  BY <1>1, <1>3 DEF OnlyControlledHaveOps, Leased, Terminal, Typed, TypeOK, OpRecord
<1>5. runs'[r].state \in Terminal
  BY <1>1, EndedRow DEF Typed
<1>6. Typed'
  BY EndTyped
<1>7. /\ QueueUnique' /\ RunsWellFormed' /\ ClaimedHaveRevision'
      /\ OneActiveRunPerWorker'
  BY <1>1, <1>2, EndKeepsRows
<1>8. CompletionFenced'
  BY <1>1, <1>2, EndKeepsCompletions
<1>9. ControlFenced'
  <2>1. \A x \in Run : (runs'[x].state = "cancelling") <=> (ActiveOps(x)' # {})
    BY <1>2, <1>3, <1>4, <1>5 DEF ControlFenced, ActiveOps, Terminal
  <2>. QED
    BY <1>2, <1>4, <2>1 DEF ControlFenced
<1>10. RecoveryIds' /\ OnlyControlledHaveOps'
  BY <1>2, <1>4 DEF RecoveryIds, OnlyControlledHaveOps
<1>11. CancelledNeverSucceeds'
  BY <1>2, <1>4 DEF CancelledNeverSucceeds, ActiveOps
<1>. QED
  BY <1>6, <1>7, <1>8, <1>9, <1>10, <1>11

\* A ticket that ends its run preserves the invariant: the operation in
\* control is unique, and settling it leaves none.
LEMMA TicketEndInv ==
    ASSUME Inv, TicketEndStep
    PROVE  Inv'
<1>. USE DEF Inv
<1>1. PICK o \in ops, s \in Terminal, f \in Failure :
        /\ Ended(o.run, s, f)
        /\ runs[o.run].state = "cancelling" /\ o.status = "active"
        /\ s = "succeeded" => o.kind = "lease_expired"
        /\ CompletionClosed(o.run, s, o.id)
        /\ FinishControlOperation(o, "settled")
  BY DEF TicketEndStep
<1>. DEFINE done == [o EXCEPT !.status = "settled"]
<1>2. workers' = workers /\ plans' = plans
  BY DEF TicketEndStep
<1>3. /\ o \in OpRecord /\ o.run \in Run
      /\ done.run = o.run /\ done.id = o.id /\ done.kind = o.kind
      /\ done.rev = o.rev /\ done.status = "settled"
  BY DEF Typed, TypeOK, OpRecord
<1>4. ops' = (ops \ {o}) \cup {done}
  BY <1>1 DEF FinishControlOperation
<1>. HIDE DEF done
<1>5. /\ \A x \in Run : x # o.run => runs'[x] = runs[x]
      /\ runs'[o.run].state = s /\ runs'[o.run].rev = runs[o.run].rev + 1
      /\ runs'[o.run].gen = runs[o.run].gen /\ runs[o.run].rev \in Nat
  BY <1>1, <1>3, EndedRow DEF Typed, TypeOK, SameOrigin, RunRecord
<1>6. \A p \in ops : p.run \in Run /\ p.rev \in Nat
  BY DEF Typed, TypeOK, OpRecord
<1>7. \A p \in ops : p.run = o.run /\ p.status = "active" => p = o
  BY <1>1 DEF ControlFenced
<1>8. \A x \in Run : x # o.run => ActiveOps(x)' = ActiveOps(x)
  BY <1>3, <1>4 DEF ActiveOps
<1>9. ActiveOps(o.run)' = {}
  BY <1>3, <1>4, <1>7 DEF ActiveOps
<1>10. Typed'
  BY EndTyped
<1>11. /\ QueueUnique' /\ RunsWellFormed' /\ ClaimedHaveRevision'
       /\ OneActiveRunPerWorker'
  BY <1>1, <1>2, <1>3, EndKeepsRows
<1>12. CompletionFenced'
  <2>1. \A p \in ops : p.status = "settled" => p \in ops'
    BY <1>1, <1>4
  <2>2. s = "succeeded" => \E p \in ops' :
          /\ p.run = o.run /\ p.id = o.id /\ p.kind = "lease_expired"
          /\ p.status = "settled"
    BY <1>1, <1>3, <1>4
  <2>. QED
    BY <1>1, <1>3, <2>1, <2>2, EndKeepsCompletions
<1>13. ControlFenced'
  <2>1. \A x \in Run : (runs'[x].state = "cancelling") <=> (ActiveOps(x)' # {})
    BY <1>5, <1>8, <1>9 DEF ControlFenced, Terminal
  <2>2. \A p, q \in ops' : p.run = q.run =>
          /\ p.id = q.id => p = q
          /\ p.status = "active" /\ q.status = "active" => p = q
    BY <1>3, <1>4 DEF ControlFenced
  <2>3. \A p \in ops' :
          /\ runs'[p.run].gen > 0 /\ p.rev <= runs'[p.run].rev
          /\ p.status = "active" => /\ p.rev = runs'[p.run].rev
                                    /\ p.controller = runs'[p.run].controller
          /\ p.kind = "cancel" =>
               p.id \in CancelOp /\ p.run \in plans'[p.id].controlled
    <3>1. ASSUME NEW p \in ops, p # o
          PROVE  /\ runs'[p.run].gen > 0 /\ p.rev <= runs'[p.run].rev
                 /\ p.status = "active" => /\ p.rev = runs'[p.run].rev
                                           /\ p.controller = runs'[p.run].controller
                 /\ p.kind = "cancel" =>
                      p.id \in CancelOp /\ p.run \in plans'[p.id].controlled
      <4>1. CASE p.run = o.run
        BY <1>2, <1>5, <1>6, <1>7, <3>1, <4>1 DEF ControlFenced
      <4>2. CASE p.run # o.run
        BY <1>2, <1>5, <1>6, <4>2 DEF ControlFenced
      <4>. QED
        BY <4>1, <4>2
    <3>2. /\ runs'[done.run].gen > 0 /\ done.rev <= runs'[done.run].rev
          /\ done.status # "active"
          /\ done.kind = "cancel" =>
               done.id \in CancelOp /\ done.run \in plans'[done.id].controlled
      BY <1>2, <1>3, <1>5, <1>6 DEF ControlFenced
    <3>. QED
      BY <1>4, <3>1, <3>2
  <2>. QED
    BY <2>1, <2>2, <2>3 DEF ControlFenced
<1>14. RecoveryIds'
  BY <1>3, <1>4 DEF RecoveryIds
<1>15. OnlyControlledHaveOps'
  BY <1>3, <1>4, <1>5, <1>6 DEF OnlyControlledHaveOps
<1>16. CancelledNeverSucceeds'
  <2>1. ASSUME NEW p \in ops', p.kind = "cancel"
        PROVE  \E q \in ops : q.kind = "cancel" /\ q.run = p.run
    BY <1>3, <1>4, <2>1
  <2>2. s = "succeeded" => \A q \in ops : q.kind = "cancel" => q.run # o.run
    <3>1. o \in ActiveOps(o.run)
      BY <1>1 DEF ActiveOps
    <3>. QED
      BY <1>1, <3>1 DEF CancelledNeverSucceeds
  <2>3. ASSUME NEW q \in ops, q.kind = "cancel"
        PROVE  /\ runs'[q.run].state # "succeeded"
               /\ \A a \in ActiveOps(q.run)' :
                    a.kind \in {"cancel", "cancellation_abandoned"}
    BY <1>5, <1>6, <1>8, <1>9, <2>2, <2>3 DEF CancelledNeverSucceeds
  <2>. QED
    BY <2>1, <2>3 DEF CancelledNeverSucceeds
<1>. QED
  BY <1>10, <1>11, <1>12, <1>13, <1>14, <1>15, <1>16

\* Preparing a completion.
PrepareStep ==
    /\ \E r \in Run :
         /\ runs[r].state = "running" /\ completion[r].status = "none"
         /\ completion' = [completion EXCEPT ![r] =
              [status |-> "prepared", preparedRev |-> runs[r].rev, endRev |-> 0,
               byOp |-> 0]]
    /\ UNCHANGED <<workers, runs, ops, plans>>
    /\ latest' \in Nat /\ clock' \in Nat

\* Preparing a completion preserves the invariant.
LEMMA PrepareInv ==
    ASSUME Inv, PrepareStep
    PROVE  Inv'
<1>. USE DEF Inv
<1>1. PICK r \in Run :
        /\ runs[r].state = "running" /\ completion[r].status = "none"
        /\ completion' = [completion EXCEPT ![r] =
              [status |-> "prepared", preparedRev |-> runs[r].rev, endRev |-> 0,
               byOp |-> 0]]
  BY DEF PrepareStep
<1>2. workers' = workers /\ runs' = runs /\ ops' = ops /\ plans' = plans
  BY DEF PrepareStep
<1>3. completion \in [Run -> CompletionRecord] /\ runs[r].rev \in Nat
  BY DEF Typed, TypeOK, RunRecord
<1>4. /\ completion' \in [Run -> CompletionRecord]
      /\ \A x \in Run : x # r => completion'[x] = completion[x]
      /\ completion'[r].status = "prepared" /\ completion'[r].byOp = 0
      /\ completion'[r].preparedRev = runs[r].rev
  BY <1>1, <1>3, StatesTyped DEF CompletionRecord
<1>5. Typed'
  <2>1. TypeOK'
    BY <1>2, <1>4 DEF PrepareStep, Typed, TypeOK
  <2>2. PlacesKept
    BY <1>2 DEF PlacesKept
  <2>. QED
    BY <2>1, <2>2, CountersKept DEF Typed
<1>6. /\ QueueUnique' /\ RunsWellFormed' /\ ClaimedHaveRevision'
      /\ OneActiveRunPerWorker' /\ RecoveryIds' /\ OnlyControlledHaveOps'
  BY <1>2 DEF QueueUnique, RunsWellFormed, ClaimedHaveRevision,
              OneActiveRunPerWorker, RecoveryIds, OnlyControlledHaveOps
<1>7. ControlFenced' /\ CancelledNeverSucceeds'
  BY <1>2 DEF ControlFenced, CancelledNeverSucceeds, ActiveOps
<1>8. runs[r].rev > 0
  BY <1>1 DEF RunsWellFormed, ClaimedHaveRevision, Active, Leased
<1>9. CompletionFenced'
  BY <1>1, <1>2, <1>3, <1>4, <1>8 DEF CompletionFenced
<1>. QED
  BY <1>5, <1>6, <1>7, <1>9

\* Steps of the clock and of a worker's lifecycle leave the runs alone.
QuietStep ==
    /\ UNCHANGED <<runs, ops, plans, completion>>
    /\ workers' \in [Worker -> WorkerRecord]
    /\ \A w \in Worker :
         workers[w].life # "absent" => workers'[w].life # "absent"
    /\ latest' \in Nat /\ clock' \in Nat

\* release_worker and the clock are such steps.
LEMMA QuietEffect ==
    ASSUME Typed, \/ \E w \in Worker : ReleaseWorker(w)
                  \/ Tick \/ StepBack \/ UNCHANGED vars
    PROVE  QuietStep
<1>. USE DEF Typed
<1>1. CASE \E w \in Worker : ReleaseWorker(w)
  <2>1. PICK w \in Worker : ReleaseWorker(w)
    BY <1>1
  <2>2. /\ Enter(workers[w], "released") \in WorkerRecord
        /\ Enter(workers[w], "released").life = "released"
    BY EnterFields DEF TypeOK, Lifecycle
  <2>3. workers' = [workers EXCEPT ![w] = Enter(workers[w], "released")]
    BY <2>1 DEF ReleaseWorker
  <2>4. /\ workers' \in [Worker -> WorkerRecord]
        /\ \A x \in Worker :
             workers[x].life # "absent" => workers'[x].life # "absent"
    BY <2>2, <2>3 DEF TypeOK
  <2>. QED
    BY <2>1, <2>4, RecordTyped DEF ReleaseWorker, QuietStep
<1>2. CASE Tick
  BY <1>2 DEF Tick, tables, QuietStep, TypeOK
<1>3. CASE StepBack
  BY <1>3 DEF StepBack, tables, QuietStep, TypeOK
<1>4. CASE UNCHANGED vars
  BY <1>4 DEF vars, QuietStep, TypeOK
<1>. QED
  BY <1>1, <1>2, <1>3, <1>4

\* A quiet step preserves the invariant.
LEMMA QuietInv ==
    ASSUME Inv, QuietStep
    PROVE  Inv'
<1>. USE DEF Inv
<1>1. /\ runs' = runs /\ ops' = ops /\ plans' = plans /\ completion' = completion
      /\ workers' \in [Worker -> WorkerRecord]
      /\ \A w \in Worker :
           workers[w].life # "absent" => workers'[w].life # "absent"
  BY DEF QuietStep
<1>2. Typed'
  <2>1. TypeOK'
    BY <1>1 DEF QuietStep, Typed, TypeOK
  <2>2. PlacesKept
    BY <1>1 DEF PlacesKept
  <2>. QED
    BY <2>1, <2>2, CountersKept DEF Typed
<1>3. RunsWellFormed'
  BY <1>1 DEF RunsWellFormed
<1>4. /\ QueueUnique' /\ ClaimedHaveRevision'
      /\ OneActiveRunPerWorker' /\ RecoveryIds' /\ OnlyControlledHaveOps'
  BY <1>1 DEF QueueUnique, ClaimedHaveRevision,
              OneActiveRunPerWorker, RecoveryIds, OnlyControlledHaveOps
<1>5. ControlFenced' /\ CancelledNeverSucceeds' /\ CompletionFenced'
  BY <1>1 DEF ControlFenced, CancelledNeverSucceeds, ActiveOps, CompletionFenced
<1>. QED
  BY <1>2, <1>3, <1>4, <1>5

\* Taking control preserves the invariant: the operations it supersedes lose
\* control in the same step, and the new ones are fenced at the new revision.
LEMMA ControlInv ==
    ASSUME Inv, ControlStep
    PROVE  Inv'
<1>. USE DEF Inv
<1>1. PICK S \in SUBSET Run, Q \in SUBSET Run, id \in [Run -> OpId],
           kind \in [Run -> OpKind] :
        TakenOver(S, Q, id, kind) /\ Authorised(S, id, kind)
  BY DEF ControlStep
<1>. DEFINE new(r) == NewOperation(r, id[r], kind[r])
            old(o) == Supersede(o, S)
<1>2. ControlFrame /\ PlansKept /\ completion' = completion
  BY DEF ControlStep, ControlFrame
<1>3. ControlRows(S, Q)
  BY <1>1, TakenOverRows DEF Typed
<1>4. \A r \in S : /\ new(r).run = r /\ new(r).id = id[r]
                   /\ new(r).kind = kind[r] /\ new(r).status = "active"
                   /\ new(r).rev = runs[r].rev + 1
                   /\ new(r).controller = runs[r].controller
  <2>1. TAKE r \in S
  <2>2. r \in Run /\ id[r] \in OpId /\ kind[r] \in OpKind
    BY <1>1
  <2>. QED
    BY <2>2, NewOperationFields DEF Typed
<1>5. \A o \in ops :
        /\ old(o).run = o.run /\ old(o).id = o.id /\ old(o).kind = o.kind
        /\ old(o).rev = o.rev
        /\ o.run \in S => old(o).status # "active"
        /\ o.run \notin S => old(o) = o
        /\ old(o).status = "active" => old(o) = o
        /\ old(o).status = "settled" <=> o.status = "settled"
  BY SupersedeFields DEF Typed, TypeOK
<1>6. ops' = {old(o) : o \in ops} \cup {new(r) : r \in S}
  BY <1>1 DEF TakenOver
<1>. HIDE DEF new, old
<1>7. \A o \in ops : /\ o.run \in Run /\ o.run \notin Q /\ o.rev \in Nat
                     /\ runs[o.run].rev \in Nat
  BY <1>3 DEF ControlRows, OnlyControlledHaveOps, Terminal, Typed, TypeOK, OpRecord,
              RunRecord
<1>8. \A r \in S : r \notin Q
  BY <1>3 DEF ControlRows, Active, Leased
<1>9. Typed'
  BY <1>1, <1>2, ControlTyped
<1>10. QueueUnique'
  BY <1>3 DEF QueueUnique, ControlRows, SameOrigin, Active, Leased
<1>11. RunsWellFormed'
  <2>1. \A r \in Run : runs'[r].state # "absent" => runs[r].state # "absent"
    BY <1>3 DEF ControlRows, Active, Leased
  <2>2. \A r \in Run : runs'[r].state # "absent" =>
          /\ runs'[r].worker \in Worker
          /\ workers'[runs'[r].worker].life # "absent"
    BY <1>2, <1>3, <2>1 DEF RunsWellFormed, ControlRows, ControlFrame, SameOrigin
  <2>3. ASSUME NEW r \in S
        PROVE  /\ runs'[r].state = "cancelling" /\ runs'[r].gen > 0
               /\ runs'[r].deadline > 0 /\ runs'[r].lease = 0
               /\ runs'[r].failure = "none"
               /\ (runs'[r].resumeOf = None) <=> (runs'[r].attempt = 0)
               /\ runs'[r].attempt <= MaxResumeAttempts
    BY <1>3 DEF RunsWellFormed, ControlRows, SameOrigin
  <2>4. ASSUME NEW r \in Q
        PROVE  /\ runs'[r].state = "cancelled" /\ runs'[r].failure = "cancelled"
               /\ runs'[r].lease = 0 /\ runs'[r].controller = "none"
               /\ (runs'[r].resumeOf = None) <=> (runs'[r].attempt = 0)
               /\ runs'[r].attempt <= MaxResumeAttempts
    BY <1>3 DEF RunsWellFormed, ControlRows, SameOrigin
  <2>5. \A r \in Run : r \notin S /\ r \notin Q => runs'[r] = runs[r]
    BY <1>3 DEF ControlRows
  <2>. QED
    BY <2>2, <2>3, <2>4, <2>5 DEF RunsWellFormed, Active, Leased, Terminal
<1>12. ClaimedHaveRevision'
  <2>1. \A r \in Run : runs[r].rev \in Nat
    BY DEF Typed, TypeOK, RunRecord
  <2>. QED
    BY <1>3, <2>1 DEF ClaimedHaveRevision, ControlRows, SameOrigin
<1>13. OneActiveRunPerWorker'
  <2>1. \A r \in Run : /\ runs'[r].worker = runs[r].worker
                       /\ runs'[r].state \in Active => runs[r].state \in Active
    BY <1>3 DEF ControlRows, SameOrigin, Active, Leased
  <2>. QED
    BY <2>1 DEF OneActiveRunPerWorker
<1>14. RecoveryIds'
  BY <1>1, <1>4, <1>5, <1>6 DEF RecoveryIds, Authorised
<1>15. OnlyControlledHaveOps'
  <2>1. \A r \in S : runs'[r].state = "cancelling"
    BY <1>3 DEF ControlRows
  <2>2. \A o \in ops : runs'[o.run].state \in {"cancelling"} \cup Terminal
    BY <1>3, <1>7, <2>1 DEF ControlRows, OnlyControlledHaveOps
  <2>. QED
    BY <1>4, <1>5, <1>6, <2>1, <2>2 DEF OnlyControlledHaveOps
<1>16. ControlFenced'
  <2>1. ASSUME NEW x \in Run
        PROVE  (runs'[x].state = "cancelling") <=> (ActiveOps(x)' # {})
    <3>1. CASE x \in S
      <4>1. new(x) \in ActiveOps(x)'
        BY <1>4, <1>6, <3>1 DEF ActiveOps
      <4>. QED
        BY <1>3, <3>1, <4>1 DEF ControlRows
    <3>2. CASE x \in Q
      <4>1. ActiveOps(x)' = {}
        BY <1>4, <1>5, <1>6, <1>7, <1>8, <3>2 DEF ActiveOps
      <4>. QED
        BY <1>3, <3>2, <4>1 DEF ControlRows
    <3>3. CASE x \notin S /\ x \notin Q
      <4>1. ActiveOps(x)' = ActiveOps(x)
        BY <1>4, <1>5, <1>6, <3>3 DEF ActiveOps
      <4>. QED
        BY <1>3, <3>3, <4>1 DEF ControlRows, ControlFenced
    <3>. QED
      BY <3>1, <3>2, <3>3
  <2>2. ASSUME NEW p \in ops', NEW q \in ops', p.run = q.run
        PROVE  /\ p.id = q.id => p = q
               /\ p.status = "active" /\ q.status = "active" => p = q
    <3>1. \A a, b \in ops : a.run = b.run =>
            /\ a.id = b.id => a = b
            /\ a.status = "active" /\ b.status = "active" => a = b
      BY DEF ControlFenced
    <3>2. \A r \in S, o \in ops : o.run = r => o.id # id[r]
      BY <1>1 DEF Authorised
    <3>. QED
      BY <1>4, <1>5, <1>6, <2>2, <3>1, <3>2
  <2>3. ASSUME NEW p \in ops'
        PROVE  /\ runs'[p.run].gen > 0 /\ p.rev <= runs'[p.run].rev
               /\ p.status = "active" => /\ p.rev = runs'[p.run].rev
                                         /\ p.controller = runs'[p.run].controller
               /\ p.kind = "cancel" =>
                    p.id \in CancelOp /\ p.run \in plans'[p.id].controlled
    <3>1. CASE \E r \in S : p = new(r)
      <4>1. PICK r \in S : p = new(r)
        BY <3>1
      <4>2. /\ runs'[r].rev = runs[r].rev + 1 /\ runs'[r].gen > 0
            /\ runs'[r].controller = runs[r].controller /\ runs[r].rev \in Nat
        BY <1>3 DEF ControlRows, SameOrigin, RunsWellFormed, Typed, TypeOK, RunRecord
      <4>3. kind[r] = "cancel" => /\ id[r] \in CancelOp
                                  /\ r \in plans'[id[r]].controlled
        BY <1>1 DEF Authorised
      <4>. QED
        BY <1>4, <4>1, <4>2, <4>3
    <3>2. CASE \E o \in ops : p = old(o)
      <4>1. PICK o \in ops : p = old(o)
        BY <3>2
      <4>2. /\ runs[o.run].gen > 0 /\ o.rev <= runs[o.run].rev
            /\ o.status = "active" => /\ o.rev = runs[o.run].rev
                                      /\ o.controller = runs[o.run].controller
            /\ o.kind = "cancel" =>
                 o.id \in CancelOp /\ o.run \in plans[o.id].controlled
        BY DEF ControlFenced
      <4>3. /\ runs'[o.run].gen = runs[o.run].gen
            /\ runs'[o.run].rev \in {runs[o.run].rev, runs[o.run].rev + 1}
            /\ o.run \notin S => runs'[o.run] = runs[o.run]
        BY <1>3, <1>7 DEF ControlRows, SameOrigin
      <4>4. o.kind = "cancel" => o.run \in plans'[o.id].controlled
        BY <1>2, <4>2 DEF PlansKept
      <4>. QED
        BY <1>5, <1>7, <4>1, <4>2, <4>3, <4>4
    <3>. QED
      BY <1>6, <3>1, <3>2
  <2>. QED
    BY <2>1, <2>2, <2>3 DEF ControlFenced
<1>17. CompletionFenced'
  <2>1. \A r \in Run : /\ completion[r].preparedRev \in Nat /\ runs[r].rev \in Nat
                       /\ completion[r].status \in
                            {"none", "prepared", "committed", "abandoned"}
    BY DEF Typed, TypeOK, CompletionRecord, RunRecord
  <2>2. \A r \in Q : completion[r].status = "none"
    BY <1>3, <2>1 DEF ControlRows, CompletionFenced, Terminal
  <2>3. \A r \in S : completion[r].status \in {"none", "prepared"}
    BY <1>3, <2>1 DEF ControlRows, CompletionFenced, Active, Leased, Terminal
  <2>4. ASSUME NEW r \in Run, completion[r].byOp # 0
        PROVE  \E o \in ops' : /\ o.run = r /\ o.id = completion[r].byOp
                               /\ o.kind = "lease_expired" /\ o.status = "settled"
    <3>1. PICK o \in ops : /\ o.run = r /\ o.id = completion[r].byOp
                           /\ o.kind = "lease_expired" /\ o.status = "settled"
      BY <2>4 DEF CompletionFenced
    <3>. QED
      BY <1>5, <1>6, <3>1
  <2>5. ASSUME NEW r \in Run
        PROVE  LET c == completion[r] IN
               /\ (c.status = "committed") <=> (runs'[r].state = "succeeded")
               /\ c.status = "prepared" => runs'[r].state \in {"running", "cancelling"}
               /\ c.status = "abandoned" => runs'[r].state \in Terminal \ {"succeeded"}
               /\ c.status # "none" => c.preparedRev > 0 /\ c.preparedRev <= runs'[r].rev
               /\ c.status \in {"committed", "abandoned"} => c.endRev = runs'[r].rev
    <3>1. CASE r \in S
      BY <1>3, <2>1, <2>3, <3>1 DEF ControlRows, CompletionFenced
    <3>2. CASE r \in Q
      BY <1>3, <2>2, <3>2 DEF ControlRows
    <3>3. CASE r \notin S /\ r \notin Q
      BY <1>3, <3>3 DEF ControlRows, CompletionFenced
    <3>. QED
      BY <3>1, <3>2, <3>3
  <2>. QED
    BY <1>2, <2>4, <2>5 DEF CompletionFenced
<1>18. CancelledNeverSucceeds'
  <2>1. ASSUME NEW p \in ops', p.kind = "cancel"
        PROVE  /\ runs'[p.run].state # "succeeded"
               /\ \A a \in ActiveOps(p.run)' :
                    a.kind \in {"cancel", "cancellation_abandoned"}
    <3>1. CASE p.run \in S
      <4>1. runs'[p.run].state = "cancelling"
        BY <1>3, <3>1 DEF ControlRows
      <4>2. \A a \in ActiveOps(p.run)' : a = new(p.run)
        BY <1>4, <1>5, <1>6, <3>1 DEF ActiveOps
      <4>3. p = new(p.run) \/ \E o \in ops : o.run = p.run /\ o.kind = "cancel"
        BY <1>4, <1>5, <1>6, <2>1
      <4>4. kind[p.run] \in {"cancel", "cancellation_abandoned"}
        BY <1>1, <1>4, <2>1, <3>1, <4>3 DEF Authorised
      <4>. QED
        BY <1>4, <3>1, <4>1, <4>2, <4>4
    <3>2. CASE p.run \notin S
      <4>1. p \in ops /\ ActiveOps(p.run)' = ActiveOps(p.run)
        BY <1>4, <1>5, <1>6, <3>2 DEF ActiveOps
      <4>2. runs'[p.run] = runs[p.run]
        BY <1>3, <1>7, <3>2, <4>1 DEF ControlRows
      <4>. QED
        BY <2>1, <4>1, <4>2 DEF CancelledNeverSucceeds
    <3>. QED
      BY <3>1, <3>2
  <2>. QED
    BY <2>1 DEF CancelledNeverSucceeds
<1>. QED
  BY <1>9, <1>10, <1>11, <1>12, <1>13, <1>14, <1>15, <1>16, <1>17, <1>18

-----------------------------------------------------------------------------
(* The theorems.                                                           *)

\* The empty store satisfies the invariant.
LEMMA InitInv ==
    ASSUME Init
    PROVE  Inv
<1>1. /\ runs = [r \in Run |-> NoRunRecord] /\ ops = {}
      /\ completion = [r \in Run |-> NoCompletion]
  BY DEF Init
<1>2. TypeOK
  <2>1. NoRunRecord \in RunRecord
    BY StatesTyped DEF NoRunRecord, RunRecord
  <2>2. NoPlan \in PlanRecord /\ NoCompletion \in CompletionRecord
    BY StatesTyped DEF NoPlan, PlanRecord, NoCompletion, CompletionRecord
  <2>3. [life |-> "absent", parent |-> None, rev |-> 0] \in WorkerRecord
    BY DEF WorkerRecord, Lifecycle
  <2>. QED
    BY <2>1, <2>2, <2>3 DEF Init, TypeOK
<1>3. \A r \in Run :
        /\ runs[r].state = "absent" /\ runs[r].gen = 0 /\ runs[r].queue = 0
        /\ runs[r].lease = 0 /\ runs[r].deadline = 0
        /\ runs[r].controller = "none" /\ runs[r].failure = "none"
        /\ runs[r].resumeOf = None /\ runs[r].attempt = 0
        /\ completion[r].status = "none" /\ completion[r].byOp = 0
  BY <1>1 DEF NoRunRecord, NoCompletion
<1>4. CountersBounded
  BY <1>3 DEF CountersBounded, HasMax, Places, Generations, RunsOf
<1>5. QueueUnique /\ ClaimedHaveRevision /\ OneActiveRunPerWorker
  BY <1>3 DEF QueueUnique, ClaimedHaveRevision, OneActiveRunPerWorker, Active, Leased
<1>6. RunsWellFormed
  BY <1>3, TimingAssumption DEF RunsWellFormed, Active, Leased, Terminal
<1>7. /\ ControlFenced /\ RecoveryIds /\ OnlyControlledHaveOps
      /\ CancelledNeverSucceeds
  BY <1>1, <1>3 DEF ControlFenced, RecoveryIds, OnlyControlledHaveOps,
                    CancelledNeverSucceeds, ActiveOps
<1>8. CompletionFenced
  BY <1>3 DEF CompletionFenced
<1>. QED
  BY <1>2, <1>4, <1>5, <1>6, <1>7, <1>8 DEF Inv, Typed

\* The steps by what they do: insert a run, claim runs, cancel a tree, recover
\* runs, and the rest by their effect.
Inserts ==
    \/ \E w \in Worker, r \in Run, b \in Backend, a \in AvailableAt :
         \/ CreateRoot(w, r, b, a) \/ EnqueueRun(w, r, b, a)
         \/ \E p \in Worker : SpawnChild(p, w, r, b, a)
    \/ \E src, r \in Run, a \in AvailableAt : EnqueueResume(src, r, a)
Claims == \E b \in Backend, S \in SUBSET Run : ClaimDue(b, S)
Cancels ==
    \E w \in Worker, c \in CancelOp : \E retry \in SUBSET CancelTickets(c) :
      RequestCancelTree(w, c, retry)
Recovers == \E S \in SUBSET Run : ClaimRecoveryDue(S)

\* Every step of the store is one of nine kinds.
LEMMA ActionKinds ==
    ASSUME Inv, [Next]_vars
    PROVE  \/ Inserts \/ Claims \/ Cancels \/ Recovers
           \/ AdvanceStep \/ PrepareStep \/ HolderEndStep \/ TicketEndStep \/ QuietStep
<1>. USE DEF Inv
<1>1. ASSUME NEW r \in Run,
             \/ Start(r) \/ Heartbeat(r) \/ RecordActivity(r)
             \/ BindResumeSession(r)
      PROVE  AdvanceStep
  BY <1>1, AdvanceEffect
<1>2. ASSUME NEW r \in Run, PrepareCompletion(r)
      PROVE  PrepareStep
  BY <1>2, RecordTyped DEF PrepareCompletion, ExecutionPermitValid,
                           AuthenticatedRun, PrepareStep, Typed
<1>3. ASSUME NEW r \in Run,
             CommitCompletion(r) \/ \E outcome \in Settlements : Settle(r, outcome)
      PROVE  HolderEndStep
  BY <1>3, HolderEndEffect
<1>4. ASSUME NEW o \in ops,
             \/ \E outcome \in CancelOutcomes : SettleCancel(o, outcome)
             \/ ConfirmControllerGone(o) \/ CommitRecoveredCompletion(o)
      PROVE  TicketEndStep
  BY <1>4, TicketEndEffect
<1>5. ASSUME \/ \E w \in Worker : ReleaseWorker(w)
             \/ Tick \/ StepBack \/ UNCHANGED vars
      PROVE  QuietStep
  BY <1>5, QuietEffect
<1>. HIDE DEF Inv
<1>. QED
  BY <1>1, <1>2, <1>3, <1>4, <1>5, Zenon
     DEF Next, Inserts, Claims, Cancels, Recovers

\* What the first four kinds come to.
LEMMA InsertsEffect ==
    ASSUME Inv, Inserts
    PROVE  InsertionStep
BY CreateRootEffect, EnqueueRunEffect, SpawnChildEffect, EnqueueResumeEffect
   DEF Inv, Inserts

\* A claim step, of all claims.
LEMMA ClaimsEffect ==
    ASSUME Inv, Claims
    PROVE  ClaimStep
BY ClaimEffect DEF Inv, Claims

\* Cancellation and recovery both take control.
LEMMA ControlsEffect ==
    ASSUME Inv, Cancels \/ Recovers
    PROVE  ControlStep
BY CancelTreeEffect, RecoveryEffect DEF Inv, Cancels, Recovers

\* Every step preserves the invariant.
LEMMA NextInv ==
    ASSUME Inv, [Next]_vars
    PROVE  Inv'
BY ActionKinds, InsertsEffect, ClaimsEffect, ControlsEffect, InsertionInv, AdvanceInv,
   ClaimInv, PrepareInv, HolderEndInv, TicketEndInv, ControlInv, QuietInv

\* The invariant holds in every reachable state of the store.
THEOREM Invariance == Spec => []Inv
<1>1. Init => Inv
  BY InitInv
<1>2. Inv /\ [Next]_vars => Inv'
  BY NextInv
<1>. QED
  BY <1>1, <1>2, PTL DEF Spec

\* The tables always hold records of the declared shape.
THEOREM TypeCorrect == Spec => []TypeOK
<1>1. Inv => TypeOK
  BY DEF Inv, Typed
<1>. QED
  BY <1>1, Invariance, PTL

\* No operation writes a run row that validate_stored_run would reject.
THEOREM RowsAlwaysValid == Spec => []RunsWellFormed
<1>1. Inv => RunsWellFormed
  BY DEF Inv
<1>. QED
  BY <1>1, Invariance, PTL

\* A worker never has two runs in flight.
THEOREM OneRunInFlight == Spec => []OneActiveRunPerWorker
<1>1. Inv => OneActiveRunPerWorker
  BY DEF Inv
<1>. QED
  BY <1>1, Invariance, PTL

\* Control is exclusive and fenced at the run's revision.
THEOREM ControlIsFenced == Spec => []ControlFenced
<1>1. Inv => ControlFenced
  BY DEF Inv
<1>. QED
  BY <1>1, Invariance, PTL

\* A completion is committed exactly when its run succeeded.
THEOREM CompletionIsFenced == Spec => []CompletionFenced
<1>1. Inv => CompletionFenced
  BY DEF Inv
<1>. QED
  BY <1>1, Invariance, PTL

\* The restart audit of runs, operations and completions passes after every
\* sequence of legal calls.
THEOREM AuditAlwaysPasses == Spec => []AuditPasses
<1>1. TypeOK /\ RunsWellFormed /\ ControlFenced /\ CompletionFenced => AuditPasses
  BY DEF AuditPasses
<1>. QED
  BY <1>1, TypeCorrect, RowsAlwaysValid, ControlIsFenced, CompletionIsFenced, PTL

\* A run whose cancellation was accepted never succeeds.
THEOREM CancellationWins == Spec => []CancelledNeverSucceeds
<1>1. Inv => CancelledNeverSucceeds
  BY DEF Inv
<1>. QED
  BY <1>1, Invariance, PTL

\* A terminal row is out of reach of every kind of step.
LEMMA TerminalKept ==
    ASSUME Inv, [Next]_vars, NEW r \in Run, runs[r].state \in Terminal
    PROVE  runs'[r] = runs[r] /\ completion'[r] = completion[r]
<1>. USE DEF Inv
<1>1. CASE InsertionStep
  BY <1>1 DEF InsertionStep, InsertionFrame, Inserted, Terminal, Typed, TypeOK
<1>2. CASE AdvanceStep
  BY <1>2 DEF AdvanceStep, Advanced, Leased, Terminal, Typed, TypeOK
<1>3. CASE ClaimStep
  BY <1>3 DEF ClaimStep, Terminal
<1>4. CASE PrepareStep
  BY <1>4 DEF PrepareStep, Terminal, Typed, TypeOK
<1>5. CASE HolderEndStep
  <2>1. PICK x \in Run, s \in Terminal, f \in Failure :
          Ended(x, s, f) /\ CompletionClosed(x, s, 0)
    BY <1>5 DEF HolderEndStep
  <2>. QED
    BY <2>1 DEF Ended, CompletionClosed, Active, Leased, Terminal, Typed, TypeOK
<1>6. CASE TicketEndStep
  <2>1. PICK o \in ops, s \in Terminal, f \in Failure :
          Ended(o.run, s, f) /\ CompletionClosed(o.run, s, o.id)
    BY <1>6 DEF TicketEndStep
  <2>. QED
    BY <2>1 DEF Ended, CompletionClosed, Active, Leased, Terminal, Typed, TypeOK
<1>7. CASE ControlStep
  <2>1. PICK S \in SUBSET Run, Q \in SUBSET Run : ControlRows(S, Q)
    BY <1>7, TakenOverRows DEF ControlStep, Typed
  <2>. QED
    BY <1>7, <2>1 DEF ControlStep, ControlFrame, ControlRows, Active, Leased, Terminal
<1>8. CASE QuietStep
  BY <1>8 DEF QuietStep
<1>. QED
  BY <1>1, <1>2, <1>3, <1>4, <1>5, <1>6, <1>7, <1>8, ActionKinds, InsertsEffect,
     ClaimsEffect, ControlsEffect

\* No operation, replay, late ticket or recovery changes a terminal run.
THEOREM TerminalRunsAreFinal == Spec => TerminalIsFinal
<1>1. Inv /\ [Next]_vars =>
        [\A r \in Run : runs[r].state \in Terminal =>
           runs'[r] = runs[r] /\ completion'[r] = completion[r]]_vars
  BY TerminalKept
<1>. QED
  BY <1>1, Invariance, PTL DEF Spec, TerminalIsFinal

-----------------------------------------------------------------------------
(* Topology.  A subtree is the least set of workers that is closed under   *)
(* children, which is all the proofs below use of it.                      *)

Closed(S) == \A y \in Worker : workers[y].parent \in S => y \in S

\* A closed set with a worker in it holds the worker's subtree.
LEMMA SubtreeIsLeast ==
    ASSUME NEW w \in Worker, NEW S \in SUBSET Worker, w \in S, Closed(S)
    PROVE  Subtree(w) \subseteq S
BY DEF Subtree, Closed

\* A subtree holds its root and is closed.
LEMMA SubtreeIsClosed ==
    ASSUME NEW w \in Worker
    PROVE  /\ Subtree(w) \subseteq Worker /\ w \in Subtree(w)
           /\ Closed(Subtree(w))
BY DEF Subtree, Closed

ParentsKept == \A y \in Worker : workers'[y].parent = workers[y].parent

\* Subtrees stay while no worker is given a parent.
LEMMA SubtreeKept ==
    ASSUME ParentsKept, NEW w \in Worker
    PROVE  Subtree(w)' = Subtree(w)
BY DEF ParentsKept, Subtree

\* Worker w, whom nobody had as parent, comes under p.
Adopted(p, w) ==
    /\ p # w /\ workers[w].parent = None /\ workers'[w].parent = p
    /\ \A y \in Worker : workers[y].parent # w
    /\ \A y \in Worker : y # w => workers'[y].parent = workers[y].parent

\* A new leaf joins the subtrees its parent is in, and no other.
LEMMA SubtreeGrows ==
    ASSUME NEW p \in Worker, NEW w \in Worker, Adopted(p, w), NEW x \in Worker
    PROVE  /\ Subtree(x)' \subseteq Subtree(x) \cup {w}
           /\ Subtree(w)' \subseteq {w}
           /\ x # w /\ p \notin Subtree(x) => Subtree(x)' = Subtree(x)
<1>1. /\ Subtree(x) \subseteq Worker /\ x \in Subtree(x)
      /\ \A y \in Worker : workers[y].parent \in Subtree(x) => y \in Subtree(x)
  BY SubtreeIsClosed DEF Closed
<1>2. \A y \in Worker : workers'[y].parent \in Subtree(x) \cup {w} =>
                          y \in Subtree(x) \cup {w}
  BY <1>1 DEF Adopted
<1>3. Subtree(x)' \subseteq Subtree(x) \cup {w}
  <2>1. Subtree(x) \cup {w} \in SUBSET Worker
    BY <1>1
  <2>. QED
    BY <1>1, <1>2, <2>1 DEF Subtree
<1>4. Subtree(w)' \subseteq {w}
  <2>1. \A y \in Worker : workers'[y].parent \in {w} => y \in {w}
    BY DEF Adopted
  <2>2. {w} \in SUBSET Worker
    OBVIOUS
  <2>. QED
    BY <2>1, <2>2 DEF Subtree
<1>5. ASSUME x # w, p \notin Subtree(x)
      PROVE  Subtree(x)' = Subtree(x)
  <2>1. \A y \in Worker : workers'[y].parent \in Subtree(x) => y \in Subtree(x)
    BY <1>1, <1>5 DEF Adopted
  <2>2. Subtree(x)' \subseteq Subtree(x)
    <3>1. Subtree(x) \in SUBSET Worker
      BY <1>1
    <3>. QED
      BY <1>1, <2>1, <3>1 DEF Subtree
  <2>3. Subtree(x) \subseteq Subtree(x)'
    <3>1. ASSUME NEW S \in SUBSET Worker,
                 \A y \in Worker : workers'[y].parent \in S => y \in S
          PROVE  \A y \in Worker : workers[y].parent \in S => y \in S
      <4>1. None \notin S
        BY IdentityAssumption
      <4>. QED
        BY <3>1, <4>1 DEF Adopted
    <3>. QED
      BY <3>1 DEF Subtree
  <2>. QED
    BY <2>2, <2>3
<1>. QED
  BY <1>3, <1>4, <1>5

-----------------------------------------------------------------------------
(* The topology and the frozen plans.                                      *)

\* A worker that does not exist has no parent.
AbsentUnplaced ==
    \A w \in Worker : workers[w].life = "absent" => workers[w].parent = None

TreeInv == AbsentUnplaced /\ DrainedWorkersIdle /\ TopologyAcyclic /\ CancelPlansHold

\* Runs move on without being queued or leased anew where no worker is open.
RunsProceed ==
    \A r \in Run :
      /\ runs'[r].worker = runs[r].worker
      /\ runs'[r].state = "queued" => runs[r].state = "queued"
      /\ runs'[r].state \in Leased =>
           \/ runs[r].state \in Leased
           \/ runs[r].state = "queued" /\ Open(runs[r].worker)
      /\ runs'[r].state = "cancelling" => runs[r].state \in Active
      /\ runs[r].state = "cancelled" => runs'[r].state = "cancelled"

\* No operation is forgotten.
OpsRemain ==
    \A o \in ops : \E q \in ops' : q.run = o.run /\ q.id = o.id /\ q.kind = o.kind

\* CancelPlansHold, for one plan.
PlanHolds(c) ==
    /\ plans[c].workers = Subtree(plans[c].root)
    /\ \A w \in plans[c].workers : workers[w].life \in {"draining", "released"}
    /\ RunsIn(plans[c].workers, {"queued"}) \subseteq plans[c].queued
    /\ RunsIn(plans[c].workers, Active) \subseteq plans[c].controlled
    /\ \A r \in plans[c].queued : runs[r].state = "cancelled"
    /\ \A r \in plans[c].controlled :
         \E o \in ops : o.run = r /\ o.id = c /\ o.kind = "cancel"

\* The audit of the plans is that of each plan.
LEMMA PlansHoldEach ==
    CancelPlansHold <=> \A c \in CancelOp : plans[c].root # None => PlanHolds(c)
BY DEF CancelPlansHold, PlanHolds

\* A worker that is open no more.
Left(w) == workers[w].life \in {"draining", "released"}

\* Where a worker is open no more nothing is queued or claimed, what was
\* cancelled stays cancelled, and no worker opens again.
NothingRevived ==
    /\ \A w \in Worker : Left(w) => Left(w)'
    /\ \A r \in Run : Left(runs'[r].worker) =>
         /\ runs'[r].state = "queued" =>
              runs[r].state = "queued" /\ runs[r].worker = runs'[r].worker
         /\ runs'[r].state \in Active =>
              runs[r].state \in Active /\ runs[r].worker = runs'[r].worker
    /\ \A r \in Run : runs[r].state = "cancelled" => runs'[r].state = "cancelled"
    /\ OpsRemain

\* Such a step keeps a plan whose subtree it leaves alone.
LEMMA PlanStands ==
    ASSUME TypeOK, NEW c \in CancelOp, plans[c].root # None, PlanHolds(c),
           plans'[c] = plans[c], NothingRevived,
           Subtree(plans[c].root)' = Subtree(plans[c].root)
    PROVE  PlanHolds(c)'
<1>. DEFINE W == plans[c].workers
<1>1. /\ W \subseteq Worker /\ plans[c].queued \subseteq Run
      /\ plans[c].controlled \subseteq Run /\ plans[c].root \in Worker
  BY DEF TypeOK, PlanRecord
<1>2. (plans[c].workers = Subtree(plans[c].root))'
  BY DEF PlanHolds
<1>3. \A w \in W : Left(w) /\ Left(w)'
  BY <1>1 DEF PlanHolds, NothingRevived, Left
<1>4. /\ RunsIn(W, {"queued"})' \subseteq RunsIn(W, {"queued"})
      /\ RunsIn(W, Active)' \subseteq RunsIn(W, Active)
  BY <1>3 DEF RunsIn, NothingRevived
<1>5. \A r \in plans[c].queued : runs'[r].state = "cancelled"
  BY <1>1 DEF PlanHolds, NothingRevived
<1>6. \A r \in plans[c].controlled :
        \E o \in ops' : o.run = r /\ o.id = c /\ o.kind = "cancel"
  BY DEF PlanHolds, NothingRevived, OpsRemain
<1>. QED
  BY <1>2, <1>3, <1>4, <1>5, <1>6 DEF PlanHolds, Left

\* What such steps leave of the topology and of the plans.
LEMMA RunsProceedTree ==
    ASSUME TypeOK, RunsWellFormed, TreeInv, RunsProceed, OpsRemain,
           workers' = workers, plans' = plans
    PROVE  TreeInv'
<1>. USE DEF TreeInv
<1>1. AbsentUnplaced' /\ TopologyAcyclic'
  BY DEF AbsentUnplaced, TopologyAcyclic, Subtree
<1>2. DrainedWorkersIdle'
  <2>1. ASSUME NEW r \in Run, runs'[r].state \in {"queued"} \cup Leased
        PROVE  Open(runs[r].worker)
    BY <2>1 DEF RunsProceed, DrainedWorkersIdle
  <2>2. ASSUME NEW r \in Run, runs'[r].state = "cancelling"
        PROVE  workers[runs[r].worker].life # "released"
    BY <2>2 DEF RunsProceed, DrainedWorkersIdle, Active, Leased, Open
  <2>. QED
    BY <2>1, <2>2 DEF DrainedWorkersIdle, RunsProceed, Open
<1>3. NothingRevived
  BY DEF NothingRevived, RunsProceed, Left, Open, Active
<1>4. \A c \in CancelOp : plans[c].root # None => PlanHolds(c)'
  <2>1. TAKE c \in CancelOp
  <2>2. HAVE plans[c].root # None
  <2>3. PlanHolds(c)
    BY <2>2, PlansHoldEach
  <2>4. Subtree(plans[c].root)' = Subtree(plans[c].root)
    BY DEF Subtree
  <2>. QED
    BY <1>3, <2>2, <2>3, <2>4, PlanStands
<1>5. CancelPlansHold'
  BY <1>4 DEF CancelPlansHold, PlanHolds
<1>. QED
  BY <1>1, <1>2, <1>5

-----------------------------------------------------------------------------
(* Which steps leave the topology and the plans alone. *)

\* Advancing, claiming, preparing and ending runs, and recovering them.
LEMMA HolderSteps ==
    ASSUME Inv, AdvanceStep \/ PrepareStep \/ HolderEndStep \/ TicketEndStep
    PROVE  RunsProceed /\ OpsRemain /\ workers' = workers /\ plans' = plans
<1>. USE DEF Inv, Typed, TypeOK
<1>1. CASE AdvanceStep
  <2>1. PICK r \in Run, rec \in RunRecord : Advanced(r, rec)
    BY <1>1 DEF AdvanceStep
  <2>2. RunsProceed
    BY <2>1 DEF Advanced, SameOrigin, RunsProceed, Active, Leased
  <2>. QED
    BY <1>1, <2>2 DEF AdvanceStep, OpsRemain
<1>2. CASE PrepareStep
  BY <1>2 DEF PrepareStep, RunsProceed, OpsRemain, Active, Leased
<1>3. ASSUME NEW r \in Run, NEW s \in Terminal, NEW f \in Failure, Ended(r, s, f)
      PROVE  RunsProceed
  <2>1. runs[r] \in RunRecord /\ runs'[r] = Finish(runs[r], s, f)
    BY <1>3 DEF Ended
  <2>2. runs'[r].state = s /\ runs'[r].worker = runs[r].worker
    BY <2>1, FinishFields
  <2>3. \A x \in Run : x # r => runs'[x] = runs[x]
    BY <1>3 DEF Ended
  <2>4. s \notin {"queued", "cancelling"} \cup Leased
    BY DEF Terminal, Leased
  <2>5. runs[r].state # "cancelled"
    BY <1>3 DEF Ended, Active, Leased
  <2>. QED
    BY <2>2, <2>3, <2>4, <2>5 DEF RunsProceed, Active
<1>4. CASE HolderEndStep
  BY <1>3, <1>4 DEF HolderEndStep, OpsRemain
<1>5. CASE TicketEndStep
  <2>1. PICK o \in ops, s \in Terminal, f \in Failure :
          Ended(o.run, s, f) /\ FinishControlOperation(o, "settled")
    BY <1>5 DEF TicketEndStep
  <2>2. o \in OpRecord /\ o.run \in Run
    BY DEF OpRecord
  <2>3. OpsRemain
    <3>1. LET q == [o EXCEPT !.status = "settled"] IN
          q \in ops' /\ q.run = o.run /\ q.id = o.id /\ q.kind = o.kind
      BY <2>1, <2>2 DEF FinishControlOperation, OpRecord
    <3>. QED
      BY <2>1, <3>1 DEF FinishControlOperation, OpsRemain
  <2>. QED
    BY <1>3, <1>5, <2>1, <2>2, <2>3 DEF TicketEndStep
<1>. QED
  BY <1>1, <1>2, <1>4, <1>5

\* claim_due claims where workers are open.
LEMMA ClaimProceeds ==
    ASSUME Inv, NEW b \in Backend, NEW S \in SUBSET Run, ClaimDue(b, S)
    PROVE  RunsProceed /\ OpsRemain /\ workers' = workers /\ plans' = plans
<1>. USE DEF Inv
<1>1. \A r \in S : runs[r].state = "queued" /\ Open(runs[r].worker)
  BY DEF ClaimDue, ClaimableRuns
<1>2. ClaimRows(S)
  BY <1>1, ClaimedRows DEF ClaimDue
<1>3. RunsProceed
  BY <1>1, <1>2 DEF ClaimRows, RunsProceed, Active, Leased
<1>. QED
  BY <1>3 DEF ClaimDue, OpsRemain

\* Superseding keeps what an operation was.
LEMMA TakeOverKeepsOps ==
    ASSUME TypeOK, NEW S, NEW N, ops' = {Supersede(o, S) : o \in ops} \cup N
    PROVE  OpsRemain
<1>1. \A o \in ops : /\ Supersede(o, S) \in ops'
                     /\ Supersede(o, S).run = o.run
                     /\ Supersede(o, S).id = o.id /\ Supersede(o, S).kind = o.kind
  BY SupersedeFields DEF TypeOK
<1>. QED
  BY <1>1 DEF OpsRemain

\* claim_recovery_due takes control of runs in flight.
LEMMA RecoveryProceeds ==
    ASSUME Inv, NEW S \in SUBSET Run, ClaimRecoveryDue(S)
    PROVE  RunsProceed /\ OpsRemain /\ workers' = workers /\ plans' = plans
<1>. USE DEF Inv, Typed
<1>1. \A r \in S : runs[r].state \in Active
  BY DEF ClaimRecoveryDue, RecoveryDue, Active, Leased
<1>2. runs' = [r \in Run |-> IF r \in S THEN TakeControl(runs[r]) ELSE runs[r]]
  BY DEF ClaimRecoveryDue
<1>3. \A r \in S : runs'[r].state = "cancelling" /\ runs'[r].worker = runs[r].worker
  BY <1>2, TakeControlFields DEF TypeOK
<1>4. \A r \in Run : r \notin S => runs'[r] = runs[r]
  BY <1>2
<1>5. RunsProceed
  BY <1>1, <1>3, <1>4 DEF RunsProceed, Active, Leased
<1>6. ops' = {Supersede(o, S) : o \in ops}
               \cup {NewOperation(r, runs[r].rev + 1, RecoveryReason(r)) : r \in S}
  BY Zenon DEF ClaimRecoveryDue, TakeOver, Supersede
<1>7. OpsRemain
  BY <1>6, TakeOverKeepsOps
<1>. QED
  BY <1>5, <1>7 DEF ClaimRecoveryDue
-----------------------------------------------------------------------------
(* The steps that shape the topology and the plans. *)

\* A queued run of an open worker enters a row that was empty.
Enqueued(r) ==
    /\ runs[r].state = "absent" /\ runs'[r].state = "queued"
    /\ runs'[r].worker \in Worker
    /\ workers[runs'[r].worker].life \in {"open", "absent"}
    /\ workers'[runs'[r].worker].life = "open"
    /\ \A x \in Run : x # r => runs'[x] = runs[x]

\* What an insertion does to the workers: none, a new root or a new leaf.
Placed ==
    \/ workers' = workers
    \/ \E w \in Worker :
         /\ workers[w].life = "absent" /\ workers'[w].life = "open"
         /\ \A x \in Worker : x # w => workers'[x].life = workers[x].life
         /\ \/ workers'[w].parent = None /\ ParentsKept
            \/ \E p \in Worker : Open(p) /\ Adopted(p, w)

\* An insertion keeps the topology and every plan.
LEMMA InsertionTree ==
    ASSUME Inv, TreeInv, NEW r \in Run, Enqueued(r), Placed, plans' = plans, ops' = ops
    PROVE  TreeInv'
<1>. USE DEF TreeInv, Inv, Typed
<1>1. \A x \in Worker : /\ workers[x].life # "absent" => workers'[x].life = workers[x].life
                        /\ workers[x].life = "absent" => workers'[x].life \in {"absent", "open"}
  BY DEF Placed
<1>2. \A x \in Worker : workers[x].parent = None \/ workers[x].parent \in Worker
  BY DEF TypeOK, WorkerRecord
<1>3. AbsentUnplaced'
  BY <1>1 DEF Placed, AbsentUnplaced, ParentsKept, Adopted
<1>4. DrainedWorkersIdle'
  <2>1. ASSUME NEW x \in Run, x # r
        PROVE  /\ runs'[x] = runs[x]
               /\ runs[x].state # "absent" =>
                    /\ runs[x].worker \in Worker
                    /\ workers'[runs[x].worker].life = workers[runs[x].worker].life
    BY <1>1, <2>1 DEF Enqueued, RunsWellFormed
  <2>2. \A x \in Run : runs'[x].state \in {"queued"} \cup Leased =>
          workers'[runs'[x].worker].life = "open"
    BY <2>1 DEF Enqueued, DrainedWorkersIdle, Open, Leased
  <2>3. \A x \in Run : runs'[x].state = "cancelling" =>
          workers'[runs'[x].worker].life # "released"
    BY <2>1 DEF Enqueued, DrainedWorkersIdle
  <2>4. ASSUME NEW x \in Worker, workers'[x].parent # None
        PROVE  /\ workers'[workers'[x].parent].life # "absent"
               /\ workers'[workers'[x].parent].life = "released" =>
                    workers'[x].life = "released"
    <3>1. CASE workers'[x].parent = workers[x].parent
      BY <1>1, <1>2, <2>4, <3>1 DEF DrainedWorkersIdle, AbsentUnplaced
    <3>2. CASE workers'[x].parent # workers[x].parent
      BY <1>1, <3>2 DEF Placed, ParentsKept, Adopted, Open
    <3>. QED
      BY <3>1, <3>2
  <2>. QED
    BY <2>2, <2>3, <2>4 DEF DrainedWorkersIdle, Open
<1>5. TopologyAcyclic'
  <2>1. CASE ParentsKept
    <3>1. \A w \in Worker : Subtree(w)' = Subtree(w)
      BY <2>1, SubtreeKept
    <3>. QED
      BY <2>1, <3>1 DEF TopologyAcyclic, ParentsKept
  <2>2. ASSUME NEW w \in Worker, workers[w].life = "absent", NEW p \in Worker, Adopted(p, w)
        PROVE  TopologyAcyclic'
    <3>1. ASSUME NEW x \in Worker
          PROVE  workers'[x].parent \notin Subtree(x)'
      <4>1. CASE x = w
        BY <2>2, <4>1, SubtreeGrows DEF Adopted
      <4>2. CASE x # w
        <5>1. workers'[x].parent = workers[x].parent /\ workers[x].parent # w
          BY <2>2, <4>2 DEF Adopted
        <5>2. Subtree(x)' \subseteq Subtree(x) \cup {w}
          BY <2>2, SubtreeGrows
        <5>. QED
          BY <5>1, <5>2 DEF TopologyAcyclic
      <4>. QED
        BY <4>1, <4>2
    <3>. QED
      BY <3>1 DEF TopologyAcyclic
  <2>. QED
    BY <2>1, <2>2 DEF Placed, ParentsKept
<1>6. NothingRevived
  BY <1>1 DEF NothingRevived, Enqueued, OpsRemain, Left, Active, Leased
<1>7. \A c \in CancelOp : plans[c].root # None => PlanHolds(c)'
  <2>1. TAKE c \in CancelOp
  <2>2. HAVE plans[c].root # None
  <2>3. PlanHolds(c) /\ plans[c].root \in Worker
    BY <2>2, PlansHoldEach DEF TypeOK, PlanRecord
  <2>4. \A x \in Subtree(plans[c].root) : Left(x)
    BY <2>3 DEF PlanHolds, Left
  <2>5. plans[c].root \in Subtree(plans[c].root)
    BY <2>3, SubtreeIsClosed
  <2>6. PICK root \in Worker : root = plans[c].root
    BY <2>3
  <2>7. Subtree(root)' = Subtree(root)
    <3>1. CASE ParentsKept
      BY <3>1, SubtreeKept
    <3>2. ASSUME NEW w \in Worker, workers[w].life = "absent", NEW p \in Worker,
                 Open(p), Adopted(p, w)
          PROVE  Subtree(root)' = Subtree(root)
      <4>1. p \notin Subtree(root) /\ root # w
        BY <2>4, <2>5, <2>6, <3>2 DEF Left, Open
      <4>. QED
        BY <3>2, <4>1, SubtreeGrows
    <3>. QED
      BY <3>1, <3>2 DEF Placed, ParentsKept
  <2>8. Subtree(plans[c].root)' = Subtree(plans[c].root)
    BY <2>6, <2>7
  <2>. QED
    BY <1>6, <2>2, <2>3, <2>8, PlanStands
<1>8. CancelPlansHold'
  BY <1>7 DEF CancelPlansHold, PlanHolds
<1>. QED
  BY <1>3, <1>4, <1>5, <1>8

\* Insertions of a run on their own: the new row.
LEMMA EnqueuedRow ==
    ASSUME Typed, NEW w \in Worker, NEW r \in Run, NEW rec \in RunRecord,
           runs[r].state = "absent", runs' = [runs EXCEPT ![r] = rec],
           rec.state = "queued", rec.worker = w,
           workers[w].life \in {"open", "absent"}, workers'[w].life = "open"
    PROVE  Enqueued(r)
<1>1. runs'[r] = rec /\ \A x \in Run : x # r => runs'[x] = runs[x]
  BY DEF Typed, TypeOK
<1>. QED
  BY <1>1 DEF Enqueued

\* create_root, enqueue, spawn_child and enqueue_resume are such insertions.
LEMMA InsertionsTree ==
    ASSUME Inv, TreeInv, NEW r \in Run, NEW a \in AvailableAt,
           \/ \E w \in Worker, b \in Backend :
                \/ CreateRoot(w, r, b, a) \/ EnqueueRun(w, r, b, a)
                \/ \E p \in Worker : SpawnChild(p, w, r, b, a)
           \/ \E src \in Run : EnqueueResume(src, r, a)
    PROVE  TreeInv'
<1>. USE DEF Inv, Typed
<1>1. a \in Nat /\ workers \in [Worker -> WorkerRecord]
  BY TimingAssumption DEF TypeOK
<1>2. ASSUME NEW w \in Worker, NEW b \in Backend
      PROVE  /\ NewRunRecord(w, b, a) \in RunRecord
             /\ NewRunRecord(w, b, a).state = "queued"
             /\ NewRunRecord(w, b, a).worker = w
  BY <1>1, NewRunFields
<1>3. ASSUME NEW w \in Worker, NEW b \in Backend, CreateRoot(w, r, b, a)
      PROVE  TreeInv'
  <2>1. /\ workers[w].life = "absent" /\ workers'[w] = OpenWorker(None)
        /\ \A x \in Worker : x # w => workers'[x] = workers[x]
        /\ OpenWorker(None).life = "open" /\ OpenWorker(None).parent = None
    BY <1>1, <1>3 DEF CreateRoot, OpenWorker
  <2>2. Placed
    BY <2>1 DEF Placed, ParentsKept, TreeInv, AbsentUnplaced
  <2>3. Enqueued(r)
    <3>1. /\ runs[r].state = "absent" /\ workers'[w].life = "open"
          /\ runs' = [runs EXCEPT ![r] = NewRunRecord(w, b, a)]
      BY <1>3, <2>1 DEF CreateRoot
    <3>. QED
      BY <1>2, <2>1, <3>1, EnqueuedRow
  <2>. QED
    BY <1>3, <2>2, <2>3, InsertionTree DEF CreateRoot
<1>4. ASSUME NEW w \in Worker, NEW b \in Backend, EnqueueRun(w, r, b, a)
      PROVE  TreeInv'
  <2>1. Enqueued(r)
    BY <1>2, <1>4, EnqueuedRow DEF EnqueueRun, Open
  <2>. QED
    BY <1>4, <2>1, InsertionTree DEF EnqueueRun, Placed
<1>5. ASSUME NEW w \in Worker, NEW b \in Backend, NEW p \in Worker,
             SpawnChild(p, w, r, b, a)
      PROVE  TreeInv'
  <2>1. workers[w].life = "absent" /\ workers[p].life = "open" /\ p # w
    BY <1>5 DEF SpawnChild, Open
  <2>2. /\ NextRevision(workers[p]).life = workers[p].life
        /\ NextRevision(workers[p]).parent = workers[p].parent
        /\ OpenWorker(p).life = "open" /\ OpenWorker(p).parent = p
    BY <1>1 DEF NextRevision, OpenWorker, WorkerRecord
  <2>3. /\ workers'[w] = OpenWorker(p) /\ workers'[p] = NextRevision(workers[p])
        /\ \A x \in Worker : x # w /\ x # p => workers'[x] = workers[x]
    BY <1>1, <1>5, <2>1 DEF SpawnChild
  <2>4. \A x \in Worker : x # w => /\ workers'[x].life = workers[x].life
                                   /\ workers'[x].parent = workers[x].parent
    BY <2>2, <2>3
  <2>5. Adopted(p, w)
    <3>1. workers[w].parent = None
      BY <2>1 DEF TreeInv, AbsentUnplaced
    <3>2. \A y \in Worker : workers[y].parent # w
      BY <2>1, IdentityAssumption DEF TreeInv, DrainedWorkersIdle
    <3>. QED
      BY <2>1, <2>2, <2>3, <2>4, <3>1, <3>2 DEF Adopted
  <2>6. Placed
    BY <2>1, <2>2, <2>3, <2>4, <2>5 DEF Placed, Open
  <2>7. Enqueued(r)
    <3>1. /\ runs[r].state = "absent" /\ workers'[w].life = "open"
          /\ runs' = [runs EXCEPT ![r] = NewRunRecord(w, b, a)]
      BY <1>5, <2>2, <2>3 DEF SpawnChild
    <3>. QED
      BY <1>2, <2>1, <3>1, EnqueuedRow
  <2>. QED
    BY <1>5, <2>6, <2>7, InsertionTree DEF SpawnChild
<1>6. ASSUME NEW src \in Run, EnqueueResume(src, r, a)
      PROVE  TreeInv'
  <2>. DEFINE base == NewRunRecord(runs[src].worker, runs[src].backend, a)
              rec == [base EXCEPT !.binding = "bound", !.resumeOf = src,
                                  !.attempt = runs[src].attempt + 1]
  <2>1. /\ runs[src] \in RunRecord /\ runs[src].attempt + 1 \in Nat
        /\ runs[src].state = "interrupted" /\ Open(runs[src].worker)
    <3>1. runs[src] \in RunRecord
      BY DEF TypeOK
    <3>. QED
      BY <1>6, <3>1, RunRecordFields DEF EnqueueResume
  <2>2. runs[src].worker \in Worker /\ runs[src].backend \in Backend \cup {None}
    BY <2>1 DEF RunsWellFormed, RunRecord
  <2>3. base \in RunRecord /\ base.state = "queued" /\ base.worker = runs[src].worker
    <3>1. a \in Nat /\ TypeOK /\ CountersBounded
      BY <1>1
    <3>. QED
      BY ONLY <2>2, <3>1, NewRunFields
  <2>. HIDE DEF base
  <2>4. /\ rec \in RunRecord
        /\ rec.state = "queued" /\ rec.worker = runs[src].worker
    BY <2>1, <2>3 DEF RunRecord
  <2>5. runs[r].state = "absent" /\ runs' = [runs EXCEPT ![r] = rec] /\ workers' = workers
    BY <1>6 DEF EnqueueResume, base
  <2>. HIDE DEF rec
  <2>6. Enqueued(r)
    BY <2>1, <2>2, <2>4, <2>5, EnqueuedRow DEF Open
  <2>. QED
    BY <1>6, <2>5, <2>6, InsertionTree DEF EnqueueResume, Placed
<1>. QED
  BY <1>3, <1>4, <1>5, <1>6

\* release_worker ends a drained worker whose children were released.
LEMMA ReleaseTree ==
    ASSUME Inv, TreeInv, NEW w \in Worker, ReleaseWorker(w)
    PROVE  TreeInv'
<1>. USE DEF TreeInv, Inv, Typed
<1>1. /\ workers[w].life = "draining"
      /\ \A r \in Run : runs[r].worker = w => runs[r].state \in Terminal
      /\ \A x \in Worker : workers[x].parent = w => workers[x].life = "released"
      /\ workers' = [workers EXCEPT ![w] = Enter(workers[w], "released")]
      /\ runs' = runs /\ ops' = ops /\ plans' = plans
  BY DEF ReleaseWorker, RunsOf
<1>2. /\ Enter(workers[w], "released").life = "released"
      /\ Enter(workers[w], "released").parent = workers[w].parent
  BY EnterFields DEF TypeOK, Lifecycle
<1>3. /\ workers'[w].life = "released" /\ ParentsKept
      /\ \A x \in Worker : x # w => workers'[x] = workers[x]
  BY <1>1, <1>2 DEF TypeOK, ParentsKept
<1>4. AbsentUnplaced'
  BY <1>3 DEF AbsentUnplaced, ParentsKept
<1>5. \A x \in Worker : Subtree(x)' = Subtree(x)
  BY <1>3, SubtreeKept
<1>6. TopologyAcyclic'
  BY <1>3, <1>5 DEF TopologyAcyclic, ParentsKept
<1>7. DrainedWorkersIdle'
  <2>1. \A r \in Run : runs[r].state \in {"queued"} \cup Active => runs[r].worker \in Worker \ {w}
    BY <1>1 DEF RunsWellFormed, Active, Leased, Terminal
  <2>2. \A x \in Worker : workers[x].parent # None => workers[x].parent \in Worker
    BY DEF TypeOK, WorkerRecord
  <2>. QED
    BY <1>1, <1>3, <2>1, <2>2 DEF DrainedWorkersIdle, Open, Active, ParentsKept
<1>8. NothingRevived
  BY <1>1, <1>3 DEF NothingRevived, Left, OpsRemain
<1>9. \A c \in CancelOp : plans[c].root # None => PlanHolds(c)'
  <2>1. TAKE c \in CancelOp
  <2>2. HAVE plans[c].root # None
  <2>3. PICK root \in Worker : root = plans[c].root
    BY <2>2 DEF TypeOK, PlanRecord
  <2>4. Subtree(plans[c].root)' = Subtree(plans[c].root)
    BY <1>1, <1>5, <2>3
  <2>. QED
    BY <1>1, <1>8, <2>2, <2>4, PlansHoldEach, PlanStands
<1>10. CancelPlansHold'
  BY <1>1, <1>9 DEF CancelPlansHold, PlanHolds
<1>. QED
  BY <1>4, <1>6, <1>7, <1>10

\* The parts of request_cancel_tree.
CancelledRuns(w) == RunsIn(Subtree(w), {"queued"})
TakenRuns(w, retry) == RunsIn(Subtree(w), Active) \ {o.run : o \in retry}

\* What request_cancel_tree does to rows, workers and operations.
LEMMA CancelTreeParts ==
    ASSUME Inv, TreeInv, NEW w \in Worker, NEW c \in CancelOp,
           NEW retry \in SUBSET CancelTickets(c), RequestCancelTree(w, c, retry)
    PROVE  LET T == Subtree(w)
               Q == CancelledRuns(w)
               S == TakenRuns(w, retry)
           IN  /\ T \subseteq Worker /\ w \in T
               /\ \A x \in T : workers[x].life # "absent"
               /\ \A x \in Worker : x \in T /\ Open(x) => workers'[x].life = "draining"
               /\ \A x \in Worker : ~(x \in T /\ Open(x)) => workers'[x] = workers[x]
               /\ ParentsKept
               /\ ControlRows(S, Q)
               /\ ops' = {Supersede(o, S) : o \in ops}
                           \cup {NewOperation(r, c, "cancel") : r \in S}
               /\ FreezeOrMatchPlan(w, c, retry)
               /\ \A r \in RunsIn(T, Active) \ S : runs[r].state = "cancelling"
               /\ \A r \in S : FreshOperation(r, c)
<1>. USE DEF Inv, Typed
<1>. DEFINE T == Subtree(w)
            Q == CancelledRuns(w)
            S == TakenRuns(w, retry)
<1>1. T \subseteq Worker /\ w \in T
  BY SubtreeIsClosed
<1>2. \A x \in T : workers[x].life # "absent"
  <2>. DEFINE P == {x \in Worker : workers[x].life # "absent"}
  <2>1. P \in SUBSET Worker /\ w \in P
    BY DEF RequestCancelTree
  <2>2. Closed(P)
    BY IdentityAssumption DEF Closed, TreeInv, AbsentUnplaced
  <2>3. T \subseteq P
    BY <2>1, <2>2, SubtreeIsLeast
  <2>. QED
    BY <2>3
<1>3. workers' = [x \in Worker |-> IF x \in {y \in T : Open(y)}
                                   THEN Enter(workers[x], "draining") ELSE workers[x]]
  BY DEF RequestCancelTree
<1>4. ASSUME NEW x \in Worker
      PROVE  /\ Enter(workers[x], "draining").life = "draining"
             /\ Enter(workers[x], "draining").parent = workers[x].parent
  BY EnterFields DEF TypeOK, Lifecycle
<1>5. /\ \A x \in Worker : x \in T /\ Open(x) => workers'[x].life = "draining"
      /\ \A x \in Worker : ~(x \in T /\ Open(x)) => workers'[x] = workers[x]
      /\ ParentsKept
  BY <1>3, <1>4 DEF ParentsKept
<1>6. runs' = [r \in Run |->
         IF r \in Q THEN Finish(runs[r], "cancelled", "cancelled")
         ELSE IF r \in S THEN TakeControl(runs[r]) ELSE runs[r]]
  BY DEF RequestCancelTree, CancelledRuns, TakenRuns
<1>7. ops' = {Supersede(o, S) : o \in ops}
               \cup {NewOperation(r, c, "cancel") : r \in S}
  BY Zenon DEF RequestCancelTree, TakeOver, Supersede, TakenRuns
<1>8. /\ S \subseteq Run /\ Q \subseteq Run
      /\ \A r \in S : runs[r].state \in Active
      /\ \A r \in Q : runs[r].state = "queued"
  BY DEF RunsIn, CancelledRuns, TakenRuns
<1>9. ControlRows(S, Q)
  <2>. DEFINE id == [r \in Run |-> c]
              kind == [r \in Run |-> "cancel"]
  <2>1. id \in [Run -> OpId] /\ kind \in [Run -> OpKind]
    BY DEF OpId, OpKind
  <2>2. ops' = {Supersede(o, S) : o \in ops}
                 \cup {NewOperation(r, id[r], kind[r]) : r \in S}
    BY <1>7, <1>8
  <2>3. TakenOver(S, Q, id, kind)
    BY <1>6, <1>8, <2>1, <2>2, Zenon DEF TakenOver
  <2>. HIDE DEF S, Q, id, kind
  <2>. QED
    BY <2>3, TakenOverRows
<1>10. FreezeOrMatchPlan(w, c, retry) /\ \A r \in S : FreshOperation(r, c)
  BY DEF RequestCancelTree, TakenRuns
<1>11. \A r \in RunsIn(T, Active) \ S : runs[r].state = "cancelling"
  <2>1. \A o \in retry : runs[o.run].state = "cancelling"
    BY DEF RequestCancelTree, ControlTicketMatches
  <2>. QED
    BY <2>1 DEF TakenRuns
<1>. QED
  BY <1>1, <1>2, <1>5, <1>7, <1>9, <1>10, <1>11

\* request_cancel_tree drains a subtree and freezes the plan of it.
LEMMA CancelTree ==
    ASSUME Inv, TreeInv, NEW w \in Worker, NEW c \in CancelOp,
           NEW retry \in SUBSET CancelTickets(c), RequestCancelTree(w, c, retry)
    PROVE  TreeInv'
<1>. USE DEF TreeInv, Inv, Typed
<1>. DEFINE T == Subtree(w)
            Q == CancelledRuns(w)
            S == TakenRuns(w, retry)
<1>1. /\ T \subseteq Worker /\ w \in T
      /\ \A x \in T : workers[x].life # "absent"
      /\ \A x \in Worker : x \in T /\ Open(x) => workers'[x].life = "draining"
      /\ \A x \in Worker : ~(x \in T /\ Open(x)) => workers'[x] = workers[x]
      /\ ParentsKept /\ ControlRows(S, Q)
      /\ ops' = {Supersede(o, S) : o \in ops}
                  \cup {NewOperation(r, c, "cancel") : r \in S}
      /\ FreezeOrMatchPlan(w, c, retry)
      /\ \A r \in RunsIn(T, Active) \ S : runs[r].state = "cancelling"
  BY CancelTreeParts
<1>2. AbsentUnplaced'
  BY <1>1 DEF AbsentUnplaced, ParentsKept
<1>3. \A x \in Worker : Subtree(x)' = Subtree(x)
  BY <1>1, SubtreeKept
<1>4. TopologyAcyclic'
  BY <1>1, <1>3 DEF TopologyAcyclic, ParentsKept
<1>5. /\ \A r \in Run : runs'[r].worker = runs[r].worker
      /\ \A r \in Run : r \notin S /\ r \notin Q => runs'[r] = runs[r]
      /\ \A r \in Q : runs[r].state = "queued" /\ runs'[r].state = "cancelled"
      /\ \A r \in S : runs[r].state \in Active /\ runs'[r].state = "cancelling"
  BY <1>1 DEF ControlRows, SameOrigin
<1>6. \A r \in Run : /\ r \in Q <=> runs[r].worker \in T /\ runs[r].state = "queued"
                     /\ runs[r].worker \in T /\ runs[r].state \in Leased => r \in S
  BY <1>1 DEF CancelledRuns, RunsIn, Active, Leased
<1>. HIDE DEF Q, S, T
<1>7. DrainedWorkersIdle'
  <2>1. ASSUME NEW r \in Run, runs'[r].state \in {"queued"} \cup Leased
        PROVE  workers'[runs[r].worker].life = "open"
    <3>1. r \notin S /\ r \notin Q /\ runs'[r] = runs[r]
      BY <1>5, <2>1 DEF Leased
    <3>2. runs[r].worker \notin T
      BY <1>6, <2>1, <3>1
    <3>3. runs[r].worker \in Worker /\ Open(runs[r].worker)
      BY <2>1, <3>1 DEF RunsWellFormed, DrainedWorkersIdle, Leased
    <3>. QED
      BY <1>1, <3>2, <3>3 DEF Open
  <2>2. ASSUME NEW r \in Run, runs'[r].state = "cancelling"
        PROVE  workers'[runs[r].worker].life # "released"
    <3>1. runs[r].state \in Active
      BY <1>5, <2>2 DEF Active
    <3>2. runs[r].worker \in Worker /\ workers[runs[r].worker].life # "released"
      BY <3>1 DEF RunsWellFormed, DrainedWorkersIdle, Active, Leased, Open
    <3>. QED
      BY <1>1, <3>2
  <2>3. ASSUME NEW x \in Worker, workers'[x].parent # None
        PROVE  /\ workers'[workers'[x].parent].life # "absent"
               /\ workers'[workers'[x].parent].life = "released" =>
                    workers'[x].life = "released"
    <3>1. workers'[x].parent = workers[x].parent /\ workers[x].parent \in Worker
      BY <1>1, <2>3 DEF ParentsKept, TypeOK, WorkerRecord
    <3>. QED
      BY <1>1, <2>3, <3>1 DEF DrainedWorkersIdle, Open
  <2>. QED
    BY <1>5, <2>1, <2>2, <2>3 DEF DrainedWorkersIdle, Open
<1>8. OpsRemain
  BY <1>1, TakeOverKeepsOps
<1>9. NothingRevived
  <2>1. \A x \in Worker : Left(x) => Left(x)'
    BY <1>1 DEF Left, Open
  <2>2. \A r \in Run : /\ runs'[r].state = "queued" => runs[r].state = "queued"
                       /\ runs'[r].state \in Active => runs[r].state \in Active
                       /\ runs[r].state = "cancelled" => runs'[r].state = "cancelled"
    BY <1>5 DEF Active, Leased
  <2>. QED
    BY <1>5, <1>8, <2>1, <2>2 DEF NothingRevived
<1>10. ASSUME NEW d \in CancelOp, plans[d].root # None, plans'[d] = plans[d]
       PROVE  PlanHolds(d)'
  <2>1. PICK root \in Worker : root = plans[d].root
    BY <1>10 DEF TypeOK, PlanRecord
  <2>2. Subtree(plans[d].root)' = Subtree(plans[d].root)
    BY <1>3, <1>10, <2>1
  <2>. QED
    BY <1>9, <1>10, <2>2, PlansHoldEach, PlanStands
<1>11. ASSUME plans' = plans
       PROVE  CancelPlansHold'
  <2>1. \A d \in CancelOp : plans'[d].root # None => PlanHolds(d)'
    BY <1>10, <1>11
  <2>. QED
    BY <2>1 DEF CancelPlansHold, PlanHolds
<1>12. ASSUME plans[c] = NoPlan, retry = {},
              plans' = [plans EXCEPT ![c] =
                 [root |-> w, workers |-> Subtree(w), queued |-> RunsIn(Subtree(w), {"queued"}),
                  controlled |-> RunsIn(Subtree(w), Active)]]
       PROVE  CancelPlansHold'
  <2>1. /\ plans'[c].root = w /\ plans'[c].workers = T /\ plans'[c].queued = Q
        /\ plans'[c].controlled = S
        /\ S = RunsIn(T, Active)
        /\ \A d \in CancelOp : d # c => plans'[d] = plans[d]
    BY <1>12 DEF TypeOK, T, Q, S, CancelledRuns, TakenRuns
  <2>2. (plans[c].workers = Subtree(plans[c].root))'
    BY <1>3, <2>1 DEF T
  <2>3. \A x \in T : workers'[x].life \in {"draining", "released"}
    BY <1>1 DEF Open, TypeOK, WorkerRecord, Lifecycle
  <2>4. RunsIn(T, {"queued"})' \subseteq Q /\ RunsIn(T, Active)' \subseteq S
    <3>1. T' = T
      BY <1>3 DEF T
    <3>. QED
      BY <1>5, <1>6, <2>1, <3>1 DEF RunsIn, Active, Leased
  <2>5. \A r \in S : \E o \in ops' : o.run = r /\ o.id = c /\ o.kind = "cancel"
    <3>1. TAKE r \in S
    <3>2. NewOperation(r, c, "cancel") \in ops'
      BY <1>1, <3>1
    <3>. QED
      BY <3>2 DEF NewOperation
  <2>6. PlanHolds(c)'
    BY <1>3, <1>5, <2>1, <2>2, <2>3, <2>4, <2>5 DEF PlanHolds, T
  <2>7. \A d \in CancelOp : plans'[d].root # None => PlanHolds(d)'
    BY <1>10, <2>1, <2>6
  <2>. QED
    BY <2>7 DEF CancelPlansHold, PlanHolds
<1>13. CancelPlansHold'
  BY <1>1, <1>11, <1>12 DEF FreezeOrMatchPlan
<1>. QED
  BY <1>2, <1>4, <1>7, <1>13

\* The empty store has no topology and no plans.
LEMMA InitTree ==
    ASSUME Init
    PROVE  TreeInv
<1>1. /\ \A w \in Worker : workers[w].parent = None
      /\ \A r \in Run : runs[r].state = "absent"
      /\ \A c \in CancelOp : plans[c].root = None
  BY DEF Init, NoRunRecord, NoPlan
<1>2. \A w \in Worker : None \notin Subtree(w)
  BY IdentityAssumption DEF Subtree
<1>. QED
  BY <1>1, <1>2 DEF TreeInv, AbsentUnplaced, DrainedWorkersIdle, TopologyAcyclic,
                    CancelPlansHold, Leased

\* Every step keeps the topology and the plans.
LEMMA NextTree ==
    ASSUME Inv, TreeInv, [Next]_vars
    PROVE  TreeInv'
<1>1. ASSUME RunsProceed /\ OpsRemain /\ workers' = workers /\ plans' = plans
      PROVE  TreeInv'
  BY <1>1, RunsProceedTree DEF Inv, Typed
<1>2. CASE Inserts
  BY <1>2, InsertionsTree DEF Inserts
<1>3. CASE Claims
  BY <1>1, <1>3, ClaimProceeds DEF Claims
<1>4. CASE Cancels
  BY <1>4, CancelTree DEF Cancels
<1>5. CASE Recovers
  BY <1>1, <1>5, RecoveryProceeds DEF Recovers
<1>6. CASE AdvanceStep \/ PrepareStep \/ HolderEndStep \/ TicketEndStep
  BY <1>1, <1>6, HolderSteps
<1>7. CASE QuietStep /\ workers' = workers
  <2>1. runs' = runs /\ ops' = ops /\ plans' = plans
    BY <1>7 DEF QuietStep
  <2>2. RunsProceed /\ OpsRemain
    BY <2>1 DEF RunsProceed, OpsRemain, Active
  <2>. QED
    BY <1>1, <1>7, <2>1, <2>2
<1>8. CASE \E w \in Worker : ReleaseWorker(w)
  BY <1>8, ReleaseTree
<1>9. workers' = workers \/ Inserts \/ Cancels \/ \E w \in Worker : ReleaseWorker(w)
  <2>1. [\/ Inserts \/ Cancels \/ \E w \in Worker : ReleaseWorker(w)]_workers
    BY Zenon DEF Next, vars, Inserts, Cancels, ClaimDue, Start, Heartbeat, RecordActivity,
                 BindResumeSession, PrepareCompletion, CommitCompletion, Settle,
                 SettleCancel, ConfirmControllerGone, CommitRecoveredCompletion,
                 ClaimRecoveryDue, Tick, StepBack, tables
  <2>. QED
    BY <2>1
<1>. QED
  BY <1>2, <1>3, <1>4, <1>5, <1>6, <1>7, <1>8, <1>9, ActionKinds

\* The topology stays a forest and the plans hold, in every reachable state.
THEOREM TreeInvariance == Spec => [](Inv /\ TreeInv)
<1>1. Init => Inv /\ TreeInv
  BY InitInv, InitTree
<1>2. Inv /\ TreeInv /\ [Next]_vars => Inv' /\ TreeInv'
  BY NextInv, NextTree
<1>. QED
  BY <1>1, <1>2, PTL DEF Spec

\* The restart audit of the topology and of frozen cancellations passes after
\* every sequence of legal calls: audit_topology and audit_cancel_tree_plans
\* never lock the store out.
THEOREM TreeAuditAlwaysPasses == Spec => []TreeAuditPasses
<1>1. TreeInv => TreeAuditPasses
  BY DEF TreeInv, TreeAuditPasses
<1>. QED
  BY <1>1, TreeInvariance, PTL

\* A request for a plan that is frozen finds nothing left to do.
LEMMA ReplayedCancelChangesNothing ==
    ASSUME Inv, TreeInv, NEW w \in Worker, NEW c \in CancelOp, plans[c] # NoPlan,
           NEW retry \in SUBSET CancelTickets(c), RequestCancelTree(w, c, retry)
    PROVE  UNCHANGED vars
<1>. USE DEF Inv, Typed
<1>. DEFINE T == Subtree(w)
            Q == CancelledRuns(w)
            S == TakenRuns(w, retry)
<1>1. /\ T \subseteq Worker
      /\ FreezeOrMatchPlan(w, c, retry)
      /\ \A r \in S : FreshOperation(r, c)
      /\ ops' = {Supersede(o, S) : o \in ops}
                  \cup {NewOperation(r, c, "cancel") : r \in S}
  BY CancelTreeParts
<1>2. /\ plans[c].root = w /\ plans[c].workers = T /\ plans' = plans
      /\ RunsIn(T, Active) \subseteq plans[c].controlled
      /\ \A x \in T : ~Open(x)
  BY <1>1 DEF FreezeOrMatchPlan
<1>3. PlanHolds(c)
  <2>1. w # None
    BY IdentityAssumption
  <2>. QED
    BY <1>2, <2>1, PlansHoldEach DEF TreeInv
<1>4. Q = {}
  BY <1>2 DEF CancelledRuns, RunsIn, TreeInv, DrainedWorkersIdle
<1>5. S = {}
  <2>1. ASSUME NEW r \in S
        PROVE  FALSE
    <3>1. r \in plans[c].controlled /\ FreshOperation(r, c)
      BY <1>1, <1>2 DEF TakenRuns
    <3>2. \E o \in ops : o.run = r /\ o.id = c
      BY <1>3, <3>1 DEF PlanHolds
    <3>. QED
      BY <3>1, <3>2 DEF FreshOperation
  <2>. QED
    BY <2>1
<1>6. /\ workers' = [x \in Worker |-> IF x \in {y \in T : Open(y)}
                                    THEN Enter(workers[x], "draining") ELSE workers[x]]
      /\ runs' = [r \in Run |->
            IF r \in Q THEN Finish(runs[r], "cancelled", "cancelled")
            ELSE IF r \in S THEN TakeControl(runs[r]) ELSE runs[r]]
      /\ completion' = completion
      /\ IF {y \in T : Open(y)} \cup Q \cup S = {}
           THEN UNCHANGED <<clock, latest>> ELSE Record
  BY DEF RequestCancelTree, CancelledRuns, TakenRuns
<1>7. {y \in T : Open(y)} = {}
  BY <1>2
<1>. HIDE DEF T, Q, S
<1>8. workers' = workers /\ runs' = runs /\ clock' = clock /\ latest' = latest
  BY <1>4, <1>5, <1>6, <1>7 DEF TypeOK
<1>9. ops' = ops
  <2>1. \A o \in ops : Supersede(o, S) = o
    BY <1>5 DEF Supersede
  <2>. QED
    BY <1>1, <1>5, <2>1
<1>. QED
  BY <1>2, <1>6, <1>8, <1>9 DEF vars

\* Repeating a cancellation, with or without its tickets, is inert however
\* much happened in between.
THEOREM ReplayedCancelsAreInert == Spec => ReplayedCancelIsInert
<1>1. ASSUME Inv /\ TreeInv /\ [Next]_vars
      PROVE  [\A c \in CancelOp, w \in Worker : plans[c] # NoPlan =>
                ~ \E retry \in SUBSET CancelTickets(c) :
                    RequestCancelTree(w, c, retry)]_vars
  BY <1>1, ReplayedCancelChangesNothing
<1>. QED
  BY <1>1, TreeInvariance, PTL DEF Spec, ReplayedCancelIsInert

-----------------------------------------------------------------------------
(* The history of a worker. *)

Known == {r \in Run : runs[r].state # "absent"}
ClaimedOf(w) == {r \in RunsOf(w) : runs[r].gen > 0}

\* A row that was not filled has no place in the queue, and a run that was
\* never claimed waits or was cancelled while it waited.
RowsPlaced ==
    \A r \in Run :
      /\ runs[r].state = "absent" => runs[r].queue = 0 /\ runs[r].resumeOf = None
      /\ runs[r].gen = 0 => runs[r].state \in {"absent", "queued", "cancelled"}

HistoryInv ==
    /\ QueueOrder /\ ResumeChain /\ SequencesComplete /\ RowsPlaced
    /\ IsFiniteSet(Known)

\* Rows move on without leaving their place in the history.
RowsContinue ==
    \A r \in Run :
      /\ runs'[r].worker = runs[r].worker /\ runs'[r].gen = runs[r].gen
      /\ runs'[r].queue = runs[r].queue /\ runs'[r].avail = runs[r].avail
      /\ runs'[r].resumeOf = runs[r].resumeOf /\ runs'[r].attempt = runs[r].attempt
      /\ runs[r].binding = "bound" => runs'[r].binding = "bound"
      /\ (runs'[r].state = "absent") <=> (runs[r].state = "absent")
      /\ runs[r].gen = 0 => runs'[r].state \in {runs[r].state, "cancelled"}
      /\ runs[r].state \in Terminal => runs'[r].state = runs[r].state

\* Such steps keep the history.
LEMMA HistoryContinues ==
    ASSUME TypeOK, HistoryInv, RowsContinue
    PROVE  HistoryInv'
<1>. USE DEF HistoryInv
<1>1. Known' = Known /\ \A w \in Worker : ClaimedOf(w)' = ClaimedOf(w)
  BY DEF Known, ClaimedOf, RunsOf, RowsContinue
<1>2. RowsPlaced'
  BY DEF RowsPlaced, RowsContinue
<1>3. QueueOrder'
  BY DEF QueueOrder, RowsContinue, Terminal
<1>4. ResumeChain'
  <2>1. \A r \in Run : runs[r].resumeOf # None => runs[r].resumeOf \in Run
    BY DEF TypeOK, RunRecord
  <2>. QED
    BY <2>1 DEF ResumeChain, RowsContinue, Terminal
<1>5. SequencesComplete'
  <2>1. /\ {runs'[r].queue : r \in Known} = {runs[r].queue : r \in Known}
        /\ \A w \in Worker :
             {runs'[r].gen : r \in ClaimedOf(w)} = {runs[r].gen : r \in ClaimedOf(w)}
    BY DEF Known, ClaimedOf, RunsOf, RowsContinue
  <2>. QED
    BY <1>1, <2>1 DEF SequencesComplete, Known, ClaimedOf
<1>. QED
  BY <1>1, <1>2, <1>3, <1>4, <1>5

\* Everything but an insertion and a claim moves rows so.
LEMMA StepsContinue ==
    ASSUME Inv, HistoryInv,
           \/ AdvanceStep \/ PrepareStep \/ HolderEndStep \/ TicketEndStep
           \/ ControlStep \/ QuietStep
    PROVE  RowsContinue
<1>. USE DEF Inv, Typed
<1>1. \A r \in Run : runs[r].state \in Active => runs[r].gen > 0 /\ runs[r].gen # 0
  BY DEF RunsWellFormed, TypeOK, RunRecord
<1>2. CASE AdvanceStep
  <2>1. PICK r \in Run, rec \in RunRecord : Advanced(r, rec)
    BY <1>2 DEF AdvanceStep
  <2>2. runs'[r] = rec /\ \A x \in Run : x # r => runs'[x] = runs[x]
    BY <2>1 DEF Advanced, TypeOK
  <2>. QED
    BY <1>1, <2>1, <2>2 DEF Advanced, SameOrigin, RowsContinue, Active, Leased, Terminal
<1>3. CASE PrepareStep \/ QuietStep
  BY <1>3 DEF PrepareStep, QuietStep, RowsContinue
<1>4. ASSUME NEW r \in Run, NEW s \in Terminal, NEW f \in Failure, Ended(r, s, f)
      PROVE  RowsContinue
  <2>1. /\ runs[r] \in RunRecord /\ runs'[r] = Finish(runs[r], s, f)
        /\ \A x \in Run : x # r => runs'[x] = runs[x]
    BY <1>4 DEF Ended, TypeOK
  <2>2. /\ runs'[r].state = s /\ runs'[r].worker = runs[r].worker
        /\ runs'[r].gen = runs[r].gen /\ runs'[r].queue = runs[r].queue
        /\ runs'[r].avail = runs[r].avail /\ runs'[r].binding = runs[r].binding
        /\ runs'[r].resumeOf = runs[r].resumeOf /\ runs'[r].attempt = runs[r].attempt
    BY <2>1, FinishFields
  <2>3. runs[r].state \in Active
    BY <1>4 DEF Ended
  <2>. QED
    BY <1>1, <2>1, <2>2, <2>3 DEF RowsContinue, Active, Leased, Terminal
<1>5. CASE HolderEndStep
  BY <1>4, <1>5 DEF HolderEndStep
<1>6. CASE TicketEndStep
  <2>1. PICK o \in ops, s \in Terminal, f \in Failure : Ended(o.run, s, f)
    BY <1>6 DEF TicketEndStep
  <2>2. o.run \in Run
    BY DEF TypeOK, OpRecord
  <2>. QED
    BY <1>4, <2>1, <2>2
<1>7. CASE ControlStep
  <2>1. PICK S \in SUBSET Run, Q \in SUBSET Run : ControlRows(S, Q)
    BY <1>7, TakenOverRows DEF ControlStep
  <2>. QED
    BY <1>1, <2>1 DEF ControlRows, SameOrigin, RowsContinue, Active, Leased, Terminal
<1>. QED
  BY <1>2, <1>3, <1>5, <1>6, <1>7

\* How the new row of an insertion joins the chain of resumptions.
Resumed(r) ==
    LET src == runs'[r].resumeOf IN
    \/ src = None
    \/ /\ src \in Run /\ runs[src].state = "interrupted"
       /\ runs[src].binding = "bound" /\ runs'[r].binding = "bound"
       /\ runs[src].worker = runs'[r].worker
       /\ runs'[r].attempt = runs[src].attempt + 1
       /\ \A x \in Run : runs[x].resumeOf # src

\* An insertion adds the next queue number, behind every other run.
LEMMA InsertionHistory ==
    ASSUME Inv, HistoryInv, NEW r \in Run, NEW rec \in RunRecord, Inserted(r, rec),
           Resumed(r)
    PROVE  HistoryInv'
<1>. USE DEF HistoryInv, Inv, Typed
<1>. DEFINE n == Cardinality(Known)
            q == NextQueueSequence
<1>1. /\ runs'[r] = rec /\ \A x \in Run : x # r => runs'[x] = runs[x]
      /\ runs[r].state = "absent" /\ rec.state = "queued" /\ rec.gen = 0 /\ rec.queue = q
      /\ rec.worker \in Worker
  BY DEF Inserted, TypeOK
<1>2. q \in Nat /\ \A x \in Run : runs[x].queue < q /\ runs[x].queue \in Nat
  BY QueueNumberFresh DEF TypeOK, RunRecord
<1>3. RowsPlaced'
  BY <1>1 DEF RowsPlaced
<1>4. QueueOrder'
  <2>. SUFFICES ASSUME NEW y \in Run, NEW x \in Run,
                       runs'[y].state # "absent", runs'[x].gen > 0,
                       runs'[y].worker = runs'[x].worker,
                       runs'[y].queue < runs'[x].queue, runs'[y].avail <= runs'[x].avail
                PROVE  \/ runs'[y].gen > 0 /\ runs'[y].gen < runs'[x].gen
                       \/ runs'[y].gen = 0 /\ runs'[y].state = "cancelled"
    BY DEF QueueOrder
  <2>1. x # r /\ runs'[x] = runs[x]
    BY <1>1
  <2>2. y # r
    <3>1. runs[x].queue < q /\ runs[x].queue \in Nat /\ q \in Nat
      BY <1>2
    <3>2. ~(q < runs[x].queue)
      BY <3>1
    <3>. QED
      BY <1>1, <2>1, <3>2
  <2>. QED
    BY <1>1, <2>1, <2>2 DEF QueueOrder
<1>5. ResumeChain'
  <2>1. \A x \in Run : runs[x].resumeOf # None =>
          runs[x].resumeOf \in Run /\ runs[x].resumeOf # r /\ x # r
    BY <1>1 DEF TypeOK, RunRecord, ResumeChain, RowsPlaced
  <2>2. ASSUME NEW x \in Run, x # r, runs[x].resumeOf # None
        PROVE  LET src == runs[x].resumeOf IN
               /\ runs'[x] = runs[x] /\ runs'[src] = runs[src]
               /\ runs'[r].resumeOf # src
    BY <1>1, <2>1, <2>2 DEF Resumed
  <2>3. ASSUME NEW src \in Run, runs'[r].resumeOf = src
        PROVE  /\ runs'[src] = runs[src] /\ runs[src].state = "interrupted"
               /\ runs[src].binding = "bound" /\ runs'[r].binding = "bound"
               /\ runs[src].worker = runs'[r].worker
               /\ runs'[r].attempt = runs[src].attempt + 1
               /\ \A x \in Run : runs'[x].resumeOf = src => x = r
    <3>1. src # None
      BY IdentityAssumption
    <3>. QED
      BY <1>1, <2>3, <3>1 DEF Resumed
  <2>4. runs'[r].resumeOf # None => runs'[r].resumeOf \in Run
    BY DEF Resumed
  <2>. QED
    BY <1>1, <2>1, <2>2, <2>3, <2>4 DEF ResumeChain
<1>6. Known' = Known \cup {r} /\ r \notin Known
  BY <1>1 DEF Known
<1>7. IsFiniteSet(Known') /\ Cardinality(Known') = n + 1 /\ n \in Nat
  <2>1. PICK K : K = Known
    OBVIOUS
  <2>2. IsFiniteSet(K) /\ r \notin K
    BY <1>6, <2>1
  <2>3. IsFiniteSet(K \cup {r}) /\ Cardinality(K \cup {r}) = Cardinality(K) + 1
    BY <2>2, FS_AddElement
  <2>4. Cardinality(K) \in Nat
    BY <2>2, FS_CardinalityType
  <2>. QED
    BY <1>6, <2>1, <2>3, <2>4
<1>8. {runs[x].queue : x \in Known} = 1 .. n
  BY DEF SequencesComplete, Known
<1>9. q = n + 1
  <2>1. Places = 0 .. n
    <3>1. \A x \in Run : x \notin Known => runs[x].queue = 0
      BY DEF RowsPlaced, Known
    <3>2. Places = {0} \cup {runs[x].queue : x \in Known}
      BY <3>1 DEF Places, Known
    <3>. QED
      BY <1>7, <1>8, <3>2
  <2>2. Max(Places) \in Places /\ \A y \in Places : Max(Places) >= y
    BY MaxIsMember DEF CountersBounded
  <2>3. q = Max(Places) + 1
    BY DEF NextQueueSequence, Places
  <2>. HIDE DEF q, n
  <2>. QED
    BY <1>7, <2>1, <2>2, <2>3
<1>10. {runs'[x].queue : x \in Known'} = 1 .. n + 1
  <2>1. \A x \in Known : runs'[x].queue = runs[x].queue
    BY <1>1, <1>6 DEF Known
  <2>2. {runs'[x].queue : x \in Known'} = {runs[x].queue : x \in Known} \cup {q}
    BY <1>1, <1>6, <2>1
  <2>. HIDE DEF q, n
  <2>. QED
    BY <1>7, <1>8, <1>9, <2>2
<1>11. \A w \in Worker : /\ ClaimedOf(w)' = ClaimedOf(w)
                         /\ {runs'[x].gen : x \in ClaimedOf(w)} =
                              {runs[x].gen : x \in ClaimedOf(w)}
  <2>1. ~(runs'[r].gen > 0) /\ ~(runs[r].gen > 0)
    BY <1>1 DEF RunsWellFormed
  <2>. QED
    BY <1>1, <2>1 DEF ClaimedOf, RunsOf
<1>12. SequencesComplete'
  <2>. HIDE DEF n
  <2>1. {runs'[x].queue : x \in Known'} = 1 .. Cardinality(Known')
    BY <1>7, <1>10
  <2>2. \A w \in Worker : {runs'[x].gen : x \in ClaimedOf(w)'} = 1 .. Cardinality(ClaimedOf(w)')
    BY <1>11 DEF SequencesComplete, ClaimedOf
  <2>. QED
    BY <2>1, <2>2 DEF SequencesComplete, Known, ClaimedOf
<1>. QED
  BY <1>3, <1>4, <1>5, <1>7, <1>12

\* claim_due takes the head of each queue and gives it the next generation.
LEMMA ClaimHistory ==
    ASSUME Inv, HistoryInv, NEW b \in Backend, NEW S \in SUBSET Run, ClaimDue(b, S)
    PROVE  HistoryInv'
<1>. USE DEF HistoryInv, Inv, Typed
<1>1. \A r \in S : r \in ClaimableRuns(b) /\ runs[r].state = "queued"
  BY DEF ClaimDue, ClaimableRuns
<1>2. ClaimRows(S)
  BY <1>1, ClaimedRows DEF ClaimDue
<1>3. /\ \A r \in Run : r \notin S => runs'[r] = runs[r]
      /\ \A r \in S : /\ runs[r].worker \in Worker /\ runs'[r].state = "starting"
                      /\ runs'[r].gen = NextWorkerGeneration(runs[r].worker)
      /\ \A r \in Run : /\ runs'[r].worker = runs[r].worker
                        /\ runs'[r].queue = runs[r].queue
                        /\ runs'[r].avail = runs[r].avail
                        /\ runs'[r].binding = runs[r].binding
                        /\ runs'[r].resumeOf = runs[r].resumeOf
                        /\ runs'[r].attempt = runs[r].attempt
  BY <1>2 DEF ClaimRows
<1>4. \A r \in S : /\ NextWorkerGeneration(runs[r].worker) \in Nat \ {0}
                   /\ \A x \in Run : runs[x].worker = runs[r].worker =>
                        runs[x].gen < NextWorkerGeneration(runs[r].worker)
  BY <1>3, GenerationFresh DEF RunsOf
<1>5. \A r \in S : runs[r].gen = 0 /\ runs'[r].gen > 0 /\ runs'[r].gen # 0
  BY <1>1, <1>3, <1>4 DEF RunsWellFormed
<1>6. RowsPlaced'
  BY <1>1, <1>3, <1>5 DEF RowsPlaced
<1>7. Known' = Known
  BY <1>1, <1>3 DEF Known
<1>8. ResumeChain'
  <2>1. \A r \in Run : runs[r].resumeOf # None =>
          runs[r].resumeOf \in Run /\ runs[r].resumeOf \notin S
    BY <1>1 DEF TypeOK, RunRecord, ResumeChain
  <2>. QED
    BY <1>3, <2>1 DEF ResumeChain
<1>9. QueueOrder'
  <2>. SUFFICES ASSUME NEW y \in Run, NEW x \in Run,
                       runs[y].state # "absent", runs'[x].gen > 0,
                       runs[y].worker = runs[x].worker,
                       runs[y].queue < runs[x].queue, runs[y].avail <= runs[x].avail
                PROVE  \/ runs'[y].gen > 0 /\ runs'[y].gen < runs'[x].gen
                       \/ runs'[y].gen = 0 /\ runs'[y].state = "cancelled"
    BY <1>1, <1>3 DEF QueueOrder
  <2>1. CASE x \in S
    <3>1. /\ runs[x].avail <= OperationNow
          /\ \A z \in RunsOf(runs[x].worker) : runs[z].state \notin Active
          /\ \A z \in DueQueued(runs[x].worker) :
               /\ runs[z].avail >= runs[x].avail
               /\ runs[z].avail = runs[x].avail => runs[z].queue >= runs[x].queue
      BY <1>1, <2>1 DEF ClaimableRuns
    <3>2. /\ runs[y].avail \in Nat /\ runs[x].avail \in Nat /\ OperationNow \in Nat
          /\ runs[y].queue \in Nat /\ runs[x].queue \in Nat /\ runs[y].gen \in Nat
      BY OperationNowType DEF TypeOK, RunRecord
    <3>3. runs[y].state # "queued"
      <4>1. ASSUME runs[y].state = "queued"
            PROVE  FALSE
        <5>1. runs[y].avail <= OperationNow
          BY <3>1, <3>2
        <5>2. y \in DueQueued(runs[x].worker)
          BY <4>1, <5>1 DEF DueQueued, RunsOf
        <5>3. /\ runs[y].avail >= runs[x].avail
              /\ runs[y].avail = runs[x].avail => runs[y].queue >= runs[x].queue
          BY <3>1, <5>2
        <5>. QED
          BY <3>2, <5>3
      <4>. QED
        BY <4>1
    <3>4. runs'[y] = runs[y]
      BY <1>1, <1>3, <3>3
    <3>5. runs[y].gen < runs'[x].gen
      BY <1>3, <1>4, <2>1
    <3>6. runs[y].gen = 0 => runs[y].state = "cancelled"
      BY <3>3 DEF RowsPlaced
    <3>. QED
      BY <3>2, <3>4, <3>5, <3>6
  <2>2. CASE x \notin S
    <3>1. /\ runs'[x] = runs[x]
          /\ \/ runs[y].gen > 0 /\ runs[y].gen < runs[x].gen
             \/ runs[y].gen = 0 /\ runs[y].state = "cancelled"
      BY <1>3, <2>2 DEF QueueOrder
    <3>2. y \notin S
      BY <1>1, <1>5, <3>1
    <3>. QED
      BY <1>3, <3>1, <3>2
  <2>. QED
    BY <2>1, <2>2
<1>10. ASSUME NEW w \in Worker
       PROVE  {runs'[x].gen : x \in ClaimedOf(w)'} = 1 .. Cardinality(ClaimedOf(w)')
  <2>. DEFINE n == Cardinality(ClaimedOf(w))
  <2>1. {runs[x].gen : x \in ClaimedOf(w)} = 1 .. n
    BY DEF SequencesComplete, ClaimedOf
  <2>2. IsFiniteSet(ClaimedOf(w)) /\ n \in Nat
    <3>1. ClaimedOf(w) \subseteq Known
      BY DEF ClaimedOf, RunsOf, Known, RunsWellFormed
    <3>2. PICK C : C = ClaimedOf(w)
      OBVIOUS
    <3>3. PICK K : K = Known
      OBVIOUS
    <3>4. IsFiniteSet(K) /\ C \in SUBSET K
      BY <3>1, <3>2, <3>3
    <3>5. IsFiniteSet(C)
      BY <3>4, FS_Subset
    <3>6. Cardinality(C) \in Nat
      BY <3>5, FS_CardinalityType
    <3>. QED
      BY <3>2, <3>5, <3>6
  <2>3. CASE \A r \in S : runs[r].worker # w
    <3>1. ClaimedOf(w)' = ClaimedOf(w)
      BY <1>3, <2>3 DEF ClaimedOf, RunsOf
    <3>2. \A x \in ClaimedOf(w) : runs'[x].gen = runs[x].gen
      BY <1>3, <2>3 DEF ClaimedOf, RunsOf
    <3>. QED
      BY <2>1, <3>1, <3>2
  <2>4. ASSUME NEW r \in S, runs[r].worker = w
        PROVE  {runs'[x].gen : x \in ClaimedOf(w)'} = 1 .. Cardinality(ClaimedOf(w)')
    <3>1. \A x \in S : runs[x].worker = w => x = r
      <4>1. PICK P \in SUBSET Run :
              /\ \A y \in P : \A x \in Run : runs[x].worker = runs[y].worker =>
                   (x \in P => x = y)
              /\ \A y \in P : runs[y].state = "queued"
              /\ runs' = [y \in Run |->
                    IF y \notin P THEN runs[y]
                    ELSE Claim(runs[y], NextWorkerGeneration(runs[y].worker))]
        BY ClaimEffect DEF ClaimStep
      <4>2. \A y \in Run : y \notin P => runs'[y] = runs[y]
        BY <4>1
      <4>3. S \subseteq P
        BY <1>1, <1>3, <4>2
      <4>. QED
        BY <2>4, <4>1, <4>3
    <3>2. ClaimedOf(w)' = ClaimedOf(w) \cup {r} /\ r \notin ClaimedOf(w)
      BY <1>3, <1>5, <2>4, <3>1 DEF ClaimedOf, RunsOf
    <3>3. Cardinality(ClaimedOf(w)') = n + 1
      <4>1. PICK C : C = ClaimedOf(w)
        OBVIOUS
      <4>2. Cardinality(C \cup {r}) = Cardinality(C) + 1
        BY <2>2, <3>2, <4>1, FS_AddElement
      <4>. QED
        BY <3>2, <4>1, <4>2
    <3>4. runs'[r].gen = n + 1
      <4>1. Generations(w) = 0 .. n
        <5>1. Generations(w) = {0} \cup {runs[x].gen : x \in ClaimedOf(w)}
          BY DEF Generations, ClaimedOf, RunsOf, TypeOK, RunRecord
        <5>. QED
          BY <2>1, <2>2, <5>1
      <4>2. /\ Max(Generations(w)) \in Generations(w)
            /\ \A y \in Generations(w) : Max(Generations(w)) >= y
        BY MaxIsMember DEF CountersBounded
      <4>3. runs'[r].gen = Max(Generations(w)) + 1
        BY <1>3, <2>4 DEF NextWorkerGeneration, Generations
      <4>4. PICK m : m = Max(Generations(w))
        OBVIOUS
      <4>5. m \in 0 .. n /\ \A y \in 0 .. n : m >= y
        BY <4>1, <4>2, <4>4
      <4>. HIDE DEF n
      <4>6. m = n
        BY <2>2, <4>5
      <4>. QED
        BY <4>3, <4>4, <4>6
    <3>5. \A x \in ClaimedOf(w) : runs'[x].gen = runs[x].gen
      BY <1>3, <1>5, <2>4, <3>1, <3>2 DEF ClaimedOf, RunsOf
    <3>6. {runs'[x].gen : x \in ClaimedOf(w)'} = {runs[x].gen : x \in ClaimedOf(w)} \cup {n + 1}
      BY <3>2, <3>4, <3>5
    <3>. HIDE DEF n
    <3>. QED
      BY <2>1, <2>2, <3>3, <3>6
  <2>. QED
    BY <2>3, <2>4
<1>11. SequencesComplete'
  <2>1. {runs'[x].queue : x \in Known} = {runs[x].queue : x \in Known}
    BY <1>3 DEF Known
  <2>. QED
    BY <1>7, <1>10, <2>1 DEF SequencesComplete, Known, ClaimedOf
<1>. QED
  BY <1>6, <1>7, <1>8, <1>9, <1>11

\* create_root, enqueue, spawn_child and enqueue_resume.
LEMMA InsertionsHistory ==
    ASSUME Inv, HistoryInv, NEW r \in Run, NEW a \in AvailableAt,
           \/ \E w \in Worker, b \in Backend :
                \/ CreateRoot(w, r, b, a) \/ EnqueueRun(w, r, b, a)
                \/ \E p \in Worker : SpawnChild(p, w, r, b, a)
           \/ \E src \in Run : EnqueueResume(src, r, a)
    PROVE  HistoryInv'
<1>. USE DEF Inv, Typed
<1>1. InsertionStep
  BY CreateRootEffect, EnqueueRunEffect, SpawnChildEffect, EnqueueResumeEffect
<1>2. PICK x \in Run, rec \in RunRecord : Inserted(x, rec)
  BY <1>1 DEF InsertionStep
<1>3. runs[r].state = "absent" /\ a \in Nat
  BY TimingAssumption DEF CreateRoot, EnqueueRun, SpawnChild, EnqueueResume
<1>4. ASSUME NEW new, runs' = [runs EXCEPT ![r] = new], new.state = "queued"
      PROVE  x = r /\ runs'[r] = new
  <2>1. runs'[r] = new /\ runs'[r].state # runs[r].state
    BY <1>3, <1>4 DEF TypeOK
  <2>2. \A y \in Run : y # x => runs'[y] = runs[y]
    BY <1>2 DEF Inserted
  <2>. QED
    BY <2>1, <2>2
<1>5. ASSUME NEW w \in Worker, NEW b \in Backend,
             runs' = [runs EXCEPT ![r] = NewRunRecord(w, b, a)]
      PROVE  x = r /\ Resumed(r)
  <2>1. NewRunRecord(w, b, a).state = "queued" /\ NewRunRecord(w, b, a).resumeOf = None
    BY <1>3, NewRunFields
  <2>. QED
    BY <1>4, <1>5, <2>1 DEF Resumed
<1>6. ASSUME NEW src \in Run, EnqueueResume(src, r, a)
      PROVE  x = r /\ Resumed(r)
  <2>. DEFINE base == NewRunRecord(runs[src].worker, runs[src].backend, a)
              new == [base EXCEPT !.binding = "bound", !.resumeOf = src,
                                  !.attempt = runs[src].attempt + 1]
  <2>1. /\ runs[src].state = "interrupted" /\ runs[src].binding = "bound"
        /\ \A y \in Run : runs[y].resumeOf # src
        /\ runs' = [runs EXCEPT ![r] = new]
    BY <1>6 DEF EnqueueResume
  <2>2. runs[src].worker \in Worker /\ runs[src].backend \in Backend \cup {None}
    BY <2>1 DEF RunsWellFormed, TypeOK, RunRecord
  <2>3. base \in RunRecord /\ base.state = "queued" /\ base.worker = runs[src].worker
    BY <1>3, <2>2, NewRunFields
  <2>. HIDE DEF base
  <2>4. /\ new.state = "queued" /\ new.worker = runs[src].worker
        /\ new.binding = "bound" /\ new.resumeOf = src
        /\ new.attempt = runs[src].attempt + 1
    BY <2>3 DEF RunRecord
  <2>. HIDE DEF new
  <2>. QED
    BY <1>4, <2>1, <2>4 DEF Resumed
<1>7. x = r /\ Resumed(r)
  BY <1>5, <1>6 DEF CreateRoot, EnqueueRun, SpawnChild
<1>. QED
  BY <1>2, <1>7, InsertionHistory

\* The empty store has an empty history.
LEMMA InitHistory ==
    ASSUME Init
    PROVE  HistoryInv
<1>1. \A r \in Run : /\ runs[r].state = "absent" /\ runs[r].gen = 0
                     /\ runs[r].queue = 0 /\ runs[r].resumeOf = None
  BY DEF Init, NoRunRecord
<1>2. Known = {} /\ \A w \in Worker : ClaimedOf(w) = {}
  BY <1>1 DEF Known, ClaimedOf, RunsOf
<1>3. IsFiniteSet({}) /\ Cardinality({}) = 0
  BY FS_EmptySet
<1>4. SequencesComplete
  <2>1. 1 .. 0 = {}
    OBVIOUS
  <2>. QED
    BY <1>2, <1>3, <2>1 DEF SequencesComplete, Known, ClaimedOf
<1>. QED
  BY <1>1, <1>2, <1>3, <1>4 DEF HistoryInv, QueueOrder, ResumeChain, RowsPlaced

\* Every step keeps the history of every worker.
LEMMA NextHistory ==
    ASSUME Inv, HistoryInv, [Next]_vars
    PROVE  HistoryInv'
<1>1. CASE Inserts
  BY <1>1, InsertionsHistory DEF Inserts
<1>2. CASE Claims
  BY <1>2, ClaimHistory DEF Claims
<1>3. CASE \/ AdvanceStep \/ PrepareStep \/ HolderEndStep \/ TicketEndStep
           \/ Cancels \/ Recovers \/ QuietStep
  <2>1. RowsContinue
    BY <1>3, StepsContinue, ControlsEffect
  <2>. QED
    BY <2>1, HistoryContinues DEF Inv, Typed
<1>. QED
  BY <1>1, <1>2, <1>3, ActionKinds

\* The history of a worker is kept by claims, resumptions, cancellations and
\* recoveries in any order: one run at a time, numbered without a gap, in the
\* order of its queue, each interrupted run resumed at most once.
THEOREM HistoriesAreKept == Spec => []WorkerHistory
<1>1. Init => HistoryInv
  BY InitHistory
<1>2. Inv /\ HistoryInv /\ [Next]_vars => HistoryInv'
  BY NextHistory
<1>3. Inv /\ HistoryInv => WorkerHistory
  BY DEF Inv, HistoryInv, WorkerHistory
<1>. QED
  BY <1>1, <1>2, <1>3, Invariance, PTL DEF Spec

-----------------------------------------------------------------------------
(* The contract. *)

\* Where a run in each state is, for the contract.
PlaceIn(state) ==
    IF state = "absent" THEN "unborn"
    ELSE IF state = "queued" THEN "waiting"
    ELSE IF state \in Active THEN "seated"
    ELSE IF state = "succeeded" THEN "won" ELSE "lost"

\* The refinement mapping sees only the state of a run.
LEMMA PlaceByState ==
    Place = [r \in Run |-> PlaceIn(runs[r].state)]
<1>1. \A r \in Run :
        (CASE runs[r].state = "absent"    -> "unborn"
           [] runs[r].state = "queued"    -> "waiting"
           [] runs[r].state \in Active    -> "seated"
           [] runs[r].state = "succeeded" -> "won"
           [] OTHER                       -> "lost") = PlaceIn(runs[r].state)
  BY DEF PlaceIn, Active, Leased
<1>. QED
  BY <1>1 DEF Place

\* Two states with the same places, homes and dooms are one to the contract.
SameToContract == Place' = Place /\ Home' = Home /\ Doomed' = Doomed

\* Places and homes follow the rows.
LEMMA PlacesFollow ==
    /\ Place \in [Run -> {"unborn", "waiting", "seated", "won", "lost"}]
    /\ \A r \in Run : Place[r] = PlaceIn(runs[r].state) /\ Home[r] = runs[r].worker
    /\ Home = [r \in Run |-> runs[r].worker]
BY PlaceByState DEF PlaceIn, Home

\* The same, after the step.
LEMMA PlacesFollowNext ==
    /\ Place' = [r \in Run |-> PlaceIn(runs'[r].state)]
    /\ Home' = [r \in Run |-> runs'[r].worker]
<1>1. \A r \in Run :
        (CASE runs'[r].state = "absent"    -> "unborn"
           [] runs'[r].state = "queued"    -> "waiting"
           [] runs'[r].state \in Active    -> "seated"
           [] runs'[r].state = "succeeded" -> "won"
           [] OTHER                       -> "lost") = PlaceIn(runs'[r].state)
  BY DEF PlaceIn, Active, Leased
<1>. QED
  BY <1>1 DEF Place, Home

\* An insertion submits a run.
LEMMA InsertionSubmits ==
    ASSUME Inv, InsertionStep
    PROVE  Contract!CNext
<1>. USE DEF Inv, Typed
<1>1. PICK r \in Run, rec \in RunRecord : Inserted(r, rec)
  BY DEF InsertionStep
<1>2. /\ runs'[r] = rec /\ \A x \in Run : x # r => runs'[x] = runs[x]
      /\ runs[r].state = "absent" /\ rec.state = "queued" /\ rec.worker \in Worker
  BY <1>1 DEF Inserted, TypeOK
<1>3. Place[r] = "unborn" /\ Place' = [Place EXCEPT ![r] = "waiting"]
  BY <1>2, PlacesFollow, PlacesFollowNext, PlaceByState DEF PlaceIn
<1>4. Home' = [Home EXCEPT ![r] = rec.worker]
  BY <1>2, PlacesFollow, PlacesFollowNext
<1>5. Doomed' = Doomed
  BY DEF InsertionStep, InsertionFrame, Doomed
<1>6. Contract!Submit(r, rec.worker)
  BY <1>3, <1>4, <1>5 DEF Contract!Submit
<1>. QED
  BY <1>2, <1>6 DEF Contract!CNext

\* A claim seats its runs.
LEMMA ClaimSeats ==
    ASSUME Inv, ClaimStep
    PROVE  Contract!CNext
<1>. USE DEF Inv, Typed
<1>1. PICK S \in SUBSET Run :
        /\ \A r \in S : /\ runs[r].state = "queued"
                        /\ \A x \in Run : runs[x].worker = runs[r].worker =>
                             /\ runs[x].state \notin Active
                             /\ x \in S => x = r
        /\ ClaimRows(S)
  BY ClaimedRows DEF ClaimStep
<1>2. /\ \A r \in Run : r \notin S => runs'[r] = runs[r]
      /\ \A r \in S : runs'[r].state = "starting"
      /\ \A r \in Run : runs'[r].worker = runs[r].worker
  BY <1>1 DEF ClaimRows
<1>3. Place' = [r \in Run |-> IF r \in S THEN "seated" ELSE Place[r]]
  BY <1>2, PlacesFollow, PlacesFollowNext DEF PlaceIn, Active, Leased
<1>4. Home' = Home /\ Doomed' = Doomed
  BY <1>2, PlacesFollow, PlacesFollowNext DEF ClaimStep, Doomed
<1>5. \A r \in S : Place[r] = "waiting"
  BY <1>1, PlacesFollow DEF PlaceIn
<1>6. \A r \in S, x \in Run :
        x # r /\ Home[x] = Home[r] => x \notin S /\ Place[x] # "seated"
  BY <1>1, PlacesFollow DEF PlaceIn
<1>7. Contract!Seat(S)
  BY <1>3, <1>4, <1>5, <1>6 DEF Contract!Seat
<1>. QED
  BY <1>7 DEF Contract!CNext

\* A run that ends is won or lost, and won only if nothing dooms it.
LEMMA EndEnds ==
    ASSUME Inv, NEW r \in Run, NEW s \in Terminal, NEW f \in Failure, Ended(r, s, f),
           s = "succeeded" => r \notin Doomed, Doomed' = Doomed
    PROVE  Contract!CNext
<1>. USE DEF Inv, Typed
<1>1. /\ runs[r] \in RunRecord /\ runs'[r] = Finish(runs[r], s, f)
      /\ \A x \in Run : x # r => runs'[x] = runs[x]
      /\ runs[r].state \in Active
  BY DEF Ended, TypeOK
<1>2. runs'[r].state = s /\ runs'[r].worker = runs[r].worker
  BY <1>1, FinishFields
<1>. DEFINE how == IF s = "succeeded" THEN "won" ELSE "lost"
<1>3. Place[r] = "seated" /\ Place' = [Place EXCEPT ![r] = how]
  <2>1. Place[r] = "seated"
    BY <1>1, PlacesFollow DEF PlaceIn, Active, Leased
  <2>2. PlaceIn(s) = how
    BY DEF PlaceIn, Active, Leased, Terminal
  <2>. HIDE DEF how
  <2>3. \A x \in Run : PlaceIn(runs'[x].state) = IF x = r THEN how ELSE Place[x]
    BY <1>1, <1>2, <2>2, PlacesFollow
  <2>. QED
    BY <2>1, <2>3, PlacesFollow, PlacesFollowNext
<1>4. Home' = Home
  BY <1>1, <1>2, PlacesFollow, PlacesFollowNext
<1>5. how \in {"won", "lost"} /\ (how = "won" => r \notin Doomed)
  OBVIOUS
<1>6. Contract!End(r, how)
  BY <1>3, <1>4, <1>5 DEF Contract!End
<1>. QED
  BY <1>5, <1>6 DEF Contract!CNext

\* Settling a run, by its holder or by a ticket, ends it.
LEMMA SettlementsEnd ==
    ASSUME Inv, HolderEndStep \/ TicketEndStep
    PROVE  Contract!CNext
<1>. USE DEF Inv, Typed
<1>1. CASE HolderEndStep
  <2>1. PICK r \in Run, s \in Terminal, f \in Failure :
          Ended(r, s, f) /\ runs[r].state \in Leased
    BY <1>1 DEF HolderEndStep
  <2>2. r \notin Doomed
    BY <2>1 DEF Doomed, OnlyControlledHaveOps, Leased, Terminal
  <2>3. Doomed' = Doomed
    BY <1>1 DEF HolderEndStep, Doomed
  <2>. QED
    BY <2>1, <2>2, <2>3, EndEnds
<1>2. CASE TicketEndStep
  <2>1. PICK o \in ops, s \in Terminal, f \in Failure :
          /\ Ended(o.run, s, f) /\ o.status = "active"
          /\ s = "succeeded" => o.kind = "lease_expired"
          /\ FinishControlOperation(o, "settled")
    BY <1>2 DEF TicketEndStep
  <2>2. o \in OpRecord /\ o.run \in Run
    BY DEF TypeOK, OpRecord
  <2>3. s = "succeeded" => o.run \notin Doomed
    BY <2>1 DEF Doomed, CancelledNeverSucceeds, ActiveOps
  <2>4. Doomed' = Doomed
    <3>. DEFINE q == [o EXCEPT !.status = "settled"]
    <3>1. q.run = o.run /\ q.kind = o.kind /\ ops' = (ops \ {o}) \cup {q}
      BY <2>1, <2>2 DEF FinishControlOperation, OpRecord
    <3>. HIDE DEF q
    <3>. QED
      BY <3>1 DEF Doomed
  <2>. QED
    BY <2>1, <2>2, <2>3, <2>4, EndEnds
<1>. QED
  BY <1>1, <1>2

\* request_cancel_tree drops what waits and dooms what is seated.
LEMMA CancelCancels ==
    ASSUME Inv, TreeInv, NEW w \in Worker, NEW c \in CancelOp,
           NEW retry \in SUBSET CancelTickets(c), RequestCancelTree(w, c, retry)
    PROVE  Contract!CNext
<1>. USE DEF Inv, Typed
<1>. DEFINE Q == CancelledRuns(w)
            S == TakenRuns(w, retry)
<1>1. /\ ControlRows(S, Q)
      /\ ops' = {Supersede(o, S) : o \in ops}
                  \cup {NewOperation(r, c, "cancel") : r \in S}
      /\ S \subseteq Run /\ Q \subseteq Run
  <2>1. S \subseteq Run /\ Q \subseteq Run
    BY DEF TakenRuns, CancelledRuns, RunsIn
  <2>. QED
    BY <2>1, CancelTreeParts
<1>. HIDE DEF Q, S
<1>2. /\ \A r \in Run : runs'[r].worker = runs[r].worker
      /\ \A r \in Run : r \notin S /\ r \notin Q => runs'[r] = runs[r]
      /\ \A r \in Q : runs[r].state = "queued" /\ runs'[r].state = "cancelled"
      /\ \A r \in S : runs[r].state \in Active /\ runs'[r].state = "cancelling"
  BY <1>1 DEF ControlRows, SameOrigin
<1>3. /\ \A r \in S : Place[r] = "seated"
      /\ \A r \in Q : Place[r] = "waiting"
  BY <1>1, <1>2, PlacesFollow DEF PlaceIn, Active, Leased
<1>4. Place' = [r \in Run |->
         IF r \in S \cup Q /\ Place[r] = "waiting" THEN "lost" ELSE Place[r]]
  <2>1. \A r \in Run : PlaceIn(runs'[r].state) =
          IF r \in S \cup Q /\ Place[r] = "waiting" THEN "lost" ELSE Place[r]
    BY <1>2, <1>3, PlacesFollow DEF PlaceIn, Active, Leased
  <2>. QED
    BY <2>1, PlacesFollowNext
<1>5. Home' = Home
  BY <1>2, PlacesFollow, PlacesFollowNext
<1>6. Doomed' = Doomed \cup {r \in S \cup Q : Place[r] = "seated"}
  <2>1. \A o \in ops : /\ Supersede(o, S).run = o.run
                       /\ Supersede(o, S).kind = o.kind
    BY SupersedeFields DEF TypeOK
  <2>2. \A r \in S : /\ NewOperation(r, c, "cancel").run = r
                     /\ NewOperation(r, c, "cancel").kind = "cancel"
    BY DEF NewOperation
  <2>3. Doomed' = Doomed \cup S
    BY <1>1, <2>1, <2>2 DEF Doomed
  <2>4. {r \in S \cup Q : Place[r] = "seated"} = S
    BY <1>3
  <2>. QED
    BY <2>3, <2>4
<1>7. Contract!Cancel(S \cup Q)
  BY <1>3, <1>4, <1>5, <1>6 DEF Contract!Cancel
<1>8. S \cup Q \in SUBSET Run
  BY <1>1
<1>. QED
  BY <1>7, <1>8 DEF Contract!CNext

\* The other steps show the contract nothing.
LEMMA SilentSteps ==
    ASSUME Inv, \/ AdvanceStep \/ PrepareStep \/ QuietStep
                \/ \E S \in SUBSET Run : ClaimRecoveryDue(S)
    PROVE  SameToContract
<1>. USE DEF Inv, Typed
<1>1. ASSUME \A r \in Run : /\ runs'[r].worker = runs[r].worker
                            /\ PlaceIn(runs'[r].state) = PlaceIn(runs[r].state)
      PROVE  Place' = Place /\ Home' = Home
  BY <1>1, PlaceByState, PlacesFollow, PlacesFollowNext
<1>2. CASE AdvanceStep
  <2>1. PICK r \in Run, rec \in RunRecord : Advanced(r, rec)
    BY <1>2 DEF AdvanceStep
  <2>2. /\ runs'[r] = rec /\ \A x \in Run : x # r => runs'[x] = runs[x]
        /\ rec.state = "running" /\ runs[r].state \in Leased
        /\ rec.worker = runs[r].worker
    BY <2>1 DEF Advanced, SameOrigin, TypeOK
  <2>. QED
    BY <1>1, <1>2, <2>2 DEF PlaceIn, Active, Leased, AdvanceStep, Doomed, SameToContract
<1>3. CASE PrepareStep \/ QuietStep
  BY <1>1, <1>3 DEF PrepareStep, QuietStep, Doomed, SameToContract
<1>4. ASSUME NEW S \in SUBSET Run, ClaimRecoveryDue(S)
      PROVE  SameToContract
  <2>1. \A r \in S : runs[r].state \in Active
    BY <1>4 DEF ClaimRecoveryDue, RecoveryDue, Active, Leased
  <2>2. runs' = [r \in Run |-> IF r \in S THEN TakeControl(runs[r]) ELSE runs[r]]
    BY <1>4 DEF ClaimRecoveryDue
  <2>3. \A r \in S : runs'[r].state = "cancelling" /\ runs'[r].worker = runs[r].worker
    BY <2>2, TakeControlFields DEF TypeOK
  <2>4. \A r \in Run : r \notin S => runs'[r] = runs[r]
    BY <2>2
  <2>5. Place' = Place /\ Home' = Home
    BY <1>1, <2>1, <2>3, <2>4 DEF PlaceIn, Active, Leased
  <2>6. ops' = {Supersede(o, S) : o \in ops}
                 \cup {NewOperation(r, runs[r].rev + 1, RecoveryReason(r)) : r \in S}
    BY <1>4, Zenon DEF ClaimRecoveryDue, TakeOver, Supersede
  <2>7. \A r \in S : RecoveryReason(r) # "cancel"
    <3>1. TAKE r \in S
    <3>2. runs[r].state \in Leased => RecoveryReason(r) # "cancel"
      BY DEF RecoveryReason
    <3>3. runs[r].state \notin Leased => RecoveryReason(r) # "cancel"
      BY DEF RecoveryReason
    <3>. QED
      BY <3>2, <3>3
  <2>8. \A r \in S : NewOperation(r, runs[r].rev + 1, RecoveryReason(r)).kind # "cancel"
    BY <2>7 DEF NewOperation
  <2>9. \A o \in ops : Supersede(o, S).run = o.run /\ Supersede(o, S).kind = o.kind
    BY SupersedeFields DEF TypeOK
  <2>10. Doomed' = Doomed
    BY <2>6, <2>8, <2>9 DEF Doomed
  <2>. QED
    BY <2>5, <2>10 DEF SameToContract
<1>. QED
  BY <1>2, <1>3, <1>4

\* The empty store is the contract's first state.
LEMMA InitMeetsContract ==
    ASSUME Init
    PROVE  Contract!CInit
<1>1. \A r \in Run : runs[r].state = "absent" /\ runs[r].worker = None
  BY DEF Init, NoRunRecord
<1>2. Place = [r \in Run |-> "unborn"]
  BY <1>1, PlaceByState DEF PlaceIn
<1>3. Home = [r \in Run |-> None] /\ Doomed = {}
  BY <1>1 DEF Home, Doomed, Init
<1>. QED
  BY <1>2, <1>3 DEF Contract!CInit

\* Every step of the store is a step of the contract, or silent.
LEMMA StepMeetsContract ==
    ASSUME Inv, TreeInv, [Next]_vars
    PROVE  [Contract!CNext]_(Contract!cvars)
<1>1. CASE Inserts \/ Claims \/ HolderEndStep \/ TicketEndStep
  <2>1. InsertionStep \/ ClaimStep \/ HolderEndStep \/ TicketEndStep
    BY <1>1, InsertsEffect, ClaimsEffect
  <2>. QED
    BY <2>1, InsertionSubmits, ClaimSeats, SettlementsEnd
<1>2. CASE AdvanceStep \/ PrepareStep \/ QuietStep \/ Recovers
  BY <1>2, SilentSteps DEF SameToContract, Contract!cvars, Recovers
<1>3. CASE Cancels
  BY <1>3, CancelCancels DEF Cancels
<1>. QED
  BY <1>1, <1>2, <1>3, ActionKinds

\* The store implements the contract its clients rely on: seats, ends and
\* cancellations are those of AgentRunContract, whatever is crashed, replayed,
\* recovered or taken over in between.
THEOREM StoreImplementsContract == Spec => ImplementsContract
<1>1. Init => Contract!CInit
  BY InitMeetsContract
<1>2. Inv /\ TreeInv /\ [Next]_vars => [Contract!CNext]_(Contract!cvars)
  BY StepMeetsContract
<1>. QED
  BY <1>1, <1>2, TreeInvariance, PTL DEF Spec, ImplementsContract, Contract!CSpec
=============================================================================
