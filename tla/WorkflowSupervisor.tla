------------------------- MODULE WorkflowSupervisor -------------------------
(***************************************************************************)
(* Workflows the daemon runs (DaemonWorkflowSupervisor of                  *)
(* vyane-cli/src/daemon_workflow.rs): an initializer creates and attaches  *)
(* the task row under a lease, makes the journal durable, publishes the    *)
(* worker and hands it to a watcher, which renews the lease, waits and     *)
(* writes the end.  Clients cancel; the daemon drains in bounded phases    *)
(* and its successor interrupts what is left.  One workflow.               *)
(*                                                                         *)
(* A loop that reads the row, decides and writes under the revision it     *)
(* read is one step, as in TaskSupervisor; its last blocking call may be   *)
(* left behind by an aborted future and is then an operation of its own.   *)
(***************************************************************************)
EXTENDS TaskRow

CONSTANTS
    LeaseTicks,   \* LEASE_DURATION_SECS; a renewal is due every tick
    MaxServers,   \* bound of the model: daemons started, one after the other
    MaxFaults,    \* bound of the model: crashes and failing calls
    MaxTime       \* bound of the model: the clock

VARIABLES
    row,         \* the workflow's task row
    server,      \* number of the daemon and what it is doing
    init,        \* the initializer
    initToken,   \* is the token in initializing_cancels?
    signalled,   \* has the token been cancelled?
    journal,     \* none, prepared, ended
    live,        \* is the worker in the live map?
    worker,      \* the workflow's future
    watcher,     \* its watcher
    completion,  \* what the watcher writes
    late,        \* blocking calls nobody awaits any more
    client,      \* a cancellation request between its write and its signal
    now,
    faults

runtime == <<initToken, signalled, live, worker, watcher, completion, client>>
vars == <<row, server, init, runtime, journal, late, now, faults>>

Init ==
    /\ row = NoTask
    /\ server = [id |-> 1, at |-> "up"]
    /\ init = "none" /\ initToken = FALSE /\ signalled = FALSE
    /\ journal = "none" /\ live = FALSE /\ worker = "none"
    /\ watcher = "none" /\ completion = "none"
    /\ late = {} /\ client = FALSE /\ now = 0 /\ faults = 0

Accepting == server.at = "up"
Mine == row.controller = server.id
Fault == faults < MaxFaults /\ faults' = faults + 1
Write(new) == row' = new
Server(to) == server' = [server EXCEPT !.at = to]

-----------------------------------------------------------------------------
(* submit and initialize. *)

\* begin_initialization; a retry of a submission finds its row and stops.
Submit ==
    /\ Accepting /\ init = "none" /\ row.state = "absent"
    /\ init' = "create"
    /\ UNCHANGED <<row, server, runtime, journal, late, now, faults>>

CreateTask ==
    /\ init = "create"
    /\ IF Accepting THEN Write(Created(now)) /\ init' = "created"
                    ELSE UNCHANGED row /\ init' = "none"
    /\ UNCHANGED <<server, runtime, journal, late, now, faults>>

RegisterToken ==
    /\ init = "created"
    /\ initToken' = TRUE
    /\ init' = IF Accepting THEN "attach" ELSE "abandon"
    /\ UNCHANGED <<row, server, signalled, live, worker, watcher, completion, client, journal, late, now, faults>>

\* The generation's row, as settle_current and interrupt_current look for it.
Current == row.state \in {"running", "cancelling"} /\ Mine
LeaveInit(to) == init' = to /\ initToken' = FALSE

CleanUp(new) ==
    /\ Write(new)
    /\ LeaveInit("none")
    /\ UNCHANGED <<server, signalled, live, worker, watcher, completion, client, journal, late, now, faults>>
\* Admission closed meanwhile: interrupt_abandoned.
Abandon ==
    /\ init = "abandon"
    /\ CleanUp(IF row.state \in Active THEN Interrupted(row, "worker_lost", now) ELSE row)
\* Attaching or reading again failed: the row is read once more.
CleanFailed ==
    /\ init = "failed"
    /\ CleanUp(IF row.state = "queued" THEN Settled(row, "failed", now)
               ELSE IF Current THEN Interrupted(row, "internal", now) ELSE row)
\* The store fails, or the one attempt is lost to another change of the row.
CleanUpLost ==
    /\ init \in {"abandon", "failed"}
    /\ IF init = "failed" /\ row.state \in Active THEN UNCHANGED faults ELSE Fault
    /\ LeaveInit("left")
    /\ UNCHANGED <<row, server, signalled, live, worker, watcher, completion, client, journal, late, now>>

AttachedNow == Attached(row, server.id, now + LeaseTicks, now)
AttachController ==
    /\ init = "attach"
    /\ IF CanAttach(row, now + LeaseTicks, now)
         THEN Write(AttachedNow) /\ init' = "prepare" /\ UNCHANGED initToken
         ELSE UNCHANGED row /\ LeaveInit("none")
    /\ UNCHANGED <<server, signalled, live, worker, watcher, completion, client, journal, late, now, faults>>
\* The controllers cannot be opened, or the call fails before or after its commit.
AttachFails ==
    /\ init = "attach" /\ Fault
    /\ \/ row.state = "queued" /\ Write(AttachedNow)
       \/ UNCHANGED row
    /\ init' = "failed"
    /\ UNCHANGED <<server, runtime, journal, late, now>>

\* prepare_run_with_id, before there is a future.
PrepareJournal ==
    /\ init = "prepare"
    /\ journal' = "prepared"
    /\ init' = "spawn"
    /\ UNCHANGED <<row, server, runtime, late, now, faults>>
PrepareFails ==
    /\ init = "prepare" /\ Fault
    /\ IF row.state \in Active THEN Write(Settled(row, "failed", now)) ELSE UNCHANGED row
    /\ LeaveInit("none")
    /\ UNCHANGED <<server, signalled, live, worker, watcher, completion, client, journal, late, now>>

\* Neither the journal nor the settlement can be written.
PrepareLost ==
    /\ init = "prepare" /\ Fault
    /\ LeaveInit("left")
    /\ UNCHANGED <<row, server, signalled, live, worker, watcher, completion, client, journal, late, now>>

\* The worker waits at its gate; its generation is visible.
SpawnWorker ==
    /\ init = "spawn"
    /\ worker' = "gate" /\ live' = TRUE
    /\ init' = "reread"
    /\ UNCHANGED <<row, server, initToken, signalled, watcher, completion, client, journal, late, now, faults>>

\* The second reading finds a cancellation that fell between attaching and
\* publication; then watcher and worker start.
OpenGate ==
    /\ init = "reread"
    /\ IF row.state \in {"running", "cancelling"} /\ Mine
         THEN /\ worker' = "run" /\ watcher' = "watch"
              /\ signalled' = (signalled \/ row.state = "cancelling")
              /\ UNCHANGED live
         ELSE worker' = "none" /\ live' = FALSE /\ UNCHANGED <<signalled, watcher>>
    /\ LeaveInit("none")
    /\ UNCHANGED <<row, server, completion, client, journal, late, now, faults>>
RereadFails ==
    /\ init = "reread" /\ Fault
    /\ worker' = "none" /\ live' = FALSE
    /\ init' = "failed"
    /\ UNCHANGED <<row, server, initToken, signalled, watcher, completion, client, journal, late, now>>

Initialize ==
    \/ CreateTask \/ RegisterToken \/ Abandon \/ CleanFailed \/ CleanUpLost
    \/ AttachController \/ AttachFails \/ PrepareJournal \/ PrepareFails \/ PrepareLost
    \/ SpawnWorker \/ OpenGate \/ RereadFails

-----------------------------------------------------------------------------
(* The worker and its watcher. *)

WorkerReturns ==
    /\ worker = "run"
    /\ \E o \in {"succeeded", "failed", "cancelled"} :
         (o = "cancelled" => signalled) /\ completion' = o
    /\ worker' = "returned" /\ journal' = "ended"
    /\ UNCHANGED <<row, server, init, initToken, signalled, live, watcher, client, late, now, faults>>

\* An aborted future is dropped where it next waits.
WorkerDropped ==
    /\ worker = "aborted"
    /\ worker' = "dropped"
    /\ UNCHANGED <<row, server, init, initToken, signalled, live, watcher, completion, client, journal, late, now, faults>>

\* finish_worker
WatchWorker ==
    /\ watcher \in {"watch", "lost"} /\ worker \in {"returned", "dropped"}
    /\ watcher' = "settle" /\ worker' = "none"
    /\ completion' = IF watcher = "watch" /\ worker = "returned" THEN completion
                     ELSE IF watcher = "lost" \/ Accepting THEN "failed" ELSE "interrupted"
    /\ UNCHANGED <<row, server, init, initToken, signalled, live, client, journal, late, now, faults>>

Due == row.lease < now + LeaseTicks
RenewLease ==
    /\ watcher = "watch" /\ worker = "run" /\ Current
    /\ CanRenew(row, server.id, now + LeaseTicks, now)
    /\ Write(Renewed(row, now + LeaseTicks, now))
    /\ UNCHANGED <<server, init, runtime, journal, late, now, faults>>

\* Mutant: the end is written while the worker is being stopped.
LeaseLostAtOnce ==
    /\ watcher = "watch" /\ worker = "run" /\ Due
    /\ ~ (Current /\ CanRenew(row, server.id, now + LeaseTicks, now))
    /\ signalled' = TRUE /\ watcher' = "settle" /\ completion' = "failed"
    /\ UNCHANGED <<row, server, init, initToken, live, worker, client, journal, late, now, faults>>
\* The lease ran out or the row is no longer this daemon's: the worker is
\* stopped before anything is written.
StopWorker ==
    signalled' = TRUE /\ worker' = "aborted" /\ watcher' = "lost"
LeaseLost ==
    /\ watcher = "watch" /\ worker = "run" /\ Due
    /\ ~ (Current /\ CanRenew(row, server.id, now + LeaseTicks, now))
    /\ StopWorker
    /\ UNCHANGED <<row, server, init, initToken, live, completion, client, journal, late, now, faults>>
RenewFails ==
    /\ watcher = "watch" /\ worker = "run" /\ Due /\ Fault
    /\ StopWorker
    /\ UNCHANGED <<row, server, init, initToken, live, completion, client, journal, late, now>>

Final(r, o) == IF o = "interrupted" THEN Interrupted(r, "worker_lost", now) ELSE Settled(r, o, now)
\* persist_completion, which retries for ever; then LiveCompletionGuard.
PersistCompletion ==
    /\ watcher = "settle"
    /\ IF Current THEN Write(Final(row, completion)) ELSE UNCHANGED row
    /\ watcher' = "none" /\ live' = FALSE
    /\ UNCHANGED <<server, init, initToken, signalled, worker, completion, client, journal, late, now, faults>>

\* A call left behind commits if the row is still the one it was made for.
LateCall ==
    /\ \E op \in late :
         /\ late' = late \ {op}
         /\ row' = IF op.rev # row.rev \/ row.state \in Terminal THEN row
                   ELSE CASE op.what = "create" -> Created(now)
                          [] op.what = "attach" -> AttachedNow
                          [] op.what = "cancel" -> CancelRequested(row, now)
                          [] OTHER -> Final(row, op.what)
    /\ UNCHANGED <<server, init, runtime, journal, now, faults>>

Watch == WatchWorker \/ RenewLease \/ LeaseLost \/ RenewFails \/ PersistCompletion

-----------------------------------------------------------------------------
(* cancel and signal_live_cancel. *)

Reachable == initToken \/ live
\* Mutant: a repeated request is answered with the row and no more.
CancelOnce ==
    /\ server.at \in {"up", "drain"} /\ ~ client
    /\ row.state = "queued" \/ (row.state = "running" /\ Mine /\ Reachable)
    /\ Write(CancelRequested(row, now))
    /\ client' = TRUE
    /\ UNCHANGED <<server, init, initToken, signalled, live, worker, watcher, completion, journal, late, now, faults>>
CancelTask ==
    /\ server.at \in {"up", "drain"} /\ ~ client
    /\ row.state = "queued" \/ (row.state \in {"running", "cancelling"} /\ Mine /\ Reachable)
    /\ IF CanCancel(row) THEN Write(CancelRequested(row, now)) ELSE UNCHANGED row
    /\ client' = TRUE
    /\ UNCHANGED <<server, init, initToken, signalled, live, worker, watcher, completion, journal, late, now, faults>>
Signal ==
    /\ client
    /\ client' = FALSE
    /\ signalled' = (signalled \/ Reachable)
    /\ UNCHANGED <<row, server, init, initToken, live, worker, watcher, completion, journal, late, now, faults>>
HangUp ==
    /\ client /\ Fault
    /\ client' = FALSE
    /\ UNCHANGED <<row, server, init, initToken, signalled, live, worker, watcher, completion, journal, late, now>>

-----------------------------------------------------------------------------
(* shutdown_and_drain, phase by phase. *)

BeginShutdown ==
    /\ server.at = "up"
    /\ Server("drain")
    /\ signalled' = (signalled \/ initToken)
    /\ UNCHANGED <<row, init, initToken, live, worker, watcher, completion, client, journal, late, now, faults>>

LeftBehind(what, rev) == {late, late \cup {[what |-> what, rev |-> rev]}}
InitCall ==
    CASE init = "create" -> LeftBehind("create", 0)
      [] init = "attach" -> LeftBehind("attach", 0)
      [] init \in {"abandon", "failed"} -> LeftBehind("interrupted", row.rev)
      [] OTHER -> {late}
\* abort_initializers: the guards take back what was published, and the
\* blocking call of the moment runs on.
AbortInitializer ==
    /\ server.at = "drain" /\ init \notin {"none", "left"}
    /\ late' \in InitCall
    /\ LeaveInit("left")
    /\ live' = FALSE /\ worker' = IF worker = "gate" THEN "none" ELSE worker
    /\ UNCHANGED <<row, server, signalled, watcher, completion, client, journal, now, faults>>

\* request_shutdown_cancellation, then every live token.
RequestCancellation ==
    /\ server.at = "drain" /\ init \in {"none", "left"}
    /\ IF CanCancel(row) /\ (row.state = "queued" \/ Mine)
         THEN Write(CancelRequested(row, now)) ELSE UNCHANGED row
    /\ signalled' = (signalled \/ live)
    /\ Server("live")
    /\ UNCHANGED <<init, initToken, live, worker, watcher, completion, client, journal, late, now, faults>>
\* An error, or a timeout that leaves the call behind.
RequestFails ==
    /\ server.at = "drain" /\ init \in {"none", "left"} /\ Fault
    /\ late' \in IF CanCancel(row) THEN LeftBehind("cancel", row.rev) ELSE {late}
    /\ signalled' = (signalled \/ live)
    /\ Server("live")
    /\ UNCHANGED <<row, init, initToken, live, worker, watcher, completion, client, journal, now>>

LiveDone ==
    /\ server.at \in {"live", "aborted"} /\ ~ live
    /\ Server("blocking")
    /\ UNCHANGED <<row, init, runtime, journal, late, now, faults>>

\* interrupt_owned_active
InterruptOwned ==
    IF row.state = "queued" \/ Current
      THEN Write(Interrupted(row, "worker_lost", now)) ELSE UNCHANGED row
\* The budget is spent: interrupt, then abort.
ForceInterrupt ==
    /\ server.at = "live" /\ live
    /\ InterruptOwned
    /\ Server("force")
    /\ UNCHANGED <<init, runtime, journal, late, now, faults>>
ForceInterruptFails ==
    /\ server.at = "live" /\ live /\ Fault
    /\ late' \in IF Current THEN LeftBehind("interrupted", row.rev) ELSE {late}
    /\ Server("force")
    /\ UNCHANGED <<row, init, runtime, journal, now>>
ForceAbort ==
    /\ server.at = "force"
    /\ worker' = IF worker = "run" THEN "aborted" ELSE worker
    /\ Server("aborted")
    /\ UNCHANGED <<row, init, initToken, signalled, live, watcher, completion, client, journal, late, now, faults>>
\* The second budget is spent too: the watcher is aborted and awaited; what
\* it was writing may run on.
AbortWatcher ==
    /\ server.at = "aborted" /\ live
    /\ watcher' = "none" /\ live' = FALSE
    /\ late' \in IF watcher = "settle" THEN LeftBehind(completion, row.rev) ELSE {late}
    /\ Server("blocking")
    /\ UNCHANGED <<row, init, initToken, signalled, worker, completion, client, journal, now, faults>>

\* wait_blocking_operations, then the last pass; the lock is released.
FinalPass ==
    /\ server.at = "blocking" /\ late = {}
    /\ InterruptOwned
    /\ Server("down") /\ client' = FALSE
    /\ UNCHANGED <<init, initToken, signalled, live, worker, watcher, completion, journal, late, now, faults>>
FinalPassFails ==
    /\ server.at = "blocking" /\ late = {} /\ Fault
    /\ Server("down") /\ client' = FALSE
    /\ UNCHANGED <<row, init, initToken, signalled, live, worker, watcher, completion, journal, late, now>>

Shutdown ==
    \/ AbortInitializer \/ RequestCancellation \/ RequestFails \/ LiveDone
    \/ ForceInterrupt \/ ForceInterruptFails \/ ForceAbort \/ AbortWatcher \/ FinalPass \/ FinalPassFails

-----------------------------------------------------------------------------
(* The next daemon, the end of one without notice, and time. *)

Gone ==
    /\ init' = "none" /\ initToken' = FALSE /\ signalled' = FALSE /\ live' = FALSE
    /\ worker' = "none" /\ watcher' = "none" /\ completion' = "none"
    /\ late' = {} /\ client' = FALSE
Start ==
    /\ server.at = "down" /\ server.id < MaxServers
    /\ server' = [id |-> server.id + 1, at |-> "recover"]
    /\ Gone
    /\ UNCHANGED <<row, journal, now, faults>>
\* recover_interrupted, whatever the controllers' cleanup says.
Recover ==
    /\ server.at = "recover"
    /\ IF row.state \in Active
         THEN Write(Interrupted(row, "worker_lost", now)) ELSE UNCHANGED row
    /\ Server("up")
    /\ UNCHANGED <<init, runtime, journal, late, now, faults>>
Crash ==
    /\ server.at # "down" /\ Fault
    /\ Server("down")
    /\ Gone
    /\ UNCHANGED <<row, journal, now>>
Tick ==
    /\ now < MaxTime
    /\ now' = now + 1
    /\ UNCHANGED <<row, server, init, runtime, journal, late, faults>>

Next ==
    \/ Submit \/ Initialize \/ WorkerReturns \/ WorkerDropped \/ Watch \/ LateCall
    \/ CancelTask \/ Signal \/ HangUp
    \/ BeginShutdown \/ Shutdown \/ Start \/ Recover \/ Crash \/ Tick

Spec == Init /\ [][Next]_vars

\* As in TaskSupervisor: a workflow need not return before it is cancelled,
\* a client whose workflow stays cancelling asks again, and daemons are
\* started again.
Fairness ==
    /\ WF_vars(Initialize) /\ WF_vars(signalled /\ WorkerReturns)
    /\ WF_vars(WorkerDropped) /\ WF_vars(WatchWorker) /\ WF_vars(PersistCompletion)
    /\ WF_vars(LateCall)
    /\ WF_vars(row.state = "cancelling" /\ CancelTask) /\ SF_vars(Signal)
    /\ WF_vars(Shutdown) /\ WF_vars(Start) /\ WF_vars(Recover)
FairSpec == Spec /\ Fairness

-----------------------------------------------------------------------------
(* Properties. *)

\* The variables have the declared shape.
WorkflowTypeOK ==
    /\ row.state \in Active \cup Terminal \cup {"absent"}
    /\ server.id \in 1 .. MaxServers
    /\ server.at \in {"up", "drain", "live", "force", "aborted", "blocking", "down", "recover"}
    /\ init \in {"none", "create", "created", "attach", "prepare", "spawn", "reread", "abandon", "failed", "left"}
    /\ journal \in {"none", "prepared", "ended"}
    /\ worker \in {"none", "gate", "run", "returned", "aborted", "dropped"}
    /\ watcher \in {"none", "watch", "lost", "settle"}
    /\ completion \in Terminal \cup {"none"}
    /\ late \subseteq [what : Terminal \cup {"create", "attach", "cancel"}, rev : Nat]
    /\ initToken \in BOOLEAN /\ signalled \in BOOLEAN /\ live \in BOOLEAN /\ client \in BOOLEAN
    /\ now \in 0 .. MaxTime /\ faults \in 0 .. MaxFaults

\* Every row the daemons leave can be read again.
RowWellFormed == WellFormed(row)

\* The row moves only along its lifecycle, and what ended stays as it is.
RowMovesLegally ==
    [][row' # row => row.state \notin Terminal /\ LegalStep(row, row')]_row

\* Once the supervisor lock is released nothing of the old daemon can write to
\* the row: no initializer, no watcher, no blocking call left behind.
LockCoversWrites ==
    server.at \in {"down", "recover"} =>
      init \in {"none", "left"} /\ watcher = "none" /\ late = {} /\ ~ live

\* A workflow that runs has its journal and a row that is running under this
\* daemon, until the forced phase of a shutdown interrupts it; whoever loses
\* the lease stops the worker before it writes the end.
WorkIsWanted ==
    worker = "run" =>
      /\ journal = "prepared"
      /\ server.at \in {"up", "drain", "live"} => Current

\* A workflow runs under somebody's eyes: it is in the live map and has a
\* watcher who will write its end.
WorkIsWatched == worker = "run" => live /\ watcher = "watch"

\* A row that says cancelling has its worker told, wherever the request fell
\* between attaching and publication and even if the client hung up.
CancelReachesWorker ==
    row.state = "cancelling" /\ worker \in {"gate", "run"} ~>
      signalled \/ worker \notin {"gate", "run"}

\* A daemon told to stop does, whatever budgets run out on the way.
ShutdownEnds == server.at = "drain" ~> server.at = "down"

\* A submitted workflow ends, across shutdowns, crashes and lost leases, as
\* long as daemons are started and nobody leaves it running.
WorkflowsEnd ==
    row.state \in Active ~>
      \/ row.state \in Terminal
      \/ worker = "run" /\ ~ signalled
      \/ init = "left" \/ (server.id = MaxServers /\ server.at = "down")

\* A workflow row is readable and legal; what runs is wanted and watched, and
\* a released lock leaves nobody who writes.
WorkflowsSupervised ==
    /\ [](/\ WorkflowTypeOK /\ RowWellFormed /\ LockCoversWrites
          /\ WorkIsWanted /\ WorkIsWatched)
    /\ RowMovesLegally

\* Cancellations arrive, shutdowns and workflows end.
WorkflowsSettle == CancelReachesWorker /\ ShutdownEnds /\ WorkflowsEnd

-----------------------------------------------------------------------------
(* An inductive invariant. *)

\* What the constants have to be: daemons are numbered, and no number stands
\* for nobody.
Bounds ==
    /\ MaxServers \in Nat \ {0} /\ MaxFaults \in Nat /\ MaxTime \in Nat /\ LeaseTicks \in Nat
    /\ NoOne \notin 1 .. MaxServers

\* The row and who may be named in it.
RowShape ==
    /\ row \in TaskRecord({NoOne} \cup 1 .. MaxServers)
    /\ WellFormed(row)
    /\ row.state = "absent" => row = NoTask

Phase == {"up", "drain", "live", "force", "aborted", "blocking", "down", "recover"}
DaemonShape ==
    /\ server \in [id : 1 .. MaxServers, at : Phase]
    /\ init \in {"none", "create", "created", "attach", "prepare", "spawn", "reread", "abandon", "failed", "left"}
    /\ journal \in {"none", "prepared", "ended"}
    /\ worker \in {"none", "gate", "run", "returned", "aborted", "dropped"}
    /\ watcher \in {"none", "watch", "lost", "settle"}
    /\ completion \in Terminal \cup {"none"}
    /\ initToken \in BOOLEAN /\ signalled \in BOOLEAN /\ live \in BOOLEAN /\ client \in BOOLEAN
    /\ now \in 0 .. MaxTime /\ faults \in 0 .. MaxFaults

\* An initializer works before there is a watcher, and each finds the row where
\* the one before it left it.
Published ==
    /\ init = "create" => row.state = "absent"
    /\ init \notin {"none", "left", "create"} => row.state # "absent"
    /\ init \in {"prepare", "spawn", "reread"} \/ watcher # "none" =>
         row.state \notin {"absent", "queued"}
    /\ init \notin {"none", "left"} => watcher = "none"
    /\ worker = "gate" <=> init = "reread"
    /\ live <=> (init = "reread" \/ watcher # "none")
    /\ watcher = "settle" \/ worker = "returned" => completion # "none"
    /\ init \in {"spawn", "reread"} => journal = "prepared"

\* The order of the phases of a shutdown.
Drained ==
    /\ server.at \in {"live", "force", "aborted", "blocking", "down", "recover"} =>
         init \in {"none", "left"}
    /\ server.at \in {"aborted", "blocking", "down", "recover"} => worker # "run"
    /\ server.at \in {"blocking", "down", "recover"} => watcher = "none"

\* A call left behind was made for a row with the revision it names; the row
\* is not older, and if it has not moved the call still fits it.
LateSound ==
    /\ late \subseteq [what : Terminal \cup {"create", "attach", "cancel"}, rev : Nat]
    /\ late # {} => init \in {"none", "left"} /\ server.at \notin {"up", "down", "recover"}
    /\ worker = "run" /\ server.at \in {"drain", "live"} => \A op \in late : op.what = "cancel"
    /\ \A op \in late :
         /\ op.rev <= row.rev
         /\ op.what = "create" <=> row.state = "absent"
         /\ op.what \in {"create", "attach"} => op.rev = 0
         /\ op.what = "cancel" /\ op.rev = row.rev => row.state \in {"queued", "running"}
         /\ op.what \in Settlement => row.state # "queued"

WorkflowInv ==
    RowShape /\ DaemonShape /\ Published /\ Drained /\ LateSound /\ WorkIsWanted /\ WorkIsWatched
=============================================================================
