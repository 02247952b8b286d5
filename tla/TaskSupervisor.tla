--------------------------- MODULE TaskSupervisor ---------------------------
(***************************************************************************)
(* Asynchronous REST tasks (TaskSupervisor of vyane-cli/src/api.rs): an    *)
(* owned initializer creates the row, attaches this server and spawns the  *)
(* dispatch; the dispatch settles the row; clients cancel; the server      *)
(* drains when it stops and recovers rows a dead server left.  One task.   *)
(*                                                                         *)
(* A loop that reads the row, decides and writes under the revision it     *)
(* read commits what it decided on the latest row or reads again, and the  *)
(* row changes less often than the 16 rounds it has: it is one step.       *)
(***************************************************************************)
EXTENDS TaskRow

CONSTANTS
    MaxServers,   \* bound of the model: servers started, one after the other
    MaxFaults     \* bound of the model: crashes and failing store calls

\* Servers are numbered, and no number stands for nobody.
ASSUME SupervisorAssumption ==
    MaxServers \in Nat \ {0} /\ MaxFaults \in Nat /\ NoOne \notin 1 .. MaxServers

VARIABLES
    row,         \* the task's row
    server,      \* number of the server instance and what it is doing
    init,        \* the task's initializer
    entry,       \* is the task's token in live_tokens?
    signalled,   \* has the token been cancelled?
    worker,      \* the tracked dispatch: none, reserved, run, settle, ended
    outcome,     \* what the dispatch returned
    late,        \* a settlement in a blocking call nobody awaits any more
    client,      \* a cancellation request between its write and its signal
    faults

tasks == <<init, entry, signalled, worker, outcome, client>>
vars == <<row, server, tasks, late, faults>>

Init ==
    /\ row = NoTask
    /\ server = [id |-> 1, at |-> "up"]
    /\ init = "none" /\ entry = FALSE /\ signalled = FALSE
    /\ worker = "none" /\ outcome = "none" /\ late = "none"
    /\ client = FALSE /\ faults = 0

Alive == server.at # "down"
\* INITIALIZATION_SHUTDOWN_BIT
Closing == server.at \notin {"recover", "up"}
\* No initializer holds a permit.
NoPermit == init \in {"none", "left"}
Mine == row.controller = server.id
Epoch == 1
Write(new) == row' = new

Fault == faults < MaxFaults /\ faults' = faults + 1

-----------------------------------------------------------------------------
(* submit and initialize_and_spawn. *)

Submit ==
    /\ server.at = "up" /\ row.state = "absent" /\ init = "none"
    /\ init' = "create"
    /\ UNCHANGED <<row, server, entry, signalled, worker, outcome, late, client, faults>>

CreateTask ==
    /\ init = "create"
    /\ IF Closing THEN init' = "none" /\ UNCHANGED row
                  ELSE init' = "created" /\ Write(Created(0))
    /\ UNCHANGED <<server, entry, signalled, worker, outcome, late, client, faults>>

\* The token is there before the row says that somebody can be cancelled.
RegisterToken ==
    /\ init = "created"
    /\ IF Closing THEN init' = "cleanup" /\ UNCHANGED entry
                  ELSE init' = "attach" /\ entry' = TRUE
    /\ UNCHANGED <<row, server, signalled, worker, outcome, late, client, faults>>

AttachController ==
    /\ init = "attach"
    /\ IF row.state = "queued"
         THEN /\ Write(Attached(row, server.id, 0, 0))
              /\ init' = "attached" /\ UNCHANGED entry
         ELSE /\ init' = "cleanup" /\ entry' = FALSE
              /\ UNCHANGED row
    /\ UNCHANGED <<server, signalled, worker, outcome, late, client, faults>>
\* The call fails, before or after its commit.
AttachFails ==
    /\ init = "attach" /\ Fault
    /\ \/ row.state = "queued" /\ Write(Attached(row, server.id, 0, 0))
       \/ UNCHANGED row
    /\ init' = "cleanup" /\ entry' = FALSE
    /\ UNCHANGED <<server, signalled, worker, outcome, late, client>>

\* spawn_supervised_dispatch, first half: the reservation.
ReserveDispatch ==
    /\ init = "attached"
    /\ IF Closing
         THEN /\ init' = "cleanup" /\ signalled' = TRUE /\ entry' = FALSE
              /\ UNCHANGED worker
         ELSE /\ init' = "spawn" /\ worker' = "reserved"
              /\ UNCHANGED <<entry, signalled>>
    /\ UNCHANGED <<row, server, outcome, late, client, faults>>
\* Second half; the permit is returned afterwards.
StartDispatch ==
    /\ init = "spawn"
    /\ worker' = "run"
    /\ init' = "none"
    /\ UNCHANGED <<row, server, entry, signalled, outcome, late, client, faults>>

\* interrupt_failed_initialization: only the row as this initializer left it.
OwnSnapshot ==
    \/ row.state = "queued"
    \/ row.state \in {"running", "cancelling"} /\ Mine
CleanUp ==
    /\ init = "cleanup"
    /\ IF OwnSnapshot THEN Write(Interrupted(row, "control_unavailable", 0))
                      ELSE UNCHANGED row
    /\ init' = "none"
    /\ UNCHANGED <<server, entry, signalled, worker, outcome, late, client, faults>>
\* Best effort: the row is left to the next server.
CleanUpFails ==
    /\ init = "cleanup" /\ Fault
    /\ init' = "left"
    /\ UNCHANGED <<row, server, entry, signalled, worker, outcome, late, client>>

Initialize ==
    \/ CreateTask \/ RegisterToken \/ AttachController \/ AttachFails
    \/ ReserveDispatch \/ StartDispatch \/ CleanUp \/ CleanUpFails

-----------------------------------------------------------------------------
(* The dispatch. *)

DispatchReturns ==
    /\ worker = "run"
    /\ \E o \in Settlement :
         /\ o = "cancelled" => signalled
         /\ outcome' = o
    /\ worker' = "settle"
    /\ UNCHANGED <<row, server, init, entry, signalled, late, client, faults>>

\* settle_current: nothing is done to a row that ended or has a newer epoch.
SettleCurrent(o) ==
    IF CanSettle(row, o) /\ row.epoch = Epoch
      THEN Write(Settled(row, o, 0)) ELSE UNCHANGED row

SettleWithRetry ==
    /\ worker = "settle"
    /\ SettleCurrent(outcome)
    /\ worker' = "ended"
    /\ UNCHANGED <<server, init, entry, signalled, outcome, late, client, faults>>

\* The watcher of the dispatch.
Unregister ==
    /\ worker = "ended"
    /\ worker' = "none" /\ outcome' = "none" /\ entry' = FALSE
    /\ UNCHANGED <<row, server, init, signalled, late, client, faults>>

\* A blocking call outlives the future that started it.
LateSettlement ==
    /\ late # "none"
    /\ SettleCurrent(late)
    /\ late' = "none"
    /\ UNCHANGED <<server, tasks, faults>>

Dispatch == DispatchReturns \/ SettleWithRetry \/ Unregister

-----------------------------------------------------------------------------
(* cancel. *)

Controls == row.state = "queued" \/ (Mine /\ entry)

\* A row that is already cancelling is only signalled again.
CancelTask ==
    /\ server.at \in {"up", "drain"} /\ ~ client
    /\ row.state \in Active /\ Controls
    /\ IF CanCancel(row) THEN Write(CancelRequested(row, 0)) ELSE UNCHANGED row
    /\ client' = TRUE
    /\ UNCHANGED <<server, init, entry, signalled, worker, outcome, late, faults>>
Signal ==
    /\ client
    /\ client' = FALSE
    /\ signalled' = (signalled \/ entry)
    /\ UNCHANGED <<row, server, init, entry, worker, outcome, late, faults>>
\* The client is gone: the handler's future is dropped where it waits, and what
\* it wrote stands.
HangUp ==
    /\ client /\ Fault
    /\ client' = FALSE
    /\ UNCHANGED <<row, server, init, entry, signalled, worker, outcome, late>>

-----------------------------------------------------------------------------
(* shutdown_and_drain. *)

Server(to) == server' = [server EXCEPT !.at = to]

BeginShutdown ==
    /\ server.at = "up"
    /\ Server("drain")
    /\ UNCHANGED <<row, tasks, late, faults>>

\* shutdown_owns_record
Owned ==
    \/ row.state = "queued" /\ entry
    \/ row.state \in {"running", "cancelling"} /\ Mine

DrainRequest ==
    /\ server.at = "drain" /\ Owned /\ CanCancel(row)
    /\ Write(CancelRequested(row, 0))
    /\ UNCHANGED <<server, tasks, late, faults>>
DrainSignal ==
    /\ server.at = "drain" /\ Owned /\ row.state = "cancelling"
    /\ entry /\ ~ signalled
    /\ signalled' = TRUE
    /\ UNCHANGED <<row, server, init, entry, worker, outcome, late, client, faults>>
PruneToken ==
    /\ server.at = "drain" /\ entry /\ ~ Owned
    /\ entry' = FALSE
    /\ UNCHANGED <<row, server, init, signalled, worker, outcome, late, client, faults>>
Drained ==
    /\ server.at = "drain"
    /\ NoPermit /\ ~ Owned /\ ~ entry /\ worker = "none"
    /\ Server("down") /\ client' = FALSE
    /\ UNCHANGED <<row, init, entry, signalled, worker, outcome, late, faults>>

\* The budget is spent, or the store cannot be read.
DrainGivesUp ==
    /\ server.at = "drain"
    /\ Server("final")
    /\ UNCHANGED <<row, tasks, late, faults>>
\* Mutant: initializers are not waited for.
CancelAllAtOnce ==
    /\ server.at = "final"
    /\ signalled' = (signalled \/ entry)
    /\ Server("interrupt")
    /\ UNCHANGED <<row, init, entry, worker, outcome, late, client, faults>>
\* wait_for_initializers, cancel_all_live_tokens
CancelAll ==
    /\ server.at = "final" /\ NoPermit
    /\ signalled' = (signalled \/ entry)
    /\ Server("interrupt")
    /\ UNCHANGED <<row, init, entry, worker, outcome, late, client, faults>>
InterruptOwned ==
    /\ server.at = "interrupt"
    /\ IF Owned THEN Write(Interrupted(row, "control_unavailable", 0)) /\ entry' = FALSE
                ELSE UNCHANGED <<row, entry>>
    /\ Server("abort")
    /\ UNCHANGED <<init, signalled, worker, outcome, late, client, faults>>
InterruptFails ==
    /\ server.at = "interrupt" /\ Fault
    /\ Server("abort")
    /\ UNCHANGED <<row, tasks, late>>
\* abort_live_dispatches; the store call of a settlement may run on.
AbortDispatch ==
    /\ server.at = "abort"
    /\ worker' = IF worker \in {"run", "settle"} THEN "ended" ELSE worker
    /\ late' \in IF worker = "settle" THEN {late, outcome} ELSE {late}
    /\ Server("wait")
    /\ UNCHANGED <<row, init, entry, signalled, outcome, client, faults>>
\* wait_for_dispatches_dropped; the lock is released.
Release ==
    /\ server.at = "wait" /\ worker = "none"
    /\ Server("down") /\ entry' = FALSE /\ client' = FALSE
    /\ UNCHANGED <<row, init, signalled, worker, outcome, late, faults>>

Shutdown ==
    \/ DrainRequest \/ DrainSignal \/ PruneToken \/ Drained \/ DrainGivesUp
    \/ CancelAll \/ InterruptOwned \/ InterruptFails \/ AbortDispatch \/ Release

-----------------------------------------------------------------------------
(* run_server: the next server, and the end of one without notice. *)

Start ==
    /\ server.at = "down" /\ server.id < MaxServers
    /\ server' = [id |-> server.id + 1, at |-> "recover"]
    /\ signalled' = FALSE /\ init' = "none"
    /\ UNCHANGED <<row, entry, worker, outcome, late, client, faults>>

\* recover_interrupted, before the first request is served.
Recover ==
    /\ server.at = "recover"
    /\ IF row.state \in Active
         THEN Write(Interrupted(row, "worker_lost", 0)) ELSE UNCHANGED row
    /\ Server("up")
    /\ UNCHANGED <<tasks, late, faults>>

Crash ==
    /\ Alive /\ Fault
    /\ Server("down")
    /\ init' = "none" /\ entry' = FALSE /\ signalled' = FALSE
    /\ worker' = "none" /\ outcome' = "none" /\ client' = FALSE /\ late' = "none"
    /\ UNCHANGED row

Next ==
    \/ Submit \/ Initialize \/ Dispatch \/ LateSettlement
    \/ CancelTask \/ Signal \/ HangUp
    \/ BeginShutdown \/ Shutdown \/ Start \/ Recover \/ Crash

Spec == Init /\ [][Next]_vars

\* Tasks of the runtime are polled; a dispatch need not return before its token
\* is cancelled; a client whose task stays cancelling asks again; a stopped
\* server is started again.
Fairness ==
    /\ WF_vars(Initialize) /\ WF_vars(SettleWithRetry \/ Unregister)
    /\ WF_vars(signalled /\ DispatchReturns)
    /\ WF_vars(row.state = "cancelling" /\ CancelTask) /\ SF_vars(Signal)
    /\ WF_vars(Shutdown) /\ WF_vars(Start) /\ WF_vars(Recover)
FairSpec == Spec /\ Fairness

-----------------------------------------------------------------------------
(* Properties. *)

\* The variables have the declared shape.
SupervisorTypeOK ==
    /\ row.state \in Active \cup Terminal \cup {"absent"}
    /\ row.controller \in {NoOne} \cup 1 .. MaxServers
    /\ server.id \in 1 .. MaxServers
    /\ server.at \in {"up", "drain", "final", "interrupt", "abort", "wait", "down", "recover"}
    /\ init \in {"none", "create", "created", "attach", "attached", "spawn", "cleanup", "left"}
    /\ worker \in {"none", "reserved", "run", "settle", "ended"}
    /\ outcome \in Settlement \cup {"none"} /\ late \in Settlement \cup {"none"}
    /\ entry \in BOOLEAN /\ signalled \in BOOLEAN /\ client \in BOOLEAN
    /\ faults \in 0 .. MaxFaults

\* Every row the server or its successors leave can be read again.
RowWellFormed == WellFormed(row)

\* The row moves only along its lifecycle, and what ended stays as it is.
RowMovesLegally ==
    [][row' # row => row.state \notin Terminal /\ LegalStep(row, row')]_row

\* Releasing the supervisor lock promises that every initializer and every
\* dispatch has stopped, also when the drain ran out of time.
LockCoversWork == server.at \in {"down", "recover"} => NoPermit /\ worker = "none"

\* While a server serves, its dispatch works for a row that is running under
\* this very server, never for one that ended.
WorkIsWanted ==
    server.at = "up" /\ worker = "run" =>
      row.state \in {"running", "cancelling"} /\ Mine

\* A row that says cancelling has its dispatch told, or the dispatch is over,
\* even if a client hung up between the write and the signal.
CancelReachesDispatch ==
    row.state = "cancelling" /\ worker = "run" ~> signalled \/ worker # "run"

\* A server told to stop does.
ShutdownEnds == server.at = "drain" ~> server.at = "down"

\* A submitted task ends, across shutdowns and crashes, as long as servers are
\* started and nobody leaves its dispatch running; one whose cleanup failed
\* waits for the next server.
TasksEnd ==
    row.state \in Active ~>
      \/ row.state \in Terminal
      \/ worker = "run" /\ ~ signalled
      \/ init = "left" \/ (server.id = MaxServers /\ ~ Alive)

\* A supervised row is readable, legal and worked on by its own server only,
\* and a released lock leaves nobody at work.
TasksSupervised ==
    /\ [](SupervisorTypeOK /\ RowWellFormed /\ LockCoversWork /\ WorkIsWanted)
    /\ RowMovesLegally

\* Cancellations arrive, shutdowns and tasks end.
TasksSettle == CancelReachesDispatch /\ ShutdownEnds /\ TasksEnd

-----------------------------------------------------------------------------
(* An inductive invariant. *)

\* The row and who may be named in it.
RowShape ==
    /\ row \in TaskRecord({NoOne} \cup 1 .. MaxServers)
    /\ WellFormed(row)
    /\ row.state = "absent" => row = NoTask

ServerShape ==
    /\ server \in [id : 1 .. MaxServers,
                   at : {"up", "drain", "final", "interrupt", "abort", "wait", "down", "recover"}]
    /\ init \in {"none", "create", "created", "attach", "attached", "spawn", "cleanup", "left"}
    /\ worker \in {"none", "reserved", "run", "settle", "ended"}
    /\ outcome \in Settlement \cup {"none"} /\ late \in Settlement \cup {"none"}
    /\ entry \in BOOLEAN /\ signalled \in BOOLEAN /\ client \in BOOLEAN
    /\ faults \in 0 .. MaxFaults

\* An initializer works alone, and hands its row to one dispatch; none is left
\* when the server is past waiting for them.
HandOver ==
    /\ init = "create" => row.state = "absent"
    /\ worker = "reserved" <=> init = "spawn"
    /\ worker # "none" => init \in {"none", "spawn"}
    /\ worker = "settle" => outcome # "none"
    /\ worker # "none" \/ init \in {"created", "attach", "attached", "spawn"} =>
         row.state # "absent"
    /\ server.at \in {"interrupt", "abort", "wait"} => NoPermit

\* The row in hand while a server serves; a settlement nobody awaits finds a
\* row that ended once the next server is up.
InHand ==
    /\ server.at = "up" /\ (init \in {"attached", "spawn"} \/ worker = "run") =>
         row.state \in {"running", "cancelling"} /\ Mine
    /\ late # "none" => row.state # "absent"
    /\ late # "none" /\ server.at \notin {"wait", "down", "recover"} => row.state \in Terminal

SupervisorInv == RowShape /\ ServerShape /\ HandOver /\ InHand /\ LockCoversWork
=============================================================================
