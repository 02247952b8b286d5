---------------------------- MODULE DetachedTask ----------------------------
(***************************************************************************)
(* One detached dispatch of the command line (vyane-cli, command.rs and    *)
(* task/): the submitting command, the worker process it leaves behind,    *)
(* the harness groups that worker starts one after another, the sidecar    *)
(* file which names the group at work, and commands that cancel the task   *)
(* or look at it.  The row of the task is that of TaskRow; every           *)
(* read-compare-and-set loop on it is one step.                            *)
(*                                                                         *)
(* Number 0 is the process group of the worker, number g that of its g-th  *)
(* harness (HarnessProcess); a number without members may be given away.   *)
(***************************************************************************)
EXTENDS TaskRow, FiniteSets

CONSTANTS
    Canceller,  \* task cancel commands
    MaxRuns,    \* bound of the model: harnesses one worker starts
    Scenarios   \* lengths of chains, with the commands that come for each

VARIABLES
    legs,       \* the legs of the chain that start a harness
    row,        \* the task's row
    parent,     \* the submitting command
    pipe,       \* the worker's standard input
    worker,     \* the worker, its token, and what its current harness is known as
    group,      \* the leader and the working members of each harness group
    sidecar,    \* the group harness-controller.json names, or 0
    taken,      \* numbers that belong to strangers
    amiss,      \* signals that should not have been sent
    can         \* the cancelling commands

vars == <<legs, row, parent, pipe, worker, group, sidecar, taken, amiss, can>>
processes == <<legs, worker, group, taken>>

Run == 1 .. MaxRuns
NotAlive == {"none", "gone"}
WorkerAlive == worker.at \notin NotAlive
Working(g) == group[g].work = "alive"

\* Standard input of the sentinel, pid and group of the current harness.
Current == worker.gen

Init ==
    /\ row = NoTask
    /\ parent = "create" /\ pipe = "open"
    /\ worker = [at |-> "none", token |-> FALSE, gen |-> 0, active |-> FALSE, outcome |-> "none"]
    /\ group = [g \in Run |-> [leader |-> "none", work |-> "none"]]
    /\ sidecar = 0 /\ taken = {} /\ amiss = {}
    /\ \E s \in Scenarios :
         /\ legs = s.legs
         /\ can = [c \in Canceller |-> [at |-> IF c \in s.crew THEN "start" ELSE "away",
                                       code |-> "none", via |-> "finish"]]

-----------------------------------------------------------------------------
(* What can be seen of a process, and signals. *)

\* verify_controller_identity: a zombie still has its birth fingerprint.
Identity(n) ==
    IF n = 0 THEN IF WorkerAlive THEN "match" ELSE IF 0 \in taken THEN "mismatch" ELSE "dead"
    ELSE IF group[n].leader \in {"alive", "zombie"} THEN "match"
    ELSE IF n \in taken THEN "mismatch" ELSE "dead"

\* process_group_alive
GroupAlive(n) ==
    \/ n \in taken
    \/ n = 0 /\ WorkerAlive
    \/ n # 0 /\ (group[n].leader \in {"alive", "zombie"} \/ Working(n))

\* A leader that ends is a zombie as long as its parent is there.
LeaderEnds(g, at) ==
    [g EXCEPT !.leader = IF g.leader # "alive" THEN g.leader
                         ELSE IF at \in NotAlive THEN "gone" ELSE "zombie"]
Killed(g, at) ==
    [LeaderEnds(g, at) EXCEPT !.work = IF g.work = "alive" THEN "dead" ELSE g.work]

\* The worker is gone: zombies of its children are collected.
WorkerGone ==
    /\ worker' = [worker EXCEPT !.at = "gone"]
    /\ group' = [g \in Run |-> IF group[g].leader = "zombie" THEN [group[g] EXCEPT !.leader = "gone"]
                               ELSE group[g]]

-----------------------------------------------------------------------------
(* spawn_detached_dispatch and spawn_detached. *)

Create ==
    /\ parent = "create"
    /\ row' = Created(0) /\ parent' = "spawn"
    /\ UNCHANGED <<pipe, processes, sidecar, amiss, can>>

Spawn ==
    /\ parent = "spawn"
    /\ \/ worker' = [worker EXCEPT !.at = "boot"] /\ parent' = "handoff"
       \/ parent' = "settle" /\ UNCHANGED worker
    /\ UNCHANGED <<legs, row, pipe, group, sidecar, taken, amiss, can>>

\* The envelope is written and the pipe closed, or the worker is killed.
Handoff ==
    /\ parent = "handoff"
    /\ \/ pipe' = "full" /\ parent' = "done" /\ UNCHANGED <<worker, group>>
       \/ pipe' = "broken" /\ parent' = "settle" /\ WorkerGone
    /\ UNCHANGED <<legs, row, sidecar, taken, amiss, can>>

\* settle_spawn_failure: the row as created, or attached by the worker that
\* was spawned and killed; there is no other.
SettleSpawnFailure ==
    /\ parent = "settle"
    /\ row' = IF row.state \in Terminal THEN row ELSE Settled(row, "failed", 0)
    /\ parent' = "settled"
    /\ UNCHANGED <<pipe, processes, sidecar, amiss, can>>

ParentDies ==
    /\ parent \in {"spawn", "handoff", "settle"}
    /\ parent' = "done"
    /\ pipe' = IF pipe = "open" THEN "broken" ELSE pipe
    /\ UNCHANGED <<row, processes, sidecar, amiss, can>>

-----------------------------------------------------------------------------
(* run_worker and worker_body. *)

WorkerGoto(at) == worker' = [worker EXCEPT !.at = at]
OnlyWorker == UNCHANGED <<legs, parent, pipe, taken, amiss, can>>

Arm ==
    /\ worker.at = "boot" /\ WorkerGoto("armed")
    /\ UNCHANGED <<row, group, sidecar>> /\ OnlyWorker

\* attach_detached_controller: a task that is not queued is none of its business.
Attach ==
    /\ worker.at = "armed"
    /\ \/ row.state = "queued" /\ row' = Attached(row, 1, 0, 0) /\ WorkerGoto("request")
       \/ row.state # "queued" /\ WorkerGoto("gone") /\ UNCHANGED row
    /\ UNCHANGED <<group, sidecar>> /\ OnlyWorker

\* read_worker_job and what is resolved, compared and admitted after it
ReadRequest ==
    /\ worker.at = "request"
    /\ \/ pipe = "full" /\ WorkerGoto("dispatch")
       \/ pipe # "open" /\ worker' = [worker EXCEPT !.at = "settle", !.outcome = "failed"]
    /\ UNCHANGED <<row, group, sidecar>> /\ OnlyWorker

\* dispatch_prepared: another leg with a harness, or the end.
StartHarness ==
    /\ worker.at = "dispatch" /\ ~worker.token /\ Current < legs
    /\ worker' = [worker EXCEPT !.at = "gate", !.gen = Current + 1, !.active = FALSE]
    /\ group' = [group EXCEPT ![Current + 1].leader = "alive"]
    /\ UNCHANGED <<row, sidecar>> /\ OnlyWorker
EndDispatch ==
    /\ worker.at = "dispatch"
    /\ \E s \in Settlement : worker' = [worker EXCEPT !.at = "settle", !.outcome = s]
    /\ UNCHANGED <<row, group, sidecar>> /\ OnlyWorker

\* Mutant: write_harness_controller replaces what the file says.
MayWriteAlways == TRUE

\* write_harness_controller refuses to replace another group that may be alive.
MayWrite == sidecar = 0

\* Started, of detached_harness_reporter.  A failure may come after the rename.
PublishStarted ==
    /\ worker.at = "gate"
    /\ \/ /\ MayWrite
          /\ sidecar' = Current
          /\ \/ worker' = [worker EXCEPT !.at = "release", !.active = TRUE] /\ UNCHANGED group
             \/ WorkerGoto("reap") /\ group' = [group EXCEPT ![Current] = Killed(group[Current], worker.at)]
       \/ /\ UNCHANGED sidecar
          /\ WorkerGoto("reap") /\ group' = [group EXCEPT ![Current] = Killed(group[Current], worker.at)]
    /\ UNCHANGED row /\ OnlyWorker

\* The gate of the harness is opened, or the token was cancelled before.
Release ==
    /\ worker.at = "release"
    /\ \/ /\ ~worker.token /\ WorkerGoto("run")
          /\ group' = [group EXCEPT ![Current].work = IF group[Current].leader = "alive" THEN "alive"
                                                      ELSE group[Current].work]
       \/ WorkerGoto("reap") /\ group' = [group EXCEPT ![Current] = Killed(group[Current], worker.at)]
    /\ UNCHANGED <<row, sidecar>> /\ OnlyWorker

\* The harness is cancelled or out of time, or its leader has ended.
StopHarness ==
    /\ worker.at = "run" /\ WorkerGoto("reap")
    /\ \/ group[Current].leader = "alive" /\ group' = [group EXCEPT ![Current] = Killed(group[Current], worker.at)]
       \/ group[Current].leader = "zombie" /\ UNCHANGED group
    /\ UNCHANGED <<row, sidecar>> /\ OnlyWorker

\* Stopped: the file is kept while members may be left.
RemovesOnStop(empty) == empty

\* The leader is reaped and Stopped reported; a removal may fail.
ReapHarness ==
    /\ worker.at = "reap" /\ group[Current].leader = "zombie"
    /\ group' = [group EXCEPT ![Current].leader = "gone"]
    /\ worker' = [worker EXCEPT !.at = "dispatch", !.active = FALSE]
    /\ sidecar' \in IF worker.active /\ sidecar = Current /\ RemovesOnStop(~Working(Current))
                    THEN {0, sidecar} ELSE {sidecar}
    /\ UNCHANGED row /\ OnlyWorker

\* settle_current_task; after an error the failure of the worker is tried.
SettleTask ==
    /\ worker.at = "settle"
    /\ \E s \in {worker.outcome, "failed", "unwritten"} :
         row' = IF s = "unwritten" \/ row.state \in Terminal THEN row ELSE Settled(row, s, 0)
    /\ WorkerGone
    /\ UNCHANGED sidecar /\ OnlyWorker

WorkerDies ==
    /\ WorkerAlive /\ WorkerGone
    /\ UNCHANGED <<row, sidecar>> /\ OnlyWorker

Worker ==
    \/ Arm \/ Attach \/ ReadRequest \/ StartHarness \/ EndDispatch \/ PublishStarted
    \/ Release \/ StopHarness \/ ReapHarness \/ SettleTask \/ WorkerDies

-----------------------------------------------------------------------------
(* The harness groups and the operating system. *)

world == <<legs, row, parent, pipe, worker, sidecar, amiss, can>>

\* The members end and the sentinel with them; or the sentinel is killed alone.
GroupEnds(g) ==
    /\ group[g].leader = "alive" /\ Working(g)
    /\ group' = [group EXCEPT ![g] = Killed(group[g], worker.at)]
    /\ UNCHANGED <<world, taken>>
SentinelKilled(g) ==
    /\ group[g].leader = "alive"
    /\ group' = [group EXCEPT ![g] = LeaderEnds(group[g], worker.at)]
    /\ UNCHANGED <<world, taken>>
MembersEnd(g) ==
    /\ group[g].leader # "alive" /\ Working(g)
    /\ group' = [group EXCEPT ![g].work = "dead"]
    /\ UNCHANGED <<world, taken>>

\* The gate of a sentinel whose worker died is closed.
GateCloses(g) ==
    /\ ~WorkerAlive /\ group[g] = [leader |-> "alive", work |-> "none"]
    /\ group' = [group EXCEPT ![g].leader = "gone"]
    /\ UNCHANGED <<world, taken>>

\* A number is given to somebody else.
Reused(n) ==
    /\ ~GroupAlive(n)
    /\ IF n = 0 THEN worker.at = "gone" ELSE group[n].leader = "gone"
    /\ taken' = taken \cup {n}
    /\ UNCHANGED <<world, group>>

-----------------------------------------------------------------------------
(* task cancel, and task status or list. *)

CanGoto(c, at) == can' = [can EXCEPT ![c].at = at]
CanGive(c, at, code) == can' = [can EXCEPT ![c].at = at, ![c].code = code]
Outside == UNCHANGED <<legs, parent, pipe, taken>>
NoSignal == UNCHANGED <<worker, group, amiss>>

\* signal_group(pgid) of the worker: SIGTERM finds the handler, SIGKILL ends it.
TermWorker ==
    IF worker.at = "boot" THEN amiss' = amiss \cup {"unarmed"} /\ WorkerGone
    ELSE IF WorkerAlive THEN worker' = [worker EXCEPT !.token = TRUE] /\ UNCHANGED <<group, amiss>>
    ELSE amiss' = (IF 0 \in taken THEN amiss \cup {"stranger"} ELSE amiss) /\ UNCHANGED <<worker, group>>
KillWorker ==
    IF WorkerAlive THEN WorkerGone /\ UNCHANGED amiss
    ELSE amiss' = (IF 0 \in taken THEN amiss \cup {"stranger"} ELSE amiss) /\ UNCHANGED <<worker, group>>

\* signal_nested_harness with SIGKILL, and whether it returned Ok.
SignalNested(ok) ==
    IF sidecar = 0 THEN ok /\ NoSignal /\ UNCHANGED sidecar
    ELSE \/ /\ Identity(sidecar) = "match" /\ ok
            /\ group' = [group EXCEPT ![sidecar] = Killed(group[sidecar], worker.at)]
            /\ UNCHANGED <<worker, amiss, sidecar>>
         \/ /\ Identity(sidecar) = "dead" /\ ~GroupAlive(sidecar) /\ ok
            /\ sidecar' = 0 /\ NoSignal
         \/ ~ok /\ NoSignal /\ UNCHANGED sidecar

\* nested_harness_group_pending is false; it removes the file of an empty group.
NothingNested ==
    /\ sidecar = 0 \/ (Identity(sidecar) = "dead" /\ ~GroupAlive(sidecar))
    /\ sidecar' = 0

\* interrupt_current_task, under the only epoch there is
Interrupt(code) ==
    row' = IF row.state \in Terminal THEN row ELSE Interrupted(row, code, 0)

\* run_durable_task_cancel, up to the first look at the worker
CancelReads(c) ==
    /\ can[c].at = "start" /\ row.state # "absent"
    /\ CanGoto(c, IF row.state \in Terminal THEN "clean"
                  ELSE IF row.state = "queued" THEN "dequeue"
                  ELSE IF row.state = "running" THEN "verify" ELSE "term")
    /\ NoSignal /\ Outside /\ UNCHANGED <<row, sidecar>>

\* request_cancel_current of a queued task; an attach may have won.
CancelQueued(c) ==
    /\ can[c].at = "dequeue"
    /\ row' = IF row.state = "queued" THEN CancelRequested(row, 0) ELSE row
    /\ CanGoto(c, IF row.state \in Terminal \cup {"queued"} THEN "clean"
                  ELSE IF row.state = "running" THEN "verify" ELSE "term")
    /\ NoSignal /\ Outside /\ UNCHANGED sidecar

\* The outcomes of a look at the worker's identity that end the ordinary way.
Lost(c) ==
    \/ Identity(0) = "dead" /\ CanGive(c, "orphan", "worker_lost")
    \/ Identity(0) = "mismatch" /\ CanGive(c, "orphan", "control_unavailable")
    \/ Identity(0) # "dead" /\ CanGoto(c, "refuse")

CancelRunning(c) ==
    /\ can[c].at = "verify"
    /\ \/ Identity(0) = "match" /\ CanGoto(c, "request")
       \/ Lost(c)
    /\ NoSignal /\ Outside /\ UNCHANGED <<row, sidecar>>

RequestCancel(c) ==
    /\ can[c].at = "request"
    /\ row' = IF row.state = "running" THEN CancelRequested(row, 0) ELSE row
    /\ CanGoto(c, IF row.state \in Terminal THEN "clean" ELSE "term")
    /\ NoSignal /\ Outside /\ UNCHANGED sidecar

\* The second look, and SIGTERM.
Terminate(c) ==
    /\ can[c].at = "term"
    /\ \/ Identity(0) = "match" /\ TermWorker /\ CanGoto(c, "nested")
       \/ Lost(c) /\ NoSignal
    /\ Outside /\ UNCHANGED <<row, sidecar>>

\* NESTED_HARNESS_CANCEL_GRACE, and the SIGKILL of the harness after it
AwaitNested(c) ==
    /\ can[c].at = "nested"
    /\ \/ NothingNested /\ CanGoto(c, "settlement") /\ NoSignal
       \/ \E ok \in BOOLEAN : SignalNested(ok) /\ CanGoto(c, IF ok THEN "settlement" ELSE "refuse")
    /\ Outside /\ UNCHANGED row

\* WORKER_SETTLEMENT_GRACE, and the SIGKILL of the worker after a third look
Escalate(c) ==
    /\ can[c].at = "settlement"
    /\ \/ ~GroupAlive(0) /\ CanGoto(c, "cleanup") /\ NoSignal /\ UNCHANGED row
       \/ Identity(0) = "match" /\ KillWorker /\ CanGoto(c, "cleanup") /\ UNCHANGED row
       \/ Identity(0) # "match" /\ CanGoto(c, "report") /\ Interrupt("control_unavailable") /\ NoSignal
       \/ Identity(0) # "dead" /\ CanGoto(c, "refuse") /\ NoSignal /\ UNCHANGED row
    /\ Outside /\ UNCHANGED sidecar

\* FORCED_PROCESS_CLEANUP_GRACE: both groups are gone, or the task is given up.
AwaitCleanup(c) ==
    /\ can[c].at = "cleanup"
    /\ \/ ~GroupAlive(0) /\ NothingNested /\ CanGoto(c, "final") /\ UNCHANGED row
       \/ CanGoto(c, "report") /\ Interrupt("control_unavailable") /\ UNCHANGED sidecar
    /\ NoSignal /\ Outside

AwaitFinal(c) ==
    /\ can[c].at = "final"
    /\ \/ row.state \in Terminal /\ CanGoto(c, "clean") /\ UNCHANGED row
       \/ CanGoto(c, "report") /\ Interrupt("control_unavailable")
    /\ NoSignal /\ Outside /\ UNCHANGED sidecar

\* force_cleanup_orphaned_nested_harness: the signal, the wait, the interruption
CleanOrphan(c) ==
    /\ can[c].at = "orphan"
    /\ \E ok \in BOOLEAN : SignalNested(ok) /\ CanGoto(c, IF ok THEN "orphaned" ELSE "refuse")
    /\ Outside /\ UNCHANGED row
InterruptOrphan(c) ==
    /\ can[c].at = "orphaned"
    /\ \/ NothingNested /\ Interrupt(can[c].code) /\ CanGoto(c, "report")
       \/ CanGoto(c, "refuse") /\ UNCHANGED <<row, sidecar>>
    /\ NoSignal /\ Outside

\* refuse_unverifiable_cancel
Refuse(c) ==
    /\ can[c].at = "refuse"
    /\ CanGoto(c, IF row.state \in Terminal THEN "clean" ELSE "failed")
    /\ NoSignal /\ Outside /\ UNCHANGED <<row, sidecar>>

\* report_cancel_interruption: cleaned up like any end, success unless interrupted
Report(c) ==
    /\ can[c].at = "report"
    /\ can' = [can EXCEPT ![c].at = "clean", ![c].via = "report"]
    /\ NoSignal /\ Outside /\ UNCHANGED <<row, sidecar>>

\* cleanup_terminal_detached_processes: worker, harness, and the wait for both
CleanWorker(c) ==
    /\ can[c].at = "clean"
    /\ \/ row.controller = NoOne /\ CanGoto(c, "cleanNested") /\ NoSignal
       \/ row.controller # NoOne /\ Identity(0) = "match" /\ KillWorker /\ CanGoto(c, "cleanNested")
       \/ row.controller # NoOne /\ Identity(0) # "match" /\ CanGoto(c, "cleanNested") /\ NoSignal
       \/ row.controller # NoOne /\ Identity(0) # "dead" /\ CanGoto(c, "failed") /\ NoSignal
    /\ Outside /\ UNCHANGED <<row, sidecar>>
CleanNested(c) ==
    /\ can[c].at = "cleanNested"
    /\ \E ok \in BOOLEAN : SignalNested(ok) /\ CanGoto(c, IF ok THEN "cleanWait" ELSE "failed")
    /\ Outside /\ UNCHANGED row
CleanWait(c) ==
    /\ can[c].at = "cleanWait"
    /\ \/ /\ NothingNested
          /\ CanGoto(c, IF can[c].via = "report" /\ row.state = "interrupted" THEN "failed" ELSE "ok")
       \/ CanGoto(c, "failed") /\ UNCHANGED sidecar
    /\ NoSignal /\ Outside /\ UNCHANGED row

CancelDies(c) ==
    /\ can[c].at \notin {"away", "start", "ok", "failed"}
    /\ CanGoto(c, "failed")
    /\ NoSignal /\ Outside /\ UNCHANGED <<row, sidecar>>

Cancel(c) ==
    \/ CancelReads(c) \/ CancelQueued(c) \/ CancelRunning(c) \/ RequestCancel(c) \/ Terminate(c)
    \/ AwaitNested(c) \/ Escalate(c) \/ AwaitCleanup(c) \/ AwaitFinal(c) \/ CleanOrphan(c)
    \/ InterruptOrphan(c) \/ Refuse(c) \/ Report(c) \/ CleanWorker(c) \/ CleanNested(c)
    \/ CleanWait(c) \/ CancelDies(c)

\* reconcile_detached_process, whenever the task is listed or looked at
Reconcile ==
    /\ row.state \in {"running", "cancelling"} /\ Identity(0) # "match"
    /\ NothingNested /\ Interrupt("worker_lost")
    /\ UNCHANGED <<parent, pipe, processes, amiss, can>>

-----------------------------------------------------------------------------
Next ==
    \/ Create \/ Spawn \/ Handoff \/ SettleSpawnFailure \/ ParentDies
    \/ Worker
    \/ \E g \in Run : GroupEnds(g) \/ SentinelKilled(g) \/ MembersEnd(g) \/ GateCloses(g)
    \/ \E n \in {0} \cup Run : Reused(n)
    \/ \E c \in Canceller : Cancel(c)
    \/ Reconcile

Spec == Init /\ [][Next]_vars
-----------------------------------------------------------------------------
(* Properties. *)

\* Rows and processes are of the declared shape.
DetachedTypeOK ==
    /\ WellFormed(row)
    /\ sidecar \in 0 .. MaxRuns /\ taken \subseteq 0 .. MaxRuns
    /\ \A g \in Run : g > worker.gen => group[g].leader = "none"

\* Whatever works for the task is named by the sidecar, however the worker or
\* the sentinel ended, so that a later command can find it.
WorkIsOnRecord == \A g \in Run : Working(g) => sidecar = g

\* A cancellation that reported success left nothing at work, and nothing
\* begins later; nor does a task that was cancelled before it was attached.
CancelledIsStopped ==
    /\ \A c \in Canceller : can[c].at = "ok" =>
         row.state \in Terminal /\ \A g \in Run : ~Working(g)
    /\ row.controller = NoOne => worker.gen = 0

\* A worker declared lost is dead, and so is its harness.
LostIsDead ==
    row.state = "interrupted" /\ row.failure = "worker_lost" =>
      ~WorkerAlive /\ \A g \in Run : ~Working(g)

\* A spawn failure that was settled left no worker and an ended row.
FailedSpawnIsSettled == parent = "settled" => row.state \in Terminal /\ ~WorkerAlive

\* No stranger is signalled, and SIGTERM never finds a worker without handler.
SignalsAreExact == amiss = {}

\* The parts of detached tasks agree.
DetachedSound ==
    /\ DetachedTypeOK /\ WorkIsOnRecord /\ CancelledIsStopped /\ LostIsDead
    /\ FailedSpawnIsSettled /\ SignalsAreExact

-----------------------------------------------------------------------------
(* An inductive invariant. *)

\* A chain is no longer than the numbers there are.
ScenariosOK ==
    MaxRuns \in Nat /\ Scenarios \subseteq [legs : 0 .. MaxRuns, crew : SUBSET Canceller]

Attended == {"gate", "release", "run", "reap"}
Unattached == {"none", "boot", "armed"}
WorkerState ==
    [at : Unattached \cup Attended \cup {"request", "dispatch", "settle", "gone"},
     token : BOOLEAN, gen : 0 .. MaxRuns, active : BOOLEAN, outcome : Settlement \cup {"none"}]
HarnessGroup == [leader : {"none", "alive", "zombie", "gone"}, work : {"none", "alive", "dead"}]
Engaged == {"verify", "request", "term", "nested", "settlement", "cleanup", "final", "orphan", "orphaned"}
Cleaning == {"cleanNested", "cleanWait", "ok"}
Command ==
    [at : Engaged \cup Cleaning \cup {"away", "start", "dequeue", "refuse", "report", "clean", "failed"},
     code : {"none", "worker_lost", "control_unavailable"}, via : {"finish", "report"}]

DetachedShape ==
    /\ row \in TaskRecord({NoOne, 1}) /\ WellFormed(row)
    /\ row.state = "absent" => row = NoTask
    /\ parent \in {"create", "spawn", "handoff", "settle", "settled", "done"}
    /\ pipe \in {"open", "full", "broken"}
    /\ worker \in WorkerState /\ group \in [Run -> HarnessGroup]
    /\ legs \in 0 .. MaxRuns /\ sidecar \in 0 .. MaxRuns /\ taken \subseteq 0 .. MaxRuns
    /\ can \in [Canceller -> Command]

\* There is a row before there is a worker; a spawn that failed left none.
SpawnSound ==
    /\ parent = "create" <=> row.state = "absent"
    /\ worker.at # "none" => parent \notin {"create", "spawn"}
    /\ parent \in {"settle", "settled"} => ~WorkerAlive
    /\ parent = "settled" => row.state \in Terminal

\* A worker works for the row once it is attached, and only then.
AttachSound ==
    /\ row.controller # NoOne => worker.at \notin Unattached
    /\ WorkerAlive /\ worker.at \notin Unattached => row.controller # NoOne
    /\ worker.gen > 0 \/ row.failure = "worker_lost" => row.controller # NoOne
    /\ worker.at \in Unattached \cup {"request"} => worker.gen = 0
    /\ worker.at \in Attended => worker.gen > 0
    /\ worker.at = "settle" => worker.outcome # "none"

\* Only the harness the worker attends to can be a zombie; those before it are
\* reaped, and work begins under a sidecar that names it.
HarnessSound ==
    /\ \A g \in Run :
         /\ g > worker.gen => group[g].leader = "none" /\ group[g].work = "none"
         /\ g < worker.gen => group[g].leader = "gone"
         /\ group[g].leader = "zombie" => worker.at \in Attended
         /\ g = worker.gen /\ worker.at \in Attended => group[g].leader \in {"alive", "zombie"}
         /\ g = worker.gen /\ worker.at \in {"dispatch", "settle"} => group[g].leader = "gone"
    /\ worker.at \in {"release", "run"} => sidecar = worker.gen
    /\ WorkIsOnRecord

\* What a command knows where it is.
CommandSound(c) ==
    /\ can[c].at \notin {"away", "start"} => row.state # "absent"
    /\ can[c].at \in Engaged => row.controller # NoOne
    /\ can[c].at \in {"orphan", "orphaned"} => ~WorkerAlive /\ can[c].code # "none"
    /\ can[c].at \in Cleaning \cup {"clean", "report"} => row.state \in Terminal
    /\ can[c].at \in Cleaning => row.controller = NoOne \/ ~WorkerAlive
    /\ can[c].at = "ok" => \A g \in Run : ~Working(g)
CommandsSound == \A c \in Canceller : CommandSound(c)

DetachedInv ==
    /\ DetachedShape /\ SpawnSound /\ AttachSound /\ HarnessSound /\ CommandsSound
    /\ LostIsDead /\ SignalsAreExact
=============================================================================
