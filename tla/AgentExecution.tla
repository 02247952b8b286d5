--------------------------- MODULE AgentExecution ---------------------------
(***************************************************************************)
(* One daemon drives AgentRuns of the in-process backend: the execution    *)
(* driver (agent_execution.rs), the backend with its registry of live      *)
(* controllers (inprocess_agent.rs), the recovery driver                   *)
(* (agent_recovery.rs), the cancellation of the HTTP host                  *)
(* (daemon_agent.rs) and the completion publisher with the message sink    *)
(* (agent_completion_publisher.rs, agent_completion.rs), composed with the *)
(* rows of the AgentRun store they share.                                  *)
(*                                                                         *)
(* A step is one store transaction, one section under the registry's lock, *)
(* or the end of a future.  Blocking tasks outlive the future that awaits  *)
(* them.  Time is abstract: a lease, a deadline and a control ticket run   *)
(* out at any moment the code does not exclude.                            *)
(***************************************************************************)
EXTENDS Naturals

CONSTANTS
    Run,             \* runs, each with the controller its one claim draws
    ClockMayJump,    \* may the store's clock overtake the local window?
    MaxCrashes,      \* bound of the model: deaths of the daemon
    None             \* no worker, of the contract

ASSUME ExecutionAssumption ==
    MaxCrashes \in Nat /\ ClockMayJump \in BOOLEAN /\ None \notin Run

VARIABLES
    state,       \* state of the run's row; "given_up" is an interrupted run
                 \* with failure code controller_unavailable
    due,         \* has its lease or its deadline passed?
    ticket,      \* active control operation: kind, and is its lease live?
    attached,    \* runs whose row names a controller
    completion,  \* status of its completion record
    sink,        \* the message under its publication key
    exec,        \* how far the execution future has got
    task,        \* the blocking task in flight for it
    cancelled,   \* its controller's cancellation token
    retired,     \* tombstones of the controller registry
    watch,       \* what recovery and canceller are doing with a ticket
    outbox,      \* the publisher's progress on the run's completion event
    publisher,   \* what the publisher is doing with that event
    crashes

rowVars == <<state, due, ticket, attached, completion>>
execVars == <<exec, task, cancelled>>
pubVars == <<outbox, publisher>>
vars == <<rowVars, sink, execVars, retired, watch, pubVars, crashes>>

Leased   == {"starting", "running"}
Seated   == Leased \cup {"cancelling"}
Terminal == {"succeeded", "failed", "timed_out", "cancelled", "interrupted",
             "given_up"}
Watcher  == {"recovery", "canceller"}

NoTicket == [kind |-> "none", live |-> FALSE]
Idle     == [phase |-> "idle", kind |-> "none", mine |-> FALSE]

Init ==
    /\ state = [r \in Run |-> "absent"]
    /\ due = [r \in Run |-> "no"]
    /\ ticket = [r \in Run |-> NoTicket]
    /\ attached = {}
    /\ completion = [r \in Run |-> "none"]
    /\ sink = [r \in Run |-> "absent"]
    /\ exec = [r \in Run |-> "none"]
    /\ task = [r \in Run |-> "none"]
    /\ cancelled = {} /\ retired = {}
    /\ watch = [w \in Watcher |-> [r \in Run |-> Idle]]
    /\ outbox = [r \in Run |-> "due"]
    /\ publisher = [r \in Run |-> "idle"]
    /\ crashes = 0

-----------------------------------------------------------------------------
(* The rows. *)

\* A receipt is honoured while lease and deadline are live.
Authenticated(r, states) == state[r] \in states /\ due[r] = "no"

ExecutionPermitValid(r) ==
    Authenticated(r, {"running"}) /\ completion[r] = "none"
CompletionPermitValid(r) ==
    Authenticated(r, {"running"}) /\ completion[r] = "prepared"

\* A run that ends takes an uncommitted completion with it.
Finish(r, how) ==
    /\ state' = [state EXCEPT ![r] = how]
    /\ ticket' = [ticket EXCEPT ![r] = NoTicket]
    /\ completion' = [completion EXCEPT ![r] =
         IF @ # "prepared" THEN @
         ELSE IF how = "succeeded" THEN "committed" ELSE "abandoned"]
    /\ attached' = attached \ {r}
    /\ UNCHANGED due

\* Taking control voids every receipt, permit and earlier ticket of the run.
TakeControl(w, r, kind, phase) ==
    /\ state' = [state EXCEPT ![r] = "cancelling"]
    /\ ticket' = [ticket EXCEPT ![r] = [kind |-> kind, live |-> TRUE]]
    /\ watch' = [v \in Watcher |-> [watch[v] EXCEPT ![r] =
         IF v = w THEN [phase |-> phase, kind |-> kind, mine |-> TRUE]
                  ELSE [@ EXCEPT !.mine = FALSE]]]
    /\ UNCHANGED <<due, attached, completion>>

TicketMatches(w, r) ==
    watch[w][r].mine /\ state[r] = "cancelling" /\ ticket[r].live

\* Time: leases, deadlines and tickets run out.
LeaseExpires(r) ==
    /\ state[r] \in Leased /\ due[r] = "no"
    /\ due' = [due EXCEPT ![r] = "lease"]
    /\ UNCHANGED <<state, ticket, attached, completion, sink, execVars, retired, watch,
                   pubVars, crashes>>

DeadlinePasses(r) ==
    /\ state[r] \in Leased /\ due[r] # "deadline"
    /\ due' = [due EXCEPT ![r] = "deadline"]
    /\ UNCHANGED <<state, ticket, attached, completion, sink, execVars, retired, watch,
                   pubVars, crashes>>

Observing(r) ==
    \E w \in Watcher :
        watch[w][r].mine /\ watch[w][r].phase \in {"look", "wait", "inspect"}

\* An observation of controller or sink ends before the ticket it is made for:
\* the local window opens before the claim and is shorter than its lease.
TicketExpires(r) ==
    /\ ticket[r].live
    /\ ~ Observing(r) \/ ClockMayJump
    /\ ticket' = [ticket EXCEPT ![r].live = FALSE]
    /\ UNCHANGED <<state, due, attached, completion, sink, execVars, retired, watch,
                   pubVars, crashes>>

-----------------------------------------------------------------------------
(* The execution driver and the in-process backend. *)

\* Registered futures and tasks in flight hold the controller's guard.
Polled     == {"polled", "authorized"}
Registered == {"registered", "operating", "effect", "preparing", "prepared",
               "staging", "staged"}
Driven     == {"claimed", "started"} \cup Polled \cup Registered
Settling   == {"settle_failed", "settle_timed_out", "commit"}

\* The registry's active entry lives as long as the guard.
LiveController(r) == exec[r] \in Registered \/ task[r] # "none"

Step(r, phase) == exec' = [exec EXCEPT ![r] = phase]
Begin(r, phase, t) == Step(r, phase) /\ task' = [task EXCEPT ![r] = t]
\* The result of a task reaches its future if that is still polled.
Deliver(r, from, phase) ==
    /\ task' = [task EXCEPT ![r] = "none"]
    /\ exec' = [exec EXCEPT ![r] = IF @ = from THEN phase ELSE @]

\* A client enqueues the run.
EnqueueRun(r) ==
    /\ state[r] = "absent"
    /\ state' = [state EXCEPT ![r] = "queued"]
    /\ UNCHANGED <<due, ticket, attached, completion, sink, execVars, retired,
                   watch, pubVars, crashes>>

ClaimRun(r) ==
    /\ state[r] = "queued" /\ exec[r] = "none"
    /\ state' = [state EXCEPT ![r] = "starting"]
    /\ Step(r, "claimed")
    /\ UNCHANGED <<due, ticket, attached, completion, sink, task, cancelled, retired,
                   watch, pubVars, crashes>>

StartRun(r) ==
    /\ exec[r] = "claimed" /\ Authenticated(r, {"starting"})
    /\ state' = [state EXCEPT ![r] = "running"]
    /\ attached' = attached \cup {r}
    /\ Step(r, "started")
    /\ UNCHANGED <<due, ticket, completion, sink, task, cancelled, retired,
                   watch, pubVars, crashes>>

\* A permit is issued and the lease renewed before the executor's first poll.
PollExecutor(r) ==
    /\ exec[r] = "started" /\ ExecutionPermitValid(r)
    /\ Step(r, "polled")
    /\ UNCHANGED <<rowVars, sink, task, cancelled, retired, watch, pubVars,
                   crashes>>

Authorize(r) ==
    /\ exec[r] = "polled" /\ ExecutionPermitValid(r)
    /\ Step(r, "authorized")
    /\ UNCHANGED <<rowVars, sink, task, cancelled, retired, watch, pubVars,
                   crashes>>

\* A tombstone consumes the one late registration it was made for.
RegisterExact(r) ==
    /\ exec[r] = "authorized"
    /\ Step(r, IF r \in retired THEN "ended" ELSE "registered")
    /\ retired' = retired \ {r}
    /\ UNCHANGED <<rowVars, sink, task, cancelled, watch, pubVars, crashes>>

\* The permit is validated once more while registered.
Reauthorize(r) ==
    /\ exec[r] = "registered"
    /\ Step(r, IF ExecutionPermitValid(r) THEN "operating" ELSE "ended")
    /\ UNCHANGED <<rowVars, sink, task, cancelled, retired, watch, pubVars,
                   crashes>>

\* One model send or tool operation, right after its own validation.
AuthorizeEffect(r) ==
    /\ exec[r] = "operating" /\ ExecutionPermitValid(r)
    /\ Step(r, "effect")
    /\ UNCHANGED <<rowVars, sink, task, cancelled, retired, watch, pubVars,
                   crashes>>
PerformEffect(r) ==
    /\ exec[r] = "effect"
    /\ Step(r, "operating")
    /\ UNCHANGED <<rowVars, sink, task, cancelled, retired, watch, pubVars,
                   crashes>>

\* Completion: prepare it durably, then stage the message, each on the
\* blocking pool.
CallPrepare(r) ==
    /\ exec[r] = "operating" /\ task[r] = "none"
    /\ Begin(r, "preparing", "prepare")
    /\ UNCHANGED <<rowVars, sink, cancelled, retired, watch, pubVars, crashes>>
PrepareCompletion(r) ==
    /\ task[r] = "prepare"
    /\ \/ /\ ExecutionPermitValid(r)
          /\ completion' = [completion EXCEPT ![r] = "prepared"]
          /\ Deliver(r, "preparing", "prepared")
       \/ /\ ~ ExecutionPermitValid(r)
          /\ Deliver(r, "preparing", "operating")
          /\ UNCHANGED completion
    /\ UNCHANGED <<state, due, ticket, attached, sink, cancelled, retired, watch,
                   pubVars, crashes>>

CallStage(r) ==
    /\ exec[r] = "prepared" /\ task[r] = "none"
    /\ Begin(r, "staging", "check")
    /\ UNCHANGED <<rowVars, sink, cancelled, retired, watch, pubVars, crashes>>
ValidateCompletionNow(r) ==
    /\ task[r] = "check"
    /\ IF CompletionPermitValid(r)
         THEN task' = [task EXCEPT ![r] = "stage"] /\ exec' = exec
         ELSE Deliver(r, "staging", "operating")
    /\ UNCHANGED <<rowVars, sink, cancelled, retired, watch, pubVars, crashes>>
StageMessage(r) ==
    /\ task[r] = "stage"
    /\ sink' = [sink EXCEPT ![r] = IF @ = "absent" THEN "staged" ELSE @]
    /\ Deliver(r, "staging",
               IF sink[r] = "discarded" THEN "operating" ELSE "staged")
    /\ UNCHANGED <<rowVars, cancelled, retired, watch, pubVars, crashes>>

\* The operation returns: a staged completion, a failure, or Unknown.
Return(r) ==
    /\ \/ exec[r] = "staged" /\ Step(r, "commit")
       \/ /\ exec[r] \in {"operating", "prepared"}
          /\ \E how \in {"settle_failed", "settle_timed_out", "ended"} :
               Step(r, how)
    /\ UNCHANGED <<rowVars, sink, task, cancelled, retired, watch, pubVars,
                   crashes>>

\* The future is dropped: cancelled token, local deadline, lost heartbeat,
\* panic, shutdown, or a store call that failed.
DropFuture(r) ==
    /\ exec[r] \in Driven
    /\ Step(r, "ended")
    /\ UNCHANGED <<rowVars, sink, task, cancelled, retired, watch, pubVars,
                   crashes>>

SettleRun(r) ==
    /\ exec[r] \in Settling \ {"commit"}
    /\ Step(r, "ended")
    /\ IF Authenticated(r, Leased)
         THEN Finish(r, IF exec[r] = "settle_failed" THEN "failed"
                                                     ELSE "timed_out")
         ELSE UNCHANGED rowVars
    /\ UNCHANGED <<sink, task, cancelled, retired, watch, pubVars, crashes>>

\* Mutant: the controlling operation is not looked for.
CommitUnfenced(r) ==
    /\ exec[r] = "commit"
    /\ Step(r, "ended")
    /\ IF state[r] \in Seated /\ completion[r] = "prepared"
         THEN Finish(r, "succeeded") ELSE UNCHANGED rowVars
    /\ UNCHANGED <<sink, task, cancelled, retired, watch, pubVars, crashes>>
CommitStagedCompletion(r) ==
    /\ exec[r] = "commit"
    /\ Step(r, "ended")
    /\ IF CompletionPermitValid(r)
         THEN Finish(r, "succeeded") ELSE UNCHANGED rowVars
    /\ UNCHANGED <<sink, task, cancelled, retired, watch, pubVars, crashes>>

-----------------------------------------------------------------------------
(* Watchers: the recovery driver and the canceller hold a ticket, ask the  *)
(* backend whether the exact controller is gone, and settle.               *)

Watching(w, r, phase) == watch[w][r].phase = phase
Move(w, r, phase) == watch' = [watch EXCEPT ![w][r].phase = phase]
Rest(w, r) == watch' = [watch EXCEPT ![w][r] = Idle]

\* A run without a controller needs no observation.
FirstPhase(r) == IF r \in attached THEN "look" ELSE "settle"

RecoveryReason(r) ==
    IF due[r] = "deadline" /\ state[r] \in Leased THEN "execution_timed_out"
    ELSE IF due[r] = "lease" /\ state[r] \in Leased THEN "lease_expired"
    ELSE IF ticket[r].kind = "cancel" THEN "cancellation_abandoned"
    ELSE ticket[r].kind

ClaimRecovery(r) ==
    /\ Watching("recovery", r, "idle")
    /\ \/ state[r] \in Leased /\ due[r] # "no"
       \/ state[r] = "cancelling" /\ ~ ticket[r].live
    /\ TakeControl("recovery", r, RecoveryReason(r), FirstPhase(r))
    /\ UNCHANGED <<sink, execVars, retired, pubVars, crashes>>

\* DELETE of a queued run drops it; a seated one is taken under control.
RequestCancel(r) ==
    /\ Watching("canceller", r, "idle")
    /\ \/ /\ state[r] = "queued"
          /\ Finish(r, "cancelled") /\ UNCHANGED watch
       \/ /\ state[r] \in Leased
          /\ TakeControl("canceller", r, "cancel", FirstPhase(r))
    /\ UNCHANGED <<sink, execVars, retired, pubVars, crashes>>

\* The observation of an absent controller and its tombstone are one step.
RetireAbsent(w, r) ==
    retired' = retired \cup {r} /\ Move(w, r, "settle")

ObserveExact(w, r) ==
    /\ Watching(w, r, "look")
    /\ \/ ~ LiveController(r) /\ RetireAbsent(w, r) /\ UNCHANGED cancelled
       \/ /\ LiveController(r)
          /\ cancelled' = cancelled \cup {r}
          /\ Move(w, r, "wait") /\ UNCHANGED retired
    /\ UNCHANGED <<rowVars, sink, exec, task, pubVars, crashes>>

ObserveExit(w, r) ==
    /\ Watching(w, r, "wait") /\ ~ LiveController(r)
    /\ RetireAbsent(w, r)
    /\ UNCHANGED <<rowVars, sink, execVars, pubVars, crashes>>

\* No exit in time, no answer, or no room for another tombstone: recovery
\* leaves the ticket, the canceller settles the run as interrupted with its
\* controller unavailable.
ObserveFails(w, r) ==
    /\ watch[w][r].phase \in {"look", "wait"}
    /\ IF w = "canceller" THEN Move(w, r, "give_up") ELSE Rest(w, r)
    /\ UNCHANGED <<rowVars, sink, execVars, retired, pubVars, crashes>>

RecoveryOutcome(kind) ==
    CASE kind = "lease_expired"       -> "interrupted"
      [] kind = "execution_timed_out" -> "timed_out"
      [] OTHER                        -> "cancelled"

Settled(w, r, how) ==
    IF TicketMatches(w, r)
      THEN Finish(r, how) /\ Move(w, r, "confirm")
      ELSE Rest(w, r) /\ UNCHANGED rowVars

\* After a lost lease a prepared completion is taken to its sink first.
SettleGone(w, r) ==
    /\ Watching(w, r, "settle")
    /\ IF watch[w][r].kind = "lease_expired" /\ completion[r] = "prepared"
         THEN Move(w, r, "inspect") /\ UNCHANGED rowVars
         ELSE Settled(w, r, RecoveryOutcome(watch[w][r].kind))
    /\ UNCHANGED <<sink, execVars, retired, pubVars, crashes>>

GiveUp(r) ==
    /\ Watching("canceller", r, "give_up")
    /\ IF TicketMatches("canceller", r) THEN Finish(r, "given_up")
                                        ELSE UNCHANGED rowVars
    /\ Rest("canceller", r)
    /\ UNCHANGED <<sink, execVars, retired, pubVars, crashes>>

\* Exact, absent, conflicting, or unavailable (window closed, sink down, timeout).
InspectSink(w, r) ==
    /\ Watching(w, r, "inspect")
    /\ \/ sink[r] \in {"staged", "published"} /\ Move(w, r, "recover")
       \/ sink[r] = "absent" /\ Move(w, r, "abandon")
       \/ Rest(w, r)
    /\ UNCHANGED <<rowVars, sink, execVars, retired, pubVars, crashes>>

CommitRecovered(w, r) ==
    /\ \/ Watching(w, r, "recover") /\ Settled(w, r, "succeeded")
       \/ Watching(w, r, "abandon") /\ Settled(w, r, "interrupted")
    /\ UNCHANGED <<sink, execVars, retired, pubVars, crashes>>

\* Durable truth is written, so the tombstone can go.
ConfirmedGone(w, r) ==
    /\ Watching(w, r, "confirm")
    /\ retired' = retired \ {r}
    /\ Rest(w, r)
    /\ UNCHANGED <<rowVars, sink, execVars, pubVars, crashes>>

-----------------------------------------------------------------------------
(* The completion publisher and the message sink. *)

\* Mutant: an undecided completion is projected too.
AnyCompletion(r) == completion[r] # "none"
Decided(r) == completion[r] \in {"committed", "abandoned"}

ProjectEvent(r) ==
    /\ publisher[r] = "idle" /\ Decided(r) /\ outbox[r] = "due"
    /\ publisher' = [publisher EXCEPT ![r] =
         IF completion[r] = "committed" THEN "publish" ELSE "discard"]
    /\ UNCHANGED <<rowVars, sink, execVars, retired, watch, outbox, crashes>>

\* publish_staged and discard_staged, both idempotent.
SinkAfter(r) ==
    IF sink[r] # "staged" THEN sink[r]
    ELSE IF publisher[r] = "publish" THEN "published" ELSE "discarded"

\* What the publisher makes of the sink's answer.
Verdict(r) ==
    CASE publisher[r] = "publish" /\ SinkAfter(r) = "published" -> "projected"
      [] publisher[r] = "discard" /\ SinkAfter(r) = "discarded" -> "projected"
      [] publisher[r] = "discard" /\ SinkAfter(r) = "absent"    -> "projected"
      [] publisher[r] = "publish" /\ SinkAfter(r) = "absent"    -> "deferred"
      [] OTHER                                                  -> "quarantined"

ApplyToSink(r) ==
    /\ publisher[r] \in {"publish", "discard"}
    /\ sink' = [sink EXCEPT ![r] = SinkAfter(r)]
    /\ publisher' = [publisher EXCEPT ![r] = Verdict(r)]
    /\ UNCHANGED <<rowVars, execVars, retired, watch, outbox, crashes>>

\* The sink is down, or its answer comes too late for the timeout.
SinkTimesOut(r) ==
    /\ publisher[r] \in {"publish", "discard"}
    /\ \E s \in {sink[r], SinkAfter(r)} : sink' = [sink EXCEPT ![r] = s]
    /\ publisher' = [publisher EXCEPT ![r] = "deferred"]
    /\ UNCHANGED <<rowVars, execVars, retired, watch, outbox, crashes>>

\* mark_projected, defer_projection, quarantine_projection; or the store
\* fails and the event stays due.
RecordProjection(r) ==
    /\ publisher[r] \in {"projected", "deferred", "quarantined"}
    /\ outbox' = [outbox EXCEPT ![r] = publisher[r]]
    /\ publisher' = [publisher EXCEPT ![r] = "idle"]
    /\ UNCHANGED <<rowVars, sink, execVars, retired, watch, crashes>>
ProjectionStoreFails(r) ==
    /\ publisher[r] \in {"projected", "deferred", "quarantined"}
    /\ publisher' = [publisher EXCEPT ![r] = "idle"]
    /\ UNCHANGED <<rowVars, sink, execVars, retired, watch, outbox, crashes>>

\* Mutant: a deferred event is not retried.
DeferForEver(r) == FALSE /\ UNCHANGED vars
DeferralElapses(r) ==
    /\ outbox[r] = "deferred"
    /\ outbox' = [outbox EXCEPT ![r] = "due"]
    /\ UNCHANGED <<rowVars, sink, execVars, retired, watch, publisher, crashes>>

-----------------------------------------------------------------------------
(* The daemon dies and is restarted: memory is lost, rows are not. *)

Crash ==
    /\ crashes < MaxCrashes
    /\ crashes' = crashes + 1
    /\ exec' = [r \in Run |-> IF exec[r] = "none" THEN "none" ELSE "ended"]
    /\ task' = [r \in Run |-> "none"]
    /\ cancelled' = {} /\ retired' = {}
    /\ watch' = [w \in Watcher |-> [r \in Run |-> Idle]]
    /\ publisher' = [r \in Run |-> "idle"]
    /\ UNCHANGED <<rowVars, sink, outbox>>

ExecutionLoop(r) ==
    \/ ClaimRun(r) \/ StartRun(r) \/ PollExecutor(r) \/ Authorize(r)
    \/ RegisterExact(r) \/ Reauthorize(r) \/ AuthorizeEffect(r)
    \/ PerformEffect(r) \/ CallPrepare(r) \/ CallStage(r) \/ Return(r)
    \/ DropFuture(r) \/ SettleRun(r) \/ CommitStagedCompletion(r)
BlockingPool(r) ==
    \/ PrepareCompletion(r) \/ ValidateCompletionNow(r) \/ StageMessage(r)
WatchLoop(w, r) ==
    \/ ObserveExact(w, r) \/ ObserveExit(w, r) \/ ObserveFails(w, r)
    \/ SettleGone(w, r) \/ InspectSink(w, r) \/ CommitRecovered(w, r)
    \/ ConfirmedGone(w, r)
CompletionLoop(r) ==
    \/ ProjectEvent(r) \/ ApplyToSink(r) \/ SinkTimesOut(r)
    \/ RecordProjection(r) \/ ProjectionStoreFails(r)

Next ==
    \/ \E r \in Run :
         \/ ExecutionLoop(r) \/ BlockingPool(r) \/ ClaimRecovery(r)
         \/ EnqueueRun(r) \/ RequestCancel(r) \/ GiveUp(r) \/ CompletionLoop(r)
         \/ LeaseExpires(r) \/ DeadlinePasses(r) \/ TicketExpires(r)
         \/ DeferralElapses(r)
         \/ \E w \in Watcher : WatchLoop(w, r)
    \/ Crash

Spec == Init /\ [][Next]_vars

\* Deadlines, tickets and deferrals run out; the pool runs its tasks; loops
\* poll; a future notices its token.  Observations, sinks and settlements may
\* fail any number of times but not for ever.
InTime(A, r) == A /\ TicketMatches("recovery", r)
Fairness ==
    \A r \in Run :
      /\ WF_vars(DeadlinePasses(r)) /\ WF_vars(TicketExpires(r))
      /\ WF_vars(DeferralElapses(r)) /\ WF_vars(BlockingPool(r))
      /\ WF_vars(r \in cancelled /\ DropFuture(r))
      /\ WF_vars(ClaimRecovery(r)) /\ WF_vars(GiveUp(r))
      /\ \A w \in Watcher : WF_vars(WatchLoop(w, r))
      /\ SF_vars(ObserveExact("recovery", r) \/ ObserveExit("recovery", r))
      /\ SF_vars(InTime(SettleGone("recovery", r), r))
      /\ SF_vars(InTime(InspectSink("recovery", r)
                        /\ ~ Watching("recovery", r, "idle")', r))
      /\ SF_vars(InTime(CommitRecovered("recovery", r), r))
      /\ WF_vars(CompletionLoop(r))
      /\ SF_vars(ApplyToSink(r))
      /\ SF_vars(publisher[r] = "projected" /\ RecordProjection(r))

FairSpec == Spec /\ Fairness

-----------------------------------------------------------------------------
(* Properties. *)

TypeOK ==
    /\ state \in [Run -> {"absent", "queued"} \cup Seated \cup Terminal]
    /\ due \in [Run -> {"no", "lease", "deadline"}]
    /\ attached \subseteq Run
    /\ completion \in [Run -> {"none", "prepared", "committed", "abandoned"}]
    /\ sink \in [Run -> {"absent", "staged", "published", "discarded"}]
    /\ exec \in [Run -> {"none", "ended"} \cup Driven \cup Settling]
    /\ task \in [Run -> {"none", "prepare", "check", "stage"}]
    /\ cancelled \subseteq Run /\ retired \subseteq Run
    /\ outbox \in [Run -> {"due", "projected", "deferred", "quarantined"}]
    /\ \A r \in Run : state[r] = "cancelling" <=> ticket[r] # NoTicket

\* A run that ended otherwise than by giving up on its controller has no
\* operation that could still act: recovery waits for the last blocking task,
\* and a registration that comes too late is refused or finds its permit void.
SettledIsQuiet ==
    \A r \in Run : state[r] \in Terminal \ {"given_up"} =>
        exec[r] \notin Registered \ {"registered"} /\ task[r] # "stage"

\* The message a caller can read is that of a run which succeeded, and what
\* was discarded belongs to one that did not.
SinkFollowsRun ==
    \A r \in Run :
        /\ sink[r] = "published" => state[r] = "succeeded"
        /\ sink[r] = "discarded" => state[r] \in Terminal \ {"succeeded"}

\* An acknowledged completion event has had its effect for good; only a run
\* given up by the canceller can leave a message staged behind it.
AcknowledgedIsDone ==
    \A r \in Run : outbox[r] = "projected" =>
        IF completion[r] = "committed" THEN sink[r] = "published"
        ELSE \/ sink[r] \in {"absent", "discarded"}
             \/ sink[r] = "staged" /\ state[r] = "given_up"

\* A run is never declared interrupted for a lost lease while its result is
\* staged: recovery commits that result instead.
LostLeaseKeepsResult ==
    \A r \in Run : state[r] = "interrupted" => sink[r] = "absent"

\* Tombstones do not pile up: one is left only until its run's settlement is
\* confirmed to the registry.
TombstonesReleased ==
    \A r \in retired : state[r] \in Terminal =>
        \E w \in Watcher : Watching(w, r, "confirm")

\* No event is set aside for ever: sinks never contradict the store.
NothingQuarantined ==
    \A r \in Run : "quarantined" \notin {outbox[r], publisher[r]}

\* Run, completion, sink and outbox tell the same story at every step: what
\* callers can read is the result of a run that succeeded, an acknowledged
\* event has had its effect, a lost lease never throws a staged result away,
\* and once a run is settled nothing of it can act or be remembered for ever.
ResultsFollowRuns ==
    /\ TypeOK /\ SettledIsQuiet /\ TombstonesReleased
    /\ SinkFollowsRun /\ AcknowledgedIsDone /\ LostLeaseKeepsResult /\ NothingQuarantined

\* Every run that was claimed ends, whatever dies or hangs in between.
ClaimedRunsEnd ==
    \A r \in Run : state[r] \in Seated ~> state[r] \in Terminal

\* A committed result becomes readable, and every decision is acknowledged.
ResultsArePublished ==
    \A r \in Run :
        /\ completion[r] = "committed" ~> sink[r] = "published"
        /\ Decided(r) ~> outbox[r] = "projected"

\* Claimed runs end and their results become readable.
RunsEndPublished == ClaimedRunsEnd /\ ResultsArePublished

\* A client sees where a run is, but neither its lease nor its controller.
Place == [r \in Run |->
    CASE state[r] = "absent"    -> "unborn"
      [] state[r] = "queued"    -> "waiting"
      [] state[r] \in Seated    -> "seated"
      [] state[r] = "succeeded" -> "won"
      [] OTHER                  -> "lost"]
Home == [r \in Run |-> IF state[r] = "absent" THEN None ELSE r]

\* Was the run's cancellation accepted while it was seated?
Doomed(r) ==
    \/ ticket[r].kind \in {"cancel", "cancellation_abandoned"}
    \/ state[r] \in {"cancelled", "given_up"} /\ exec[r] # "none"

\* The composition keeps the store's promise to its clients.
Contract == INSTANCE AgentRunContract WITH
    Worker <- Run, NoWorker <- None, place <- Place, home <- Home,
    doomed <- {r \in Run : Doomed(r)}
ImplementsContract == Contract!CSpec
=============================================================================
