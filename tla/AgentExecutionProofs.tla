------------------------ MODULE AgentExecutionProofs ------------------------
(***************************************************************************)
(* Proofs about the execution of AgentRuns, for any set of runs and any    *)
(* number of crashes.                                                      *)
(*                                                                         *)
(* Runs share no state, so the invariant is one of a single run: what its  *)
(* row, its execution, its watchers, its message and its event say of each *)
(* other.  Its core is quiet: once a watcher has seen the controller gone, *)
(* or the row names none, nothing of the run can act again, because only a *)
(* running row lets an execution act.                                      *)
(***************************************************************************)
EXTENDS AgentExecution, TLAPS

-----------------------------------------------------------------------------
(* The inductive invariant. *)

States     == {"absent", "queued"} \cup Seated \cup Terminal
Kinds      == {"none", "cancel", "lease_expired", "execution_timed_out",
               "cancellation_abandoned"}
Ticket     == [kind : Kinds, live : BOOLEAN]
ExecPhases == {"none", "ended"} \cup Driven \cup Settling
Tasks      == {"none", "prepare", "check", "stage"}
WatchPhases == {"idle", "look", "wait", "settle", "give_up", "inspect", "recover",
                "abandon", "confirm"}
Item       == [phase : WatchPhases, kind : Kinds, mine : BOOLEAN]

\* One row per run in every table.
Tables ==
    /\ state \in [Run -> States] /\ due \in [Run -> {"no", "lease", "deadline"}]
    /\ ticket \in [Run -> Ticket] /\ attached \subseteq Run
    /\ completion \in [Run -> {"none", "prepared", "committed", "abandoned"}]
    /\ sink \in [Run -> {"absent", "staged", "published", "discarded"}]
    /\ exec \in [Run -> ExecPhases] /\ task \in [Run -> Tasks]
    /\ cancelled \subseteq Run /\ retired \subseteq Run
    /\ watch \in [Watcher -> [Run -> Item]]
    /\ outbox \in [Run -> {"due", "projected", "deferred", "quarantined"}]
    /\ publisher \in [Run -> {"idle", "publish", "discard", "projected", "deferred",
                              "quarantined"}]

\* An execution that may still act, past its last registration check.
Acting == Registered \ {"registered"}
Quiet(r) == exec[r] \notin Acting /\ task[r] = "none"

Row(r) ==
    /\ state[r] = "cancelling" <=> ticket[r].kind # "none"
    /\ ticket[r].kind = "none" => ~ticket[r].live
    /\ completion[r] = "prepared" => state[r] \in {"running", "cancelling"}
    /\ completion[r] = "committed" <=> state[r] = "succeeded"
    /\ completion[r] = "abandoned" => state[r] \in Terminal

Execution(r) ==
    /\ state[r] \in {"absent", "queued"} => exec[r] = "none"
    /\ task[r] = "prepare" => exec[r] \in {"preparing", "ended"}
    /\ task[r] \in {"check", "stage"} => exec[r] \in {"staging", "ended"}
    /\ state[r] \in Seated /\ r \notin attached =>
         exec[r] \in {"none", "claimed", "ended"} /\ task[r] = "none"
    /\ exec[r] \in {"prepared", "staging", "staged", "commit"} \/ task[r] \in {"check", "stage"}
         => completion[r] # "none"
    /\ state[r] \in Terminal \ {"given_up"} => Quiet(r)

\* The watcher whose ticket controls the run, and what it has found out.
Fits(item, r) ==
    /\ item.phase = "idle" => ~item.mine
    /\ item.mine /\ item.phase # "confirm" => state[r] = "cancelling"
    /\ item.phase = "confirm" => state[r] \in Terminal \ {"given_up"}
    /\ item.mine /\ item.phase \in {"settle", "inspect", "recover", "abandon"} => Quiet(r)
    /\ item.mine /\ item.phase \in {"inspect", "recover", "abandon"} =>
         completion[r] = "prepared"
    /\ item.mine /\ item.phase = "abandon" => sink[r] = "absent"
Watched(w, r) == Fits(watch[w][r], r)
OneWatcher(r) == ~(watch["recovery"][r].mine /\ watch["canceller"][r].mine)

\* What an acknowledged event has done.
Done(r) ==
    /\ Decided(r)
    /\ IF completion[r] = "committed" THEN sink[r] = "published"
       ELSE \/ sink[r] \in {"absent", "discarded"}
            \/ sink[r] = "staged" /\ state[r] = "given_up"

Message(r) ==
    /\ sink[r] # "absent" => completion[r] # "none"
    /\ sink[r] = "published" => state[r] = "succeeded"
    /\ sink[r] = "discarded" => state[r] \in Terminal \ {"succeeded"}
    /\ state[r] = "interrupted" => sink[r] = "absent"
    /\ publisher[r] = "publish" => completion[r] = "committed"
    /\ publisher[r] = "discard" => completion[r] = "abandoned"
    /\ outbox[r] = "projected" \/ publisher[r] = "projected" => Done(r)
    /\ outbox[r] # "quarantined" /\ publisher[r] # "quarantined"

RunInv(r) ==
    /\ Row(r) /\ Execution(r) /\ Message(r)
    /\ OneWatcher(r) /\ \A w \in Watcher : Watched(w, r)

IInv == Tables /\ \A r \in Run : RunInv(r)

\* While the store's clock does not overtake the local window, a watcher that
\* observes holds a live ticket, and a tombstone is of a run under control or
\* of one whose settlement is being confirmed.
TombInv(r) ==
    /\ \A w \in Watcher : watch[w][r].phase \in {"look", "wait"} =>
         watch[w][r].mine /\ ticket[r].live
    /\ r \in retired =>
         \/ state[r] = "cancelling"
         \/ state[r] \in Terminal /\ \E w \in Watcher : watch[w][r].phase = "confirm"
    /\ r \in retired => ~(/\ watch["canceller"][r].mine
                          /\ watch["canceller"][r].phase \in {"look", "wait", "give_up"})

-----------------------------------------------------------------------------
(* A step of one run leaves the others alone. *)

\* What the invariant says of a run depends on these alone.
Same(e) ==
    /\ state'[e] = state[e] /\ ticket'[e] = ticket[e]
    /\ e \in attached' <=> e \in attached
    /\ completion'[e] = completion[e] /\ sink'[e] = sink[e]
    /\ exec'[e] = exec[e] /\ task'[e] = task[e]
    /\ \A w \in Watcher : watch'[w][e] = watch[w][e]
    /\ outbox'[e] = outbox[e] /\ publisher'[e] = publisher[e]
Others(r) == \A e \in Run \ {r} : Same(e)

\* What a step of run r has to keep.
Kept(r) == Tables' /\ RunInv(r)' /\ Others(r)

\* A run nobody touched keeps its invariant.
LEMMA Untouched ==
    ASSUME NEW e \in Run, RunInv(e), Same(e)
    PROVE  RunInv(e)'
<1> /\ "recovery" \in Watcher /\ "canceller" \in Watcher
  BY DEF Watcher
<1>1. Row(e)'
  BY DEF Same, RunInv, Row
<1>2. Execution(e)'
  BY DEF Same, RunInv, Execution, Quiet
<1>3. Message(e)'
  BY DEF Same, RunInv, Message, Done, Decided
<1>4. OneWatcher(e)'
  BY DEF Same, RunInv, OneWatcher
<1>5. ASSUME NEW w \in Watcher
      PROVE  Watched(w, e)'
  BY DEF Same, RunInv, Watched, Fits, Quiet
<1> QED
  BY <1>1, <1>2, <1>3, <1>4, <1>5 DEF RunInv

\* A step that touches one run keeps the invariant if it keeps that run's.
LEMMA OneRun ==
    ASSUME IInv, NEW r \in Run, Kept(r)
    PROVE  IInv'
<1>1. ASSUME NEW e \in Run PROVE RunInv(e)'
  <2>1. CASE e = r
    BY <2>1 DEF Kept
  <2>2. CASE e # r
    BY <2>2, Untouched DEF Kept, Others, IInv
  <2> QED BY <2>1, <2>2
<1> QED BY <1>1 DEF IInv, Kept

-----------------------------------------------------------------------------
(* Steps of the execution alone. *)

\* What a step of the execution to phase p with task t may do: it never goes
\* back to unclaimed, acts on a quiet run only while the row is running, and
\* has a completion whenever it is past preparing one.
MayMove(r, p, t) ==
    /\ exec[r] # "none" /\ p \in ExecPhases \ {"none"} /\ t \in Tasks
    /\ t = "prepare" => p \in {"preparing", "ended"}
    /\ t \in {"check", "stage"} => p \in {"staging", "ended"}
    /\ state[r] \in Seated /\ r \notin attached => p \in {"claimed", "ended"} /\ t = "none"
    /\ p \in {"prepared", "staging", "staged", "commit"} \/ t \in {"check", "stage"}
         => completion[r] # "none"
    /\ Quiet(r) => (p \notin Acting /\ t = "none") \/ state[r] = "running"

\* Such a step keeps the run's invariant.
LEMMA ExecStep ==
    ASSUME IInv, NEW r \in Run, NEW p, NEW t, MayMove(r, p, t),
           exec' = [exec EXCEPT ![r] = p], task' = [task EXCEPT ![r] = t],
           retired' \subseteq Run,
           UNCHANGED <<rowVars, sink, cancelled, watch, pubVars>>
    PROVE  Kept(r)
<1> /\ Tables /\ RunInv(r)
  BY DEF IInv
<1> /\ UNCHANGED <<state, due, ticket, attached, completion, sink, cancelled>>
    /\ UNCHANGED <<watch, outbox, publisher>>
  BY DEF rowVars, pubVars
<1>1. exec'[r] = p /\ task'[r] = t
  BY DEF Tables
<1>2. Tables'
  BY DEF Tables, MayMove
<1>3. Others(r)
  BY DEF Others, Same, Tables
<1>4. Row(r)' /\ Message(r)' /\ OneWatcher(r)'
  BY DEF RunInv, Row, Message, Done, Decided, OneWatcher
<1>5. Quiet(r) /\ state[r] # "running" => Quiet(r)'
  BY <1>1 DEF MayMove, Quiet
<1>6. Execution(r)'
  <2>1. state[r] \in Terminal \ {"given_up"} => Quiet(r)'
    BY <1>5 DEF RunInv, Execution, Terminal
  <2>2. state[r] \notin {"absent", "queued"}
    BY DEF RunInv, Execution, MayMove
  <2> QED BY <1>1, <2>1, <2>2 DEF MayMove, Execution
<1>7. ASSUME NEW w \in Watcher PROVE Watched(w, r)'
  BY <1>5 DEF Watched, Fits, RunInv
<1> QED BY <1>2, <1>3, <1>4, <1>6, <1>7 DEF Kept, RunInv

\* The acting phases and the phases of the driver, one by one.
LEMMA PhaseFacts ==
    /\ Acting = {"operating", "effect", "preparing", "prepared", "staging", "staged"}
    /\ ExecPhases = {"none", "ended", "claimed", "started", "polled", "authorized",
                     "registered", "operating", "effect", "preparing", "prepared",
                     "staging", "staged", "settle_failed", "settle_timed_out", "commit"}
BY DEF Acting, Registered, ExecPhases, Driven, Polled, Settling

\* Steps of the execution before it acts.
LEMMA BeforeActing ==
    ASSUME IInv, NEW r \in Run,
           PollExecutor(r) \/ Authorize(r) \/ RegisterExact(r) \/ Reauthorize(r)
    PROVE  Kept(r)
<1> /\ Tables /\ RunInv(r)
  BY DEF IInv
<1>t. task' = [task EXCEPT ![r] = task[r]] /\ task[r] \in Tasks
  BY DEF PollExecutor, Authorize, RegisterExact, Reauthorize, Tables
<1> PICK t : t = task[r] OBVIOUS
<1>r. retired' \subseteq Run
  BY DEF PollExecutor, Authorize, RegisterExact, Reauthorize, Tables
<1>u. UNCHANGED <<rowVars, sink, cancelled, watch, pubVars>>
  BY DEF PollExecutor, Authorize, RegisterExact, Reauthorize
<1>1. CASE PollExecutor(r)
  <2>1. MayMove(r, "polled", t)
    BY <1>1, <1>t, PhaseFacts
    DEF PollExecutor, ExecutionPermitValid, Authenticated, MayMove, RunInv, Execution, Seated, Leased, Quiet, Tasks
  <2> QED BY <1>1, <1>t, <1>r, <1>u, <2>1, ExecStep DEF PollExecutor, Step
<1>2. CASE Authorize(r)
  <2>1. MayMove(r, "authorized", t)
    BY <1>2, <1>t, PhaseFacts
    DEF Authorize, ExecutionPermitValid, Authenticated, MayMove, RunInv, Execution, Seated, Leased, Quiet, Tasks
  <2> QED BY <1>2, <1>t, <1>r, <1>u, <2>1, ExecStep DEF Authorize, Step
<1>3. CASE RegisterExact(r)
  <2> PICK p : p = IF r \in retired THEN "ended" ELSE "registered" OBVIOUS
  <2>1. MayMove(r, p, t)
    BY <1>3, <1>t, PhaseFacts
    DEF RegisterExact, MayMove, RunInv, Execution, Seated, Leased, Quiet, Tasks
  <2> QED BY <1>3, <1>t, <1>r, <1>u, <2>1, ExecStep DEF RegisterExact, Step
<1>4. CASE Reauthorize(r)
  <2> PICK p : p = IF ExecutionPermitValid(r) THEN "operating" ELSE "ended" OBVIOUS
  <2>1. MayMove(r, p, t)
    BY <1>4, <1>t, PhaseFacts
    DEF Reauthorize, ExecutionPermitValid, Authenticated, MayMove, RunInv, Execution, Seated, Leased, Quiet, Tasks
  <2> QED BY <1>4, <1>t, <1>r, <1>u, <2>1, ExecStep DEF Reauthorize, Step
<1> QED BY <1>1, <1>2, <1>3, <1>4

\* Steps of an execution that acts, and the end of its future.
LEMMA WhileActing ==
    ASSUME IInv, NEW r \in Run,
           \/ AuthorizeEffect(r) \/ PerformEffect(r) \/ CallPrepare(r)
           \/ CallStage(r) \/ ValidateCompletionNow(r) \/ Return(r) \/ DropFuture(r)
    PROVE  Kept(r)
<1> /\ Tables /\ RunInv(r)
  BY DEF IInv
<1>u. UNCHANGED <<rowVars, sink, cancelled, watch, pubVars>> /\ retired' \subseteq Run
  BY DEF AuthorizeEffect, PerformEffect, CallPrepare, CallStage, ValidateCompletionNow,
         Return, DropFuture, Tables
<1> PICK t : t = task[r] OBVIOUS
<1>t. t \in Tasks
  BY DEF Tables
<1>1. CASE AuthorizeEffect(r) \/ PerformEffect(r)
  <2> PICK p : p = IF exec[r] = "operating" THEN "effect" ELSE "operating" OBVIOUS
  <2>1. MayMove(r, p, t)
    BY <1>1, <1>t, PhaseFacts
    DEF AuthorizeEffect, PerformEffect, MayMove, RunInv, Execution, Quiet, Tasks
  <2>2. exec' = [exec EXCEPT ![r] = p] /\ task' = [task EXCEPT ![r] = t]
    BY <1>1 DEF AuthorizeEffect, PerformEffect, Step, Tables
  <2> QED BY <1>u, <2>1, <2>2, ExecStep
<1>2. CASE CallPrepare(r)
  <2>1. MayMove(r, "preparing", "prepare")
    BY <1>2, PhaseFacts DEF CallPrepare, MayMove, RunInv, Execution, Quiet, Tasks
  <2> QED BY <1>2, <1>u, <2>1, ExecStep DEF CallPrepare, Begin, Step
<1>3. CASE CallStage(r)
  <2>1. MayMove(r, "staging", "check")
    BY <1>3, PhaseFacts DEF CallStage, MayMove, RunInv, Execution, Quiet, Tasks
  <2> QED BY <1>3, <1>u, <2>1, ExecStep DEF CallStage, Begin, Step
<1>4. CASE ValidateCompletionNow(r)
  <2>1. CASE CompletionPermitValid(r)
    <3> PICK p : p = exec[r] OBVIOUS
    <3>1. MayMove(r, p, "stage")
      BY <1>4, PhaseFacts
      DEF ValidateCompletionNow, MayMove, RunInv, Execution, Quiet, Tasks, Tables
    <3>2. exec' = [exec EXCEPT ![r] = p] /\ task' = [task EXCEPT ![r] = "stage"]
      BY <1>4, <2>1 DEF ValidateCompletionNow, Tables
    <3> QED BY <1>u, <3>1, <3>2, ExecStep
  <2>2. CASE ~CompletionPermitValid(r)
    <3> PICK p : p = IF exec[r] = "staging" THEN "operating" ELSE exec[r] OBVIOUS
    <3>1. MayMove(r, p, "none")
      BY <1>4, PhaseFacts
      DEF ValidateCompletionNow, MayMove, RunInv, Execution, Quiet, Tasks, Tables
    <3>2. exec' = [exec EXCEPT ![r] = p] /\ task' = [task EXCEPT ![r] = "none"]
      BY <1>4, <2>2 DEF ValidateCompletionNow, Deliver, Tables
    <3> QED BY <1>u, <3>1, <3>2, ExecStep
  <2> QED BY <2>1, <2>2
<1>5. CASE Return(r)
  <2>1. PICK p : /\ exec' = [exec EXCEPT ![r] = p]
                 /\ \/ exec[r] = "staged" /\ p = "commit"
                    \/ /\ exec[r] \in {"operating", "prepared"}
                       /\ p \in {"settle_failed", "settle_timed_out", "ended"}
    BY <1>5 DEF Return, Step
  <2>2. MayMove(r, p, t)
    BY <1>t, <2>1, PhaseFacts DEF MayMove, RunInv, Execution, Quiet, Tasks
  <2>3. task' = [task EXCEPT ![r] = t]
    BY <1>5 DEF Return, Tables
  <2> QED BY <1>u, <2>1, <2>2, <2>3, ExecStep
<1>6. CASE DropFuture(r)
  <2>1. MayMove(r, "ended", t)
    BY <1>6, <1>t, PhaseFacts
    DEF DropFuture, Driven, Polled, Registered, MayMove, RunInv, Execution, Quiet, Tasks
  <2>2. exec' = [exec EXCEPT ![r] = "ended"] /\ task' = [task EXCEPT ![r] = t]
    BY <1>6 DEF DropFuture, Step, Tables
  <2> QED BY <1>u, <2>1, <2>2, ExecStep
<1> QED BY <1>1, <1>2, <1>3, <1>4, <1>5, <1>6

-----------------------------------------------------------------------------
(* Steps that change the row. *)

\* A client enqueues a run, the driver claims and starts it.
LEMMA ComingAlive ==
    ASSUME IInv, NEW r \in Run, EnqueueRun(r) \/ ClaimRun(r) \/ StartRun(r)
    PROVE  Kept(r)
<1> /\ Tables /\ RunInv(r)
  BY DEF IInv
<1> USE DEF rowVars, execVars, pubVars
<1>u. UNCHANGED <<due, ticket, completion, sink, task, cancelled, retired, watch, outbox,
                  publisher>>
  BY DEF EnqueueRun, ClaimRun, StartRun
<1>1. PICK s \in States : /\ state' = [state EXCEPT ![r] = s]
                          /\ s \in {"queued", "starting", "running"}
                          /\ s = "queued" <=> state[r] = "absent"
                          /\ s = "starting" <=> state[r] = "queued"
                          /\ s = "running" <=> state[r] = "starting"
  BY DEF EnqueueRun, ClaimRun, StartRun, Authenticated, States, Seated, Leased
<1>2. PICK p \in ExecPhases :
         /\ exec' = [exec EXCEPT ![r] = p]
         /\ s = "queued" => p = exec[r]
         /\ s = "starting" => p = "claimed" /\ exec[r] = "none"
         /\ s = "running" => p = "started" /\ exec[r] = "claimed"
  BY <1>1, PhaseFacts DEF EnqueueRun, ClaimRun, StartRun, Authenticated, Step, Tables
<1>3. /\ attached' \subseteq Run
      /\ \A e \in Run : e # r => (e \in attached' <=> e \in attached)
      /\ s = "running" => r \in attached'
      /\ s # "running" => (r \in attached' <=> r \in attached)
  BY <1>1 DEF EnqueueRun, ClaimRun, StartRun, Authenticated, Tables
<1>4. state'[r] = s /\ exec'[r] = p
  BY <1>1, <1>2 DEF Tables
<1>5. Tables'
  BY <1>1, <1>2, <1>3, <1>u DEF Tables
<1>6. Others(r)
  BY <1>1, <1>2, <1>3, <1>u DEF Others, Same, Tables
<1>7. state[r] \in {"absent", "queued", "starting"}
  BY <1>1
<1>8. completion[r] = "none" /\ ticket[r].kind = "none" /\ ~ticket[r].live
  BY <1>7 DEF RunInv, Row, Terminal, Tables
<1>9. /\ Row(r)' /\ OneWatcher(r)' /\ Message(r)'
  BY <1>1, <1>4, <1>7, <1>8, <1>u
  DEF RunInv, Row, Message, Done, Decided, OneWatcher, Terminal
<1>10. task[r] = "none"
  BY <1>2, <1>7, <1>1 DEF RunInv, Execution, Tables, Tasks
<1>11. Execution(r)'
  BY <1>1, <1>2, <1>3, <1>4, <1>7, <1>10, <1>u, PhaseFacts
  DEF RunInv, Execution, Terminal, Seated, Leased, Quiet
<1>12. ASSUME NEW w \in Watcher PROVE Watched(w, r)'
  <2>1. ~watch[w][r].mine /\ watch[w][r].phase # "confirm"
    BY <1>7 DEF RunInv, Watched, Fits, Terminal
  <2> QED BY <1>u, <2>1 DEF Watched, Fits
<1> QED BY <1>5, <1>6, <1>9, <1>11, <1>12 DEF Kept, RunInv

\* The completion is prepared, or the permit turns out void.
LEMMA Preparing ==
    ASSUME IInv, NEW r \in Run, PrepareCompletion(r)
    PROVE  Kept(r)
<1> /\ Tables /\ RunInv(r)
  BY DEF IInv
<1> USE DEF pubVars
<1>u. UNCHANGED <<state, due, ticket, attached, sink, cancelled, retired, watch, outbox,
                  publisher>>
  BY DEF PrepareCompletion
<1>1. CASE ~ExecutionPermitValid(r)
  <2> PICK p : p = IF exec[r] = "preparing" THEN "operating" ELSE exec[r] OBVIOUS
  <2>1. MayMove(r, p, "none")
    BY PhaseFacts DEF PrepareCompletion, MayMove, RunInv, Execution, Quiet, Tasks, Tables
  <2>2. /\ exec' = [exec EXCEPT ![r] = p] /\ task' = [task EXCEPT ![r] = "none"]
        /\ UNCHANGED completion
    BY <1>1 DEF PrepareCompletion, Deliver, Tables
  <2> QED BY <1>u, <2>1, <2>2, ExecStep DEF rowVars, Tables
<1>2. CASE ExecutionPermitValid(r)
  <2> PICK p : p = IF exec[r] = "preparing" THEN "prepared" ELSE exec[r] OBVIOUS
  <2>1. /\ exec' = [exec EXCEPT ![r] = p] /\ task' = [task EXCEPT ![r] = "none"]
        /\ completion' = [completion EXCEPT ![r] = "prepared"]
        /\ state[r] = "running" /\ completion[r] = "none"
        /\ exec[r] \in {"preparing", "ended"} /\ p \in {"prepared", "ended"}
    BY <1>2 DEF PrepareCompletion, Deliver, Tables, ExecutionPermitValid, Authenticated,
                RunInv, Execution
  <2>2. exec'[r] = p /\ task'[r] = "none" /\ completion'[r] = "prepared"
    BY <2>1 DEF Tables
  <2>3. Tables'
    BY <1>u, <2>1, PhaseFacts DEF Tables, Tasks
  <2>4. Others(r)
    BY <1>u, <2>1 DEF Others, Same, Tables
  <2>5. Row(r)' /\ OneWatcher(r)' /\ Message(r)'
    BY <1>u, <2>1, <2>2 DEF RunInv, Row, Message, Done, Decided, OneWatcher, Terminal
  <2>6. Execution(r)'
    BY <1>u, <2>1, <2>2 DEF RunInv, Execution, Quiet, Terminal, Seated, Leased, PrepareCompletion
  <2>7. ASSUME NEW w \in Watcher PROVE Watched(w, r)'
    <3>1. ~watch[w][r].mine /\ watch[w][r].phase # "confirm"
      BY <2>1 DEF RunInv, Watched, Fits, Terminal
    <3> QED BY <1>u, <3>1 DEF Watched, Fits
  <2> QED BY <2>3, <2>4, <2>5, <2>6, <2>7 DEF Kept, RunInv
<1> QED BY <1>1, <1>2

\* The message is staged by a task that checked the permit: the run is not
\* settled, unless the canceller gave it up.
LEMMA Staging ==
    ASSUME IInv, NEW r \in Run, StageMessage(r)
    PROVE  Kept(r)
<1> /\ Tables /\ RunInv(r)
  BY DEF IInv
<1> USE DEF rowVars, pubVars
<1>u. UNCHANGED <<state, due, ticket, attached, completion, cancelled, retired, watch, outbox,
                  publisher>>
  BY DEF StageMessage
<1> PICK p : p = IF exec[r] = "staging"
                   THEN IF sink[r] = "discarded" THEN "operating" ELSE "staged"
                   ELSE exec[r] OBVIOUS
<1> PICK m : m = IF sink[r] = "absent" THEN "staged" ELSE sink[r] OBVIOUS
<1>1. /\ exec' = [exec EXCEPT ![r] = p] /\ task' = [task EXCEPT ![r] = "none"]
      /\ sink' = [sink EXCEPT ![r] = m]
      /\ task[r] = "stage" /\ exec[r] \in {"staging", "ended"}
      /\ p \in {"operating", "staged", "ended"} /\ (p # "ended" => exec[r] = "staging")
      /\ m \in {"staged", "published", "discarded"}
  BY DEF StageMessage, Deliver, Tables, RunInv, Execution
<1>2. exec'[r] = p /\ task'[r] = "none" /\ sink'[r] = m
  BY <1>1 DEF Tables
<1>3. completion[r] # "none" /\ state[r] \notin Terminal \ {"given_up"} /\ ~Quiet(r)
  BY <1>1 DEF RunInv, Execution, Quiet
<1>4. completion[r] # "committed" /\ state[r] # "succeeded" /\ state[r] # "interrupted"
  BY <1>3 DEF RunInv, Row, Terminal
<1>5. Tables'
  BY <1>u, <1>1, PhaseFacts DEF Tables, Tasks
<1>6. Others(r)
  BY <1>u, <1>1 DEF Others, Same, Tables
<1>7. Row(r)' /\ OneWatcher(r)'
  BY <1>u DEF RunInv, Row, OneWatcher
<1>8. Message(r)'
  <2>1. Done(r) => Done(r)'
    BY <1>u, <1>1, <1>2, <1>3, <1>4 DEF Done, Decided, RunInv, Row
  <2> QED BY <1>u, <1>1, <1>2, <1>3, <1>4, <2>1 DEF RunInv, Message
<1>9. Execution(r)'
  BY <1>u, <1>1, <1>2, <1>3 DEF RunInv, Execution, Seated, Leased
<1>10. ASSUME NEW w \in Watcher PROVE Watched(w, r)'
  BY <1>u, <1>3 DEF RunInv, Watched, Fits
<1> QED BY <1>5, <1>6, <1>7, <1>8, <1>9, <1>10 DEF Kept, RunInv

\* A run ends: an uncommitted completion goes with it, and a run ends as
\* succeeded or interrupted only where its completion and message allow it.
LEMMA FinishRow ==
    ASSUME Tables, NEW r \in Run, RunInv(r), NEW how \in Terminal, Finish(r, how),
           state[r] \in Seated \cup {"queued"},
           how = "succeeded" => completion[r] = "prepared",
           how = "interrupted" => sink[r] = "absent",
           UNCHANGED <<sink, outbox, publisher>>
    PROVE  /\ state' \in [Run -> States] /\ due' \in [Run -> {"no", "lease", "deadline"}]
           /\ ticket' \in [Run -> Ticket] /\ attached' \subseteq Run
           /\ completion' \in [Run -> {"none", "prepared", "committed", "abandoned"}]
           /\ \A e \in Run : e # r =>
                /\ state'[e] = state[e] /\ ticket'[e] = ticket[e]
                /\ e \in attached' <=> e \in attached
                /\ completion'[e] = completion[e]
           /\ state'[r] = how
           /\ completion[r] # "none" => completion'[r] # "none"
           /\ Row(r)' /\ Message(r)'
<1> PICK c : c = IF completion[r] # "prepared" THEN completion[r]
                 ELSE IF how = "succeeded" THEN "committed" ELSE "abandoned" OBVIOUS
<1>1. /\ state' = [state EXCEPT ![r] = how] /\ ticket' = [ticket EXCEPT ![r] = NoTicket]
      /\ completion' = [completion EXCEPT ![r] = c]
      /\ attached' = attached \ {r} /\ UNCHANGED due
  BY DEF Finish, Tables
<1>2. NoTicket \in Ticket /\ NoTicket.kind = "none" /\ NoTicket.live = FALSE
  BY DEF NoTicket, Ticket, Kinds
<1>3. completion[r] \in {"none", "prepared"} /\ c \in {"none", "committed", "abandoned"}
  BY DEF RunInv, Row, Tables, Terminal, Seated, Leased
<1>4. state'[r] = how /\ ticket'[r] = NoTicket /\ completion'[r] = c
  BY <1>1 DEF Tables
<1>5. how \in States /\ how # "cancelling"
  BY DEF Terminal, States
<1>6. Row(r)'
  BY <1>2, <1>3, <1>4, <1>5 DEF Row
<1>7. Message(r)'
  <2>1. sink[r] \in {"absent", "staged"}
    BY DEF Tables, RunInv, Message, Terminal, Seated, Leased
  <2>2. ~Done(r) /\ publisher[r] \notin {"publish", "discard"}
    BY <1>3 DEF Done, Decided, RunInv, Message
  <2> QED BY <1>3, <1>4, <2>1, <2>2 DEF RunInv, Message
<1> QED BY <1>1, <1>2, <1>3, <1>4, <1>5, <1>6, <1>7 DEF Tables

\* The driver settles or commits its own run: nobody else holds it.
LEMMA Settles ==
    ASSUME IInv, NEW r \in Run, SettleRun(r) \/ CommitStagedCompletion(r)
    PROVE  Kept(r)
<1> /\ Tables /\ RunInv(r)
  BY DEF IInv
<1>u. UNCHANGED <<sink, task, cancelled, retired, watch, outbox, publisher>>
  BY DEF SettleRun, CommitStagedCompletion, pubVars
<1>1. /\ exec' = [exec EXCEPT ![r] = "ended"]
      /\ exec[r] \in {"settle_failed", "settle_timed_out", "commit"}
  BY DEF SettleRun, CommitStagedCompletion, Step, Settling
<1>2. task[r] = "none"
  BY <1>1 DEF RunInv, Execution, Tables, Tasks
<1>3. CASE UNCHANGED rowVars
  <2>1. MayMove(r, "ended", "none")
    BY <1>1, PhaseFacts DEF MayMove, Tasks
  <2>2. task' = [task EXCEPT ![r] = "none"]
    BY <1>u, <1>2 DEF Tables
  <2>3. retired' \subseteq Run /\ UNCHANGED <<rowVars, sink, cancelled, watch, pubVars>>
    BY <1>u, <1>3 DEF Tables, pubVars
  <2> QED BY <1>1, <2>1, <2>2, <2>3, ExecStep
<1>4. CASE ~UNCHANGED rowVars
  <2>1. PICK how \in Terminal : /\ Finish(r, how) /\ state[r] \in Leased
                                /\ how \notin {"given_up", "interrupted"}
                                /\ how = "succeeded" => completion[r] = "prepared"
    BY <1>4 DEF SettleRun, CommitStagedCompletion, CompletionPermitValid, Authenticated,
                Leased, Terminal
  <2>2. /\ state' \in [Run -> States] /\ due' \in [Run -> {"no", "lease", "deadline"}]
        /\ ticket' \in [Run -> Ticket] /\ attached' \subseteq Run
        /\ completion' \in [Run -> {"none", "prepared", "committed", "abandoned"}]
        /\ \A e \in Run : e # r =>
             /\ state'[e] = state[e] /\ ticket'[e] = ticket[e]
             /\ e \in attached' <=> e \in attached
             /\ completion'[e] = completion[e]
        /\ state'[r] = how /\ Row(r)' /\ Message(r)'
    BY <1>u, <2>1, FinishRow DEF Seated
  <2>3. exec'[r] = "ended" /\ task'[r] = "none"
    BY <1>1, <1>2, <1>u DEF Tables
  <2>4. Tables'
    BY <1>u, <1>1, <2>2, PhaseFacts DEF Tables
  <2>5. Others(r)
    BY <1>u, <1>1, <2>2 DEF Others, Same, Tables
  <2>6. Execution(r)' /\ OneWatcher(r)'
    BY <1>u, <2>1, <2>2, <2>3, PhaseFacts
    DEF RunInv, Execution, OneWatcher, Quiet, Terminal, Seated, Leased
  <2>7. ASSUME NEW w \in Watcher PROVE Watched(w, r)'
    <3>1. ~watch[w][r].mine /\ watch[w][r].phase # "confirm"
      BY <2>1 DEF RunInv, Watched, Fits, Terminal, Leased
    <3> QED BY <1>u, <3>1 DEF Watched, Fits
  <2> QED BY <2>2, <2>4, <2>5, <2>6, <2>7 DEF Kept, RunInv
<1> QED BY <1>3, <1>4

\* Leases, deadlines and tickets run out.
LEMMA TimePasses ==
    ASSUME IInv, NEW r \in Run, LeaseExpires(r) \/ DeadlinePasses(r) \/ TicketExpires(r)
    PROVE  Kept(r)
<1> /\ Tables /\ RunInv(r)
  BY DEF IInv
<1>u. UNCHANGED <<state, attached, completion, sink, exec, task, cancelled, retired, watch,
                  outbox, publisher>>
  BY DEF LeaseExpires, DeadlinePasses, TicketExpires, execVars, pubVars
<1>1. due' \in [Run -> {"no", "lease", "deadline"}]
  BY DEF LeaseExpires, DeadlinePasses, TicketExpires, Tables
<1>2. /\ ticket' \in [Run -> Ticket]
      /\ \A e \in Run : e # r => ticket'[e] = ticket[e]
      /\ ticket'[r].kind = ticket[r].kind
      /\ ticket'[r].live => ticket[r].live
  <2>1. CASE UNCHANGED ticket
    BY <2>1 DEF Tables
  <2>2. CASE TicketExpires(r)
    <3> PICK c \in Ticket : c = [ticket[r] EXCEPT !.live = FALSE]
      BY ZenonT(60) DEF Tables, Ticket
    <3>1. c.kind = ticket[r].kind /\ ~c.live
      BY DEF Tables, Ticket
    <3>2. ticket' = [ticket EXCEPT ![r] = c]
      BY <2>2 DEF TicketExpires
    <3> QED BY <3>1, <3>2 DEF Tables
  <2> QED BY <2>1, <2>2 DEF LeaseExpires, DeadlinePasses
<1>3. Tables'
  BY <1>u, <1>1, <1>2 DEF Tables
<1>4. Others(r)
  BY <1>u, <1>2 DEF Others, Same
<1>5. Row(r)' /\ OneWatcher(r)'
  BY <1>u, <1>2 DEF RunInv, Row, OneWatcher
<1>6. Execution(r)' /\ Message(r)'
  BY <1>u DEF RunInv, Execution, Quiet, Message, Done, Decided
<1>7. ASSUME NEW w \in Watcher PROVE Watched(w, r)'
  BY <1>u DEF RunInv, Watched, Fits, Quiet
<1> QED BY <1>3, <1>4, <1>5, <1>6, <1>7 DEF Kept, RunInv

-----------------------------------------------------------------------------
(* Steps of the watchers. *)

\* What a watcher's item becomes when it moves on or rests.
LEMMA Items ==
    ASSUME Tables, NEW w \in Watcher, NEW r \in Run
    PROVE  /\ \A p \in WatchPhases : Move(w, r, p) =>
                watch' = [watch EXCEPT ![w][r] =
                    [phase |-> p, kind |-> watch[w][r].kind, mine |-> watch[w][r].mine]]
           /\ Idle \in Item /\ watch[w][r] \in Item
<1>1. watch[w][r] \in Item
  BY DEF Tables
<1>2. \A p : [watch[w][r] EXCEPT !.phase = p] =
              [phase |-> p, kind |-> watch[w][r].kind, mine |-> watch[w][r].mine]
  BY <1>1 DEF Item
<1>3. Idle \in Item
  BY DEF Idle, Item, WatchPhases, Kinds
<1> QED BY <1>1, <1>2, <1>3 DEF Move, Tables

\* Where one item is replaced, the others stay.
LEMMA OneItem ==
    ASSUME Tables, NEW w \in Watcher, NEW r \in Run, NEW item \in Item,
           watch' = [watch EXCEPT ![w][r] = item]
    PROVE  /\ watch' \in [Watcher -> [Run -> Item]] /\ watch'[w][r] = item
           /\ \A v \in Watcher, e \in Run : v # w \/ e # r => watch'[v][e] = watch[v][e]
BY DEF Tables

\* A step of a watcher that leaves the row alone.
LEMMA WatchStep ==
    ASSUME IInv, NEW w \in Watcher, NEW r \in Run, NEW item \in Item, Fits(item, r),
           item.mine => watch[w][r].mine,
           watch' = [watch EXCEPT ![w][r] = item],
           cancelled' \subseteq Run, retired' \subseteq Run,
           UNCHANGED <<rowVars, sink, exec, task, pubVars>>
    PROVE  Kept(r)
<1> /\ Tables /\ RunInv(r)
  BY DEF IInv
<1>u. UNCHANGED <<state, due, ticket, attached, completion, sink, exec, task, outbox,
                  publisher>>
  BY DEF rowVars, pubVars
<1>1. /\ watch' \in [Watcher -> [Run -> Item]] /\ watch'[w][r] = item
      /\ \A v \in Watcher, e \in Run : v # w \/ e # r => watch'[v][e] = watch[v][e]
  BY OneItem, ZenonT(60)
<1>2. Tables'
  BY <1>u, <1>1 DEF Tables
<1>3. Others(r)
  BY <1>u, <1>1 DEF Others, Same
<1>4. Row(r)' /\ Execution(r)' /\ Message(r)'
  BY <1>u DEF RunInv, Row, Execution, Quiet, Message, Done, Decided
<1>5. OneWatcher(r)'
  BY <1>1 DEF RunInv, OneWatcher, Watcher
<1>6. ASSUME NEW v \in Watcher PROVE Watched(v, r)'
  <2>1. Fits(watch'[v][r], r)
    BY <1>1 DEF RunInv, Watched
  <2> QED BY <1>u, <2>1 DEF Watched, Fits, Quiet
<1> QED BY <1>2, <1>3, <1>4, <1>5, <1>6 DEF Kept, RunInv

\* Observations of the controller and of the sink, and what they conclude.
LEMMA Observes ==
    ASSUME IInv, NEW w \in Watcher, NEW r \in Run,
           \/ ObserveExact(w, r) \/ ObserveExit(w, r) \/ ObserveFails(w, r)
           \/ InspectSink(w, r) \/ ConfirmedGone(w, r)
    PROVE  Kept(r)
<1> /\ Tables /\ RunInv(r)
  BY DEF IInv
<1> PICK now : now = watch[w][r] OBVIOUS
<1>f. Fits(now, r)
  BY DEF RunInv, Watched
<1>u. /\ UNCHANGED <<rowVars, sink, exec, task, pubVars>>
      /\ cancelled' \subseteq Run /\ retired' \subseteq Run
  BY DEF ObserveExact, ObserveExit, ObserveFails, InspectSink, ConfirmedGone, RetireAbsent,
         Tables, execVars
<1>1. CASE Rest(w, r)
  <2>1. Fits(Idle, r) /\ ~Idle.mine
    BY DEF Fits, Idle
  <2> QED BY <1>1, <1>u, <2>1, Items, WatchStep DEF Rest
<1>2. CASE ~Rest(w, r)
  <2>1. PICK p \in WatchPhases :
           /\ Move(w, r, p)
           /\ \/ p = "settle" /\ ~LiveController(r) /\ now.phase \in {"look", "wait"}
              \/ p \in {"wait", "give_up"} /\ now.phase \in {"look", "wait"}
              \/ p = "recover" /\ now.phase = "inspect"
              \/ p = "abandon" /\ now.phase = "inspect" /\ sink[r] = "absent"
    BY <1>2 DEF ObserveExact, ObserveExit, ObserveFails, InspectSink, ConfirmedGone,
                RetireAbsent, Watching, WatchPhases
  <2> PICK item : item = [phase |-> p, kind |-> now.kind, mine |-> now.mine] OBVIOUS
  <2>2. item \in Item /\ item.phase = p /\ item.mine = now.mine
    BY Items DEF Item
  <2>3. p = "settle" => Quiet(r)
    BY <2>1 DEF LiveController, Quiet, Acting
  <2>4. Fits(item, r)
    BY <1>f, <2>1, <2>2, <2>3 DEF Fits
  <2>5. watch' = [watch EXCEPT ![w][r] = item]
    BY <2>1, Items
  <2> QED BY <1>u, <2>2, <2>4, <2>5, WatchStep
<1> QED BY <1>1, <1>2

\* A watcher that has found the controller gone settles the run.
LEMMA Concludes ==
    ASSUME IInv, NEW w \in Watcher, NEW r \in Run,
           SettleGone(w, r) \/ CommitRecovered(w, r)
    PROVE  Kept(r)
<1> /\ Tables /\ RunInv(r)
  BY DEF IInv
<1> PICK now : now = watch[w][r] OBVIOUS
<1>f. Fits(now, r) /\ now.phase \in {"settle", "recover", "abandon"}
  BY DEF RunInv, Watched, SettleGone, CommitRecovered, Watching
<1>u. UNCHANGED <<sink, exec, task, cancelled, retired, outbox, publisher>>
  BY DEF SettleGone, CommitRecovered, execVars, pubVars
<1>m. ASSUME NEW p \in WatchPhases, Move(w, r, p)
      PROVE  LET item == [phase |-> p, kind |-> now.kind, mine |-> now.mine]
             IN  watch' = [watch EXCEPT ![w][r] = item] /\ item \in Item
  BY <1>m, Items DEF Item
<1>1. CASE UNCHANGED rowVars
  <2>1. CASE Rest(w, r)
    <3>1. Fits(Idle, r) /\ ~Idle.mine
      BY DEF Fits, Idle
    <3> QED BY <1>1, <1>u, <2>1, <3>1, Items, WatchStep DEF Rest, pubVars, Tables
  <2>2. CASE ~Rest(w, r)
    <3>1. Move(w, r, "inspect") /\ now.phase = "settle" /\ completion[r] = "prepared"
      BY <1>1, <2>2, <1>f DEF SettleGone, CommitRecovered, Settled, Watching, Finish,
         TicketMatches, rowVars, Tables, Terminal, RecoveryOutcome
    <3> PICK item : item = [phase |-> "inspect", kind |-> now.kind, mine |-> now.mine]
      OBVIOUS
    <3>2. item \in Item /\ watch' = [watch EXCEPT ![w][r] = item]
      BY <1>m, <3>1 DEF WatchPhases
    <3>3. Fits(item, r)
      BY <1>f, <3>1 DEF Fits
    <3> QED BY <1>1, <1>u, <3>2, <3>3, WatchStep DEF pubVars, Tables
  <2> QED BY <2>1, <2>2
<1>2. CASE ~UNCHANGED rowVars
  <2>1. PICK how \in Terminal :
           /\ TicketMatches(w, r) /\ Finish(r, how) /\ Move(w, r, "confirm")
           /\ how # "given_up"
           /\ how = "succeeded" => now.phase = "recover"
           /\ how = "interrupted" => now.phase = "abandon" \/ completion[r] # "prepared"
    BY <1>2 DEF SettleGone, CommitRecovered, Settled, Watching, RecoveryOutcome, Terminal
  <2>2. now.mine /\ state[r] = "cancelling" /\ Quiet(r)
    BY <1>f, <2>1 DEF TicketMatches, Fits
  <2>3. /\ how = "succeeded" => completion[r] = "prepared"
        /\ how = "interrupted" => sink[r] = "absent"
    BY <1>f, <2>1, <2>2 DEF Fits, RunInv, Row, Message, Terminal, Tables
  <2>4. /\ state' \in [Run -> States] /\ due' \in [Run -> {"no", "lease", "deadline"}]
        /\ ticket' \in [Run -> Ticket] /\ attached' \subseteq Run
        /\ completion' \in [Run -> {"none", "prepared", "committed", "abandoned"}]
        /\ \A e \in Run : e # r =>
             /\ state'[e] = state[e] /\ ticket'[e] = ticket[e]
             /\ e \in attached' <=> e \in attached
             /\ completion'[e] = completion[e]
        /\ state'[r] = how /\ Row(r)' /\ Message(r)'
        /\ completion[r] # "none" => completion'[r] # "none"
    BY <1>u, <2>1, <2>2, <2>3, FinishRow DEF Seated
  <2> PICK item : item = [phase |-> "confirm", kind |-> now.kind, mine |-> now.mine]
    OBVIOUS
  <2>5. item \in Item /\ watch' = [watch EXCEPT ![w][r] = item]
    BY <1>m, <2>1 DEF WatchPhases
  <2>6. /\ watch' \in [Watcher -> [Run -> Item]] /\ watch'[w][r] = item
        /\ \A v \in Watcher, e \in Run : v # w \/ e # r => watch'[v][e] = watch[v][e]
    BY <2>5, OneItem DEF Tables
  <2>7. Tables'
    BY <1>u, <2>4, <2>6 DEF Tables
  <2>8. Others(r)
    BY <1>u, <2>4, <2>6 DEF Others, Same
  <2>9. Execution(r)'
    BY <1>u, <2>2, <2>4 DEF RunInv, Execution, Quiet, Seated, Leased, Terminal
  <2>10. \A v \in Watcher : v # w => ~watch[v][r].mine /\ watch[v][r].phase # "confirm"
    BY <2>2 DEF RunInv, OneWatcher, Watcher, Watched, Fits, Terminal
  <2>11. OneWatcher(r)'
    BY <2>6, <2>10 DEF OneWatcher, Watcher
  <2>12. ASSUME NEW v \in Watcher PROVE Watched(v, r)'
    <3>1. CASE v = w
      BY <2>1, <2>4, <2>6, <3>1 DEF Watched, Fits
    <3>2. CASE v # w
      BY <2>6, <2>10, <3>2 DEF Watched, Fits
    <3> QED BY <3>1, <3>2
  <2> QED BY <2>4, <2>7, <2>8, <2>9, <2>11, <2>12 DEF Kept, RunInv
<1> QED BY <1>1, <1>2

\* Control is taken: the row is under one watcher's ticket and every earlier
\* one is void.  A row that names no controller has none that could act.
LEMMA TakesControl ==
    ASSUME IInv, NEW w \in Watcher, NEW r \in Run, NEW kind \in Kinds \ {"none"},
           TakeControl(w, r, kind, FirstPhase(r)), state[r] \in Seated,
           UNCHANGED <<sink, execVars, retired, pubVars>>
    PROVE  Kept(r)
<1> /\ Tables /\ RunInv(r)
  BY DEF IInv
<1>u. UNCHANGED <<due, attached, completion, sink, exec, task, cancelled, retired, outbox,
                  publisher>>
  BY DEF TakeControl, execVars, pubVars
<1> PICK p : p = FirstPhase(r) OBVIOUS
<1>p. p \in {"look", "settle"} /\ (p = "settle" => r \notin attached)
  BY DEF FirstPhase
<1> PICK mine \in Item : mine = [phase |-> p, kind |-> kind, mine |-> TRUE]
  BY <1>p DEF Item, WatchPhases
<1> PICK t \in Ticket : t = [kind |-> kind, live |-> TRUE]
  BY DEF Ticket
<1> DEFINE Void(v) == [watch[v][r] EXCEPT !.mine = FALSE]
<1>1. \A v \in Watcher : /\ watch[v][r] \in Item /\ Void(v) \in Item
                         /\ Void(v).phase = watch[v][r].phase /\ Void(v).mine = FALSE
  <2>1. \A v \in Watcher : watch[v][r] \in Item
    BY DEF Tables
  <2>2. \A i \in Item : /\ [i EXCEPT !.mine = FALSE] \in Item
                        /\ [i EXCEPT !.mine = FALSE].phase = i.phase
                        /\ [i EXCEPT !.mine = FALSE].mine = FALSE
    BY DEF Item
  <2> QED BY <2>1, <2>2
<1>2. state' = [state EXCEPT ![r] = "cancelling"] /\ ticket' = [ticket EXCEPT ![r] = t]
  BY DEF TakeControl
<1>3. watch' = [v \in Watcher |-> [watch[v] EXCEPT ![r] = IF v = w THEN mine ELSE Void(v)]]
  BY DEF TakeControl, Tables
<1> HIDE DEF Void
<1>4. /\ watch' \in [Watcher -> [Run -> Item]] /\ watch'[w][r] = mine
      /\ \A v \in Watcher, e \in Run : e # r => watch'[v][e] = watch[v][e]
      /\ \A v \in Watcher : v # w => watch'[v][r] = Void(v)
  BY <1>1, <1>3 DEF Tables
<1>5. /\ state'[r] = "cancelling" /\ ticket'[r] = t /\ t.kind # "none"
      /\ mine.phase = p /\ mine.mine = TRUE
  BY <1>2 DEF Tables
<1>6. Tables'
  BY <1>u, <1>2, <1>4 DEF Tables, States, Seated
<1>7. Others(r)
  BY <1>u, <1>2, <1>4 DEF Others, Same, Tables
<1>8. completion[r] \in {"none", "prepared"} /\ sink[r] \in {"absent", "staged"} /\ ~Done(r)
  BY DEF RunInv, Row, Message, Tables, Terminal, Seated, Leased, Done, Decided
<1>9. Row(r)' /\ Message(r)'
  BY <1>u, <1>5, <1>8 DEF RunInv, Row, Message, Done, Decided, Terminal
<1>10. Execution(r)'
  BY <1>u, <1>5 DEF RunInv, Execution, Seated, Terminal
<1>11. OneWatcher(r)'
  BY <1>1, <1>4 DEF OneWatcher, Watcher
<1>12. ASSUME NEW v \in Watcher PROVE Watched(v, r)'
  <2>1. CASE v = w
    <3>1. r \notin attached => Quiet(r)
      BY PhaseFacts DEF RunInv, Execution, Quiet
    <3> QED BY <1>u, <1>p, <1>4, <1>5, <2>1, <3>1 DEF Watched, Fits, Quiet
  <2>2. CASE v # w
    <3>1. watch[v][r].phase # "confirm"
      BY DEF RunInv, Watched, Fits, Terminal, Seated, Leased
    <3> QED BY <1>1, <1>4, <2>2, <3>1 DEF Watched, Fits
  <2> QED BY <2>1, <2>2
<1> QED BY <1>6, <1>7, <1>9, <1>10, <1>11, <1>12 DEF Kept, RunInv

\* Recovery claims a run that is due.
LEMMA Recovers ==
    ASSUME IInv, NEW r \in Run, ClaimRecovery(r)
    PROVE  Kept(r)
<1> /\ Tables /\ RunInv(r)
  BY DEF IInv
<1> PICK kind : kind = RecoveryReason(r) OBVIOUS
<1>1. state[r] \in Seated
  BY DEF ClaimRecovery, Seated
<1>2. kind \in Kinds \ {"none"}
  BY DEF ClaimRecovery, RecoveryReason, RunInv, Row, Tables, Ticket, Kinds
<1>3. /\ TakeControl("recovery", r, kind, FirstPhase(r))
      /\ UNCHANGED <<sink, execVars, retired, pubVars>>
  BY DEF ClaimRecovery
<1> QED BY <1>1, <1>2, <1>3, TakesControl DEF Watcher

\* A client cancels: a queued run ends at once, a seated one is taken over.
LEMMA Cancels ==
    ASSUME IInv, NEW r \in Run, RequestCancel(r)
    PROVE  Kept(r)
<1> /\ Tables /\ RunInv(r)
  BY DEF IInv
<1>u. UNCHANGED <<sink, execVars, retired, pubVars>>
  BY DEF RequestCancel
<1>1. CASE TakeControl("canceller", r, "cancel", FirstPhase(r)) /\ state[r] \in Leased
  BY <1>1, <1>u, TakesControl DEF Watcher, Seated, Kinds
<1>2. CASE state[r] = "queued" /\ Finish(r, "cancelled") /\ UNCHANGED watch
  <2>u. UNCHANGED <<sink, exec, task, cancelled, retired, watch, outbox, publisher>>
    BY <1>u, <1>2 DEF execVars, pubVars
  <2>1. /\ state' \in [Run -> States] /\ due' \in [Run -> {"no", "lease", "deadline"}]
        /\ ticket' \in [Run -> Ticket] /\ attached' \subseteq Run
        /\ completion' \in [Run -> {"none", "prepared", "committed", "abandoned"}]
        /\ \A e \in Run : e # r =>
             /\ state'[e] = state[e] /\ ticket'[e] = ticket[e]
             /\ e \in attached' <=> e \in attached
             /\ completion'[e] = completion[e]
        /\ state'[r] = "cancelled" /\ Row(r)' /\ Message(r)'
    BY <1>2, <2>u, FinishRow DEF Terminal
  <2>2. exec[r] = "none" /\ task[r] = "none"
    BY <1>2 DEF RunInv, Execution, Tables, Tasks
  <2>3. Tables'
    BY <2>u, <2>1 DEF Tables
  <2>4. Others(r)
    BY <2>u, <2>1 DEF Others, Same
  <2>5. Execution(r)' /\ OneWatcher(r)'
    BY <2>u, <2>1, <2>2, PhaseFacts DEF RunInv, Execution, Quiet, OneWatcher, Seated, Leased
  <2>6. ASSUME NEW w \in Watcher PROVE Watched(w, r)'
    <3>1. ~watch[w][r].mine /\ watch[w][r].phase # "confirm"
      BY <1>2 DEF RunInv, Watched, Fits, Terminal
    <3> QED BY <2>u, <3>1 DEF Watched, Fits
  <2> QED BY <2>1, <2>3, <2>4, <2>5, <2>6 DEF Kept, RunInv
<1> QED BY <1>1, <1>2 DEF RequestCancel

\* The canceller gives the run up and forgets it.
LEMMA GivesUp ==
    ASSUME IInv, NEW r \in Run, GiveUp(r)
    PROVE  Kept(r)
<1> /\ Tables /\ RunInv(r) /\ "canceller" \in Watcher
  BY DEF IInv, Watcher
<1>u. UNCHANGED <<sink, exec, task, cancelled, retired, outbox, publisher>>
  BY DEF GiveUp, execVars, pubVars
<1> PICK item \in Item : item = Idle
  BY Items
<1>i. Fits(item, r) /\ ~item.mine /\ item.phase = "idle"
  BY DEF Fits, Idle
<1>w. watch' = [watch EXCEPT !["canceller"][r] = item]
  BY DEF GiveUp, Rest
<1>1. CASE UNCHANGED rowVars
  BY <1>1, <1>u, <1>i, <1>w, WatchStep DEF pubVars, Tables
<1>2. CASE ~UNCHANGED rowVars
  <2>1. TicketMatches("canceller", r) /\ Finish(r, "given_up")
    BY <1>2 DEF GiveUp
  <2>2. watch["canceller"][r].mine /\ state[r] = "cancelling"
    BY <2>1 DEF TicketMatches
  <2>4. /\ state' \in [Run -> States] /\ due' \in [Run -> {"no", "lease", "deadline"}]
        /\ ticket' \in [Run -> Ticket] /\ attached' \subseteq Run
        /\ completion' \in [Run -> {"none", "prepared", "committed", "abandoned"}]
        /\ \A e \in Run : e # r =>
             /\ state'[e] = state[e] /\ ticket'[e] = ticket[e]
             /\ e \in attached' <=> e \in attached
             /\ completion'[e] = completion[e]
        /\ state'[r] = "given_up" /\ Row(r)' /\ Message(r)'
        /\ completion[r] # "none" => completion'[r] # "none"
    BY <1>u, <2>1, <2>2, FinishRow DEF Seated, Terminal
  <2>6. /\ watch' \in [Watcher -> [Run -> Item]] /\ watch'["canceller"][r] = item
        /\ \A v \in Watcher, e \in Run :
             v # "canceller" \/ e # r => watch'[v][e] = watch[v][e]
    BY <1>w, OneItem DEF Tables
  <2>7. Tables'
    BY <1>u, <2>4, <2>6 DEF Tables
  <2>8. Others(r)
    BY <1>u, <2>4, <2>6 DEF Others, Same
  <2>9. Execution(r)'
    BY <1>u, <2>2, <2>4 DEF RunInv, Execution, Seated, Leased
  <2>10. /\ ~watch["recovery"][r].mine /\ watch["recovery"][r].phase # "confirm"
         /\ watch'["recovery"][r] = watch["recovery"][r]
    BY <2>2, <2>6 DEF RunInv, OneWatcher, Watcher, Watched, Fits, Terminal
  <2>11. OneWatcher(r)'
    BY <2>10 DEF OneWatcher
  <2>12. Watched("recovery", r)'
    BY <2>10 DEF Watched, Fits
  <2>13. Watched("canceller", r)'
    BY <1>i, <2>6 DEF Watched, Fits
  <2> QED BY <2>4, <2>7, <2>8, <2>9, <2>11, <2>12, <2>13 DEF Kept, RunInv, Watcher
<1> QED BY <1>1, <1>2

-----------------------------------------------------------------------------
(* Steps of the publisher, and the death of the daemon. *)

\* A step of the publisher touches the message of a decided completion, which
\* no watcher is looking at.
LEMMA PublisherStep ==
    ASSUME IInv, NEW r \in Run, NEW m, NEW o, NEW q,
           sink' = [sink EXCEPT ![r] = m], outbox' = [outbox EXCEPT ![r] = o],
           publisher' = [publisher EXCEPT ![r] = q],
           m \in {"absent", "staged", "published", "discarded"},
           o \in {"due", "projected", "deferred"},
           q \in {"idle", "publish", "discard", "projected", "deferred"},
           m # sink[r] => Decided(r), Message(r)',
           UNCHANGED <<rowVars, execVars, retired, watch>>
    PROVE  Kept(r)
<1> /\ Tables /\ RunInv(r)
  BY DEF IInv
<1>u. UNCHANGED <<state, due, ticket, attached, completion, exec, task, cancelled, retired,
                  watch>>
  BY DEF rowVars, execVars
<1>1. sink'[r] = m
  BY DEF Tables
<1>2. Tables'
  BY <1>u DEF Tables
<1>3. Others(r)
  BY <1>u DEF Others, Same, Tables
<1>4. Row(r)' /\ Execution(r)' /\ OneWatcher(r)'
  BY <1>u DEF RunInv, Row, Execution, Quiet, OneWatcher
<1>5. ASSUME NEW w \in Watcher PROVE Watched(w, r)'
  BY <1>u, <1>1 DEF RunInv, Watched, Fits, Quiet, Decided
<1> QED BY <1>2, <1>3, <1>4, <1>5 DEF Kept, RunInv

\* The publisher takes up, applies, defers or acknowledges an event.
LEMMA Publishes ==
    ASSUME IInv, NEW r \in Run, CompletionLoop(r) \/ DeferralElapses(r)
    PROVE  Kept(r)
<1> /\ Tables /\ RunInv(r)
  BY DEF IInv
<1> PICK m0 : m0 = sink[r] OBVIOUS
<1> PICK o0 : o0 = outbox[r] OBVIOUS
<1> PICK q0 : q0 = publisher[r] OBVIOUS
<1>t. /\ m0 \in {"absent", "staged", "published", "discarded"}
      /\ o0 \in {"due", "projected", "deferred"}
      /\ q0 \in {"idle", "publish", "discard", "projected", "deferred"}
  BY DEF Tables, RunInv, Message
<1>u. UNCHANGED <<rowVars, execVars, retired, watch>>
  BY DEF CompletionLoop, ProjectEvent, ApplyToSink, SinkTimesOut, RecordProjection,
         ProjectionStoreFails, DeferralElapses
<1>v. UNCHANGED <<state, completion>>
  BY <1>u DEF rowVars
<1>1. CASE ProjectEvent(r)
  <2> PICK q : q = IF completion[r] = "committed" THEN "publish" ELSE "discard" OBVIOUS
  <2>1. /\ sink' = [sink EXCEPT ![r] = m0] /\ outbox' = [outbox EXCEPT ![r] = o0]
        /\ publisher' = [publisher EXCEPT ![r] = q] /\ publisher'[r] = q
        /\ UNCHANGED <<sink, outbox>>
    BY <1>1 DEF ProjectEvent, Tables
  <2>2. Message(r)'
    BY <1>1, <1>v, <2>1 DEF ProjectEvent, RunInv, Message, Done, Decided
  <2> QED BY <1>t, <1>u, <2>1, <2>2, PublisherStep
<1>2. CASE ApplyToSink(r) \/ SinkTimesOut(r)
  <2>1. PICK m : /\ m \in {m0, SinkAfter(r)} /\ sink' = [sink EXCEPT ![r] = m]
                 /\ ApplyToSink(r) => m = SinkAfter(r)
    BY <1>2 DEF ApplyToSink, SinkTimesOut
  <2>2. PICK q : /\ publisher' = [publisher EXCEPT ![r] = q]
                 /\ q = "deferred" \/ (q = Verdict(r) /\ m = SinkAfter(r))
    BY <1>2, <2>1 DEF ApplyToSink, SinkTimesOut
  <2>3. q0 \in {"publish", "discard"} /\ UNCHANGED outbox
    BY <1>2 DEF ApplyToSink, SinkTimesOut
  <2>4. /\ q0 = "publish" => completion[r] = "committed" /\ state[r] = "succeeded"
        /\ q0 = "discard" => completion[r] = "abandoned" /\ state[r] \in Terminal
                             /\ state[r] # "succeeded"
    BY DEF RunInv, Message, Row
  <2>5. /\ m0 = "published" => q0 = "publish"
        /\ m0 = "discarded" => q0 = "discard"
    BY <2>3, <2>4 DEF RunInv, Message
  <2>6. /\ m \in {"absent", "staged", "published", "discarded"}
        /\ m0 = "absent" <=> m = "absent"
        /\ m = "published" => q0 = "publish"
        /\ m = "discarded" => q0 = "discard"
        /\ m # m0 => m \in {"published", "discarded"}
    BY <1>t, <2>1, <2>3, <2>5 DEF SinkAfter
  <2>7. \/ q = "deferred"
        \/ /\ q = "projected"
           /\ q0 = "publish" => m = "published"
           /\ q0 = "discard" => m \in {"absent", "discarded"}
    <3> PICK n : n = SinkAfter(r) OBVIOUS
    <3>1. /\ q0 = "publish" => n \in {"published", "absent"}
          /\ q0 = "discard" => n \in {"discarded", "absent"}
      BY <1>t, <2>3, <2>5 DEF SinkAfter
    <3> QED BY <2>2, <2>3, <3>1 DEF Verdict
  <2>8. /\ sink'[r] = m /\ publisher'[r] = q /\ outbox' = [outbox EXCEPT ![r] = o0]
    BY <2>1, <2>2, <2>3 DEF Tables
  <2>9. Done(r) => Done(r)'
    BY <1>v, <2>3, <2>4, <2>6, <2>8 DEF Done, Decided
  <2>10. q = "projected" => Done(r)'
    BY <1>v, <2>3, <2>4, <2>7, <2>8 DEF Done, Decided
  <2>11. Message(r)'
    BY <1>v, <2>3, <2>4, <2>6, <2>7, <2>8, <2>9, <2>10 DEF RunInv, Message
  <2> QED BY <1>t, <1>u, <2>1, <2>2, <2>3, <2>4, <2>6, <2>7, <2>8, <2>11, PublisherStep
          DEF Decided
<1>3. CASE RecordProjection(r)
  <2>1. /\ sink' = [sink EXCEPT ![r] = m0] /\ outbox' = [outbox EXCEPT ![r] = q0]
        /\ publisher' = [publisher EXCEPT ![r] = "idle"] /\ publisher'[r] = "idle"
        /\ outbox'[r] = q0 /\ UNCHANGED sink /\ q0 \in {"projected", "deferred"}
    BY <1>3, <1>t DEF RecordProjection, Tables
  <2>2. Message(r)'
    BY <1>3, <1>v, <2>1 DEF RunInv, Message, Done, Decided
  <2> QED BY <1>t, <1>u, <2>1, <2>2, PublisherStep
<1>4. CASE ProjectionStoreFails(r)
  <2>1. /\ sink' = [sink EXCEPT ![r] = m0] /\ outbox' = [outbox EXCEPT ![r] = o0]
        /\ publisher' = [publisher EXCEPT ![r] = "idle"] /\ publisher'[r] = "idle"
        /\ UNCHANGED <<sink, outbox>>
    BY <1>4 DEF ProjectionStoreFails, Tables
  <2>2. Message(r)'
    BY <1>4, <1>v, <2>1 DEF RunInv, Message, Done, Decided
  <2> QED BY <1>t, <1>u, <2>1, <2>2, PublisherStep
<1>5. CASE DeferralElapses(r)
  <2>1. /\ sink' = [sink EXCEPT ![r] = m0] /\ outbox' = [outbox EXCEPT ![r] = "due"]
        /\ publisher' = [publisher EXCEPT ![r] = q0] /\ outbox'[r] = "due"
        /\ UNCHANGED <<sink, publisher>>
    BY <1>5 DEF DeferralElapses, Tables
  <2>2. Message(r)'
    BY <1>5, <1>v, <2>1 DEF RunInv, Message, Done, Decided
  <2> QED BY <1>t, <1>u, <2>1, <2>2, PublisherStep
<1> QED BY <1>1, <1>2, <1>3, <1>4, <1>5 DEF CompletionLoop

\* The daemon dies: nothing of any run can act any more.
LEMMA Dies ==
    ASSUME IInv, Crash
    PROVE  IInv'
<1> Tables
  BY DEF IInv
<1>u. UNCHANGED <<state, due, ticket, attached, completion, sink, outbox>>
  BY DEF Crash, rowVars
<1>i. Idle \in Item /\ Idle.phase = "idle" /\ ~Idle.mine
  BY DEF Idle, Item, WatchPhases, Kinds
<1>1. \A r \in Run : /\ exec'[r] \in {"none", "ended"} /\ task'[r] = "none"
                     /\ exec[r] = "none" => exec'[r] = "none"
                     /\ publisher'[r] = "idle"
                     /\ \A w \in Watcher : watch'[w][r] = Idle
  BY DEF Crash
<1>2. Tables'
  <2>1. exec' \in [Run -> ExecPhases] /\ task' \in [Run -> Tasks]
    BY PhaseFacts DEF Crash, Tasks
  <2>2. watch' \in [Watcher -> [Run -> Item]]
    BY <1>i DEF Crash
  <2>3. cancelled' \subseteq Run /\ retired' \subseteq Run
        /\ publisher' \in [Run -> {"idle", "publish", "discard", "projected", "deferred",
                                   "quarantined"}]
    BY DEF Crash
  <2> QED BY <1>u, <2>1, <2>2, <2>3 DEF Tables
<1>3. ASSUME NEW r \in Run PROVE RunInv(r)'
  <2> RunInv(r)
    BY DEF IInv
  <2>1. Row(r)'
    BY <1>u DEF RunInv, Row
  <2>2. Message(r)'
    BY <1>u, <1>1 DEF RunInv, Message, Done, Decided
  <2>3. Execution(r)'
    BY <1>u, <1>1, PhaseFacts DEF RunInv, Execution, Quiet
  <2>4. OneWatcher(r)' /\ \A w \in Watcher : Watched(w, r)'
    BY <1>i, <1>1 DEF OneWatcher, Watched, Fits, Watcher
  <2> QED BY <2>1, <2>2, <2>3, <2>4 DEF RunInv
<1> QED BY <1>2, <1>3 DEF IInv

-----------------------------------------------------------------------------
(* The invariant. *)

\* It holds before any run exists.
LEMMA InitInv == Init => IInv
<1> SUFFICES ASSUME Init PROVE IInv
  OBVIOUS
<1>1. /\ NoTicket \in Ticket /\ NoTicket.kind = "none" /\ NoTicket.live = FALSE
      /\ Idle \in Item /\ Idle.phase = "idle" /\ Idle.mine = FALSE
  BY DEF NoTicket, Ticket, Kinds, Idle, Item, WatchPhases
<1>2. Tables
  BY <1>1 DEF Init, Tables, States, ExecPhases, Tasks
<1>3. ASSUME NEW r \in Run PROVE RunInv(r)
  <2>1. Row(r) /\ Execution(r) /\ Message(r)
    BY <1>1 DEF Init, Row, Execution, Message, Seated, Leased, Terminal
  <2>2. OneWatcher(r) /\ \A w \in Watcher : Watched(w, r)
    BY <1>1 DEF Init, OneWatcher, Watcher, Watched, Fits
  <2> QED BY <2>1, <2>2 DEF RunInv
<1> QED BY <1>2, <1>3 DEF IInv

\* A step that touches one run keeps it, whatever the step.
LEMMA StepOfRun ==
    ASSUME IInv, NEW r \in Run,
           \/ ExecutionLoop(r) \/ BlockingPool(r) \/ ClaimRecovery(r)
           \/ EnqueueRun(r) \/ RequestCancel(r) \/ GiveUp(r) \/ CompletionLoop(r)
           \/ LeaseExpires(r) \/ DeadlinePasses(r) \/ TicketExpires(r)
           \/ DeferralElapses(r)
           \/ \E w \in Watcher : WatchLoop(w, r)
    PROVE  Kept(r)
<1>1. CASE ExecutionLoop(r)
  BY <1>1, ComingAlive, BeforeActing, WhileActing, Settles DEF ExecutionLoop
<1>2. CASE BlockingPool(r)
  BY <1>2, Preparing, Staging, WhileActing DEF BlockingPool
<1>3. CASE ClaimRecovery(r) \/ RequestCancel(r) \/ GiveUp(r)
  BY <1>3, Recovers, Cancels, GivesUp
<1>4. CASE EnqueueRun(r)
  BY <1>4, ComingAlive
<1>5. CASE CompletionLoop(r) \/ DeferralElapses(r)
  BY <1>5, Publishes
<1>6. CASE LeaseExpires(r) \/ DeadlinePasses(r) \/ TicketExpires(r)
  BY <1>6, TimePasses
<1>7. CASE \E w \in Watcher : WatchLoop(w, r)
  BY <1>7, Observes, Concludes DEF WatchLoop
<1> QED BY <1>1, <1>2, <1>3, <1>4, <1>5, <1>6, <1>7

\* Nothing changes while nothing happens.
LEMMA Stutter ==
    ASSUME IInv, UNCHANGED vars
    PROVE  IInv'
<1>u. UNCHANGED <<state, due, ticket, attached, completion, sink, exec, task, cancelled,
                  retired, watch, outbox, publisher>>
  BY DEF vars, rowVars, execVars, pubVars
<1>1. Tables'
  BY <1>u DEF IInv, Tables
<1>2. \A e \in Run : Same(e)
  BY <1>u DEF Same
<1> QED BY <1>1, <1>2, Untouched DEF IInv

\* Every step keeps the invariant.
LEMMA NextInv ==
    ASSUME IInv, [Next]_vars
    PROVE  IInv'
<1>1. ASSUME NEW r \in Run,
           \/ ExecutionLoop(r) \/ BlockingPool(r) \/ ClaimRecovery(r)
           \/ EnqueueRun(r) \/ RequestCancel(r) \/ GiveUp(r) \/ CompletionLoop(r)
           \/ LeaseExpires(r) \/ DeadlinePasses(r) \/ TicketExpires(r)
           \/ DeferralElapses(r)
           \/ \E w \in Watcher : WatchLoop(w, r)
      PROVE  IInv'
  BY <1>1, StepOfRun, OneRun
<1> QED BY <1>1, Dies, Stutter DEF Next

\* The invariant holds throughout, whatever the clock does.
THEOREM ExecutionInvariant == Spec => []IInv
BY InitInv, NextInv, PTL DEF Spec

\* Whatever leases, tickets, crashes and clocks do: a settled run has nothing
\* left that could act, callers read only the message of a run that succeeded,
\* an acknowledged event has had its effect, a lost lease never throws a staged
\* result away, and no event is set aside for ever.
THEOREM ResultsAlwaysFollow ==
    Spec => [](/\ TypeOK /\ SettledIsQuiet /\ SinkFollowsRun /\ AcknowledgedIsDone
               /\ LostLeaseKeepsResult /\ NothingQuarantined)
<1>1. IInv => TypeOK
  <2> SUFFICES ASSUME IInv PROVE TypeOK
    OBVIOUS
  <2>1. Tables
    BY DEF IInv
  <2>2. ASSUME NEW r \in Run PROVE state[r] = "cancelling" <=> ticket[r] # NoTicket
    <3>1. ticket[r] \in Ticket /\ Row(r)
      BY DEF IInv, RunInv, Tables
    <3>2. ticket[r].kind = "none" => ticket[r] = NoTicket
      BY <3>1 DEF Ticket, NoTicket, Row
    <3>3. NoTicket.kind = "none"
      BY DEF NoTicket
    <3> QED BY <3>1, <3>2, <3>3 DEF Row
  <2> QED BY <2>1, <2>2 DEF Tables, TypeOK, States, ExecPhases, Tasks
<1>2. IInv => SettledIsQuiet
  BY DEF IInv, RunInv, Execution, Quiet, Acting, SettledIsQuiet
<1>3. IInv => SinkFollowsRun /\ LostLeaseKeepsResult
  BY DEF IInv, RunInv, Message, SinkFollowsRun, LostLeaseKeepsResult
<1>4. IInv => AcknowledgedIsDone
  BY DEF IInv, RunInv, Message, Done, AcknowledgedIsDone
<1>5. IInv => NothingQuarantined
  BY DEF IInv, RunInv, Message, NothingQuarantined
<1> QED BY <1>1, <1>2, <1>3, <1>4, <1>5, ExecutionInvariant, PTL

-----------------------------------------------------------------------------
(* Tombstones, while the clock does not overtake the local window. *)

\* A run whose row, ticket and watchers stay keeps its tombstone's reason.
LEMMA TombStays ==
    ASSUME NEW r \in Run, TombInv(r),
           state'[r] = state[r], ticket'[r] = ticket[r],
           \A w \in Watcher : watch'[w][r] = watch[w][r],
           r \in retired' => r \in retired
    PROVE  TombInv(r)'
BY DEF TombInv, Watcher

\* A run that is not under control has no tombstone and nobody observes it.
LEMMA TombFree ==
    ASSUME Tables, NEW r \in Run, RunInv(r), TombInv(r),
           state[r] \in Leased \cup {"absent", "queued"}
    PROVE  r \notin retired /\ \A w \in Watcher : watch[w][r].phase \notin {"look", "wait"}
<1>1. ~ticket[r].live
  BY DEF RunInv, Row, Leased
<1> QED BY <1>1 DEF TombInv, Terminal, Leased

\* Steps that touch neither watchers nor tickets.
LEMMA TombRow ==
    ASSUME Tables, NEW r \in Run, RunInv(r), TombInv(r),
           \/ ExecutionLoop(r) \/ BlockingPool(r) \/ EnqueueRun(r) \/ CompletionLoop(r)
           \/ LeaseExpires(r) \/ DeadlinePasses(r) \/ DeferralElapses(r)
    PROVE  TombInv(r)'
<1>1. UNCHANGED watch /\ retired' \subseteq retired
  BY DEF ExecutionLoop, ClaimRun, StartRun, PollExecutor, Authorize, RegisterExact,
         Reauthorize, AuthorizeEffect, PerformEffect, CallPrepare, CallStage, Return,
         DropFuture, SettleRun, CommitStagedCompletion, BlockingPool, PrepareCompletion,
         ValidateCompletionNow, StageMessage, EnqueueRun, CompletionLoop, ProjectEvent,
         ApplyToSink, SinkTimesOut, RecordProjection, ProjectionStoreFails, LeaseExpires,
         DeadlinePasses, DeferralElapses
<1>2. UNCHANGED <<state, ticket>> \/ state[r] \in Leased \cup {"absent", "queued"}
  BY DEF ExecutionLoop, ClaimRun, StartRun, PollExecutor, Authorize, RegisterExact,
         Reauthorize, AuthorizeEffect, PerformEffect, CallPrepare, CallStage, Return,
         DropFuture, SettleRun, CommitStagedCompletion, BlockingPool, PrepareCompletion,
         ValidateCompletionNow, StageMessage, EnqueueRun, CompletionLoop, ProjectEvent,
         ApplyToSink, SinkTimesOut, RecordProjection, ProjectionStoreFails, LeaseExpires,
         DeadlinePasses, DeferralElapses, rowVars, Authenticated, CompletionPermitValid,
         Leased
<1>3. CASE UNCHANGED <<state, ticket>>
  BY <1>1, <1>3, TombStays
<1>4. CASE state[r] \in Leased \cup {"absent", "queued"}
  BY <1>1, <1>4, TombFree DEF TombInv
<1> QED BY <1>2, <1>3, <1>4

\* A ticket runs out only while nobody observes for it.
LEMMA TombTicket ==
    ASSUME ~ClockMayJump, Tables, NEW r \in Run, RunInv(r), TombInv(r), TicketExpires(r)
    PROVE  TombInv(r)'
<1>1. UNCHANGED <<state, watch, retired>> /\ ~Observing(r)
  BY DEF TicketExpires
<1>2. \A w \in Watcher : watch[w][r].phase \notin {"look", "wait"}
  BY <1>1 DEF Observing, TombInv
<1> QED BY <1>1, <1>2 DEF TombInv, Watcher

\* Control is taken of a run nobody observes.
LEMMA TombControl ==
    ASSUME Tables, NEW r \in Run, RunInv(r), TombInv(r), RunInv(r)',
           ClaimRecovery(r) \/ RequestCancel(r)
    PROVE  TombInv(r)'
<1>1. CASE state[r] = "queued"
  <2>1. UNCHANGED <<watch, retired>>
    BY <1>1 DEF ClaimRecovery, RequestCancel, Leased
  <2> QED BY <1>1, <2>1, TombFree DEF TombInv
<1>2. CASE state[r] # "queued"
  <2>1. PICK w \in Watcher :
           /\ \E kind, phase : TakeControl(w, r, kind, phase)
           /\ UNCHANGED retired
           /\ w = "canceller" => state[r] \in Leased
           /\ state[r] \in Leased \/ (state[r] = "cancelling" /\ ~ticket[r].live)
    BY <1>2 DEF ClaimRecovery, RequestCancel, Watcher
  <2>c. PICK kind : \E phase : TakeControl(w, r, kind, phase)
    BY <2>1
  <2>d. PICK phase : TakeControl(w, r, kind, phase)
    BY <2>c
  <2>2. \A v \in Watcher : watch[v][r].phase \notin {"look", "wait"}
    BY <2>1, TombFree DEF TombInv
  <2>3. state'[r] = "cancelling" /\ ticket'[r].live
    BY <2>d DEF TakeControl, Tables
  <2>4. /\ watch'[w][r].mine = TRUE
        /\ \A v \in Watcher : v # w =>
             watch'[v][r].mine = FALSE /\ watch'[v][r].phase = watch[v][r].phase
    <3>1. \A v \in Watcher : watch[v] \in [Run -> Item]
      BY DEF Tables
    <3>2. watch'[w][r] = [phase |-> phase, kind |-> kind, mine |-> TRUE]
      BY <2>d, <3>1 DEF TakeControl
    <3>3. \A v \in Watcher : v # w => watch'[v][r] = [watch[v][r] EXCEPT !.mine = FALSE]
      BY <2>d, <3>1 DEF TakeControl
    <3>4. \A i \in Item : /\ [i EXCEPT !.mine = FALSE].mine = FALSE
                          /\ [i EXCEPT !.mine = FALSE].phase = i.phase
      BY DEF Item
    <3>5. \A v \in Watcher : watch[v][r] \in Item
      BY <3>1
    <3>6. watch'[w][r].mine = TRUE
      BY <3>2
    <3>7. ASSUME NEW v \in Watcher, v # w
          PROVE  watch'[v][r].mine = FALSE /\ watch'[v][r].phase = watch[v][r].phase
      <4>1. PICK i \in Item : i = watch[v][r]
        BY <3>5
      <4>2. watch'[v][r] = [i EXCEPT !.mine = FALSE]
        BY <3>3, <3>7, <4>1
      <4> QED BY <4>1, <4>2, <3>4
    <3> QED BY <3>6, <3>7
  <2>5. w = "canceller" => r \notin retired
    BY <2>1, TombFree
  <2> QED BY <2>1, <2>2, <2>3, <2>4, <2>5 DEF TombInv, Watcher
<1> QED BY <1>1, <1>2

\* Watchers: the observation that leaves a tombstone holds the live ticket.
LEMMA TombWatch ==
    ASSUME Tables, NEW w \in Watcher, NEW r \in Run, RunInv(r), TombInv(r), RunInv(r)',
           WatchLoop(w, r) \/ (w = "canceller" /\ GiveUp(r))
    PROVE  TombInv(r)'
<1>i. Idle \in Item /\ Idle.phase = "idle" /\ ~Idle.mine
  BY DEF Idle, Item, WatchPhases, Kinds
<1>m. ASSUME NEW p \in WatchPhases, Move(w, r, p)
      PROVE  /\ watch'[w][r].phase = p /\ watch'[w][r].mine = watch[w][r].mine
             /\ \A v \in Watcher : v # w => watch'[v][r] = watch[v][r]
  BY <1>m, Items, OneItem DEF Tables, Item
<1>n. ASSUME Rest(w, r)
      PROVE  /\ watch'[w][r] = Idle
             /\ \A v \in Watcher : v # w => watch'[v][r] = watch[v][r]
  BY <1>n DEF Tables, Rest
<1>l. ticket[r].live => state[r] = "cancelling"
  BY DEF RunInv, Row
<1>1. CASE UNCHANGED <<state, ticket>>
  <2>1. CASE Rest(w, r) /\ retired' \subseteq retired \ {r}
    BY <1>1, <1>i, <1>n, <2>1 DEF TombInv, Watcher
  <2>2. CASE Rest(w, r) /\ UNCHANGED retired /\ watch[w][r].phase # "confirm"
    BY <1>1, <1>i, <1>n, <2>2 DEF TombInv, Watcher
  <2>3. ASSUME NEW p \in WatchPhases, Move(w, r, p), UNCHANGED retired,
               watch[w][r].phase # "confirm",
               p \in {"wait", "give_up"} => watch[w][r].phase \in {"look", "wait"},
               p # "look"
        PROVE  TombInv(r)'
    BY <1>1, <1>m, <2>3 DEF TombInv, Watcher
  <2>4. CASE /\ Move(w, r, "settle") /\ retired' = retired \cup {r}
             /\ watch[w][r].phase \in {"look", "wait"}
    <3>1. watch[w][r].mine /\ state[r] = "cancelling"
      BY <1>l, <2>4 DEF TombInv
    <3>2. "settle" \in WatchPhases
      BY DEF WatchPhases
    <3>3. \A v \in Watcher : v # w => ~watch[v][r].mine
      BY <3>1 DEF RunInv, OneWatcher, Watcher
    <3> QED BY <1>1, <1>m, <2>4, <3>1, <3>2, <3>3 DEF TombInv, Watcher
  <2>5. CASE ObserveExact(w, r) \/ ObserveExit(w, r) \/ ObserveFails(w, r)
    BY <2>2, <2>3, <2>4, <2>5
    DEF ObserveExact, ObserveExit, ObserveFails, RetireAbsent, Watching, WatchPhases
  <2>6. CASE InspectSink(w, r)
    BY <2>2, <2>3, <2>6 DEF InspectSink, Watching, WatchPhases
  <2>7. CASE ConfirmedGone(w, r)
    BY <2>1, <2>7 DEF ConfirmedGone
  <2>8. CASE GiveUp(r) /\ w = "canceller"
    BY <2>2, <2>8 DEF GiveUp, Watching
  <2>9. CASE SettleGone(w, r) \/ CommitRecovered(w, r)
    <3>1. ~(TicketMatches(w, r) /\ \E how \in Terminal : Finish(r, how))
      BY <1>1 DEF TicketMatches, Finish, Terminal, Tables
    <3> QED BY <2>2, <2>3, <2>9, <3>1
            DEF SettleGone, CommitRecovered, Settled, Watching, WatchPhases, Terminal,
                RecoveryOutcome
  <2> QED BY <2>5, <2>6, <2>7, <2>8, <2>9 DEF WatchLoop
<1>2. CASE ~UNCHANGED <<state, ticket>>
  <2>1. /\ TicketMatches(w, r) /\ UNCHANGED retired
        /\ \E how \in Terminal : Finish(r, how)
        /\ \/ Move(w, r, "confirm")
           \/ Rest(w, r) /\ w = "canceller" /\ watch[w][r].phase = "give_up"
    BY <1>2 DEF WatchLoop, ObserveExact, ObserveExit, ObserveFails, InspectSink,
       ConfirmedGone, GiveUp, SettleGone, CommitRecovered, Settled, rowVars, Terminal,
       RecoveryOutcome, Watching
  <2>2. /\ watch[w][r].mine /\ \A v \in Watcher : v # w => ~watch[v][r].mine
        /\ state'[r] \in Terminal
    BY <2>1 DEF TicketMatches, RunInv, OneWatcher, Watcher, Finish, Tables
  <2>3. \A v \in Watcher : v # w => watch[v][r].phase \notin {"look", "wait"}
    BY <2>2 DEF TombInv
  <2>4. CASE Move(w, r, "confirm")
    <3>1. "confirm" \in WatchPhases
      BY DEF WatchPhases
    <3> QED BY <1>m, <2>1, <2>2, <2>3, <2>4, <3>1 DEF TombInv, Watcher
  <2>5. CASE Rest(w, r) /\ w = "canceller" /\ watch[w][r].phase = "give_up"
    <3>1. r \notin retired
      BY <2>2, <2>5 DEF TombInv
    <3> QED BY <1>i, <1>n, <2>1, <2>3, <2>5, <3>1 DEF TombInv, Watcher
  <2> QED BY <2>1, <2>4, <2>5
<1> QED BY <1>1, <1>2

\* A step of one run makes a tombstone for that run only.
LEMMA OneTombstone ==
    ASSUME NEW r \in Run,
           \/ ExecutionLoop(r) \/ BlockingPool(r) \/ ClaimRecovery(r)
           \/ EnqueueRun(r) \/ RequestCancel(r) \/ GiveUp(r) \/ CompletionLoop(r)
           \/ LeaseExpires(r) \/ DeadlinePasses(r) \/ TicketExpires(r)
           \/ DeferralElapses(r)
           \/ \E w \in Watcher : WatchLoop(w, r)
    PROVE  retired' \subseteq retired \cup {r}
<1>1. CASE ExecutionLoop(r)
  BY <1>1 DEF ExecutionLoop, ClaimRun, StartRun, PollExecutor, Authorize, RegisterExact,
     Reauthorize, AuthorizeEffect, PerformEffect, CallPrepare, CallStage, Return,
     DropFuture, SettleRun, CommitStagedCompletion
<1>2. CASE BlockingPool(r) \/ CompletionLoop(r) \/ EnqueueRun(r) \/ DeferralElapses(r)
  BY <1>2 DEF BlockingPool, PrepareCompletion, ValidateCompletionNow, StageMessage,
     CompletionLoop, ProjectEvent, ApplyToSink, SinkTimesOut, RecordProjection,
     ProjectionStoreFails, EnqueueRun, DeferralElapses
<1>3. CASE \/ ClaimRecovery(r) \/ RequestCancel(r) \/ GiveUp(r)
           \/ LeaseExpires(r) \/ DeadlinePasses(r) \/ TicketExpires(r)
  BY <1>3 DEF ClaimRecovery, RequestCancel, GiveUp, LeaseExpires, DeadlinePasses,
     TicketExpires
<1>4. CASE \E w \in Watcher : WatchLoop(w, r)
  BY <1>4 DEF WatchLoop, ObserveExact, ObserveExit, ObserveFails, RetireAbsent, SettleGone,
     InspectSink, CommitRecovered, ConfirmedGone
<1> QED BY <1>1, <1>2, <1>3, <1>4

\* With a clock that does not overtake the local window, every step keeps the
\* reason of every tombstone.
LEMMA TombNext ==
    ASSUME ~ClockMayJump, IInv, \A r \in Run : TombInv(r), [Next]_vars, IInv'
    PROVE  \A r \in Run : TombInv(r)'
<1> Tables
  BY DEF IInv
<1>1. ASSUME NEW r \in Run,
           \/ ExecutionLoop(r) \/ BlockingPool(r) \/ ClaimRecovery(r)
           \/ EnqueueRun(r) \/ RequestCancel(r) \/ GiveUp(r) \/ CompletionLoop(r)
           \/ LeaseExpires(r) \/ DeadlinePasses(r) \/ TicketExpires(r)
           \/ DeferralElapses(r)
           \/ \E w \in Watcher : WatchLoop(w, r),
             NEW e \in Run
      PROVE  TombInv(e)'
  <2>1. CASE e # r
    <3>1. Same(e) /\ retired' \subseteq retired \cup {r}
      BY <1>1, <2>1, StepOfRun, OneTombstone DEF Kept, Others
    <3> QED BY <2>1, <3>1, TombStays DEF Same
  <2>2. CASE e = r
    <3>1. RunInv(r) /\ RunInv(r)' /\ TombInv(r) /\ "canceller" \in Watcher
      BY DEF IInv, Watcher
    <3>2. TombInv(r)'
      BY <1>1, <3>1, TombRow, TombTicket, TombControl, TombWatch
    <3> QED BY <2>2, <3>2
  <2> QED BY <2>1, <2>2
<1>2. CASE Crash
  <2>1. retired' = {} /\ \A w \in Watcher, r \in Run : watch'[w][r] = Idle
    BY <1>2 DEF Crash
  <2> QED BY <2>1 DEF TombInv, Idle, Watcher
<1>3. CASE UNCHANGED vars
  BY <1>3, TombStays DEF vars, rowVars
<1> QED BY <1>1, <1>2, <1>3 DEF Next

\* There are no tombstones and no watchers at first.
LEMMA TombInit ==
    ASSUME Init
    PROVE  \A r \in Run : TombInv(r)
<1>1. \A w \in Watcher, r \in Run : watch[w][r].phase = "idle"
  BY DEF Init, Idle
<1> QED BY <1>1 DEF Init, TombInv, Watcher

\* While the store's clock does not overtake the local window of a watcher,
\* tombstones too are released: run, completion, sink, outbox and registry
\* tell the same story at every step.
THEOREM ResultsStayConsistent == ~ClockMayJump => (Spec => []ResultsFollowRuns)
<1> SUFFICES ASSUME ~ClockMayJump PROVE Spec => []ResultsFollowRuns
  OBVIOUS
<1> DEFINE Tombs == \A r \in Run : TombInv(r)
<1>1. Init => Tombs
  BY TombInit
<1>2. ASSUME IInv, Tombs, [Next]_vars, IInv' PROVE Tombs'
  BY <1>2, TombNext
<1>3. IInv /\ Tombs => TombstonesReleased
  BY DEF IInv, Tables, TombInv, TombstonesReleased, Watching, Terminal
<1> HIDE DEF Tombs
<1>4. Spec => [](IInv /\ Tombs)
  BY <1>1, <1>2, ExecutionInvariant, PTL DEF Spec
<1> QED BY <1>3, <1>4, ResultsAlwaysFollow, PTL DEF ResultsFollowRuns

-----------------------------------------------------------------------------
(* The composition implements the store's contract. *)

\* A watcher in control acts for the reason its ticket names; a result is
\* recovered only after a lost lease; a seated run has been claimed.
ReasonInv(r) ==
    /\ state[r] \in Seated => exec[r] # "none"
    /\ \A w \in Watcher : LET item == watch[w][r] IN
         /\ item.mine /\ item.phase # "confirm" => item.kind = ticket[r].kind
         /\ item.mine /\ item.phase \in {"inspect", "recover", "abandon"} =>
              item.kind = "lease_expired"
    /\ watch["canceller"][r].mine /\ watch["canceller"][r].phase # "confirm" =>
         ticket[r].kind = "cancel"

\* What a step may do to a run as the contract sees it.
Still(r) ==
    /\ state'[r] = state[r] \/ {state[r], state'[r]} \subseteq Seated
    /\ Doomed(r)' <=> Doomed(r)
Submitted(r) == state[r] = "absent" /\ state'[r] = "queued" /\ ~Doomed(r) /\ ~Doomed(r)'
Seated1(r) == state[r] = "queued" /\ state'[r] = "starting" /\ ~Doomed(r) /\ ~Doomed(r)'
Dropped(r) == state[r] = "queued" /\ state'[r] = "cancelled" /\ ~Doomed(r) /\ ~Doomed(r)'
Condemned(r) == {state[r], state'[r]} \subseteq Seated /\ Doomed(r)'
Ended(r) ==
    /\ state[r] \in Seated /\ state'[r] \in Terminal /\ (Doomed(r)' <=> Doomed(r))
    /\ state'[r] = "succeeded" => ~Doomed(r)
Promised(r) ==
    Still(r) \/ Submitted(r) \/ Seated1(r) \/ Dropped(r) \/ Condemned(r) \/ Ended(r)

\* A run nobody touched is where it was.
LEMMA ReasonStays ==
    ASSUME NEW e \in Run, ReasonInv(e), Same(e)
    PROVE  ReasonInv(e)' /\ Still(e)
BY DEF ReasonInv, Same, Still, Doomed, Watcher

\* Steps of the execution, the pool, the publisher and the clock.
LEMMA ReasonRow ==
    ASSUME Tables, NEW r \in Run, RunInv(r), ReasonInv(r),
           \/ ExecutionLoop(r) \/ BlockingPool(r) \/ EnqueueRun(r) \/ CompletionLoop(r)
           \/ LeaseExpires(r) \/ DeadlinePasses(r) \/ DeferralElapses(r) \/ TicketExpires(r)
    PROVE  ReasonInv(r)' /\ Promised(r)
<1> USE DEF rowVars, execVars, pubVars
<1>w. UNCHANGED watch
  BY DEF ExecutionLoop, ClaimRun, StartRun, PollExecutor, Authorize, RegisterExact,
         Reauthorize, AuthorizeEffect, PerformEffect, CallPrepare, CallStage, Return,
         DropFuture, SettleRun, CommitStagedCompletion, BlockingPool, PrepareCompletion,
         ValidateCompletionNow, StageMessage, EnqueueRun, CompletionLoop, ProjectEvent,
         ApplyToSink, SinkTimesOut, RecordProjection, ProjectionStoreFails, LeaseExpires,
         DeadlinePasses, DeferralElapses, TicketExpires
<1>n. NoTicket.kind = "none"
  BY DEF NoTicket
<1>s. \/ /\ state'[r] = state[r] /\ ticket'[r].kind = ticket[r].kind
         /\ exec'[r] = "none" <=> exec[r] = "none"
      \/ /\ state[r] = "absent" /\ state'[r] = "queued" /\ UNCHANGED <<ticket, exec>>
      \/ /\ state[r] = "queued" /\ state'[r] = "starting" /\ UNCHANGED ticket
         /\ exec'[r] = "claimed"
      \/ /\ state[r] = "starting" /\ state'[r] = "running" /\ UNCHANGED ticket
         /\ exec'[r] = "started"
      \/ /\ state[r] \in Leased /\ state'[r] \in {"failed", "timed_out", "succeeded"}
         /\ ticket'[r].kind = "none" /\ exec'[r] = "ended"
  <2>1. CASE BlockingPool(r)
    BY <2>1 DEF BlockingPool, PrepareCompletion, ValidateCompletionNow, StageMessage, Deliver,
       Tables
  <2>2. CASE CompletionLoop(r) \/ LeaseExpires(r) \/ DeadlinePasses(r) \/ DeferralElapses(r)
    BY <2>2 DEF CompletionLoop, ProjectEvent, ApplyToSink, SinkTimesOut, RecordProjection,
       ProjectionStoreFails, LeaseExpires, DeadlinePasses, DeferralElapses
  <2>3. CASE TicketExpires(r)
    <3>1. ticket'[r] = [ticket[r] EXCEPT !.live = FALSE] /\ ticket[r] \in Ticket
      BY <2>3 DEF TicketExpires, Tables
    <3>2. ticket'[r].kind = ticket[r].kind
      BY <3>1 DEF Ticket
    <3> QED BY <2>3, <3>2 DEF TicketExpires
  <2>4. CASE EnqueueRun(r) \/ ClaimRun(r) \/ StartRun(r)
    BY <2>4 DEF EnqueueRun, ClaimRun, StartRun, Step, Authenticated, Tables
  <2>5. CASE \/ PollExecutor(r) \/ Authorize(r) \/ RegisterExact(r) \/ Reauthorize(r)
             \/ AuthorizeEffect(r) \/ PerformEffect(r)
    BY <2>5 DEF PollExecutor, Authorize, RegisterExact, Reauthorize, AuthorizeEffect,
       PerformEffect, Step, Tables
  <2>6. CASE CallPrepare(r) \/ CallStage(r) \/ Return(r) \/ DropFuture(r)
    BY <2>6 DEF CallPrepare, CallStage, Return, DropFuture, Begin, Step, Driven, Polled,
       Registered, Tables
  <2>7. CASE SettleRun(r) \/ CommitStagedCompletion(r)
    <3>1. exec'[r] = "ended" /\ exec[r] # "none"
      BY <2>7 DEF SettleRun, CommitStagedCompletion, Step, Settling, Tables
    <3>2. \/ UNCHANGED <<state, ticket>>
          \/ state[r] \in Leased /\ \E how \in {"failed", "timed_out", "succeeded"} : Finish(r, how)
      BY <2>7 DEF SettleRun, CommitStagedCompletion, CompletionPermitValid, Authenticated,
         Leased
    <3> QED BY <1>n, <3>1, <3>2 DEF Finish, Tables
  <2> QED BY <2>1, <2>2, <2>3, <2>4, <2>5, <2>6, <2>7 DEF ExecutionLoop
<1>1. state[r] \in Leased \cup {"absent", "queued"} =>
         ticket[r].kind = "none" /\ \A w \in Watcher : ~watch[w][r].mine
  BY DEF RunInv, Row, Watched, Fits, Leased, Terminal
<1>2. ReasonInv(r)'
  BY <1>w, <1>s, <1>1 DEF ReasonInv, Watcher, Seated, Leased
<1>3. Promised(r)
  BY <1>s, <1>1 DEF Promised, Still, Submitted, Seated1, Ended, Doomed, Seated, Leased,
     Terminal
<1> QED BY <1>2, <1>3

\* Control is taken for the reason the ticket then names.
LEMMA ReasonControl ==
    ASSUME Tables, NEW r \in Run, RunInv(r), ReasonInv(r),
           ClaimRecovery(r) \/ RequestCancel(r)
    PROVE  ReasonInv(r)' /\ Promised(r)
<1>u. UNCHANGED exec
  BY DEF ClaimRecovery, RequestCancel, execVars
<1>1. CASE state[r] = "queued"
  <2>1. UNCHANGED watch /\ state'[r] = "cancelled" /\ ticket'[r].kind = "none"
    BY <1>1 DEF ClaimRecovery, RequestCancel, Leased, Finish, Tables, NoTicket
  <2>2. exec[r] = "none" /\ ticket[r].kind = "none" /\ \A w \in Watcher : ~watch[w][r].mine
    BY <1>1 DEF RunInv, Row, Execution, Watched, Fits, Terminal
  <2> QED BY <1>1, <1>u, <2>1, <2>2
          DEF Promised, Dropped, Doomed, ReasonInv, Watcher, Seated, Leased
<1>2. CASE state[r] # "queued"
  <2>1. PICK w \in Watcher :
           /\ \E kind, phase : /\ TakeControl(w, r, kind, phase)
                               /\ phase \in {"look", "settle"}
                               /\ w = "canceller" => kind = "cancel"
                               /\ w = "recovery" => kind = RecoveryReason(r)
           /\ w = "canceller" => state[r] \in Leased
           /\ state[r] \in Leased \/ (state[r] = "cancelling" /\ ~ticket[r].live)
    BY <1>2 DEF ClaimRecovery, RequestCancel, Watcher, FirstPhase
  <2>a. PICK kind : \E phase : /\ TakeControl(w, r, kind, phase)
                               /\ phase \in {"look", "settle"}
                               /\ w = "canceller" => kind = "cancel"
                               /\ w = "recovery" => kind = RecoveryReason(r)
    BY <2>1
  <2>2. PICK phase : /\ TakeControl(w, r, kind, phase)
                     /\ phase \in {"look", "settle"}
                     /\ w = "canceller" => kind = "cancel"
                     /\ w = "recovery" => kind = RecoveryReason(r)
    BY <2>a
  <2>3. state'[r] = "cancelling" /\ ticket'[r].kind = kind
    BY <2>2 DEF TakeControl, Tables
  <2>4. \A v \in Watcher : watch[v] \in [Run -> Item]
    BY DEF Tables
  <2>5. watch'[w][r] = [phase |-> phase, kind |-> kind, mine |-> TRUE]
    BY <2>2, <2>4 DEF TakeControl
  <2>6. ASSUME NEW v \in Watcher, v # w PROVE ~watch'[v][r].mine
    <3>1. PICK i \in Item : i = watch[v][r]
      BY <2>4
    <3>2. watch'[v][r] = [i EXCEPT !.mine = FALSE]
      BY <2>2, <2>4, <2>6, <3>1 DEF TakeControl
    <3> QED BY <3>2 DEF Item
  <2>7. watch'[w][r].phase = phase /\ watch'[w][r].kind = kind
    BY <2>5
  <2>8. ReasonInv(r)'
    <3>1. exec'[r] # "none"
      BY <1>u, <2>1 DEF ReasonInv, Seated
    <3>2. w = "canceller" => kind = "cancel"
      BY <2>2
    <3> QED BY <2>2, <2>3, <2>6, <2>7, <3>1, <3>2 DEF ReasonInv, Watcher
  <2>9. Promised(r)
    <3>1. {state[r], state'[r]} \subseteq Seated
      BY <2>1, <2>3 DEF Seated
    <3>2. w = "recovery" => (Doomed(r)' <=> Doomed(r))
      BY <2>1, <2>2, <2>3 DEF RecoveryReason, Doomed, RunInv, Row, Leased
    <3>3. w = "canceller" => Doomed(r)'
      BY <2>2, <2>3 DEF Doomed
    <3> QED BY <3>1, <3>2, <3>3 DEF Promised, Still, Condemned, Watcher
  <2> QED BY <2>8, <2>9
<1> QED BY <1>1, <1>2

\* A watcher settles the run for the reason of its ticket.
LEMMA ReasonWatch ==
    ASSUME Tables, NEW w \in Watcher, NEW r \in Run, RunInv(r), ReasonInv(r),
           WatchLoop(w, r) \/ (w = "canceller" /\ GiveUp(r))
    PROVE  ReasonInv(r)' /\ Promised(r)
<1>i. Idle \in Item /\ Idle.phase = "idle" /\ ~Idle.mine
  BY DEF Idle, Item, WatchPhases, Kinds
<1>m. ASSUME NEW p \in WatchPhases, Move(w, r, p)
      PROVE  /\ watch'[w][r].phase = p /\ watch'[w][r].mine = watch[w][r].mine
             /\ watch'[w][r].kind = watch[w][r].kind
             /\ \A v \in Watcher : v # w => watch'[v][r] = watch[v][r]
  BY <1>m, Items, OneItem DEF Tables, Item
<1>n. ASSUME Rest(w, r)
      PROVE  /\ watch'[w][r] = Idle
             /\ \A v \in Watcher : v # w => watch'[v][r] = watch[v][r]
  BY <1>n DEF Tables, Rest
<1>u. UNCHANGED exec
  BY DEF WatchLoop, ObserveExact, ObserveExit, ObserveFails, InspectSink, ConfirmedGone,
     GiveUp, SettleGone, CommitRecovered, execVars
<1>1. CASE UNCHANGED <<state, ticket>>
  <2>1. Promised(r)
    BY <1>1, <1>u DEF Promised, Still, Doomed
  <2>2. CASE Rest(w, r)
    BY <1>1, <1>i, <1>n, <1>u, <2>1, <2>2 DEF ReasonInv, Watcher
  <2>3. ASSUME NEW p \in WatchPhases, Move(w, r, p), watch[w][r].phase # "confirm",
               \/ p \in {"wait", "settle", "give_up"}
               \/ p = "inspect" /\ watch[w][r].kind = "lease_expired"
               \/ p \in {"recover", "abandon"} /\ watch[w][r].phase = "inspect"
        PROVE  ReasonInv(r)'
    BY <1>1, <1>m, <1>u, <2>3 DEF ReasonInv, Watcher
  <2>4. CASE ObserveExact(w, r) \/ ObserveExit(w, r) \/ ObserveFails(w, r)
    BY <2>1, <2>2, <2>3, <2>4
    DEF ObserveExact, ObserveExit, ObserveFails, RetireAbsent, Watching, WatchPhases
  <2>5. CASE InspectSink(w, r)
    BY <2>1, <2>2, <2>3, <2>5 DEF InspectSink, Watching, WatchPhases
  <2>6. CASE ConfirmedGone(w, r) \/ (GiveUp(r) /\ w = "canceller")
    BY <2>1, <2>2, <2>6 DEF ConfirmedGone, GiveUp
  <2>7. CASE SettleGone(w, r) \/ CommitRecovered(w, r)
    <3>1. ~(TicketMatches(w, r) /\ \E how \in Terminal : Finish(r, how))
      BY <1>1 DEF TicketMatches, Finish, Terminal, Tables
    <3> QED BY <2>1, <2>2, <2>3, <2>7, <3>1
            DEF SettleGone, CommitRecovered, Settled, Watching, WatchPhases, Terminal,
                RecoveryOutcome
  <2> QED BY <2>4, <2>5, <2>6, <2>7 DEF WatchLoop
<1>2. CASE ~UNCHANGED <<state, ticket>>
  <2>1. PICK how \in Terminal :
           /\ TicketMatches(w, r) /\ Finish(r, how)
           /\ \/ /\ Move(w, r, "confirm")
                 /\ \/ how = RecoveryOutcome(watch[w][r].kind)
                    \/ /\ how \in {"succeeded", "interrupted"}
                       /\ watch[w][r].phase \in {"recover", "abandon"}
              \/ /\ Rest(w, r) /\ w = "canceller" /\ watch[w][r].phase = "give_up"
                 /\ how = "given_up"
           /\ watch[w][r].phase # "confirm"
    BY <1>2 DEF WatchLoop, ObserveExact, ObserveExit, ObserveFails, InspectSink,
       ConfirmedGone, GiveUp, SettleGone, CommitRecovered, Settled, rowVars, Terminal,
       RecoveryOutcome, Watching
  <2>2. /\ watch[w][r].mine /\ \A v \in Watcher : v # w => ~watch[v][r].mine
        /\ state[r] = "cancelling" /\ state'[r] = how /\ ticket'[r].kind = "none"
    BY <2>1 DEF TicketMatches, RunInv, OneWatcher, Watcher, Finish, Tables, NoTicket
  <2>3. ReasonInv(r)'
    <3>1. state'[r] \notin Seated
      BY <2>2 DEF Terminal, Seated, Leased
    <3>2. CASE Rest(w, r)
      BY <1>i, <1>n, <2>2, <3>1, <3>2 DEF ReasonInv, Watcher
    <3>3. CASE Move(w, r, "confirm")
      <4>1. "confirm" \in WatchPhases
        BY DEF WatchPhases
      <4> QED BY <1>m, <2>2, <3>1, <3>3, <4>1 DEF ReasonInv, Watcher
    <3> QED BY <2>1, <3>2, <3>3
  <2>4. Ended(r)
    <3>1. exec[r] # "none" /\ ticket[r].kind = watch[w][r].kind
      BY <2>1, <2>2 DEF ReasonInv, Seated
    <3>2. Doomed(r) <=> ticket[r].kind \in {"cancel", "cancellation_abandoned"}
      BY <2>2 DEF Doomed
    <3>3. Doomed(r)' <=> how \in {"cancelled", "given_up"}
      BY <1>u, <2>2, <3>1 DEF Doomed
    <3>4. ticket[r].kind \in Kinds \ {"none"}
      BY <2>2 DEF RunInv, Row, Tables, Ticket
    <3>5. Doomed(r)' <=> Doomed(r)
      BY <2>1, <2>2, <3>1, <3>2, <3>3, <3>4 DEF RecoveryOutcome, ReasonInv, Kinds
    <3>6. how = "succeeded" => ~Doomed(r)
      BY <2>1, <2>2, <3>3, <3>5
    <3> QED BY <2>2, <3>5, <3>6 DEF Ended, Seated
  <2> QED BY <2>3, <2>4 DEF Promised
<1> QED BY <1>1, <1>2

\* Where a run in a given state is, as the contract sees it.
PlaceOf(s) ==
    IF s = "absent" THEN "unborn" ELSE IF s = "queued" THEN "waiting"
    ELSE IF s \in Seated THEN "seated" ELSE IF s = "succeeded" THEN "won" ELSE "lost"

\* The mapped variables, run by run.
LEMMA View ==
    /\ Place = [r \in Run |-> PlaceOf(state[r])]
    /\ Place' = [r \in Run |-> PlaceOf(state'[r])]
    /\ Home' = [r \in Run |-> IF state'[r] = "absent" THEN None ELSE r]
BY DEF Place, PlaceOf, Home, Seated, Leased

\* The runs that are doomed after a step in which only r may have changed.
LEMMA DoomedAfter ==
    ASSUME NEW r \in Run, Others(r)
    PROVE  \A e \in Run : e # r => (Doomed(e)' <=> Doomed(e)) /\ state'[e] = state[e]
BY DEF Others, Same, Doomed

\* A step that a run's promise allows is one of the contract.
LEMMA PromisedStep ==
    ASSUME NEW r \in Run, Tables, Tables', Promised(r), Others(r)
    PROVE  [Contract!CNext]_(Contract!cvars)
<1>o. \A e \in Run : e # r => (Doomed(e)' <=> Doomed(e)) /\ state'[e] = state[e]
  BY DoomedAfter
<1>v. /\ Place = [e \in Run |-> PlaceOf(state[e])]
      /\ Place' = [e \in Run |-> PlaceOf(state'[e])]
      /\ Home = [e \in Run |-> IF state[e] = "absent" THEN None ELSE e]
      /\ Home' = [e \in Run |-> IF state'[e] = "absent" THEN None ELSE e]
  BY View DEF Home
<1> DEFINE D == {e \in Run : Doomed(e)}
           E == {e \in Run : Doomed(e)'}
<1>e. D' = E
  OBVIOUS
<1>p. \A s : PlaceOf(s) = "unborn" <=> s = "absent"
  BY DEF PlaceOf
<1>q. \A s \in Seated : PlaceOf(s) = "seated" /\ s \notin {"absent", "queued"}
  BY DEF PlaceOf, Seated, Leased
<1>r. \A s \in Terminal : /\ PlaceOf(s) = IF s = "succeeded" THEN "won" ELSE "lost"
                          /\ s \notin {"absent", "queued"}
  BY DEF PlaceOf, Terminal, Seated, Leased
<1>s. PlaceOf("absent") = "unborn" /\ PlaceOf("queued") = "waiting"
  BY DEF PlaceOf
<1>h. ASSUME state[r] = "absent" <=> state'[r] = "absent" PROVE Home' = Home
  BY <1>h, <1>o, <1>v
<1>d. ASSUME Doomed(r)' <=> Doomed(r) PROVE E = D
  BY <1>d, <1>o
<1>1. CASE Still(r)
  <2>1. PlaceOf(state'[r]) = PlaceOf(state[r]) /\ (state[r] = "absent" <=> state'[r] = "absent")
    BY <1>1, <1>q DEF Still
  <2>2. Place' = Place
    BY <1>o, <1>v, <2>1
  <2> QED BY <1>1, <1>d, <1>e, <1>h, <2>1, <2>2 DEF Contract!cvars, Still
<1>2. CASE Submitted(r)
  <2>1. Place[r] = "unborn" /\ Place' = [Place EXCEPT ![r] = "waiting"]
    BY <1>2, <1>o, <1>v, <1>s DEF Submitted
  <2>2. Home' = [Home EXCEPT ![r] = r]
    BY <1>2, <1>o, <1>v DEF Submitted
  <2>3. E = D
    BY <1>2, <1>d DEF Submitted
  <2>4. Contract!Submit(r, r)
    BY <1>e, <2>1, <2>2, <2>3 DEF Contract!Submit
  <2> QED BY <2>4 DEF Contract!CNext
<1>3. CASE Seated1(r)
  <2>1. Place[r] = "waiting" /\ Home[r] = r
    BY <1>3, <1>v, <1>s DEF Seated1
  <2>2. Place' = [e \in Run |-> IF e \in {r} THEN "seated" ELSE Place[e]]
    BY <1>3, <1>o, <1>v, <1>q DEF Seated1, Seated, Leased
  <2>3. \A e \in Run : e # r => Home[e] # Home[r]
    BY <1>v, <2>1, ExecutionAssumption
  <2>4. E = D /\ Home' = Home
    BY <1>3, <1>d, <1>h DEF Seated1
  <2>5. Contract!Seat({r})
    BY <1>e, <2>1, <2>2, <2>3, <2>4 DEF Contract!Seat
  <2> QED BY <2>5 DEF Contract!CNext
<1>4. CASE Dropped(r)
  <2>1. Place[r] = "waiting"
    BY <1>4, <1>v, <1>s DEF Dropped
  <2>2. Place' = [e \in Run |->
            IF e \in {r} /\ Place[e] = "waiting" THEN "lost" ELSE Place[e]]
    BY <1>4, <1>o, <1>v, <1>r, <2>1 DEF Dropped, Terminal
  <2>3. E = D /\ Home' = Home /\ E = D \cup {e \in {r} : Place[e] = "seated"}
    BY <1>4, <1>d, <1>h, <2>1 DEF Dropped
  <2>4. Contract!Cancel({r})
    BY <1>e, <2>1, <2>2, <2>3 DEF Contract!Cancel
  <2> QED BY <2>4 DEF Contract!CNext
<1>5. CASE Condemned(r)
  <2>1. Place[r] = "seated" /\ PlaceOf(state'[r]) = "seated"
    BY <1>5, <1>v, <1>q DEF Condemned
  <2>2. Place' = [e \in Run |->
            IF e \in {r} /\ Place[e] = "waiting" THEN "lost" ELSE Place[e]]
    BY <1>o, <1>v, <2>1
  <2>3. E = D \cup {e \in {r} : Place[e] = "seated"}
    BY <1>5, <1>o, <2>1 DEF Condemned
  <2>4. Home' = Home
    BY <1>5, <1>q, <1>h DEF Condemned
  <2>5. Contract!Cancel({r})
    BY <1>e, <2>1, <2>2, <2>3, <2>4 DEF Contract!Cancel
  <2> QED BY <2>5 DEF Contract!CNext
<1>6. CASE Ended(r)
  <2> PICK how : how = IF state'[r] = "succeeded" THEN "won" ELSE "lost" OBVIOUS
  <2>1. Place[r] = "seated" /\ Place' = [Place EXCEPT ![r] = how]
    BY <1>6, <1>o, <1>v, <1>q, <1>r DEF Ended
  <2>2. E = D /\ Home' = Home
    BY <1>6, <1>d, <1>h, <1>q, <1>r DEF Ended
  <2>3. how = "won" => r \notin D
    BY <1>6 DEF Ended
  <2>4. Contract!End(r, how)
    BY <1>e, <2>1, <2>2, <2>3 DEF Contract!End
  <2> QED BY <2>4 DEF Contract!CNext
<1> QED BY <1>1, <1>2, <1>3, <1>4, <1>5, <1>6 DEF Promised

\* Every step keeps the reasons and is a step of the contract.
LEMMA ContractNext ==
    ASSUME IInv, \A r \in Run : ReasonInv(r), [Next]_vars, IInv'
    PROVE  (\A r \in Run : ReasonInv(r)') /\ [Contract!CNext]_(Contract!cvars)
<1> Tables /\ Tables'
  BY DEF IInv
<1>1. ASSUME NEW r \in Run,
           \/ ExecutionLoop(r) \/ BlockingPool(r) \/ ClaimRecovery(r)
           \/ EnqueueRun(r) \/ RequestCancel(r) \/ GiveUp(r) \/ CompletionLoop(r)
           \/ LeaseExpires(r) \/ DeadlinePasses(r) \/ TicketExpires(r)
           \/ DeferralElapses(r)
           \/ \E w \in Watcher : WatchLoop(w, r)
      PROVE  (\A e \in Run : ReasonInv(e)') /\ [Contract!CNext]_(Contract!cvars)
  <2>1. Others(r)
    BY <1>1, StepOfRun DEF Kept
  <2>2. RunInv(r) /\ ReasonInv(r) /\ "canceller" \in Watcher
    BY DEF IInv, Watcher
  <2>3. ReasonInv(r)' /\ Promised(r)
    BY <1>1, <2>2, ReasonRow, ReasonControl, ReasonWatch
  <2>4. \A e \in Run : e # r => ReasonInv(e)'
    BY <2>1, ReasonStays DEF Others
  <2>5. [Contract!CNext]_(Contract!cvars)
    BY <2>1, <2>3, PromisedStep
  <2> QED BY <2>3, <2>4, <2>5
<1>2. CASE Crash
  <2>1. /\ UNCHANGED <<state, ticket>>
        /\ \A r \in Run : /\ exec'[r] = "none" <=> exec[r] = "none"
                          /\ \A w \in Watcher : watch'[w][r] = Idle
    BY <1>2 DEF Crash, rowVars
  <2>2. \A r \in Run : ReasonInv(r)'
    BY <2>1 DEF ReasonInv, Idle, Watcher
  <2>3. \A r \in Run : Doomed(r)' <=> Doomed(r)
    BY <2>1 DEF Doomed
  <2>4. Place' = Place /\ Home' = Home
    BY <2>1, View DEF Home
  <2>5. {r \in Run : Doomed(r)}' = {r \in Run : Doomed(r)}
    BY <2>3
  <2> QED BY <2>2, <2>4, <2>5 DEF Contract!cvars
<1>3. CASE UNCHANGED vars
  <2>1. UNCHANGED <<state, ticket, attached, completion, sink, exec, task, watch, outbox,
                    publisher>>
    BY <1>3 DEF vars, rowVars, execVars, pubVars
  <2>2. \A r \in Run : ReasonInv(r)'
    BY <2>1, ReasonStays DEF Same
  <2>3. \A r \in Run : Doomed(r)' <=> Doomed(r)
    BY <2>1 DEF Doomed
  <2>4. Place' = Place /\ Home' = Home
    BY <2>1, View DEF Home
  <2>5. {r \in Run : Doomed(r)}' = {r \in Run : Doomed(r)}
    BY <2>3
  <2> QED BY <2>2, <2>4, <2>5 DEF Contract!cvars
<1> QED BY <1>1, <1>2, <1>3 DEF Next

\* At first no run exists, nothing is doomed and no watcher has a reason.
LEMMA ContractInit ==
    ASSUME Init
    PROVE  (\A r \in Run : ReasonInv(r)) /\ Contract!CInit
<1>1. \A r \in Run : /\ state[r] = "absent" /\ ticket[r].kind = "none"
                     /\ \A w \in Watcher : ~watch[w][r].mine
  BY DEF Init, NoTicket, Idle
<1>2. \A r \in Run : ReasonInv(r)
  BY <1>1 DEF ReasonInv, Seated, Leased, Watcher
<1>3. \A r \in Run : ~Doomed(r)
  BY <1>1 DEF Doomed
<1>4. Place = [r \in Run |-> "unborn"] /\ Home = [r \in Run |-> None]
  BY <1>1, View DEF PlaceOf, Home
<1>5. {r \in Run : Doomed(r)} = {}
  BY <1>3
<1> QED BY <1>2, <1>4, <1>5 DEF Contract!CInit

\* Execution, recovery, cancellation, crashes and the publisher together keep
\* the store's promise to its clients: a run that was claimed ends exactly
\* once, and one whose cancellation was accepted never ends as succeeded.
THEOREM ExecutionImplementsContract == Spec => ImplementsContract
<1> DEFINE Reasons == \A r \in Run : ReasonInv(r)
<1>1. Init => Reasons /\ Contract!CInit
  BY ContractInit
<1>2. ASSUME IInv, Reasons, [Next]_vars, IInv'
      PROVE  Reasons' /\ [Contract!CNext]_(Contract!cvars)
  BY <1>2, ContractNext
<1> HIDE DEF Reasons
<1> QED BY <1>1, <1>2, ExecutionInvariant, PTL DEF Spec, ImplementsContract, Contract!CSpec

=============================================================================
