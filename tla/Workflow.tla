------------------------------ MODULE Workflow ------------------------------
(***************************************************************************)
(* The workflow engine of vyane-workflow (engine.rs), its journal and the  *)
(* git worktrees of its isolated steps.                                    *)
(*                                                                         *)
(* The journal of a run is a file that every write replaces atomically and *)
(* syncs, so what a crash leaves is the last journal written; the engine   *)
(* works on a copy in memory.  A write that fails, a template that cannot  *)
(* be rendered, a crash and an abandoned future all lose the engine with   *)
(* its copy; a failed write may or may not have replaced the file first.   *)
(*                                                                         *)
(* Nothing but the caller's care keeps two engines off one journal: between*)
(* the reading of a journal and the start that rests on it there is neither*)
(* a lock nor a comparison.  The module follows a run up to the first start*)
(* that overtakes an engine or a write; what two engines then do to one    *)
(* file is not followed.                                                   *)
(*                                                                         *)
(* Steps are named by their place in the topological order of the plan.    *)
(* An isolated step has one target.  A directory and a branch of the same  *)
(* name make up one tree.                                                  *)
(***************************************************************************)
EXTENDS Naturals, FiniteSets, FiniteSetsExt, Sequences, SequencesExt

CONSTANTS
    Runs,           \* run identities
    StepCount,      \* number of steps of every plan
    Plans,          \* plans: needs, keepGoing, fanOut, isolated
    MaxConcurrency, \* max_concurrency of the plans
    MaxSkips,       \* MAX_WORKTREE_ATTEMPT_SKIPS
    MaxEngines,     \* bound of the model: engines at a time
    Prepared,       \* bound of the model: runs that are not replays
    MaxExecutions,  \* bound of the model: executions in all
    NoJournal       \* no file; no engine

Steps == 1 .. StepCount

VARIABLES
    plan,       \* the plan all runs are bound to
    disk,       \* the journal file of a run
    mem,        \* the journal as its engine has it
    eng,        \* the engine's own sets: terminal, out, aborting, failures
    cancel,     \* the cancellation token of the engine
    tree,       \* the worktree of an attempt at a step, as it is in git
    executions, \* engines so far, and callers about to start one
    read,       \* the journal a caller has read and not yet started from
    overlapped  \* a start overtook an engine at work or a write to the file

starts == <<read, overlapped>>
vars == <<plan, disk, mem, eng, cancel, tree, executions, starts>>

Attempts == 0 .. MaxExecutions - 1

-----------------------------------------------------------------------------
(* Journals. *)

Terminal == {"success", "failed", "skipped", "cancelled"}
StepStatuses == Terminal \union {"pending", "running"}
RunStatuses == {"running", "completed", "with_failures", "failed", "cancelled"}

\* JournalWorktree, but for its names and hashes.
Worktree == [attempt : Attempts,
             disp : {"active", "removed", "kept", "cleanup_failed"}]

\* WorkflowJournal.  partial: successes with a failed target; reused: the
\* steps copied by a replay.
Journal == [status : RunStatuses, step : [Steps -> StepStatuses],
            partial : SUBSET Steps, trees : [Steps -> Seq(Worktree)],
            reused : SUBSET Steps]

\* WorkflowJournal::new_with_plan
NewJournal == [status |-> "running", step |-> [s \in Steps |-> "pending"],
               partial |-> {}, trees |-> [s \in Steps |-> <<>>], reused |-> {}]

\* Mutant: an unsettled entry is dropped as if it had been removed.
DropUnsettled(w) == w.disp \notin {"removed", "active"}

\* JournalWorktree::may_hold_work
MayHoldWork(w) == w.disp # "removed"

\* Vec::retain, of the entries that may hold work.
Retained(ws) ==
    LET first[n \in 0 .. Len(ws)] ==
            IF n = 0 THEN <<>>
            ELSE IF MayHoldWork(ws[n]) THEN Append(first[n - 1], ws[n]) ELSE first[n - 1]
    IN  first[Len(ws)]

\* JournalStep::reset_for_rerun, on the entries of a step.
Kept(ws) ==
    LET held == Retained(ws) IN
    [i \in DOMAIN held |->
        IF held[i].disp = "active" THEN [held[i] EXCEPT !.disp = "kept"] ELSE held[i]]

\* resume: what did not succeed is pending again.
ResetForRerun(j) ==
    [j EXCEPT
        !.status = "running",
        !.step = [s \in Steps |-> IF j.step[s] = "success" THEN "success" ELSE "pending"],
        !.trees = [s \in Steps |->
            IF j.step[s] = "success" THEN j.trees[s] ELSE Kept(j.trees[s])]]

\* next_worktree_attempt
NextAttempt(j, s) == Max({0} \union {w.attempt + 1 : w \in Range(j.trees[s])})

WithStatus(j, ss, status) ==
    [j EXCEPT !.step = [s \in Steps |-> IF s \in ss THEN status ELSE j.step[s]]]

-----------------------------------------------------------------------------
(* The engine. *)

\* What became of a step that was started: its tree is made but the journal
\* not written, it has no tree, it is with its target, or its tree is settled.
Settlements == {"removed", "kept", "cleanup_failed"}
Out == {"made", "unplaced", "dispatched"} \union Settlements

NewEngine(j) == [terminal |-> {s \in Steps : j.step[s] \in Terminal},
                 out |-> [s \in {} |-> "made"], aborting |-> FALSE, failures |-> FALSE]
NoEngine == NewEngine(NewJournal)

Running(e) == DOMAIN e.out
Unscheduled(e) == Steps \ (e.terminal \union Running(e))
Completed(j) == {s \in Steps : j.step[s] = "success"}

\* ready_steps
Ready(j, e) ==
    {s \in Unscheduled(e) : plan.needs[s] \subseteq Completed(j)}

\* The step this pass of the loop starts next, if there is a permit left.
Startable(j, e) ==
    IF e.aborting \/ Cardinality(Running(e)) >= MaxConcurrency THEN {}
    ELSE LET ready == Ready(j, e) IN {s \in ready : \A t \in ready : s <= t}

\* mark_unscheduled_terminal
MarkUnscheduled(j, e, status) ==
    WithStatus(j, {s \in Unscheduled(e) : j.step[s] # "success"}, status)

\* The head of the loop: a cancelled token is seen once.
SeesCancel(e, c) == c /\ ~e.aborting
HeadJournal(j, e, c) == IF SeesCancel(e, c) THEN MarkUnscheduled(j, e, "cancelled") ELSE j
HeadEngine(e, c) ==
    IF SeesCancel(e, c) THEN [e EXCEPT !.aborting = TRUE, !.failures = TRUE] ELSE e

Live == {r \in Runs : mem[r] # NoJournal}

\* A bound of the model only.
Room(r) == Cardinality(Live \ {r}) < MaxEngines

\* execute, up to the first pass.
Execute(r, j) ==
    /\ mem' = [mem EXCEPT ![r] = j]
    /\ eng' = [eng EXCEPT ![r] = NewEngine(j)]
    /\ cancel' = [cancel EXCEPT ![r] = FALSE]

Init ==
    /\ plan \in Plans
    /\ disk = [r \in Runs |-> NoJournal] /\ mem = [r \in Runs |-> NoJournal]
    /\ eng = [r \in Runs |-> NoEngine]
    /\ cancel = [r \in Runs |-> FALSE]
    /\ tree = [r \in Runs |-> [p \in Steps \X Attempts |-> "absent"]]
    /\ executions = 0
    /\ read = [r \in Runs |-> NoJournal] /\ overlapped = FALSE

\* prepare_plan_with_id
Prepare(r) ==
    /\ r \in Prepared /\ disk[r] = NoJournal
    /\ disk' = [disk EXCEPT ![r] = NewJournal]
    /\ UNCHANGED <<plan, mem, eng, cancel, tree, executions>>

\* read_journal, of a caller that will run or resume what it finds, whoever
\* is at work on it.  One that read before and has not started gives up: what
\* it found is refused.
ReadJournal(r) ==
    /\ disk[r] # NoJournal /\ executions < MaxExecutions
    /\ read' = [read EXCEPT ![r] = disk[r]]
    /\ executions' = executions + 1
    /\ UNCHANGED <<plan, disk, mem, eng, cancel, tree, overlapped>>

\* What was read is used, though an engine is at work on the journal or the
\* file has been written since.
Overtakes(r) == r \in Live \/ disk[r] # read[r]
UseRead(r) ==
    /\ read' = [read EXCEPT ![r] = NoJournal]
    /\ overlapped' = Overtakes(r)

\* run_prepared_plan_from_journal: a journal that was started is refused.
RunPrepared(r) ==
    /\ read[r] = NewJournal /\ Room(r)
    /\ Execute(r, read[r]) /\ UseRead(r)
    /\ UNCHANGED <<plan, disk, tree, executions>>

\* resume_plan_from_journal: what was read is reset and replaces the file.
Resume(r) ==
    /\ read[r] # NoJournal /\ Room(r)
    /\ LET j == ResetForRerun(read[r]) IN
       disk' = [disk EXCEPT ![r] = j] /\ Execute(r, j)
    /\ UseRead(r)
    /\ UNCHANGED <<plan, tree, executions>>

\* Mutant: only the status of a step decides.
ReusableByStatus(j, s) == j.step[s] = "success"

\* A step of the source a replay may copy.
Reusable(j, s) == j.step[s] = "success" /\ s \notin j.partial

\* copy_replay_prefix
ReplayPrefix(j) ==
    LET reused == {s \in Steps : \A t \in 1 .. s : Reusable(j, t)}
    IN  [NewJournal EXCEPT
            !.step = [s \in Steps |-> IF s \in reused THEN "success" ELSE "pending"],
            !.trees = [s \in Steps |-> IF s \in reused THEN j.trees[s] ELSE <<>>],
            !.partial = j.partial \cap reused,
            !.reused = reused]

\* replay_plan_with_id: the source is read once and the journal of the replay
\* is a file of its own, which must not exist.
Replay(source, r) ==
    /\ source # r /\ disk[r] = NoJournal /\ Room(r) /\ executions < MaxExecutions
    /\ disk[source] # NoJournal /\ disk[source].status # "running"
    /\ LET j == ReplayPrefix(disk[source]) IN
       disk' = [disk EXCEPT ![r] = j] /\ Execute(r, j)
    /\ executions' = executions + 1
    /\ UNCHANGED <<plan, tree>>

\* The caller cancels the token of a running engine.
Cancel(r) ==
    /\ r \in Live /\ ~cancel[r]
    /\ cancel' = [cancel EXCEPT ![r] = TRUE]
    /\ UNCHANGED <<plan, disk, mem, eng, tree, executions>>

\* The pass looks at the token before each start; a step whose tree was made
\* is started first.
Making(r) == \E s \in Running(eng[r]) : eng[r].out[s] = "made"
InPass(r) == r \in Live /\ ~Making(r) /\ Startable(mem[r], eng[r]) # {}

SeeCancel(r) ==
    /\ InPass(r) /\ cancel[r]
    /\ mem' = [mem EXCEPT ![r] = HeadJournal(mem[r], eng[r], TRUE)]
    /\ eng' = [eng EXCEPT ![r] = HeadEngine(eng[r], TRUE)]
    /\ UNCHANGED <<plan, disk, cancel, tree, executions>>

WithOut(e, s, o) ==
    [e EXCEPT !.out = [t \in Running(e) \union {s} |-> IF t = s THEN o ELSE e.out[t]]]

\* A step without isolation: Running, the journal is written, the target runs.
StartStep(r) ==
    /\ InPass(r) /\ ~cancel[r]
    /\ \E s \in Startable(mem[r], eng[r]) \ plan.isolated :
        LET j == WithStatus(mem[r], {s}, "running") IN
        /\ mem' = [mem EXCEPT ![r] = j] /\ disk' = [disk EXCEPT ![r] = j]
        /\ eng' = [eng EXCEPT ![r] = WithOut(eng[r], s, "dispatched")]
    /\ UNCHANGED <<plan, cancel, tree, executions>>

\* The paths an attempt at step s may skip to.
Free(r, s) ==
    LET first == NextAttempt(mem[r], s)
    IN  {a \in Attempts \cap (first .. first + MaxSkips) : tree[r][<<s, a>>] = "absent"}

AddEntry(j, s, a, disp) ==
    [j EXCEPT !.trees[s] = Append(j.trees[s], [attempt |-> a, disp |-> disp])]

\* provision_step: a tree is made at the first free path, and entered in the
\* journal in memory.
Provision(r) ==
    /\ InPass(r) /\ ~cancel[r]
    /\ \E s \in Startable(mem[r], eng[r]) \cap plan.isolated :
        /\ Free(r, s) # {}
        /\ LET a == Min(Free(r, s)) IN
           /\ tree' = [tree EXCEPT ![r][<<s, a>>] = "made"]
           /\ mem' = [mem EXCEPT ![r] =
                AddEntry(WithStatus(mem[r], {s}, "running"), s, a, "active")]
        /\ eng' = [eng EXCEPT ![r] = WithOut(eng[r], s, "made")]
    /\ UNCHANGED <<plan, disk, cancel, executions>>

\* No tree could be made, or no path was free, or one was made and could not
\* be finished: what cannot be removed again is entered.  The step is started
\* all the same, to fail.
ProvisionFails(r) ==
    /\ InPass(r) /\ ~cancel[r]
    /\ \E s \in Startable(mem[r], eng[r]) \cap plan.isolated :
        LET j == WithStatus(mem[r], {s}, "running")
            left == IF Free(r, s) = {} THEN {} ELSE {"made", "branch"}
        IN  /\ \E x \in left \union {"absent"} :
                IF x = "absent" THEN disk' = [disk EXCEPT ![r] = j] /\ UNCHANGED tree
                ELSE LET a == Min(Free(r, s)) IN
                     /\ tree' = [tree EXCEPT ![r][<<s, a>>] = x]
                     /\ disk' = [disk EXCEPT ![r] = AddEntry(j, s, a, "cleanup_failed")]
            /\ mem' = [mem EXCEPT ![r] = disk'[r]]
            /\ eng' = [eng EXCEPT ![r] = WithOut(eng[r], s, "unplaced")]
    /\ UNCHANGED <<plan, cancel, executions>>

\* The attempt at step s in progress.
Attempt(r, s) == Last(mem[r].trees[s]).attempt

\* The journal with the new tree is written, and only then is it used.
WriteStart(r, s) ==
    /\ s \in Running(eng[r]) /\ eng[r].out[s] = "made"
    /\ disk' = [disk EXCEPT ![r] = mem[r]]
    /\ eng' = [eng EXCEPT ![r] = WithOut(eng[r], s, "dispatched")]
    /\ tree' = [tree EXCEPT ![r][<<s, Attempt(r, s)>>] = "used"]
    /\ UNCHANGED <<plan, mem, cancel, executions>>

\* A target, or a process that outlived its engine, changes the tree.
Work(r, s, a) ==
    /\ tree[r][<<s, a>>] = "used"
    /\ tree' = [tree EXCEPT ![r][<<s, a>>] = "worked"]
    /\ UNCHANGED <<plan, disk, mem, eng, cancel, executions>>

\* settle: what becomes of a tree, and the disposition that is reported.
Settled(t) ==
    {[now |-> t, disp |-> "kept"]} \union
    IF t = "worked" THEN {}
    ELSE {[now |-> "absent", disp |-> "removed"],
          [now |-> t, disp |-> "cleanup_failed"],
          [now |-> "branch", disp |-> "cleanup_failed"]}

\* settle_isolated, after the dispatch and before the engine hears of it.
Settle(r, s) ==
    /\ s \in Running(eng[r]) \cap plan.isolated /\ eng[r].out[s] = "dispatched"
    /\ \E x \in Settled(tree[r][<<s, Attempt(r, s)>>]) :
        /\ tree' = [tree EXCEPT ![r][<<s, Attempt(r, s)>>] = x.now]
        /\ eng' = [eng EXCEPT ![r] = WithOut(eng[r], s, x.disp)]
    /\ UNCHANGED <<plan, disk, mem, cancel, executions>>

\* What a dispatch ends with: fan_out_result succeeds if one target did.
Results(s, o) ==
    IF o = "unplaced" THEN {"failed"}
    ELSE {"success", "failed", "cancelled"}
            \union (IF s \in plan.fanOut THEN {"partial"} ELSE {})

Applied(j, s, o) ==
    IF o \in Settlements THEN [j EXCEPT !.trees[s][Len(j.trees[s])].disp = o] ELSE j

\* skip_dependents: what the failed step reaches through unscheduled steps.
Open(e, j) == Unscheduled(e) \ Completed(j)
Closed(failed, open, ss) ==
    \A s \in open : plan.needs[s] \cap (ss \union {failed}) # {} => s \in ss
Dependents(failed, e, j) ==
    {s \in Open(e, j) : \A ss \in SUBSET Open(e, j) : Closed(failed, Open(e, j), ss) => s \in ss}

\* The end of a step, and the journal that is written for it.
Finished(r, s, result) ==
    LET j == Applied(mem[r], s, eng[r].out[s])
        e == [eng[r] EXCEPT
                !.out = [t \in Running(eng[r]) \ {s} |-> eng[r].out[t]],
                !.terminal = eng[r].terminal \union {s}]
    IN  IF result \in {"success", "partial"} THEN
                [journal |-> [WithStatus(j, {s}, "success") EXCEPT
                                !.partial = j.partial \union (IF result = "partial" THEN {s} ELSE {})],
                 engine |-> e]
        ELSE IF result = "cancelled" \/ s \notin plan.keepGoing THEN
                [journal |-> MarkUnscheduled(WithStatus(j, {s}, result), e,
                                IF result = "cancelled" THEN "cancelled" ELSE "skipped"),
                 engine |-> [e EXCEPT !.aborting = TRUE, !.failures = TRUE]]
        ELSE
                LET skipped == Dependents(s, e, j) IN
                [journal |-> WithStatus(WithStatus(j, {s}, "failed"), skipped, "skipped"),
                 engine |-> [e EXCEPT !.terminal = e.terminal \union skipped, !.failures = TRUE]]

\* A step ends while the engine waits; back at the head of its loop it looks
\* at the token.
FinishStep(r, s, result) ==
    /\ s \in Running(eng[r]) /\ ~InPass(r) /\ ~Making(r)
    /\ s \in plan.isolated => eng[r].out[s] # "dispatched"
    /\ result \in Results(s, eng[r].out[s])
    /\ LET f == Finished(r, s, result) IN
        /\ disk' = [disk EXCEPT ![r] = f.journal]
        /\ mem' = [mem EXCEPT ![r] = HeadJournal(f.journal, f.engine, cancel[r])]
        /\ eng' = [eng EXCEPT ![r] = HeadEngine(f.engine, cancel[r])]
    /\ UNCHANGED <<plan, cancel, tree, executions>>

\* The status of a run whose loop has ended.
FinalStatus(j, e, c) ==
    LET any(ss) == \E s \in Steps : j.step[s] \in ss
    IN  IF c \/ any({"cancelled"}) THEN "cancelled"
        ELSE IF e.aborting /\ any({"failed"}) THEN "failed"
        ELSE IF e.failures \/ any({"failed", "skipped"}) THEN "with_failures"
        ELSE "completed"

NoMoreEngine(r) ==
    /\ mem' = [mem EXCEPT ![r] = NoJournal]
    /\ eng' = [eng EXCEPT ![r] = NoEngine]
    /\ cancel' = [cancel EXCEPT ![r] = FALSE]

\* Nothing runs and nothing can be started: the last journal is written.
EndRun(r) ==
    /\ r \in Live /\ Running(eng[r]) = {} /\ ~InPass(r)
    /\ LET j == IF cancel[r] THEN MarkUnscheduled(mem[r], eng[r], "cancelled") ELSE mem[r]
       IN  disk' = [disk EXCEPT ![r] =
                [j EXCEPT !.status = FinalStatus(j, eng[r], cancel[r])]]
    /\ NoMoreEngine(r)
    /\ UNCHANGED <<plan, tree, executions>>

\* The journal of a start cannot be written: the new tree is settled.
WriteStartFails(r, s) ==
    /\ s \in Running(eng[r]) /\ eng[r].out[s] = "made"
    /\ disk' \in {disk, [disk EXCEPT ![r] = mem[r]]}
    /\ \E x \in Settled("made") : tree' = [tree EXCEPT ![r][<<s, Attempt(r, s)>>] = x.now]
    /\ NoMoreEngine(r)
    /\ UNCHANGED <<plan, executions>>

\* The engine is lost with its memory; a settlement it had begun may still
\* remove an unchanged tree.
EngineLost(r) ==
    /\ r \in Live
    /\ \E gone \in SUBSET {s \in Running(eng[r]) \cap plan.isolated :
                            /\ eng[r].out[s] = "dispatched"
                            /\ tree[r][<<s, Attempt(r, s)>>] = "used"} :
        tree' = [tree EXCEPT ![r] = [p \in Steps \X Attempts |->
                    IF p[1] \in gone /\ p[2] = Attempt(r, p[1]) THEN "absent" ELSE tree[r][p]]]
    /\ NoMoreEngine(r)
    /\ UNCHANGED <<plan, disk, executions>>

\* What the engine does by itself, and the targets' ends.
Engine(r) ==
    \/ SeeCancel(r) \/ StartStep(r) \/ Provision(r) \/ ProvisionFails(r) \/ EndRun(r)
    \/ \E s \in Running(eng[r]) :
        \/ WriteStart(r, s) \/ Settle(r, s)
        \/ \E result \in Terminal \union {"partial"} : FinishStep(r, s, result)

\* What leaves callers that have read a journal where they are.
Proceed(r) ==
    \/ Engine(r)
    \/ Prepare(r) \/ Cancel(r) \/ EngineLost(r)
    \/ \E source \in Runs : Replay(source, r)
    \/ \E s \in Steps : WriteStartFails(r, s) \/ \E a \in Attempts : Work(r, s, a)

\* A run is followed until two engines may be at work on one journal.
Next ==
    /\ ~overlapped
    /\ \E r \in Runs :
        \/ Proceed(r) /\ UNCHANGED starts
        \/ ReadJournal(r) \/ RunPrepared(r) \/ Resume(r)

Spec == Init /\ [][Next]_vars

-----------------------------------------------------------------------------
(***************************************************************************)
(* Properties                                                              *)
(***************************************************************************)
TreeState == {"absent", "made", "used", "worked", "branch"}

WorkflowTypeOK ==
    /\ disk \in [Runs -> Journal \union {NoJournal}]
    /\ mem \in [Runs -> Journal \union {NoJournal}]
    /\ \A r \in Runs : eng[r].terminal \subseteq Steps /\ Running(eng[r]) \subseteq Steps
    /\ tree \in [Runs -> [Steps \X Attempts -> TreeState]]

Dispatched(r) == {s \in Running(eng[r]) : eng[r].out[s] # "made"}

\* What is with a target is recorded as running in the file, and what it
\* needs as successful; there are never more of them than permits.
DispatchesRecorded ==
    \A r \in Runs :
        /\ Cardinality(Running(eng[r])) <= MaxConcurrency
        /\ \A s \in Dispatched(r) :
            /\ disk[r].step[s] = "running"
            /\ \A n \in plan.needs[s] : disk[r].step[n] = "success"

\* A success in the file rests on successes, and a replay took over only
\* steps all of whose targets had succeeded.
SuccessesRest ==
    \A r \in Runs : disk[r] # NoJournal =>
        /\ \A s \in Completed(disk[r]) : plan.needs[s] \subseteq Completed(disk[r])
        /\ disk[r].reused \subseteq Completed(disk[r]) \ disk[r].partial

\* A success in the file stays there and is not run again.
SuccessStands ==
    \A r \in Runs : disk[r] # NoJournal =>
        /\ Completed(disk[r]) \subseteq Completed(disk'[r])
        /\ Running(eng'[r]) \cap Completed(disk[r]) = {}
        /\ disk'[r].reused = disk[r].reused

\* The status a run ends with is that of its steps: nothing is left pending
\* or running, completed means that every step succeeded, and a step was
\* skipped only where one had failed.
EndAgrees(j) ==
    LET some(st) == \E s \in Steps : j.step[s] = st
    IN  /\ ~some("pending") /\ ~some("running")
        /\ j.status = "completed" => Completed(j) = Steps
        /\ Completed(j) = Steps => j.status \in {"completed", "cancelled"}
        /\ some("cancelled") => j.status = "cancelled"
        /\ j.status \in {"failed", "with_failures"} => some("failed")
        /\ j.status = "with_failures" =>
            \A s \in Steps : j.step[s] = "skipped" =>
                \E n \in plan.needs[s] : j.step[n] \in {"failed", "skipped"}
EndsAgree ==
    \A r \in Runs : disk[r] # NoJournal /\ disk[r].status # "running" => EndAgrees(disk[r])

\* An engine that runs nothing and can start nothing has nothing left: no step
\* waits for one that will never end.
NeverStuck ==
    \A r \in Live : Running(eng[r]) = {} /\ Startable(mem[r], eng[r]) = {} =>
        \A s \in Steps : mem[r].step[s] \in Terminal

\* As long as no start overtakes an engine or a write: the journals of a run
\* are coherent while it runs, with what is dispatched on record and within
\* the permits, and when it has ended; and it does end: no engine is left
\* waiting for nothing.
JournalsSound ==
    ~overlapped =>
        WorkflowTypeOK /\ DispatchesRecorded /\ EndsAgree /\ SuccessesRest /\ NeverStuck

\* A tree somebody worked in is there and in the file, as not removed, under
\* an attempt of its own: no crash, resume or settlement loses sight of it.
OwnAttempts(ws) == \A i, k \in DOMAIN ws : i # k => ws[i].attempt # ws[k].attempt
Recorded(ws, a) == \E w \in Range(ws) : w.attempt = a /\ w.disp # "removed"
TreesRecorded ==
    \A r \in Runs, s \in Steps :
        /\ \A a \in Attempts :
            tree[r][<<s, a>>] \in {"used", "worked"} => Recorded(disk[r].trees[s], a)
        /\ disk[r] # NoJournal /\ s \notin disk[r].reused => OwnAttempts(disk[r].trees[s])

\* No step of the engine takes away a tree that was worked in.
WorkStays ==
    \A r \in Runs, p \in Steps \X Attempts :
        tree[r][p] = "worked" => tree'[r][p] = "worked"

\* Work is never lost sight of and never removed.
KeepsTrees == TreesRecorded' /\ WorkStays

\* Neither a success nor work is done over or lost in a step that overtakes
\* nobody, whatever crashes, resumes and replays there are.
KeepsWork == ~overlapped' => SuccessStands /\ KeepsTrees
WorkKept == [][KeepsWork]_vars

-----------------------------------------------------------------------------
(* The inductive invariant of DurableProofs. *)

\* Steps in topological order, and a permit at least.
PlansOK ==
    /\ StepCount \in Nat /\ MaxConcurrency \in Nat \ {0}
    /\ MaxSkips \in Nat /\ MaxExecutions \in Nat
    /\ Plans \subseteq [needs : [Steps -> SUBSET Steps], keepGoing : SUBSET Steps,
                        fanOut : SUBSET Steps, isolated : SUBSET Steps]
    /\ \A p \in Plans : \A s \in Steps : p.needs[s] \subseteq 1 .. s - 1
    /\ NoJournal \notin Journal

EngineState == [terminal : SUBSET Steps, out : UNION {[ss -> Out] : ss \in SUBSET Steps},
                aborting : BOOLEAN, failures : BOOLEAN]

WorkflowShape ==
    /\ plan \in Plans
    /\ disk \in [Runs -> Journal \union {NoJournal}] /\ mem \in [Runs -> Journal \union {NoJournal}]
    /\ eng \in [Runs -> EngineState] /\ cancel \in [Runs -> BOOLEAN]
    /\ tree \in [Runs -> [Steps \X Attempts -> TreeState]]

\* A journal by itself.
JournalSound(j) ==
    /\ \A s \in Completed(j) : plan.needs[s] \subseteq Completed(j)
    /\ j.reused \subseteq Completed(j) \ j.partial
    /\ \A s \in Steps \ j.reused : OwnAttempts(j.trees[s])

\* A file and the trees of its run.
FileSound(d, t) ==
    /\ d # NoJournal => JournalSound(d)
    /\ d # NoJournal /\ d.status # "running" => EndAgrees(d)
    /\ \A s \in Steps, a \in Attempts : t[<<s, a>>] \in {"used", "worked"} =>
        d # NoJournal /\ Recorded(d.trees[s], a)

\* The engine's copy is ahead of the file by one new tree and by what a
\* cancellation marked.
Made(e) == {s \in Running(e) : e.out[s] = "made"}
CopySound(d, j, e) ==
    /\ d # NoJournal /\ d.status = "running" /\ j.status = "running"
    /\ j.partial = d.partial /\ j.reused = d.reused /\ Completed(j) = Completed(d)
    /\ JournalSound(j)
    /\ \A s \in Steps \ Made(e) : j.trees[s] = d.trees[s]
    /\ \A s \in Made(e) : \E a \in Attempts :
        j.trees[s] = Append(d.trees[s], [attempt |-> a, disp |-> "active"])
    /\ \A s, u \in Made(e) : s = u

\* What the engine's sets say of the steps.
ScheduleSound(j, e) ==
    /\ e.terminal \cap Running(e) = {} /\ Completed(j) \subseteq e.terminal
    /\ Cardinality(Running(e)) <= MaxConcurrency
    /\ \A s \in e.terminal : j.step[s] \in Terminal
    /\ \A s \in Running(e) : j.step[s] = "running" /\ plan.needs[s] \subseteq Completed(j)
    /\ \A s \in Unscheduled(e) :
        j.step[s] \in IF e.aborting THEN {"cancelled", "skipped"} ELSE {"pending"}

\* Why steps are skipped, and what cannot be started any more.
FailuresSound(j, e, c) ==
    /\ e.aborting => e.failures
    /\ e.failures => c \/ \E s \in Steps : j.step[s] \in {"failed", "cancelled"}
    /\ \A s \in Steps : j.step[s] = "skipped" => e.failures
    /\ ~e.aborting =>
        /\ \A s \in Steps : j.step[s] = "skipped" =>
            \E n \in plan.needs[s] : j.step[n] \in {"failed", "skipped"}
        /\ \A s \in Unscheduled(e) : \A n \in plan.needs[s] :
            j.step[n] \notin {"failed", "skipped", "cancelled"}

\* A started step in the file, its entry and its tree.
Placed(s, o) == o \in {"made"} \union Settlements \/ (o = "dispatched" /\ s \in plan.isolated)
StartedSound(d, j, e, t) ==
    \A s \in Running(e) :
        /\ e.out[s] # "made" => d.step[s] = "running"
        /\ Placed(s, e.out[s]) => j.trees[s] # <<>>
        /\ e.out[s] = "made" => t[<<s, Last(j.trees[s]).attempt>>] = "made"
        /\ e.out[s] = "removed" => t[<<s, Last(j.trees[s]).attempt>>] = "absent"

RunSound(d, j, e, c, t) ==
    /\ FileSound(d, t)
    /\ j = NoJournal => e = NoEngine
    /\ j # NoJournal =>
        /\ CopySound(d, j, e) /\ ScheduleSound(j, e)
        /\ FailuresSound(j, e, c) /\ StartedSound(d, j, e, t)

JournalsInv ==
    WorkflowShape /\ \A r \in Runs : RunSound(disk[r], mem[r], eng[r], cancel[r], tree[r])
=============================================================================
