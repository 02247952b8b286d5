---------------------------- MODULE GoalPursuit -----------------------------
(***************************************************************************)
(* One goal of the goal store (vyane-goal sqlite.rs) and the drivers that  *)
(* pursue it (pursuit.rs): the resident daemon (daemon_goal.rs), which     *)
(* acquires goals by itself, and commands an operator starts.  A driver    *)
(* verifies the acceptance criteria, dispatches a segment of work, and     *)
(* keeps its counters in a durable checkpoint.  Every store operation is   *)
(* one immediate transaction, so one action; a driver may crash, stall or  *)
(* lose its lease between any two of them.  A worker id is a plain string: *)
(* two drivers may use the same one.                                       *)
(*                                                                         *)
(* A checkpoint is written against the goal revision read just before it;  *)
(* a write that slips between the two fails the driver, as does any error  *)
(* of the store (Fails, a fault).  It is also written against its own      *)
(* revision, which grows with every write: "the revision I hold is the     *)
(* stored one" is a flag of the driver's copy that every write of another  *)
(* driver clears.                                                          *)
(***************************************************************************)
EXTENDS Naturals, FiniteSets

CONSTANTS
    Commands,     \* drivers an operator starts
    Workers,      \* worker ids
    DaemonWorker, \* the daemon's own
    Criteria,     \* the goal's acceptance criteria
    Manuals,      \* the criteria only a person can confirm: the choices
    MaxSegments, MaxFailures,  \* limits of the pursuit configuration
    MaxErrors,    \* MAX_PURSUIT_ERRORS_PER_GENERATION
    MaxOps,       \* bound: operator commands
    MaxFaults     \* bound: crashes, store errors, cancellations, stalls

Daemon == "daemon"
Drivers == Commands \union {Daemon}
NoWorker == "no_worker"

ASSUME PursuitAssumption ==
    /\ DaemonWorker \in Workers /\ NoWorker \notin Workers /\ Daemon \notin Commands
    /\ Manuals \subseteq SUBSET Criteria
    /\ MaxSegments \in Nat \ {0} /\ MaxFailures \in Nat \ {0} /\ MaxErrors \in Nat \ {0}
    /\ MaxOps \in Nat /\ MaxFaults \in Nat

Blank == [fresh |-> FALSE, gen |-> 0, started |-> 0, completed |-> 0, failures |-> 0]
NoRetry == [gen |-> 0, errors |-> 0]

VARIABLES
    worker,    \* the worker id of each driver
    manual,    \* the criteria that only a person can confirm
    goal,      \* status, claimed_by, lease still active, claim_generation
    satisfied, \* criteria with satisfied_at
    verified,  \* criteria with evidence in some stored verification
    waived,    \* was the goal completed with waived criteria?
    ck,        \* the counters of the durable checkpoint
    at, mem,   \* what a driver does, and its copy of the checkpoint
    seen,      \* the satisfied criteria of the goal record it verifies
    retry,     \* the daemon's retry entry for the goal
    dispatched,          \* segments ever dispatched
    streak,              \* segments started since the last recorded success
    ops, faults

rigid == <<worker, manual>>
durable == <<goal, satisfied, verified, waived, ck>>
driverVars == <<at, mem, seen, retry>>
history == <<dispatched, streak>>
vars == <<rigid, durable, driverVars, history, ops, faults>>

Phases == {"idle", "start", "begin", "loop", "verify", "achieve", "pause",
           "reserve", "reserve_failed", "dispatch", "dispatch_failed",
           "running", "running_failed", "quarantine"}

Init ==
    /\ worker \in {f \in [Drivers -> Workers] : f[Daemon] = DaemonWorker}
    /\ manual \in Manuals
    /\ goal = [status |-> "queued", claimed |-> NoWorker, live |-> FALSE, gen |-> 0]
    /\ satisfied = {} /\ verified = {} /\ waived = FALSE
    /\ ck = [started |-> 0, completed |-> 0, failures |-> 0]
    /\ at = [d \in Drivers |-> "idle"]
    /\ mem = [d \in Drivers |-> Blank]
    /\ seen = [d \in Drivers |-> {}]
    /\ retry = NoRetry
    /\ dispatched = 0 /\ streak = 0
    /\ ops = 0 /\ faults = 0

-----------------------------------------------------------------------------
(***************************************************************************)
(* Leases                                                                  *)
(***************************************************************************)
Granted(w) == [status |-> "in_progress", claimed |-> w, live |-> TRUE,
               gen |-> goal.gen + 1]
\* clear_lease: a goal that stops is no longer leased.
Released(status) == [goal EXCEPT !.status = status, !.claimed = NoWorker,
                                 !.live = FALSE]

\* apply_claim: queued work, or work in progress that nobody holds.
Claimable == \/ goal.status = "queued"
             \/ goal.status = "in_progress" /\ goal.claimed = NoWorker
\* reclaim: a tenure that ran out.
Reclaimable == /\ goal.status = "in_progress" /\ goal.claimed # NoWorker
               /\ ~goal.live

\* ensure_lease_holder: an active lease admits its holder only.
MayWrite(w) == goal.live => goal.claimed = w

\* stopped_for_record: goal and lease are still this driver's.
Running(d) ==
    /\ goal.status = "in_progress" /\ goal.live
    /\ goal.claimed = worker[d] /\ goal.gen = mem[d].gen

\* Mutant: the copy's own revision is not compared.
CanWriteAnyRevision(d) == Running(d)
\* record_pursuit_checkpoint: the lease, the generation and the revision of
\* the checkpoint the driver read.
CanWrite(d) == Running(d) /\ mem[d].fresh

\* The checkpoint c is stored under the next revision; the driver keeps it.
Store(d, c) ==
    /\ ck' = [started |-> c.started, completed |-> c.completed, failures |-> c.failures]
    /\ mem' = [e \in Drivers |-> IF e = d THEN [c EXCEPT !.fresh = TRUE]
                                          ELSE [mem[e] EXCEPT !.fresh = FALSE]]

Goes(d, phase) == at' = [at EXCEPT ![d] = phase]

-----------------------------------------------------------------------------
(***************************************************************************)
(* Operators                                                               *)
(***************************************************************************)
Op == ops < MaxOps /\ ops' = ops + 1 /\ UNCHANGED <<rigid, history, faults>>
GoalOnly == UNCHANGED <<satisfied, verified, waived, ck, driverVars>>

StartGoal == /\ Op /\ goal.status = "queued"
             /\ goal' = [goal EXCEPT !.status = "in_progress"]
             /\ GoalOnly
ClaimGoal(w) == /\ Op /\ (Claimable \/ Reclaimable)
                /\ goal' = Granted(w)
                /\ GoalOnly
\* pause, fail and cancel release the lease.
StopGoal(w, status) ==
    /\ Op /\ MayWrite(w)
    /\ \/ goal.status = "in_progress"
       \/ goal.status \in {"queued", "paused"} /\ status = "cancelled"
    /\ goal' = Released(status)
    /\ GoalOnly
ResumeGoal(w) == /\ Op /\ goal.status = "paused" /\ MayWrite(w)
                 /\ goal' = Released("in_progress")
                 /\ GoalOnly
\* done: evidence for every criterion, or an explicit waiver of the rest.
DoneGoal(w, waiver) ==
    /\ Op /\ goal.status = "in_progress" /\ MayWrite(w)
    /\ waiver <=> verified # Criteria
    /\ goal' = Released("completed")
    /\ waived' = waiver
    /\ UNCHANGED <<satisfied, verified, ck, driverVars>>
\* satisfy_criterion: a bare assertion, without evidence.
SatisfyCriterion(w, c) ==
    /\ Op /\ goal.status = "in_progress" /\ MayWrite(w)
    /\ c \notin satisfied
    /\ satisfied' = satisfied \union {c}
    /\ UNCHANGED <<goal, verified, waived, ck, driverVars>>
\* record_verification of a verification run by hand.
RecordVerification(w, C) ==
    /\ Op /\ goal.status = "in_progress" /\ MayWrite(w)
    /\ C \intersect (manual \union satisfied) = {}
    /\ verified' = verified \union C
    /\ UNCHANGED <<goal, satisfied, waived, ck, driverVars>>
\* `goal pursue`: a driver of a lease claimed before.
Pursue(d) ==
    /\ Op /\ at[d] = "idle"
    /\ goal.status = "in_progress" /\ goal.live /\ goal.claimed = worker[d]
    /\ Goes(d, "start")
    /\ mem' = [mem EXCEPT ![d].gen = goal.gen]
    /\ UNCHANGED <<durable, seen, retry>>

Operator ==
    \/ StartGoal
    \/ \E w \in Workers : ClaimGoal(w)
    \/ \E w \in Workers \union {NoWorker} :
        \/ \E s \in {"paused", "failed", "cancelled"} : StopGoal(w, s)
        \/ ResumeGoal(w)
        \/ \E waiver \in BOOLEAN : DoneGoal(w, waiver)
        \/ \E c \in Criteria : SatisfyCriterion(w, c)
        \/ \E C \in (SUBSET Criteria) \ {{}} : RecordVerification(w, C)
    \/ \E d \in Commands : Pursue(d)

-----------------------------------------------------------------------------
(***************************************************************************)
(* The daemon's supervision of the goal                                    *)
(***************************************************************************)
\* Quarantined without a stored pause: not retried in this generation.
GivenUp == /\ goal.status = "in_progress" /\ retry.gen = goal.gen
           /\ retry.errors >= MaxErrors

\* acquire_from_store: a lease of its own is taken up again as it is, one
\* that is free or ran out is claimed anew, else a queued goal is claimed.
Acquire ==
    /\ at[Daemon] = "idle" /\ ~GivenUp
    /\ \/ /\ goal.status = "in_progress" /\ goal.live /\ goal.claimed = DaemonWorker
          /\ UNCHANGED goal
       \/ (Claimable \/ Reclaimable) /\ goal' = Granted(DaemonWorker)
    /\ retry' = IF retry.gen = goal.gen /\ goal.status = "in_progress" THEN retry ELSE NoRetry
    /\ mem' = [mem EXCEPT ![Daemon].gen = goal'.gen]
    /\ Goes(Daemon, "start")
    /\ UNCHANGED <<rigid, satisfied, verified, waived, ck, seen, history, ops, faults>>

\* A pursuit that ends with an outcome, whatever it is.
Ends(d) == /\ Goes(d, "idle")
           /\ retry' = IF d = Daemon THEN NoRetry ELSE retry
\* A driver that is done keeps nothing.
Forgets(d) == /\ mem' = [mem EXCEPT ![d] = Blank]
              /\ seen' = [seen EXCEPT ![d] = {}]

\* Mutant: every error is the first one.
ErrsUncounted(d) ==
    /\ retry' = IF d = Daemon THEN [gen |-> mem[d].gen, errors |-> 1] ELSE retry
    /\ Goes(d, "idle")
\* A pursuit that ends with an error; schedule_retry counts the daemon's.
Errs(d) ==
    IF d # Daemon THEN Goes(d, "idle") /\ UNCHANGED retry
    ELSE LET n == IF retry.gen = mem[d].gen THEN retry.errors + 1 ELSE 1 IN
         /\ retry' = [gen |-> mem[d].gen, errors |-> n]
         /\ Goes(d, IF n >= MaxErrors THEN "quarantine" ELSE "idle")

\* pause_quarantined: forgets the entry once the pause is stored; refused
\* otherwise, and the entry keeps the goal from being retried.
Quarantine ==
    /\ at[Daemon] = "quarantine"
    /\ IF goal.status = "in_progress" /\ MayWrite(DaemonWorker)
       THEN goal' = Released("paused") /\ retry' = NoRetry
       ELSE UNCHANGED <<goal, retry>>
    /\ Goes(Daemon, "idle")
    /\ UNCHANGED <<rigid, satisfied, verified, waived, ck, mem, seen,
                   history, ops, faults>>

-----------------------------------------------------------------------------
(***************************************************************************)
(* One pursuit                                                             *)
(***************************************************************************)
DriverOnly == UNCHANGED <<rigid, durable, history, ops, faults>>
Unmoved == UNCHANGED <<rigid, ops, faults>>

\* require_running, and the checkpoint as it is, under the goal's generation.
ReadCheckpoint(d) ==
    /\ at[d] = "start"
    /\ goal.status = "in_progress" /\ goal.live /\ goal.claimed = worker[d]
    /\ mem' = [mem EXCEPT ![d] = [fresh |-> TRUE, gen |-> goal.gen, started |-> ck.started,
                                  completed |-> ck.completed, failures |-> ck.failures]]
    /\ Goes(d, "begin")
    /\ UNCHANGED <<seen, retry>> /\ DriverOnly

\* pursuit.started
Begin(d) ==
    /\ at[d] = "begin" /\ CanWrite(d)
    /\ Store(d, mem[d]) /\ Goes(d, "loop")
    /\ UNCHANGED <<goal, satisfied, verified, waived, seen, retry, history>> /\ Unmoved

\* The top of the loop: the lease is renewed for the rest of the budget.
Loop(d) ==
    /\ at[d] = "loop" /\ Running(d)
    /\ seen' = [seen EXCEPT ![d] = satisfied]
    /\ Goes(d, "verify")
    /\ UNCHANGED <<mem, retry>> /\ DriverOnly

\* Where a verification leads.  C: the criteria reported satisfied; error:
\* some other criterion could not be checked.
After(C, error, c) ==
    IF C = Criteria /\ Criteria # {} THEN "achieve"
    ELSE IF \/ Criteria = {} \/ Criteria \ C \subseteq manual
            \/ c.failures >= MaxFailures \/ c.started >= MaxSegments THEN "pause"
    ELSE IF error THEN "reserve_failed" ELSE "reserve"

\* record_pursuit_verification: the artifact, the newly satisfied criteria
\* and the checkpoint in one transaction.  A criterion that was satisfied
\* already is reported so without evidence; a manual one never is.
Verify(d, new, error) ==
    LET C == seen[d] \union new
        c == IF error /\ mem[d].failures < MaxFailures
             THEN [mem[d] EXCEPT !.failures = @ + 1] ELSE mem[d]
    IN
    /\ at[d] = "verify" /\ CanWrite(d)
    /\ new \intersect (manual \union seen[d]) = {}
    /\ error => ~(Criteria \ C \subseteq manual)
    /\ satisfied' = satisfied \union C
    /\ verified' = verified \union new
    /\ Store(d, c) /\ Goes(d, After(C, error, c))
    /\ UNCHANGED <<goal, waived, seen, retry, history>> /\ Unmoved

\* Mutant: criteria that were merely asserted count.
AchievableAsserted == satisfied = Criteria
\* verifier_satisfied_indices: stored evidence for every criterion.
Achievable == verified = Criteria

\* pursuit.achieved completes the goal in the checkpoint's transaction.
Achieve(d) ==
    /\ at[d] = "achieve" /\ CanWrite(d) /\ Achievable
    /\ goal' = Released("completed")
    /\ Store(d, [mem[d] EXCEPT !.failures = 0]) /\ Ends(d)
    /\ UNCHANGED <<satisfied, verified, waived, seen, history>> /\ Unmoved

\* pause: limits, missing or manual criteria, timeout, a cancelled command.
PausePursuit(d) ==
    /\ at[d] = "pause" /\ CanWrite(d)
    /\ goal' = Released("paused")
    /\ Store(d, mem[d]) /\ Ends(d)
    /\ UNCHANGED <<satisfied, verified, waived, seen, history>> /\ Unmoved

\* The overall timeout.
TimesOut(d) ==
    /\ at[d] \in {"loop", "reserve", "reserve_failed"}
    /\ Goes(d, "pause")
    /\ UNCHANGED <<mem, seen, retry>> /\ DriverOnly

\* Before the dispatch: the segment is counted and its failure slot taken.
Reserved(c) == [c EXCEPT !.started = @ + 1, !.failures = @ + 1]

Reserve(d) ==
    /\ at[d] \in {"reserve", "reserve_failed"} /\ CanWrite(d)
    /\ Store(d, Reserved(mem[d]))
    /\ streak' = streak + 1
    /\ Goes(d, IF at[d] = "reserve" THEN "dispatch" ELSE "dispatch_failed")
    /\ UNCHANGED <<goal, satisfied, verified, waived, seen, retry, dispatched>> /\ Unmoved

Dispatch(d) ==
    /\ at[d] \in {"dispatch", "dispatch_failed"}
    /\ dispatched' = dispatched + 1
    /\ Goes(d, IF at[d] = "dispatch" THEN "running" ELSE "running_failed")
    /\ UNCHANGED <<durable, mem, seen, retry, streak>> /\ Unmoved

\* The segment's result is recorded.  A success gives the slot back, and
\* clears the failures before it unless this round's verifier failed.  At the
\* limit, and when a command's segment was cancelled, the goal is paused.
Completed(c, success, verifierFailed) ==
    [c EXCEPT !.completed = @ + 1,
              !.failures = IF ~success THEN @ ELSE IF verifierFailed THEN @ - 1 ELSE 0]
Return(d, success) ==
    LET c == Completed(mem[d], success, at[d] = "running_failed") IN
    /\ at[d] \in {"running", "running_failed"} /\ CanWrite(d)
    /\ Store(d, c)
    /\ streak' = IF success THEN 0 ELSE streak
    /\ \/ ~success /\ (c.failures >= MaxFailures \/ d # Daemon) /\ Goes(d, "pause")
       \/ (success \/ c.failures < MaxFailures) /\ Goes(d, "loop")
    /\ UNCHANGED <<goal, satisfied, verified, waived, seen, retry, dispatched>> /\ Unmoved

\* stopped_if_drifted: somebody else moved the goal or its lease.
Drifts(d) ==
    /\ at[d] \in {"loop", "verify", "achieve", "pause", "reserve", "reserve_failed",
                  "running", "running_failed"}
    /\ ~Running(d)
    /\ Ends(d) /\ Forgets(d)
    /\ DriverOnly

\* A write or the first read is refused: no lease, another generation,
\* another driver's checkpoint, or criteria without evidence.
Refused(d) ==
    /\ \/ at[d] = "start" /\ ~(/\ goal.status = "in_progress" /\ goal.live
                               /\ goal.claimed = worker[d])
       \/ /\ at[d] \in {"begin", "verify", "achieve", "pause", "reserve",
                        "reserve_failed", "running", "running_failed"}
          /\ ~CanWrite(d)
       \/ at[d] = "achieve" /\ ~Achievable
    /\ Errs(d) /\ Forgets(d)
    /\ DriverOnly

Step(d) ==
    \/ ReadCheckpoint(d) \/ Begin(d) \/ Loop(d)
    \/ \E new \in SUBSET Criteria, error \in BOOLEAN : Verify(d, new, error)
    \/ Achieve(d) \/ PausePursuit(d) \/ TimesOut(d)
    \/ Reserve(d) \/ Dispatch(d)
    \/ \E success \in BOOLEAN : Return(d, success)
    \/ Drifts(d) \/ Refused(d)

-----------------------------------------------------------------------------
(***************************************************************************)
(* Faults                                                                  *)
(***************************************************************************)
Fault == faults < MaxFaults /\ faults' = faults + 1
         /\ UNCHANGED <<rigid, satisfied, verified, waived, ck, history, ops>>

\* A process dies; the daemon's retry entries die with it.
Crash(d) ==
    /\ at[d] # "idle" /\ Fault
    /\ Ends(d) /\ Forgets(d) /\ UNCHANGED goal

\* Any other error of the store, the renewals of a lease included.
Fails(d) ==
    /\ at[d] \notin {"idle", "dispatch", "dispatch_failed"} /\ Fault
    /\ IF at[d] = "quarantine" THEN Goes(d, "idle") /\ UNCHANGED retry ELSE Errs(d)
    /\ Forgets(d) /\ UNCHANGED goal

\* A cancelled command pauses the goal; the daemon leaves it as it is, a
\* segment that was running included.
Cancelled(d) ==
    /\ \/ at[d] \in {"loop", "verify", "achieve", "reserve", "reserve_failed"}
       \/ d = Daemon /\ at[d] \in {"running", "running_failed"}
    /\ Fault
    /\ IF d = Daemon THEN Ends(d) /\ Forgets(d)
                     ELSE Goes(d, "pause") /\ UNCHANGED <<mem, seen, retry>>
    /\ UNCHANGED goal

\* A lease runs out: while a driver works under it, or while the daemon is
\* about to take it up again (its backoff is seconds, its lease the overall
\* budget), only if that process was stalled.
Expires ==
    /\ goal.live
    /\ goal' = [goal EXCEPT !.live = FALSE]
    /\ UNCHANGED <<at, retry>>
Idle(w) == /\ \A d \in Drivers : worker[d] = w => at[d] = "idle"
           /\ w = DaemonWorker => GivenUp
LeaseExpires ==
    /\ Expires /\ Idle(goal.claimed)
    /\ UNCHANGED <<rigid, satisfied, verified, waived, ck, mem, seen,
                   history, ops, faults>>
Stalls == Expires /\ ~Idle(goal.claimed) /\ Fault /\ UNCHANGED <<mem, seen>>

Next ==
    \/ Operator
    \/ Acquire \/ Quarantine
    \/ \E d \in Drivers : Step(d) \/ Crash(d) \/ Fails(d) \/ Cancelled(d)
    \/ LeaseExpires \/ Stalls

Spec == Init /\ [][Next]_vars

\* Drivers take their steps (segments and verifications have timeouts), the
\* daemon polls, and a lease nobody works under runs out.
FairSpec ==
    /\ Spec
    /\ WF_vars(Acquire) /\ WF_vars(Quarantine) /\ WF_vars(LeaseExpires)
    /\ \A d \in Drivers : WF_vars(Step(d))

-----------------------------------------------------------------------------
(***************************************************************************)
(* Properties                                                              *)
(***************************************************************************)
\* The types; and only a goal in progress is leased.
PursuitTypeOK ==
    /\ goal.status \in {"queued", "in_progress", "paused", "completed", "failed",
                        "cancelled"}
    /\ goal.claimed \in Workers \union {NoWorker} /\ goal.gen \in Nat
    /\ goal.live => goal.claimed # NoWorker
    /\ goal.claimed # NoWorker => goal.status = "in_progress"
    /\ satisfied \subseteq Criteria /\ verified \subseteq Criteria
    /\ at \in [Drivers -> Phases]
    /\ ck.completed <= ck.started

\* A goal is completed only on evidence of the verifier for each criterion or
\* with a recorded waiver; an assertion is never enough.
CompletedIsVerified ==
    goal.status = "completed" => waived \/ verified = Criteria

\* Every segment ever dispatched, by whichever driver and before whichever
\* crash, is in the durable count, which the limit bounds.
SegmentsAccounted == dispatched <= ck.started /\ ck.started <= MaxSegments

\* Segments started since the last recorded success hold a failure slot
\* each, through crashes and changes of driver, so their number is bounded:
\* no order of restarts makes the goal run on for longer without a success.
FailuresBoundDispatches ==
    goal.status # "completed" => streak <= ck.failures /\ ck.failures <= MaxFailures

\* A checkpoint never goes back: no driver overwrites what it did not read.
CheckpointMonotone ==
    [][ck'.started >= ck.started /\ ck'.completed >= ck.completed]_vars

\* The budgets of a pursuit hold across crashes, overlapping drivers and lost
\* leases: the durable checkpoint counts every segment and every failure slot,
\* and nobody takes it back.
BudgetsHold ==
    /\ [](PursuitTypeOK /\ SegmentsAccounted /\ FailuresBoundDispatches)
    /\ CheckpointMonotone

\* A goal that is being pursued ends up completed, paused, failed or
\* cancelled, unless storing its quarantine failed too.
PursuitEnds == goal.status = "in_progress" ~> (goal.status # "in_progress" \/ GivenUp)
=============================================================================
