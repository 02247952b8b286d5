---------------------------- MODULE Continuity -----------------------------
(***************************************************************************)
(* The continuity plan of one goal (vyane-goal): a quota event that blocks *)
(* the goal's primary agent installs a plan - a takeover, its review, the  *)
(* wait for the review's checks, the repair of failed checks, the resume   *)
(* of the primary - whose steps are run by hand-approved dispatches.  Every*)
(* operation of the store is one immediate SQLite transaction, so one      *)
(* action; commands of several operators, late runs and signals in any     *)
(* order are what interleaves.                                             *)
(*                                                                         *)
(* An approval is bound to the revision and the plan it was queued for.    *)
(* Revisions only grow, so "bound to the current revision" is a flag that  *)
(* every mutation of the goal clears.  Of the bound plan only the latest   *)
(* failed check is read again and kept.                                    *)
(***************************************************************************)
EXTENDS Naturals, Sequences, FiniteSets

CONSTANTS
    Events,          \* quota events, each applied at most once
    Policies,        \* the policies a goal may be created with
    Options,         \* what a request binds besides the plan (workdir, ...)
    MaxObservations, \* bound: review-check observation numbers
    MaxApprovals,    \* bound: approvals ever queued
    MaxOpen          \* bound: approvals pending or approved at a time

NoEvent == "no_event"
NoApproval == 0
Observations == 1 .. MaxObservations

Waits == {"waiting_for_takeover", "waiting_for_quota_reset",
          "waiting_for_quota_reset_and_review", "waiting_for_review",
          "waiting_for_review_checks"}
StepStatuses == Waits \union {"absent", "ready", "in_flight", "done", "blocked"}

\* The steps, in plan order; all but the wait are run under an approval.
Approved == {"takeover", "review_takeover", "repair_failed_review", "resume_primary"}
Steps == Approved \union {"wait_review_checks"}

ASSUME ContinuityAssumption ==
    /\ MaxObservations \in Nat /\ MaxApprovals \in Nat /\ MaxOpen \in Nat
    /\ NoEvent \notin Events
    /\ Policies \subseteq [takeover : BOOLEAN, review : BOOLEAN,
                           checks : BOOLEAN, resume : BOOLEAN]
    /\ \A p \in Policies : p.checks => p.review

VARIABLES
    policy,    \* the goal's continuity policy
    goal,      \* the goal's status
    event,     \* the quota event the current plan answers, or NoEvent
    applied,   \* applied_quota_event_ids
    step,      \* the status of every step of the current plan
    quota,     \* a quota_reset signal was recorded for this event
    failed,    \* observation of the recorded failed checks, 0 if none
    passed,    \* observation of the recorded passed checks, 0 if none
    approvals  \* goal_takeover_approvals, in creation order

plan == <<event, applied, step, quota, failed, passed>>
vars == <<policy, goal, plan, approvals>>

AnApproval == DOMAIN approvals
HighWater == IF passed > failed THEN passed ELSE failed

-----------------------------------------------------------------------------
(***************************************************************************)
(* The plan                                                                *)
(***************************************************************************)
Present(c, s) ==
    CASE s = "takeover" -> c.takeover
      [] s = "review_takeover" -> c.takeover /\ c.review
      [] s = "resume_primary" -> c.takeover /\ c.resume
      [] OTHER -> c.takeover /\ c.checks

FreshStep(c, s) ==
    IF ~Present(c, s) THEN "absent"
    ELSE CASE s = "takeover" -> "ready"
           [] s = "review_takeover" -> "waiting_for_takeover"
           [] s = "wait_review_checks" -> "waiting_for_review"
           [] s = "repair_failed_review" -> "waiting_for_review_checks"
           [] OTHER -> IF c.review THEN "waiting_for_quota_reset_and_review"
                                   ELSE "waiting_for_quota_reset"

\* Mutant: a recorded failure holds nothing up.
NeverHeld(st, f) == FALSE
\* failure_wait_for, failure_step: failed checks hold the wait up until the
\* repair is done.
HeldByFailure(st, f) == f # 0 /\ st["repair_failed_review"] # "done"

\* wait_for, failure_wait_for and failure_step of each step, against the
\* steps st and the signals q (quota reset), f and p (failed, passed).
Satisfied(s, st, q, f, p) ==
    CASE s = "takeover" -> TRUE
      [] s = "review_takeover" -> st["takeover"] = "done"
      [] s = "wait_review_checks" ->
            /\ st["review_takeover"] = "done" /\ p # 0
            /\ ~HeldByFailure(st, f)
      [] s = "repair_failed_review" -> st["review_takeover"] = "done" /\ f # 0
      [] OTHER -> /\ q
                  /\ policy.checks => st["wait_review_checks"] = "done"
                  /\ policy.review /\ ~policy.checks => st["review_takeover"] = "done"

ReleaseOnce(st, q, f, p) ==
    [s \in Steps |->
        IF ~(st[s] \in Waits /\ Satisfied(s, st, q, f, p)) THEN st[s]
        ELSE IF s = "wait_review_checks" THEN "done" ELSE "ready"]

\* release_ready_dependents: only the wait becomes done by itself and only
\* the resume depends on it, so the loop's third pass changes nothing.
Release(st, q, f, p) ==
    ReleaseOnce(ReleaseOnce(st, q, f, p), q, f, p)

\* with_step_status: a review that ends releases the resume by name when no
\* checks are awaited; everything else is released by its dependencies.
WithStepStatus(s, status) ==
    LET set == [step EXCEPT ![s] = status]
        named == IF status = "done" /\ s = "review_takeover" /\ ~policy.checks
                 THEN [set EXCEPT !["resume_primary"] =
                        CASE @ = "waiting_for_quota_reset_and_review" ->
                                IF quota THEN "ready" ELSE "waiting_for_quota_reset"
                          [] @ = "waiting_for_review" -> "ready"
                          [] OTHER -> @]
                 ELSE set
    IN Release(named, quota, failed, passed)

\* mutate_in_transaction: the revision grows, every bound approval is stale.
Mutated(as) == [a \in DOMAIN as |-> [as[a] EXCEPT !.current = FALSE]]

-----------------------------------------------------------------------------
Init ==
    /\ policy \in Policies
    /\ goal = "in_progress"
    /\ event = NoEvent /\ applied = {}
    /\ step = [s \in Steps |-> "absent"]
    /\ quota = FALSE /\ failed = 0 /\ passed = 0
    /\ approvals = <<>>

\* start, pause, resume, progress, done, fail and cancel of the goal as far
\* as the plan sees them: another status, another revision, the plan as is.
GoalMoves(to) ==
    /\ \/ goal = "in_progress" /\ to \in {"in_progress", "paused", "ended"}
       \/ goal = "paused" /\ to \in {"in_progress", "ended"}
    /\ goal' = to
    /\ approvals' = Mutated(approvals)
    /\ UNCHANGED <<policy, plan>>

\* event_matches, and the events that were answered before.
Matches(e) == goal = "in_progress" /\ e \notin applied
\* record_quota_handoff: any new matching event replaces the whole plan.
RecordQuotaHandoff(e) ==
    /\ Matches(e)
    /\ event' = e /\ applied' = applied \union {e}
    /\ step' = [s \in Steps |-> FreshStep(policy, s)]
    /\ quota' = FALSE /\ failed' = 0 /\ passed' = 0
    /\ approvals' = Mutated(approvals)
    /\ UNCHANGED <<policy, goal>>

\* record_continuity_signal: a signal that changes the plan is a mutation.
Signals ==
    /\ goal = "in_progress" /\ event # NoEvent
    /\ approvals' = Mutated(approvals)
    /\ UNCHANGED <<policy, goal, event, applied>>

\* with_ready_signal, quota_reset: once per event.
RecordQuotaReset ==
    /\ Signals /\ ~quota
    /\ quota' = TRUE
    /\ LET named == [step EXCEPT !["resume_primary"] =
                        CASE @ = "waiting_for_quota_reset" -> "ready"
                          [] @ = "waiting_for_quota_reset_and_review" ->
                                "waiting_for_review"
                          [] OTHER -> @]
       IN step' = Release(named, TRUE, failed, passed)
    /\ UNCHANGED <<failed, passed>>

\* with_ready_signal, review_checks_passed: an observation at or below
\* the high water changes nothing.
RecordChecksPassed(n) ==
    /\ Signals /\ policy.checks
    /\ n > HighWater
    /\ passed' = n
    /\ step' = Release(step, quota, failed, n)
    /\ UNCHANGED <<quota, failed>>

\* What a failure takes back: the wait that was over, a repair that was done
\* and a resume that was ready.
TakenBack ==
    [step EXCEPT
        !["wait_review_checks"] = IF @ = "done" THEN "waiting_for_review" ELSE @,
        !["repair_failed_review"] =
            IF @ # "done" THEN @
            ELSE IF step["review_takeover"] = "done" THEN "ready"
            ELSE "waiting_for_review_checks",
        !["resume_primary"] =
            IF @ # "ready" THEN @
            ELSE IF quota THEN "waiting_for_review"
            ELSE "waiting_for_quota_reset_and_review"]

\* with_ready_signal, review_checks_failed: refused once the primary
\* resumes; forgets the checks recorded before it.
RecordChecksFailed(n) ==
    /\ Signals /\ policy.checks
    /\ n > HighWater
    /\ step["resume_primary"] \notin {"in_flight", "done"}
    /\ failed' = n /\ passed' = 0
    /\ step' = Release(TakenBack, quota, n, 0)
    /\ UNCHANGED quota

-----------------------------------------------------------------------------
(***************************************************************************)
(* Approvals                                                               *)
(***************************************************************************)
Predecessor(s, c, f) ==
    CASE s = "takeover" -> "none"
      [] s = "review_takeover" -> "takeover"
      [] s = "repair_failed_review" -> "review_takeover"
      [] OTHER -> IF c.checks /\ f # 0 THEN "repair_failed_review"
                  ELSE IF c.review THEN "review_takeover" ELSE "none"

\* Mutant: any successful run of the predecessor will do.
RestsOnAny(s, e, f, up) ==
    LET need == Predecessor(s, policy, f) IN
    IF need = "none" THEN up = NoApproval
    ELSE up \in AnApproval /\ approvals[up].step = need /\ approvals[up].status = "done"
\* validate_upstream_continuity_evidence, one level: the predecessor's run
\* succeeded for this very event and, for a repair, for this very failure.
RestsOn(s, e, f, up) ==
    LET need == Predecessor(s, policy, f) IN
    IF need = "none" THEN up = NoApproval
    ELSE /\ up \in AnApproval
         /\ approvals[up].event = e /\ approvals[up].step = need
         /\ approvals[up].status = "done"
         /\ need = "repair_failed_review" => approvals[up].failed = f

\* validate_upstream_approval_record: the whole chain under an approval; a
\* resume and a repair check what their predecessor rests on too.
Intact[a \in 0 .. Len(approvals)] ==
    a # NoApproval =>
        LET r == approvals[a] IN
        /\ RestsOn(r.step, r.event, r.failed, r.up)
        /\ r.step \in {"resume_primary", "repair_failed_review"} => Intact[r.up]

\* queue_takeover_approval: one row per bound snapshot, so asking again for
\* the same plan, step and options changes nothing.
Queue(s, o, up) ==
    /\ Len(approvals) < MaxApprovals
    /\ Cardinality({a \in AnApproval : approvals[a].status \in {"pending", "approved"}})
            < MaxOpen
    /\ goal = "in_progress" /\ event # NoEvent
    /\ step[s] = "ready"
    /\ \A a \in AnApproval : ~( /\ approvals[a].current
                                /\ approvals[a].step = s /\ approvals[a].opts = o
                                /\ approvals[a].up = up )
    /\ RestsOn(s, event, failed, up)
    /\ s \in {"resume_primary", "repair_failed_review"} => Intact[up]
    /\ approvals' = Append(approvals,
            [step |-> s, opts |-> o, event |-> event, failed |-> failed, up |-> up,
             current |-> TRUE, status |-> "pending", into |-> NoEvent])
    /\ UNCHANGED <<policy, goal, plan>>

\* decide_takeover_approval
Decide(a, decision) ==
    /\ approvals[a].status = "pending"
    /\ approvals' = [approvals EXCEPT ![a].status = decision]
    /\ UNCHANGED <<policy, goal, plan>>

\* Mutant: the checkpoint the approval was given at is not compared.
BoundaryLoose(a) ==
    /\ goal = "in_progress"
    /\ approvals[a].event = event /\ step[approvals[a].step] = "ready"

\* validate_takeover_boundary
Boundary(a) ==
    /\ goal = "in_progress" /\ approvals[a].current
    /\ approvals[a].event = event /\ step[approvals[a].step] = "ready"

\* consume_takeover_approval: the dispatch starts after this commit.
Consume(a) ==
    /\ approvals[a].status = "approved"
    /\ Boundary(a) /\ Intact[a]
    /\ step' = WithStepStatus(approvals[a].step, "in_flight")
    /\ approvals' = [Mutated(approvals) EXCEPT ![a].status = "in_flight"]
    /\ UNCHANGED <<policy, goal, event, applied, quota, failed, passed>>

\* A repair is stale when the latest failure is not the one it was approved
\* for; a failure names its event, so neither is one of another plan.
StaleRepair(a, result) ==
    /\ approvals[a].step = "repair_failed_review" /\ result = "done"
    /\ <<approvals[a].event, approvals[a].failed>> # <<event, failed>>

\* finish_takeover_approval: the run of approval a ended; the step of that
\* name must be in flight in whatever plan the goal has now.
Finish(a, result) ==
    /\ approvals[a].status = "in_flight"
    /\ step[approvals[a].step] = "in_flight"
    /\ step' = WithStepStatus(approvals[a].step,
                              IF StaleRepair(a, result) THEN "ready" ELSE result)
    /\ approvals' = [Mutated(approvals) EXCEPT ![a].status = result,
                                               ![a].into = event]
    /\ UNCHANGED <<policy, goal, event, applied, quota, failed, passed>>

Next ==
    \/ \E to \in {"in_progress", "paused", "ended"} : GoalMoves(to)
    \/ \E e \in Events : RecordQuotaHandoff(e)
    \/ RecordQuotaReset
    \/ \E n \in Observations : RecordChecksPassed(n) \/ RecordChecksFailed(n)
    \/ \E s \in Approved, o \in Options, up \in 0 .. Len(approvals) : Queue(s, o, up)
    \/ \E a \in AnApproval :
        \/ \E d \in {"approved", "rejected"} : Decide(a, d)
        \/ Consume(a)
        \/ \E r \in {"done", "blocked"} : Finish(a, r)

Spec == Init /\ [][Next]_vars

-----------------------------------------------------------------------------
(***************************************************************************)
(* Properties                                                              *)
(***************************************************************************)
\* The types, and what validate() demands of a stored plan: a step is in the
\* plan exactly when the policy asks for it, and signals name observations.
ContinuityTypeOK ==
    /\ goal \in {"in_progress", "paused", "ended"}
    /\ event \in applied \union {NoEvent} /\ applied \subseteq Events
    /\ step \in [Steps -> StepStatuses]
    /\ \A s \in Steps : step[s] # "absent" <=> event # NoEvent /\ Present(policy, s)
    /\ quota \in BOOLEAN
    /\ failed \in 0 .. MaxObservations /\ passed \in 0 .. MaxObservations
    /\ approvals \in Seq([step : Approved, opts : Options, event : Events,
                          failed : 0 .. MaxObservations, up : 0 .. MaxApprovals,
                          current : BOOLEAN, into : Events \union {NoEvent},
                          status : {"pending", "approved", "rejected",
                                    "in_flight", "done", "blocked"}])

\* The primary is resumed only after its quota came back, its takeover was
\* reviewed, and the checks of the review passed after the last failure was
\* repaired - whatever the order in which runs end and signals arrive.
ResumeFollowsReview ==
    step["resume_primary"] \in {"ready", "in_flight", "done"} =>
        /\ quota
        /\ policy.review => step["takeover"] = "done" /\ step["review_takeover"] = "done"
        /\ policy.checks =>
            /\ step["wait_review_checks"] = "done" /\ passed > failed
            /\ failed # 0 => step["repair_failed_review"] = "done"

\* A repair that counts as done was approved for and ran against the latest
\* failure of this event: one that ends late, after newer checks failed or
\* after the plan was replaced, never counts.
RepairMatchesFailure ==
    step["repair_failed_review"] = "done" =>
        \E a \in AnApproval :
            /\ approvals[a].step = "repair_failed_review"
            /\ approvals[a].status = "done"
            /\ approvals[a].event = event /\ approvals[a].failed = failed

\* No step is left waiting for what already happened.
NothingLeftWaiting ==
    \A s \in Steps : step[s] \in Waits => ~Satisfied(s, step, quota, failed, passed)

\* The primary gets its work back only as the plan says: after reviewed and
\* checked work, repairs of the failure at hand, and nothing left waiting.
ResumeIsReviewed ==
    /\ ContinuityTypeOK /\ NothingLeftWaiting
    /\ ResumeFollowsReview /\ RepairMatchesFailure

\* A run rests on a chain of successful runs for the same quota event, back
\* to the takeover.
RunsRestOnRuns ==
    \A a \in AnApproval : approvals[a].status \in {"in_flight", "done"} =>
        LET r == approvals[a] IN
        /\ r.step \in {"review_takeover", "repair_failed_review"} => r.up # NoApproval
        /\ r.up # NoApproval =>
            /\ approvals[r.up].event = r.event
            /\ approvals[r.up].status = "done"
            /\ r.up < a

\* An approval whose run ended in another event's plan.
Intruders == {a \in AnApproval : approvals[a].into \notin {NoEvent, approvals[a].event}}

\* As long as no run of an earlier plan ended in this one, a step has at most
\* one run at a time and is in flight exactly while that run is.
OneRunPerStep ==
    Intruders = {} =>
        \A s \in Approved :
            LET running == {a \in AnApproval : /\ approvals[a].step = s
                                               /\ approvals[a].event = event
                                               /\ approvals[a].status = "in_flight"}
            IN /\ Cardinality(running) <= 1
               /\ step[s] = "in_flight" <=> running # {}

\* Approved runs build on each other and never overlap within a plan.
RunsAreChained == RunsRestOnRuns /\ OneRunPerStep

\* A dispatch starts only on the plan its approval was given for: same event,
\* same latest failure, goal in progress; and a decision is never revised.
DispatchAsApproved ==
    [][\A a \in AnApproval :
        /\ approvals[a].status = "approved" /\ approvals'[a].status = "in_flight" =>
            /\ goal = "in_progress"
            /\ approvals[a].event = event /\ approvals[a].failed = failed
        /\ approvals[a].status \in {"rejected", "done", "blocked"} =>
            approvals'[a].status = approvals[a].status
      ]_vars
=============================================================================
