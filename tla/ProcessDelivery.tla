--------------------------- MODULE ProcessDelivery ---------------------------
(***************************************************************************)
(* One delivery of the process lane (vyane-service/dogfood.rs) over the    *)
(* kernel store (kernel_store.rs) and the phases of approval_fsm.rs, with  *)
(* the approve and deny commands of the kernel boundary.  A session is a   *)
(* DogfoodPath of some process: it calls operations made of several        *)
(* transactions, remembers the revisions it read, and may die between any  *)
(* two of them; another may have been reopened meanwhile.                  *)
(***************************************************************************)
EXTENDS Integers, Sequences, SequencesExt

CONSTANTS
    Sessions,       \* DogfoodPath values, of any process
    Ceilings,       \* possible permissions of a delivery: "allow", "ask", "deny"
    MaxRevision,    \* bound on the revisions of the receipt
    MaxCalls,       \* bound on what callers ask for after the first run: reopenings and calls
    NoRow           \* no row

VARIABLES
    ceiling,        \* DogfoodConfig::permission with require_approval
    rcpt,           \* kernel_receipts
    effect,         \* kernel_effects holds the run's effect
    row,            \* kernel_approvals, the row appr-<receipt>
    fence,          \* kernel_lease_fences holds the run's generation
    dlv,            \* kernel_delivery
    run,            \* the AgentRun in agent.sqlite
    marker,         \* the truth probe's file holds PASS
    children,       \* how often the effect's child was started
    mem,            \* what each session remembers
    calls           \* how much was asked for so far

store == <<rcpt, effect, row, fence, dlv>>
vars == <<ceiling, rcpt, effect, row, fence, dlv, run, marker, children, mem, calls>>

\* The gates of record_local_gates, in its order.
LocalGates == <<"unit", "integration", "review", "ci_packaging">>

Closed == [open |-> FALSE, todo |-> <<>>, rrev |-> 0, prev |-> 0, dig |-> 0, art |-> FALSE,
           claimed |-> FALSE, permit |-> FALSE, cancel |-> FALSE]

(* The phases: approval_fsm.rs. *)

Terminal(p) == p \in {"completed", "failed", "cancelled", "denied"}

AllowsEffect(p) == p \in {"running", "resuming", "approved", "verified"}

\* The transitions some caller asks for; every other pair is an error.
Transitions ==
    {<<"running", "ask", "approval_required">>, <<"running", "complete", "completed">>,
     <<"running", "deny", "denied">>,
     <<"approval_required", "grant", "approved">>, <<"approval_required", "deny", "denied">>,
     <<"approved", "grant", "approved">>, <<"approved", "resume", "resuming">>,
     <<"approved", "complete", "completed">>, <<"resuming", "complete", "completed">>,
     <<"resuming", "resume", "resuming">>, <<"verified", "complete", "completed">>}

Successors(p, e) == {q \in {t[3] : t \in Transitions} : <<p, e, q>> \in Transitions}

(* The operations, as the transactions they are made of. *)

OpenOp == <<"Insert", "Ensure">>
ClaimOp == <<"Claim", "Fence">>
WorkOp == <<"Evaluate", "AllowGate", "Check", "Apply", "Spawn", "Probe">> \o LocalGates
PublishOp == <<"Publish", "Digest">>
FinishOp == <<"Finish", "Commit", "Summary", "Complete", "CompletePhase">>
AskOp == <<"Ask", "AskPhase", "AskGate">>
GrantOp == <<"Grant", "GrantPhase", "GrantGate", "ResumePhase">>
DenyOp == <<"Deny", "DenyPhase", "DenyGate">>
FailOp == <<"Cleanup", "Fail">>
CancelOp == <<"CancelRun", "Cleanup", "Cancel">>

\* run_successful_dogfood
FreshRun == OpenOp \o ClaimOp \o <<"Attempt">> \o WorkOp \o PublishOp \o FinishOp

Init ==
    /\ ceiling \in Ceilings
    /\ rcpt = NoRow /\ row = NoRow /\ dlv = NoRow
    /\ effect = FALSE /\ fence = FALSE
    /\ run = "none" /\ marker = FALSE /\ children = 0
    /\ mem = [s \in Sessions |-> Closed]
    /\ calls = 0

\* kernel_delivery; a missing row counts as running at revision 0.
Delivery == IF dlv = NoRow THEN [phase |-> "running", rev |-> 0, asked |-> FALSE] ELSE dlv

Label(s) == IF mem[s].open /\ mem[s].todo # <<>> THEN Head(mem[s].todo) ELSE "idle"

\* The next transaction of the session, and the session after an error.
Advanced(s) == [mem[s] EXCEPT !.todo = Tail(@)]
Failed(s) == [mem[s] EXCEPT !.todo = <<>>]
Stop(s) == mem' = [mem EXCEPT ![s] = Failed(s)]

(* Receipts. *)

\* CompletionReceipt::validate, of what an operation may change
ValidReceipt(r) ==
    r.status = "completed" => r.art /\ r.truth = "passed" /\ r.local = Range(LocalGates)

\* What the closure of each transaction does to the receipt.
Mutated(l, r) ==
    CASE l \in Range(LocalGates) -> [r EXCEPT !.local = @ \union {l}]
      [] l = "Digest" -> [r EXCEPT !.art = TRUE]
      [] l = "Probe" -> [r EXCEPT !.truth = IF marker THEN "passed" ELSE "failed"]
      [] l = "Complete" -> [r EXCEPT !.status = "completed"]
      [] l = "Fail" -> [r EXCEPT !.status = "failed"]
      [] l = "Cancel" -> [r EXCEPT !.status = "cancelled"]
      [] l = "Unresolved" -> [r EXCEPT !.status = "unresolved"]
      [] OTHER -> r

ReceiptLabels ==
    {"Attempt", "AskGate", "AllowGate", "GrantGate", "DenyGate", "Probe", "Digest", "Summary",
     "Complete", "Cleanup", "Fail", "Cancel", "Unresolved"} \union Range(LocalGates)

\* The fences of transition_receipt.
Current(s) == rcpt # NoRow /\ rcpt.status = "open" /\ rcpt.rev = mem[s].rrev

\* transition_receipt and the session's new revision.  The probe records its
\* failure and fails.
ReceiptStep(s) ==
    LET l == Label(s)
        next == [Mutated(l, rcpt) EXCEPT !.rev = mem[s].rrev + 1]
    IN  /\ l \in ReceiptLabels
        /\ rcpt # NoRow => rcpt.rev < MaxRevision
        /\ IF Current(s) /\ ValidReceipt(next)
           THEN /\ rcpt' = next
                /\ mem' = [mem EXCEPT ![s] =
                    [(IF l = "Probe" /\ ~marker THEN Failed(s) ELSE Advanced(s))
                        EXCEPT !.rrev = next.rev]]
           ELSE Stop(s) /\ UNCHANGED rcpt
        /\ UNCHANGED <<ceiling, effect, row, fence, dlv, run, marker, children, calls>>

(* Opening. *)

\* DogfoodPath::open_durable: insert_open_receipt, ensure_delivery_running
Open(s) ==
    /\ rcpt = NoRow /\ ~mem[s].open
    /\ mem' = [mem EXCEPT ![s] = [Closed EXCEPT !.open = TRUE, !.todo = FreshRun]]
    /\ UNCHANGED <<ceiling, store, run, marker, children, calls>>

InsertReceipt(s) ==
    /\ Label(s) = "Insert"
    /\ IF rcpt = NoRow
       THEN /\ rcpt' = [rev |-> 1, status |-> "open", truth |-> "unknown", local |-> {},
                        art |-> FALSE]
            /\ mem' = [mem EXCEPT ![s] = [Advanced(s) EXCEPT !.rrev = 1]]
       ELSE mem' = [mem EXCEPT ![s] = Closed] /\ UNCHANGED rcpt
    /\ UNCHANGED <<ceiling, effect, row, fence, dlv, run, marker, children, calls>>

EnsureDeliveryRunning(s) ==
    /\ Label(s) = "Ensure"
    /\ dlv' = IF dlv = NoRow THEN [phase |-> "running", rev |-> 1, asked |-> FALSE] ELSE dlv
    /\ mem' = [mem EXCEPT ![s] = [Advanced(s) EXCEPT !.prev = dlv'.rev]]
    /\ UNCHANGED <<ceiling, rcpt, effect, row, fence, run, marker, children, calls>>

\* DogfoodPath::reopen: everything is read again, claim and permit are gone.
Reopen(s) ==
    /\ rcpt # NoRow /\ ~mem[s].open /\ calls < MaxCalls
    /\ mem' = [mem EXCEPT ![s] =
        [Closed EXCEPT !.open = TRUE, !.rrev = rcpt.rev, !.art = rcpt.art,
                       !.prev = Delivery.rev,
                       !.dig = IF row = NoRow THEN 0 ELSE row.rev]]
    /\ calls' = calls + 1
    /\ UNCHANGED <<ceiling, store, run, marker, children>>

\* The process of a session dies, or its caller drops it.
Crash(s) ==
    /\ mem[s].open
    /\ mem' = [mem EXCEPT ![s] = Closed]
    /\ UNCHANGED <<ceiling, store, run, marker, children, calls>>

(* Claiming. *)

\* create_or_adopt_agent_run, then claim_due, start and issue_execution_permit
Claim(s) ==
    /\ Label(s) = "Claim"
    /\ IF run = "none"
       THEN /\ run' = "running"
            /\ mem' = [mem EXCEPT ![s] = [Advanced(s) EXCEPT !.claimed = TRUE, !.permit = TRUE]]
       ELSE Stop(s) /\ UNCHANGED run
    /\ UNCHANGED <<ceiling, store, marker, children, calls>>

\* persist_lease_snapshot, put_lease_fence
PutLeaseFence(s) ==
    /\ Label(s) = "Fence"
    /\ fence' = TRUE
    /\ mem' = [mem EXCEPT ![s] = Advanced(s)]
    /\ UNCHANGED <<ceiling, rcpt, effect, row, dlv, run, marker, children, calls>>

\* The lease of the run expires: no permit is issued any more.
LeaseExpires ==
    /\ run = "running"
    /\ run' = "expired"
    /\ UNCHANGED <<ceiling, store, marker, children, mem, calls>>

\* reclaim_or_adopt_after_restart
Adopt(s) ==
    /\ Label(s) = "Adopt"
    /\ mem' = [mem EXCEPT ![s] =
        IF mem[s].claimed THEN Advanced(s)
        ELSE IF run \in {"succeeded", "cancelled"} THEN [Advanced(s) EXCEPT !.permit = TRUE]
        ELSE IF run = "running" /\ fence
             THEN [Advanced(s) EXCEPT !.permit = TRUE, !.claimed = TRUE]
             ELSE Failed(s)]
    /\ UNCHANGED <<ceiling, store, run, marker, children, calls>>

(* Permission. *)

Granted == row # NoRow /\ row.dec = "approved"

\* evaluate_permission up to its first write: it goes on as planned, or does
\* what an ask or a refusal takes and then fails.
EvaluatePermission(s) ==
    LET phase == Delivery.phase
        decision == IF Granted THEN "allow" ELSE ceiling
        waits == phase = "denied" \/ (phase = "approval_required" /\ ~Granted)
    IN  /\ Label(s) = "Evaluate"
        /\ mem' = [mem EXCEPT ![s].todo =
            IF waits THEN <<>>
            ELSE IF decision = "deny" THEN FailOp
            ELSE IF decision = "ask" THEN AskOp
            ELSE Tail(@)]
        /\ UNCHANGED <<ceiling, store, run, marker, children, calls>>

\* record_approval_required: the digest of the request names the revision of
\* the receipt; the id of the row does not.
RecordApprovalRequired(s) ==
    LET rev == mem[s].rrev IN
    /\ Label(s) = "Ask"
    /\ IF row = NoRow \/ row.rev = rev
       THEN /\ row' = IF row = NoRow THEN [dec |-> "pending", rev |-> rev, gen |-> 0] ELSE row
            /\ mem' = [mem EXCEPT ![s] = [Advanced(s) EXCEPT !.dig = rev]]
       ELSE Stop(s) /\ UNCHANGED row
    /\ UNCHANGED <<ceiling, rcpt, effect, fence, dlv, run, marker, children, calls>>

PhaseEvent == [AskPhase |-> "ask", GrantPhase |-> "grant", ResumePhase |-> "resume",
               DenyPhase |-> "deny", CompletePhase |-> "complete"]

\* The phases set_delivery_phase may write.
NextPhases(s, e) ==
    IF Delivery.rev = mem[s].prev THEN Successors(Delivery.phase, e) ELSE {}

\* set_delivery_phase.  When completing the phase fails in another way than on
\* a terminal one, finalize_open_receipt reads it again, and that is the end of
\* the operation, whether it is content or not.
SetDeliveryPhase(s) ==
    LET l == Label(s)
        e == PhaseEvent[l]
        moved == Delivery.rev # mem[s].prev
    IN  /\ l \in DOMAIN PhaseEvent
        /\ \/ \E p \in NextPhases(s, e) :
                /\ dlv' = [phase |-> p, rev |-> Delivery.rev + 1,
                            asked |-> Delivery.asked \/ mem[s].dig # 0]
                /\ mem' = [mem EXCEPT ![s] = [Advanced(s) EXCEPT !.prev = Delivery.rev + 1]]
           \/ /\ NextPhases(s, e) = {}
              /\ mem' = [mem EXCEPT ![s] =
                    IF l = "CompletePhase" /\ (moved \/ ~Terminal(Delivery.phase))
                    THEN [Failed(s) EXCEPT !.prev = Delivery.rev] ELSE Failed(s)]
              /\ UNCHANGED dlv
        /\ UNCHANGED <<ceiling, rcpt, effect, row, fence, run, marker, children, calls>>

(* Decisions. *)

\* Mutant: a decision replaces the one before.
DecidesAgain(r, dec, rev, gen) == r # NoRow /\ r.rev = rev

\* grant_approval_in_tx and deny_approval_in_tx agree: a pending row takes the
\* decision, unless a lease fence names another generation, and a decided one
\* only repeats it under the same binding.
Decides(r, dec, rev, gen) ==
    /\ r # NoRow /\ r.rev = rev
    /\ \/ r.dec = "pending" /\ (fence => gen = 1)
       \/ r.dec = dec /\ r.gen = gen

Decided(dec, gen) == [row EXCEPT !.dec = dec, !.gen = gen]

\* The session's own grant_approval and deny_approval; the phase follows in a
\* transaction of its own.
Decide(s) ==
    LET dec == IF Label(s) = "Grant" THEN "approved" ELSE "denied" IN
    /\ Label(s) \in {"Grant", "Deny"}
    /\ IF mem[s].dig # 0 /\ (mem[s].claimed \/ fence) /\ Decides(row, dec, row.rev, 1)
            /\ row.rev = mem[s].dig
       THEN row' = Decided(dec, 1) /\ mem' = [mem EXCEPT ![s] = Advanced(s)]
       ELSE Stop(s) /\ UNCHANGED row
    /\ UNCHANGED <<ceiling, rcpt, effect, fence, dlv, run, marker, children, calls>>

Verdict == [approved |-> "grant", denied |-> "deny"]

\* The delivery already is where the decision would bring it.
Repeated(dec) ==
    IF dec = "approved"
    THEN dlv.phase \in {"approved", "resuming", "verified", "completed"} /\ dlv.asked
    ELSE dlv.phase = "denied"

\* apply_existing_delivery_event_in_tx
EventApplies(dec) ==
    /\ dlv # NoRow
    /\ \/ Repeated(dec)
       \/ Successors(dlv.phase, Verdict[dec]) \ {dlv.phase} # {}

\* The delivery afterwards.
AfterEvent(dec) ==
    IF Repeated(dec) THEN dlv
    ELSE [phase |-> CHOOSE p \in Successors(dlv.phase, Verdict[dec]) : TRUE,
          rev |-> dlv.rev + 1, asked |-> dlv.asked \/ dec = "approved"]

\* handle_decide_approval and handle_deny_approval: the decision and the phase
\* in one transaction, with a binding the caller may have read long ago.
BoundaryDecides(dec, gen) ==
    /\ row # NoRow /\ Decides(row, dec, row.rev, gen) /\ EventApplies(dec)
    /\ row' = Decided(dec, gen)
    /\ dlv' = AfterEvent(dec)
    /\ UNCHANGED <<ceiling, rcpt, effect, fence, run, marker, children, mem, calls>>

(* The effect. *)

\* execute_process_effect: what it reads before its transaction
CheckEffect(s) ==
    /\ Label(s) = "Check"
    /\ mem' = [mem EXCEPT ![s] =
        IF mem[s].permit /\ (effect \/ AllowsEffect(Delivery.phase))
        THEN Advanced(s) ELSE Failed(s)]
    /\ UNCHANGED <<ceiling, store, run, marker, children, calls>>

\* Mutant: the effect counts as new whenever this session did not see it.
NewToSession(s) == TRUE

\* apply_effect_once: whether the effect is new
NewEffect(s) == ~effect

ApplyEffectOnce(s) ==
    /\ Label(s) = "Apply"
    /\ effect' = TRUE
    /\ mem' = [mem EXCEPT ![s].todo = IF NewEffect(s) THEN Tail(@) ELSE Tail(Tail(@))]
    /\ UNCHANGED <<ceiling, rcpt, row, fence, dlv, run, marker, children, calls>>

\* spawn_effect_child or spawn_hermetic_harness_child, which writes the
\* marker; the child may fail, or not even start.
SpawnEffectChild(s) ==
    /\ Label(s) = "Spawn"
    /\ \/ /\ children' = children + 1
          /\ marker' \in {marker, TRUE}
          /\ mem' \in {[mem EXCEPT ![s] = m] : m \in {Advanced(s), Failed(s)}}
       \/ Stop(s) /\ UNCHANGED <<children, marker>>
    /\ UNCHANGED <<ceiling, store, run, calls>>

\* Somebody repairs what the probe looks at.
MarkerRepaired ==
    /\ ~marker
    /\ marker' = TRUE
    /\ UNCHANGED <<ceiling, store, run, children, mem, calls>>

\* publish_artifact up to set_artifact_digest
PublishArtifact(s) ==
    /\ Label(s) = "Publish"
    /\ mem' = [mem EXCEPT ![s] = [Advanced(s) EXCEPT !.art = TRUE]]
    /\ UNCHANGED <<ceiling, store, run, marker, children, calls>>

(* The end. *)

\* finish_success up to commit_completion: the receipt is read again, and a
\* run that already succeeded is not committed again.
FinishSuccess(s) ==
    /\ Label(s) = "Finish"
    /\ mem' = [mem EXCEPT ![s] =
        IF rcpt.status # "open" THEN [Failed(s) EXCEPT !.rrev = rcpt.rev]
        ELSE IF run = "succeeded"
             THEN [mem[s] EXCEPT !.rrev = rcpt.rev, !.todo = Tail(Tail(@))]
        ELSE IF run \in {"running", "expired"} /\ mem[s].claimed /\ mem[s].art
             THEN [Advanced(s) EXCEPT !.rrev = rcpt.rev]
             ELSE [Failed(s) EXCEPT !.rrev = rcpt.rev]]
    /\ UNCHANGED <<ceiling, store, run, marker, children, calls>>

\* prepare_completion and commit_completion (AgentStore models them)
CommitCompletion(s) ==
    /\ Label(s) = "Commit"
    /\ IF run = "running"
       THEN run' = "succeeded" /\ mem' = [mem EXCEPT ![s] = Advanced(s)]
       ELSE Stop(s) /\ UNCHANGED run
    /\ UNCHANGED <<ceiling, store, marker, children, calls>>

\* cancel_path up to its first write to the receipt: what the AgentRun store
\* answers is ignored, so the run may stay what it is.  A run that is cancelling
\* and not settled is as good as expired: no permit and no completion for it.
CancelRun(s) ==
    /\ Label(s) = "CancelRun"
    /\ run' \in {run} \union
        IF mem[s].claimed /\ run \in {"running", "expired"} THEN {"expired", "cancelled"} ELSE {}
    /\ mem' = [mem EXCEPT ![s] = Advanced(s)]
    /\ UNCHANGED <<ceiling, store, marker, children, calls>>

(* What the caller of an idle session may ask for next. *)

Call(s, todo) ==
    /\ mem[s].open /\ mem[s].todo = <<>> /\ calls < MaxCalls
    /\ mem' = [mem EXCEPT ![s].todo = todo]
    /\ calls' = calls + 1
    /\ UNCHANGED <<ceiling, store, run, marker, children>>

GrantApproval(s) == Call(s, GrantOp)
DenyApproval(s) == Call(s, DenyOp)
\* The work after the approval, or after the reopening.
Continue(s) == ~mem[s].cancel /\ Call(s, <<"Adopt">> \o WorkOp \o PublishOp \o FinishOp)

\* cancel_path, of an idle session or between two operations of a driver
CancelPath(s) ==
    /\ mem[s].open /\ rcpt # NoRow /\ calls < MaxCalls
    /\ Label(s) \in {"idle", "Claim", "Attempt", "Evaluate", "Check", "Probe", "Publish", "Finish"}
    /\ mem' = [mem EXCEPT ![s].todo = CancelOp, ![s].cancel = TRUE]
    /\ calls' = calls + 1
    /\ UNCHANGED <<ceiling, store, run, marker, children>>

\* recover_after_crash
RecoverAfterCrash(s) ==
    LET artifact == IF mem[s].art THEN <<>> ELSE PublishOp
        rest == <<"Adopt">> \o artifact \o <<"Probe">> \o LocalGates \o FinishOp
    IN  /\ mem[s].open /\ mem[s].todo = <<>> /\ calls < MaxCalls
        /\ mem' = [mem EXCEPT ![s].todo = IF effect THEN rest ELSE <<"Unresolved">>,
                              ![s].cancel = FALSE]
        /\ calls' = calls + 1
        /\ UNCHANGED <<ceiling, store, run, marker, children>>

Next ==
    \/ \E s \in Sessions :
        \/ Open(s) \/ InsertReceipt(s) \/ EnsureDeliveryRunning(s) \/ Reopen(s) \/ Crash(s)
        \/ Claim(s) \/ PutLeaseFence(s) \/ Adopt(s)
        \/ EvaluatePermission(s) \/ RecordApprovalRequired(s) \/ Decide(s)
        \/ ReceiptStep(s) \/ SetDeliveryPhase(s)
        \/ CheckEffect(s) \/ ApplyEffectOnce(s) \/ SpawnEffectChild(s) \/ PublishArtifact(s)
        \/ FinishSuccess(s) \/ CommitCompletion(s) \/ CancelRun(s)
        \/ GrantApproval(s) \/ DenyApproval(s) \/ Continue(s) \/ CancelPath(s)
        \/ RecoverAfterCrash(s)
    \/ \E dec \in {"approved", "denied"}, gen \in 1..2 : BoundaryDecides(dec, gen)
    \/ LeaseExpires
    \/ MarkerRepaired

Spec == Init /\ [][Next]_vars
-----------------------------------------------------------------------------
\* The type invariant of a delivery.
Receipt ==
    [rev : 1..MaxRevision, art : BOOLEAN, local : SUBSET Range(LocalGates),
     truth : {"unknown", "passed", "failed"},
     status : {"open", "completed", "failed", "cancelled", "unresolved"}]
ApprovalRow == [dec : {"pending", "approved", "denied"}, rev : 1..MaxRevision, gen : 0..2]
DeliveryRow ==
    [phase : {"running", "approval_required", "approved", "resuming", "denied", "completed"},
     rev : Nat \ {0}, asked : BOOLEAN]
Transaction ==
    ReceiptLabels \union DOMAIN PhaseEvent \union
    {"Insert", "Ensure", "Claim", "Fence", "Adopt", "Evaluate", "Ask", "Grant", "Deny",
     "Check", "Apply", "Spawn", "Publish", "Finish", "Commit", "CancelRun"}
Memory ==
    [open : BOOLEAN, todo : Seq(Transaction), rrev : 0..MaxRevision, prev : Nat,
     dig : 0..MaxRevision, art : BOOLEAN, claimed : BOOLEAN, permit : BOOLEAN,
     cancel : BOOLEAN]

DeliveryTypeOK ==
    /\ ceiling \in {"allow", "ask", "deny"}
    /\ rcpt \in Receipt \union {NoRow} /\ row \in ApprovalRow \union {NoRow}
    /\ dlv \in DeliveryRow \union {NoRow}
    /\ effect \in BOOLEAN /\ fence \in BOOLEAN /\ marker \in BOOLEAN
    /\ run \in {"none", "running", "expired", "succeeded", "cancelled"}
    /\ children \in Nat
    /\ mem \in [Sessions -> Memory]

\* A receipt is completed only for a run that committed its completion, with
\* every gate, the artifact and a probe that passed, whichever sessions of
\* whichever processes did the work.
CompletedIsTrue ==
    rcpt # NoRow /\ rcpt.status = "completed" =>
        run = "succeeded" /\ marker /\ rcpt.truth = "passed" /\ rcpt.art

\* The effect's child is started at most once in the life of the delivery,
\* and never without a grant if the ceiling asks for one.
EffectOnce ==
    /\ children <= 1 /\ (children = 1 => effect)
    /\ effect => ceiling = "allow" \/ (ceiling = "ask" /\ Granted)

\* The phase never claims a decision that the approval row does not hold, and
\* the work does not run under a pending one.
PhaseFollowsDecision ==
    /\ Delivery.phase = "denied" => row # NoRow /\ row.dec = "denied"
    /\ Delivery.phase \in {"approved", "resuming"} => Granted
    /\ Delivery.phase = "approval_required" => row # NoRow

DeliverySound == DeliveryTypeOK /\ CompletedIsTrue /\ EffectOnce /\ PhaseFollowsDecision

\* A decision is final and a receipt that has ended does not change, whoever
\* still holds an older revision.
DecisionStands ==
    /\ row # NoRow /\ row.dec # "pending" => row' = row
    /\ rcpt # NoRow /\ rcpt.status # "open" => rcpt' = rcpt
DecisionsStand == [][DecisionStands]_vars
-----------------------------------------------------------------------------
(* The inductive invariant of DurableProofs. *)

\* Which transaction y may come right after x in what a session has to do, of
\* those that rest on an earlier one; an operation begins with the first four.
Follows(x, y) ==
    /\ y \notin {"Insert", "Ask", "Grant", "Deny"}
    /\ y = "Evaluate" => x \in {"Attempt", "Adopt"}
    /\ y = "AllowGate" => x = "Evaluate"
    /\ y = "Check" => x = "AllowGate"
    /\ y = "Apply" => x = "Check"
    /\ y = "Spawn" => x = "Apply"
    /\ y = "Commit" => x = "Finish"
    /\ y = "Summary" => x = "Commit"
    /\ y = "Complete" => x = "Summary"
    /\ y = "AskPhase" => x = "Ask"
    /\ y = "GrantPhase" => x = "Grant"
    /\ y = "GrantGate" => x = "GrantPhase"
    /\ y = "ResumePhase" => x = "GrantGate"
    /\ y = "DenyPhase" => x = "Deny"

\* Apply and Finish may pass over the transaction after them: there is one.
Ordered(todo) ==
    /\ \A i \in 1 .. Len(todo) - 1 : Follows(todo[i], todo[i + 1])
    /\ \A i \in 1 .. Len(todo) : i = Len(todo) => todo[i] \notin {"Apply", "Finish"}

\* The ceiling and the decisions allow the effect.
Permitted == ceiling = "allow" \/ (ceiling = "ask" /\ Granted)

\* What a session may rely on before transaction l, whoever else acts.
Established(l) ==
    /\ l \in {"AllowGate", "Check", "Apply"} => Permitted
    /\ l = "Spawn" => effect /\ children = 0
    /\ l \in {"Summary", "Complete"} => run = "succeeded"
    /\ l = "Ask" => ceiling = "ask"
    /\ l = "AskPhase" => row # NoRow
    /\ l \in {"GrantPhase", "GrantGate", "ResumePhase"} => Granted
    /\ l = "DenyPhase" => row # NoRow /\ row.dec = "denied"

\* An open session that has begun knows a revision of the receipt.
SessionSound(s) ==
    /\ Ordered(mem[s].todo)
    /\ Established(Label(s))
    /\ mem[s].open /\ Label(s) # "Insert" => mem[s].rrev # 0
    /\ mem[s].rrev # 0 => rcpt # NoRow

\* Only the session that made the effect new starts its child.
OneSpawns == \A s, t \in Sessions : Label(s) = "Spawn" /\ Label(t) = "Spawn" => s = t

\* The rows by themselves.
RowsSound ==
    /\ rcpt # NoRow /\ rcpt.truth = "passed" => marker
    /\ row # NoRow => ceiling = "ask"
    /\ ~effect => children = 0

DeliveryInv ==
    /\ DeliverySound /\ RowsSound /\ OneSpawns
    /\ \A s \in Sessions : SessionSound(s)
=============================================================================
