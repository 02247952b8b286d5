------------------------------ MODULE TaskRow ------------------------------
(***************************************************************************)
(* One row of the task table (vyane-task, SqliteTaskStore) and what the    *)
(* store's operations make of it.  An operation is a guard and a new row;  *)
(* the store applies it in one transaction, on the row its caller read.    *)
(***************************************************************************)
EXTENDS Integers

CONSTANTS NoOne   \* no controller

Active == {"queued", "running", "cancelling"}
Terminal == {"succeeded", "failed", "timed_out", "cancelled", "interrupted"}
Settlement == Terminal \ {"interrupted"}

Later(a, b) == IF a >= b THEN a ELSE b

\* A row, with the controllers it may name.
Failure == {"none", "failure", "timed_out", "cancelled", "worker_lost",
            "control_unavailable", "internal"}
TaskRecord(who) ==
    [state : Active \cup Terminal \cup {"absent"}, rev : Nat, epoch : Nat,
     controller : who, lease : Nat, holder : who, failure : Failure, updated : Nat]

NoTask == [state |-> "absent", rev |-> 0, epoch |-> 0, controller |-> NoOne,
           lease |-> 0, holder |-> NoOne, failure |-> "none", updated |-> 0]

\* TaskRecord::from_new
Created(at) == [NoTask EXCEPT !.state = "queued", !.updated = at]

\* mutate: whatever changes, the revision and the time move on.
Mutated(row, at) == [row EXCEPT !.rev = row.rev + 1, !.updated = Later(at, row.updated)]

CanAttach(row, lease, at) ==
    row.state = "queued" /\ (lease # 0 => lease > Later(at, row.updated))
Attached(row, who, lease, at) ==
    [Mutated(row, at) EXCEPT !.state = "running", !.epoch = row.epoch + 1,
       !.controller = who, !.lease = lease,
       !.holder = IF lease = 0 THEN NoOne ELSE who]

Ended(row, state, failure, at) ==
    [Mutated(row, at) EXCEPT !.state = state, !.failure = failure,
                             !.lease = 0, !.holder = NoOne]

\* request_cancel: a task nobody controls is cancelled at once.
CanCancel(row) == row.state \in {"queued", "running"}
CancelRequested(row, at) ==
    IF row.state = "queued" THEN Ended(row, "cancelled", "cancelled", at)
    ELSE [Mutated(row, at) EXCEPT !.state = "cancelling"]

\* settle; a repetition of the same settlement changes nothing.
CanSettle(row, state) ==
    \/ row.state = "queued" /\ state \in {"failed", "cancelled"}
    \/ row.state \in {"running", "cancelling"}
Settled(row, state, at) ==
    Ended(row, state, CASE state = "succeeded" -> "none"
                        [] state = "failed" -> "failure"
                        [] OTHER -> state, at)

Interrupted(row, code, at) == Ended(row, "interrupted", code, at)

\* renew_lease: by the holder, before the lease ends, and never backwards.
CanRenew(row, who, lease, at) ==
    /\ row.state \in {"running", "cancelling"}
    /\ row.lease # 0 /\ row.holder = who
    /\ row.lease > Later(at, row.updated)
    /\ lease > row.lease
Renewed(row, lease, at) == [Mutated(row, at) EXCEPT !.lease = lease]

-----------------------------------------------------------------------------
(* Properties of a row. *)

\* validate_stored_task, which every read of the row applies.
WellFormed(row) ==
    /\ (row.controller # NoOne) <=> (row.epoch > 0)
    /\ row.state # "absent" => (row.state = "queued" <=> row.rev = 0)
    /\ row.state = "queued" => row.controller = NoOne
    /\ row.state \in {"running", "cancelling", "succeeded", "timed_out"} =>
         row.controller # NoOne
    /\ row.lease # 0 => row.state \in {"running", "cancelling"}
    /\ row.state \in Active \cup {"absent", "succeeded"} <=> row.failure = "none"
    /\ row.state \in {"timed_out", "cancelled"} => row.failure = row.state
    /\ row.state \in {"failed", "interrupted"} =>
         row.failure \notin {"timed_out", "cancelled"}

\* validate_stored_event: the steps a row may take.
LegalStep(old, new) ==
    \/ old.state = "absent" /\ new.state = "queued"
    \/ /\ old.state = "queued" /\ new.state = "running"
       /\ new.epoch > 0 /\ new.controller # NoOne
    \/ /\ old.state = "queued" /\ new.state \in {"failed", "cancelled", "interrupted"}
       /\ new.epoch = 0
    \/ /\ old.state \in {"running", "cancelling"} /\ new.epoch = old.epoch
       /\ new.state \in Terminal \cup {"cancelling", old.state}
=============================================================================
