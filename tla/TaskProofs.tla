----------------------------- MODULE TaskProofs -----------------------------
(***************************************************************************)
(* Proofs about the supervision of tasks (the three parts of MCTasks), for *)
(* any number of servers, daemons and faults, any lease and any clock: the *)
(* rows of the REST server's tasks, the rows of the daemon's workflows,    *)
(* and the process group of a harness.                                     *)
(*                                                                         *)
(* Both supervisors write a row with the operations of TaskRow; what these *)
(* make of a well formed row is said once (the row lemmas), and what is    *)
(* left for an action is who may be at work when it is taken.              *)
(***************************************************************************)
EXTENDS MCTasks, SequenceTheorems, TLAPS

-----------------------------------------------------------------------------
(* The operations on a row. *)

\* The later of two times is a time.
LEMMA LaterNat == ASSUME NEW a \in Nat, NEW b \in Nat PROVE Later(a, b) \in Nat
  BY DEF Later

\* The fields of a row.
LEMMA RowFields ==
  ASSUME NEW who, NEW r \in TaskRecord(who), NEW at \in Nat
  PROVE  /\ r.rev \in Nat /\ r.epoch \in Nat /\ r.failure \in Failure /\ r.controller \in who
         /\ r.lease \in Nat /\ r.holder \in who /\ r.updated \in Nat
         /\ r.state \in Active \cup Terminal \cup {"absent"}
         /\ Later(at, r.updated) \in Nat
<1>1. /\ r.rev \in Nat /\ r.epoch \in Nat /\ r.failure \in Failure /\ r.controller \in who
      /\ r.lease \in Nat /\ r.holder \in who /\ r.updated \in Nat
      /\ r.state \in Active \cup Terminal \cup {"absent"}
  BY DEF TaskRecord
<1>2. Later(at, r.updated) \in Nat
  BY <1>1, LaterNat
<1> QED BY <1>1, <1>2

\* A mutated row is a row with the next revision.
LEMMA MutatedRow ==
  ASSUME NEW who, NEW r \in TaskRecord(who), NEW at \in Nat
  PROVE  /\ Mutated(r, at) \in TaskRecord(who)
         /\ Mutated(r, at).state = r.state
         /\ Mutated(r, at).rev = r.rev + 1
         /\ Mutated(r, at).epoch = r.epoch
         /\ Mutated(r, at).controller = r.controller
         /\ Mutated(r, at).lease = r.lease
         /\ Mutated(r, at).holder = r.holder
         /\ Mutated(r, at).failure = r.failure
         /\ Mutated(r, at).updated = Later(at, r.updated)
<1>1. r.rev + 1 \in Nat /\ Later(at, r.updated) \in Nat
  BY RowFields
<1> QED BY <1>1 DEF Mutated, TaskRecord

\* A created row is queued and well formed.
LEMMA CreatedRow ==
  ASSUME NEW who, NoOne \in who, NEW at \in Nat
  PROVE  /\ Created(at) \in TaskRecord(who) /\ WellFormed(Created(at))
         /\ Created(at).state = "queued" /\ LegalStep(NoTask, Created(at))
<1>0. NoTask \in TaskRecord(who)
  BY DEF NoTask, TaskRecord, Failure, Active, Terminal
<1>1. /\ Created(at) \in TaskRecord(who)
      /\ Created(at).state = "queued" /\ Created(at).rev = NoTask.rev
      /\ Created(at).epoch = NoTask.epoch /\ Created(at).controller = NoTask.controller
      /\ Created(at).lease = NoTask.lease /\ Created(at).failure = NoTask.failure
  BY <1>0 DEF Created, TaskRecord, Active
<1>2. NoTask.rev = 0 /\ NoTask.epoch = 0 /\ NoTask.controller = NoOne /\ NoTask.lease = 0
      /\ NoTask.failure = "none" /\ NoTask.state = "absent"
  BY DEF NoTask
<1>3. WellFormed(Created(at))
  BY <1>1, <1>2 DEF WellFormed, Active
<1>4. LegalStep(NoTask, Created(at))
  BY <1>1, <1>2 DEF LegalStep
<1> QED BY <1>1, <1>3, <1>4

\* A queued row attached to a controller runs under it.
LEMMA AttachedRow ==
  ASSUME NEW who, NEW r \in TaskRecord(who), WellFormed(r), r.state = "queued", NoOne \in who,
         NEW c \in who, c # NoOne, NEW lease \in Nat, NEW at \in Nat
  PROVE  /\ Attached(r, c, lease, at) \in TaskRecord(who) /\ WellFormed(Attached(r, c, lease, at))
         /\ Attached(r, c, lease, at).state = "running" /\ Attached(r, c, lease, at).controller = c
         /\ Attached(r, c, lease, at).rev = r.rev + 1 /\ Attached(r, c, lease, at).epoch = r.epoch + 1
         /\ Attached(r, c, lease, at).lease = lease
         /\ Attached(r, c, lease, at).holder = (IF lease = 0 THEN NoOne ELSE c)
         /\ LegalStep(r, Attached(r, c, lease, at))
<1> DEFINE m == Mutated(r, at)
           n == Attached(r, c, lease, at)
<1>1. m \in TaskRecord(who) /\ m.rev = r.rev + 1 /\ m.failure = r.failure
  BY MutatedRow
<1>2. r.rev \in Nat /\ r.epoch \in Nat
  BY RowFields
<1>3. /\ n \in TaskRecord(who)
      /\ n.state = "running" /\ n.rev = m.rev /\ n.epoch = r.epoch + 1 /\ n.controller = c
      /\ n.lease = lease /\ n.holder = (IF lease = 0 THEN NoOne ELSE c) /\ n.failure = m.failure
  <2> HIDE DEF m
  <2>1. n = [m EXCEPT !.state = "running", !.epoch = r.epoch + 1, !.controller = c,
                      !.lease = lease, !.holder = IF lease = 0 THEN NoOne ELSE c]
    BY DEF Attached, m
  <2>2. (IF lease = 0 THEN NoOne ELSE c) \in who
    OBVIOUS
  <2> HIDE DEF n
  <2>3. r.epoch + 1 \in Nat /\ "running" \in Active \cup Terminal \cup {"absent"}
    BY <1>2 DEF Active
  <2>4. n \in TaskRecord(who)
    BY <1>1, <2>1, <2>2, <2>3 DEF TaskRecord
  <2> QED BY <1>1, <2>1, <2>4 DEF TaskRecord
<1> HIDE DEF m, n
<1>4. r.epoch = 0 /\ r.failure = "none"
  BY <1>2 DEF WellFormed, Active
<1>5. WellFormed(n)
  BY <1>1, <1>2, <1>3, <1>4 DEF WellFormed, Active, Terminal
<1>6. LegalStep(r, n)
  BY <1>1, <1>2, <1>3 DEF LegalStep
<1> QED BY <1>1, <1>3, <1>5, <1>6 DEF n

\* What an ended row says, and that it may end so.
EndsAs(r, state, failure) ==
  /\ r.state \in Active /\ state \in Terminal /\ failure \in Failure
  /\ r.state = "queued" => state \in {"failed", "cancelled", "interrupted"}
  /\ state = "succeeded" <=> failure = "none"
  /\ state \in {"timed_out", "cancelled"} => failure = state
  /\ state \in {"failed", "interrupted"} => failure \notin {"timed_out", "cancelled"}

\* An ended row beside the row it was.
EndedWell(who, r, state, failure, n) ==
  /\ n \in TaskRecord(who) /\ WellFormed(n) /\ LegalStep(r, n)
  /\ n.state = state /\ n.rev = r.rev + 1 /\ n.controller = r.controller
  /\ n.epoch = r.epoch /\ n.failure = failure

\* A row that ends is well formed and keeps its controller.
LEMMA EndedRow ==
  ASSUME NEW who, NEW r \in TaskRecord(who), WellFormed(r), NoOne \in who,
         NEW state, NEW failure, NEW at \in Nat, EndsAs(r, state, failure)
  PROVE  EndedWell(who, r, state, failure, Ended(r, state, failure, at))
<1> DEFINE m == Mutated(r, at)
           n == Ended(r, state, failure, at)
<1>1. m \in TaskRecord(who) /\ m.rev = r.rev + 1 /\ m.epoch = r.epoch /\ m.controller = r.controller
  BY MutatedRow
<1>2. r.rev \in Nat /\ r.epoch \in Nat
  BY RowFields
<1>3. /\ n \in TaskRecord(who)
      /\ n.state = state /\ n.rev = m.rev /\ n.epoch = m.epoch /\ n.controller = m.controller
      /\ n.lease = 0 /\ n.holder = NoOne /\ n.failure = failure
  <2> HIDE DEF m
  <2>1. n = [m EXCEPT !.state = state, !.failure = failure, !.lease = 0, !.holder = NoOne]
    BY DEF Ended, m
  <2>2. state \in Terminal /\ failure \in Failure
    BY DEF EndsAs
  <2> HIDE DEF n
  <2> QED BY <1>1, <2>1, <2>2 DEF TaskRecord
<1> HIDE DEF m, n
<1>4. /\ (r.controller # NoOne) <=> (r.epoch > 0)
      /\ r.state = "queued" => r.controller = NoOne
      /\ r.state \in {"running", "cancelling"} => r.controller # NoOne
  BY DEF WellFormed
<1>5. WellFormed(n)
  BY <1>1, <1>2, <1>3, <1>4 DEF WellFormed, Active, Terminal, EndsAs
<1>6. LegalStep(r, n)
  BY <1>1, <1>2, <1>3, <1>4 DEF LegalStep, Active, EndsAs
<1> QED BY <1>1, <1>3, <1>5, <1>6 DEF n, EndedWell

\* A settled row has ended as its worker said.
LEMMA SettledRow ==
  ASSUME NEW who, NEW r \in TaskRecord(who), WellFormed(r), NoOne \in who,
         NEW state \in Settlement, NEW at \in Nat, CanSettle(r, state)
  PROVE  /\ Settled(r, state, at) \in TaskRecord(who) /\ WellFormed(Settled(r, state, at))
         /\ Settled(r, state, at).state = state /\ Settled(r, state, at).rev = r.rev + 1
         /\ Settled(r, state, at).controller = r.controller
         /\ Settled(r, state, at).epoch = r.epoch
         /\ LegalStep(r, Settled(r, state, at))
<1> DEFINE f == CASE state = "succeeded" -> "none" [] state = "failed" -> "failure" [] OTHER -> state
<1>1. EndsAs(r, state, f)
  BY DEF Settlement, Terminal, Failure, CanSettle, EndsAs, Active
<1>2. Settled(r, state, at) = Ended(r, state, f, at)
  BY DEF Settled
<1> HIDE DEF f
<1>3. EndedWell(who, r, state, f, Ended(r, state, f, at))
  BY <1>1, EndedRow
<1> QED BY <1>2, <1>3 DEF EndedWell

\* An interrupted row says why.
LEMMA InterruptedRow ==
  ASSUME NEW who, NEW r \in TaskRecord(who), WellFormed(r), r.state \in Active, NoOne \in who,
         NEW code \in {"worker_lost", "control_unavailable", "internal"}, NEW at \in Nat
  PROVE  /\ Interrupted(r, code, at) \in TaskRecord(who) /\ WellFormed(Interrupted(r, code, at))
         /\ Interrupted(r, code, at).state = "interrupted" /\ Interrupted(r, code, at).rev = r.rev + 1
         /\ Interrupted(r, code, at).controller = r.controller /\ Interrupted(r, code, at).failure = code
         /\ Interrupted(r, code, at).epoch = r.epoch
         /\ LegalStep(r, Interrupted(r, code, at))
<1>1. EndsAs(r, "interrupted", code)
  BY DEF Terminal, Failure, EndsAs
<1>2. Interrupted(r, code, at) = Ended(r, "interrupted", code, at)
  BY DEF Interrupted
<1>3. EndedWell(who, r, "interrupted", code, Ended(r, "interrupted", code, at))
  BY <1>1, EndedRow
<1> QED BY <1>2, <1>3 DEF EndedWell

\* A cancellation ends a queued row and marks a running one.
LEMMA CancelledRow ==
  ASSUME NEW who, NEW r \in TaskRecord(who), WellFormed(r), CanCancel(r), NoOne \in who, NEW at \in Nat
  PROVE  /\ CancelRequested(r, at) \in TaskRecord(who) /\ WellFormed(CancelRequested(r, at))
         /\ CancelRequested(r, at).state = (IF r.state = "queued" THEN "cancelled" ELSE "cancelling")
         /\ CancelRequested(r, at).controller = r.controller /\ CancelRequested(r, at).rev = r.rev + 1
         /\ CancelRequested(r, at).epoch = r.epoch
         /\ (r.state = "running" => CancelRequested(r, at).lease = r.lease)
         /\ (r.state = "running" => CancelRequested(r, at).holder = r.holder)
         /\ LegalStep(r, CancelRequested(r, at))
<1> DEFINE m == Mutated(r, at)
           n == CancelRequested(r, at)
<1>1. CASE r.state = "queued"
  <2>1. EndsAs(r, "cancelled", "cancelled")
    BY <1>1 DEF Active, Terminal, Failure, EndsAs
  <2>2. n = Ended(r, "cancelled", "cancelled", at)
    BY <1>1 DEF CancelRequested
  <2> HIDE DEF n
  <2>3. /\ n \in TaskRecord(who) /\ WellFormed(n) /\ n.state = "cancelled" /\ n.rev = r.rev + 1
        /\ n.controller = r.controller /\ n.epoch = r.epoch /\ LegalStep(r, n)
    <3>1. EndedWell(who, r, "cancelled", "cancelled", Ended(r, "cancelled", "cancelled", at))
      BY <2>1, EndedRow
    <3> QED BY <2>2, <3>1 DEF EndedWell
  <2> QED BY <1>1, <2>3 DEF n
<1>2. CASE r.state = "running"
  <2>1. /\ m \in TaskRecord(who)
        /\ m.state = r.state
        /\ m.rev = r.rev + 1
        /\ m.epoch = r.epoch
        /\ m.controller = r.controller
        /\ m.lease = r.lease
        /\ m.holder = r.holder
        /\ m.failure = r.failure
        /\ m.updated = Later(at, r.updated)
    BY MutatedRow
  <2>2. n = [m EXCEPT !.state = "cancelling"]
    BY <1>2 DEF CancelRequested
  <2> HIDE DEF n, m
  <2>3. /\ n \in TaskRecord(who)
        /\ n.state = "cancelling"
        /\ n.rev = m.rev
        /\ n.epoch = m.epoch
        /\ n.controller = m.controller
        /\ n.lease = m.lease
        /\ n.holder = m.holder
        /\ n.failure = m.failure
        /\ n.updated = m.updated
    BY <2>1, <2>2 DEF TaskRecord, Active
  <2>4. r.rev \in Nat
    BY RowFields
  <2>5. WellFormed(n)
    BY <1>2, <2>1, <2>3, <2>4 DEF WellFormed, Active, Terminal
  <2>6. LegalStep(r, n)
    BY <1>2, <2>1, <2>3 DEF LegalStep
  <2> QED BY <1>2, <2>1, <2>3, <2>5, <2>6 DEF n
<1> QED BY <1>1, <1>2 DEF CanCancel

\* A renewed row only has a new lease.
LEMMA RenewedRow ==
  ASSUME NEW who, NEW r \in TaskRecord(who), WellFormed(r), r.state \in {"running", "cancelling"},
         NEW lease \in Nat, NEW at \in Nat
  PROVE  /\ Renewed(r, lease, at) \in TaskRecord(who) /\ WellFormed(Renewed(r, lease, at))
         /\ Renewed(r, lease, at).state = r.state /\ Renewed(r, lease, at).rev = r.rev + 1
         /\ Renewed(r, lease, at).controller = r.controller /\ Renewed(r, lease, at).epoch = r.epoch
         /\ Renewed(r, lease, at).lease = lease /\ Renewed(r, lease, at).holder = r.holder
         /\ LegalStep(r, Renewed(r, lease, at))
<1> DEFINE m == Mutated(r, at)
           n == Renewed(r, lease, at)
<1>1. /\ m \in TaskRecord(who)
      /\ m.state = r.state
      /\ m.rev = r.rev + 1
      /\ m.epoch = r.epoch
      /\ m.controller = r.controller
      /\ m.lease = r.lease
      /\ m.holder = r.holder
      /\ m.failure = r.failure
      /\ m.updated = Later(at, r.updated)
  BY MutatedRow
<1>2. n = [m EXCEPT !.lease = lease]
  BY DEF Renewed
<1> HIDE DEF n, m
<1>3. /\ n \in TaskRecord(who)
      /\ n.state = m.state
      /\ n.rev = m.rev
      /\ n.epoch = m.epoch
      /\ n.controller = m.controller
      /\ n.lease = lease
      /\ n.holder = m.holder
      /\ n.failure = m.failure
      /\ n.updated = m.updated
  BY <1>1, <1>2 DEF TaskRecord
<1>4. r.rev \in Nat
  BY RowFields
<1>5. WellFormed(n)
  BY <1>1, <1>3, <1>4 DEF WellFormed, Active, Terminal
<1>6. LegalStep(r, n)
  BY <1>1, <1>3 DEF LegalStep
<1> QED BY <1>1, <1>3, <1>5, <1>6 DEF n

-----------------------------------------------------------------------------
(* The tasks of the REST server. *)

Controllers == {NoOne} \cup 1 .. MaxServers

\* A step changes the row legally or not at all.
RowMoves == row' # row => row.state \notin Terminal /\ LegalStep(row, row')

\* The row may be left alone.
LEMMA RowLeft ==
  ASSUME RowShape, row' = row
  PROVE  RowShape' /\ RowMoves
  BY DEF RowShape, RowMoves

\* A row that is written is a row again.
LEMMA RowWritten ==
  ASSUME row' \in TaskRecord(Controllers), WellFormed(row'), row'.state # "absent",
         row.state \notin Terminal, LegalStep(row, row')
  PROVE  RowShape' /\ RowMoves
  BY DEF RowShape, RowMoves, Controllers

\* What the row lemmas say of the supervisor's row.
LEMMA RowKnown ==
  ASSUME RowShape
  PROVE  row \in TaskRecord(Controllers) /\ WellFormed(row) /\ NoOne \in Controllers
  BY DEF RowShape, Controllers

\* Creating the row.
LEMMA WriteCreated ==
  ASSUME SupervisorAssumption, RowShape, row.state = "absent", row' = Created(0)
  PROVE  RowShape' /\ RowMoves /\ row'.state = "queued"
<1>1. /\ Created(0) \in TaskRecord(Controllers) /\ WellFormed(Created(0))
      /\ Created(0).state = "queued" /\ LegalStep(NoTask, Created(0))
  BY RowKnown, CreatedRow
<1>2. row = NoTask /\ row.state \notin Terminal
  BY DEF RowShape, Terminal
<1> QED BY <1>1, <1>2, RowWritten

\* Attaching the server.
LEMMA WriteAttached ==
  ASSUME SupervisorAssumption, RowShape, row.state = "queued", server.id \in 1 .. MaxServers,
         row' = Attached(row, server.id, 0, 0)
  PROVE  /\ RowShape' /\ RowMoves /\ row'.state = "running" /\ row'.controller = server.id
<1>1. row.state \notin Terminal /\ server.id \in Controllers /\ server.id # NoOne
  BY DEF Terminal, Controllers, SupervisorAssumption
<1>2. /\ row' \in TaskRecord(Controllers) /\ WellFormed(row')
      /\ row'.state = "running" /\ row'.controller = server.id /\ LegalStep(row, row')
  BY <1>1, RowKnown, AttachedRow
<1> QED BY <1>1, <1>2, RowWritten

\* Interrupting what is active.
LEMMA WriteInterrupted ==
  ASSUME RowShape, row.state \in Active,
         NEW code \in {"worker_lost", "control_unavailable", "internal"},
         row' = Interrupted(row, code, 0)
  PROVE  RowShape' /\ RowMoves /\ row'.state = "interrupted"
<1>1. row.state \notin Terminal
  BY DEF Active, Terminal
<1>2. /\ row' \in TaskRecord(Controllers) /\ WellFormed(row')
      /\ row'.state = "interrupted" /\ LegalStep(row, row')
  BY RowKnown, InterruptedRow
<1> QED BY <1>1, <1>2, RowWritten

\* Asking for the end of what is queued or runs.
LEMMA WriteCancelled ==
  ASSUME RowShape, CanCancel(row), row' = CancelRequested(row, 0)
  PROVE  /\ RowShape' /\ RowMoves /\ row'.controller = row.controller
         /\ row'.state = (IF row.state = "queued" THEN "cancelled" ELSE "cancelling")
<1>1. row.state \notin Terminal
  BY DEF CanCancel, Terminal
<1>2. /\ row' \in TaskRecord(Controllers) /\ WellFormed(row') /\ row'.controller = row.controller
      /\ row'.state = (IF row.state = "queued" THEN "cancelled" ELSE "cancelling")
      /\ LegalStep(row, row')
  BY RowKnown, CancelledRow
<1> QED BY <1>1, <1>2, RowWritten

\* A settlement ends the row or leaves it alone.
LEMMA SettlementKeeps ==
  ASSUME RowShape, NEW o \in Settlement, SettleCurrent(o)
  PROVE  /\ RowShape' /\ RowMoves
         /\ (row' = row \/ row'.state \in Terminal)
<1>1. CASE row' = row
  BY <1>1, RowLeft
<1>2. CASE CanSettle(row, o) /\ row' = Settled(row, o, 0)
  <2>1. row.state \notin Terminal
    BY <1>2 DEF CanSettle, Terminal
  <2>2. /\ row' \in TaskRecord(Controllers) /\ WellFormed(row') /\ row'.state = o
        /\ LegalStep(row, row')
    BY <1>2, RowKnown, SettledRow
  <2>3. o \in Terminal /\ o # "absent"
    BY DEF Settlement, Terminal
  <2> QED BY <2>1, <2>2, <2>3, RowWritten
<1> QED BY <1>1, <1>2 DEF SettleCurrent, Write

\* The server's next phase.
LEMMA ServerMoves ==
  ASSUME ServerShape, NEW to \in {"up", "drain", "final", "interrupt", "abort", "wait", "down", "recover"},
         Server(to)
  PROVE  /\ server' \in [id : 1 .. MaxServers,
                         at : {"up", "drain", "final", "interrupt", "abort", "wait", "down", "recover"}]
         /\ server'.id = server.id /\ server'.at = to
  BY DEF ServerShape, Server

\* A submission only reserves the row.
LEMMA SubmitKeeps ==
  ASSUME SupervisorAssumption, SupervisorInv, Submit
  PROVE  SupervisorInv' /\ RowMoves
<1>0. RowShape /\ ServerShape /\ HandOver /\ InHand /\ LockCoversWork
  BY DEF SupervisorInv
<1>1. row' = row
  BY DEF Submit
<1>2. RowShape' /\ RowMoves
  BY <1>0, <1>1, RowLeft
<1>5. ServerShape'
  BY <1>0, <1>1 DEF Submit, ServerShape, SupervisorAssumption
<1>6. HandOver'
  BY <1>0, <1>1 DEF Submit, ServerShape, HandOver, NoPermit, LockCoversWork, Active, Terminal
<1>7. InHand'
  BY <1>0, <1>1 DEF Submit, ServerShape, HandOver, InHand, NoPermit, LockCoversWork, Mine, Active, Terminal
<1>8. LockCoversWork'
  BY <1>0, <1>1 DEF Submit, ServerShape, HandOver, NoPermit, LockCoversWork
<1> QED BY <1>2, <1>5, <1>6, <1>7, <1>8 DEF SupervisorInv

\* The row is created once.
LEMMA CreateTaskKeeps ==
  ASSUME SupervisorAssumption, SupervisorInv, CreateTask
  PROVE  SupervisorInv' /\ RowMoves
<1>0. RowShape /\ ServerShape /\ HandOver /\ InHand /\ LockCoversWork
  BY DEF SupervisorInv
<1>1. /\ RowShape' /\ RowMoves
      /\ \/ row' = row /\ ~ (~ Closing)
         \/ /\ ~ Closing
            /\ row.state = "absent" /\ row'.state = "queued"
  <2>1. CASE ~ Closing
    <3>1. row' = Created(0)
      BY <2>1 DEF CreateTask, Write
    <3>2. row.state = "absent"
      BY <1>0, <2>1 DEF CreateTask, HandOver, ServerShape, Active, Closing
    <3> QED BY <1>0, <2>1, <3>1, <3>2, WriteCreated
  <2>2. CASE ~ (~ Closing)
    <3>1. row' = row
      BY <2>2 DEF CreateTask
    <3> QED BY <1>0, <2>2, <3>1, RowLeft
  <2> QED BY <2>1, <2>2
<1>2. RowShape' /\ RowMoves
  BY <1>1
<1>5. ServerShape'
  BY <1>0, <1>1 DEF CreateTask, ServerShape, Closing, SupervisorAssumption
<1>6. HandOver'
  BY <1>0, <1>1 DEF CreateTask, ServerShape, HandOver, NoPermit, LockCoversWork, Active, Terminal, Closing
<1>7. InHand'
  BY <1>0, <1>1 DEF CreateTask, ServerShape, HandOver, InHand, NoPermit, LockCoversWork, Mine, Active, Terminal, Closing
<1>8. LockCoversWork'
  BY <1>0, <1>1 DEF CreateTask, ServerShape, HandOver, NoPermit, LockCoversWork, Closing
<1> QED BY <1>2, <1>5, <1>6, <1>7, <1>8 DEF SupervisorInv

\* The token is registered before the row can be cancelled.
LEMMA RegisterTokenKeeps ==
  ASSUME SupervisorAssumption, SupervisorInv, RegisterToken
  PROVE  SupervisorInv' /\ RowMoves
<1>0. RowShape /\ ServerShape /\ HandOver /\ InHand /\ LockCoversWork
  BY DEF SupervisorInv
<1>1. row' = row
  BY DEF RegisterToken
<1>2. RowShape' /\ RowMoves
  BY <1>0, <1>1, RowLeft
<1>5. ServerShape'
  BY <1>0, <1>1 DEF RegisterToken, ServerShape, Closing, SupervisorAssumption
<1>6. HandOver'
  BY <1>0, <1>1 DEF RegisterToken, ServerShape, HandOver, NoPermit, LockCoversWork, Active, Terminal, Closing
<1>7. InHand'
  BY <1>0, <1>1 DEF RegisterToken, ServerShape, HandOver, InHand, NoPermit, LockCoversWork, Mine, Active, Terminal, Closing
<1>8. LockCoversWork'
  BY <1>0, <1>1 DEF RegisterToken, ServerShape, HandOver, NoPermit, LockCoversWork, Closing
<1> QED BY <1>2, <1>5, <1>6, <1>7, <1>8 DEF SupervisorInv

\* The row is attached to the server that serves.
LEMMA AttachControllerKeeps ==
  ASSUME SupervisorAssumption, SupervisorInv, AttachController
  PROVE  SupervisorInv' /\ RowMoves
<1>0. RowShape /\ ServerShape /\ HandOver /\ InHand /\ LockCoversWork
  BY DEF SupervisorInv
<1>1. /\ RowShape' /\ RowMoves
      /\ \/ row' = row /\ ~ (row.state = "queued")
         \/ /\ row.state = "queued"
            /\ row.state = "queued" /\ row'.state = "running" /\ row'.controller = server.id
  <2>1. CASE row.state = "queued"
    <3>1. row' = Attached(row, server.id, 0, 0)
      BY <2>1 DEF AttachController, Write
    <3>2. row.state = "queued" /\ server.id \in 1 .. MaxServers
      BY <1>0, <2>1 DEF AttachController, HandOver, ServerShape, Active
    <3> QED BY <1>0, <2>1, <3>1, <3>2, WriteAttached
  <2>2. CASE ~ (row.state = "queued")
    <3>1. row' = row
      BY <2>2 DEF AttachController
    <3> QED BY <1>0, <2>2, <3>1, RowLeft
  <2> QED BY <2>1, <2>2
<1>2. RowShape' /\ RowMoves
  BY <1>1
<1>5. ServerShape'
  BY <1>0, <1>1 DEF AttachController, ServerShape, SupervisorAssumption
<1>6. HandOver'
  BY <1>0, <1>1 DEF AttachController, ServerShape, HandOver, NoPermit, LockCoversWork, Active, Terminal
<1>7. InHand'
  BY <1>0, <1>1 DEF AttachController, ServerShape, HandOver, InHand, NoPermit, LockCoversWork, Mine, Active, Terminal
<1>8. LockCoversWork'
  BY <1>0, <1>1 DEF AttachController, ServerShape, HandOver, NoPermit, LockCoversWork
<1> QED BY <1>2, <1>5, <1>6, <1>7, <1>8 DEF SupervisorInv

\* A failing call may have committed.
LEMMA AttachFailsKeeps ==
  ASSUME SupervisorAssumption, SupervisorInv, AttachFails
  PROVE  SupervisorInv' /\ RowMoves
<1>0. RowShape /\ ServerShape /\ HandOver /\ InHand /\ LockCoversWork
  BY DEF SupervisorInv
<1>1. /\ RowShape' /\ RowMoves
      /\ \/ row' = row /\ ~ (row' # row)
         \/ /\ row' # row
            /\ row.state = "queued" /\ row'.state = "running" /\ row'.controller = server.id
  <2>1. CASE row' # row
    <3>1. row' = Attached(row, server.id, 0, 0)
      BY <2>1 DEF AttachFails, Write
    <3>2. row.state = "queued" /\ server.id \in 1 .. MaxServers
      BY <1>0, <2>1 DEF AttachFails, HandOver, ServerShape, Active, Fault
    <3> QED BY <1>0, <2>1, <3>1, <3>2, WriteAttached
  <2>2. CASE ~ (row' # row)
    <3>1. row' = row
      BY <2>2 DEF AttachFails
    <3> QED BY <1>0, <2>2, <3>1, RowLeft
  <2> QED BY <2>1, <2>2
<1>2. RowShape' /\ RowMoves
  BY <1>1
<1>10. faults' \in 0 .. MaxFaults
  BY <1>0 DEF AttachFails, Fault, ServerShape, SupervisorAssumption
<1>5. ServerShape'
  BY <1>0, <1>1, <1>10 DEF AttachFails, ServerShape, SupervisorAssumption
<1>6. HandOver'
  BY <1>0, <1>1, <1>10 DEF AttachFails, ServerShape, HandOver, NoPermit, LockCoversWork, Active, Terminal
<1>7. InHand'
  BY <1>0, <1>1, <1>10 DEF AttachFails, ServerShape, HandOver, InHand, NoPermit, LockCoversWork, Mine, Active, Terminal
<1>8. LockCoversWork'
  BY <1>0, <1>1, <1>10 DEF AttachFails, ServerShape, HandOver, NoPermit, LockCoversWork
<1> QED BY <1>2, <1>5, <1>6, <1>7, <1>8 DEF SupervisorInv

\* The dispatch is reserved while the server serves.
LEMMA ReserveDispatchKeeps ==
  ASSUME SupervisorAssumption, SupervisorInv, ReserveDispatch
  PROVE  SupervisorInv' /\ RowMoves
<1>0. RowShape /\ ServerShape /\ HandOver /\ InHand /\ LockCoversWork
  BY DEF SupervisorInv
<1>1. row' = row
  BY DEF ReserveDispatch
<1>2. RowShape' /\ RowMoves
  BY <1>0, <1>1, RowLeft
<1>5. ServerShape'
  BY <1>0, <1>1 DEF ReserveDispatch, ServerShape, Closing, SupervisorAssumption
<1>6. HandOver'
  BY <1>0, <1>1 DEF ReserveDispatch, ServerShape, HandOver, NoPermit, LockCoversWork, Active, Terminal, Closing
<1>7. InHand'
  BY <1>0, <1>1 DEF ReserveDispatch, ServerShape, HandOver, InHand, NoPermit, LockCoversWork, Mine, Active, Terminal, Closing
<1>8. LockCoversWork'
  BY <1>0, <1>1 DEF ReserveDispatch, ServerShape, HandOver, NoPermit, LockCoversWork, Closing
<1> QED BY <1>2, <1>5, <1>6, <1>7, <1>8 DEF SupervisorInv

\* The initializer ends where the dispatch starts.
LEMMA StartDispatchKeeps ==
  ASSUME SupervisorAssumption, SupervisorInv, StartDispatch
  PROVE  SupervisorInv' /\ RowMoves
<1>0. RowShape /\ ServerShape /\ HandOver /\ InHand /\ LockCoversWork
  BY DEF SupervisorInv
<1>1. row' = row
  BY DEF StartDispatch
<1>2. RowShape' /\ RowMoves
  BY <1>0, <1>1, RowLeft
<1>5. ServerShape'
  BY <1>0, <1>1 DEF StartDispatch, ServerShape, SupervisorAssumption
<1>6. HandOver'
  BY <1>0, <1>1 DEF StartDispatch, ServerShape, HandOver, NoPermit, LockCoversWork, Active, Terminal
<1>7. InHand'
  BY <1>0, <1>1 DEF StartDispatch, ServerShape, HandOver, InHand, NoPermit, LockCoversWork, Mine, Active, Terminal
<1>8. LockCoversWork'
  BY <1>0, <1>1 DEF StartDispatch, ServerShape, HandOver, NoPermit, LockCoversWork
<1> QED BY <1>2, <1>5, <1>6, <1>7, <1>8 DEF SupervisorInv

\* A failed initialization interrupts its own row.
LEMMA CleanUpKeeps ==
  ASSUME SupervisorAssumption, SupervisorInv, CleanUp
  PROVE  SupervisorInv' /\ RowMoves
<1>0. RowShape /\ ServerShape /\ HandOver /\ InHand /\ LockCoversWork
  BY DEF SupervisorInv
<1>1. /\ RowShape' /\ RowMoves
      /\ \/ row' = row /\ ~ (OwnSnapshot)
         \/ /\ OwnSnapshot
            /\ row.state \in Active /\ row'.state = "interrupted"
  <2>1. CASE OwnSnapshot
    <3>1. row' = Interrupted(row, "control_unavailable", 0)
      BY <2>1 DEF CleanUp, Write
    <3>2. row.state \in Active
      BY <1>0, <2>1 DEF CleanUp, HandOver, ServerShape, Active, OwnSnapshot
    <3> QED BY <1>0, <2>1, <3>1, <3>2, WriteInterrupted
  <2>2. CASE ~ (OwnSnapshot)
    <3>1. row' = row
      BY <2>2 DEF CleanUp
    <3> QED BY <1>0, <2>2, <3>1, RowLeft
  <2> QED BY <2>1, <2>2
<1>2. RowShape' /\ RowMoves
  BY <1>1
<1>5. ServerShape'
  BY <1>0, <1>1 DEF CleanUp, ServerShape, OwnSnapshot, SupervisorAssumption
<1>6. HandOver'
  BY <1>0, <1>1 DEF CleanUp, ServerShape, HandOver, NoPermit, LockCoversWork, Active, Terminal, OwnSnapshot
<1>7. InHand'
  BY <1>0, <1>1 DEF CleanUp, ServerShape, HandOver, InHand, NoPermit, LockCoversWork, Mine, Active, Terminal, OwnSnapshot
<1>8. LockCoversWork'
  BY <1>0, <1>1 DEF CleanUp, ServerShape, HandOver, NoPermit, LockCoversWork, OwnSnapshot
<1> QED BY <1>2, <1>5, <1>6, <1>7, <1>8 DEF SupervisorInv

\* A cleanup may be left to the next server.
LEMMA CleanUpFailsKeeps ==
  ASSUME SupervisorAssumption, SupervisorInv, CleanUpFails
  PROVE  SupervisorInv' /\ RowMoves
<1>0. RowShape /\ ServerShape /\ HandOver /\ InHand /\ LockCoversWork
  BY DEF SupervisorInv
<1>1. row' = row
  BY DEF CleanUpFails
<1>2. RowShape' /\ RowMoves
  BY <1>0, <1>1, RowLeft
<1>10. faults' \in 0 .. MaxFaults
  BY <1>0 DEF CleanUpFails, Fault, ServerShape, SupervisorAssumption
<1>5. ServerShape'
  BY <1>0, <1>1, <1>10 DEF CleanUpFails, ServerShape, SupervisorAssumption
<1>6. HandOver'
  BY <1>0, <1>1, <1>10 DEF CleanUpFails, ServerShape, HandOver, NoPermit, LockCoversWork, Active, Terminal
<1>7. InHand'
  BY <1>0, <1>1, <1>10 DEF CleanUpFails, ServerShape, HandOver, InHand, NoPermit, LockCoversWork, Mine, Active, Terminal
<1>8. LockCoversWork'
  BY <1>0, <1>1, <1>10 DEF CleanUpFails, ServerShape, HandOver, NoPermit, LockCoversWork
<1> QED BY <1>2, <1>5, <1>6, <1>7, <1>8 DEF SupervisorInv

\* A dispatch returns an outcome.
LEMMA DispatchReturnsKeeps ==
  ASSUME SupervisorAssumption, SupervisorInv, DispatchReturns
  PROVE  SupervisorInv' /\ RowMoves
<1>0. RowShape /\ ServerShape /\ HandOver /\ InHand /\ LockCoversWork
  BY DEF SupervisorInv
<1>1. row' = row
  BY DEF DispatchReturns
<1>2. RowShape' /\ RowMoves
  BY <1>0, <1>1, RowLeft
<1>5. ServerShape'
  BY <1>0, <1>1 DEF DispatchReturns, ServerShape, Settlement, SupervisorAssumption
<1>6. HandOver'
  BY <1>0, <1>1 DEF DispatchReturns, ServerShape, HandOver, NoPermit, LockCoversWork, Active, Terminal, Settlement
<1>7. InHand'
  BY <1>0, <1>1 DEF DispatchReturns, ServerShape, HandOver, InHand, NoPermit, LockCoversWork, Mine, Active, Terminal, Settlement
<1>8. LockCoversWork'
  BY <1>0, <1>1 DEF DispatchReturns, ServerShape, HandOver, NoPermit, LockCoversWork, Settlement
<1> QED BY <1>2, <1>5, <1>6, <1>7, <1>8 DEF SupervisorInv

\* The outcome is settled.
LEMMA SettleWithRetryKeeps ==
  ASSUME SupervisorAssumption, SupervisorInv, SettleWithRetry
  PROVE  SupervisorInv' /\ RowMoves
<1>0. RowShape /\ ServerShape /\ HandOver /\ InHand /\ LockCoversWork
  BY DEF SupervisorInv
<1>9. outcome \in Settlement
  BY <1>0 DEF SettleWithRetry, ServerShape, HandOver
<1>1. RowShape' /\ RowMoves /\ (row' = row \/ row'.state \in Terminal)
  BY <1>0, <1>9, SettlementKeeps DEF SettleWithRetry
<1>2. RowShape' /\ RowMoves
  BY <1>1
<1>5. ServerShape'
  BY <1>0, <1>1 DEF SettleWithRetry, ServerShape, SupervisorAssumption
<1>6. HandOver'
  BY <1>0, <1>1 DEF SettleWithRetry, ServerShape, HandOver, NoPermit, LockCoversWork, Active, Terminal
<1>7. InHand'
  BY <1>0, <1>1 DEF SettleWithRetry, ServerShape, HandOver, InHand, NoPermit, LockCoversWork, Mine, Active, Terminal
<1>8. LockCoversWork'
  BY <1>0, <1>1 DEF SettleWithRetry, ServerShape, HandOver, NoPermit, LockCoversWork
<1> QED BY <1>2, <1>5, <1>6, <1>7, <1>8 DEF SupervisorInv

\* The watcher takes the token away.
LEMMA UnregisterKeeps ==
  ASSUME SupervisorAssumption, SupervisorInv, Unregister
  PROVE  SupervisorInv' /\ RowMoves
<1>0. RowShape /\ ServerShape /\ HandOver /\ InHand /\ LockCoversWork
  BY DEF SupervisorInv
<1>1. row' = row
  BY DEF Unregister
<1>2. RowShape' /\ RowMoves
  BY <1>0, <1>1, RowLeft
<1>5. ServerShape'
  BY <1>0, <1>1 DEF Unregister, ServerShape, SupervisorAssumption
<1>6. HandOver'
  BY <1>0, <1>1 DEF Unregister, ServerShape, HandOver, NoPermit, LockCoversWork, Active, Terminal
<1>7. InHand'
  BY <1>0, <1>1 DEF Unregister, ServerShape, HandOver, InHand, NoPermit, LockCoversWork, Mine, Active, Terminal
<1>8. LockCoversWork'
  BY <1>0, <1>1 DEF Unregister, ServerShape, HandOver, NoPermit, LockCoversWork
<1> QED BY <1>2, <1>5, <1>6, <1>7, <1>8 DEF SupervisorInv

\* A settlement nobody awaits changes a row that is still there, or nothing.
LEMMA LateSettlementKeeps ==
  ASSUME SupervisorAssumption, SupervisorInv, LateSettlement
  PROVE  SupervisorInv' /\ RowMoves
<1>0. RowShape /\ ServerShape /\ HandOver /\ InHand /\ LockCoversWork
  BY DEF SupervisorInv
<1>9. late \in Settlement
  BY <1>0 DEF LateSettlement, ServerShape, HandOver
<1>1. RowShape' /\ RowMoves /\ (row' = row \/ row'.state \in Terminal)
  BY <1>0, <1>9, SettlementKeeps DEF LateSettlement
<1>2. RowShape' /\ RowMoves
  BY <1>1
<1>11. UNCHANGED <<init, entry, signalled, worker, outcome, client>>
  BY DEF LateSettlement, tasks
<1>5. ServerShape'
  BY <1>0, <1>1, <1>11 DEF LateSettlement, ServerShape, SupervisorAssumption
<1>6. HandOver'
  BY <1>0, <1>1, <1>11 DEF LateSettlement, ServerShape, InHand, HandOver, NoPermit, LockCoversWork, Active, Terminal
<1>7. InHand'
  BY <1>0, <1>1, <1>11 DEF LateSettlement, ServerShape, HandOver, InHand, NoPermit, LockCoversWork, Mine, Active, Terminal
<1>8. LockCoversWork'
  BY <1>0, <1>1, <1>11 DEF LateSettlement, ServerShape, HandOver, NoPermit, LockCoversWork
<1> QED BY <1>2, <1>5, <1>6, <1>7, <1>8 DEF SupervisorInv

\* A request cancels what is queued or runs.
LEMMA CancelTaskKeeps ==
  ASSUME SupervisorAssumption, SupervisorInv, CancelTask
  PROVE  SupervisorInv' /\ RowMoves
<1>0. RowShape /\ ServerShape /\ HandOver /\ InHand /\ LockCoversWork
  BY DEF SupervisorInv
<1>1. /\ RowShape' /\ RowMoves
      /\ \/ row' = row /\ ~ (CanCancel(row))
         \/ /\ CanCancel(row)
            /\ CanCancel(row) /\ row'.controller = row.controller
            /\ row'.state = (IF row.state = "queued" THEN "cancelled" ELSE "cancelling")
  <2>1. CASE CanCancel(row)
    <3>1. row' = CancelRequested(row, 0)
      BY <2>1 DEF CancelTask, Write
    <3>2. CanCancel(row)
      BY <1>0, <2>1 DEF CancelTask, HandOver, ServerShape, Active, CanCancel, Controls
    <3> QED BY <1>0, <2>1, <3>1, <3>2, WriteCancelled
  <2>2. CASE ~ (CanCancel(row))
    <3>1. row' = row
      BY <2>2 DEF CancelTask
    <3> QED BY <1>0, <2>2, <3>1, RowLeft
  <2> QED BY <2>1, <2>2
<1>2. RowShape' /\ RowMoves
  BY <1>1
<1>5. ServerShape'
  BY <1>0, <1>1 DEF CancelTask, ServerShape, CanCancel, Controls, SupervisorAssumption
<1>6. HandOver'
  BY <1>0, <1>1 DEF CancelTask, ServerShape, HandOver, NoPermit, LockCoversWork, Active, Terminal, CanCancel, Controls
<1>7. InHand'
  BY <1>0, <1>1 DEF CancelTask, ServerShape, HandOver, InHand, NoPermit, LockCoversWork, Mine, Active, Terminal, CanCancel, Controls
<1>8. LockCoversWork'
  BY <1>0, <1>1 DEF CancelTask, ServerShape, HandOver, NoPermit, LockCoversWork, CanCancel, Controls
<1> QED BY <1>2, <1>5, <1>6, <1>7, <1>8 DEF SupervisorInv

\* The signal.
LEMMA SignalKeeps ==
  ASSUME SupervisorAssumption, SupervisorInv, Signal
  PROVE  SupervisorInv' /\ RowMoves
<1>0. RowShape /\ ServerShape /\ HandOver /\ InHand /\ LockCoversWork
  BY DEF SupervisorInv
<1>1. row' = row
  BY DEF Signal
<1>2. RowShape' /\ RowMoves
  BY <1>0, <1>1, RowLeft
<1>5. ServerShape'
  BY <1>0, <1>1 DEF Signal, ServerShape, SupervisorAssumption
<1>6. HandOver'
  BY <1>0, <1>1 DEF Signal, ServerShape, HandOver, NoPermit, LockCoversWork, Active, Terminal
<1>7. InHand'
  BY <1>0, <1>1 DEF Signal, ServerShape, HandOver, InHand, NoPermit, LockCoversWork, Mine, Active, Terminal
<1>8. LockCoversWork'
  BY <1>0, <1>1 DEF Signal, ServerShape, HandOver, NoPermit, LockCoversWork
<1> QED BY <1>2, <1>5, <1>6, <1>7, <1>8 DEF SupervisorInv

\* A client that is gone.
LEMMA HangUpKeeps ==
  ASSUME SupervisorAssumption, SupervisorInv, HangUp
  PROVE  SupervisorInv' /\ RowMoves
<1>0. RowShape /\ ServerShape /\ HandOver /\ InHand /\ LockCoversWork
  BY DEF SupervisorInv
<1>1. row' = row
  BY DEF HangUp
<1>2. RowShape' /\ RowMoves
  BY <1>0, <1>1, RowLeft
<1>10. faults' \in 0 .. MaxFaults
  BY <1>0 DEF HangUp, Fault, ServerShape, SupervisorAssumption
<1>5. ServerShape'
  BY <1>0, <1>1, <1>10 DEF HangUp, ServerShape, SupervisorAssumption
<1>6. HandOver'
  BY <1>0, <1>1, <1>10 DEF HangUp, ServerShape, HandOver, NoPermit, LockCoversWork, Active, Terminal
<1>7. InHand'
  BY <1>0, <1>1, <1>10 DEF HangUp, ServerShape, HandOver, InHand, NoPermit, LockCoversWork, Mine, Active, Terminal
<1>8. LockCoversWork'
  BY <1>0, <1>1, <1>10 DEF HangUp, ServerShape, HandOver, NoPermit, LockCoversWork
<1> QED BY <1>2, <1>5, <1>6, <1>7, <1>8 DEF SupervisorInv

\* A shutdown begins.
LEMMA BeginShutdownKeeps ==
  ASSUME SupervisorAssumption, SupervisorInv, BeginShutdown
  PROVE  SupervisorInv' /\ RowMoves
<1>0. RowShape /\ ServerShape /\ HandOver /\ InHand /\ LockCoversWork
  BY DEF SupervisorInv
<1>1. row' = row
  BY DEF BeginShutdown, tasks
<1>2. RowShape' /\ RowMoves
  BY <1>0, <1>1, RowLeft
<1>4. /\ server' \in [id : 1 .. MaxServers,
                      at : {"up", "drain", "final", "interrupt", "abort", "wait", "down", "recover"}]
      /\ server'.id = server.id /\ server'.at = "drain"
  BY <1>0, ServerMoves DEF BeginShutdown
<1>11. UNCHANGED <<init, entry, signalled, worker, outcome, client>>
  BY DEF BeginShutdown, tasks
<1>5. ServerShape'
  BY <1>0, <1>1, <1>4, <1>11 DEF BeginShutdown, ServerShape, SupervisorAssumption
<1>6. HandOver'
  BY <1>0, <1>1, <1>4, <1>11 DEF BeginShutdown, ServerShape, HandOver, NoPermit, LockCoversWork, Active, Terminal
<1>7. InHand'
  BY <1>0, <1>1, <1>4, <1>11 DEF BeginShutdown, ServerShape, HandOver, InHand, NoPermit, LockCoversWork, Mine, Active, Terminal
<1>8. LockCoversWork'
  BY <1>0, <1>1, <1>4, <1>11 DEF BeginShutdown, ServerShape, HandOver, NoPermit, LockCoversWork
<1> QED BY <1>2, <1>5, <1>6, <1>7, <1>8 DEF SupervisorInv

\* The drain asks for the end of what it owns.
LEMMA DrainRequestKeeps ==
  ASSUME SupervisorAssumption, SupervisorInv, DrainRequest
  PROVE  SupervisorInv' /\ RowMoves
<1>0. RowShape /\ ServerShape /\ HandOver /\ InHand /\ LockCoversWork
  BY DEF SupervisorInv
<1>1. /\ RowShape' /\ RowMoves
      /\ \/ row' = row /\ ~ (TRUE)
         \/ /\ TRUE
            /\ CanCancel(row) /\ row'.controller = row.controller
            /\ row'.state = (IF row.state = "queued" THEN "cancelled" ELSE "cancelling")
  <2>1. CASE TRUE
    <3>1. row' = CancelRequested(row, 0)
      BY <2>1 DEF DrainRequest, Write
    <3>2. CanCancel(row)
      BY <1>0, <2>1 DEF DrainRequest, HandOver, ServerShape, Active, CanCancel, tasks
    <3> QED BY <1>0, <2>1, <3>1, <3>2, WriteCancelled
  <2>2. CASE ~ (TRUE)
    <3>1. row' = row
      BY <2>2 DEF DrainRequest
    <3> QED BY <1>0, <2>2, <3>1, RowLeft
  <2> QED BY <2>1, <2>2
<1>2. RowShape' /\ RowMoves
  BY <1>1
<1>11. UNCHANGED <<init, entry, signalled, worker, outcome, client>>
  BY DEF DrainRequest, tasks
<1>5. ServerShape'
  BY <1>0, <1>1, <1>11 DEF DrainRequest, ServerShape, CanCancel, SupervisorAssumption
<1>6. HandOver'
  BY <1>0, <1>1, <1>11 DEF DrainRequest, ServerShape, HandOver, NoPermit, LockCoversWork, Active, Terminal, CanCancel
<1>7. InHand'
  BY <1>0, <1>1, <1>11 DEF DrainRequest, ServerShape, HandOver, InHand, NoPermit, LockCoversWork, Mine, Active, Terminal, CanCancel
<1>8. LockCoversWork'
  BY <1>0, <1>1, <1>11 DEF DrainRequest, ServerShape, HandOver, NoPermit, LockCoversWork, CanCancel
<1> QED BY <1>2, <1>5, <1>6, <1>7, <1>8 DEF SupervisorInv

\* The drain signals.
LEMMA DrainSignalKeeps ==
  ASSUME SupervisorAssumption, SupervisorInv, DrainSignal
  PROVE  SupervisorInv' /\ RowMoves
<1>0. RowShape /\ ServerShape /\ HandOver /\ InHand /\ LockCoversWork
  BY DEF SupervisorInv
<1>1. row' = row
  BY DEF DrainSignal
<1>2. RowShape' /\ RowMoves
  BY <1>0, <1>1, RowLeft
<1>5. ServerShape'
  BY <1>0, <1>1 DEF DrainSignal, ServerShape, SupervisorAssumption
<1>6. HandOver'
  BY <1>0, <1>1 DEF DrainSignal, ServerShape, HandOver, NoPermit, LockCoversWork, Active, Terminal
<1>7. InHand'
  BY <1>0, <1>1 DEF DrainSignal, ServerShape, HandOver, InHand, NoPermit, LockCoversWork, Mine, Active, Terminal
<1>8. LockCoversWork'
  BY <1>0, <1>1 DEF DrainSignal, ServerShape, HandOver, NoPermit, LockCoversWork
<1> QED BY <1>2, <1>5, <1>6, <1>7, <1>8 DEF SupervisorInv

\* The drain forgets a token nobody needs.
LEMMA PruneTokenKeeps ==
  ASSUME SupervisorAssumption, SupervisorInv, PruneToken
  PROVE  SupervisorInv' /\ RowMoves
<1>0. RowShape /\ ServerShape /\ HandOver /\ InHand /\ LockCoversWork
  BY DEF SupervisorInv
<1>1. row' = row
  BY DEF PruneToken
<1>2. RowShape' /\ RowMoves
  BY <1>0, <1>1, RowLeft
<1>5. ServerShape'
  BY <1>0, <1>1 DEF PruneToken, ServerShape, SupervisorAssumption
<1>6. HandOver'
  BY <1>0, <1>1 DEF PruneToken, ServerShape, HandOver, NoPermit, LockCoversWork, Active, Terminal
<1>7. InHand'
  BY <1>0, <1>1 DEF PruneToken, ServerShape, HandOver, InHand, NoPermit, LockCoversWork, Mine, Active, Terminal
<1>8. LockCoversWork'
  BY <1>0, <1>1 DEF PruneToken, ServerShape, HandOver, NoPermit, LockCoversWork
<1> QED BY <1>2, <1>5, <1>6, <1>7, <1>8 DEF SupervisorInv

\* A drained server stops.
LEMMA DrainedKeeps ==
  ASSUME SupervisorAssumption, SupervisorInv, Drained
  PROVE  SupervisorInv' /\ RowMoves
<1>0. RowShape /\ ServerShape /\ HandOver /\ InHand /\ LockCoversWork
  BY DEF SupervisorInv
<1>1. row' = row
  BY DEF Drained
<1>2. RowShape' /\ RowMoves
  BY <1>0, <1>1, RowLeft
<1>4. /\ server' \in [id : 1 .. MaxServers,
                      at : {"up", "drain", "final", "interrupt", "abort", "wait", "down", "recover"}]
      /\ server'.id = server.id /\ server'.at = "down"
  BY <1>0, ServerMoves DEF Drained
<1>5. ServerShape'
  BY <1>0, <1>1, <1>4 DEF Drained, ServerShape, SupervisorAssumption
<1>6. HandOver'
  BY <1>0, <1>1, <1>4 DEF Drained, ServerShape, HandOver, NoPermit, LockCoversWork, Active, Terminal
<1>7. InHand'
  BY <1>0, <1>1, <1>4 DEF Drained, ServerShape, HandOver, InHand, NoPermit, LockCoversWork, Mine, Active, Terminal
<1>8. LockCoversWork'
  BY <1>0, <1>1, <1>4 DEF Drained, ServerShape, HandOver, NoPermit, LockCoversWork
<1> QED BY <1>2, <1>5, <1>6, <1>7, <1>8 DEF SupervisorInv

\* The drain may end without success.
LEMMA DrainGivesUpKeeps ==
  ASSUME SupervisorAssumption, SupervisorInv, DrainGivesUp
  PROVE  SupervisorInv' /\ RowMoves
<1>0. RowShape /\ ServerShape /\ HandOver /\ InHand /\ LockCoversWork
  BY DEF SupervisorInv
<1>1. row' = row
  BY DEF DrainGivesUp, tasks
<1>2. RowShape' /\ RowMoves
  BY <1>0, <1>1, RowLeft
<1>4. /\ server' \in [id : 1 .. MaxServers,
                      at : {"up", "drain", "final", "interrupt", "abort", "wait", "down", "recover"}]
      /\ server'.id = server.id /\ server'.at = "final"
  BY <1>0, ServerMoves DEF DrainGivesUp
<1>11. UNCHANGED <<init, entry, signalled, worker, outcome, client>>
  BY DEF DrainGivesUp, tasks
<1>5. ServerShape'
  BY <1>0, <1>1, <1>4, <1>11 DEF DrainGivesUp, ServerShape, SupervisorAssumption
<1>6. HandOver'
  BY <1>0, <1>1, <1>4, <1>11 DEF DrainGivesUp, ServerShape, HandOver, NoPermit, LockCoversWork, Active, Terminal
<1>7. InHand'
  BY <1>0, <1>1, <1>4, <1>11 DEF DrainGivesUp, ServerShape, HandOver, InHand, NoPermit, LockCoversWork, Mine, Active, Terminal
<1>8. LockCoversWork'
  BY <1>0, <1>1, <1>4, <1>11 DEF DrainGivesUp, ServerShape, HandOver, NoPermit, LockCoversWork
<1> QED BY <1>2, <1>5, <1>6, <1>7, <1>8 DEF SupervisorInv

\* Every token is cancelled once no initializer is left.
LEMMA CancelAllKeeps ==
  ASSUME SupervisorAssumption, SupervisorInv, CancelAll
  PROVE  SupervisorInv' /\ RowMoves
<1>0. RowShape /\ ServerShape /\ HandOver /\ InHand /\ LockCoversWork
  BY DEF SupervisorInv
<1>1. row' = row
  BY DEF CancelAll
<1>2. RowShape' /\ RowMoves
  BY <1>0, <1>1, RowLeft
<1>4. /\ server' \in [id : 1 .. MaxServers,
                      at : {"up", "drain", "final", "interrupt", "abort", "wait", "down", "recover"}]
      /\ server'.id = server.id /\ server'.at = "interrupt"
  BY <1>0, ServerMoves DEF CancelAll
<1>5. ServerShape'
  BY <1>0, <1>1, <1>4 DEF CancelAll, ServerShape, SupervisorAssumption
<1>6. HandOver'
  BY <1>0, <1>1, <1>4 DEF CancelAll, ServerShape, HandOver, NoPermit, LockCoversWork, Active, Terminal
<1>7. InHand'
  BY <1>0, <1>1, <1>4 DEF CancelAll, ServerShape, HandOver, InHand, NoPermit, LockCoversWork, Mine, Active, Terminal
<1>8. LockCoversWork'
  BY <1>0, <1>1, <1>4 DEF CancelAll, ServerShape, HandOver, NoPermit, LockCoversWork
<1> QED BY <1>2, <1>5, <1>6, <1>7, <1>8 DEF SupervisorInv

\* What the server owns is interrupted.
LEMMA InterruptOwnedKeeps ==
  ASSUME SupervisorAssumption, SupervisorInv, InterruptOwned
  PROVE  SupervisorInv' /\ RowMoves
<1>0. RowShape /\ ServerShape /\ HandOver /\ InHand /\ LockCoversWork
  BY DEF SupervisorInv
<1>1. /\ RowShape' /\ RowMoves
      /\ \/ row' = row /\ ~ (Owned)
         \/ /\ Owned
            /\ row.state \in Active /\ row'.state = "interrupted"
  <2>1. CASE Owned
    <3>1. row' = Interrupted(row, "control_unavailable", 0)
      BY <2>1 DEF InterruptOwned, Write
    <3>2. row.state \in Active
      BY <1>0, <2>1 DEF InterruptOwned, HandOver, ServerShape, Active, Owned
    <3> QED BY <1>0, <2>1, <3>1, <3>2, WriteInterrupted
  <2>2. CASE ~ (Owned)
    <3>1. row' = row
      BY <2>2 DEF InterruptOwned
    <3> QED BY <1>0, <2>2, <3>1, RowLeft
  <2> QED BY <2>1, <2>2
<1>2. RowShape' /\ RowMoves
  BY <1>1
<1>4. /\ server' \in [id : 1 .. MaxServers,
                      at : {"up", "drain", "final", "interrupt", "abort", "wait", "down", "recover"}]
      /\ server'.id = server.id /\ server'.at = "abort"
  BY <1>0, ServerMoves DEF InterruptOwned
<1>5. ServerShape'
  BY <1>0, <1>1, <1>4 DEF InterruptOwned, ServerShape, Owned, SupervisorAssumption
<1>6. HandOver'
  BY <1>0, <1>1, <1>4 DEF InterruptOwned, ServerShape, HandOver, NoPermit, LockCoversWork, Active, Terminal, Owned
<1>7. InHand'
  BY <1>0, <1>1, <1>4 DEF InterruptOwned, ServerShape, HandOver, InHand, NoPermit, LockCoversWork, Mine, Active, Terminal, Owned
<1>8. LockCoversWork'
  BY <1>0, <1>1, <1>4 DEF InterruptOwned, ServerShape, HandOver, NoPermit, LockCoversWork, Owned
<1> QED BY <1>2, <1>5, <1>6, <1>7, <1>8 DEF SupervisorInv

\* Or it is left.
LEMMA InterruptFailsKeeps ==
  ASSUME SupervisorAssumption, SupervisorInv, InterruptFails
  PROVE  SupervisorInv' /\ RowMoves
<1>0. RowShape /\ ServerShape /\ HandOver /\ InHand /\ LockCoversWork
  BY DEF SupervisorInv
<1>1. row' = row
  BY DEF InterruptFails, tasks
<1>2. RowShape' /\ RowMoves
  BY <1>0, <1>1, RowLeft
<1>4. /\ server' \in [id : 1 .. MaxServers,
                      at : {"up", "drain", "final", "interrupt", "abort", "wait", "down", "recover"}]
      /\ server'.id = server.id /\ server'.at = "abort"
  BY <1>0, ServerMoves DEF InterruptFails
<1>10. faults' \in 0 .. MaxFaults
  BY <1>0 DEF InterruptFails, Fault, ServerShape, SupervisorAssumption
<1>11. UNCHANGED <<init, entry, signalled, worker, outcome, client>>
  BY DEF InterruptFails, tasks
<1>5. ServerShape'
  BY <1>0, <1>1, <1>4, <1>10, <1>11 DEF InterruptFails, ServerShape, SupervisorAssumption
<1>6. HandOver'
  BY <1>0, <1>1, <1>4, <1>10, <1>11 DEF InterruptFails, ServerShape, HandOver, NoPermit, LockCoversWork, Active, Terminal
<1>7. InHand'
  BY <1>0, <1>1, <1>4, <1>10, <1>11 DEF InterruptFails, ServerShape, HandOver, InHand, NoPermit, LockCoversWork, Mine, Active, Terminal
<1>8. LockCoversWork'
  BY <1>0, <1>1, <1>4, <1>10, <1>11 DEF InterruptFails, ServerShape, HandOver, NoPermit, LockCoversWork
<1> QED BY <1>2, <1>5, <1>6, <1>7, <1>8 DEF SupervisorInv

\* The dispatch is aborted; its settlement may run on.
LEMMA AbortDispatchKeeps ==
  ASSUME SupervisorAssumption, SupervisorInv, AbortDispatch
  PROVE  SupervisorInv' /\ RowMoves
<1>0. RowShape /\ ServerShape /\ HandOver /\ InHand /\ LockCoversWork
  BY DEF SupervisorInv
<1>1. row' = row
  BY DEF AbortDispatch
<1>2. RowShape' /\ RowMoves
  BY <1>0, <1>1, RowLeft
<1>4. /\ server' \in [id : 1 .. MaxServers,
                      at : {"up", "drain", "final", "interrupt", "abort", "wait", "down", "recover"}]
      /\ server'.id = server.id /\ server'.at = "wait"
  BY <1>0, ServerMoves DEF AbortDispatch
<1>5. ServerShape'
  BY <1>0, <1>1, <1>4 DEF AbortDispatch, ServerShape, SupervisorAssumption
<1>6. HandOver'
  BY <1>0, <1>1, <1>4 DEF AbortDispatch, ServerShape, HandOver, NoPermit, LockCoversWork, Active, Terminal
<1>7. InHand'
  BY <1>0, <1>1, <1>4 DEF AbortDispatch, ServerShape, HandOver, InHand, NoPermit, LockCoversWork, Mine, Active, Terminal
<1>8. LockCoversWork'
  BY <1>0, <1>1, <1>4 DEF AbortDispatch, ServerShape, HandOver, NoPermit, LockCoversWork
<1> QED BY <1>2, <1>5, <1>6, <1>7, <1>8 DEF SupervisorInv

\* The lock is released with nobody at work.
LEMMA ReleaseKeeps ==
  ASSUME SupervisorAssumption, SupervisorInv, Release
  PROVE  SupervisorInv' /\ RowMoves
<1>0. RowShape /\ ServerShape /\ HandOver /\ InHand /\ LockCoversWork
  BY DEF SupervisorInv
<1>1. row' = row
  BY DEF Release
<1>2. RowShape' /\ RowMoves
  BY <1>0, <1>1, RowLeft
<1>4. /\ server' \in [id : 1 .. MaxServers,
                      at : {"up", "drain", "final", "interrupt", "abort", "wait", "down", "recover"}]
      /\ server'.id = server.id /\ server'.at = "down"
  BY <1>0, ServerMoves DEF Release
<1>5. ServerShape'
  BY <1>0, <1>1, <1>4 DEF Release, ServerShape, SupervisorAssumption
<1>6. HandOver'
  BY <1>0, <1>1, <1>4 DEF Release, ServerShape, HandOver, NoPermit, LockCoversWork, Active, Terminal
<1>7. InHand'
  BY <1>0, <1>1, <1>4 DEF Release, ServerShape, HandOver, InHand, NoPermit, LockCoversWork, Mine, Active, Terminal
<1>8. LockCoversWork'
  BY <1>0, <1>1, <1>4 DEF Release, ServerShape, HandOver, NoPermit, LockCoversWork
<1> QED BY <1>2, <1>5, <1>6, <1>7, <1>8 DEF SupervisorInv

\* The next server.
LEMMA StartKeeps ==
  ASSUME SupervisorAssumption, SupervisorInv, Start
  PROVE  SupervisorInv' /\ RowMoves
<1>0. RowShape /\ ServerShape /\ HandOver /\ InHand /\ LockCoversWork
  BY DEF SupervisorInv
<1>1. row' = row
  BY DEF Start
<1>2. RowShape' /\ RowMoves
  BY <1>0, <1>1, RowLeft
<1>3. server.id \in 1 .. MaxServers /\ server' = [id |-> server.id + 1, at |-> "recover"]
      /\ server.id < MaxServers
  BY <1>0 DEF Start, ServerShape
<1>4. /\ server' \in [id : 1 .. MaxServers,
                      at : {"up", "drain", "final", "interrupt", "abort", "wait", "down", "recover"}]
      /\ server'.at = "recover"
  BY <1>3 DEF SupervisorAssumption
<1>5. ServerShape'
  BY <1>0, <1>1, <1>4 DEF Start, ServerShape, SupervisorAssumption
<1>6. HandOver'
  BY <1>0, <1>1, <1>4 DEF Start, ServerShape, HandOver, NoPermit, LockCoversWork, Active, Terminal
<1>7. InHand'
  BY <1>0, <1>1, <1>4 DEF Start, ServerShape, HandOver, InHand, NoPermit, LockCoversWork, Mine, Active, Terminal
<1>8. LockCoversWork'
  BY <1>0, <1>1, <1>4 DEF Start, ServerShape, HandOver, NoPermit, LockCoversWork
<1> QED BY <1>2, <1>5, <1>6, <1>7, <1>8 DEF SupervisorInv

\* The next server interrupts what it finds active.
LEMMA RecoverKeeps ==
  ASSUME SupervisorAssumption, SupervisorInv, Recover
  PROVE  SupervisorInv' /\ RowMoves
<1>0. RowShape /\ ServerShape /\ HandOver /\ InHand /\ LockCoversWork
  BY DEF SupervisorInv
<1>1. /\ RowShape' /\ RowMoves
      /\ \/ row' = row /\ ~ (row.state \in Active)
         \/ /\ row.state \in Active
            /\ row.state \in Active /\ row'.state = "interrupted"
  <2>1. CASE row.state \in Active
    <3>1. row' = Interrupted(row, "worker_lost", 0)
      BY <2>1 DEF Recover, Write
    <3>2. row.state \in Active
      BY <1>0, <2>1 DEF Recover, HandOver, ServerShape, Active, tasks
    <3> QED BY <1>0, <2>1, <3>1, <3>2, WriteInterrupted
  <2>2. CASE ~ (row.state \in Active)
    <3>1. row' = row
      BY <2>2 DEF Recover
    <3> QED BY <1>0, <2>2, <3>1, RowLeft
  <2> QED BY <2>1, <2>2
<1>2. RowShape' /\ RowMoves
  BY <1>1
<1>4. /\ server' \in [id : 1 .. MaxServers,
                      at : {"up", "drain", "final", "interrupt", "abort", "wait", "down", "recover"}]
      /\ server'.id = server.id /\ server'.at = "up"
  BY <1>0, ServerMoves DEF Recover
<1>11. UNCHANGED <<init, entry, signalled, worker, outcome, client>>
  BY DEF Recover, tasks
<1>5. ServerShape'
  BY <1>0, <1>1, <1>4, <1>11 DEF Recover, ServerShape, SupervisorAssumption
<1>12. row.state \in Active \cup Terminal \cup {"absent"}
  BY <1>0 DEF RowShape, TaskRecord
<1>6. HandOver'
  BY <1>0, <1>1, <1>4, <1>11, <1>12 DEF Recover, ServerShape, HandOver, NoPermit, LockCoversWork, Active, Terminal
<1>7. InHand'
  BY <1>0, <1>1, <1>4, <1>11, <1>12 DEF Recover, ServerShape, HandOver, InHand, NoPermit, LockCoversWork, Mine, Active, Terminal
<1>8. LockCoversWork'
  BY <1>0, <1>1, <1>4, <1>11, <1>12 DEF Recover, ServerShape, HandOver, NoPermit, LockCoversWork
<1> QED BY <1>2, <1>5, <1>6, <1>7, <1>8 DEF SupervisorInv

\* A crash leaves only the row.
LEMMA CrashKeeps ==
  ASSUME SupervisorAssumption, SupervisorInv, Crash
  PROVE  SupervisorInv' /\ RowMoves
<1>0. RowShape /\ ServerShape /\ HandOver /\ InHand /\ LockCoversWork
  BY DEF SupervisorInv
<1>1. row' = row
  BY DEF Crash
<1>2. RowShape' /\ RowMoves
  BY <1>0, <1>1, RowLeft
<1>4. /\ server' \in [id : 1 .. MaxServers,
                      at : {"up", "drain", "final", "interrupt", "abort", "wait", "down", "recover"}]
      /\ server'.id = server.id /\ server'.at = "down"
  BY <1>0, ServerMoves DEF Crash
<1>10. faults' \in 0 .. MaxFaults
  BY <1>0 DEF Crash, Fault, ServerShape, SupervisorAssumption
<1>5. ServerShape'
  BY <1>0, <1>1, <1>4, <1>10 DEF Crash, ServerShape, Alive, SupervisorAssumption
<1>6. HandOver'
  BY <1>0, <1>1, <1>4, <1>10 DEF Crash, ServerShape, HandOver, NoPermit, LockCoversWork, Active, Terminal, Alive
<1>7. InHand'
  BY <1>0, <1>1, <1>4, <1>10 DEF Crash, ServerShape, HandOver, InHand, NoPermit, LockCoversWork, Mine, Active, Terminal, Alive
<1>8. LockCoversWork'
  BY <1>0, <1>1, <1>4, <1>10 DEF Crash, ServerShape, HandOver, NoPermit, LockCoversWork, Alive
<1> QED BY <1>2, <1>5, <1>6, <1>7, <1>8 DEF SupervisorInv

\* The initial row.
LEMMA SupervisorInit ==
  ASSUME SupervisorAssumption, Init
  PROVE  SupervisorInv
<1>1. NoTask \in TaskRecord(Controllers) /\ NoTask.state = "absent"
  BY DEF NoTask, TaskRecord, Failure, Active, Terminal, Controllers
<1>2. WellFormed(NoTask)
  BY DEF NoTask, WellFormed, Active
<1>3. RowShape
  BY <1>1, <1>2 DEF Init, RowShape, Controllers
<1>4. ServerShape
  <2>1. 1 \in 1 .. MaxServers /\ 0 \in 0 .. MaxFaults
    BY DEF SupervisorAssumption
  <2>2. server \in [id : 1 .. MaxServers,
                    at : {"up", "drain", "final", "interrupt", "abort", "wait", "down", "recover"}]
    BY <2>1 DEF Init
  <2> QED BY <2>1, <2>2 DEF Init, ServerShape
<1>5. HandOver /\ InHand /\ LockCoversWork
  BY <1>1 DEF Init, HandOver, InHand, LockCoversWork, NoPermit
<1> QED BY <1>3, <1>4, <1>5 DEF SupervisorInv

\* Every step of the supervisor.
LEMMA SupervisorStep ==
  ASSUME SupervisorAssumption, SupervisorInv, Next
  PROVE  SupervisorInv' /\ RowMoves
<1>1. CASE Initialize
  BY <1>1, CreateTaskKeeps, RegisterTokenKeeps, AttachControllerKeeps, AttachFailsKeeps, ReserveDispatchKeeps, StartDispatchKeeps, CleanUpKeeps, CleanUpFailsKeeps DEF Initialize
<1>2. CASE Dispatch
  BY <1>2, DispatchReturnsKeeps, SettleWithRetryKeeps, UnregisterKeeps DEF Dispatch
<1>3. CASE Shutdown
  BY <1>3, DrainRequestKeeps, DrainSignalKeeps, PruneTokenKeeps, DrainedKeeps, DrainGivesUpKeeps, CancelAllKeeps, InterruptOwnedKeeps, InterruptFailsKeeps, AbortDispatchKeeps, ReleaseKeeps DEF Shutdown
<1>4. CASE Submit \/ LateSettlement \/ CancelTask \/ Signal \/ HangUp \/ BeginShutdown \/ Start \/ Recover \/ Crash
  BY <1>4, SubmitKeeps, LateSettlementKeeps, CancelTaskKeeps, SignalKeeps, HangUpKeeps, BeginShutdownKeeps, StartKeeps, RecoverKeeps, CrashKeeps
<1> QED BY <1>1, <1>2, <1>3, <1>4 DEF Next

\* A step that leaves the supervisor alone.
LEMMA SupervisorStutter ==
  ASSUME SupervisorInv, UNCHANGED vars
  PROVE  SupervisorInv' /\ RowMoves
<1>1. /\ row' = row /\ server' = server /\ init' = init /\ entry' = entry /\ signalled' = signalled
      /\ worker' = worker /\ outcome' = outcome /\ client' = client /\ late' = late /\ faults' = faults
  BY DEF vars, tasks
<1>2. RowShape' /\ RowMoves
  BY <1>1, RowLeft DEF SupervisorInv
<1>3. ServerShape' /\ HandOver' /\ InHand' /\ LockCoversWork'
  BY <1>1 DEF SupervisorInv, ServerShape, HandOver, InHand, LockCoversWork, NoPermit, Mine
<1> QED BY <1>2, <1>3 DEF SupervisorInv

\* The invariant says what the run checks.
LEMMA SupervisorInvSuffices ==
  ASSUME SupervisorInv
  PROVE  SupervisorTypeOK /\ RowWellFormed /\ LockCoversWork /\ WorkIsWanted
<1>1. /\ row.state \in Active \cup Terminal \cup {"absent"}
      /\ row.controller \in {NoOne} \cup 1 .. MaxServers
  BY DEF SupervisorInv, RowShape, TaskRecord
<1>2. server.id \in 1 .. MaxServers
      /\ server.at \in {"up", "drain", "final", "interrupt", "abort", "wait", "down", "recover"}
  BY DEF SupervisorInv, ServerShape
<1>3. SupervisorTypeOK
  BY <1>1, <1>2 DEF SupervisorInv, ServerShape, SupervisorTypeOK
<1> QED BY <1>3 DEF SupervisorInv, RowShape, RowWellFormed, InHand, WorkIsWanted

\* The supervisor's invariant holds whatever the behaviour is about.
LEMMA SupervisorInvariant == MCSpec => []SupervisorInv
<1>1. MCInit => SupervisorInv
  BY SupervisorAssumption, SupervisorInit DEF MCInit
<1>2. ASSUME SupervisorInv, [MCNext]_allVars PROVE SupervisorInv'
  <2>1. CASE Next
    BY <1>2, <2>1, SupervisorAssumption, SupervisorStep
  <2>2. CASE UNCHANGED vars
    BY <1>2, <2>2, SupervisorStutter
  <2> QED BY <1>2, <2>1, <2>2 DEF MCNext, allVars
<1> QED BY <1>1, <1>2, PTL DEF MCSpec

\* A task's row is readable after every write, moves only along its lifecycle
\* and stays as it ended; a released lock leaves no initializer and no dispatch
\* at work; and while a server serves, its dispatch works for a row running
\* under this very server (TasksSupervised), whatever shutdowns, crashes,
\* cancellations and late settlements come between.
THEOREM TasksStaySupervised == MCSpec => TasksSupervised
<1>1. SupervisorInv => SupervisorTypeOK /\ RowWellFormed /\ LockCoversWork /\ WorkIsWanted
  BY SupervisorInvSuffices
<1>2. ASSUME SupervisorInv, [MCNext]_allVars
      PROVE  [row' # row => row.state \notin Terminal /\ LegalStep(row, row')]_row
  <2>1. CASE Next
    BY <1>2, <2>1, SupervisorAssumption, SupervisorStep DEF RowMoves
  <2>2. CASE UNCHANGED vars
    BY <2>2 DEF vars
  <2> QED BY <1>2, <2>1, <2>2 DEF MCNext, allVars
<1> QED BY <1>1, <1>2, SupervisorInvariant, PTL DEF MCSpec, TasksSupervised, RowMovesLegally

-----------------------------------------------------------------------------
(* The workflows of the daemon. *)

\* A row is the same thing to both supervisors.
LEMMA SameRow ==
  /\ W!Active = Active /\ W!Terminal = Terminal /\ W!Settlement = Settlement
  /\ \A who : W!TaskRecord(who) = TaskRecord(who)
  /\ \A r : W!WellFormed(r) <=> WellFormed(r)
  /\ \A r, n : W!LegalStep(r, n) <=> LegalStep(r, n)
  /\ \A r : W!CanCancel(r) <=> CanCancel(r)
  /\ \A r, o : W!CanSettle(r, o) <=> CanSettle(r, o)
  /\ W!NoTask = NoTask
  /\ \A at : W!Created(at) = Created(at)
  /\ \A r, c, l, at : W!Attached(r, c, l, at) = Attached(r, c, l, at)
  /\ \A r, o, at : W!Settled(r, o, at) = Settled(r, o, at)
  /\ \A r, c, at : W!Interrupted(r, c, at) = Interrupted(r, c, at)
  /\ \A r, at : W!CancelRequested(r, at) = CancelRequested(r, at)
  /\ \A r, l, at : W!Renewed(r, l, at) = Renewed(r, l, at)
<1>1. W!Active = Active /\ W!Terminal = Terminal /\ W!Failure = Failure
  BY DEF W!Active, Active, W!Terminal, Terminal, W!Failure, Failure
<1>2. W!Settlement = Settlement /\ \A who : W!TaskRecord(who) = TaskRecord(who)
  BY <1>1 DEF W!Settlement, Settlement, W!TaskRecord, TaskRecord
<1>3. \A r : W!WellFormed(r) <=> WellFormed(r)
  BY <1>1 DEF W!WellFormed, WellFormed
<1>4. \A r, n : W!LegalStep(r, n) <=> LegalStep(r, n)
  BY <1>1 DEF W!LegalStep, LegalStep
<1>5. \A r : W!CanCancel(r) <=> CanCancel(r)
  BY DEF W!CanCancel, CanCancel
<1>6. \A r, o : W!CanSettle(r, o) <=> CanSettle(r, o)
  BY DEF W!CanSettle, CanSettle
<1>7. W!NoTask = NoTask
  BY DEF W!NoTask, NoTask
<1>8. \A at : W!Created(at) = Created(at)
  BY <1>7 DEF W!Created, Created
<1>9. \A a, b : W!Later(a, b) = Later(a, b)
  BY DEF W!Later, Later
<1>10. \A r, at : W!Mutated(r, at) = Mutated(r, at)
  BY <1>9 DEF W!Mutated, Mutated
<1>11. \A r, c, l, at : W!Attached(r, c, l, at) = Attached(r, c, l, at)
  BY <1>10 DEF W!Attached, Attached
<1>12. \A r, s, f, at : W!Ended(r, s, f, at) = Ended(r, s, f, at)
  BY <1>10 DEF W!Ended, Ended
<1>13. \A r, o, at : W!Settled(r, o, at) = Settled(r, o, at)
  BY <1>12 DEF W!Settled, Settled
<1>14. \A r, c, at : W!Interrupted(r, c, at) = Interrupted(r, c, at)
  BY <1>12 DEF W!Interrupted, Interrupted
<1>15. \A r, at : W!CancelRequested(r, at) = CancelRequested(r, at)
  BY <1>10, <1>12 DEF W!CancelRequested, CancelRequested
<1>16. \A r, l, at : W!Renewed(r, l, at) = Renewed(r, l, at)
  BY <1>10 DEF W!Renewed, Renewed
<1> QED BY <1>1, <1>2, <1>3, <1>4, <1>5, <1>6, <1>7, <1>8, <1>11, <1>13, <1>14, <1>15, <1>16

\* A created row is queued and well formed.
LEMMA WorkflowCreatedRow ==
  ASSUME NEW who, NoOne \in who, NEW at \in Nat
  PROVE  /\ W!Created(at) \in W!TaskRecord(who) /\ W!WellFormed(W!Created(at))
         /\ W!Created(at).state = "queued" /\ W!LegalStep(W!NoTask, W!Created(at))
  BY CreatedRow, SameRow

\* A queued row attached to a controller runs under it.
LEMMA WorkflowAttachedRow ==
  ASSUME NEW who, NEW r \in W!TaskRecord(who), W!WellFormed(r), r.state = "queued", NoOne \in who,
         NEW c \in who, c # NoOne, NEW lease \in Nat, NEW at \in Nat
  PROVE  /\ W!Attached(r, c, lease, at) \in W!TaskRecord(who) /\ W!WellFormed(W!Attached(r, c, lease, at))
         /\ W!Attached(r, c, lease, at).state = "running" /\ W!Attached(r, c, lease, at).controller = c
         /\ W!Attached(r, c, lease, at).rev = r.rev + 1 /\ W!Attached(r, c, lease, at).epoch = r.epoch + 1
         /\ W!Attached(r, c, lease, at).lease = lease
         /\ W!Attached(r, c, lease, at).holder = (IF lease = 0 THEN NoOne ELSE c)
         /\ W!LegalStep(r, W!Attached(r, c, lease, at))
<1>1. r \in TaskRecord(who) /\ WellFormed(r)
  BY SameRow
<1>2. /\ Attached(r, c, lease, at) \in TaskRecord(who) /\ WellFormed(Attached(r, c, lease, at))
      /\ Attached(r, c, lease, at).state = "running" /\ Attached(r, c, lease, at).controller = c
      /\ Attached(r, c, lease, at).rev = r.rev + 1 /\ Attached(r, c, lease, at).epoch = r.epoch + 1
      /\ Attached(r, c, lease, at).lease = lease
      /\ Attached(r, c, lease, at).holder = (IF lease = 0 THEN NoOne ELSE c)
      /\ LegalStep(r, Attached(r, c, lease, at))
  BY <1>1, AttachedRow
<1>3. W!Attached(r, c, lease, at) = Attached(r, c, lease, at)
  BY SameRow
<1> QED BY <1>2, <1>3, SameRow

\* A settled row has ended as its worker said.
LEMMA WorkflowSettledRow ==
  ASSUME NEW who, NEW r \in W!TaskRecord(who), W!WellFormed(r), NoOne \in who,
         NEW state \in W!Settlement, NEW at \in Nat, W!CanSettle(r, state)
  PROVE  /\ W!Settled(r, state, at) \in W!TaskRecord(who) /\ W!WellFormed(W!Settled(r, state, at))
         /\ W!Settled(r, state, at).state = state /\ W!Settled(r, state, at).rev = r.rev + 1
         /\ W!Settled(r, state, at).controller = r.controller
         /\ W!Settled(r, state, at).epoch = r.epoch
         /\ W!LegalStep(r, W!Settled(r, state, at))
<1>1. r \in TaskRecord(who) /\ WellFormed(r) /\ state \in Settlement /\ CanSettle(r, state)
  BY SameRow
<1>2. /\ Settled(r, state, at) \in TaskRecord(who) /\ WellFormed(Settled(r, state, at))
      /\ Settled(r, state, at).state = state /\ Settled(r, state, at).rev = r.rev + 1
      /\ Settled(r, state, at).controller = r.controller
      /\ Settled(r, state, at).epoch = r.epoch
      /\ LegalStep(r, Settled(r, state, at))
  BY <1>1, SettledRow
<1>3. W!Settled(r, state, at) = Settled(r, state, at)
  BY SameRow
<1> QED BY <1>2, <1>3, SameRow

\* An interrupted row says why.
LEMMA WorkflowInterruptedRow ==
  ASSUME NEW who, NEW r \in W!TaskRecord(who), W!WellFormed(r), r.state \in W!Active, NoOne \in who,
         NEW code \in {"worker_lost", "control_unavailable", "internal"}, NEW at \in Nat
  PROVE  /\ W!Interrupted(r, code, at) \in W!TaskRecord(who) /\ W!WellFormed(W!Interrupted(r, code, at))
         /\ W!Interrupted(r, code, at).state = "interrupted" /\ W!Interrupted(r, code, at).rev = r.rev + 1
         /\ W!Interrupted(r, code, at).controller = r.controller /\ W!Interrupted(r, code, at).failure = code
         /\ W!Interrupted(r, code, at).epoch = r.epoch
         /\ W!LegalStep(r, W!Interrupted(r, code, at))
<1>1. r \in TaskRecord(who) /\ WellFormed(r) /\ r.state \in Active
  BY SameRow
<1>2. EndsAs(r, "interrupted", code)
  BY <1>1 DEF Terminal, Failure, EndsAs
<1>3. W!Interrupted(r, code, at) = Ended(r, "interrupted", code, at)
  BY SameRow DEF Interrupted
<1>4. EndedWell(who, r, "interrupted", code, Ended(r, "interrupted", code, at))
  BY <1>1, <1>2, EndedRow
<1> QED BY <1>3, <1>4, SameRow DEF EndedWell

\* A cancellation ends a queued row and marks a running one.
LEMMA WorkflowCancelledRow ==
  ASSUME NEW who, NEW r \in W!TaskRecord(who), W!WellFormed(r), W!CanCancel(r), NoOne \in who, NEW at \in Nat
  PROVE  /\ W!CancelRequested(r, at) \in W!TaskRecord(who) /\ W!WellFormed(W!CancelRequested(r, at))
         /\ W!CancelRequested(r, at).state = (IF r.state = "queued" THEN "cancelled" ELSE "cancelling")
         /\ W!CancelRequested(r, at).controller = r.controller /\ W!CancelRequested(r, at).rev = r.rev + 1
         /\ W!CancelRequested(r, at).epoch = r.epoch
         /\ (r.state = "running" => W!CancelRequested(r, at).lease = r.lease)
         /\ (r.state = "running" => W!CancelRequested(r, at).holder = r.holder)
         /\ W!LegalStep(r, W!CancelRequested(r, at))
  BY CancelledRow, SameRow

\* A renewed row only has a new lease.
LEMMA WorkflowRenewedRow ==
  ASSUME NEW who, NEW r \in W!TaskRecord(who), W!WellFormed(r), r.state \in {"running", "cancelling"},
         NEW lease \in Nat, NEW at \in Nat
  PROVE  /\ W!Renewed(r, lease, at) \in W!TaskRecord(who) /\ W!WellFormed(W!Renewed(r, lease, at))
         /\ W!Renewed(r, lease, at).state = r.state /\ W!Renewed(r, lease, at).rev = r.rev + 1
         /\ W!Renewed(r, lease, at).controller = r.controller /\ W!Renewed(r, lease, at).epoch = r.epoch
         /\ W!Renewed(r, lease, at).lease = lease /\ W!Renewed(r, lease, at).holder = r.holder
         /\ W!LegalStep(r, W!Renewed(r, lease, at))
  BY RenewedRow, SameRow

Daemons == {NoOne} \cup 1 .. MaxDaemons

\* A step changes the row legally or not at all.
WorkflowMoves == wRow' # wRow => wRow.state \notin W!Terminal /\ W!LegalStep(wRow, wRow')

\* A row that is written once it is there has a new revision and is no longer queued.
WorkflowOn ==
  \/ wRow' = wRow
  \/ /\ wRow.state # "absent" /\ wRow'.rev = wRow.rev + 1
     /\ wRow'.state \notin {"absent", "queued"}

\* The row may be left alone.
LEMMA WorkflowRowLeft ==
  ASSUME W!RowShape, wRow' = wRow
  PROVE  W!RowShape' /\ WorkflowMoves /\ WorkflowOn
  BY DEF W!RowShape, WorkflowMoves, WorkflowOn

\* A row that is written is a row again.
LEMMA WorkflowRowWritten ==
  ASSUME wRow' \in W!TaskRecord(Daemons), W!WellFormed(wRow'), wRow'.state # "absent",
         wRow.state \notin W!Terminal, W!LegalStep(wRow, wRow')
  PROVE  W!RowShape' /\ WorkflowMoves
  BY DEF W!RowShape, WorkflowMoves, Daemons

\* What the row lemmas say of the daemon's row.
LEMMA WorkflowRowKnown ==
  ASSUME W!RowShape
  PROVE  /\ wRow \in W!TaskRecord(Daemons) /\ W!WellFormed(wRow) /\ NoOne \in Daemons /\ wRow.rev \in Nat
         /\ wRow.state \in W!Active \cup W!Terminal \cup {"absent"}
<1>1. wRow \in W!TaskRecord(Daemons) /\ W!WellFormed(wRow) /\ NoOne \in Daemons
  BY DEF W!RowShape, Daemons
<1>2. wRow.rev \in Nat /\ wRow.state \in W!Active \cup W!Terminal \cup {"absent"}
  BY <1>1 DEF W!TaskRecord
<1> QED BY <1>1, <1>2

\* The clock is a time.
LEMMA WorkflowNowNat ==
  ASSUME W!Bounds, W!DaemonShape
  PROVE  wNow \in Nat /\ wNow + LeaseTicks \in Nat
  BY DEF W!Bounds, W!DaemonShape

\* Creating the row.
LEMMA WorkflowWriteCreated ==
  ASSUME W!Bounds, W!DaemonShape, W!RowShape, wRow.state = "absent", wRow' = W!Created(wNow)
  PROVE  W!RowShape' /\ WorkflowMoves /\ wRow'.state = "queued" /\ wRow'.rev = 0
<1>1. /\ W!Created(wNow) \in W!TaskRecord(Daemons) /\ W!WellFormed(W!Created(wNow))
      /\ W!Created(wNow).state = "queued" /\ W!LegalStep(W!NoTask, W!Created(wNow))
  BY WorkflowNowNat, WorkflowRowKnown, WorkflowCreatedRow
<1>2. wRow = W!NoTask /\ wRow.state \notin W!Terminal
  BY DEF W!RowShape, W!Terminal
<1>3. wRow'.rev = 0
  BY <1>1 DEF W!WellFormed
<1> QED BY <1>1, <1>2, <1>3, WorkflowRowWritten

\* Attaching the daemon.
LEMMA WorkflowWriteAttached ==
  ASSUME W!Bounds, W!DaemonShape, W!RowShape, wRow.state = "queued", wRow' = W!AttachedNow
  PROVE  /\ W!RowShape' /\ WorkflowMoves /\ WorkflowOn /\ wRow'.state = "running" /\ wRow'.controller = wServer.id
<1>1. wRow.state \notin W!Terminal /\ wServer.id \in Daemons /\ wServer.id # NoOne
  BY DEF W!Terminal, Daemons, W!Bounds, W!DaemonShape
<1>2. /\ wRow' \in W!TaskRecord(Daemons) /\ W!WellFormed(wRow') /\ wRow'.rev = wRow.rev + 1
      /\ wRow'.state = "running" /\ wRow'.controller = wServer.id /\ W!LegalStep(wRow, wRow')
  BY <1>1, WorkflowNowNat, WorkflowRowKnown, WorkflowAttachedRow DEF W!AttachedNow
<1> QED BY <1>1, <1>2, WorkflowRowWritten DEF WorkflowOn

\* Interrupting what is active.
LEMMA WorkflowWriteInterrupted ==
  ASSUME W!Bounds, W!DaemonShape, W!RowShape, wRow.state \in W!Active,
         NEW code \in {"worker_lost", "control_unavailable", "internal"},
         wRow' = W!Interrupted(wRow, code, wNow)
  PROVE  W!RowShape' /\ WorkflowMoves /\ WorkflowOn /\ wRow'.state = "interrupted"
<1>1. wRow.state \notin W!Terminal /\ wRow.state # "absent"
  BY DEF W!Active, W!Terminal
<1>2. /\ wRow' \in W!TaskRecord(Daemons) /\ W!WellFormed(wRow') /\ wRow'.rev = wRow.rev + 1
      /\ wRow'.state = "interrupted" /\ W!LegalStep(wRow, wRow')
  BY WorkflowNowNat, WorkflowRowKnown, WorkflowInterruptedRow
<1> QED BY <1>1, <1>2, WorkflowRowWritten DEF WorkflowOn

\* Settling what may be settled.
LEMMA WorkflowWriteSettled ==
  ASSUME W!Bounds, W!DaemonShape, W!RowShape, NEW o \in W!Settlement, W!CanSettle(wRow, o),
         wRow' = W!Settled(wRow, o, wNow)
  PROVE  W!RowShape' /\ WorkflowMoves /\ WorkflowOn /\ wRow'.state = o
<1>1. wRow.state \notin W!Terminal /\ wRow.state # "absent" /\ o \notin {"absent", "queued"}
  BY DEF W!CanSettle, W!Terminal, W!Settlement
<1>2. /\ wRow' \in W!TaskRecord(Daemons) /\ W!WellFormed(wRow') /\ wRow'.rev = wRow.rev + 1
      /\ wRow'.state = o /\ W!LegalStep(wRow, wRow')
  BY WorkflowNowNat, WorkflowRowKnown, WorkflowSettledRow
<1> QED BY <1>1, <1>2, WorkflowRowWritten DEF WorkflowOn

\* Writing what a completion says to a row that was attached.
LEMMA WorkflowWriteFinal ==
  ASSUME W!Bounds, W!DaemonShape, W!RowShape, NEW o \in W!Terminal, wRow.state \in W!Active,
         o \in W!Settlement => wRow.state # "queued", wRow' = W!Final(wRow, o)
  PROVE  W!RowShape' /\ WorkflowMoves /\ WorkflowOn /\ wRow'.state = o
<1>1. CASE o = "interrupted"
  <2>1. wRow' = W!Interrupted(wRow, "worker_lost", wNow)
    BY <1>1 DEF W!Final
  <2> QED BY <1>1, <2>1, WorkflowWriteInterrupted
<1>2. CASE o # "interrupted"
  <2>1. wRow' = W!Settled(wRow, o, wNow)
    BY <1>2 DEF W!Final
  <2>2. o \in W!Settlement /\ W!CanSettle(wRow, o)
    BY <1>2 DEF W!Settlement, W!CanSettle, W!Active
  <2> QED BY <2>1, <2>2, WorkflowWriteSettled
<1> QED BY <1>1, <1>2

\* Asking for the end of what is queued or runs.
LEMMA WorkflowWriteCancelled ==
  ASSUME W!Bounds, W!DaemonShape, W!RowShape, W!CanCancel(wRow), wRow' = W!CancelRequested(wRow, wNow)
  PROVE  /\ W!RowShape' /\ WorkflowMoves /\ WorkflowOn /\ wRow'.controller = wRow.controller
         /\ wRow'.state = (IF wRow.state = "queued" THEN "cancelled" ELSE "cancelling")
<1>1. wRow.state \notin W!Terminal /\ wRow.state # "absent"
  BY DEF W!CanCancel, W!Terminal
<1>2. /\ wRow' \in W!TaskRecord(Daemons) /\ W!WellFormed(wRow') /\ wRow'.controller = wRow.controller
      /\ wRow'.state = (IF wRow.state = "queued" THEN "cancelled" ELSE "cancelling")
      /\ W!LegalStep(wRow, wRow') /\ wRow'.rev = wRow.rev + 1
  BY WorkflowNowNat, WorkflowRowKnown, WorkflowCancelledRow
<1> QED BY <1>1, <1>2, WorkflowRowWritten DEF WorkflowOn

\* Renewing the lease.
LEMMA WorkflowWriteRenewed ==
  ASSUME W!Bounds, W!DaemonShape, W!RowShape, wRow.state \in {"running", "cancelling"},
         wRow' = W!Renewed(wRow, wNow + LeaseTicks, wNow)
  PROVE  /\ W!RowShape' /\ WorkflowMoves /\ WorkflowOn /\ wRow'.controller = wRow.controller
         /\ wRow'.state = wRow.state
<1>1. wRow.state \notin W!Terminal /\ wRow.state # "absent"
  BY DEF W!Terminal
<1>2. /\ wRow' \in W!TaskRecord(Daemons) /\ W!WellFormed(wRow') /\ wRow'.controller = wRow.controller
      /\ wRow'.state = wRow.state /\ W!LegalStep(wRow, wRow') /\ wRow'.rev = wRow.rev + 1
  BY WorkflowNowNat, WorkflowRowKnown, WorkflowRenewedRow
<1> QED BY <1>1, <1>2, WorkflowRowWritten DEF WorkflowOn

\* The daemon's next phase.
LEMMA WorkflowServerMoves ==
  ASSUME W!DaemonShape, NEW to \in W!Phase, W!Server(to)
  PROVE  wServer' \in [id : 1 .. MaxDaemons, at : W!Phase] /\ wServer'.id = wServer.id /\ wServer'.at = to
  BY DEF W!DaemonShape, W!Server

\* Calls left behind still fit after a step that writes on.
LEMMA WorkflowLateLeft ==
  ASSUME W!LateSound, W!RowShape, wLate' \subseteq wLate, wLate' = {} \/ WorkflowOn,
         wLate' # {} => wInit' \in {"none", "left"} /\ wServer'.at \notin {"up", "down", "recover"},
         wWorker' = "run" /\ wServer'.at \in {"drain", "live"} =>
           wLate' = {} \/ (wWorker = "run" /\ wServer.at \in {"drain", "live"})
  PROVE  W!LateSound'
<1>1. wRow.rev \in Nat
  BY WorkflowRowKnown
<1>2. wLate' \subseteq [what : W!Terminal \cup {"create", "attach", "cancel"}, rev : Nat]
  BY DEF W!LateSound
<1>3. wWorker' = "run" /\ wServer'.at \in {"drain", "live"} => \A op \in wLate' : op.what = "cancel"
  BY DEF W!LateSound
<1>4. ASSUME NEW op \in wLate'
      PROVE  /\ op.rev <= wRow'.rev
             /\ op.what = "create" <=> wRow'.state = "absent"
             /\ op.what \in {"create", "attach"} => op.rev = 0
             /\ op.what = "cancel" /\ op.rev = wRow'.rev => wRow'.state \in {"queued", "running"}
             /\ op.what \in W!Settlement => wRow'.state # "queued"
  <2>1. /\ op \in wLate /\ op.rev \in Nat /\ op.rev <= wRow.rev
        /\ op.what = "create" <=> wRow.state = "absent"
        /\ op.what \in {"create", "attach"} => op.rev = 0
        /\ op.what = "cancel" /\ op.rev = wRow.rev => wRow.state \in {"queued", "running"}
        /\ op.what \in W!Settlement => wRow.state # "queued"
    BY <1>4 DEF W!LateSound
  <2>2. WorkflowOn
    BY <1>4
  <2>3. CASE wRow' = wRow
    BY <2>1, <2>3
  <2>4. CASE /\ wRow.state # "absent" /\ wRow'.rev = wRow.rev + 1
             /\ wRow'.state \notin {"absent", "queued"}
    BY <1>1, <2>1, <2>4
  <2> QED BY <2>2, <2>3, <2>4 DEF WorkflowOn
<1> QED BY <1>2, <1>3, <1>4 DEF W!LateSound

\* A call is left behind for the row as it is.
LEMMA WorkflowLateAdded ==
  ASSUME W!LateSound, W!RowShape, wRow' = wRow,
         NEW what \in W!Terminal \cup {"create", "attach", "cancel"}, NEW rev \in Nat,
         wLate' \in {wLate, wLate \cup {[what |-> what, rev |-> rev]}},
         wInit' \in {"none", "left"}, wServer'.at \notin {"up", "down", "recover"},
         wWorker' = "run" /\ wServer'.at \in {"drain", "live"} =>
           what = "cancel" /\ wWorker = "run" /\ wServer.at \in {"drain", "live"},
         rev <= wRow.rev, what = "create" <=> wRow.state = "absent",
         what \in {"create", "attach"} => rev = 0,
         what = "cancel" => wRow.state \in {"queued", "running"},
         what \in W!Settlement => wRow.state # "queued"
  PROVE  W!LateSound'
<1> DEFINE new == [what |-> what, rev |-> rev]
<1>1. /\ new \in [what : W!Terminal \cup {"create", "attach", "cancel"}, rev : Nat]
      /\ new.what = what /\ new.rev = rev
  OBVIOUS
<1> HIDE DEF new
<1>2. \A op \in wLate' : op \in wLate \/ op = new
  BY DEF new
<1>3. wLate' \subseteq [what : W!Terminal \cup {"create", "attach", "cancel"}, rev : Nat]
  BY <1>1, <1>2 DEF W!LateSound
<1>4. wWorker' = "run" /\ wServer'.at \in {"drain", "live"} => \A op \in wLate' : op.what = "cancel"
  BY <1>1, <1>2 DEF W!LateSound
<1>5. ASSUME NEW op \in wLate'
      PROVE  /\ op.rev <= wRow'.rev
             /\ op.what = "create" <=> wRow'.state = "absent"
             /\ op.what \in {"create", "attach"} => op.rev = 0
             /\ op.what = "cancel" /\ op.rev = wRow'.rev => wRow'.state \in {"queued", "running"}
             /\ op.what \in W!Settlement => wRow'.state # "queued"
  <2>1. CASE op \in wLate
    BY <2>1 DEF W!LateSound
  <2>2. CASE op = new
    BY <1>1, <2>2
  <2> QED BY <1>2, <1>5, <2>1, <2>2
<1> QED BY <1>3, <1>4, <1>5 DEF W!LateSound

\* A submission only reserves the row.
LEMMA WorkflowSubmitKeeps ==
  ASSUME W!Bounds, W!WorkflowInv, W!Submit
  PROVE  W!WorkflowInv' /\ WorkflowMoves
<1>0. W!RowShape /\ W!DaemonShape /\ W!Published /\ W!Drained /\ W!LateSound /\ W!WorkIsWanted /\ W!WorkIsWatched
  BY DEF W!WorkflowInv
<1>1. wRow' = wRow
  BY DEF W!Submit, W!runtime, W!Accepting
<1>2. W!RowShape' /\ WorkflowMoves /\ WorkflowOn
  BY <1>0, <1>1, WorkflowRowLeft
<1>13. UNCHANGED <<wInitToken, wSignalled, wLive, wWorker, wWatcher, wCompletion, wClient>>
  BY DEF W!Submit, W!runtime
<1>5. W!DaemonShape'
  BY <1>0, <1>13 DEF W!Submit, W!DaemonShape, W!Terminal, W!Accepting
<1>6. W!Published'
  BY <1>0, <1>1, <1>13 DEF W!Submit, W!DaemonShape, W!Published, W!Drained, W!Active, W!Terminal, W!Accepting
<1>7. W!Drained'
  BY <1>0, <1>13 DEF W!Submit, W!DaemonShape, W!Published, W!Drained, W!WorkIsWatched, W!Accepting
<1>8. W!LateSound'
  <2>1. wLate' \subseteq wLate /\ (wLate' = {} \/ WorkflowOn)
    BY <1>0, <1>2 DEF W!Submit, W!LateSound, W!Accepting
  <2>2. wLate' # {} => wInit' \in {"none", "left"} /\ wServer'.at \notin {"up", "down", "recover"}
    BY <1>0, <1>13 DEF W!Submit, W!LateSound, W!Drained, W!Accepting
  <2>3. wWorker' = "run" /\ wServer'.at \in {"drain", "live"} =>
          wLate' = {} \/ (wWorker = "run" /\ wServer.at \in {"drain", "live"})
    BY <1>0, <1>13 DEF W!Submit, W!LateSound, W!Drained, W!Published, W!WorkIsWatched, W!DaemonShape, W!Phase, W!Accepting
  <2> QED BY <1>0, <2>1, <2>2, <2>3, WorkflowLateLeft
<1>9. W!WorkIsWanted'
  BY <1>0, <1>1, <1>13 DEF W!Submit, W!DaemonShape, W!Phase, W!Published, W!Drained, W!WorkIsWanted, W!WorkIsWatched, W!Current, W!Mine, W!Active, W!Terminal, W!Accepting
<1>10. W!WorkIsWatched'
  BY <1>0, <1>1, <1>13 DEF W!Submit, W!DaemonShape, W!Published, W!Drained, W!WorkIsWatched, W!Accepting
<1> QED BY <1>2, <1>5, <1>6, <1>7, <1>8, <1>9, <1>10 DEF W!WorkflowInv

\* The row is created once.
LEMMA WorkflowCreateTaskKeeps ==
  ASSUME W!Bounds, W!WorkflowInv, W!CreateTask
  PROVE  W!WorkflowInv' /\ WorkflowMoves
<1>0. W!RowShape /\ W!DaemonShape /\ W!Published /\ W!Drained /\ W!LateSound /\ W!WorkIsWanted /\ W!WorkIsWatched
  BY DEF W!WorkflowInv
<1>1. /\ W!RowShape' /\ WorkflowMoves
      /\ \/ wRow' = wRow /\ ~ (W!Accepting)
         \/ /\ W!Accepting
            /\ wRow.state = "absent" /\ wRow'.state = "queued"
  <2>1. CASE W!Accepting
    <3>1. wRow' = W!Created(wNow)
      BY <2>1 DEF W!CreateTask, W!Write, W!runtime, W!Accepting
    <3>2. wRow.state = "absent"
      BY <1>0, <2>1 DEF W!CreateTask, W!Published, W!DaemonShape, W!Active, W!Accepting
    <3> QED BY <1>0, <2>1, <3>1, <3>2, WorkflowWriteCreated
  <2>2. CASE ~ (W!Accepting)
    <3>1. wRow' = wRow
      BY <2>2 DEF W!CreateTask, W!runtime, W!Accepting, W!Write
    <3> QED BY <1>0, <2>2, <3>1, WorkflowRowLeft
  <2> QED BY <2>1, <2>2
<1>2. W!RowShape' /\ WorkflowMoves
  BY <1>1
<1>13. UNCHANGED <<wInitToken, wSignalled, wLive, wWorker, wWatcher, wCompletion, wClient>>
  BY DEF W!CreateTask, W!runtime
<1>5. W!DaemonShape'
  BY <1>0, <1>13 DEF W!CreateTask, W!DaemonShape, W!Terminal, W!Accepting
<1>6. W!Published'
  BY <1>0, <1>1, <1>13 DEF W!CreateTask, W!DaemonShape, W!Published, W!Drained, W!Active, W!Terminal, W!Accepting
<1>7. W!Drained'
  BY <1>0, <1>13 DEF W!CreateTask, W!DaemonShape, W!Published, W!Drained, W!WorkIsWatched, W!Accepting
<1>8. W!LateSound'
  <2>1. wLate' \subseteq wLate /\ (wLate' = {} \/ WorkflowOn)
    BY <1>0, <1>2 DEF W!CreateTask, W!LateSound, W!Accepting
  <2>2. wLate' # {} => wInit' \in {"none", "left"} /\ wServer'.at \notin {"up", "down", "recover"}
    BY <1>0, <1>13 DEF W!CreateTask, W!LateSound, W!Drained, W!Accepting
  <2>3. wWorker' = "run" /\ wServer'.at \in {"drain", "live"} =>
          wLate' = {} \/ (wWorker = "run" /\ wServer.at \in {"drain", "live"})
    BY <1>0, <1>13 DEF W!CreateTask, W!LateSound, W!Drained, W!Published, W!WorkIsWatched, W!DaemonShape, W!Phase, W!Accepting
  <2> QED BY <1>0, <2>1, <2>2, <2>3, WorkflowLateLeft
<1>9. W!WorkIsWanted'
  BY <1>0, <1>1, <1>13 DEF W!CreateTask, W!DaemonShape, W!Phase, W!Published, W!Drained, W!WorkIsWanted, W!WorkIsWatched, W!Current, W!Mine, W!Active, W!Terminal, W!Accepting
<1>10. W!WorkIsWatched'
  BY <1>0, <1>1, <1>13 DEF W!CreateTask, W!DaemonShape, W!Published, W!Drained, W!WorkIsWatched, W!Accepting
<1> QED BY <1>2, <1>5, <1>6, <1>7, <1>8, <1>9, <1>10 DEF W!WorkflowInv

\* The token is registered before the row can be cancelled.
LEMMA WorkflowRegisterTokenKeeps ==
  ASSUME W!Bounds, W!WorkflowInv, W!RegisterToken
  PROVE  W!WorkflowInv' /\ WorkflowMoves
<1>0. W!RowShape /\ W!DaemonShape /\ W!Published /\ W!Drained /\ W!LateSound /\ W!WorkIsWanted /\ W!WorkIsWatched
  BY DEF W!WorkflowInv
<1>1. wRow' = wRow
  BY DEF W!RegisterToken, W!Accepting
<1>2. W!RowShape' /\ WorkflowMoves /\ WorkflowOn
  BY <1>0, <1>1, WorkflowRowLeft
<1>5. W!DaemonShape'
  BY <1>0 DEF W!RegisterToken, W!DaemonShape, W!Terminal, W!Accepting
<1>6. W!Published'
  BY <1>0, <1>1 DEF W!RegisterToken, W!DaemonShape, W!Published, W!Drained, W!Active, W!Terminal, W!Accepting
<1>7. W!Drained'
  BY <1>0 DEF W!RegisterToken, W!DaemonShape, W!Published, W!Drained, W!WorkIsWatched, W!Accepting
<1>8. W!LateSound'
  <2>1. wLate' \subseteq wLate /\ (wLate' = {} \/ WorkflowOn)
    BY <1>0, <1>2 DEF W!RegisterToken, W!LateSound, W!Accepting
  <2>2. wLate' # {} => wInit' \in {"none", "left"} /\ wServer'.at \notin {"up", "down", "recover"}
    BY <1>0 DEF W!RegisterToken, W!LateSound, W!Drained, W!Accepting
  <2>3. wWorker' = "run" /\ wServer'.at \in {"drain", "live"} =>
          wLate' = {} \/ (wWorker = "run" /\ wServer.at \in {"drain", "live"})
    BY <1>0 DEF W!RegisterToken, W!LateSound, W!Drained, W!Published, W!WorkIsWatched, W!DaemonShape, W!Phase, W!Accepting
  <2> QED BY <1>0, <2>1, <2>2, <2>3, WorkflowLateLeft
<1>9. W!WorkIsWanted'
  BY <1>0, <1>1 DEF W!RegisterToken, W!DaemonShape, W!Phase, W!Published, W!Drained, W!WorkIsWanted, W!WorkIsWatched, W!Current, W!Mine, W!Active, W!Terminal, W!Accepting
<1>10. W!WorkIsWatched'
  BY <1>0, <1>1 DEF W!RegisterToken, W!DaemonShape, W!Published, W!Drained, W!WorkIsWatched, W!Accepting
<1> QED BY <1>2, <1>5, <1>6, <1>7, <1>8, <1>9, <1>10 DEF W!WorkflowInv

\* What was created too late is interrupted.
LEMMA WorkflowAbandonKeeps ==
  ASSUME W!Bounds, W!WorkflowInv, W!Abandon
  PROVE  W!WorkflowInv' /\ WorkflowMoves
<1>0. W!RowShape /\ W!DaemonShape /\ W!Published /\ W!Drained /\ W!LateSound /\ W!WorkIsWanted /\ W!WorkIsWatched
  BY DEF W!WorkflowInv
<1>1. /\ W!RowShape' /\ WorkflowMoves /\ WorkflowOn
      /\ \/ wRow' = wRow /\ ~ (wRow.state \in W!Active)
         \/ /\ wRow.state \in W!Active
            /\ wRow.state \in W!Active /\ wRow'.state = "interrupted"
  <2>1. CASE wRow.state \in W!Active
    <3>1. wRow' = W!Interrupted(wRow, "worker_lost", wNow)
      BY <2>1 DEF W!Abandon, W!Write, W!CleanUp, W!LeaveInit
    <3>2. wRow.state \in W!Active
      BY <1>0, <2>1 DEF W!Abandon, W!Published, W!DaemonShape, W!Active, W!CleanUp, W!LeaveInit
    <3> QED BY <1>0, <2>1, <3>1, <3>2, WorkflowWriteInterrupted
  <2>2. CASE ~ (wRow.state \in W!Active)
    <3>1. wRow' = wRow
      BY <2>2 DEF W!Abandon, W!CleanUp, W!LeaveInit, W!Write
    <3> QED BY <1>0, <2>2, <3>1, WorkflowRowLeft
  <2> QED BY <2>1, <2>2
<1>2. W!RowShape' /\ WorkflowMoves /\ WorkflowOn
  BY <1>1
<1>5. W!DaemonShape'
  BY <1>0 DEF W!Abandon, W!DaemonShape, W!Terminal, W!CleanUp, W!LeaveInit
<1>6. W!Published'
  BY <1>0, <1>1 DEF W!Abandon, W!DaemonShape, W!Published, W!Drained, W!Active, W!Terminal, W!CleanUp, W!LeaveInit
<1>7. W!Drained'
  BY <1>0 DEF W!Abandon, W!DaemonShape, W!Published, W!Drained, W!WorkIsWatched, W!CleanUp, W!LeaveInit
<1>8. W!LateSound'
  <2>1. wLate' \subseteq wLate /\ (wLate' = {} \/ WorkflowOn)
    BY <1>0, <1>2 DEF W!Abandon, W!LateSound, W!CleanUp, W!LeaveInit
  <2>2. wLate' # {} => wInit' \in {"none", "left"} /\ wServer'.at \notin {"up", "down", "recover"}
    BY <1>0 DEF W!Abandon, W!LateSound, W!Drained, W!CleanUp, W!LeaveInit
  <2>3. wWorker' = "run" /\ wServer'.at \in {"drain", "live"} =>
          wLate' = {} \/ (wWorker = "run" /\ wServer.at \in {"drain", "live"})
    BY <1>0 DEF W!Abandon, W!LateSound, W!Drained, W!Published, W!WorkIsWatched, W!DaemonShape, W!Phase, W!CleanUp, W!LeaveInit
  <2> QED BY <1>0, <2>1, <2>2, <2>3, WorkflowLateLeft
<1>9. W!WorkIsWanted'
  BY <1>0, <1>1 DEF W!Abandon, W!DaemonShape, W!Phase, W!Published, W!Drained, W!WorkIsWanted, W!WorkIsWatched, W!Current, W!Mine, W!Active, W!Terminal, W!CleanUp, W!LeaveInit
<1>10. W!WorkIsWatched'
  BY <1>0, <1>1 DEF W!Abandon, W!DaemonShape, W!Published, W!Drained, W!WorkIsWatched, W!CleanUp, W!LeaveInit
<1> QED BY <1>2, <1>5, <1>6, <1>7, <1>8, <1>9, <1>10 DEF W!WorkflowInv

\* A failed initialization ends its own row.
LEMMA WorkflowCleanFailedKeeps ==
  ASSUME W!Bounds, W!WorkflowInv, W!CleanFailed
  PROVE  W!WorkflowInv' /\ WorkflowMoves
<1>0. W!RowShape /\ W!DaemonShape /\ W!Published /\ W!Drained /\ W!LateSound /\ W!WorkIsWanted /\ W!WorkIsWatched
  BY DEF W!WorkflowInv
<1>1. /\ W!RowShape' /\ WorkflowMoves /\ WorkflowOn
      /\ \/ wRow' = wRow /\ ~ (wRow.state = "queued") /\ ~ (wRow.state # "queued" /\ W!Current)
         \/ /\ wRow.state = "queued"
            /\ wRow.state \in W!Active /\ wRow'.state = "failed"
         \/ /\ wRow.state # "queued" /\ W!Current
            /\ wRow.state \in W!Active /\ wRow'.state = "interrupted"
  <2>1. CASE wRow.state = "queued"
    <3>1. wRow' = W!Settled(wRow, "failed", wNow)
      BY <2>1 DEF W!CleanFailed, W!Write, W!CleanUp, W!LeaveInit
    <3>2. wRow.state \in W!Active /\ "failed" \in W!Settlement /\ W!CanSettle(wRow, "failed")
      BY <1>0, <2>1 DEF W!CleanFailed, W!Published, W!DaemonShape, W!Active, W!CleanUp, W!LeaveInit, W!Settlement, W!Terminal, W!CanSettle
    <3> QED BY <1>0, <2>1, <3>1, <3>2, WorkflowWriteSettled
  <2>2. CASE wRow.state # "queued" /\ W!Current
    <3>1. wRow' = W!Interrupted(wRow, "internal", wNow)
      BY <2>2 DEF W!CleanFailed, W!Write, W!CleanUp, W!LeaveInit
    <3>2. wRow.state \in W!Active
      BY <1>0, <2>2 DEF W!CleanFailed, W!Published, W!DaemonShape, W!Active, W!CleanUp, W!LeaveInit, W!Current
    <3> QED BY <1>0, <2>2, <3>1, <3>2, WorkflowWriteInterrupted
  <2>3. CASE ~ (wRow.state = "queued") /\ ~ (wRow.state # "queued" /\ W!Current)
    <3>1. wRow' = wRow
      BY <2>3 DEF W!CleanFailed, W!CleanUp, W!LeaveInit, W!Write
    <3> QED BY <1>0, <2>3, <3>1, WorkflowRowLeft
  <2> QED BY <2>1, <2>2, <2>3
<1>2. W!RowShape' /\ WorkflowMoves /\ WorkflowOn
  BY <1>1
<1>5. W!DaemonShape'
  BY <1>0 DEF W!CleanFailed, W!DaemonShape, W!Terminal, W!CleanUp, W!LeaveInit
<1>6. W!Published'
  BY <1>0, <1>1 DEF W!CleanFailed, W!DaemonShape, W!Published, W!Drained, W!Active, W!Terminal, W!CleanUp, W!LeaveInit
<1>7. W!Drained'
  BY <1>0 DEF W!CleanFailed, W!DaemonShape, W!Published, W!Drained, W!WorkIsWatched, W!CleanUp, W!LeaveInit
<1>8. W!LateSound'
  <2>1. wLate' \subseteq wLate /\ (wLate' = {} \/ WorkflowOn)
    BY <1>0, <1>2 DEF W!CleanFailed, W!LateSound, W!CleanUp, W!LeaveInit
  <2>2. wLate' # {} => wInit' \in {"none", "left"} /\ wServer'.at \notin {"up", "down", "recover"}
    BY <1>0 DEF W!CleanFailed, W!LateSound, W!Drained, W!CleanUp, W!LeaveInit
  <2>3. wWorker' = "run" /\ wServer'.at \in {"drain", "live"} =>
          wLate' = {} \/ (wWorker = "run" /\ wServer.at \in {"drain", "live"})
    BY <1>0 DEF W!CleanFailed, W!LateSound, W!Drained, W!Published, W!WorkIsWatched, W!DaemonShape, W!Phase, W!CleanUp, W!LeaveInit
  <2> QED BY <1>0, <2>1, <2>2, <2>3, WorkflowLateLeft
<1>9. W!WorkIsWanted'
  BY <1>0, <1>1 DEF W!CleanFailed, W!DaemonShape, W!Phase, W!Published, W!Drained, W!WorkIsWanted, W!WorkIsWatched, W!Current, W!Mine, W!Active, W!Terminal, W!CleanUp, W!LeaveInit
<1>10. W!WorkIsWatched'
  BY <1>0, <1>1 DEF W!CleanFailed, W!DaemonShape, W!Published, W!Drained, W!WorkIsWatched, W!CleanUp, W!LeaveInit
<1> QED BY <1>2, <1>5, <1>6, <1>7, <1>8, <1>9, <1>10 DEF W!WorkflowInv

\* A cleanup may be left to the next daemon.
LEMMA WorkflowCleanUpLostKeeps ==
  ASSUME W!Bounds, W!WorkflowInv, W!CleanUpLost
  PROVE  W!WorkflowInv' /\ WorkflowMoves
<1>0. W!RowShape /\ W!DaemonShape /\ W!Published /\ W!Drained /\ W!LateSound /\ W!WorkIsWanted /\ W!WorkIsWatched
  BY DEF W!WorkflowInv
<1>1. wRow' = wRow
  BY DEF W!CleanUpLost, W!LeaveInit, W!Fault
<1>2. W!RowShape' /\ WorkflowMoves /\ WorkflowOn
  BY <1>0, <1>1, WorkflowRowLeft
<1>3. wFaults' \in 0 .. MaxFaults
  BY <1>0 DEF W!CleanUpLost, W!Fault, W!DaemonShape, W!Bounds
<1>5. W!DaemonShape'
  BY <1>0, <1>3 DEF W!CleanUpLost, W!DaemonShape, W!Terminal, W!LeaveInit
<1>6. W!Published'
  BY <1>0, <1>1, <1>3 DEF W!CleanUpLost, W!DaemonShape, W!Published, W!Drained, W!Active, W!Terminal, W!LeaveInit
<1>7. W!Drained'
  BY <1>0, <1>3 DEF W!CleanUpLost, W!DaemonShape, W!Published, W!Drained, W!WorkIsWatched, W!LeaveInit
<1>8. W!LateSound'
  <2>1. wLate' \subseteq wLate /\ (wLate' = {} \/ WorkflowOn)
    BY <1>0, <1>2 DEF W!CleanUpLost, W!LateSound, W!LeaveInit
  <2>2. wLate' # {} => wInit' \in {"none", "left"} /\ wServer'.at \notin {"up", "down", "recover"}
    BY <1>0, <1>3 DEF W!CleanUpLost, W!LateSound, W!Drained, W!LeaveInit
  <2>3. wWorker' = "run" /\ wServer'.at \in {"drain", "live"} =>
          wLate' = {} \/ (wWorker = "run" /\ wServer.at \in {"drain", "live"})
    BY <1>0, <1>3 DEF W!CleanUpLost, W!LateSound, W!Drained, W!Published, W!WorkIsWatched, W!DaemonShape, W!Phase, W!LeaveInit
  <2> QED BY <1>0, <2>1, <2>2, <2>3, WorkflowLateLeft
<1>9. W!WorkIsWanted'
  BY <1>0, <1>1, <1>3 DEF W!CleanUpLost, W!DaemonShape, W!Phase, W!Published, W!Drained, W!WorkIsWanted, W!WorkIsWatched, W!Current, W!Mine, W!Active, W!Terminal, W!LeaveInit
<1>10. W!WorkIsWatched'
  BY <1>0, <1>1, <1>3 DEF W!CleanUpLost, W!DaemonShape, W!Published, W!Drained, W!WorkIsWatched, W!LeaveInit
<1> QED BY <1>2, <1>5, <1>6, <1>7, <1>8, <1>9, <1>10 DEF W!WorkflowInv

\* The row is attached under a lease.
LEMMA WorkflowAttachControllerKeeps ==
  ASSUME W!Bounds, W!WorkflowInv, W!AttachController
  PROVE  W!WorkflowInv' /\ WorkflowMoves
<1>0. W!RowShape /\ W!DaemonShape /\ W!Published /\ W!Drained /\ W!LateSound /\ W!WorkIsWanted /\ W!WorkIsWatched
  BY DEF W!WorkflowInv
<1>1. /\ W!RowShape' /\ WorkflowMoves /\ WorkflowOn
      /\ \/ wRow' = wRow /\ ~ (W!CanAttach(wRow, wNow + LeaseTicks, wNow))
         \/ /\ W!CanAttach(wRow, wNow + LeaseTicks, wNow)
            /\ wRow.state = "queued" /\ wRow'.state = "running" /\ wRow'.controller = wServer.id
  <2>1. CASE W!CanAttach(wRow, wNow + LeaseTicks, wNow)
    <3>1. wRow' = W!AttachedNow
      BY <2>1 DEF W!AttachController, W!Write, W!CanAttach, W!LeaveInit
    <3>2. wRow.state = "queued"
      BY <1>0, <2>1 DEF W!AttachController, W!Published, W!DaemonShape, W!Active, W!CanAttach, W!LeaveInit
    <3> QED BY <1>0, <2>1, <3>1, <3>2, WorkflowWriteAttached
  <2>2. CASE ~ (W!CanAttach(wRow, wNow + LeaseTicks, wNow))
    <3>1. wRow' = wRow
      BY <2>2 DEF W!AttachController, W!CanAttach, W!LeaveInit, W!Write
    <3> QED BY <1>0, <2>2, <3>1, WorkflowRowLeft
  <2> QED BY <2>1, <2>2
<1>2. W!RowShape' /\ WorkflowMoves /\ WorkflowOn
  BY <1>1
<1>5. W!DaemonShape'
  <2>1. wInitToken' \in BOOLEAN /\ wSignalled' \in BOOLEAN /\ wLive' \in BOOLEAN /\ wClient' \in BOOLEAN
    BY <1>0 DEF W!AttachController, W!DaemonShape, W!LeaveInit
  <2>2. /\ wServer' \in [id : 1 .. MaxDaemons, at : W!Phase]
        /\ wInit' \in {"none", "create", "created", "attach", "prepare", "spawn", "reread", "abandon", "failed", "left"}
        /\ wJournal' \in {"none", "prepared", "ended"}
        /\ wWorker' \in {"none", "gate", "run", "returned", "aborted", "dropped"}
        /\ wWatcher' \in {"none", "watch", "lost", "settle"}
        /\ wCompletion' \in W!Terminal \cup {"none"}
        /\ wNow' \in 0 .. MaxTime /\ wFaults' \in 0 .. MaxFaults
    BY <1>0 DEF W!AttachController, W!DaemonShape, W!LeaveInit
  <2> QED BY <2>1, <2>2 DEF W!DaemonShape
<1>6. W!Published'
  BY <1>0, <1>1 DEF W!AttachController, W!DaemonShape, W!Published, W!Drained, W!Active, W!Terminal, W!LeaveInit
<1>7. W!Drained'
  BY <1>0 DEF W!AttachController, W!DaemonShape, W!Published, W!Drained, W!WorkIsWatched, W!LeaveInit
<1>8. W!LateSound'
  <2>1. wLate' \subseteq wLate /\ (wLate' = {} \/ WorkflowOn)
    BY <1>0, <1>2 DEF W!AttachController, W!LateSound, W!LeaveInit
  <2>2. wLate' # {} => wInit' \in {"none", "left"} /\ wServer'.at \notin {"up", "down", "recover"}
    BY <1>0 DEF W!AttachController, W!LateSound, W!Drained, W!LeaveInit
  <2>3. wWorker' = "run" /\ wServer'.at \in {"drain", "live"} =>
          wLate' = {} \/ (wWorker = "run" /\ wServer.at \in {"drain", "live"})
    BY <1>0 DEF W!AttachController, W!LateSound, W!Drained, W!Published, W!WorkIsWatched, W!DaemonShape, W!Phase, W!LeaveInit
  <2> QED BY <1>0, <2>1, <2>2, <2>3, WorkflowLateLeft
<1>9. W!WorkIsWanted'
  BY <1>0, <1>1 DEF W!AttachController, W!DaemonShape, W!Phase, W!Published, W!Drained, W!WorkIsWanted, W!WorkIsWatched, W!Current, W!Mine, W!Active, W!Terminal, W!LeaveInit
<1>10. W!WorkIsWatched'
  BY <1>0, <1>1 DEF W!AttachController, W!DaemonShape, W!Published, W!Drained, W!WorkIsWatched, W!LeaveInit
<1> QED BY <1>2, <1>5, <1>6, <1>7, <1>8, <1>9, <1>10 DEF W!WorkflowInv

\* A failing call may have committed.
LEMMA WorkflowAttachFailsKeeps ==
  ASSUME W!Bounds, W!WorkflowInv, W!AttachFails
  PROVE  W!WorkflowInv' /\ WorkflowMoves
<1>0. W!RowShape /\ W!DaemonShape /\ W!Published /\ W!Drained /\ W!LateSound /\ W!WorkIsWanted /\ W!WorkIsWatched
  BY DEF W!WorkflowInv
<1>1. /\ W!RowShape' /\ WorkflowMoves /\ WorkflowOn
      /\ \/ wRow' = wRow
         \/ /\ wRow' # wRow
            /\ wRow.state = "queued" /\ wRow'.state = "running" /\ wRow'.controller = wServer.id
  <2>1. CASE wRow' # wRow
    <3>1. wRow' = W!AttachedNow
      BY <2>1 DEF W!AttachFails, W!Write, W!Fault, W!runtime
    <3>2. wRow.state = "queued"
      BY <1>0, <2>1 DEF W!AttachFails, W!Published, W!DaemonShape, W!Active, W!Fault
    <3> QED BY <1>0, <2>1, <3>1, <3>2, WorkflowWriteAttached
  <2>2. CASE ~ (wRow' # wRow)
    <3>1. wRow' = wRow
      BY <2>2 DEF W!AttachFails, W!Fault, W!runtime, W!Write
    <3> QED BY <1>0, <2>2, <3>1, WorkflowRowLeft
  <2> QED BY <2>1, <2>2
<1>2. W!RowShape' /\ WorkflowMoves /\ WorkflowOn
  BY <1>1
<1>3. wFaults' \in 0 .. MaxFaults
  BY <1>0 DEF W!AttachFails, W!Fault, W!DaemonShape, W!Bounds
<1>13. UNCHANGED <<wInitToken, wSignalled, wLive, wWorker, wWatcher, wCompletion, wClient>>
  BY DEF W!AttachFails, W!runtime
<1>5. W!DaemonShape'
  BY <1>0, <1>3, <1>13 DEF W!AttachFails, W!DaemonShape, W!Terminal
<1>6. W!Published'
  BY <1>0, <1>1, <1>3, <1>13 DEF W!AttachFails, W!DaemonShape, W!Published, W!Drained, W!Active, W!Terminal
<1>7. W!Drained'
  BY <1>0, <1>3, <1>13 DEF W!AttachFails, W!DaemonShape, W!Published, W!Drained, W!WorkIsWatched
<1>8. W!LateSound'
  <2>1. wLate' \subseteq wLate /\ (wLate' = {} \/ WorkflowOn)
    BY <1>0, <1>2 DEF W!AttachFails, W!LateSound
  <2>2. wLate' # {} => wInit' \in {"none", "left"} /\ wServer'.at \notin {"up", "down", "recover"}
    BY <1>0, <1>3, <1>13 DEF W!AttachFails, W!LateSound, W!Drained
  <2>3. wWorker' = "run" /\ wServer'.at \in {"drain", "live"} =>
          wLate' = {} \/ (wWorker = "run" /\ wServer.at \in {"drain", "live"})
    BY <1>0, <1>3, <1>13 DEF W!AttachFails, W!LateSound, W!Drained, W!Published, W!WorkIsWatched, W!DaemonShape, W!Phase
  <2> QED BY <1>0, <2>1, <2>2, <2>3, WorkflowLateLeft
<1>9. W!WorkIsWanted'
  BY <1>0, <1>1, <1>3, <1>13 DEF W!AttachFails, W!DaemonShape, W!Phase, W!Published, W!Drained, W!WorkIsWanted, W!WorkIsWatched, W!Current, W!Mine, W!Active, W!Terminal
<1>10. W!WorkIsWatched'
  BY <1>0, <1>1, <1>3, <1>13 DEF W!AttachFails, W!DaemonShape, W!Published, W!Drained, W!WorkIsWatched
<1> QED BY <1>2, <1>5, <1>6, <1>7, <1>8, <1>9, <1>10 DEF W!WorkflowInv

\* The journal is there before the worker.
LEMMA WorkflowPrepareJournalKeeps ==
  ASSUME W!Bounds, W!WorkflowInv, W!PrepareJournal
  PROVE  W!WorkflowInv' /\ WorkflowMoves
<1>0. W!RowShape /\ W!DaemonShape /\ W!Published /\ W!Drained /\ W!LateSound /\ W!WorkIsWanted /\ W!WorkIsWatched
  BY DEF W!WorkflowInv
<1>1. wRow' = wRow
  BY DEF W!PrepareJournal, W!runtime
<1>2. W!RowShape' /\ WorkflowMoves /\ WorkflowOn
  BY <1>0, <1>1, WorkflowRowLeft
<1>13. UNCHANGED <<wInitToken, wSignalled, wLive, wWorker, wWatcher, wCompletion, wClient>>
  BY DEF W!PrepareJournal, W!runtime
<1>5. W!DaemonShape'
  BY <1>0, <1>13 DEF W!PrepareJournal, W!DaemonShape, W!Terminal
<1>6. W!Published'
  BY <1>0, <1>1, <1>13 DEF W!PrepareJournal, W!DaemonShape, W!Published, W!Drained, W!Active, W!Terminal
<1>7. W!Drained'
  BY <1>0, <1>13 DEF W!PrepareJournal, W!DaemonShape, W!Published, W!Drained, W!WorkIsWatched
<1>8. W!LateSound'
  <2>1. wLate' \subseteq wLate /\ (wLate' = {} \/ WorkflowOn)
    BY <1>0, <1>2 DEF W!PrepareJournal, W!LateSound
  <2>2. wLate' # {} => wInit' \in {"none", "left"} /\ wServer'.at \notin {"up", "down", "recover"}
    BY <1>0, <1>13 DEF W!PrepareJournal, W!LateSound, W!Drained
  <2>3. wWorker' = "run" /\ wServer'.at \in {"drain", "live"} =>
          wLate' = {} \/ (wWorker = "run" /\ wServer.at \in {"drain", "live"})
    BY <1>0, <1>13 DEF W!PrepareJournal, W!LateSound, W!Drained, W!Published, W!WorkIsWatched, W!DaemonShape, W!Phase
  <2> QED BY <1>0, <2>1, <2>2, <2>3, WorkflowLateLeft
<1>9. W!WorkIsWanted'
  BY <1>0, <1>1, <1>13 DEF W!PrepareJournal, W!DaemonShape, W!Phase, W!Published, W!Drained, W!WorkIsWanted, W!WorkIsWatched, W!Current, W!Mine, W!Active, W!Terminal
<1>10. W!WorkIsWatched'
  BY <1>0, <1>1, <1>13 DEF W!PrepareJournal, W!DaemonShape, W!Published, W!Drained, W!WorkIsWatched
<1> QED BY <1>2, <1>5, <1>6, <1>7, <1>8, <1>9, <1>10 DEF W!WorkflowInv

\* Without a journal the row ends.
LEMMA WorkflowPrepareFailsKeeps ==
  ASSUME W!Bounds, W!WorkflowInv, W!PrepareFails
  PROVE  W!WorkflowInv' /\ WorkflowMoves
<1>0. W!RowShape /\ W!DaemonShape /\ W!Published /\ W!Drained /\ W!LateSound /\ W!WorkIsWanted /\ W!WorkIsWatched
  BY DEF W!WorkflowInv
<1>1. /\ W!RowShape' /\ WorkflowMoves /\ WorkflowOn
      /\ \/ wRow' = wRow /\ ~ (wRow.state \in W!Active)
         \/ /\ wRow.state \in W!Active
            /\ wRow.state \in W!Active /\ wRow'.state = "failed"
  <2>1. CASE wRow.state \in W!Active
    <3>1. wRow' = W!Settled(wRow, "failed", wNow)
      BY <2>1 DEF W!PrepareFails, W!Write, W!Fault, W!LeaveInit
    <3>2. wRow.state \in W!Active /\ "failed" \in W!Settlement /\ W!CanSettle(wRow, "failed")
      BY <1>0, <2>1 DEF W!PrepareFails, W!Published, W!DaemonShape, W!Active, W!Fault, W!LeaveInit, W!Settlement, W!Terminal, W!CanSettle
    <3> QED BY <1>0, <2>1, <3>1, <3>2, WorkflowWriteSettled
  <2>2. CASE ~ (wRow.state \in W!Active)
    <3>1. wRow' = wRow
      BY <2>2 DEF W!PrepareFails, W!Fault, W!LeaveInit, W!Write
    <3> QED BY <1>0, <2>2, <3>1, WorkflowRowLeft
  <2> QED BY <2>1, <2>2
<1>2. W!RowShape' /\ WorkflowMoves /\ WorkflowOn
  BY <1>1
<1>3. wFaults' \in 0 .. MaxFaults
  BY <1>0 DEF W!PrepareFails, W!Fault, W!DaemonShape, W!Bounds
<1>5. W!DaemonShape'
  BY <1>0, <1>3 DEF W!PrepareFails, W!DaemonShape, W!Terminal, W!LeaveInit
<1>6. W!Published'
  BY <1>0, <1>1, <1>3 DEF W!PrepareFails, W!DaemonShape, W!Published, W!Drained, W!Active, W!Terminal, W!LeaveInit
<1>7. W!Drained'
  BY <1>0, <1>3 DEF W!PrepareFails, W!DaemonShape, W!Published, W!Drained, W!WorkIsWatched, W!LeaveInit
<1>8. W!LateSound'
  <2>1. wLate' \subseteq wLate /\ (wLate' = {} \/ WorkflowOn)
    BY <1>0, <1>2 DEF W!PrepareFails, W!LateSound, W!LeaveInit
  <2>2. wLate' # {} => wInit' \in {"none", "left"} /\ wServer'.at \notin {"up", "down", "recover"}
    BY <1>0, <1>3 DEF W!PrepareFails, W!LateSound, W!Drained, W!LeaveInit
  <2>3. wWorker' = "run" /\ wServer'.at \in {"drain", "live"} =>
          wLate' = {} \/ (wWorker = "run" /\ wServer.at \in {"drain", "live"})
    BY <1>0, <1>3 DEF W!PrepareFails, W!LateSound, W!Drained, W!Published, W!WorkIsWatched, W!DaemonShape, W!Phase, W!LeaveInit
  <2> QED BY <1>0, <2>1, <2>2, <2>3, WorkflowLateLeft
<1>9. W!WorkIsWanted'
  BY <1>0, <1>1, <1>3 DEF W!PrepareFails, W!DaemonShape, W!Phase, W!Published, W!Drained, W!WorkIsWanted, W!WorkIsWatched, W!Current, W!Mine, W!Active, W!Terminal, W!LeaveInit
<1>10. W!WorkIsWatched'
  BY <1>0, <1>1, <1>3 DEF W!PrepareFails, W!DaemonShape, W!Published, W!Drained, W!WorkIsWatched, W!LeaveInit
<1> QED BY <1>2, <1>5, <1>6, <1>7, <1>8, <1>9, <1>10 DEF W!WorkflowInv

\* A row without a journal may be left to the next daemon.
LEMMA WorkflowPrepareLostKeeps ==
  ASSUME W!Bounds, W!WorkflowInv, W!PrepareLost
  PROVE  W!WorkflowInv' /\ WorkflowMoves
<1>0. W!RowShape /\ W!DaemonShape /\ W!Published /\ W!Drained /\ W!LateSound /\ W!WorkIsWanted /\ W!WorkIsWatched
  BY DEF W!WorkflowInv
<1>1. wRow' = wRow
  BY DEF W!PrepareLost, W!LeaveInit, W!Fault
<1>2. W!RowShape' /\ WorkflowMoves /\ WorkflowOn
  BY <1>0, <1>1, WorkflowRowLeft
<1>3. wFaults' \in 0 .. MaxFaults
  BY <1>0 DEF W!PrepareLost, W!Fault, W!DaemonShape, W!Bounds
<1>4. /\ wInit' = "left" /\ wInitToken' = FALSE
      /\ UNCHANGED <<wServer, wSignalled, wLive, wWorker, wWatcher, wCompletion, wClient, wJournal, wLate, wNow>>
  BY DEF W!PrepareLost, W!LeaveInit
<1>5. W!DaemonShape'
  <2>1. /\ wInitToken' \in BOOLEAN /\ wSignalled' \in BOOLEAN
        /\ wLive' \in BOOLEAN /\ wClient' \in BOOLEAN
    BY <1>0, <1>4, Zenon DEF W!DaemonShape
  <2>2. /\ wServer' \in [id : 1 .. MaxDaemons, at : W!Phase]
        /\ wInit' \in {"none", "create", "created", "attach", "prepare", "spawn", "reread", "abandon", "failed", "left"}
        /\ wJournal' \in {"none", "prepared", "ended"} /\ wCompletion' \in W!Terminal \cup {"none"}
        /\ wWorker' \in {"none", "gate", "run", "returned", "aborted", "dropped"}
        /\ wWatcher' \in {"none", "watch", "lost", "settle"} /\ wNow' \in 0 .. MaxTime
    BY <1>0, <1>4, Zenon DEF W!DaemonShape
  <2> QED BY <1>3, <2>1, <2>2, Zenon DEF W!DaemonShape
<1>6. W!Published'
  <2>1. wInit = "prepare" /\ wInit' = "left"
        /\ UNCHANGED <<wRow, wWatcher, wWorker, wLive, wCompletion, wJournal>>
    BY DEF W!PrepareLost, W!LeaveInit
  <2>2. wWatcher = "none" /\ wWorker # "gate"
    BY <1>0, <2>1 DEF W!Published
  <2>3. ~ wLive
    BY <1>0, <2>1, <2>2, Zenon DEF W!Published
  <2>4. ~ wLive'
    BY <2>1, <2>3, Zenon
  <2>5. wInit' # "reread" /\ wWatcher' = "none" /\ wWorker' # "gate"
    BY <2>1, <2>2
  <2>6. (wLive <=> (wInit = "reread" \/ wWatcher # "none"))'
    BY <2>4, <2>5, Zenon
  <2>7. (wWatcher = "settle" \/ wWorker = "returned" => wCompletion # "none")'
    BY <1>0, <2>1 DEF W!Published
  <2> QED BY <2>1, <2>5, <2>6, <2>7 DEF W!Published
<1>7. W!Drained'
  BY <1>0, <1>3 DEF W!PrepareLost, W!DaemonShape, W!Published, W!Drained, W!WorkIsWatched, W!LeaveInit
<1>8. W!LateSound'
  <2>1. wLate' \subseteq wLate /\ (wLate' = {} \/ WorkflowOn)
    BY <1>0, <1>2 DEF W!PrepareLost, W!LateSound, W!LeaveInit
  <2>2. wLate' # {} => wInit' \in {"none", "left"} /\ wServer'.at \notin {"up", "down", "recover"}
    BY <1>0, <1>3 DEF W!PrepareLost, W!LateSound, W!Drained, W!LeaveInit
  <2>3. wWorker' = "run" /\ wServer'.at \in {"drain", "live"} =>
          wLate' = {} \/ (wWorker = "run" /\ wServer.at \in {"drain", "live"})
    BY <1>0, <1>3 DEF W!PrepareLost, W!LateSound, W!Drained, W!Published, W!WorkIsWatched, W!DaemonShape, W!Phase, W!LeaveInit
  <2> QED BY <1>0, <2>1, <2>2, <2>3, WorkflowLateLeft
<1>9. W!WorkIsWanted'
  BY <1>0, <1>1, <1>3 DEF W!PrepareLost, W!DaemonShape, W!Phase, W!Published, W!Drained, W!WorkIsWanted, W!WorkIsWatched, W!Current, W!Mine, W!Active, W!Terminal, W!LeaveInit
<1>10. W!WorkIsWatched'
  BY <1>0, <1>1, <1>3 DEF W!PrepareLost, W!DaemonShape, W!Published, W!Drained, W!WorkIsWatched, W!LeaveInit
<1> QED BY <1>2, <1>5, <1>6, <1>7, <1>8, <1>9, <1>10 DEF W!WorkflowInv

\* The worker waits at its gate.
LEMMA WorkflowSpawnWorkerKeeps ==
  ASSUME W!Bounds, W!WorkflowInv, W!SpawnWorker
  PROVE  W!WorkflowInv' /\ WorkflowMoves
<1>0. W!RowShape /\ W!DaemonShape /\ W!Published /\ W!Drained /\ W!LateSound /\ W!WorkIsWanted /\ W!WorkIsWatched
  BY DEF W!WorkflowInv
<1>1. wRow' = wRow
  BY DEF W!SpawnWorker
<1>2. W!RowShape' /\ WorkflowMoves /\ WorkflowOn
  BY <1>0, <1>1, WorkflowRowLeft
<1>5. W!DaemonShape'
  BY <1>0 DEF W!SpawnWorker, W!DaemonShape, W!Terminal
<1>6. W!Published'
  BY <1>0, <1>1 DEF W!SpawnWorker, W!DaemonShape, W!Published, W!Drained, W!Active, W!Terminal
<1>7. W!Drained'
  BY <1>0 DEF W!SpawnWorker, W!DaemonShape, W!Published, W!Drained, W!WorkIsWatched
<1>8. W!LateSound'
  <2>1. wLate' \subseteq wLate /\ (wLate' = {} \/ WorkflowOn)
    BY <1>0, <1>2 DEF W!SpawnWorker, W!LateSound
  <2>2. wLate' # {} => wInit' \in {"none", "left"} /\ wServer'.at \notin {"up", "down", "recover"}
    BY <1>0 DEF W!SpawnWorker, W!LateSound, W!Drained
  <2>3. wWorker' = "run" /\ wServer'.at \in {"drain", "live"} =>
          wLate' = {} \/ (wWorker = "run" /\ wServer.at \in {"drain", "live"})
    BY <1>0 DEF W!SpawnWorker, W!LateSound, W!Drained, W!Published, W!WorkIsWatched, W!DaemonShape, W!Phase
  <2> QED BY <1>0, <2>1, <2>2, <2>3, WorkflowLateLeft
<1>9. W!WorkIsWanted'
  BY <1>0, <1>1 DEF W!SpawnWorker, W!DaemonShape, W!Phase, W!Published, W!Drained, W!WorkIsWanted, W!WorkIsWatched, W!Current, W!Mine, W!Active, W!Terminal
<1>10. W!WorkIsWatched'
  BY <1>0, <1>1 DEF W!SpawnWorker, W!DaemonShape, W!Published, W!Drained, W!WorkIsWatched
<1> QED BY <1>2, <1>5, <1>6, <1>7, <1>8, <1>9, <1>10 DEF W!WorkflowInv

\* The gate opens for a row that is still this daemon's.
LEMMA WorkflowOpenGateKeeps ==
  ASSUME W!Bounds, W!WorkflowInv, W!OpenGate
  PROVE  W!WorkflowInv' /\ WorkflowMoves
<1>0. W!RowShape /\ W!DaemonShape /\ W!Published /\ W!Drained /\ W!LateSound /\ W!WorkIsWanted /\ W!WorkIsWatched
  BY DEF W!WorkflowInv
<1>1. wRow' = wRow
  BY DEF W!OpenGate, W!LeaveInit, W!Current
<1>2. W!RowShape' /\ WorkflowMoves /\ WorkflowOn
  BY <1>0, <1>1, WorkflowRowLeft
<1>5. W!DaemonShape'
  BY <1>0 DEF W!OpenGate, W!DaemonShape, W!Terminal, W!LeaveInit, W!Current
<1>6. W!Published'
  BY <1>0, <1>1 DEF W!OpenGate, W!DaemonShape, W!Published, W!Drained, W!Active, W!Terminal, W!LeaveInit, W!Current
<1>7. W!Drained'
  BY <1>0 DEF W!OpenGate, W!DaemonShape, W!Published, W!Drained, W!WorkIsWatched, W!LeaveInit, W!Current
<1>8. W!LateSound'
  <2>1. wLate' \subseteq wLate /\ (wLate' = {} \/ WorkflowOn)
    BY <1>0, <1>2 DEF W!OpenGate, W!LateSound, W!LeaveInit, W!Current
  <2>2. wLate' # {} => wInit' \in {"none", "left"} /\ wServer'.at \notin {"up", "down", "recover"}
    BY <1>0 DEF W!OpenGate, W!LateSound, W!Drained, W!LeaveInit, W!Current
  <2>3. wWorker' = "run" /\ wServer'.at \in {"drain", "live"} =>
          wLate' = {} \/ (wWorker = "run" /\ wServer.at \in {"drain", "live"})
    BY <1>0 DEF W!OpenGate, W!LateSound, W!Drained, W!Published, W!WorkIsWatched, W!DaemonShape, W!Phase, W!LeaveInit, W!Current
  <2> QED BY <1>0, <2>1, <2>2, <2>3, WorkflowLateLeft
<1>9. W!WorkIsWanted'
  BY <1>0, <1>1 DEF W!OpenGate, W!DaemonShape, W!Phase, W!Published, W!Drained, W!WorkIsWanted, W!WorkIsWatched, W!Current, W!Mine, W!Active, W!Terminal, W!LeaveInit
<1>10. W!WorkIsWatched'
  BY <1>0, <1>1 DEF W!OpenGate, W!DaemonShape, W!Published, W!Drained, W!WorkIsWatched, W!LeaveInit, W!Current
<1> QED BY <1>2, <1>5, <1>6, <1>7, <1>8, <1>9, <1>10 DEF W!WorkflowInv

\* A row that cannot be read again keeps the gate shut.
LEMMA WorkflowRereadFailsKeeps ==
  ASSUME W!Bounds, W!WorkflowInv, W!RereadFails
  PROVE  W!WorkflowInv' /\ WorkflowMoves
<1>0. W!RowShape /\ W!DaemonShape /\ W!Published /\ W!Drained /\ W!LateSound /\ W!WorkIsWanted /\ W!WorkIsWatched
  BY DEF W!WorkflowInv
<1>1. wRow' = wRow
  BY DEF W!RereadFails, W!Fault
<1>2. W!RowShape' /\ WorkflowMoves /\ WorkflowOn
  BY <1>0, <1>1, WorkflowRowLeft
<1>3. wFaults' \in 0 .. MaxFaults
  BY <1>0 DEF W!RereadFails, W!Fault, W!DaemonShape, W!Bounds
<1>5. W!DaemonShape'
  BY <1>0, <1>3 DEF W!RereadFails, W!DaemonShape, W!Terminal
<1>6. W!Published'
  BY <1>0, <1>1, <1>3 DEF W!RereadFails, W!DaemonShape, W!Published, W!Drained, W!Active, W!Terminal
<1>7. W!Drained'
  BY <1>0, <1>3 DEF W!RereadFails, W!DaemonShape, W!Published, W!Drained, W!WorkIsWatched
<1>8. W!LateSound'
  <2>1. wLate' \subseteq wLate /\ (wLate' = {} \/ WorkflowOn)
    BY <1>0, <1>2 DEF W!RereadFails, W!LateSound
  <2>2. wLate' # {} => wInit' \in {"none", "left"} /\ wServer'.at \notin {"up", "down", "recover"}
    BY <1>0, <1>3 DEF W!RereadFails, W!LateSound, W!Drained
  <2>3. wWorker' = "run" /\ wServer'.at \in {"drain", "live"} =>
          wLate' = {} \/ (wWorker = "run" /\ wServer.at \in {"drain", "live"})
    BY <1>0, <1>3 DEF W!RereadFails, W!LateSound, W!Drained, W!Published, W!WorkIsWatched, W!DaemonShape, W!Phase
  <2> QED BY <1>0, <2>1, <2>2, <2>3, WorkflowLateLeft
<1>9. W!WorkIsWanted'
  BY <1>0, <1>1, <1>3 DEF W!RereadFails, W!DaemonShape, W!Phase, W!Published, W!Drained, W!WorkIsWanted, W!WorkIsWatched, W!Current, W!Mine, W!Active, W!Terminal
<1>10. W!WorkIsWatched'
  BY <1>0, <1>1, <1>3 DEF W!RereadFails, W!DaemonShape, W!Published, W!Drained, W!WorkIsWatched
<1> QED BY <1>2, <1>5, <1>6, <1>7, <1>8, <1>9, <1>10 DEF W!WorkflowInv

\* A worker returns what it did.
LEMMA WorkflowWorkerReturnsKeeps ==
  ASSUME W!Bounds, W!WorkflowInv, W!WorkerReturns
  PROVE  W!WorkflowInv' /\ WorkflowMoves
<1>0. W!RowShape /\ W!DaemonShape /\ W!Published /\ W!Drained /\ W!LateSound /\ W!WorkIsWanted /\ W!WorkIsWatched
  BY DEF W!WorkflowInv
<1>1. wRow' = wRow
  BY DEF W!WorkerReturns
<1>2. W!RowShape' /\ WorkflowMoves /\ WorkflowOn
  BY <1>0, <1>1, WorkflowRowLeft
<1>5. W!DaemonShape'
  BY <1>0 DEF W!WorkerReturns, W!DaemonShape, W!Terminal
<1>6. W!Published'
  BY <1>0, <1>1 DEF W!WorkerReturns, W!DaemonShape, W!Published, W!WorkIsWatched, W!Drained, W!Active, W!Terminal
<1>7. W!Drained'
  BY <1>0 DEF W!WorkerReturns, W!DaemonShape, W!Published, W!Drained, W!WorkIsWatched
<1>8. W!LateSound'
  <2>1. wLate' \subseteq wLate /\ (wLate' = {} \/ WorkflowOn)
    BY <1>0, <1>2 DEF W!WorkerReturns, W!LateSound
  <2>2. wLate' # {} => wInit' \in {"none", "left"} /\ wServer'.at \notin {"up", "down", "recover"}
    BY <1>0 DEF W!WorkerReturns, W!LateSound, W!Drained
  <2>3. wWorker' = "run" /\ wServer'.at \in {"drain", "live"} =>
          wLate' = {} \/ (wWorker = "run" /\ wServer.at \in {"drain", "live"})
    BY <1>0 DEF W!WorkerReturns, W!LateSound, W!Drained, W!Published, W!WorkIsWatched, W!DaemonShape, W!Phase
  <2> QED BY <1>0, <2>1, <2>2, <2>3, WorkflowLateLeft
<1>9. W!WorkIsWanted'
  BY <1>0, <1>1 DEF W!WorkerReturns, W!DaemonShape, W!Phase, W!Published, W!Drained, W!WorkIsWanted, W!WorkIsWatched, W!Current, W!Mine, W!Active, W!Terminal
<1>10. W!WorkIsWatched'
  BY <1>0, <1>1 DEF W!WorkerReturns, W!DaemonShape, W!Published, W!Drained, W!WorkIsWatched
<1> QED BY <1>2, <1>5, <1>6, <1>7, <1>8, <1>9, <1>10 DEF W!WorkflowInv

\* An aborted worker is dropped.
LEMMA WorkflowWorkerDroppedKeeps ==
  ASSUME W!Bounds, W!WorkflowInv, W!WorkerDropped
  PROVE  W!WorkflowInv' /\ WorkflowMoves
<1>0. W!RowShape /\ W!DaemonShape /\ W!Published /\ W!Drained /\ W!LateSound /\ W!WorkIsWanted /\ W!WorkIsWatched
  BY DEF W!WorkflowInv
<1>1. wRow' = wRow
  BY DEF W!WorkerDropped
<1>2. W!RowShape' /\ WorkflowMoves /\ WorkflowOn
  BY <1>0, <1>1, WorkflowRowLeft
<1>5. W!DaemonShape'
  BY <1>0 DEF W!WorkerDropped, W!DaemonShape, W!Terminal
<1>6. W!Published'
  BY <1>0, <1>1 DEF W!WorkerDropped, W!DaemonShape, W!Published, W!Drained, W!Active, W!Terminal
<1>7. W!Drained'
  BY <1>0 DEF W!WorkerDropped, W!DaemonShape, W!Published, W!Drained, W!WorkIsWatched
<1>8. W!LateSound'
  <2>1. wLate' \subseteq wLate /\ (wLate' = {} \/ WorkflowOn)
    BY <1>0, <1>2 DEF W!WorkerDropped, W!LateSound
  <2>2. wLate' # {} => wInit' \in {"none", "left"} /\ wServer'.at \notin {"up", "down", "recover"}
    BY <1>0 DEF W!WorkerDropped, W!LateSound, W!Drained
  <2>3. wWorker' = "run" /\ wServer'.at \in {"drain", "live"} =>
          wLate' = {} \/ (wWorker = "run" /\ wServer.at \in {"drain", "live"})
    BY <1>0 DEF W!WorkerDropped, W!LateSound, W!Drained, W!Published, W!WorkIsWatched, W!DaemonShape, W!Phase
  <2> QED BY <1>0, <2>1, <2>2, <2>3, WorkflowLateLeft
<1>9. W!WorkIsWanted'
  BY <1>0, <1>1 DEF W!WorkerDropped, W!DaemonShape, W!Phase, W!Published, W!Drained, W!WorkIsWanted, W!WorkIsWatched, W!Current, W!Mine, W!Active, W!Terminal
<1>10. W!WorkIsWatched'
  BY <1>0, <1>1 DEF W!WorkerDropped, W!DaemonShape, W!Published, W!Drained, W!WorkIsWatched
<1> QED BY <1>2, <1>5, <1>6, <1>7, <1>8, <1>9, <1>10 DEF W!WorkflowInv

\* The watcher learns that the worker is over.
LEMMA WorkflowWatchWorkerKeeps ==
  ASSUME W!Bounds, W!WorkflowInv, W!WatchWorker
  PROVE  W!WorkflowInv' /\ WorkflowMoves
<1>0. W!RowShape /\ W!DaemonShape /\ W!Published /\ W!Drained /\ W!LateSound /\ W!WorkIsWanted /\ W!WorkIsWatched
  BY DEF W!WorkflowInv
<1>1. wRow' = wRow
  BY DEF W!WatchWorker, W!Accepting
<1>2. W!RowShape' /\ WorkflowMoves /\ WorkflowOn
  BY <1>0, <1>1, WorkflowRowLeft
<1>5. W!DaemonShape'
  BY <1>0 DEF W!WatchWorker, W!DaemonShape, W!Terminal, W!Accepting
<1>6. W!Published'
  BY <1>0, <1>1 DEF W!WatchWorker, W!DaemonShape, W!Published, W!WorkIsWatched, W!Drained, W!Active, W!Terminal, W!Accepting
<1>7. W!Drained'
  BY <1>0 DEF W!WatchWorker, W!DaemonShape, W!Published, W!Drained, W!WorkIsWatched, W!Accepting
<1>8. W!LateSound'
  <2>1. wLate' \subseteq wLate /\ (wLate' = {} \/ WorkflowOn)
    BY <1>0, <1>2 DEF W!WatchWorker, W!LateSound, W!Accepting
  <2>2. wLate' # {} => wInit' \in {"none", "left"} /\ wServer'.at \notin {"up", "down", "recover"}
    BY <1>0 DEF W!WatchWorker, W!LateSound, W!Drained, W!Accepting
  <2>3. wWorker' = "run" /\ wServer'.at \in {"drain", "live"} =>
          wLate' = {} \/ (wWorker = "run" /\ wServer.at \in {"drain", "live"})
    BY <1>0 DEF W!WatchWorker, W!LateSound, W!Drained, W!Published, W!WorkIsWatched, W!DaemonShape, W!Phase, W!Accepting
  <2> QED BY <1>0, <2>1, <2>2, <2>3, WorkflowLateLeft
<1>9. W!WorkIsWanted'
  BY <1>0, <1>1 DEF W!WatchWorker, W!DaemonShape, W!Phase, W!Published, W!Drained, W!WorkIsWanted, W!WorkIsWatched, W!Current, W!Mine, W!Active, W!Terminal, W!Accepting
<1>10. W!WorkIsWatched'
  BY <1>0, <1>1 DEF W!WatchWorker, W!DaemonShape, W!Published, W!Drained, W!WorkIsWatched, W!Accepting
<1> QED BY <1>2, <1>5, <1>6, <1>7, <1>8, <1>9, <1>10 DEF W!WorkflowInv

\* The lease is renewed.
LEMMA WorkflowRenewLeaseKeeps ==
  ASSUME W!Bounds, W!WorkflowInv, W!RenewLease
  PROVE  W!WorkflowInv' /\ WorkflowMoves
<1>0. W!RowShape /\ W!DaemonShape /\ W!Published /\ W!Drained /\ W!LateSound /\ W!WorkIsWanted /\ W!WorkIsWatched
  BY DEF W!WorkflowInv
<1>1. /\ W!RowShape' /\ WorkflowMoves /\ WorkflowOn
      /\ \/ wRow' = wRow
         \/ /\ TRUE
            /\ wRow'.state = wRow.state /\ wRow'.controller = wRow.controller
  <2>1. CASE TRUE
    <3>1. wRow' = W!Renewed(wRow, wNow + LeaseTicks, wNow)
      BY <2>1 DEF W!RenewLease, W!Write, W!runtime, W!Current
    <3>2. wRow.state \in {"running", "cancelling"}
      BY <1>0, <2>1 DEF W!RenewLease, W!Published, W!DaemonShape, W!Active, W!Current
    <3> QED BY <1>0, <2>1, <3>1, <3>2, WorkflowWriteRenewed
  <2>2. CASE ~ (TRUE)
    <3>1. wRow' = wRow
      BY <2>2 DEF W!RenewLease, W!runtime, W!Current, W!Write
    <3> QED BY <1>0, <2>2, <3>1, WorkflowRowLeft
  <2> QED BY <2>1, <2>2
<1>2. W!RowShape' /\ WorkflowMoves /\ WorkflowOn
  BY <1>1
<1>13. UNCHANGED <<wInitToken, wSignalled, wLive, wWorker, wWatcher, wCompletion, wClient>>
  BY DEF W!RenewLease, W!runtime
<1>5. W!DaemonShape'
  BY <1>0, <1>13 DEF W!RenewLease, W!DaemonShape, W!Terminal, W!Current
<1>6. W!Published'
  BY <1>0, <1>1, <1>13 DEF W!RenewLease, W!DaemonShape, W!Published, W!Drained, W!Active, W!Terminal, W!Current
<1>7. W!Drained'
  BY <1>0, <1>13 DEF W!RenewLease, W!DaemonShape, W!Published, W!Drained, W!WorkIsWatched, W!Current
<1>8. W!LateSound'
  <2>1. wLate' \subseteq wLate /\ (wLate' = {} \/ WorkflowOn)
    BY <1>0, <1>2 DEF W!RenewLease, W!LateSound, W!Current
  <2>2. wLate' # {} => wInit' \in {"none", "left"} /\ wServer'.at \notin {"up", "down", "recover"}
    BY <1>0, <1>13 DEF W!RenewLease, W!LateSound, W!Drained, W!Current
  <2>3. wWorker' = "run" /\ wServer'.at \in {"drain", "live"} =>
          wLate' = {} \/ (wWorker = "run" /\ wServer.at \in {"drain", "live"})
    BY <1>0, <1>13 DEF W!RenewLease, W!LateSound, W!Drained, W!Published, W!WorkIsWatched, W!DaemonShape, W!Phase, W!Current
  <2> QED BY <1>0, <2>1, <2>2, <2>3, WorkflowLateLeft
<1>9. W!WorkIsWanted'
  BY <1>0, <1>1, <1>13 DEF W!RenewLease, W!DaemonShape, W!Phase, W!Published, W!Drained, W!WorkIsWanted, W!WorkIsWatched, W!Current, W!Mine, W!Active, W!Terminal
<1>10. W!WorkIsWatched'
  BY <1>0, <1>1, <1>13 DEF W!RenewLease, W!DaemonShape, W!Published, W!Drained, W!WorkIsWatched, W!Current
<1> QED BY <1>2, <1>5, <1>6, <1>7, <1>8, <1>9, <1>10 DEF W!WorkflowInv

\* A lost lease stops the worker.
LEMMA WorkflowLeaseLostKeeps ==
  ASSUME W!Bounds, W!WorkflowInv, W!LeaseLost
  PROVE  W!WorkflowInv' /\ WorkflowMoves
<1>0. W!RowShape /\ W!DaemonShape /\ W!Published /\ W!Drained /\ W!LateSound /\ W!WorkIsWanted /\ W!WorkIsWatched
  BY DEF W!WorkflowInv
<1>1. wRow' = wRow
  BY DEF W!LeaseLost, W!StopWorker
<1>2. W!RowShape' /\ WorkflowMoves /\ WorkflowOn
  BY <1>0, <1>1, WorkflowRowLeft
<1>5. W!DaemonShape'
  BY <1>0 DEF W!LeaseLost, W!DaemonShape, W!Terminal, W!StopWorker
<1>6. W!Published'
  BY <1>0, <1>1 DEF W!LeaseLost, W!DaemonShape, W!Published, W!Drained, W!Active, W!Terminal, W!StopWorker
<1>7. W!Drained'
  BY <1>0 DEF W!LeaseLost, W!DaemonShape, W!Published, W!Drained, W!WorkIsWatched, W!StopWorker
<1>8. W!LateSound'
  <2>1. wLate' \subseteq wLate /\ (wLate' = {} \/ WorkflowOn)
    BY <1>0, <1>2 DEF W!LeaseLost, W!LateSound, W!StopWorker
  <2>2. wLate' # {} => wInit' \in {"none", "left"} /\ wServer'.at \notin {"up", "down", "recover"}
    BY <1>0 DEF W!LeaseLost, W!LateSound, W!Drained, W!StopWorker
  <2>3. wWorker' = "run" /\ wServer'.at \in {"drain", "live"} =>
          wLate' = {} \/ (wWorker = "run" /\ wServer.at \in {"drain", "live"})
    BY <1>0 DEF W!LeaseLost, W!LateSound, W!Drained, W!Published, W!WorkIsWatched, W!DaemonShape, W!Phase, W!StopWorker
  <2> QED BY <1>0, <2>1, <2>2, <2>3, WorkflowLateLeft
<1>9. W!WorkIsWanted'
  BY <1>0, <1>1 DEF W!LeaseLost, W!DaemonShape, W!Phase, W!Published, W!Drained, W!WorkIsWanted, W!WorkIsWatched, W!Current, W!Mine, W!Active, W!Terminal, W!StopWorker
<1>10. W!WorkIsWatched'
  BY <1>0, <1>1 DEF W!LeaseLost, W!DaemonShape, W!Published, W!Drained, W!WorkIsWatched, W!StopWorker
<1> QED BY <1>2, <1>5, <1>6, <1>7, <1>8, <1>9, <1>10 DEF W!WorkflowInv

\* A failing renewal stops the worker.
LEMMA WorkflowRenewFailsKeeps ==
  ASSUME W!Bounds, W!WorkflowInv, W!RenewFails
  PROVE  W!WorkflowInv' /\ WorkflowMoves
<1>0. W!RowShape /\ W!DaemonShape /\ W!Published /\ W!Drained /\ W!LateSound /\ W!WorkIsWanted /\ W!WorkIsWatched
  BY DEF W!WorkflowInv
<1>1. wRow' = wRow
  BY DEF W!RenewFails, W!StopWorker, W!Fault
<1>2. W!RowShape' /\ WorkflowMoves /\ WorkflowOn
  BY <1>0, <1>1, WorkflowRowLeft
<1>3. wFaults' \in 0 .. MaxFaults
  BY <1>0 DEF W!RenewFails, W!Fault, W!DaemonShape, W!Bounds
<1>5. W!DaemonShape'
  BY <1>0, <1>3 DEF W!RenewFails, W!DaemonShape, W!Terminal, W!StopWorker
<1>6. W!Published'
  BY <1>0, <1>1, <1>3 DEF W!RenewFails, W!DaemonShape, W!Published, W!Drained, W!Active, W!Terminal, W!StopWorker
<1>7. W!Drained'
  BY <1>0, <1>3 DEF W!RenewFails, W!DaemonShape, W!Published, W!Drained, W!WorkIsWatched, W!StopWorker
<1>8. W!LateSound'
  <2>1. wLate' \subseteq wLate /\ (wLate' = {} \/ WorkflowOn)
    BY <1>0, <1>2 DEF W!RenewFails, W!LateSound, W!StopWorker
  <2>2. wLate' # {} => wInit' \in {"none", "left"} /\ wServer'.at \notin {"up", "down", "recover"}
    BY <1>0, <1>3 DEF W!RenewFails, W!LateSound, W!Drained, W!StopWorker
  <2>3. wWorker' = "run" /\ wServer'.at \in {"drain", "live"} =>
          wLate' = {} \/ (wWorker = "run" /\ wServer.at \in {"drain", "live"})
    BY <1>0, <1>3 DEF W!RenewFails, W!LateSound, W!Drained, W!Published, W!WorkIsWatched, W!DaemonShape, W!Phase, W!StopWorker
  <2> QED BY <1>0, <2>1, <2>2, <2>3, WorkflowLateLeft
<1>9. W!WorkIsWanted'
  BY <1>0, <1>1, <1>3 DEF W!RenewFails, W!DaemonShape, W!Phase, W!Published, W!Drained, W!WorkIsWanted, W!WorkIsWatched, W!Current, W!Mine, W!Active, W!Terminal, W!StopWorker
<1>10. W!WorkIsWatched'
  BY <1>0, <1>1, <1>3 DEF W!RenewFails, W!DaemonShape, W!Published, W!Drained, W!WorkIsWatched, W!StopWorker
<1> QED BY <1>2, <1>5, <1>6, <1>7, <1>8, <1>9, <1>10 DEF W!WorkflowInv

\* The watcher writes the end.
LEMMA WorkflowPersistCompletionKeeps ==
  ASSUME W!Bounds, W!WorkflowInv, W!PersistCompletion
  PROVE  W!WorkflowInv' /\ WorkflowMoves
<1>0. W!RowShape /\ W!DaemonShape /\ W!Published /\ W!Drained /\ W!LateSound /\ W!WorkIsWanted /\ W!WorkIsWatched
  BY DEF W!WorkflowInv
<1>1. /\ W!RowShape' /\ WorkflowMoves /\ WorkflowOn
      /\ \/ wRow' = wRow /\ ~ (W!Current)
         \/ /\ W!Current
            /\ wRow.state \in W!Active /\ wRow'.state \in W!Terminal
  <2>1. CASE W!Current
    <3>1. wRow' = W!Final(wRow, wCompletion)
      BY <2>1 DEF W!PersistCompletion, W!Write, W!Current
    <3>2. wRow.state \in {"running", "cancelling"} /\ wRow.state \in W!Active /\ wCompletion \in W!Terminal
      BY <1>0, <2>1 DEF W!PersistCompletion, W!Published, W!DaemonShape, W!Active, W!Current
    <3> QED BY <1>0, <2>1, <3>1, <3>2, WorkflowWriteFinal
  <2>2. CASE ~ (W!Current)
    <3>1. wRow' = wRow
      BY <2>2 DEF W!PersistCompletion, W!Current, W!Write
    <3> QED BY <1>0, <2>2, <3>1, WorkflowRowLeft
  <2> QED BY <2>1, <2>2
<1>2. W!RowShape' /\ WorkflowMoves /\ WorkflowOn
  BY <1>1
<1>5. W!DaemonShape'
  <2>1. wInitToken' \in BOOLEAN /\ wSignalled' \in BOOLEAN /\ wLive' \in BOOLEAN /\ wClient' \in BOOLEAN
    BY <1>0 DEF W!PersistCompletion, W!DaemonShape, W!Current
  <2>2. /\ wServer' \in [id : 1 .. MaxDaemons, at : W!Phase]
        /\ wInit' \in {"none", "create", "created", "attach", "prepare", "spawn", "reread", "abandon", "failed", "left"}
        /\ wJournal' \in {"none", "prepared", "ended"}
        /\ wWorker' \in {"none", "gate", "run", "returned", "aborted", "dropped"}
        /\ wWatcher' \in {"none", "watch", "lost", "settle"}
        /\ wCompletion' \in W!Terminal \cup {"none"}
        /\ wNow' \in 0 .. MaxTime /\ wFaults' \in 0 .. MaxFaults
    BY <1>0 DEF W!PersistCompletion, W!DaemonShape, W!Current
  <2> QED BY <2>1, <2>2 DEF W!DaemonShape
<1>6. W!Published'
  BY <1>0, <1>1 DEF W!PersistCompletion, W!DaemonShape, W!Published, W!Drained, W!Active, W!Terminal, W!Current
<1>7. W!Drained'
  BY <1>0 DEF W!PersistCompletion, W!DaemonShape, W!Published, W!Drained, W!WorkIsWatched, W!Current
<1>8. W!LateSound'
  <2>1. wLate' \subseteq wLate /\ (wLate' = {} \/ WorkflowOn)
    BY <1>0, <1>2 DEF W!PersistCompletion, W!LateSound, W!Current
  <2>2. wLate' # {} => wInit' \in {"none", "left"} /\ wServer'.at \notin {"up", "down", "recover"}
    BY <1>0 DEF W!PersistCompletion, W!LateSound, W!Drained, W!Current
  <2>3. wWorker' = "run" /\ wServer'.at \in {"drain", "live"} =>
          wLate' = {} \/ (wWorker = "run" /\ wServer.at \in {"drain", "live"})
    BY <1>0 DEF W!PersistCompletion, W!LateSound, W!Drained, W!Published, W!WorkIsWatched, W!DaemonShape, W!Phase, W!Current
  <2> QED BY <1>0, <2>1, <2>2, <2>3, WorkflowLateLeft
<1>9. W!WorkIsWanted'
  BY <1>0, <1>1 DEF W!PersistCompletion, W!DaemonShape, W!Phase, W!Published, W!Drained, W!WorkIsWanted, W!WorkIsWatched, W!Current, W!Mine, W!Active, W!Terminal
<1>10. W!WorkIsWatched'
  BY <1>0, <1>1 DEF W!PersistCompletion, W!DaemonShape, W!Published, W!Drained, W!WorkIsWatched, W!Current
<1> QED BY <1>2, <1>5, <1>6, <1>7, <1>8, <1>9, <1>10 DEF W!WorkflowInv

\* A request cancels what is queued or runs.
LEMMA WorkflowCancelTaskKeeps ==
  ASSUME W!Bounds, W!WorkflowInv, W!CancelTask
  PROVE  W!WorkflowInv' /\ WorkflowMoves
<1>0. W!RowShape /\ W!DaemonShape /\ W!Published /\ W!Drained /\ W!LateSound /\ W!WorkIsWanted /\ W!WorkIsWatched
  BY DEF W!WorkflowInv
<1>1. /\ W!RowShape' /\ WorkflowMoves /\ WorkflowOn
      /\ \/ wRow' = wRow /\ ~ (W!CanCancel(wRow))
         \/ /\ W!CanCancel(wRow)
            /\ wRow.state \in {"queued", "running"} /\ wRow'.controller = wRow.controller
            /\ wRow'.state = (IF wRow.state = "queued" THEN "cancelled" ELSE "cancelling")
  <2>1. CASE W!CanCancel(wRow)
    <3>1. wRow' = W!CancelRequested(wRow, wNow)
      BY <2>1 DEF W!CancelTask, W!Write, W!CanCancel
    <3>2. W!CanCancel(wRow)
      BY <1>0, <2>1 DEF W!CancelTask, W!Published, W!DaemonShape, W!Active, W!CanCancel
    <3> QED BY <1>0, <2>1, <3>1, <3>2, WorkflowWriteCancelled DEF W!CanCancel
  <2>2. CASE ~ (W!CanCancel(wRow))
    <3>1. wRow' = wRow
      BY <2>2 DEF W!CancelTask, W!CanCancel, W!Write
    <3> QED BY <1>0, <2>2, <3>1, WorkflowRowLeft
  <2> QED BY <2>1, <2>2
<1>2. W!RowShape' /\ WorkflowMoves /\ WorkflowOn
  BY <1>1
<1>5. W!DaemonShape'
  BY <1>0 DEF W!CancelTask, W!DaemonShape, W!Terminal, W!CanCancel
<1>6. W!Published'
  BY <1>0, <1>1 DEF W!CancelTask, W!DaemonShape, W!Published, W!Drained, W!Active, W!Terminal, W!CanCancel
<1>7. W!Drained'
  BY <1>0 DEF W!CancelTask, W!DaemonShape, W!Published, W!Drained, W!WorkIsWatched, W!CanCancel
<1>8. W!LateSound'
  <2>1. wLate' \subseteq wLate /\ (wLate' = {} \/ WorkflowOn)
    BY <1>0, <1>2 DEF W!CancelTask, W!LateSound, W!CanCancel
  <2>2. wLate' # {} => wInit' \in {"none", "left"} /\ wServer'.at \notin {"up", "down", "recover"}
    BY <1>0 DEF W!CancelTask, W!LateSound, W!Drained, W!CanCancel
  <2>3. wWorker' = "run" /\ wServer'.at \in {"drain", "live"} =>
          wLate' = {} \/ (wWorker = "run" /\ wServer.at \in {"drain", "live"})
    BY <1>0 DEF W!CancelTask, W!LateSound, W!Drained, W!Published, W!WorkIsWatched, W!DaemonShape, W!Phase, W!CanCancel
  <2> QED BY <1>0, <2>1, <2>2, <2>3, WorkflowLateLeft
<1>9. W!WorkIsWanted'
  BY <1>0, <1>1 DEF W!CancelTask, W!DaemonShape, W!Phase, W!Published, W!Drained, W!WorkIsWanted, W!WorkIsWatched, W!Current, W!Mine, W!Active, W!Terminal, W!CanCancel
<1>10. W!WorkIsWatched'
  BY <1>0, <1>1 DEF W!CancelTask, W!DaemonShape, W!Published, W!Drained, W!WorkIsWatched, W!CanCancel
<1> QED BY <1>2, <1>5, <1>6, <1>7, <1>8, <1>9, <1>10 DEF W!WorkflowInv

\* The signal.
LEMMA WorkflowSignalKeeps ==
  ASSUME W!Bounds, W!WorkflowInv, W!Signal
  PROVE  W!WorkflowInv' /\ WorkflowMoves
<1>0. W!RowShape /\ W!DaemonShape /\ W!Published /\ W!Drained /\ W!LateSound /\ W!WorkIsWanted /\ W!WorkIsWatched
  BY DEF W!WorkflowInv
<1>1. wRow' = wRow
  BY DEF W!Signal, W!Reachable
<1>2. W!RowShape' /\ WorkflowMoves /\ WorkflowOn
  BY <1>0, <1>1, WorkflowRowLeft
<1>5. W!DaemonShape'
  <2>1. wInitToken' \in BOOLEAN /\ wSignalled' \in BOOLEAN /\ wLive' \in BOOLEAN /\ wClient' \in BOOLEAN
    BY <1>0 DEF W!Signal, W!DaemonShape, W!Reachable
  <2>2. /\ wServer' \in [id : 1 .. MaxDaemons, at : W!Phase]
        /\ wInit' \in {"none", "create", "created", "attach", "prepare", "spawn", "reread", "abandon", "failed", "left"}
        /\ wJournal' \in {"none", "prepared", "ended"}
        /\ wWorker' \in {"none", "gate", "run", "returned", "aborted", "dropped"}
        /\ wWatcher' \in {"none", "watch", "lost", "settle"}
        /\ wCompletion' \in W!Terminal \cup {"none"}
        /\ wNow' \in 0 .. MaxTime /\ wFaults' \in 0 .. MaxFaults
    BY <1>0 DEF W!Signal, W!DaemonShape, W!Reachable
  <2> QED BY <2>1, <2>2 DEF W!DaemonShape
<1>6. W!Published'
  BY <1>0, <1>1 DEF W!Signal, W!DaemonShape, W!Published, W!Drained, W!Active, W!Terminal, W!Reachable
<1>7. W!Drained'
  BY <1>0 DEF W!Signal, W!DaemonShape, W!Published, W!Drained, W!WorkIsWatched, W!Reachable
<1>8. W!LateSound'
  <2>1. wLate' \subseteq wLate /\ (wLate' = {} \/ WorkflowOn)
    BY <1>0, <1>2 DEF W!Signal, W!LateSound, W!Reachable
  <2>2. wLate' # {} => wInit' \in {"none", "left"} /\ wServer'.at \notin {"up", "down", "recover"}
    BY <1>0 DEF W!Signal, W!LateSound, W!Drained, W!Reachable
  <2>3. wWorker' = "run" /\ wServer'.at \in {"drain", "live"} =>
          wLate' = {} \/ (wWorker = "run" /\ wServer.at \in {"drain", "live"})
    BY <1>0 DEF W!Signal, W!LateSound, W!Drained, W!Published, W!WorkIsWatched, W!DaemonShape, W!Phase, W!Reachable
  <2> QED BY <1>0, <2>1, <2>2, <2>3, WorkflowLateLeft
<1>9. W!WorkIsWanted'
  BY <1>0, <1>1 DEF W!Signal, W!DaemonShape, W!Phase, W!Published, W!Drained, W!WorkIsWanted, W!WorkIsWatched, W!Current, W!Mine, W!Active, W!Terminal, W!Reachable
<1>10. W!WorkIsWatched'
  BY <1>0, <1>1 DEF W!Signal, W!DaemonShape, W!Published, W!Drained, W!WorkIsWatched, W!Reachable
<1> QED BY <1>2, <1>5, <1>6, <1>7, <1>8, <1>9, <1>10 DEF W!WorkflowInv

\* A client that is gone.
LEMMA WorkflowHangUpKeeps ==
  ASSUME W!Bounds, W!WorkflowInv, W!HangUp
  PROVE  W!WorkflowInv' /\ WorkflowMoves
<1>0. W!RowShape /\ W!DaemonShape /\ W!Published /\ W!Drained /\ W!LateSound /\ W!WorkIsWanted /\ W!WorkIsWatched
  BY DEF W!WorkflowInv
<1>1. wRow' = wRow
  BY DEF W!HangUp, W!Fault
<1>2. W!RowShape' /\ WorkflowMoves /\ WorkflowOn
  BY <1>0, <1>1, WorkflowRowLeft
<1>3. wFaults' \in 0 .. MaxFaults
  BY <1>0 DEF W!HangUp, W!Fault, W!DaemonShape, W!Bounds
<1>5. W!DaemonShape'
  <2>1. wInitToken' \in BOOLEAN /\ wSignalled' \in BOOLEAN /\ wLive' \in BOOLEAN /\ wClient' \in BOOLEAN
    BY <1>0 DEF W!HangUp, W!DaemonShape
  <2>2. /\ wServer' \in [id : 1 .. MaxDaemons, at : W!Phase]
        /\ wInit' \in {"none", "create", "created", "attach", "prepare", "spawn", "reread", "abandon", "failed", "left"}
        /\ wJournal' \in {"none", "prepared", "ended"}
        /\ wWorker' \in {"none", "gate", "run", "returned", "aborted", "dropped"}
        /\ wWatcher' \in {"none", "watch", "lost", "settle"}
        /\ wCompletion' \in W!Terminal \cup {"none"}
        /\ wNow' \in 0 .. MaxTime /\ wFaults' \in 0 .. MaxFaults
    BY <1>0, <1>3 DEF W!HangUp, W!DaemonShape
  <2> QED BY <2>1, <2>2 DEF W!DaemonShape
<1>6. W!Published'
  BY <1>0, <1>1, <1>3 DEF W!HangUp, W!DaemonShape, W!Published, W!Drained, W!Active, W!Terminal
<1>7. W!Drained'
  BY <1>0, <1>3 DEF W!HangUp, W!DaemonShape, W!Published, W!Drained, W!WorkIsWatched
<1>8. W!LateSound'
  <2>1. wLate' \subseteq wLate /\ (wLate' = {} \/ WorkflowOn)
    BY <1>0, <1>2 DEF W!HangUp, W!LateSound
  <2>2. wLate' # {} => wInit' \in {"none", "left"} /\ wServer'.at \notin {"up", "down", "recover"}
    BY <1>0, <1>3 DEF W!HangUp, W!LateSound, W!Drained
  <2>3. wWorker' = "run" /\ wServer'.at \in {"drain", "live"} =>
          wLate' = {} \/ (wWorker = "run" /\ wServer.at \in {"drain", "live"})
    BY <1>0, <1>3 DEF W!HangUp, W!LateSound, W!Drained, W!Published, W!WorkIsWatched, W!DaemonShape, W!Phase
  <2> QED BY <1>0, <2>1, <2>2, <2>3, WorkflowLateLeft
<1>9. W!WorkIsWanted'
  BY <1>0, <1>1, <1>3 DEF W!HangUp, W!DaemonShape, W!Phase, W!Published, W!Drained, W!WorkIsWanted, W!WorkIsWatched, W!Current, W!Mine, W!Active, W!Terminal
<1>10. W!WorkIsWatched'
  BY <1>0, <1>1, <1>3 DEF W!HangUp, W!DaemonShape, W!Published, W!Drained, W!WorkIsWatched
<1> QED BY <1>2, <1>5, <1>6, <1>7, <1>8, <1>9, <1>10 DEF W!WorkflowInv

\* A shutdown begins.
LEMMA WorkflowBeginShutdownKeeps ==
  ASSUME W!Bounds, W!WorkflowInv, W!BeginShutdown
  PROVE  W!WorkflowInv' /\ WorkflowMoves
<1>0. W!RowShape /\ W!DaemonShape /\ W!Published /\ W!Drained /\ W!LateSound /\ W!WorkIsWanted /\ W!WorkIsWatched
  BY DEF W!WorkflowInv
<1>1. wRow' = wRow
  BY DEF W!BeginShutdown
<1>2. W!RowShape' /\ WorkflowMoves /\ WorkflowOn
  BY <1>0, <1>1, WorkflowRowLeft
<1>4. wServer' \in [id : 1 .. MaxDaemons, at : W!Phase] /\ wServer'.id = wServer.id /\ wServer'.at = "drain"
  <2>1. "drain" \in W!Phase /\ W!Server("drain")
    BY DEF W!BeginShutdown, W!Phase
  <2> QED BY <1>0, <2>1, WorkflowServerMoves
<1>5. W!DaemonShape'
  BY <1>0, <1>4 DEF W!BeginShutdown, W!DaemonShape, W!Terminal
<1>6. W!Published'
  BY <1>0, <1>1, <1>4 DEF W!BeginShutdown, W!DaemonShape, W!Published, W!Drained, W!Active, W!Terminal
<1>7. W!Drained'
  BY <1>0, <1>4 DEF W!BeginShutdown, W!DaemonShape, W!Published, W!Drained, W!WorkIsWatched
<1>8. W!LateSound'
  <2>1. wLate' \subseteq wLate /\ (wLate' = {} \/ WorkflowOn)
    BY <1>0, <1>2 DEF W!BeginShutdown, W!LateSound
  <2>2. wLate' # {} => wInit' \in {"none", "left"} /\ wServer'.at \notin {"up", "down", "recover"}
    BY <1>0, <1>4 DEF W!BeginShutdown, W!LateSound, W!Drained
  <2>3. wWorker' = "run" /\ wServer'.at \in {"drain", "live"} =>
          wLate' = {} \/ (wWorker = "run" /\ wServer.at \in {"drain", "live"})
    BY <1>0, <1>4 DEF W!BeginShutdown, W!LateSound, W!Drained, W!Published, W!WorkIsWatched, W!DaemonShape, W!Phase
  <2> QED BY <1>0, <2>1, <2>2, <2>3, WorkflowLateLeft
<1>9. W!WorkIsWanted'
  BY <1>0, <1>1, <1>4 DEF W!BeginShutdown, W!DaemonShape, W!Phase, W!Published, W!Drained, W!WorkIsWanted, W!WorkIsWatched, W!Current, W!Mine, W!Active, W!Terminal
<1>10. W!WorkIsWatched'
  BY <1>0, <1>1, <1>4 DEF W!BeginShutdown, W!DaemonShape, W!Published, W!Drained, W!WorkIsWatched
<1> QED BY <1>2, <1>5, <1>6, <1>7, <1>8, <1>9, <1>10 DEF W!WorkflowInv

\* The initializer is aborted; its call of the moment may run on.
LEMMA WorkflowAbortInitializerKeeps ==
  ASSUME W!Bounds, W!WorkflowInv, W!AbortInitializer
  PROVE  W!WorkflowInv' /\ WorkflowMoves
<1>0. W!RowShape /\ W!DaemonShape /\ W!Published /\ W!Drained /\ W!LateSound /\ W!WorkIsWanted /\ W!WorkIsWatched
  BY DEF W!WorkflowInv
<1>1. wRow' = wRow
  BY DEF W!AbortInitializer, W!LeaveInit
<1>2. W!RowShape' /\ WorkflowMoves /\ WorkflowOn
  BY <1>0, <1>1, WorkflowRowLeft
<1>5. W!DaemonShape'
  BY <1>0 DEF W!AbortInitializer, W!DaemonShape, W!Terminal, W!LeaveInit
<1>6. W!Published'
  BY <1>0, <1>1 DEF W!AbortInitializer, W!DaemonShape, W!Published, W!Drained, W!Active, W!Terminal, W!LeaveInit
<1>7. W!Drained'
  BY <1>0 DEF W!AbortInitializer, W!DaemonShape, W!Published, W!Drained, W!WorkIsWatched, W!LeaveInit
<1>8. W!LateSound'
  <2>1. /\ wLate' \in W!InitCall /\ wInit' \in {"none", "left"} /\ wServer'.at \notin {"up", "down", "recover"}
        /\ wWorker' # "run" /\ wInit \notin {"none", "left"} /\ wRow.rev \in Nat
    BY <1>0, WorkflowRowKnown DEF W!AbortInitializer, W!LeaveInit, W!Published, W!WorkIsWatched
  <2>9. CASE wLate' = wLate
    <3>1. wLate' \subseteq wLate /\ WorkflowOn
      BY <1>2, <2>9
    <3> QED BY <1>0, <2>1, <2>9, <3>1, WorkflowLateLeft
  <2>2. CASE wInit = "create" /\ wLate' \in W!LeftBehind("create", 0)
    <3>1. wRow.state = "absent" /\ 0 <= wRow.rev /\ "create" \notin W!Settlement
      BY <1>0, <2>1, <2>2 DEF W!Published, W!Settlement, W!Terminal
    <3> QED BY <1>0, <1>1, <2>1, <2>2, <3>1, WorkflowLateAdded DEF W!LeftBehind
  <2>3. CASE wInit = "attach" /\ wLate' \in W!LeftBehind("attach", 0)
    <3>1. wRow.state # "absent" /\ 0 <= wRow.rev /\ "attach" \notin W!Settlement
      BY <1>0, <2>1, <2>3 DEF W!Published, W!Settlement, W!Terminal
    <3> QED BY <1>0, <1>1, <2>1, <2>3, <3>1, WorkflowLateAdded DEF W!LeftBehind
  <2>4. CASE wInit \in {"abandon", "failed"} /\ wLate' \in W!LeftBehind("interrupted", wRow.rev)
    <3>1. wRow.state # "absent" /\ wRow.rev <= wRow.rev /\ "interrupted" \notin W!Settlement
          /\ "interrupted" \in W!Terminal
      BY <1>0, <2>1, <2>4 DEF W!Published, W!Settlement, W!Terminal
    <3> QED BY <1>0, <1>1, <2>1, <2>4, <3>1, WorkflowLateAdded DEF W!LeftBehind
  <2> QED BY <2>1, <2>2, <2>3, <2>4, <2>9 DEF W!InitCall
<1>9. W!WorkIsWanted'
  BY <1>0, <1>1 DEF W!AbortInitializer, W!DaemonShape, W!Phase, W!Published, W!Drained, W!WorkIsWanted, W!WorkIsWatched, W!Current, W!Mine, W!Active, W!Terminal, W!LeaveInit
<1>10. W!WorkIsWatched'
  BY <1>0, <1>1 DEF W!AbortInitializer, W!DaemonShape, W!Published, W!Drained, W!WorkIsWatched, W!LeaveInit
<1> QED BY <1>2, <1>5, <1>6, <1>7, <1>8, <1>9, <1>10 DEF W!WorkflowInv

\* The shutdown asks for the end of the row.
LEMMA WorkflowRequestCancellationKeeps ==
  ASSUME W!Bounds, W!WorkflowInv, W!RequestCancellation
  PROVE  W!WorkflowInv' /\ WorkflowMoves
<1>0. W!RowShape /\ W!DaemonShape /\ W!Published /\ W!Drained /\ W!LateSound /\ W!WorkIsWanted /\ W!WorkIsWatched
  BY DEF W!WorkflowInv
<1>1. /\ W!RowShape' /\ WorkflowMoves /\ WorkflowOn
      /\ \/ wRow' = wRow /\ ~ (W!CanCancel(wRow) /\ (wRow.state = "queued" \/ W!Mine))
         \/ /\ W!CanCancel(wRow) /\ (wRow.state = "queued" \/ W!Mine)
            /\ wRow.state \in {"queued", "running"} /\ wRow'.controller = wRow.controller
            /\ wRow'.state = (IF wRow.state = "queued" THEN "cancelled" ELSE "cancelling")
  <2>1. CASE W!CanCancel(wRow) /\ (wRow.state = "queued" \/ W!Mine)
    <3>1. wRow' = W!CancelRequested(wRow, wNow)
      BY <2>1 DEF W!RequestCancellation, W!Write, W!CanCancel
    <3>2. W!CanCancel(wRow)
      BY <1>0, <2>1 DEF W!RequestCancellation, W!Published, W!DaemonShape, W!Active, W!CanCancel
    <3> QED BY <1>0, <2>1, <3>1, <3>2, WorkflowWriteCancelled DEF W!CanCancel
  <2>2. CASE ~ (W!CanCancel(wRow) /\ (wRow.state = "queued" \/ W!Mine))
    <3>1. wRow' = wRow
      BY <2>2 DEF W!RequestCancellation, W!CanCancel, W!Write
    <3> QED BY <1>0, <2>2, <3>1, WorkflowRowLeft
  <2> QED BY <2>1, <2>2
<1>2. W!RowShape' /\ WorkflowMoves /\ WorkflowOn
  BY <1>1
<1>4. wServer' \in [id : 1 .. MaxDaemons, at : W!Phase] /\ wServer'.id = wServer.id /\ wServer'.at = "live"
  <2>1. "live" \in W!Phase /\ W!Server("live")
    BY DEF W!RequestCancellation, W!Phase
  <2> QED BY <1>0, <2>1, WorkflowServerMoves
<1>5. W!DaemonShape'
  BY <1>0, <1>4 DEF W!RequestCancellation, W!DaemonShape, W!Terminal, W!CanCancel
<1>6. W!Published'
  BY <1>0, <1>1, <1>4 DEF W!RequestCancellation, W!DaemonShape, W!Published, W!Drained, W!Active, W!Terminal, W!CanCancel
<1>7. W!Drained'
  BY <1>0, <1>4 DEF W!RequestCancellation, W!DaemonShape, W!Published, W!Drained, W!WorkIsWatched, W!CanCancel
<1>8. W!LateSound'
  <2>1. wLate' \subseteq wLate /\ (wLate' = {} \/ WorkflowOn)
    BY <1>0, <1>2 DEF W!RequestCancellation, W!LateSound, W!CanCancel
  <2>2. wLate' # {} => wInit' \in {"none", "left"} /\ wServer'.at \notin {"up", "down", "recover"}
    BY <1>0, <1>4 DEF W!RequestCancellation, W!LateSound, W!Drained, W!CanCancel
  <2>3. wWorker' = "run" /\ wServer'.at \in {"drain", "live"} =>
          wLate' = {} \/ (wWorker = "run" /\ wServer.at \in {"drain", "live"})
    BY <1>0, <1>4 DEF W!RequestCancellation, W!LateSound, W!Drained, W!Published, W!WorkIsWatched, W!DaemonShape, W!Phase, W!CanCancel
  <2> QED BY <1>0, <2>1, <2>2, <2>3, WorkflowLateLeft
<1>9. W!WorkIsWanted'
  BY <1>0, <1>1, <1>4 DEF W!RequestCancellation, W!DaemonShape, W!Phase, W!Published, W!Drained, W!WorkIsWanted, W!WorkIsWatched, W!Current, W!Mine, W!Active, W!Terminal, W!CanCancel
<1>10. W!WorkIsWatched'
  BY <1>0, <1>1, <1>4 DEF W!RequestCancellation, W!DaemonShape, W!Published, W!Drained, W!WorkIsWatched, W!CanCancel
<1> QED BY <1>2, <1>5, <1>6, <1>7, <1>8, <1>9, <1>10 DEF W!WorkflowInv

\* The request may fail or run on.
LEMMA WorkflowRequestFailsKeeps ==
  ASSUME W!Bounds, W!WorkflowInv, W!RequestFails
  PROVE  W!WorkflowInv' /\ WorkflowMoves
<1>0. W!RowShape /\ W!DaemonShape /\ W!Published /\ W!Drained /\ W!LateSound /\ W!WorkIsWanted /\ W!WorkIsWatched
  BY DEF W!WorkflowInv
<1>1. wRow' = wRow
  BY DEF W!RequestFails, W!Fault
<1>2. W!RowShape' /\ WorkflowMoves /\ WorkflowOn
  BY <1>0, <1>1, WorkflowRowLeft
<1>4. wServer' \in [id : 1 .. MaxDaemons, at : W!Phase] /\ wServer'.id = wServer.id /\ wServer'.at = "live"
  <2>1. "live" \in W!Phase /\ W!Server("live")
    BY DEF W!RequestFails, W!Phase
  <2> QED BY <1>0, <2>1, WorkflowServerMoves
<1>3. wFaults' \in 0 .. MaxFaults
  BY <1>0 DEF W!RequestFails, W!Fault, W!DaemonShape, W!Bounds
<1>5. W!DaemonShape'
  BY <1>0, <1>4, <1>3 DEF W!RequestFails, W!DaemonShape, W!Terminal
<1>6. W!Published'
  BY <1>0, <1>1, <1>4, <1>3 DEF W!RequestFails, W!DaemonShape, W!Published, W!Drained, W!Active, W!Terminal
<1>7. W!Drained'
  BY <1>0, <1>4, <1>3 DEF W!RequestFails, W!DaemonShape, W!Published, W!Drained, W!WorkIsWatched
<1>8. W!LateSound'
  <2>1. /\ wInit' \in {"none", "left"} /\ wServer'.at \notin {"up", "down", "recover"} /\ wRow.rev \in Nat
        /\ (wWorker' = "run" /\ wServer'.at \in {"drain", "live"} =>
              wWorker = "run" /\ wServer.at \in {"drain", "live"})
    BY <1>0, <1>4, WorkflowRowKnown DEF W!RequestFails
  <2>9. CASE wLate' = wLate
    <3>1. wLate' \subseteq wLate /\ WorkflowOn
      BY <1>2, <2>9
    <3> QED BY <1>0, <2>1, <2>9, <3>1, WorkflowLateLeft
  <2>2. CASE W!CanCancel(wRow) /\ wLate' \in W!LeftBehind("cancel", wRow.rev)
    <3>1. wRow.state \in {"queued", "running"} /\ wRow.rev <= wRow.rev /\ "cancel" \notin W!Settlement
      BY <2>1, <2>2 DEF W!CanCancel, W!Settlement, W!Terminal
    <3> QED BY <1>0, <1>1, <2>1, <2>2, <3>1, WorkflowLateAdded DEF W!LeftBehind
  <2> QED BY <2>2, <2>9 DEF W!RequestFails
<1>9. W!WorkIsWanted'
  BY <1>0, <1>1, <1>4, <1>3 DEF W!RequestFails, W!DaemonShape, W!Phase, W!Published, W!Drained, W!WorkIsWanted, W!WorkIsWatched, W!Current, W!Mine, W!Active, W!Terminal
<1>10. W!WorkIsWatched'
  BY <1>0, <1>1, <1>4, <1>3 DEF W!RequestFails, W!DaemonShape, W!Published, W!Drained, W!WorkIsWatched
<1> QED BY <1>2, <1>5, <1>6, <1>7, <1>8, <1>9, <1>10 DEF W!WorkflowInv

\* Nothing is live any more.
LEMMA WorkflowLiveDoneKeeps ==
  ASSUME W!Bounds, W!WorkflowInv, W!LiveDone
  PROVE  W!WorkflowInv' /\ WorkflowMoves
<1>0. W!RowShape /\ W!DaemonShape /\ W!Published /\ W!Drained /\ W!LateSound /\ W!WorkIsWanted /\ W!WorkIsWatched
  BY DEF W!WorkflowInv
<1>1. wRow' = wRow
  BY DEF W!LiveDone, W!runtime
<1>2. W!RowShape' /\ WorkflowMoves /\ WorkflowOn
  BY <1>0, <1>1, WorkflowRowLeft
<1>4. wServer' \in [id : 1 .. MaxDaemons, at : W!Phase] /\ wServer'.id = wServer.id /\ wServer'.at = "blocking"
  <2>1. "blocking" \in W!Phase /\ W!Server("blocking")
    BY DEF W!LiveDone, W!Phase
  <2> QED BY <1>0, <2>1, WorkflowServerMoves
<1>13. UNCHANGED <<wInitToken, wSignalled, wLive, wWorker, wWatcher, wCompletion, wClient>>
  BY DEF W!LiveDone, W!runtime
<1>5. W!DaemonShape'
  BY <1>0, <1>4, <1>13 DEF W!LiveDone, W!DaemonShape, W!Terminal
<1>6. W!Published'
  BY <1>0, <1>1, <1>4, <1>13 DEF W!LiveDone, W!DaemonShape, W!Published, W!Drained, W!Active, W!Terminal
<1>7. W!Drained'
  BY <1>0, <1>4, <1>13 DEF W!LiveDone, W!DaemonShape, W!Published, W!Drained, W!WorkIsWatched
<1>8. W!LateSound'
  <2>1. wLate' \subseteq wLate /\ (wLate' = {} \/ WorkflowOn)
    BY <1>0, <1>2 DEF W!LiveDone, W!LateSound
  <2>2. wLate' # {} => wInit' \in {"none", "left"} /\ wServer'.at \notin {"up", "down", "recover"}
    BY <1>0, <1>4, <1>13 DEF W!LiveDone, W!LateSound, W!Drained
  <2>3. wWorker' = "run" /\ wServer'.at \in {"drain", "live"} =>
          wLate' = {} \/ (wWorker = "run" /\ wServer.at \in {"drain", "live"})
    BY <1>0, <1>4, <1>13 DEF W!LiveDone, W!LateSound, W!Drained, W!Published, W!WorkIsWatched, W!DaemonShape, W!Phase
  <2> QED BY <1>0, <2>1, <2>2, <2>3, WorkflowLateLeft
<1>9. W!WorkIsWanted'
  BY <1>0, <1>1, <1>4, <1>13 DEF W!LiveDone, W!DaemonShape, W!Phase, W!Published, W!Drained, W!WorkIsWanted, W!WorkIsWatched, W!Current, W!Mine, W!Active, W!Terminal
<1>10. W!WorkIsWatched'
  BY <1>0, <1>1, <1>4, <1>13 DEF W!LiveDone, W!DaemonShape, W!Published, W!Drained, W!WorkIsWatched
<1> QED BY <1>2, <1>5, <1>6, <1>7, <1>8, <1>9, <1>10 DEF W!WorkflowInv

\* The row is interrupted before the worker is aborted.
LEMMA WorkflowForceInterruptKeeps ==
  ASSUME W!Bounds, W!WorkflowInv, W!ForceInterrupt
  PROVE  W!WorkflowInv' /\ WorkflowMoves
<1>0. W!RowShape /\ W!DaemonShape /\ W!Published /\ W!Drained /\ W!LateSound /\ W!WorkIsWanted /\ W!WorkIsWatched
  BY DEF W!WorkflowInv
<1>1. /\ W!RowShape' /\ WorkflowMoves /\ WorkflowOn
      /\ \/ wRow' = wRow /\ ~ (wRow.state = "queued" \/ W!Current)
         \/ /\ wRow.state = "queued" \/ W!Current
            /\ wRow.state \in W!Active /\ wRow'.state = "interrupted"
  <2>1. CASE wRow.state = "queued" \/ W!Current
    <3>1. wRow' = W!Interrupted(wRow, "worker_lost", wNow)
      BY <2>1 DEF W!ForceInterrupt, W!Write, W!InterruptOwned, W!Current, W!runtime
    <3>2. wRow.state \in W!Active
      BY <1>0, <2>1 DEF W!ForceInterrupt, W!Published, W!DaemonShape, W!Active, W!InterruptOwned, W!Current
    <3> QED BY <1>0, <2>1, <3>1, <3>2, WorkflowWriteInterrupted
  <2>2. CASE ~ (wRow.state = "queued" \/ W!Current)
    <3>1. wRow' = wRow
      BY <2>2 DEF W!ForceInterrupt, W!InterruptOwned, W!Current, W!runtime, W!Write
    <3> QED BY <1>0, <2>2, <3>1, WorkflowRowLeft
  <2> QED BY <2>1, <2>2
<1>2. W!RowShape' /\ WorkflowMoves /\ WorkflowOn
  BY <1>1
<1>4. wServer' \in [id : 1 .. MaxDaemons, at : W!Phase] /\ wServer'.id = wServer.id /\ wServer'.at = "force"
  <2>1. "force" \in W!Phase /\ W!Server("force")
    BY DEF W!ForceInterrupt, W!Phase
  <2> QED BY <1>0, <2>1, WorkflowServerMoves
<1>13. UNCHANGED <<wInitToken, wSignalled, wLive, wWorker, wWatcher, wCompletion, wClient>>
  BY DEF W!ForceInterrupt, W!runtime
<1>5. W!DaemonShape'
  BY <1>0, <1>4, <1>13 DEF W!ForceInterrupt, W!DaemonShape, W!Terminal, W!Current
<1>6. W!Published'
  BY <1>0, <1>1, <1>4, <1>13 DEF W!ForceInterrupt, W!DaemonShape, W!Published, W!Drained, W!Active, W!Terminal, W!Current
<1>7. W!Drained'
  BY <1>0, <1>4, <1>13 DEF W!ForceInterrupt, W!DaemonShape, W!Published, W!Drained, W!WorkIsWatched, W!Current
<1>8. W!LateSound'
  <2>1. wLate' \subseteq wLate /\ (wLate' = {} \/ WorkflowOn)
    BY <1>0, <1>2 DEF W!ForceInterrupt, W!LateSound, W!Current
  <2>2. wLate' # {} => wInit' \in {"none", "left"} /\ wServer'.at \notin {"up", "down", "recover"}
    BY <1>0, <1>4, <1>13 DEF W!ForceInterrupt, W!LateSound, W!Drained, W!Current
  <2>3. wWorker' = "run" /\ wServer'.at \in {"drain", "live"} =>
          wLate' = {} \/ (wWorker = "run" /\ wServer.at \in {"drain", "live"})
    BY <1>0, <1>4, <1>13 DEF W!ForceInterrupt, W!LateSound, W!Drained, W!Published, W!WorkIsWatched, W!DaemonShape, W!Phase, W!Current
  <2> QED BY <1>0, <2>1, <2>2, <2>3, WorkflowLateLeft
<1>9. W!WorkIsWanted'
  BY <1>0, <1>1, <1>4, <1>13 DEF W!ForceInterrupt, W!DaemonShape, W!Phase, W!Published, W!Drained, W!WorkIsWanted, W!WorkIsWatched, W!Current, W!Mine, W!Active, W!Terminal
<1>10. W!WorkIsWatched'
  BY <1>0, <1>1, <1>4, <1>13 DEF W!ForceInterrupt, W!DaemonShape, W!Published, W!Drained, W!WorkIsWatched, W!Current
<1> QED BY <1>2, <1>5, <1>6, <1>7, <1>8, <1>9, <1>10 DEF W!WorkflowInv

\* The forced interruption may fail or run on.
LEMMA WorkflowForceInterruptFailsKeeps ==
  ASSUME W!Bounds, W!WorkflowInv, W!ForceInterruptFails
  PROVE  W!WorkflowInv' /\ WorkflowMoves
<1>0. W!RowShape /\ W!DaemonShape /\ W!Published /\ W!Drained /\ W!LateSound /\ W!WorkIsWanted /\ W!WorkIsWatched
  BY DEF W!WorkflowInv
<1>1. wRow' = wRow
  BY DEF W!ForceInterruptFails, W!Fault, W!runtime
<1>2. W!RowShape' /\ WorkflowMoves /\ WorkflowOn
  BY <1>0, <1>1, WorkflowRowLeft
<1>4. wServer' \in [id : 1 .. MaxDaemons, at : W!Phase] /\ wServer'.id = wServer.id /\ wServer'.at = "force"
  <2>1. "force" \in W!Phase /\ W!Server("force")
    BY DEF W!ForceInterruptFails, W!Phase
  <2> QED BY <1>0, <2>1, WorkflowServerMoves
<1>3. wFaults' \in 0 .. MaxFaults
  BY <1>0 DEF W!ForceInterruptFails, W!Fault, W!DaemonShape, W!Bounds
<1>13. UNCHANGED <<wInitToken, wSignalled, wLive, wWorker, wWatcher, wCompletion, wClient>>
  BY DEF W!ForceInterruptFails, W!runtime
<1>5. W!DaemonShape'
  BY <1>0, <1>4, <1>3, <1>13 DEF W!ForceInterruptFails, W!DaemonShape, W!Terminal
<1>6. W!Published'
  BY <1>0, <1>1, <1>4, <1>3, <1>13 DEF W!ForceInterruptFails, W!DaemonShape, W!Published, W!Drained, W!Active, W!Terminal
<1>7. W!Drained'
  BY <1>0, <1>4, <1>3, <1>13 DEF W!ForceInterruptFails, W!DaemonShape, W!Published, W!Drained, W!WorkIsWatched
<1>8. W!LateSound'
  <2>1. /\ wInit' \in {"none", "left"} /\ wServer'.at = "force" /\ wRow.rev \in Nat
    BY <1>0, <1>4, WorkflowRowKnown DEF W!ForceInterruptFails, W!Drained
  <2>9. CASE wLate' = wLate
    <3>1. wLate' \subseteq wLate /\ WorkflowOn
      BY <1>2, <2>9
    <3> QED BY <1>0, <2>1, <2>9, <3>1, WorkflowLateLeft
  <2>2. CASE W!Current /\ wLate' \in W!LeftBehind("interrupted", wRow.rev)
    <3>1. wRow.state # "absent" /\ wRow.rev <= wRow.rev /\ "interrupted" \notin W!Settlement
          /\ "interrupted" \in W!Terminal
      BY <2>1, <2>2 DEF W!Current, W!Settlement, W!Terminal
    <3> QED BY <1>0, <1>1, <2>1, <2>2, <3>1, WorkflowLateAdded DEF W!LeftBehind
  <2> QED BY <2>2, <2>9 DEF W!ForceInterruptFails
<1>9. W!WorkIsWanted'
  BY <1>0, <1>1, <1>4, <1>3, <1>13 DEF W!ForceInterruptFails, W!DaemonShape, W!Phase, W!Published, W!Drained, W!WorkIsWanted, W!WorkIsWatched, W!Current, W!Mine, W!Active, W!Terminal
<1>10. W!WorkIsWatched'
  BY <1>0, <1>1, <1>4, <1>3, <1>13 DEF W!ForceInterruptFails, W!DaemonShape, W!Published, W!Drained, W!WorkIsWatched
<1> QED BY <1>2, <1>5, <1>6, <1>7, <1>8, <1>9, <1>10 DEF W!WorkflowInv

\* The worker is aborted.
LEMMA WorkflowForceAbortKeeps ==
  ASSUME W!Bounds, W!WorkflowInv, W!ForceAbort
  PROVE  W!WorkflowInv' /\ WorkflowMoves
<1>0. W!RowShape /\ W!DaemonShape /\ W!Published /\ W!Drained /\ W!LateSound /\ W!WorkIsWanted /\ W!WorkIsWatched
  BY DEF W!WorkflowInv
<1>1. wRow' = wRow
  BY DEF W!ForceAbort
<1>2. W!RowShape' /\ WorkflowMoves /\ WorkflowOn
  BY <1>0, <1>1, WorkflowRowLeft
<1>4. wServer' \in [id : 1 .. MaxDaemons, at : W!Phase] /\ wServer'.id = wServer.id /\ wServer'.at = "aborted"
  <2>1. "aborted" \in W!Phase /\ W!Server("aborted")
    BY DEF W!ForceAbort, W!Phase
  <2> QED BY <1>0, <2>1, WorkflowServerMoves
<1>5. W!DaemonShape'
  BY <1>0, <1>4 DEF W!ForceAbort, W!DaemonShape, W!Terminal
<1>6. W!Published'
  BY <1>0, <1>1, <1>4 DEF W!ForceAbort, W!DaemonShape, W!Published, W!Drained, W!Active, W!Terminal
<1>7. W!Drained'
  BY <1>0, <1>4 DEF W!ForceAbort, W!DaemonShape, W!Published, W!Drained, W!WorkIsWatched
<1>8. W!LateSound'
  <2>1. wLate' \subseteq wLate /\ (wLate' = {} \/ WorkflowOn)
    BY <1>0, <1>2 DEF W!ForceAbort, W!LateSound
  <2>2. wLate' # {} => wInit' \in {"none", "left"} /\ wServer'.at \notin {"up", "down", "recover"}
    BY <1>0, <1>4 DEF W!ForceAbort, W!LateSound, W!Drained
  <2>3. wWorker' = "run" /\ wServer'.at \in {"drain", "live"} =>
          wLate' = {} \/ (wWorker = "run" /\ wServer.at \in {"drain", "live"})
    BY <1>0, <1>4 DEF W!ForceAbort, W!LateSound, W!Drained, W!Published, W!WorkIsWatched, W!DaemonShape, W!Phase
  <2> QED BY <1>0, <2>1, <2>2, <2>3, WorkflowLateLeft
<1>9. W!WorkIsWanted'
  BY <1>0, <1>1, <1>4 DEF W!ForceAbort, W!DaemonShape, W!Phase, W!Published, W!Drained, W!WorkIsWanted, W!WorkIsWatched, W!Current, W!Mine, W!Active, W!Terminal
<1>10. W!WorkIsWatched'
  BY <1>0, <1>1, <1>4 DEF W!ForceAbort, W!DaemonShape, W!Published, W!Drained, W!WorkIsWatched
<1> QED BY <1>2, <1>5, <1>6, <1>7, <1>8, <1>9, <1>10 DEF W!WorkflowInv

\* The watcher is aborted; what it was writing may run on.
LEMMA WorkflowAbortWatcherKeeps ==
  ASSUME W!Bounds, W!WorkflowInv, W!AbortWatcher
  PROVE  W!WorkflowInv' /\ WorkflowMoves
<1>0. W!RowShape /\ W!DaemonShape /\ W!Published /\ W!Drained /\ W!LateSound /\ W!WorkIsWanted /\ W!WorkIsWatched
  BY DEF W!WorkflowInv
<1>1. wRow' = wRow
  BY DEF W!AbortWatcher
<1>2. W!RowShape' /\ WorkflowMoves /\ WorkflowOn
  BY <1>0, <1>1, WorkflowRowLeft
<1>4. wServer' \in [id : 1 .. MaxDaemons, at : W!Phase] /\ wServer'.id = wServer.id /\ wServer'.at = "blocking"
  <2>1. "blocking" \in W!Phase /\ W!Server("blocking")
    BY DEF W!AbortWatcher, W!Phase
  <2> QED BY <1>0, <2>1, WorkflowServerMoves
<1>5. W!DaemonShape'
  <2>1. wInitToken' \in BOOLEAN /\ wSignalled' \in BOOLEAN /\ wLive' \in BOOLEAN /\ wClient' \in BOOLEAN
    BY <1>0 DEF W!AbortWatcher, W!DaemonShape
  <2>2. /\ wServer' \in [id : 1 .. MaxDaemons, at : W!Phase]
        /\ wInit' \in {"none", "create", "created", "attach", "prepare", "spawn", "reread", "abandon", "failed", "left"}
        /\ wJournal' \in {"none", "prepared", "ended"}
        /\ wWorker' \in {"none", "gate", "run", "returned", "aborted", "dropped"}
        /\ wWatcher' \in {"none", "watch", "lost", "settle"}
        /\ wCompletion' \in W!Terminal \cup {"none"}
        /\ wNow' \in 0 .. MaxTime /\ wFaults' \in 0 .. MaxFaults
    BY <1>0, <1>4 DEF W!AbortWatcher, W!DaemonShape
  <2> QED BY <2>1, <2>2 DEF W!DaemonShape
<1>6. W!Published'
  BY <1>0, <1>1, <1>4 DEF W!AbortWatcher, W!DaemonShape, W!Published, W!Drained, W!Active, W!Terminal
<1>7. W!Drained'
  BY <1>0, <1>4 DEF W!AbortWatcher, W!DaemonShape, W!Published, W!Drained, W!WorkIsWatched
<1>8. W!LateSound'
  <2>1. /\ wInit' \in {"none", "left"} /\ wServer'.at = "blocking" /\ wRow.rev \in Nat
    BY <1>0, <1>4, WorkflowRowKnown DEF W!AbortWatcher, W!Drained
  <2>9. CASE wLate' = wLate
    <3>1. wLate' \subseteq wLate /\ WorkflowOn
      BY <1>2, <2>9
    <3> QED BY <1>0, <2>1, <2>9, <3>1, WorkflowLateLeft
  <2>2. CASE wWatcher = "settle" /\ wLate' \in W!LeftBehind(wCompletion, wRow.rev)
    <3>1. /\ wRow.state \notin {"absent", "queued"} /\ wRow.rev <= wRow.rev /\ wCompletion \in W!Terminal
          /\ wCompletion \notin {"create", "attach", "cancel"}
      BY <1>0, <2>1, <2>2 DEF W!Published, W!DaemonShape, W!Terminal
    <3> QED BY <1>0, <1>1, <2>1, <2>2, <3>1, WorkflowLateAdded DEF W!LeftBehind
  <2> QED BY <2>2, <2>9 DEF W!AbortWatcher
<1>9. W!WorkIsWanted'
  BY <1>0, <1>1, <1>4 DEF W!AbortWatcher, W!DaemonShape, W!Phase, W!Published, W!Drained, W!WorkIsWanted, W!WorkIsWatched, W!Current, W!Mine, W!Active, W!Terminal
<1>10. W!WorkIsWatched'
  BY <1>0, <1>1, <1>4 DEF W!AbortWatcher, W!DaemonShape, W!Published, W!Drained, W!WorkIsWatched
<1> QED BY <1>2, <1>5, <1>6, <1>7, <1>8, <1>9, <1>10 DEF W!WorkflowInv

\* The last pass, with nobody left who writes.
LEMMA WorkflowFinalPassKeeps ==
  ASSUME W!Bounds, W!WorkflowInv, W!FinalPass
  PROVE  W!WorkflowInv' /\ WorkflowMoves
<1>0. W!RowShape /\ W!DaemonShape /\ W!Published /\ W!Drained /\ W!LateSound /\ W!WorkIsWanted /\ W!WorkIsWatched
  BY DEF W!WorkflowInv
<1>1. /\ W!RowShape' /\ WorkflowMoves /\ WorkflowOn
      /\ \/ wRow' = wRow /\ ~ (wRow.state = "queued" \/ W!Current)
         \/ /\ wRow.state = "queued" \/ W!Current
            /\ wRow.state \in W!Active /\ wRow'.state = "interrupted"
  <2>1. CASE wRow.state = "queued" \/ W!Current
    <3>1. wRow' = W!Interrupted(wRow, "worker_lost", wNow)
      BY <2>1 DEF W!FinalPass, W!Write, W!InterruptOwned, W!Current
    <3>2. wRow.state \in W!Active
      BY <1>0, <2>1 DEF W!FinalPass, W!Published, W!DaemonShape, W!Active, W!InterruptOwned, W!Current
    <3> QED BY <1>0, <2>1, <3>1, <3>2, WorkflowWriteInterrupted
  <2>2. CASE ~ (wRow.state = "queued" \/ W!Current)
    <3>1. wRow' = wRow
      BY <2>2 DEF W!FinalPass, W!InterruptOwned, W!Current, W!Write
    <3> QED BY <1>0, <2>2, <3>1, WorkflowRowLeft
  <2> QED BY <2>1, <2>2
<1>2. W!RowShape' /\ WorkflowMoves /\ WorkflowOn
  BY <1>1
<1>4. wServer' \in [id : 1 .. MaxDaemons, at : W!Phase] /\ wServer'.id = wServer.id /\ wServer'.at = "down"
  <2>1. "down" \in W!Phase /\ W!Server("down")
    BY DEF W!FinalPass, W!Phase
  <2> QED BY <1>0, <2>1, WorkflowServerMoves
<1>5. W!DaemonShape'
  <2>1. wInitToken' \in BOOLEAN /\ wSignalled' \in BOOLEAN /\ wLive' \in BOOLEAN /\ wClient' \in BOOLEAN
    BY <1>0 DEF W!FinalPass, W!DaemonShape, W!Current
  <2>2. /\ wServer' \in [id : 1 .. MaxDaemons, at : W!Phase]
        /\ wInit' \in {"none", "create", "created", "attach", "prepare", "spawn", "reread", "abandon", "failed", "left"}
        /\ wJournal' \in {"none", "prepared", "ended"}
        /\ wWorker' \in {"none", "gate", "run", "returned", "aborted", "dropped"}
        /\ wWatcher' \in {"none", "watch", "lost", "settle"}
        /\ wCompletion' \in W!Terminal \cup {"none"}
        /\ wNow' \in 0 .. MaxTime /\ wFaults' \in 0 .. MaxFaults
    BY <1>0, <1>4 DEF W!FinalPass, W!DaemonShape, W!Current
  <2> QED BY <2>1, <2>2 DEF W!DaemonShape
<1>6. W!Published'
  BY <1>0, <1>1, <1>4 DEF W!FinalPass, W!DaemonShape, W!Published, W!Drained, W!Active, W!Terminal, W!Current
<1>7. W!Drained'
  BY <1>0, <1>4 DEF W!FinalPass, W!DaemonShape, W!Published, W!Drained, W!WorkIsWatched, W!Current
<1>8. W!LateSound'
  <2>1. wLate' \subseteq wLate /\ (wLate' = {} \/ WorkflowOn)
    BY <1>0, <1>2 DEF W!FinalPass, W!LateSound, W!Current
  <2>2. wLate' # {} => wInit' \in {"none", "left"} /\ wServer'.at \notin {"up", "down", "recover"}
    BY <1>0, <1>4 DEF W!FinalPass, W!LateSound, W!Drained, W!Current
  <2>3. wWorker' = "run" /\ wServer'.at \in {"drain", "live"} =>
          wLate' = {} \/ (wWorker = "run" /\ wServer.at \in {"drain", "live"})
    BY <1>0, <1>4 DEF W!FinalPass, W!LateSound, W!Drained, W!Published, W!WorkIsWatched, W!DaemonShape, W!Phase, W!Current
  <2> QED BY <1>0, <2>1, <2>2, <2>3, WorkflowLateLeft
<1>9. W!WorkIsWanted'
  BY <1>0, <1>1, <1>4 DEF W!FinalPass, W!DaemonShape, W!Phase, W!Published, W!Drained, W!WorkIsWanted, W!WorkIsWatched, W!Current, W!Mine, W!Active, W!Terminal
<1>10. W!WorkIsWatched'
  BY <1>0, <1>1, <1>4 DEF W!FinalPass, W!DaemonShape, W!Published, W!Drained, W!WorkIsWatched, W!Current
<1> QED BY <1>2, <1>5, <1>6, <1>7, <1>8, <1>9, <1>10 DEF W!WorkflowInv

\* The last pass may fail.
LEMMA WorkflowFinalPassFailsKeeps ==
  ASSUME W!Bounds, W!WorkflowInv, W!FinalPassFails
  PROVE  W!WorkflowInv' /\ WorkflowMoves
<1>0. W!RowShape /\ W!DaemonShape /\ W!Published /\ W!Drained /\ W!LateSound /\ W!WorkIsWanted /\ W!WorkIsWatched
  BY DEF W!WorkflowInv
<1>1. wRow' = wRow
  BY DEF W!FinalPassFails, W!Fault
<1>2. W!RowShape' /\ WorkflowMoves /\ WorkflowOn
  BY <1>0, <1>1, WorkflowRowLeft
<1>4. wServer' \in [id : 1 .. MaxDaemons, at : W!Phase] /\ wServer'.id = wServer.id /\ wServer'.at = "down"
  <2>1. "down" \in W!Phase /\ W!Server("down")
    BY DEF W!FinalPassFails, W!Phase
  <2> QED BY <1>0, <2>1, WorkflowServerMoves
<1>3. wFaults' \in 0 .. MaxFaults
  BY <1>0 DEF W!FinalPassFails, W!Fault, W!DaemonShape, W!Bounds
<1>5. W!DaemonShape'
  <2>1. wInitToken' \in BOOLEAN /\ wSignalled' \in BOOLEAN /\ wLive' \in BOOLEAN /\ wClient' \in BOOLEAN
    BY <1>0 DEF W!FinalPassFails, W!DaemonShape
  <2>2. /\ wServer' \in [id : 1 .. MaxDaemons, at : W!Phase]
        /\ wInit' \in {"none", "create", "created", "attach", "prepare", "spawn", "reread", "abandon", "failed", "left"}
        /\ wJournal' \in {"none", "prepared", "ended"}
        /\ wWorker' \in {"none", "gate", "run", "returned", "aborted", "dropped"}
        /\ wWatcher' \in {"none", "watch", "lost", "settle"}
        /\ wCompletion' \in W!Terminal \cup {"none"}
        /\ wNow' \in 0 .. MaxTime /\ wFaults' \in 0 .. MaxFaults
    BY <1>0, <1>4, <1>3 DEF W!FinalPassFails, W!DaemonShape
  <2> QED BY <2>1, <2>2 DEF W!DaemonShape
<1>6. W!Published'
  BY <1>0, <1>1, <1>4, <1>3 DEF W!FinalPassFails, W!DaemonShape, W!Published, W!Drained, W!Active, W!Terminal
<1>7. W!Drained'
  BY <1>0, <1>4, <1>3 DEF W!FinalPassFails, W!DaemonShape, W!Published, W!Drained, W!WorkIsWatched
<1>8. W!LateSound'
  <2>1. wLate' \subseteq wLate /\ (wLate' = {} \/ WorkflowOn)
    BY <1>0, <1>2 DEF W!FinalPassFails, W!LateSound
  <2>2. wLate' # {} => wInit' \in {"none", "left"} /\ wServer'.at \notin {"up", "down", "recover"}
    BY <1>0, <1>4, <1>3 DEF W!FinalPassFails, W!LateSound, W!Drained
  <2>3. wWorker' = "run" /\ wServer'.at \in {"drain", "live"} =>
          wLate' = {} \/ (wWorker = "run" /\ wServer.at \in {"drain", "live"})
    BY <1>0, <1>4, <1>3 DEF W!FinalPassFails, W!LateSound, W!Drained, W!Published, W!WorkIsWatched, W!DaemonShape, W!Phase
  <2> QED BY <1>0, <2>1, <2>2, <2>3, WorkflowLateLeft
<1>9. W!WorkIsWanted'
  BY <1>0, <1>1, <1>4, <1>3 DEF W!FinalPassFails, W!DaemonShape, W!Phase, W!Published, W!Drained, W!WorkIsWanted, W!WorkIsWatched, W!Current, W!Mine, W!Active, W!Terminal
<1>10. W!WorkIsWatched'
  BY <1>0, <1>1, <1>4, <1>3 DEF W!FinalPassFails, W!DaemonShape, W!Published, W!Drained, W!WorkIsWatched
<1> QED BY <1>2, <1>5, <1>6, <1>7, <1>8, <1>9, <1>10 DEF W!WorkflowInv

\* The next daemon.
LEMMA WorkflowStartKeeps ==
  ASSUME W!Bounds, W!WorkflowInv, W!Start
  PROVE  W!WorkflowInv' /\ WorkflowMoves
<1>0. W!RowShape /\ W!DaemonShape /\ W!Published /\ W!Drained /\ W!LateSound /\ W!WorkIsWanted /\ W!WorkIsWatched
  BY DEF W!WorkflowInv
<1>1. wRow' = wRow
  BY DEF W!Start, W!Gone
<1>2. W!RowShape' /\ WorkflowMoves /\ WorkflowOn
  BY <1>0, <1>1, WorkflowRowLeft
<1>3. wServer.id \in 1 .. MaxDaemons /\ wServer' = [id |-> wServer.id + 1, at |-> "recover"]
      /\ wServer.id < MaxDaemons
  BY <1>0 DEF W!Start, W!DaemonShape
<1>4. wServer' \in [id : 1 .. MaxDaemons, at : W!Phase] /\ wServer'.at = "recover"
  BY <1>3 DEF W!Bounds, W!Phase
<1>5. W!DaemonShape'
  BY <1>0, <1>4 DEF W!Start, W!DaemonShape, W!Terminal, W!Gone
<1>6. W!Published'
  BY <1>0, <1>1, <1>4 DEF W!Start, W!DaemonShape, W!Published, W!Drained, W!Active, W!Terminal, W!Gone
<1>7. W!Drained'
  BY <1>0, <1>4 DEF W!Start, W!DaemonShape, W!Published, W!Drained, W!WorkIsWatched, W!Gone
<1>8. W!LateSound'
  <2>1. wLate' \subseteq wLate /\ (wLate' = {} \/ WorkflowOn)
    BY <1>0, <1>2 DEF W!Start, W!LateSound, W!Gone
  <2>2. wLate' # {} => wInit' \in {"none", "left"} /\ wServer'.at \notin {"up", "down", "recover"}
    BY <1>0, <1>4 DEF W!Start, W!LateSound, W!Drained, W!Gone
  <2>3. wWorker' = "run" /\ wServer'.at \in {"drain", "live"} =>
          wLate' = {} \/ (wWorker = "run" /\ wServer.at \in {"drain", "live"})
    BY <1>0, <1>4 DEF W!Start, W!LateSound, W!Drained, W!Published, W!WorkIsWatched, W!DaemonShape, W!Phase, W!Gone
  <2> QED BY <1>0, <2>1, <2>2, <2>3, WorkflowLateLeft
<1>9. W!WorkIsWanted'
  BY <1>0, <1>1, <1>4 DEF W!Start, W!DaemonShape, W!Phase, W!Published, W!Drained, W!WorkIsWanted, W!WorkIsWatched, W!Current, W!Mine, W!Active, W!Terminal, W!Gone
<1>10. W!WorkIsWatched'
  BY <1>0, <1>1, <1>4 DEF W!Start, W!DaemonShape, W!Published, W!Drained, W!WorkIsWatched, W!Gone
<1> QED BY <1>2, <1>5, <1>6, <1>7, <1>8, <1>9, <1>10 DEF W!WorkflowInv

\* The next daemon interrupts what it finds active.
LEMMA WorkflowRecoverKeeps ==
  ASSUME W!Bounds, W!WorkflowInv, W!Recover
  PROVE  W!WorkflowInv' /\ WorkflowMoves
<1>0. W!RowShape /\ W!DaemonShape /\ W!Published /\ W!Drained /\ W!LateSound /\ W!WorkIsWanted /\ W!WorkIsWatched
  BY DEF W!WorkflowInv
<1>1. /\ W!RowShape' /\ WorkflowMoves /\ WorkflowOn
      /\ \/ wRow' = wRow /\ ~ (wRow.state \in W!Active)
         \/ /\ wRow.state \in W!Active
            /\ wRow.state \in W!Active /\ wRow'.state = "interrupted"
  <2>1. CASE wRow.state \in W!Active
    <3>1. wRow' = W!Interrupted(wRow, "worker_lost", wNow)
      BY <2>1 DEF W!Recover, W!Write, W!runtime
    <3>2. wRow.state \in W!Active
      BY <1>0, <2>1 DEF W!Recover, W!Published, W!DaemonShape, W!Active
    <3> QED BY <1>0, <2>1, <3>1, <3>2, WorkflowWriteInterrupted
  <2>2. CASE ~ (wRow.state \in W!Active)
    <3>1. wRow' = wRow
      BY <2>2 DEF W!Recover, W!runtime, W!Write
    <3> QED BY <1>0, <2>2, <3>1, WorkflowRowLeft
  <2> QED BY <2>1, <2>2
<1>2. W!RowShape' /\ WorkflowMoves /\ WorkflowOn
  BY <1>1
<1>4. wServer' \in [id : 1 .. MaxDaemons, at : W!Phase] /\ wServer'.id = wServer.id /\ wServer'.at = "up"
  <2>1. "up" \in W!Phase /\ W!Server("up")
    BY DEF W!Recover, W!Phase
  <2> QED BY <1>0, <2>1, WorkflowServerMoves
<1>13. UNCHANGED <<wInitToken, wSignalled, wLive, wWorker, wWatcher, wCompletion, wClient>>
  BY DEF W!Recover, W!runtime
<1>5. W!DaemonShape'
  BY <1>0, <1>4, <1>13 DEF W!Recover, W!DaemonShape, W!Terminal
<1>6. W!Published'
  BY <1>0, <1>1, <1>4, <1>13 DEF W!Recover, W!DaemonShape, W!Published, W!Drained, W!Active, W!Terminal
<1>7. W!Drained'
  BY <1>0, <1>4, <1>13 DEF W!Recover, W!DaemonShape, W!Published, W!Drained, W!WorkIsWatched
<1>8. W!LateSound'
  <2>1. wLate' \subseteq wLate /\ (wLate' = {} \/ WorkflowOn)
    BY <1>0, <1>2 DEF W!Recover, W!LateSound
  <2>2. wLate' # {} => wInit' \in {"none", "left"} /\ wServer'.at \notin {"up", "down", "recover"}
    BY <1>0, <1>4, <1>13 DEF W!Recover, W!LateSound, W!Drained
  <2>3. wWorker' = "run" /\ wServer'.at \in {"drain", "live"} =>
          wLate' = {} \/ (wWorker = "run" /\ wServer.at \in {"drain", "live"})
    BY <1>0, <1>4, <1>13 DEF W!Recover, W!LateSound, W!Drained, W!Published, W!WorkIsWatched, W!DaemonShape, W!Phase
  <2> QED BY <1>0, <2>1, <2>2, <2>3, WorkflowLateLeft
<1>9. W!WorkIsWanted'
  BY <1>0, <1>1, <1>4, <1>13 DEF W!Recover, W!DaemonShape, W!Phase, W!Published, W!Drained, W!WorkIsWanted, W!WorkIsWatched, W!Current, W!Mine, W!Active, W!Terminal
<1>10. W!WorkIsWatched'
  BY <1>0, <1>1, <1>4, <1>13 DEF W!Recover, W!DaemonShape, W!Published, W!Drained, W!WorkIsWatched
<1> QED BY <1>2, <1>5, <1>6, <1>7, <1>8, <1>9, <1>10 DEF W!WorkflowInv

\* A crash leaves only the row and the journal.
LEMMA WorkflowCrashKeeps ==
  ASSUME W!Bounds, W!WorkflowInv, W!Crash
  PROVE  W!WorkflowInv' /\ WorkflowMoves
<1>0. W!RowShape /\ W!DaemonShape /\ W!Published /\ W!Drained /\ W!LateSound /\ W!WorkIsWanted /\ W!WorkIsWatched
  BY DEF W!WorkflowInv
<1>1. wRow' = wRow
  BY DEF W!Crash, W!Fault, W!Gone
<1>2. W!RowShape' /\ WorkflowMoves /\ WorkflowOn
  BY <1>0, <1>1, WorkflowRowLeft
<1>4. wServer' \in [id : 1 .. MaxDaemons, at : W!Phase] /\ wServer'.id = wServer.id /\ wServer'.at = "down"
  <2>1. "down" \in W!Phase /\ W!Server("down")
    BY DEF W!Crash, W!Phase
  <2> QED BY <1>0, <2>1, WorkflowServerMoves
<1>3. wFaults' \in 0 .. MaxFaults
  BY <1>0 DEF W!Crash, W!Fault, W!DaemonShape, W!Bounds
<1>5. W!DaemonShape'
  BY <1>0, <1>4, <1>3 DEF W!Crash, W!DaemonShape, W!Terminal, W!Gone
<1>6. W!Published'
  BY <1>0, <1>1, <1>4, <1>3 DEF W!Crash, W!DaemonShape, W!Published, W!Drained, W!Active, W!Terminal, W!Gone
<1>7. W!Drained'
  BY <1>0, <1>4, <1>3 DEF W!Crash, W!DaemonShape, W!Published, W!Drained, W!WorkIsWatched, W!Gone
<1>8. W!LateSound'
  <2>1. wLate' \subseteq wLate /\ (wLate' = {} \/ WorkflowOn)
    BY <1>0, <1>2 DEF W!Crash, W!LateSound, W!Gone
  <2>2. wLate' # {} => wInit' \in {"none", "left"} /\ wServer'.at \notin {"up", "down", "recover"}
    BY <1>0, <1>4, <1>3 DEF W!Crash, W!LateSound, W!Drained, W!Gone
  <2>3. wWorker' = "run" /\ wServer'.at \in {"drain", "live"} =>
          wLate' = {} \/ (wWorker = "run" /\ wServer.at \in {"drain", "live"})
    BY <1>0, <1>4, <1>3 DEF W!Crash, W!LateSound, W!Drained, W!Published, W!WorkIsWatched, W!DaemonShape, W!Phase, W!Gone
  <2> QED BY <1>0, <2>1, <2>2, <2>3, WorkflowLateLeft
<1>9. W!WorkIsWanted'
  BY <1>0, <1>1, <1>4, <1>3 DEF W!Crash, W!DaemonShape, W!Phase, W!Published, W!Drained, W!WorkIsWanted, W!WorkIsWatched, W!Current, W!Mine, W!Active, W!Terminal, W!Gone
<1>10. W!WorkIsWatched'
  BY <1>0, <1>1, <1>4, <1>3 DEF W!Crash, W!DaemonShape, W!Published, W!Drained, W!WorkIsWatched, W!Gone
<1> QED BY <1>2, <1>5, <1>6, <1>7, <1>8, <1>9, <1>10 DEF W!WorkflowInv

\* Time passes.
LEMMA WorkflowTickKeeps ==
  ASSUME W!Bounds, W!WorkflowInv, W!Tick
  PROVE  W!WorkflowInv' /\ WorkflowMoves
<1>0. W!RowShape /\ W!DaemonShape /\ W!Published /\ W!Drained /\ W!LateSound /\ W!WorkIsWanted /\ W!WorkIsWatched
  BY DEF W!WorkflowInv
<1>1. wRow' = wRow
  BY DEF W!Tick, W!runtime
<1>2. W!RowShape' /\ WorkflowMoves /\ WorkflowOn
  BY <1>0, <1>1, WorkflowRowLeft
<1>13. UNCHANGED <<wInitToken, wSignalled, wLive, wWorker, wWatcher, wCompletion, wClient>>
  BY DEF W!Tick, W!runtime
<1>5. W!DaemonShape'
  BY <1>0, <1>13 DEF W!Tick, W!DaemonShape, W!Bounds
<1>6. W!Published'
  BY <1>0, <1>1, <1>13 DEF W!Tick, W!DaemonShape, W!Published, W!Drained, W!Active, W!Terminal
<1>7. W!Drained'
  BY <1>0, <1>13 DEF W!Tick, W!DaemonShape, W!Published, W!Drained, W!WorkIsWatched
<1>8. W!LateSound'
  <2>1. wLate' \subseteq wLate /\ (wLate' = {} \/ WorkflowOn)
    BY <1>0, <1>2 DEF W!Tick, W!LateSound
  <2>2. wLate' # {} => wInit' \in {"none", "left"} /\ wServer'.at \notin {"up", "down", "recover"}
    BY <1>0, <1>13 DEF W!Tick, W!LateSound, W!Drained
  <2>3. wWorker' = "run" /\ wServer'.at \in {"drain", "live"} =>
          wLate' = {} \/ (wWorker = "run" /\ wServer.at \in {"drain", "live"})
    BY <1>0, <1>13 DEF W!Tick, W!LateSound, W!Drained, W!Published, W!WorkIsWatched, W!DaemonShape, W!Phase
  <2> QED BY <1>0, <2>1, <2>2, <2>3, WorkflowLateLeft
<1>9. W!WorkIsWanted'
  BY <1>0, <1>1, <1>13 DEF W!Tick, W!DaemonShape, W!Phase, W!Published, W!Drained, W!WorkIsWanted, W!WorkIsWatched, W!Current, W!Mine, W!Active, W!Terminal
<1>10. W!WorkIsWatched'
  BY <1>0, <1>1, <1>13 DEF W!Tick, W!DaemonShape, W!Published, W!Drained, W!WorkIsWatched
<1> QED BY <1>2, <1>5, <1>6, <1>7, <1>8, <1>9, <1>10 DEF W!WorkflowInv

\* A call left behind commits only on the row it was made for.
LEMMA WorkflowLateCallKeeps ==
  ASSUME W!Bounds, W!WorkflowInv, W!LateCall
  PROVE  W!WorkflowInv' /\ WorkflowMoves
<1>0. W!RowShape /\ W!DaemonShape /\ W!Published /\ W!Drained /\ W!LateSound /\ W!WorkIsWanted /\ W!WorkIsWatched
  BY DEF W!WorkflowInv
<1>1. PICK op \in wLate :
        /\ wLate' = wLate \ {op}
        /\ wRow' = IF op.rev # wRow.rev \/ wRow.state \in W!Terminal THEN wRow
                  ELSE CASE op.what = "create" -> W!Created(wNow)
                         [] op.what = "attach" -> W!AttachedNow
                         [] op.what = "cancel" -> W!CancelRequested(wRow, wNow)
                         [] OTHER -> W!Final(wRow, op.what)
  BY DEF W!LateCall
<1>2. UNCHANGED <<wServer, wInit, wInitToken, wSignalled, wLive, wWorker, wWatcher, wCompletion, wClient, wJournal, wNow, wFaults>>
  BY DEF W!LateCall, W!runtime
<1>3. /\ op \in [what : W!Terminal \cup {"create", "attach", "cancel"}, rev : Nat] /\ op.rev <= wRow.rev
      /\ op.what = "create" <=> wRow.state = "absent"
      /\ op.what \in {"create", "attach"} => op.rev = 0
      /\ op.what = "cancel" /\ op.rev = wRow.rev => wRow.state \in {"queued", "running"}
      /\ op.what \in W!Settlement => wRow.state # "queued"
      /\ wInit \in {"none", "left"} /\ wServer.at \notin {"up", "down", "recover"}
      /\ wWorker = "run" /\ wServer.at \in {"drain", "live"} => op.what = "cancel"
  BY <1>0, <1>1 DEF W!LateSound
<1>4. op.what \in W!Terminal \cup {"create", "attach", "cancel"}
  BY <1>3
<1>5. /\ W!RowShape' /\ WorkflowMoves /\ (WorkflowOn \/ op.what = "create")
      /\ \/ wRow' = wRow
         \/ op.what = "create" /\ wRow'.state = "queued" /\ wRow.state = "absent" /\ op.rev = wRow.rev
         \/ /\ op.what = "cancel" /\ wRow.state \in {"queued", "running"}
            /\ wRow'.controller = wRow.controller
            /\ wRow'.state = (IF wRow.state = "queued" THEN "cancelled" ELSE "cancelling")
         \/ /\ op.what \notin {"cancel", "create"} /\ wRow.state \in W!Active
            /\ wRow'.state \notin {"absent", "queued"}
  <2>1. CASE op.rev # wRow.rev \/ wRow.state \in W!Terminal
    <3>1. wRow' = wRow
      BY <1>1, <2>1
    <3> QED BY <1>0, <3>1, WorkflowRowLeft
  <2>2. CASE op.rev = wRow.rev /\ wRow.state \notin W!Terminal /\ op.what = "create"
    <3>1. wRow' = W!Created(wNow) /\ wRow.state = "absent"
      BY <1>1, <1>3, <2>2
    <3> QED BY <1>0, <2>2, <3>1, WorkflowWriteCreated
  <2>3. CASE op.rev = wRow.rev /\ wRow.state \notin W!Terminal /\ op.what = "attach"
    <3>1. wRow' = W!AttachedNow
      BY <1>1, <2>3
    <3>2. wRow.state = "queued" /\ wRow.rev = 0 /\ wRow.state \in W!Active
      <4>1. wRow.rev = 0 /\ wRow.state # "absent" /\ W!WellFormed(wRow)
        BY <1>0, <1>3, <2>3, WorkflowRowKnown
      <4> QED BY <4>1 DEF W!WellFormed, W!Active
    <3> QED BY <1>0, <2>3, <3>1, <3>2, WorkflowWriteAttached
  <2>4. CASE op.rev = wRow.rev /\ wRow.state \notin W!Terminal /\ op.what = "cancel"
    <3>1. wRow' = W!CancelRequested(wRow, wNow)
      BY <1>1, <2>4
    <3>2. W!CanCancel(wRow) /\ wRow.state \in {"queued", "running"}
      BY <1>3, <2>4 DEF W!CanCancel
    <3> QED BY <1>0, <2>4, <3>1, <3>2, WorkflowWriteCancelled
  <2>5. CASE op.rev = wRow.rev /\ wRow.state \notin W!Terminal /\ op.what \notin {"create", "attach", "cancel"}
    <3>1. wRow' = W!Final(wRow, op.what) /\ op.what \in W!Terminal
      BY <1>1, <1>4, <2>5
    <3>2. wRow.state \in W!Active /\ op.what \notin {"absent", "queued"}
      BY <1>0, <1>3, <2>5, <3>1, WorkflowRowKnown DEF W!Terminal
    <3>3. W!RowShape' /\ WorkflowMoves /\ WorkflowOn /\ wRow'.state = op.what
      BY <1>0, <1>3, <3>1, <3>2, WorkflowWriteFinal
    <3> QED BY <2>5, <3>2, <3>3
  <2> QED BY <2>1, <2>2, <2>3, <2>4, <2>5
<1>6. W!DaemonShape' /\ W!Drained' /\ W!WorkIsWatched'
  BY <1>0, <1>2 DEF W!DaemonShape, W!Drained, W!WorkIsWatched
<1>7. W!Published'
  BY <1>0, <1>2, <1>3, <1>5 DEF W!Published, W!Active
<1>8. W!LateSound'
  <2>1. /\ wLate' \subseteq wLate
        /\ (wLate' # {} => wInit' \in {"none", "left"} /\ wServer'.at \notin {"up", "down", "recover"})
        /\ (wWorker' = "run" /\ wServer'.at \in {"drain", "live"} =>
              wLate' = {} \/ (wWorker = "run" /\ wServer.at \in {"drain", "live"}))
    BY <1>1, <1>2, <1>3
  <2>2. op.what = "create" /\ wRow.state = "absent" => wLate' = {}
    <3>1. SUFFICES ASSUME op.what = "create", wRow.state = "absent", NEW other \in wLate'
                   PROVE  FALSE
      OBVIOUS
    <3>2. /\ other \in wLate /\ other # op /\ other.what = "create" /\ other.rev = 0
          /\ other \in [what : W!Terminal \cup {"create", "attach", "cancel"}, rev : Nat]
      BY <1>0, <1>1, <3>1 DEF W!LateSound
    <3>3. op.what = "create" /\ op.rev = 0
      BY <1>3, <3>1
    <3> QED BY <1>3, <3>2, <3>3
  <2> QED BY <1>0, <1>3, <1>5, <2>1, <2>2, WorkflowLateLeft
<1>9. W!WorkIsWanted'
  BY <1>0, <1>2, <1>3, <1>5 DEF W!WorkIsWanted, W!Current, W!Mine
<1> QED BY <1>5, <1>6, <1>7, <1>8, <1>9 DEF W!WorkflowInv

\* The initial row.
LEMMA WorkflowInit ==
  ASSUME W!Bounds, W!Init
  PROVE  W!WorkflowInv
<1>1. W!NoTask \in W!TaskRecord(Daemons) /\ W!NoTask.state = "absent"
  BY DEF W!NoTask, W!TaskRecord, W!Failure, W!Active, W!Terminal, Daemons
<1>2. W!WellFormed(W!NoTask)
  BY DEF W!NoTask, W!WellFormed, W!Active
<1>3. W!RowShape
  BY <1>1, <1>2 DEF W!Init, W!RowShape, Daemons
<1>4. 1 \in 1 .. MaxDaemons /\ 0 \in 0 .. MaxFaults /\ 0 \in 0 .. MaxTime
  BY DEF W!Bounds
<1>5. wServer \in [id : 1 .. MaxDaemons, at : W!Phase] /\ wServer.at = "up"
  BY <1>4 DEF W!Init, W!Phase
<1>6. W!DaemonShape
  BY <1>4, <1>5 DEF W!Init, W!DaemonShape
<1>7. W!Published /\ W!Drained /\ W!WorkIsWanted /\ W!WorkIsWatched
  BY <1>1, <1>5 DEF W!Init, W!Published, W!Drained, W!WorkIsWanted, W!WorkIsWatched
<1>8. W!LateSound
  BY DEF W!Init, W!LateSound
<1> QED BY <1>3, <1>6, <1>7, <1>8 DEF W!WorkflowInv

\* Every step of the daemons.
LEMMA WorkflowStep ==
  ASSUME W!Bounds, W!WorkflowInv, W!Next
  PROVE  W!WorkflowInv' /\ WorkflowMoves
<1>1. CASE W!Initialize
  BY <1>1, WorkflowCreateTaskKeeps, WorkflowRegisterTokenKeeps, WorkflowAbandonKeeps, WorkflowCleanFailedKeeps, WorkflowCleanUpLostKeeps, WorkflowAttachControllerKeeps, WorkflowAttachFailsKeeps, WorkflowPrepareJournalKeeps, WorkflowPrepareFailsKeeps, WorkflowPrepareLostKeeps, WorkflowSpawnWorkerKeeps, WorkflowOpenGateKeeps, WorkflowRereadFailsKeeps DEF W!Initialize
<1>2. CASE W!Watch
  BY <1>2, WorkflowWatchWorkerKeeps, WorkflowRenewLeaseKeeps, WorkflowLeaseLostKeeps, WorkflowRenewFailsKeeps, WorkflowPersistCompletionKeeps DEF W!Watch
<1>3. CASE W!Shutdown
  BY <1>3, WorkflowAbortInitializerKeeps, WorkflowRequestCancellationKeeps, WorkflowRequestFailsKeeps, WorkflowLiveDoneKeeps, WorkflowForceInterruptKeeps, WorkflowForceInterruptFailsKeeps, WorkflowForceAbortKeeps, WorkflowAbortWatcherKeeps, WorkflowFinalPassKeeps, WorkflowFinalPassFailsKeeps DEF W!Shutdown
<1>4. CASE W!Submit \/ W!WorkerReturns \/ W!WorkerDropped \/ W!LateCall \/ W!CancelTask \/ W!Signal \/ W!HangUp \/ W!BeginShutdown \/ W!Start \/ W!Recover \/ W!Crash \/ W!Tick
  BY <1>4, WorkflowSubmitKeeps, WorkflowWorkerReturnsKeeps, WorkflowWorkerDroppedKeeps, WorkflowLateCallKeeps, WorkflowCancelTaskKeeps, WorkflowSignalKeeps, WorkflowHangUpKeeps, WorkflowBeginShutdownKeeps, WorkflowStartKeeps, WorkflowRecoverKeeps, WorkflowCrashKeeps, WorkflowTickKeeps
<1> QED BY <1>1, <1>2, <1>3, <1>4 DEF W!Next

\* A step that leaves the daemons alone.
LEMMA WorkflowStutter ==
  ASSUME W!WorkflowInv, UNCHANGED W!vars
  PROVE  W!WorkflowInv' /\ WorkflowMoves
<1>1. UNCHANGED <<wRow, wServer, wInit, wInitToken, wSignalled, wLive, wWorker, wWatcher, wCompletion, wClient,
                  wJournal, wLate, wNow, wFaults>>
  BY DEF W!vars, W!runtime
<1>2. W!RowShape' /\ WorkflowMoves
  BY <1>1, WorkflowRowLeft DEF W!WorkflowInv
<1>3. W!DaemonShape' /\ W!Published' /\ W!Drained' /\ W!WorkIsWanted' /\ W!WorkIsWatched'
  BY <1>1 DEF W!WorkflowInv, W!DaemonShape, W!Published, W!Drained, W!WorkIsWanted, W!WorkIsWatched, W!Current, W!Mine
<1>4. W!LateSound'
  BY <1>1 DEF W!WorkflowInv, W!LateSound
<1> QED BY <1>2, <1>3, <1>4 DEF W!WorkflowInv

\* The invariant says what the run checks.
LEMMA WorkflowInvSuffices ==
  ASSUME W!WorkflowInv
  PROVE  W!WorkflowTypeOK /\ W!RowWellFormed /\ W!LockCoversWrites /\ W!WorkIsWanted /\ W!WorkIsWatched
<1>0. W!RowShape /\ W!DaemonShape /\ W!Published /\ W!Drained /\ W!LateSound /\ W!WorkIsWanted /\ W!WorkIsWatched
  BY DEF W!WorkflowInv
<1>1. wRow.state \in W!Active \cup W!Terminal \cup {"absent"} /\ W!WellFormed(wRow)
  BY <1>0, WorkflowRowKnown
<1>2. wServer.id \in 1 .. MaxDaemons /\ wServer.at \in W!Phase
  BY <1>0 DEF W!DaemonShape
<1>3. wLate \subseteq [what : W!Terminal \cup {"create", "attach", "cancel"}, rev : Nat]
  BY <1>0 DEF W!LateSound
<1>4. W!WorkflowTypeOK
  BY <1>0, <1>1, <1>2, <1>3 DEF W!DaemonShape, W!WorkflowTypeOK, W!Phase
<1>5. W!LockCoversWrites
  <2>1. wServer.at \in {"down", "recover"} => wLate = {}
    BY <1>0 DEF W!LateSound
  <2> QED BY <1>0, <2>1 DEF W!LockCoversWrites, W!Drained, W!Published
<1> QED BY <1>0, <1>1, <1>4, <1>5 DEF W!RowWellFormed

\* The daemons' invariant holds whatever the behaviour is about.
LEMMA WorkflowInvariant == MCSpec => []W!WorkflowInv
<1>1. MCInit => W!WorkflowInv
  BY DaemonAssumption, WorkflowInit DEF MCInit
<1>2. ASSUME W!WorkflowInv, [MCNext]_allVars PROVE W!WorkflowInv'
  <2>1. CASE W!Next
    BY <1>2, <2>1, DaemonAssumption, WorkflowStep
  <2>2. CASE UNCHANGED workflowVars
    <3>1. UNCHANGED W!vars
      BY <2>2 DEF workflowVars, W!vars, W!runtime
    <3> QED BY <1>2, <3>1, WorkflowStutter
  <2> QED BY <1>2, <2>1, <2>2 DEF MCNext, allVars
<1> QED BY <1>1, <1>2, PTL DEF MCSpec

\* A workflow's row is readable after every write and moves only along its
\* lifecycle, also when a call left behind by an aborted future commits late;
\* a released lock leaves nobody who writes; a workflow that runs has its
\* journal, a row running under this daemon and a watcher (WorkflowsSupervised).
THEOREM WorkflowsStaySupervised == MCSpec => WorkflowsSupervised
<1>1. W!WorkflowInv => /\ W!WorkflowTypeOK /\ W!RowWellFormed /\ W!LockCoversWrites
                       /\ W!WorkIsWanted /\ W!WorkIsWatched
  BY WorkflowInvSuffices
<1>2. ASSUME W!WorkflowInv, [MCNext]_allVars
      PROVE  [wRow' # wRow => wRow.state \notin W!Terminal /\ W!LegalStep(wRow, wRow')]_wRow
  <2>1. CASE W!Next
    BY <1>2, <2>1, DaemonAssumption, WorkflowStep DEF WorkflowMoves
  <2>2. CASE UNCHANGED workflowVars
    BY <2>2 DEF workflowVars
  <2> QED BY <1>2, <2>1, <2>2 DEF MCNext, allVars
<1> QED BY <1>1, <1>2, WorkflowInvariant, PTL
         DEF MCSpec, WorkflowsSupervised, W!WorkflowsSupervised, W!RowMovesLegally

-----------------------------------------------------------------------------
(* The process of a harness. *)

\* The future after a step, field by field.
Now(at, auth, why, lost) ==
    /\ fut'.at = at /\ fut'.auth = auth /\ fut'.why = why /\ fut'.lost = lost
    /\ fut.bad => fut'.bad

\* The first report.
LEMMA ProcessFirstReport == \A r : Append(<<>>, r) = <<r>>
<1> TAKE r
<1>1. <<>> \in Seq({r}) /\ <<r>> \in Seq({r})
  OBVIOUS
<1>2. Append(<<>>, r) \in Seq({r}) /\ Len(Append(<<>>, r)) = 1 /\ Append(<<>>, r)[1] = r
  BY <1>1, AppendProperties
<1> QED BY <1>1, <1>2, SeqEqual

\* The second report.
LEMMA ProcessSecondReport == \A r : Append(<<"started">>, r) = <<"started", r>>
<1> TAKE r
<1>1. <<"started">> \in Seq({"started", r}) /\ <<"started", r>> \in Seq({"started", r})
  OBVIOUS
<1>2. /\ Append(<<"started">>, r) \in Seq({"started", r}) /\ Len(Append(<<"started">>, r)) = 2
      /\ Append(<<"started">>, r)[1] = "started" /\ Append(<<"started">>, r)[2] = r
  BY <1>1, AppendProperties
<1>3. /\ Len(<<"started", r>>) = 2 /\ <<"started", r>>[1] = "started" /\ <<"started", r>>[2] = r
      /\ 1 .. 2 = {1, 2}
  OBVIOUS
<1> QED BY <1>1, <1>2, <1>3, SeqEqual

\* No two stages of the reports are the same, and a report leads to the next.
LEMMA ProcessReported ==
  /\ P!Unsaid # P!Begun /\ P!Unsaid \notin P!Refused \cup P!Finished \cup P!SaidEmpty
  /\ P!Begun \notin P!Refused \cup P!Finished \cup P!SaidEmpty
  /\ \A r \in {"empty", "stopped"} : Append(P!Unsaid, r) \in P!Refused /\ Append(P!Begun, r) \in P!Finished
  /\ \A r \in {"empty", "stopped"} :
       r = "stopped" => Append(P!Unsaid, r) \notin P!SaidEmpty /\ Append(P!Begun, r) \notin P!SaidEmpty
<1>1. Append(<<>>, "empty") = <<"empty">> /\ Append(<<>>, "stopped") = <<"stopped">>
  BY ProcessFirstReport
<1>2. \A r : Append(<<"started">>, r) = <<"started", r>>
  BY ProcessSecondReport
<1>3. \A r, s : <<r>> # <<"started", s>>
  OBVIOUS
<1>4. \A r, s : (<<r>> = <<s>> => r = s) /\ (<<"started", r>> = <<"started", s>> => r = s)
  OBVIOUS
<1>5. \A r, s : <<>> # <<r>> /\ <<>> # <<r, s>>
  OBVIOUS
<1> QED BY <1>1, <1>2, <1>3, <1>4, <1>5 DEF P!Unsaid, P!Begun, P!Refused, P!Finished, P!SaidEmpty

\* The future asks for the permission to start: what may change.
LEMMA ProcessAuthorizeStep ==
  ASSUME P!ProcessShape, P!Authorize
  PROVE  /\ fut.at = "authorize"
         /\ UNCHANGED <<gated, P!os, gate, reports, stop>>
         /\ fut' \in P!FutureState
         /\ \/ Now("spawn", fut.auth, fut.why, fut.lost)
            \/ Now("ended", fut.auth, fut.why, fut.lost)
<1>1. CASE P!Goto("spawn")
  BY <1>1 DEF P!ProcessShape, P!Authorize, P!Goto, Now, P!FutureState, P!Place, P!Childless, P!Holding, P!Resigned, P!Gone, P!Untouched, P!Still, P!os
<1>2. CASE fut' = [fut EXCEPT !.at = "ended", !.bad = TRUE]
  BY <1>2 DEF P!ProcessShape, P!Authorize, P!Goto, Now, P!FutureState, P!Place, P!Childless, P!Holding, P!Resigned, P!Gone, P!Untouched, P!Still, P!os
<1> QED BY <1>1, <1>2 DEF P!Authorize, P!Goto

\* The future starts the leader: what may change.
LEMMA ProcessSpawnStep ==
  ASSUME P!ProcessShape, P!Spawn
  PROVE  /\ fut.at = "spawn"
         /\ UNCHANGED <<gated, gate, reports, stop, doomed, holds, foreign, struck, status, murdered>>
         /\ fut' \in P!FutureState
         /\ \/ /\ Now("announce", TRUE, fut.why, fut.lost)
               /\ proc' = [proc EXCEPT !["leader"] = "alive"]
               /\ sentinel' = IF gated THEN "gate" ELSE "none"
            \/ Now("authorize", fut.auth, fut.why, fut.lost) /\ UNCHANGED <<proc, sentinel>>
            \/ Now("ended", fut.auth, fut.why, fut.lost) /\ UNCHANGED <<proc, sentinel>>
<1>1. CASE /\ stop = "no" /\ fut' = [fut EXCEPT !.at = "announce", !.auth = TRUE]
           /\ proc' = [proc EXCEPT !["leader"] = "alive"]
           /\ UNCHANGED doomed
           /\ sentinel' = IF gated THEN "gate" ELSE "none"
  BY <1>1 DEF P!ProcessShape, P!Spawn, P!Goto, Now, P!FutureState, P!Place, P!Childless, P!Holding, P!Resigned, P!Gone, P!Still
<1>2. CASE /\ fut' = [fut EXCEPT !.at = "authorize", !.retries = @ + 1]
           /\ UNCHANGED <<proc, sentinel, doomed>>
  <2>1. fut.retries + 1 \in Nat /\ fut' = [fut EXCEPT !.at = "authorize", !.retries = fut.retries + 1]
    BY <1>2 DEF P!ProcessShape, P!FutureState
  <2>2. fut' \in P!FutureState /\ Now("authorize", fut.auth, fut.why, fut.lost)
    BY <2>1 DEF P!ProcessShape, Now, P!FutureState, P!Place, P!Childless, P!Holding, P!Resigned, P!Gone
  <2> QED BY <1>2, <2>2 DEF P!Spawn, P!Still
<1>3. CASE /\ fut' = [fut EXCEPT !.at = "ended", !.bad = TRUE]
           /\ UNCHANGED <<proc, sentinel, doomed>>
  BY <1>3 DEF P!ProcessShape, P!Spawn, P!Goto, Now, P!FutureState, P!Place, P!Childless, P!Holding, P!Resigned, P!Gone, P!Still
<1> QED BY <1>1, <1>2, <1>3 DEF P!Spawn, P!Goto

\* The future announces it: what may change.
LEMMA ProcessAnnounceStep ==
  ASSUME P!ProcessShape, P!Announce
  PROVE  /\ fut.at = "announce"
         /\ UNCHANGED <<gated, gate, stop, proc, holds, foreign, sentinel, status, murdered>>
         /\ fut' \in P!FutureState
         /\ \/ /\ Now(IF gated THEN "release" ELSE "select", fut.auth, fut.why, fut.lost)
               /\ reports' = IF gated THEN P!Begun ELSE reports
               /\ UNCHANGED <<doomed, struck>>
            \/ gated /\ Now("abort", fut.auth, fut.why, fut.lost) /\ P!KillGroup("abort") /\ UNCHANGED reports
<1>1. CASE /\ P!Goto(IF gated THEN "release" ELSE "select")
           /\ reports' = IF gated THEN <<"started">> ELSE reports
           /\ P!NoSignal
  BY <1>1 DEF P!ProcessShape, P!Announce, P!Goto, Now, P!FutureState, P!Place, P!Childless, P!Holding, P!Resigned, P!Gone, P!Still, P!Quiet, P!NoSignal, P!Begun
<1>2. CASE gated /\ P!Goto("abort") /\ P!KillGroup("abort") /\ UNCHANGED reports
  BY <1>2 DEF P!ProcessShape, P!Announce, P!Goto, Now, P!FutureState, P!Place, P!Childless, P!Holding, P!Resigned, P!Gone, P!Still, P!Quiet, P!NoSignal, P!Begun
<1> QED BY <1>1, <1>2 DEF P!Announce, P!Goto

\* The future opens the gate: what may change.
LEMMA ProcessReleaseStep ==
  ASSUME P!ProcessShape, P!Release
  PROVE  /\ fut.at = "release"
         /\ UNCHANGED <<gated, stop, proc, reports, holds, foreign, sentinel, status, murdered>>
         /\ fut' \in P!FutureState
         /\ \/ Now("select", fut.auth, fut.why, fut.lost) /\ gate' = "go" /\ UNCHANGED <<doomed, struck>>
            \/ Now("abort", fut.auth, fut.why, fut.lost) /\ gate' = "eof" /\ P!KillGroup("abort")
<1>1. CASE P!Goto("select") /\ gate' = "go" /\ P!NoSignal
  BY <1>1 DEF P!ProcessShape, P!Release, P!Goto, Now, P!FutureState, P!Place, P!Childless, P!Holding, P!Resigned, P!Gone, P!Still, P!Quiet, P!NoSignal
<1>2. CASE P!Goto("abort") /\ gate' = "eof" /\ P!KillGroup("abort")
  BY <1>2 DEF P!ProcessShape, P!Release, P!Goto, Now, P!FutureState, P!Place, P!Childless, P!Holding, P!Resigned, P!Gone, P!Still, P!Quiet, P!NoSignal
<1> QED BY <1>1, <1>2 DEF P!Release, P!Goto

\* The future reaps what it aborted: what may change.
LEMMA ProcessAbortStep ==
  ASSUME P!ProcessShape, P!Abort
  PROVE  /\ fut.at = "abort"
         /\ UNCHANGED <<gated, stop, gate, doomed, struck, holds, foreign, sentinel, status, murdered>>
         /\ fut' \in P!FutureState
         /\ \/ /\ proc["leader"] = "zombie" /\ proc' = [proc EXCEPT !["leader"] = "dead"]
               /\ Now("abortSettle", FALSE, fut.why, fut.lost) /\ UNCHANGED reports
            \/ Now("ended", FALSE, fut.why, TRUE) /\ fut'.bad /\ P!Stopped(FALSE) /\ UNCHANGED proc
<1>1. CASE P!Reaps([fut EXCEPT !.at = "abortSettle", !.bad = TRUE]) /\ UNCHANGED reports
  BY <1>1 DEF P!ProcessShape, P!Abort, P!Goto, Now, P!FutureState, P!Place, P!Childless, P!Holding, P!Resigned, P!Gone, P!Still, P!Quiet, P!NoSignal, P!Reaps, P!WaitFails
<1>2. CASE P!WaitFails([fut EXCEPT !.at = "ended"]) /\ P!Stopped(FALSE)
  BY <1>2 DEF P!ProcessShape, P!Abort, P!Goto, Now, P!FutureState, P!Place, P!Childless, P!Holding, P!Resigned, P!Gone, P!Still, P!Quiet, P!NoSignal, P!Reaps, P!WaitFails
<1> QED BY <1>1, <1>2 DEF P!Abort, P!Goto

\* The future reports the abort: what may change.
LEMMA ProcessAbortSettleStep ==
  ASSUME P!ProcessShape, P!AbortSettle
  PROVE  /\ fut.at = "abortSettle"
         /\ UNCHANGED <<gated, stop, gate, P!os>>
         /\ fut' \in P!FutureState
         /\ Now("ended", FALSE, fut.why, fut.lost) /\ P!Stopped(~P!NumberAlive)
  BY DEF P!ProcessShape, P!AbortSettle, P!Goto, Now, P!FutureState, P!Place, P!Childless, P!Holding, P!Resigned, P!Gone, P!Still, P!Untouched, P!Settles, P!Disarm, P!os

\* The future waits for the leader, a stop or the time: what may change.
LEMMA ProcessSelectStep ==
  ASSUME P!ProcessShape, P!Select
  PROVE  /\ fut.at = "select"
         /\ UNCHANGED <<gated, gate, reports, stop, holds, foreign, sentinel, status, murdered, doomed>>
         /\ fut' \in P!FutureState
         /\ \/ /\ Now("termLeader", fut.auth, stop, fut.lost) /\ stop # "no"
               /\ P!TermGroup("terminate") /\ UNCHANGED proc
            \/ /\ proc["leader"] = "zombie" /\ proc' = [proc EXCEPT !["leader"] = "dead"]
               /\ Now("drain", FALSE, "exited", fut.lost)
               /\ (gated /\ status # "code" => fut'.bad) /\ UNCHANGED struck
            \/ Now("drain", FALSE, fut.why, TRUE) /\ fut'.bad /\ UNCHANGED <<proc, struck>>
<1>1. CASE /\ stop # "no" /\ fut' = [fut EXCEPT !.at = "termLeader", !.why = stop]
           /\ P!TermGroup("terminate") /\ UNCHANGED proc
  BY <1>1 DEF P!ProcessShape, P!Select, P!Goto, Now, P!FutureState, P!Place, P!Childless, P!Holding, P!Resigned, P!Gone, P!Still, P!Quiet, P!NoSignal, P!Reaps, P!WaitFails, P!Exited, P!TermGroup
<1>2. CASE P!Reaps(P!Exited([fut EXCEPT !.at = "drain"])) /\ P!NoSignal
  BY <1>2 DEF P!ProcessShape, P!Select, P!Goto, Now, P!FutureState, P!Place, P!Childless, P!Holding, P!Resigned, P!Gone, P!Still, P!Quiet, P!NoSignal, P!Reaps, P!WaitFails, P!Exited, P!TermGroup
<1>3. CASE P!WaitFails([fut EXCEPT !.at = "drain"]) /\ P!NoSignal
  BY <1>3 DEF P!ProcessShape, P!Select, P!Goto, Now, P!FutureState, P!Place, P!Childless, P!Holding, P!Resigned, P!Gone, P!Still, P!Quiet, P!NoSignal, P!Reaps, P!WaitFails, P!Exited, P!TermGroup
<1> QED BY <1>1, <1>2, <1>3 DEF P!Select, P!Goto

\* The future waits for the leader it terminates: what may change.
LEMMA ProcessTermLeaderStep ==
  ASSUME P!ProcessShape, P!TermLeader
  PROVE  /\ fut.at = "termLeader"
         /\ UNCHANGED <<gated, gate, stop, holds, foreign, sentinel, status, murdered>>
         /\ fut' \in P!FutureState
         /\ \/ /\ proc["leader"] = "zombie" /\ proc' = [proc EXCEPT !["leader"] = "dead"]
               /\ Now("termGroup", FALSE, fut.why, fut.lost) /\ UNCHANGED <<doomed, struck, reports>>
            \/ /\ Now("ended", FALSE, fut.why, TRUE) /\ fut'.bad
               /\ P!Stopped(FALSE) /\ UNCHANGED <<proc, doomed, struck>>
            \/ Now("killLeader", fut.auth, fut.why, fut.lost) /\ P!KillGroup("terminate") /\ UNCHANGED <<proc, reports>>
<1>1. CASE P!Reaps([fut EXCEPT !.at = "termGroup"]) /\ P!NoSignal /\ UNCHANGED reports
  BY <1>1 DEF P!ProcessShape, P!TermLeader, P!Goto, Now, P!FutureState, P!Place, P!Childless, P!Holding, P!Resigned, P!Gone, P!Still, P!Quiet, P!NoSignal, P!Reaps, P!WaitFails
<1>2. CASE P!WaitFails([fut EXCEPT !.at = "ended"]) /\ P!NoSignal /\ P!Stopped(FALSE)
  BY <1>2 DEF P!ProcessShape, P!TermLeader, P!Goto, Now, P!FutureState, P!Place, P!Childless, P!Holding, P!Resigned, P!Gone, P!Still, P!Quiet, P!NoSignal, P!Reaps, P!WaitFails
<1>3. CASE P!Goto("killLeader") /\ P!KillGroup("terminate") /\ UNCHANGED <<proc, reports>>
  BY <1>3 DEF P!ProcessShape, P!TermLeader, P!Goto, Now, P!FutureState, P!Place, P!Childless, P!Holding, P!Resigned, P!Gone, P!Still, P!Quiet, P!NoSignal, P!Reaps, P!WaitFails
<1> QED BY <1>1, <1>2, <1>3 DEF P!TermLeader, P!Goto

\* The future gives the rest of the group its time: what may change.
LEMMA ProcessTermRestStep ==
  ASSUME P!ProcessShape, P!TermRest
  PROVE  /\ fut.at = "termGroup"
         /\ UNCHANGED <<gated, gate, stop, proc, reports, holds, foreign, sentinel, status, murdered>>
         /\ fut' \in P!FutureState
         /\ \/ ~P!NumberAlive /\ Now("drain", fut.auth, fut.why, fut.lost) /\ UNCHANGED <<doomed, struck>>
            \/ gated /\ Now("drain", fut.auth, fut.why, fut.lost) /\ UNCHANGED <<doomed, struck>>
            \/ ~gated /\ Now("settle", fut.auth, fut.why, fut.lost) /\ P!KillGroup("terminate")
<1>1. CASE ~P!NumberAlive /\ P!Goto("drain") /\ P!NoSignal
  BY <1>1 DEF P!ProcessShape, P!TermRest, P!Goto, Now, P!FutureState, P!Place, P!Childless, P!Holding, P!Resigned, P!Gone, P!Still, P!Quiet, P!NoSignal
<1>2. CASE gated /\ P!NumberAlive /\ fut' = [fut EXCEPT !.at = "drain", !.bad = TRUE] /\ P!NoSignal
  BY <1>2 DEF P!ProcessShape, P!TermRest, P!Goto, Now, P!FutureState, P!Place, P!Childless, P!Holding, P!Resigned, P!Gone, P!Still, P!Quiet, P!NoSignal
<1>3. CASE ~gated /\ P!NumberAlive /\ P!Goto("settle") /\ P!KillGroup("terminate")
  BY <1>3 DEF P!ProcessShape, P!TermRest, P!Goto, Now, P!FutureState, P!Place, P!Childless, P!Holding, P!Resigned, P!Gone, P!Still, P!Quiet, P!NoSignal
<1> QED BY <1>1, <1>2, <1>3 DEF P!TermRest, P!Goto

\* The future reaps the leader it killed: what may change.
LEMMA ProcessKillLeaderStep ==
  ASSUME P!ProcessShape, P!KillLeader
  PROVE  /\ fut.at = "killLeader"
         /\ UNCHANGED <<gated, stop, gate, doomed, struck, holds, foreign, sentinel, status, murdered>>
         /\ fut' \in P!FutureState
         /\ \/ /\ proc["leader"] = "zombie" /\ proc' = [proc EXCEPT !["leader"] = "dead"]
               /\ Now("settle", FALSE, fut.why, fut.lost) /\ UNCHANGED reports
            \/ Now("ended", FALSE, fut.why, TRUE) /\ fut'.bad /\ P!Stopped(FALSE) /\ UNCHANGED proc
<1>1. CASE P!Reaps([fut EXCEPT !.at = "settle"]) /\ UNCHANGED reports
  BY <1>1 DEF P!ProcessShape, P!KillLeader, P!Goto, Now, P!FutureState, P!Place, P!Childless, P!Holding, P!Resigned, P!Gone, P!Still, P!Quiet, P!NoSignal, P!Reaps, P!WaitFails
<1>2. CASE P!WaitFails([fut EXCEPT !.at = "ended"]) /\ P!Stopped(FALSE)
  BY <1>2 DEF P!ProcessShape, P!KillLeader, P!Goto, Now, P!FutureState, P!Place, P!Childless, P!Holding, P!Resigned, P!Gone, P!Still, P!Quiet, P!NoSignal, P!Reaps, P!WaitFails
<1> QED BY <1>1, <1>2 DEF P!KillLeader, P!Goto

\* The future waits for the group to be empty: what may change.
LEMMA ProcessSettleStep ==
  ASSUME P!ProcessShape, P!Settle
  PROVE  /\ fut.at = "settle"
         /\ UNCHANGED <<gated, stop, gate, reports, P!os>>
         /\ fut' \in P!FutureState
         /\ Now("drain", fut.auth, fut.why, fut.lost)
  BY DEF P!ProcessShape, P!Settle, P!Goto, Now, P!FutureState, P!Place, P!Childless, P!Holding, P!Resigned, P!Gone, P!Still, P!Untouched, P!os

\* The future drains the output: what may change.
LEMMA ProcessDrainStep ==
  ASSUME P!ProcessShape, P!Drain
  PROVE  /\ fut.at = "drain"
         /\ UNCHANGED <<gated, gate, stop, proc, reports, holds, foreign, sentinel, status, murdered>>
         /\ fut' \in P!FutureState
         /\ \/ P!MaySignal /\ P!NumberAlive /\ Now("residual", fut.auth, fut.why, fut.lost) /\ P!TermGroup("residual")
            \/ ~(P!MaySignal /\ P!NumberAlive) /\ Now("observe", fut.auth, fut.why, fut.lost) /\ UNCHANGED <<doomed, struck>>
            \/ /\ Now("observe", fut.auth, fut.why, fut.lost)
               /\ IF P!MaySignal THEN P!KillGroup("drain") ELSE UNCHANGED <<doomed, struck>>
<1>1. CASE P!PipesClosed /\ P!MaySignal /\ P!NumberAlive
  BY <1>1 DEF P!ProcessShape, P!Drain, P!Goto, Now, P!FutureState, P!Place, P!Childless, P!Holding, P!Resigned, P!Gone, P!Still, P!Quiet, P!NoSignal
<1>2. CASE P!PipesClosed /\ ~(P!MaySignal /\ P!NumberAlive)
  BY <1>2 DEF P!ProcessShape, P!Drain, P!Goto, Now, P!FutureState, P!Place, P!Childless, P!Holding, P!Resigned, P!Gone, P!Still, P!Quiet, P!NoSignal
<1>3. CASE ~P!PipesClosed
  BY <1>3 DEF P!ProcessShape, P!Drain, P!Goto, Now, P!FutureState, P!Place, P!Childless, P!Holding, P!Resigned, P!Gone, P!Still, P!Quiet, P!NoSignal
<1> QED BY <1>1, <1>2, <1>3 DEF P!Drain, P!Goto

\* The future signals whoever is left: what may change.
LEMMA ProcessResidualStep ==
  ASSUME P!ProcessShape, P!Residual
  PROVE  /\ fut.at = "residual"
         /\ UNCHANGED <<gated, gate, stop, proc, holds, foreign, sentinel, status, murdered>>
         /\ fut' \in P!FutureState
         /\ \/ ~P!NumberAlive /\ Now("ended", FALSE, fut.why, fut.lost) /\ P!Stopped(TRUE) /\ UNCHANGED <<doomed, struck>>
            \/ P!NumberAlive /\ Now("observe", fut.auth, fut.why, fut.lost) /\ P!KillGroup("residual") /\ UNCHANGED reports
<1>1. CASE ~P!NumberAlive /\ P!Disarm(TRUE) /\ P!NoSignal
  BY <1>1 DEF P!ProcessShape, P!Residual, P!Goto, Now, P!FutureState, P!Place, P!Childless, P!Holding, P!Resigned, P!Gone, P!Still, P!Quiet, P!NoSignal, P!Disarm
<1>2. CASE P!NumberAlive /\ P!Goto("observe") /\ P!KillGroup("residual") /\ UNCHANGED reports
  BY <1>2 DEF P!ProcessShape, P!Residual, P!Goto, Now, P!FutureState, P!Place, P!Childless, P!Holding, P!Resigned, P!Gone, P!Still, P!Quiet, P!NoSignal, P!Disarm
<1> QED BY <1>1, <1>2 DEF P!Residual, P!Goto

\* The future looks once more and reports: what may change.
LEMMA ProcessObserveStep ==
  ASSUME P!ProcessShape, P!Observe
  PROVE  /\ fut.at = "observe"
         /\ UNCHANGED <<gated, stop, gate, P!os>>
         /\ fut' \in P!FutureState
         /\ Now("ended", FALSE, fut.why, fut.lost) /\ P!Stopped(~P!NumberAlive)
  BY DEF P!ProcessShape, P!Observe, P!Goto, Now, P!FutureState, P!Place, P!Childless, P!Holding, P!Resigned, P!Gone, P!Still, P!Untouched, P!Settles, P!Disarm, P!os

\* The future is dropped, and its guard signals: what may change.
LEMMA ProcessDroppedStep ==
  ASSUME P!ProcessShape, P!Dropped
  PROVE  /\ fut.at \notin P!Gone \cup {"announce", "release"}
         /\ UNCHANGED <<gated, stop, proc, holds, foreign, sentinel, status, murdered>>
         /\ fut' \in P!FutureState
         /\ /\ Now("ended", FALSE, IF fut.auth \/ fut.at \in P!Childless THEN "dropped" ELSE "late", fut.lost)
            /\ IF fut.auth THEN P!KillGroup("drop") ELSE UNCHANGED <<doomed, struck>>
            /\ IF fut.at \in P!Childless THEN UNCHANGED reports ELSE P!Stopped(FALSE)
            /\ gate' = IF gate = "closed" THEN "eof" ELSE gate
  BY DEF P!ProcessShape, P!Dropped, P!Goto, Now, P!FutureState, P!Place, P!Childless, P!Holding, P!Resigned, P!Gone, P!Still, P!Quiet, P!NoSignal

\* The future ends with its process: what may change.
LEMMA ProcessCrashStep ==
  ASSUME P!ProcessShape, P!Crash
  PROVE  /\ fut.at # "crashed"
         /\ UNCHANGED <<gated, P!os, reports, stop>>
         /\ fut' \in P!FutureState
         /\ Now("crashed", fut.auth, fut.why, fut.lost) /\ gate' = IF gate = "closed" THEN "eof" ELSE gate
  BY DEF P!ProcessShape, P!Crash, P!Goto, Now, P!FutureState, P!Place, P!Childless, P!Holding, P!Resigned, P!Gone, P!Still, P!Untouched, P!os

\* The fields of the future.
LEMMA ProcessFields ==
  ASSUME fut \in P!FutureState
  PROVE  /\ fut.at \in P!Place /\ fut.auth \in BOOLEAN /\ fut.bad \in BOOLEAN /\ fut.lost \in BOOLEAN
         /\ fut.why \in {"none", "exited", "cancelled", "timed_out", "dropped", "late"}
  BY DEF P!FutureState

\* A signal to the group reaches all who live, or nobody.
LEMMA ProcessSignalled ==
  ASSUME P!ProcessShape, NEW who, P!KillGroup(who)
  PROVE  /\ doomed \subseteq doomed' /\ doomed' \subseteq P!Member
         /\ P!OurGroup => P!Alive \subseteq doomed' /\ struck' = struck
         /\ ~P!OurGroup => P!Alive = {} /\ doomed' = doomed /\ struck' \in {who, struck}
  BY DEF P!ProcessShape, P!KillGroup, P!OurGroup, P!Alive

\* A leader who was not reaped keeps the number of the group.
LEMMA ProcessHeld == ASSUME P!ProcessShape, proc["leader"] \in {"alive", "zombie"} PROVE P!OurGroup
  BY DEF P!ProcessShape, P!OurGroup, P!Alive, P!Member

\* A member ends.
LEMMA ProcessEndsKeeps ==
  ASSUME P!ProcessInv, NEW m \in P!Member, P!Ends(m)
  PROVE  P!ProcessInv'
<1>0. /\ P!ProcessShape /\ P!GroupSound /\ P!SentinelSound /\ P!GuardSound /\ P!LeftSound /\ P!ReportsSound
      /\ P!SignalsStayInside /\ P!CodeIsTheTargets
  BY DEF P!ProcessInv
<1>1. P!ProcessShape'
  BY <1>0 DEF P!ProcessShape, P!Member, P!Alive, P!world, P!Ends
<1>2. P!GroupSound'
  BY <1>0, <1>1, ProcessFields DEF P!ProcessShape, P!Member, P!GroupSound, P!Alive, P!SentinelSound, P!Ends, P!world, P!Gone
<1>3. P!SentinelSound'
  BY <1>0, <1>1, ProcessFields DEF P!ProcessShape, P!Member, P!SentinelSound, P!Alive, P!GroupSound, P!Ends, P!world, P!Gone
<1>4. P!GuardSound'
  BY <1>0, <1>1, ProcessFields DEF P!ProcessShape, P!Member, P!GuardSound, P!Childless, P!Holding, P!Resigned, P!Gone, P!GroupSound, P!SentinelSound, P!Ends, P!world
<1>5. P!LeftSound'
  BY <1>0, <1>1, ProcessFields DEF P!ProcessShape, P!Member, P!LeftSound, P!Contained, P!Alive, P!Excused, P!Childless, P!Holding, P!Resigned, P!Gone, P!GroupSound, P!SentinelSound, P!Ends, P!world
<1>6. P!ReportsSound'
  BY <1>0, <1>1, ProcessFields DEF P!ProcessShape, P!Member, P!ReportsSound, P!OurGroup, P!Alive, P!Childless, P!Holding, P!Resigned, P!Gone, P!GroupSound, P!SentinelSound, P!Ends, P!world
<1>7. P!SignalsStayInside'
  BY <1>0, <1>1, ProcessFields DEF P!ProcessShape, P!Member, P!SignalsStayInside, P!GroupSound, P!SentinelSound, P!Ends, P!world, P!Gone
<1>8. P!CodeIsTheTargets'
  BY <1>0, <1>1, ProcessFields DEF P!ProcessShape, P!Member, P!CodeIsTheTargets, P!GroupSound, P!SentinelSound, P!Ends, P!world, P!Gone
<1> QED BY <1>1, <1>2, <1>3, <1>4, <1>5, <1>6, <1>7, <1>8 DEF P!ProcessInv

\* A member forks.
LEMMA ProcessForksKeeps ==
  ASSUME P!ProcessInv, P!Forks
  PROVE  P!ProcessInv'
<1>0. /\ P!ProcessShape /\ P!GroupSound /\ P!SentinelSound /\ P!GuardSound /\ P!LeftSound /\ P!ReportsSound
      /\ P!SignalsStayInside /\ P!CodeIsTheTargets
  BY DEF P!ProcessInv
<1>1. P!ProcessShape'
  BY <1>0 DEF P!ProcessShape, P!Member, P!Alive, P!world, P!Forks
<1>2. P!GroupSound'
  BY <1>0, <1>1, ProcessFields DEF P!ProcessShape, P!Member, P!GroupSound, P!Alive, P!SentinelSound, P!Forks, P!world, P!Gone
<1>3. P!SentinelSound'
  BY <1>0, <1>1, ProcessFields DEF P!ProcessShape, P!Member, P!SentinelSound, P!Alive, P!GroupSound, P!Forks, P!world, P!Gone
<1>4. P!GuardSound'
  BY <1>0, <1>1, ProcessFields DEF P!ProcessShape, P!Member, P!GuardSound, P!Childless, P!Holding, P!Resigned, P!Gone, P!GroupSound, P!SentinelSound, P!Forks, P!world
<1>5. P!LeftSound'
  BY <1>0, <1>1, ProcessFields DEF P!ProcessShape, P!Member, P!LeftSound, P!Contained, P!Alive, P!Excused, P!Childless, P!Holding, P!Resigned, P!Gone, P!GroupSound, P!SentinelSound, P!Forks, P!world
<1>6. P!ReportsSound'
  BY <1>0, <1>1, ProcessFields DEF P!ProcessShape, P!Member, P!ReportsSound, P!OurGroup, P!Alive, P!Childless, P!Holding, P!Resigned, P!Gone, P!GroupSound, P!SentinelSound, P!Forks, P!world
<1>7. P!SignalsStayInside'
  BY <1>0, <1>1, ProcessFields DEF P!ProcessShape, P!Member, P!SignalsStayInside, P!GroupSound, P!SentinelSound, P!Forks, P!world, P!Gone
<1>8. P!CodeIsTheTargets'
  BY <1>0, <1>1, ProcessFields DEF P!ProcessShape, P!Member, P!CodeIsTheTargets, P!GroupSound, P!SentinelSound, P!Forks, P!world, P!Gone
<1> QED BY <1>1, <1>2, <1>3, <1>4, <1>5, <1>6, <1>7, <1>8 DEF P!ProcessInv

\* A zombie is collected.
LEMMA ProcessCollectedKeeps ==
  ASSUME P!ProcessInv, P!Collected
  PROVE  P!ProcessInv'
<1>0. /\ P!ProcessShape /\ P!GroupSound /\ P!SentinelSound /\ P!GuardSound /\ P!LeftSound /\ P!ReportsSound
      /\ P!SignalsStayInside /\ P!CodeIsTheTargets
  BY DEF P!ProcessInv
<1>1. P!ProcessShape'
  BY <1>0 DEF P!ProcessShape, P!Member, P!Alive, P!world, P!Collected
<1>2. P!GroupSound'
  BY <1>0, <1>1, ProcessFields DEF P!ProcessShape, P!Member, P!GroupSound, P!Alive, P!SentinelSound, P!Collected, P!world, P!Gone
<1>3. P!SentinelSound'
  BY <1>0, <1>1, ProcessFields DEF P!ProcessShape, P!Member, P!SentinelSound, P!Alive, P!GroupSound, P!Collected, P!world, P!Gone
<1>4. P!GuardSound'
  BY <1>0, <1>1, ProcessFields DEF P!ProcessShape, P!Member, P!GuardSound, P!Childless, P!Holding, P!Resigned, P!Gone, P!GroupSound, P!SentinelSound, P!Collected, P!world
<1>5. P!LeftSound'
  BY <1>0, <1>1, ProcessFields DEF P!ProcessShape, P!Member, P!LeftSound, P!Contained, P!Alive, P!Excused, P!Childless, P!Holding, P!Resigned, P!Gone, P!GroupSound, P!SentinelSound, P!Collected, P!world
<1>6. P!ReportsSound'
  BY <1>0, <1>1, ProcessFields DEF P!ProcessShape, P!Member, P!ReportsSound, P!OurGroup, P!Alive, P!Childless, P!Holding, P!Resigned, P!Gone, P!GroupSound, P!SentinelSound, P!Collected, P!world
<1>7. P!SignalsStayInside'
  BY <1>0, <1>1, ProcessFields DEF P!ProcessShape, P!Member, P!SignalsStayInside, P!GroupSound, P!SentinelSound, P!Collected, P!world, P!Gone
<1>8. P!CodeIsTheTargets'
  BY <1>0, <1>1, ProcessFields DEF P!ProcessShape, P!Member, P!CodeIsTheTargets, P!GroupSound, P!SentinelSound, P!Collected, P!world, P!Gone
<1> QED BY <1>1, <1>2, <1>3, <1>4, <1>5, <1>6, <1>7, <1>8 DEF P!ProcessInv

\* An empty group's number is given away.
LEMMA ProcessReusedKeeps ==
  ASSUME P!ProcessInv, P!Reused
  PROVE  P!ProcessInv'
<1>0. /\ P!ProcessShape /\ P!GroupSound /\ P!SentinelSound /\ P!GuardSound /\ P!LeftSound /\ P!ReportsSound
      /\ P!SignalsStayInside /\ P!CodeIsTheTargets
  BY DEF P!ProcessInv
<1>1. P!ProcessShape'
  BY <1>0 DEF P!ProcessShape, P!Member, P!Alive, P!world, P!Reused
<1>2. P!GroupSound'
  BY <1>0, <1>1, ProcessFields DEF P!ProcessShape, P!Member, P!GroupSound, P!Alive, P!SentinelSound, P!Reused, P!world, P!Gone
<1>3. P!SentinelSound'
  BY <1>0, <1>1, ProcessFields DEF P!ProcessShape, P!Member, P!SentinelSound, P!Alive, P!GroupSound, P!Reused, P!world, P!Gone
<1>4. P!GuardSound'
  BY <1>0, <1>1, ProcessFields DEF P!ProcessShape, P!Member, P!GuardSound, P!Childless, P!Holding, P!Resigned, P!Gone, P!GroupSound, P!SentinelSound, P!Reused, P!world
<1>5. P!LeftSound'
  BY <1>0, <1>1, ProcessFields DEF P!ProcessShape, P!Member, P!LeftSound, P!Contained, P!Alive, P!Excused, P!Childless, P!Holding, P!Resigned, P!Gone, P!GroupSound, P!SentinelSound, P!Reused, P!world
<1>6. P!ReportsSound'
  BY <1>0, <1>1, ProcessFields DEF P!ProcessShape, P!Member, P!ReportsSound, P!OurGroup, P!Alive, P!Childless, P!Holding, P!Resigned, P!Gone, P!GroupSound, P!SentinelSound, P!Reused, P!world
<1>7. P!SignalsStayInside'
  BY <1>0, <1>1, ProcessFields DEF P!ProcessShape, P!Member, P!SignalsStayInside, P!GroupSound, P!SentinelSound, P!Reused, P!world, P!Gone
<1>8. P!CodeIsTheTargets'
  BY <1>0, <1>1, ProcessFields DEF P!ProcessShape, P!Member, P!CodeIsTheTargets, P!GroupSound, P!SentinelSound, P!Reused, P!world, P!Gone
<1> QED BY <1>1, <1>2, <1>3, <1>4, <1>5, <1>6, <1>7, <1>8 DEF P!ProcessInv

\* A stranger kills the sentinel.
LEMMA ProcessMurderedKeeps ==
  ASSUME P!ProcessInv, P!Murdered
  PROVE  P!ProcessInv'
<1>0. /\ P!ProcessShape /\ P!GroupSound /\ P!SentinelSound /\ P!GuardSound /\ P!LeftSound /\ P!ReportsSound
      /\ P!SignalsStayInside /\ P!CodeIsTheTargets
  BY DEF P!ProcessInv
<1>1. P!ProcessShape'
  BY <1>0 DEF P!ProcessShape, P!Member, P!Alive, P!world, P!Murdered
<1>2. P!GroupSound'
  BY <1>0, <1>1, ProcessFields DEF P!ProcessShape, P!Member, P!GroupSound, P!Alive, P!SentinelSound, P!Murdered, P!world, P!Gone
<1>3. P!SentinelSound'
  BY <1>0, <1>1, ProcessFields DEF P!ProcessShape, P!Member, P!SentinelSound, P!Alive, P!GroupSound, P!Murdered, P!world, P!Gone
<1>4. P!GuardSound'
  BY <1>0, <1>1, ProcessFields DEF P!ProcessShape, P!Member, P!GuardSound, P!Childless, P!Holding, P!Resigned, P!Gone, P!GroupSound, P!SentinelSound, P!Murdered, P!world
<1>5. P!LeftSound'
  BY <1>0, <1>1, ProcessFields DEF P!ProcessShape, P!Member, P!LeftSound, P!Contained, P!Alive, P!Excused, P!Childless, P!Holding, P!Resigned, P!Gone, P!GroupSound, P!SentinelSound, P!Murdered, P!world
<1>6. P!ReportsSound'
  BY <1>0, <1>1, ProcessFields DEF P!ProcessShape, P!Member, P!ReportsSound, P!OurGroup, P!Alive, P!Childless, P!Holding, P!Resigned, P!Gone, P!GroupSound, P!SentinelSound, P!Murdered, P!world
<1>7. P!SignalsStayInside'
  BY <1>0, <1>1, ProcessFields DEF P!ProcessShape, P!Member, P!SignalsStayInside, P!GroupSound, P!SentinelSound, P!Murdered, P!world, P!Gone
<1>8. P!CodeIsTheTargets'
  BY <1>0, <1>1, ProcessFields DEF P!ProcessShape, P!Member, P!CodeIsTheTargets, P!GroupSound, P!SentinelSound, P!Murdered, P!world, P!Gone
<1> QED BY <1>1, <1>2, <1>3, <1>4, <1>5, <1>6, <1>7, <1>8 DEF P!ProcessInv

\* The sentinel starts its target.
LEMMA ProcessSentinelStartsKeeps ==
  ASSUME P!ProcessInv, P!SentinelStarts
  PROVE  P!ProcessInv'
<1>0. /\ P!ProcessShape /\ P!GroupSound /\ P!SentinelSound /\ P!GuardSound /\ P!LeftSound /\ P!ReportsSound
      /\ P!SignalsStayInside /\ P!CodeIsTheTargets
  BY DEF P!ProcessInv
<1>1. P!ProcessShape'
  BY <1>0 DEF P!ProcessShape, P!Member, P!Alive, P!world, P!SentinelStarts, P!SentinelActs
<1>2. P!GroupSound'
  BY <1>0, <1>1, ProcessFields DEF P!ProcessShape, P!Member, P!GroupSound, P!Alive, P!SentinelSound, P!SentinelStarts, P!SentinelActs, P!world, P!Gone
<1>3. P!SentinelSound'
  BY <1>0, <1>1, ProcessFields DEF P!ProcessShape, P!Member, P!SentinelSound, P!Alive, P!GroupSound, P!SentinelStarts, P!SentinelActs, P!world, P!Gone
<1>4. P!GuardSound'
  BY <1>0, <1>1, ProcessFields DEF P!ProcessShape, P!Member, P!GuardSound, P!Childless, P!Holding, P!Resigned, P!Gone, P!GroupSound, P!SentinelSound, P!SentinelStarts, P!SentinelActs, P!world
<1>5. P!LeftSound'
  BY <1>0, <1>1, ProcessFields DEF P!ProcessShape, P!Member, P!LeftSound, P!Contained, P!Alive, P!Excused, P!Childless, P!Holding, P!Resigned, P!Gone, P!GroupSound, P!SentinelSound, P!SentinelStarts, P!SentinelActs, P!world
<1>6. P!ReportsSound'
  BY <1>0, <1>1, ProcessFields DEF P!ProcessShape, P!Member, P!ReportsSound, P!OurGroup, P!Alive, P!Childless, P!Holding, P!Resigned, P!Gone, P!GroupSound, P!SentinelSound, P!SentinelStarts, P!SentinelActs, P!world
<1>7. P!SignalsStayInside'
  BY <1>0, <1>1, ProcessFields DEF P!ProcessShape, P!Member, P!SignalsStayInside, P!GroupSound, P!SentinelSound, P!SentinelStarts, P!SentinelActs, P!world, P!Gone
<1>8. P!CodeIsTheTargets'
  BY <1>0, <1>1, ProcessFields DEF P!ProcessShape, P!Member, P!CodeIsTheTargets, P!GroupSound, P!SentinelSound, P!SentinelStarts, P!SentinelActs, P!world, P!Gone
<1> QED BY <1>1, <1>2, <1>3, <1>4, <1>5, <1>6, <1>7, <1>8 DEF P!ProcessInv

\* The sentinel finds its gate closed for good.
LEMMA ProcessSentinelRefusesKeeps ==
  ASSUME P!ProcessInv, P!SentinelRefuses
  PROVE  P!ProcessInv'
<1>0. /\ P!ProcessShape /\ P!GroupSound /\ P!SentinelSound /\ P!GuardSound /\ P!LeftSound /\ P!ReportsSound
      /\ P!SignalsStayInside /\ P!CodeIsTheTargets
  BY DEF P!ProcessInv
<1>1. P!ProcessShape'
  BY <1>0 DEF P!ProcessShape, P!Member, P!Alive, P!world, P!SentinelRefuses, P!SentinelActs
<1>2. P!GroupSound'
  BY <1>0, <1>1, ProcessFields DEF P!ProcessShape, P!Member, P!GroupSound, P!Alive, P!SentinelSound, P!SentinelRefuses, P!SentinelActs, P!world, P!Gone
<1>3. P!SentinelSound'
  BY <1>0, <1>1, ProcessFields DEF P!ProcessShape, P!Member, P!SentinelSound, P!Alive, P!GroupSound, P!SentinelRefuses, P!SentinelActs, P!world, P!Gone
<1>4. P!GuardSound'
  BY <1>0, <1>1, ProcessFields DEF P!ProcessShape, P!Member, P!GuardSound, P!Childless, P!Holding, P!Resigned, P!Gone, P!GroupSound, P!SentinelSound, P!SentinelRefuses, P!SentinelActs, P!world
<1>5. P!LeftSound'
  BY <1>0, <1>1, ProcessFields DEF P!ProcessShape, P!Member, P!LeftSound, P!Contained, P!Alive, P!Excused, P!Childless, P!Holding, P!Resigned, P!Gone, P!GroupSound, P!SentinelSound, P!SentinelRefuses, P!SentinelActs, P!world
<1>6. P!ReportsSound'
  BY <1>0, <1>1, ProcessFields DEF P!ProcessShape, P!Member, P!ReportsSound, P!OurGroup, P!Alive, P!Childless, P!Holding, P!Resigned, P!Gone, P!GroupSound, P!SentinelSound, P!SentinelRefuses, P!SentinelActs, P!world
<1>7. P!SignalsStayInside'
  BY <1>0, <1>1, ProcessFields DEF P!ProcessShape, P!Member, P!SignalsStayInside, P!GroupSound, P!SentinelSound, P!SentinelRefuses, P!SentinelActs, P!world, P!Gone
<1>8. P!CodeIsTheTargets'
  BY <1>0, <1>1, ProcessFields DEF P!ProcessShape, P!Member, P!CodeIsTheTargets, P!GroupSound, P!SentinelSound, P!SentinelRefuses, P!SentinelActs, P!world, P!Gone
<1> QED BY <1>1, <1>2, <1>3, <1>4, <1>5, <1>6, <1>7, <1>8 DEF P!ProcessInv

\* The sentinel passes on the target's code.
LEMMA ProcessSentinelReportsKeeps ==
  ASSUME P!ProcessInv, P!SentinelReports
  PROVE  P!ProcessInv'
<1>0. /\ P!ProcessShape /\ P!GroupSound /\ P!SentinelSound /\ P!GuardSound /\ P!LeftSound /\ P!ReportsSound
      /\ P!SignalsStayInside /\ P!CodeIsTheTargets
  BY DEF P!ProcessInv
<1>1. P!ProcessShape'
  BY <1>0 DEF P!ProcessShape, P!Member, P!Alive, P!world, P!SentinelReports, P!SentinelActs
<1>2. P!GroupSound'
  BY <1>0, <1>1, ProcessFields DEF P!ProcessShape, P!Member, P!GroupSound, P!Alive, P!SentinelSound, P!SentinelReports, P!SentinelActs, P!world, P!Gone
<1>3. P!SentinelSound'
  BY <1>0, <1>1, ProcessFields DEF P!ProcessShape, P!Member, P!SentinelSound, P!Alive, P!GroupSound, P!SentinelReports, P!SentinelActs, P!world, P!Gone
<1>4. P!GuardSound'
  BY <1>0, <1>1, ProcessFields DEF P!ProcessShape, P!Member, P!GuardSound, P!Childless, P!Holding, P!Resigned, P!Gone, P!GroupSound, P!SentinelSound, P!SentinelReports, P!SentinelActs, P!world
<1>5. P!LeftSound'
  BY <1>0, <1>1, ProcessFields DEF P!ProcessShape, P!Member, P!LeftSound, P!Contained, P!Alive, P!Excused, P!Childless, P!Holding, P!Resigned, P!Gone, P!GroupSound, P!SentinelSound, P!SentinelReports, P!SentinelActs, P!world
<1>6. P!ReportsSound'
  BY <1>0, <1>1, ProcessFields DEF P!ProcessShape, P!Member, P!ReportsSound, P!OurGroup, P!Alive, P!Childless, P!Holding, P!Resigned, P!Gone, P!GroupSound, P!SentinelSound, P!SentinelReports, P!SentinelActs, P!world
<1>7. P!SignalsStayInside'
  BY <1>0, <1>1, ProcessFields DEF P!ProcessShape, P!Member, P!SignalsStayInside, P!GroupSound, P!SentinelSound, P!SentinelReports, P!SentinelActs, P!world, P!Gone
<1>8. P!CodeIsTheTargets'
  BY <1>0, <1>1, ProcessFields DEF P!ProcessShape, P!Member, P!CodeIsTheTargets, P!GroupSound, P!SentinelSound, P!SentinelReports, P!SentinelActs, P!world, P!Gone
<1> QED BY <1>1, <1>2, <1>3, <1>4, <1>5, <1>6, <1>7, <1>8 DEF P!ProcessInv

\* The sentinel signals its own group.
LEMMA ProcessSentinelKillsKeeps ==
  ASSUME P!ProcessInv, P!SentinelKills
  PROVE  P!ProcessInv'
<1>0. /\ P!ProcessShape /\ P!GroupSound /\ P!SentinelSound /\ P!GuardSound /\ P!LeftSound /\ P!ReportsSound
      /\ P!SignalsStayInside /\ P!CodeIsTheTargets
  BY DEF P!ProcessInv
<1>1. P!ProcessShape'
  BY <1>0 DEF P!ProcessShape, P!Member, P!Alive, P!world, P!SentinelKills, P!SentinelActs
<1>2. P!GroupSound'
  BY <1>0, <1>1, ProcessFields DEF P!ProcessShape, P!Member, P!GroupSound, P!Alive, P!SentinelSound, P!SentinelKills, P!SentinelActs, P!world, P!Gone
<1>3. P!SentinelSound'
  BY <1>0, <1>1, ProcessFields DEF P!ProcessShape, P!Member, P!SentinelSound, P!Alive, P!GroupSound, P!SentinelKills, P!SentinelActs, P!world, P!Gone
<1>4. P!GuardSound'
  BY <1>0, <1>1, ProcessFields DEF P!ProcessShape, P!Member, P!GuardSound, P!Childless, P!Holding, P!Resigned, P!Gone, P!GroupSound, P!SentinelSound, P!SentinelKills, P!SentinelActs, P!world
<1>5. P!LeftSound'
  BY <1>0, <1>1, ProcessFields DEF P!ProcessShape, P!Member, P!LeftSound, P!Contained, P!Alive, P!Excused, P!Childless, P!Holding, P!Resigned, P!Gone, P!GroupSound, P!SentinelSound, P!SentinelKills, P!SentinelActs, P!world
<1>6. P!ReportsSound'
  BY <1>0, <1>1, ProcessFields DEF P!ProcessShape, P!Member, P!ReportsSound, P!OurGroup, P!Alive, P!Childless, P!Holding, P!Resigned, P!Gone, P!GroupSound, P!SentinelSound, P!SentinelKills, P!SentinelActs, P!world
<1>7. P!SignalsStayInside'
  BY <1>0, <1>1, ProcessFields DEF P!ProcessShape, P!Member, P!SignalsStayInside, P!GroupSound, P!SentinelSound, P!SentinelKills, P!SentinelActs, P!world, P!Gone
<1>8. P!CodeIsTheTargets'
  BY <1>0, <1>1, ProcessFields DEF P!ProcessShape, P!Member, P!CodeIsTheTargets, P!GroupSound, P!SentinelSound, P!SentinelKills, P!SentinelActs, P!world, P!Gone
<1> QED BY <1>1, <1>2, <1>3, <1>4, <1>5, <1>6, <1>7, <1>8 DEF P!ProcessInv

\* Somebody asks for the end.
LEMMA ProcessStopsKeeps ==
  ASSUME P!ProcessInv, NEW how \in {"cancelled", "timed_out"}, P!Stops(how)
  PROVE  P!ProcessInv'
<1>0. /\ P!ProcessShape /\ P!GroupSound /\ P!SentinelSound /\ P!GuardSound /\ P!LeftSound /\ P!ReportsSound
      /\ P!SignalsStayInside /\ P!CodeIsTheTargets
  BY DEF P!ProcessInv
<1>1. P!ProcessShape'
  BY <1>0 DEF P!ProcessShape, P!Member, P!Alive, P!world, P!Stops, P!Untouched, P!os
<1>2. P!GroupSound'
  BY <1>0, <1>1, ProcessFields DEF P!ProcessShape, P!Member, P!GroupSound, P!Alive, P!SentinelSound, P!Stops, P!Untouched, P!os, P!world, P!Gone
<1>3. P!SentinelSound'
  BY <1>0, <1>1, ProcessFields DEF P!ProcessShape, P!Member, P!SentinelSound, P!Alive, P!GroupSound, P!Stops, P!Untouched, P!os, P!world, P!Gone
<1>4. P!GuardSound'
  BY <1>0, <1>1, ProcessFields DEF P!ProcessShape, P!Member, P!GuardSound, P!Childless, P!Holding, P!Resigned, P!Gone, P!GroupSound, P!SentinelSound, P!Stops, P!Untouched, P!os, P!world
<1>5. P!LeftSound'
  BY <1>0, <1>1, ProcessFields DEF P!ProcessShape, P!Member, P!LeftSound, P!Contained, P!Alive, P!Excused, P!Childless, P!Holding, P!Resigned, P!Gone, P!GroupSound, P!SentinelSound, P!Stops, P!Untouched, P!os, P!world
<1>6. P!ReportsSound'
  BY <1>0, <1>1, ProcessFields DEF P!ProcessShape, P!Member, P!ReportsSound, P!OurGroup, P!Alive, P!Childless, P!Holding, P!Resigned, P!Gone, P!GroupSound, P!SentinelSound, P!Stops, P!Untouched, P!os, P!world
<1>7. P!SignalsStayInside'
  BY <1>0, <1>1, ProcessFields DEF P!ProcessShape, P!Member, P!SignalsStayInside, P!GroupSound, P!SentinelSound, P!Stops, P!Untouched, P!os, P!world, P!Gone
<1>8. P!CodeIsTheTargets'
  BY <1>0, <1>1, ProcessFields DEF P!ProcessShape, P!Member, P!CodeIsTheTargets, P!GroupSound, P!SentinelSound, P!Stops, P!Untouched, P!os, P!world, P!Gone
<1> QED BY <1>1, <1>2, <1>3, <1>4, <1>5, <1>6, <1>7, <1>8 DEF P!ProcessInv

\* The future asks for the permission to start.
LEMMA ProcessAuthorizeKeeps ==
  ASSUME P!ProcessInv, P!Authorize
  PROVE  P!ProcessInv'
<1>0. /\ P!ProcessShape /\ P!GroupSound /\ P!SentinelSound /\ P!GuardSound /\ P!LeftSound /\ P!ReportsSound
      /\ P!SignalsStayInside /\ P!CodeIsTheTargets
  BY DEF P!ProcessInv
<1>s. fut \in P!FutureState /\ fut' \in P!FutureState
  BY <1>0, ProcessAuthorizeStep DEF P!ProcessShape
<1>h. P!ProcessShape
  BY <1>0
<1>1. P!ProcessShape'
  BY <1>h, <1>s, ProcessAuthorizeStep DEF P!ProcessShape, Now, P!os
<1>2. P!GroupSound'
  BY <1>0, <1>1, <1>s, ProcessAuthorizeStep, ProcessFields DEF P!ProcessShape, P!Member, Now, P!GroupSound, P!Alive, P!os, P!GuardSound, P!Holding, P!Childless, P!Resigned, P!Gone
<1>3. P!SentinelSound'
  BY <1>0, <1>1, <1>s, ProcessAuthorizeStep, ProcessFields DEF P!ProcessShape, P!Member, Now, P!SentinelSound, P!Alive, P!os, P!GroupSound, P!GuardSound, P!Holding, P!Childless, P!Resigned, P!Gone
<1>4. P!GuardSound'
  BY <1>0, <1>1, <1>s, ProcessAuthorizeStep, ProcessFields DEF P!ProcessShape, P!Member, Now, P!GuardSound, P!Childless, P!Holding, P!Resigned, P!Gone, P!os
<1>5. P!LeftSound'
  BY <1>0, <1>1, <1>s, ProcessAuthorizeStep, ProcessFields DEF P!ProcessShape, P!Member, Now, P!LeftSound, P!Contained, P!Alive, P!Excused, P!Childless, P!Holding, P!Resigned, P!Gone, P!os, P!GroupSound, P!GuardSound, P!SentinelSound
<1>6. P!ReportsSound'
  BY <1>0, <1>1, <1>s, ProcessAuthorizeStep, ProcessFields, ProcessReported DEF P!ProcessShape, P!Member, Now, P!ReportsSound, P!OurGroup, P!Alive, P!Childless, P!Holding, P!Resigned, P!Gone, P!os, P!GroupSound, P!GuardSound
<1>7. P!SignalsStayInside'
  BY <1>0, <1>1, <1>s, ProcessAuthorizeStep, ProcessFields DEF P!ProcessShape, P!Member, Now, P!SignalsStayInside, P!os, P!GroupSound, P!GuardSound, P!Holding, P!Childless, P!Resigned, P!Gone
<1>8. P!CodeIsTheTargets'
  BY <1>0, <1>1, <1>s, ProcessAuthorizeStep, ProcessFields DEF P!ProcessShape, P!Member, Now, P!CodeIsTheTargets, P!os, P!GroupSound, P!GuardSound, P!Holding, P!Childless, P!Resigned, P!Gone
<1> QED BY <1>1, <1>2, <1>3, <1>4, <1>5, <1>6, <1>7, <1>8 DEF P!ProcessInv

\* The future starts the leader.
LEMMA ProcessSpawnKeeps ==
  ASSUME P!ProcessInv, P!Spawn
  PROVE  P!ProcessInv'
<1>0. /\ P!ProcessShape /\ P!GroupSound /\ P!SentinelSound /\ P!GuardSound /\ P!LeftSound /\ P!ReportsSound
      /\ P!SignalsStayInside /\ P!CodeIsTheTargets
  BY DEF P!ProcessInv
<1>s. fut \in P!FutureState /\ fut' \in P!FutureState
  BY <1>0, ProcessSpawnStep DEF P!ProcessShape
<1>h. P!ProcessShape
  BY <1>0
<1>1. P!ProcessShape'
  <2>1. proc' \in [P!Member -> {"none", "alive", "zombie", "dead"}]
    BY <1>h, ProcessSpawnStep DEF P!ProcessShape, P!Member
  <2>2. sentinel' \in {"none", "gate", "wait", "kill", "exit"}
    BY <1>h, ProcessSpawnStep DEF P!ProcessShape
  <2> QED BY <1>h, <1>s, <2>1, <2>2, ProcessSpawnStep DEF P!ProcessShape
<1>2. P!GroupSound'
  BY <1>0, <1>1, <1>s, ProcessSpawnStep, ProcessFields DEF P!ProcessShape, P!Member, Now, P!GroupSound, P!Alive, P!GuardSound, P!Holding, P!Childless, P!Resigned, P!Gone
<1>3. P!SentinelSound'
  BY <1>0, <1>1, <1>s, ProcessSpawnStep, ProcessFields DEF P!ProcessShape, P!Member, Now, P!SentinelSound, P!Alive, P!GroupSound, P!GuardSound, P!Holding, P!Childless, P!Resigned, P!Gone
<1>4. P!GuardSound'
  BY <1>0, <1>1, <1>s, ProcessSpawnStep, ProcessFields DEF P!ProcessShape, P!Member, Now, P!GuardSound, P!Childless, P!Holding, P!Resigned, P!Gone
<1>5. P!LeftSound'
  BY <1>0, <1>1, <1>s, ProcessSpawnStep, ProcessFields DEF P!ProcessShape, P!Member, Now, P!LeftSound, P!Contained, P!Alive, P!Excused, P!Childless, P!Holding, P!Resigned, P!Gone, P!GroupSound, P!GuardSound, P!SentinelSound
<1>6. P!ReportsSound'
  BY <1>0, <1>1, <1>s, ProcessSpawnStep, ProcessFields, ProcessReported DEF P!ProcessShape, P!Member, Now, P!ReportsSound, P!OurGroup, P!Alive, P!Childless, P!Holding, P!Resigned, P!Gone, P!GroupSound, P!GuardSound
<1>7. P!SignalsStayInside'
  BY <1>0, <1>1, <1>s, ProcessSpawnStep, ProcessFields DEF P!ProcessShape, P!Member, Now, P!SignalsStayInside, P!GroupSound, P!GuardSound, P!Holding, P!Childless, P!Resigned, P!Gone
<1>8. P!CodeIsTheTargets'
  BY <1>0, <1>1, <1>s, ProcessSpawnStep, ProcessFields DEF P!ProcessShape, P!Member, Now, P!CodeIsTheTargets, P!GroupSound, P!GuardSound, P!Holding, P!Childless, P!Resigned, P!Gone
<1> QED BY <1>1, <1>2, <1>3, <1>4, <1>5, <1>6, <1>7, <1>8 DEF P!ProcessInv

\* The future announces it.
LEMMA ProcessAnnounceKeeps ==
  ASSUME P!ProcessInv, P!Announce
  PROVE  P!ProcessInv'
<1>0. /\ P!ProcessShape /\ P!GroupSound /\ P!SentinelSound /\ P!GuardSound /\ P!LeftSound /\ P!ReportsSound
      /\ P!SignalsStayInside /\ P!CodeIsTheTargets
  BY DEF P!ProcessInv
<1>s. fut \in P!FutureState /\ fut' \in P!FutureState
  BY <1>0, ProcessAnnounceStep DEF P!ProcessShape
<1>h. P!ProcessShape
  BY <1>0
<1>1. P!ProcessShape'
  BY <1>h, <1>s, ProcessAnnounceStep, ProcessSignalled DEF P!ProcessShape, Now
<1>2. P!GroupSound'
  BY <1>0, <1>1, <1>s, ProcessAnnounceStep, ProcessSignalled, ProcessHeld, ProcessFields DEF P!ProcessShape, P!Member, Now, P!GroupSound, P!Alive, P!GuardSound, P!Holding, P!Childless, P!Resigned, P!Gone
<1>3. P!SentinelSound'
  BY <1>0, <1>1, <1>s, ProcessAnnounceStep, ProcessSignalled, ProcessHeld, ProcessFields DEF P!ProcessShape, P!Member, Now, P!SentinelSound, P!Alive, P!GroupSound, P!GuardSound, P!Holding, P!Childless, P!Resigned, P!Gone
<1>4. P!GuardSound'
  BY <1>0, <1>1, <1>s, ProcessAnnounceStep, ProcessSignalled, ProcessHeld, ProcessFields DEF P!ProcessShape, P!Member, Now, P!GuardSound, P!Childless, P!Holding, P!Resigned, P!Gone
<1>5. P!LeftSound'
  BY <1>0, <1>1, <1>s, ProcessAnnounceStep, ProcessSignalled, ProcessHeld, ProcessFields DEF P!ProcessShape, P!Member, Now, P!LeftSound, P!Contained, P!Alive, P!Excused, P!Childless, P!Holding, P!Resigned, P!Gone, P!GroupSound, P!GuardSound, P!SentinelSound, P!OurGroup
<1>6. P!ReportsSound'
  BY <1>0, <1>1, <1>s, ProcessAnnounceStep, ProcessSignalled, ProcessHeld, ProcessFields, ProcessReported DEF P!ProcessShape, P!Member, Now, P!ReportsSound, P!OurGroup, P!Alive, P!Childless, P!Holding, P!Resigned, P!Gone, P!GroupSound, P!GuardSound
<1>7. P!SignalsStayInside'
  BY <1>0, <1>1, <1>s, ProcessAnnounceStep, ProcessSignalled, ProcessHeld, ProcessFields DEF P!ProcessShape, P!Member, Now, P!SignalsStayInside, P!GroupSound, P!GuardSound, P!Holding, P!Childless, P!Resigned, P!Gone
<1>8. P!CodeIsTheTargets'
  BY <1>0, <1>1, <1>s, ProcessAnnounceStep, ProcessSignalled, ProcessHeld, ProcessFields DEF P!ProcessShape, P!Member, Now, P!CodeIsTheTargets, P!GroupSound, P!GuardSound, P!Holding, P!Childless, P!Resigned, P!Gone
<1> QED BY <1>1, <1>2, <1>3, <1>4, <1>5, <1>6, <1>7, <1>8 DEF P!ProcessInv

\* The future opens the gate.
LEMMA ProcessReleaseKeeps ==
  ASSUME P!ProcessInv, P!Release
  PROVE  P!ProcessInv'
<1>0. /\ P!ProcessShape /\ P!GroupSound /\ P!SentinelSound /\ P!GuardSound /\ P!LeftSound /\ P!ReportsSound
      /\ P!SignalsStayInside /\ P!CodeIsTheTargets
  BY DEF P!ProcessInv
<1>s. fut \in P!FutureState /\ fut' \in P!FutureState
  BY <1>0, ProcessReleaseStep DEF P!ProcessShape
<1>h. P!ProcessShape
  BY <1>0
<1>1. P!ProcessShape'
  BY <1>h, <1>s, ProcessReleaseStep, ProcessSignalled DEF P!ProcessShape, Now
<1>2. P!GroupSound'
  BY <1>0, <1>1, <1>s, ProcessReleaseStep, ProcessSignalled, ProcessHeld, ProcessFields DEF P!ProcessShape, P!Member, Now, P!GroupSound, P!Alive, P!GuardSound, P!Holding, P!Childless, P!Resigned, P!Gone
<1>3. P!SentinelSound'
  BY <1>0, <1>1, <1>s, ProcessReleaseStep, ProcessSignalled, ProcessHeld, ProcessFields DEF P!ProcessShape, P!Member, Now, P!SentinelSound, P!Alive, P!GroupSound, P!GuardSound, P!Holding, P!Childless, P!Resigned, P!Gone
<1>4. P!GuardSound'
  BY <1>0, <1>1, <1>s, ProcessReleaseStep, ProcessSignalled, ProcessHeld, ProcessFields DEF P!ProcessShape, P!Member, Now, P!GuardSound, P!Childless, P!Holding, P!Resigned, P!Gone
<1>5. P!LeftSound'
  BY <1>0, <1>1, <1>s, ProcessReleaseStep, ProcessSignalled, ProcessHeld, ProcessFields DEF P!ProcessShape, P!Member, Now, P!LeftSound, P!Contained, P!Alive, P!Excused, P!Childless, P!Holding, P!Resigned, P!Gone, P!GroupSound, P!GuardSound, P!SentinelSound, P!OurGroup
<1>6. P!ReportsSound'
  BY <1>0, <1>1, <1>s, ProcessReleaseStep, ProcessSignalled, ProcessHeld, ProcessFields, ProcessReported DEF P!ProcessShape, P!Member, Now, P!ReportsSound, P!OurGroup, P!Alive, P!Childless, P!Holding, P!Resigned, P!Gone, P!GroupSound, P!GuardSound
<1>7. P!SignalsStayInside'
  BY <1>0, <1>1, <1>s, ProcessReleaseStep, ProcessSignalled, ProcessHeld, ProcessFields DEF P!ProcessShape, P!Member, Now, P!SignalsStayInside, P!GroupSound, P!GuardSound, P!Holding, P!Childless, P!Resigned, P!Gone
<1>8. P!CodeIsTheTargets'
  BY <1>0, <1>1, <1>s, ProcessReleaseStep, ProcessSignalled, ProcessHeld, ProcessFields DEF P!ProcessShape, P!Member, Now, P!CodeIsTheTargets, P!GroupSound, P!GuardSound, P!Holding, P!Childless, P!Resigned, P!Gone
<1> QED BY <1>1, <1>2, <1>3, <1>4, <1>5, <1>6, <1>7, <1>8 DEF P!ProcessInv

\* The future reaps what it aborted.
LEMMA ProcessAbortKeeps ==
  ASSUME P!ProcessInv, P!Abort
  PROVE  P!ProcessInv'
<1>0. /\ P!ProcessShape /\ P!GroupSound /\ P!SentinelSound /\ P!GuardSound /\ P!LeftSound /\ P!ReportsSound
      /\ P!SignalsStayInside /\ P!CodeIsTheTargets
  BY DEF P!ProcessInv
<1>s. fut \in P!FutureState /\ fut' \in P!FutureState
  BY <1>0, ProcessAbortStep DEF P!ProcessShape
<1>h. P!ProcessShape
  BY <1>0
<1>1. P!ProcessShape'
  BY <1>h, <1>s, ProcessAbortStep DEF P!ProcessShape, Now, P!Member
<1>2. P!GroupSound'
  BY <1>0, <1>1, <1>s, ProcessAbortStep, ProcessFields DEF P!ProcessShape, P!Member, Now, P!GroupSound, P!Alive, P!GuardSound, P!Holding, P!Childless, P!Resigned, P!Gone
<1>3. P!SentinelSound'
  BY <1>0, <1>1, <1>s, ProcessAbortStep, ProcessFields DEF P!ProcessShape, P!Member, Now, P!SentinelSound, P!Alive, P!GroupSound, P!GuardSound, P!Holding, P!Childless, P!Resigned, P!Gone
<1>4. P!GuardSound'
  BY <1>0, <1>1, <1>s, ProcessAbortStep, ProcessFields DEF P!ProcessShape, P!Member, Now, P!GuardSound, P!Childless, P!Holding, P!Resigned, P!Gone
<1>5. P!LeftSound'
  BY <1>0, <1>1, <1>s, ProcessAbortStep, ProcessFields DEF P!ProcessShape, P!Member, Now, P!LeftSound, P!Contained, P!Alive, P!Excused, P!Childless, P!Holding, P!Resigned, P!Gone, P!GroupSound, P!GuardSound, P!SentinelSound
<1>6. P!ReportsSound'
  BY <1>0, <1>1, <1>s, ProcessAbortStep, ProcessFields, ProcessReported DEF P!ProcessShape, P!Member, Now, P!ReportsSound, P!OurGroup, P!Alive, P!Childless, P!Holding, P!Resigned, P!Gone, P!Stopped, P!GroupSound, P!GuardSound
<1>7. P!SignalsStayInside'
  BY <1>0, <1>1, <1>s, ProcessAbortStep, ProcessFields DEF P!ProcessShape, P!Member, Now, P!SignalsStayInside, P!GroupSound, P!GuardSound, P!Holding, P!Childless, P!Resigned, P!Gone
<1>8. P!CodeIsTheTargets'
  BY <1>0, <1>1, <1>s, ProcessAbortStep, ProcessFields DEF P!ProcessShape, P!Member, Now, P!CodeIsTheTargets, P!GroupSound, P!GuardSound, P!Holding, P!Childless, P!Resigned, P!Gone
<1> QED BY <1>1, <1>2, <1>3, <1>4, <1>5, <1>6, <1>7, <1>8 DEF P!ProcessInv

\* The future reports the abort.
LEMMA ProcessAbortSettleKeeps ==
  ASSUME P!ProcessInv, P!AbortSettle
  PROVE  P!ProcessInv'
<1>0. /\ P!ProcessShape /\ P!GroupSound /\ P!SentinelSound /\ P!GuardSound /\ P!LeftSound /\ P!ReportsSound
      /\ P!SignalsStayInside /\ P!CodeIsTheTargets
  BY DEF P!ProcessInv
<1>s. fut \in P!FutureState /\ fut' \in P!FutureState
  BY <1>0, ProcessAbortSettleStep DEF P!ProcessShape
<1>h. P!ProcessShape
  BY <1>0
<1>1. P!ProcessShape'
  BY <1>h, <1>s, ProcessAbortSettleStep DEF P!ProcessShape, Now, P!os
<1>2. P!GroupSound'
  BY <1>0, <1>1, <1>s, ProcessAbortSettleStep, ProcessFields DEF P!ProcessShape, P!Member, Now, P!GroupSound, P!Alive, P!os, P!NumberAlive, P!GuardSound, P!Holding, P!Childless, P!Resigned, P!Gone
<1>3. P!SentinelSound'
  BY <1>0, <1>1, <1>s, ProcessAbortSettleStep, ProcessFields DEF P!ProcessShape, P!Member, Now, P!SentinelSound, P!Alive, P!os, P!NumberAlive, P!GroupSound, P!GuardSound, P!Holding, P!Childless, P!Resigned, P!Gone
<1>4. P!GuardSound'
  BY <1>0, <1>1, <1>s, ProcessAbortSettleStep, ProcessFields DEF P!ProcessShape, P!Member, Now, P!GuardSound, P!Childless, P!Holding, P!Resigned, P!Gone, P!os, P!NumberAlive
<1>5. P!LeftSound'
  BY <1>0, <1>1, <1>s, ProcessAbortSettleStep, ProcessFields DEF P!ProcessShape, P!Member, Now, P!LeftSound, P!Contained, P!Alive, P!Excused, P!Childless, P!Holding, P!Resigned, P!Gone, P!os, P!NumberAlive, P!GroupSound, P!GuardSound, P!SentinelSound, P!OurGroup
<1>6. P!ReportsSound'
  <2>1. /\ fut'.at = "ended" /\ gated /\ UNCHANGED <<gated, proc, gate>>
        /\ reports' = Append(reports, IF ~P!NumberAlive THEN "empty" ELSE "stopped")
    BY <1>0, ProcessAbortSettleStep DEF Now, P!os, P!Stopped, P!GuardSound
  <2>2. reports \in {P!Unsaid, P!Begun} /\ (gate = "go" => reports = P!Begun)
    BY <1>0, ProcessAbortSettleStep, ProcessReported DEF P!ReportsSound
  <2>3. (reports = P!Unsaid => reports' \in P!Refused) /\ (reports = P!Begun => reports' \in P!Finished)
    BY <2>1, <2>2, ProcessReported
  <2>4. reports' \in P!SaidEmpty => ~P!OurGroup
    BY <2>1, <2>2, ProcessReported DEF P!NumberAlive
  <2> QED BY <2>1, <2>2, <2>3, <2>4, ProcessReported DEF P!ReportsSound, P!OurGroup, P!Alive, P!Childless, P!Holding, P!Resigned, P!Gone
<1>7. P!SignalsStayInside'
  BY <1>0, <1>1, <1>s, ProcessAbortSettleStep, ProcessFields DEF P!ProcessShape, P!Member, Now, P!SignalsStayInside, P!os, P!NumberAlive, P!GroupSound, P!GuardSound, P!Holding, P!Childless, P!Resigned, P!Gone
<1>8. P!CodeIsTheTargets'
  BY <1>0, <1>1, <1>s, ProcessAbortSettleStep, ProcessFields DEF P!ProcessShape, P!Member, Now, P!CodeIsTheTargets, P!os, P!NumberAlive, P!GroupSound, P!GuardSound, P!Holding, P!Childless, P!Resigned, P!Gone
<1> QED BY <1>1, <1>2, <1>3, <1>4, <1>5, <1>6, <1>7, <1>8 DEF P!ProcessInv

\* The future waits for the leader, a stop or the time.
LEMMA ProcessSelectKeeps ==
  ASSUME P!ProcessInv, P!Select
  PROVE  P!ProcessInv'
<1>0. /\ P!ProcessShape /\ P!GroupSound /\ P!SentinelSound /\ P!GuardSound /\ P!LeftSound /\ P!ReportsSound
      /\ P!SignalsStayInside /\ P!CodeIsTheTargets
  BY DEF P!ProcessInv
<1>s. fut \in P!FutureState /\ fut' \in P!FutureState
  BY <1>0, ProcessSelectStep DEF P!ProcessShape
<1>h. P!ProcessShape
  BY <1>0
<1>1. P!ProcessShape'
  BY <1>h, <1>s, ProcessSelectStep DEF P!ProcessShape, Now, P!Member, P!TermGroup
<1>2. P!GroupSound'
  BY <1>0, <1>1, <1>s, ProcessSelectStep, ProcessFields DEF P!ProcessShape, P!Member, Now, P!GroupSound, P!Alive, P!TermGroup, P!GuardSound, P!Holding, P!Childless, P!Resigned, P!Gone
<1>3. P!SentinelSound'
  BY <1>0, <1>1, <1>s, ProcessSelectStep, ProcessFields DEF P!ProcessShape, P!Member, Now, P!SentinelSound, P!Alive, P!TermGroup, P!GroupSound, P!GuardSound, P!Holding, P!Childless, P!Resigned, P!Gone
<1>4. P!GuardSound'
  BY <1>0, <1>1, <1>s, ProcessSelectStep, ProcessFields DEF P!ProcessShape, P!Member, Now, P!GuardSound, P!Childless, P!Holding, P!Resigned, P!Gone, P!TermGroup
<1>5. P!LeftSound'
  BY <1>0, <1>1, <1>s, ProcessSelectStep, ProcessFields DEF P!ProcessShape, P!Member, Now, P!LeftSound, P!Contained, P!Alive, P!Excused, P!Childless, P!Holding, P!Resigned, P!Gone, P!TermGroup, P!GroupSound, P!GuardSound, P!SentinelSound
<1>6. P!ReportsSound'
  BY <1>0, <1>1, <1>s, ProcessSelectStep, ProcessFields, ProcessReported DEF P!ProcessShape, P!Member, Now, P!ReportsSound, P!OurGroup, P!Alive, P!Childless, P!Holding, P!Resigned, P!Gone, P!TermGroup, P!GroupSound, P!GuardSound
<1>7. P!SignalsStayInside'
  BY <1>0, <1>1, <1>s, ProcessSelectStep, ProcessFields DEF P!ProcessShape, P!Member, Now, P!SignalsStayInside, P!TermGroup, P!GroupSound, P!GuardSound, P!Holding, P!Childless, P!Resigned, P!Gone
<1>8. P!CodeIsTheTargets'
  BY <1>0, <1>1, <1>s, ProcessSelectStep, ProcessFields DEF P!ProcessShape, P!Member, Now, P!CodeIsTheTargets, P!TermGroup, P!GroupSound, P!GuardSound, P!Holding, P!Childless, P!Resigned, P!Gone
<1> QED BY <1>1, <1>2, <1>3, <1>4, <1>5, <1>6, <1>7, <1>8 DEF P!ProcessInv

\* The future waits for the leader it terminates.
LEMMA ProcessTermLeaderKeeps ==
  ASSUME P!ProcessInv, P!TermLeader
  PROVE  P!ProcessInv'
<1>0. /\ P!ProcessShape /\ P!GroupSound /\ P!SentinelSound /\ P!GuardSound /\ P!LeftSound /\ P!ReportsSound
      /\ P!SignalsStayInside /\ P!CodeIsTheTargets
  BY DEF P!ProcessInv
<1>s. fut \in P!FutureState /\ fut' \in P!FutureState
  BY <1>0, ProcessTermLeaderStep DEF P!ProcessShape
<1>h. P!ProcessShape
  BY <1>0
<1>1. P!ProcessShape'
  <2>1. proc' \in [P!Member -> {"none", "alive", "zombie", "dead"}]
    BY <1>h, ProcessTermLeaderStep DEF P!ProcessShape, P!Member
  <2>2. doomed' \subseteq P!Member /\ struck' \in {struck, "terminate"}
    BY <1>h, ProcessTermLeaderStep, ProcessSignalled DEF P!ProcessShape
  <2>3. UNCHANGED <<gated, gate, stop, holds, foreign, sentinel, status, murdered>>
    BY <1>h, ProcessTermLeaderStep
  <2> QED BY <1>h, <1>s, <2>1, <2>2, <2>3 DEF P!ProcessShape
<1>2. P!GroupSound'
  BY <1>0, <1>1, <1>s, ProcessTermLeaderStep, ProcessSignalled, ProcessHeld, ProcessFields DEF P!ProcessShape, P!Member, Now, P!GroupSound, P!Alive, P!GuardSound, P!Holding, P!Childless, P!Resigned, P!Gone
<1>3. P!SentinelSound'
  BY <1>0, <1>1, <1>s, ProcessTermLeaderStep, ProcessSignalled, ProcessHeld, ProcessFields DEF P!ProcessShape, P!Member, Now, P!SentinelSound, P!Alive, P!GroupSound, P!GuardSound, P!Holding, P!Childless, P!Resigned, P!Gone
<1>4. P!GuardSound'
  BY <1>0, <1>1, <1>s, ProcessTermLeaderStep, ProcessSignalled, ProcessHeld, ProcessFields DEF P!ProcessShape, P!Member, Now, P!GuardSound, P!Childless, P!Holding, P!Resigned, P!Gone
<1>5. P!LeftSound'
  BY <1>0, <1>1, <1>s, ProcessTermLeaderStep, ProcessSignalled, ProcessHeld, ProcessFields DEF P!ProcessShape, P!Member, Now, P!LeftSound, P!Contained, P!Alive, P!Excused, P!Childless, P!Holding, P!Resigned, P!Gone, P!GroupSound, P!GuardSound, P!SentinelSound, P!OurGroup
<1>6. P!ReportsSound'
  BY <1>0, <1>1, <1>s, ProcessTermLeaderStep, ProcessSignalled, ProcessHeld, ProcessFields, ProcessReported DEF P!ProcessShape, P!Member, Now, P!ReportsSound, P!OurGroup, P!Alive, P!Childless, P!Holding, P!Resigned, P!Gone, P!Stopped, P!GroupSound, P!GuardSound
<1>7. P!SignalsStayInside'
  BY <1>0, <1>1, <1>s, ProcessTermLeaderStep, ProcessSignalled, ProcessHeld, ProcessFields DEF P!ProcessShape, P!Member, Now, P!SignalsStayInside, P!GroupSound, P!GuardSound, P!Holding, P!Childless, P!Resigned, P!Gone
<1>8. P!CodeIsTheTargets'
  BY <1>0, <1>1, <1>s, ProcessTermLeaderStep, ProcessSignalled, ProcessHeld, ProcessFields DEF P!ProcessShape, P!Member, Now, P!CodeIsTheTargets, P!GroupSound, P!GuardSound, P!Holding, P!Childless, P!Resigned, P!Gone
<1> QED BY <1>1, <1>2, <1>3, <1>4, <1>5, <1>6, <1>7, <1>8 DEF P!ProcessInv

\* The future gives the rest of the group its time.
LEMMA ProcessTermRestKeeps ==
  ASSUME P!ProcessInv, P!TermRest
  PROVE  P!ProcessInv'
<1>0. /\ P!ProcessShape /\ P!GroupSound /\ P!SentinelSound /\ P!GuardSound /\ P!LeftSound /\ P!ReportsSound
      /\ P!SignalsStayInside /\ P!CodeIsTheTargets
  BY DEF P!ProcessInv
<1>s. fut \in P!FutureState /\ fut' \in P!FutureState
  BY <1>0, ProcessTermRestStep DEF P!ProcessShape
<1>h. P!ProcessShape
  BY <1>0
<1>1. P!ProcessShape'
  BY <1>h, <1>s, ProcessTermRestStep, ProcessSignalled DEF P!ProcessShape, Now
<1>2. P!GroupSound'
  <2>1. UNCHANGED <<gated, proc, foreign, sentinel, status, gate>>
    BY <1>h, ProcessTermRestStep
  <2>2. proc["leader"] = "none" => doomed' = doomed
    BY <1>0, ProcessTermRestStep, ProcessSignalled DEF P!GroupSound, P!OurGroup, P!Alive, P!Member
  <2> QED BY <1>0, <2>1, <2>2 DEF P!GroupSound, P!Alive
<1>3. P!SentinelSound'
  BY <1>0, <1>1, <1>s, ProcessTermRestStep, ProcessSignalled, ProcessHeld, ProcessFields DEF P!ProcessShape, P!Member, Now, P!SentinelSound, P!Alive, P!NumberAlive, P!GroupSound, P!GuardSound, P!Holding, P!Childless, P!Resigned, P!Gone
<1>4. P!GuardSound'
  BY <1>0, <1>1, <1>s, ProcessTermRestStep, ProcessSignalled, ProcessHeld, ProcessFields DEF P!ProcessShape, P!Member, Now, P!GuardSound, P!Childless, P!Holding, P!Resigned, P!Gone, P!NumberAlive
<1>5. P!LeftSound'
  BY <1>0, <1>1, <1>s, ProcessTermRestStep, ProcessSignalled, ProcessHeld, ProcessFields DEF P!ProcessShape, P!Member, Now, P!LeftSound, P!Contained, P!Alive, P!Excused, P!Childless, P!Holding, P!Resigned, P!Gone, P!NumberAlive, P!GroupSound, P!GuardSound, P!SentinelSound, P!OurGroup
<1>6. P!ReportsSound'
  BY <1>0, <1>1, <1>s, ProcessTermRestStep, ProcessSignalled, ProcessHeld, ProcessFields, ProcessReported DEF P!ProcessShape, P!Member, Now, P!ReportsSound, P!OurGroup, P!Alive, P!Childless, P!Holding, P!Resigned, P!Gone, P!NumberAlive, P!GroupSound, P!GuardSound
<1>7. P!SignalsStayInside'
  BY <1>0, <1>1, <1>s, ProcessTermRestStep, ProcessSignalled, ProcessHeld, ProcessFields DEF P!ProcessShape, P!Member, Now, P!SignalsStayInside, P!NumberAlive, P!GroupSound, P!GuardSound, P!Holding, P!Childless, P!Resigned, P!Gone
<1>8. P!CodeIsTheTargets'
  BY <1>0, <1>1, <1>s, ProcessTermRestStep, ProcessSignalled, ProcessHeld, ProcessFields DEF P!ProcessShape, P!Member, Now, P!CodeIsTheTargets, P!NumberAlive, P!GroupSound, P!GuardSound, P!Holding, P!Childless, P!Resigned, P!Gone
<1> QED BY <1>1, <1>2, <1>3, <1>4, <1>5, <1>6, <1>7, <1>8 DEF P!ProcessInv

\* The future reaps the leader it killed.
LEMMA ProcessKillLeaderKeeps ==
  ASSUME P!ProcessInv, P!KillLeader
  PROVE  P!ProcessInv'
<1>0. /\ P!ProcessShape /\ P!GroupSound /\ P!SentinelSound /\ P!GuardSound /\ P!LeftSound /\ P!ReportsSound
      /\ P!SignalsStayInside /\ P!CodeIsTheTargets
  BY DEF P!ProcessInv
<1>s. fut \in P!FutureState /\ fut' \in P!FutureState
  BY <1>0, ProcessKillLeaderStep DEF P!ProcessShape
<1>h. P!ProcessShape
  BY <1>0
<1>1. P!ProcessShape'
  BY <1>h, <1>s, ProcessKillLeaderStep DEF P!ProcessShape, Now, P!Member
<1>2. P!GroupSound'
  BY <1>0, <1>1, <1>s, ProcessKillLeaderStep, ProcessFields DEF P!ProcessShape, P!Member, Now, P!GroupSound, P!Alive, P!GuardSound, P!Holding, P!Childless, P!Resigned, P!Gone
<1>3. P!SentinelSound'
  BY <1>0, <1>1, <1>s, ProcessKillLeaderStep, ProcessFields DEF P!ProcessShape, P!Member, Now, P!SentinelSound, P!Alive, P!GroupSound, P!GuardSound, P!Holding, P!Childless, P!Resigned, P!Gone
<1>4. P!GuardSound'
  BY <1>0, <1>1, <1>s, ProcessKillLeaderStep, ProcessFields DEF P!ProcessShape, P!Member, Now, P!GuardSound, P!Childless, P!Holding, P!Resigned, P!Gone
<1>5. P!LeftSound'
  BY <1>0, <1>1, <1>s, ProcessKillLeaderStep, ProcessFields DEF P!ProcessShape, P!Member, Now, P!LeftSound, P!Contained, P!Alive, P!Excused, P!Childless, P!Holding, P!Resigned, P!Gone, P!GroupSound, P!GuardSound, P!SentinelSound
<1>6. P!ReportsSound'
  BY <1>0, <1>1, <1>s, ProcessKillLeaderStep, ProcessFields, ProcessReported DEF P!ProcessShape, P!Member, Now, P!ReportsSound, P!OurGroup, P!Alive, P!Childless, P!Holding, P!Resigned, P!Gone, P!Stopped, P!GroupSound, P!GuardSound
<1>7. P!SignalsStayInside'
  BY <1>0, <1>1, <1>s, ProcessKillLeaderStep, ProcessFields DEF P!ProcessShape, P!Member, Now, P!SignalsStayInside, P!GroupSound, P!GuardSound, P!Holding, P!Childless, P!Resigned, P!Gone
<1>8. P!CodeIsTheTargets'
  BY <1>0, <1>1, <1>s, ProcessKillLeaderStep, ProcessFields DEF P!ProcessShape, P!Member, Now, P!CodeIsTheTargets, P!GroupSound, P!GuardSound, P!Holding, P!Childless, P!Resigned, P!Gone
<1> QED BY <1>1, <1>2, <1>3, <1>4, <1>5, <1>6, <1>7, <1>8 DEF P!ProcessInv

\* The future waits for the group to be empty.
LEMMA ProcessSettleKeeps ==
  ASSUME P!ProcessInv, P!Settle
  PROVE  P!ProcessInv'
<1>0. /\ P!ProcessShape /\ P!GroupSound /\ P!SentinelSound /\ P!GuardSound /\ P!LeftSound /\ P!ReportsSound
      /\ P!SignalsStayInside /\ P!CodeIsTheTargets
  BY DEF P!ProcessInv
<1>s. fut \in P!FutureState /\ fut' \in P!FutureState
  BY <1>0, ProcessSettleStep DEF P!ProcessShape
<1>h. P!ProcessShape
  BY <1>0
<1>1. P!ProcessShape'
  BY <1>h, <1>s, ProcessSettleStep DEF P!ProcessShape, Now, P!os
<1>2. P!GroupSound'
  BY <1>0, <1>1, <1>s, ProcessSettleStep, ProcessFields DEF P!ProcessShape, P!Member, Now, P!GroupSound, P!Alive, P!os, P!GuardSound, P!Holding, P!Childless, P!Resigned, P!Gone
<1>3. P!SentinelSound'
  BY <1>0, <1>1, <1>s, ProcessSettleStep, ProcessFields DEF P!ProcessShape, P!Member, Now, P!SentinelSound, P!Alive, P!os, P!GroupSound, P!GuardSound, P!Holding, P!Childless, P!Resigned, P!Gone
<1>4. P!GuardSound'
  BY <1>0, <1>1, <1>s, ProcessSettleStep, ProcessFields DEF P!ProcessShape, P!Member, Now, P!GuardSound, P!Childless, P!Holding, P!Resigned, P!Gone, P!os
<1>5. P!LeftSound'
  BY <1>0, <1>1, <1>s, ProcessSettleStep, ProcessFields DEF P!ProcessShape, P!Member, Now, P!LeftSound, P!Contained, P!Alive, P!Excused, P!Childless, P!Holding, P!Resigned, P!Gone, P!os, P!GroupSound, P!GuardSound, P!SentinelSound
<1>6. P!ReportsSound'
  BY <1>0, <1>1, <1>s, ProcessSettleStep, ProcessFields, ProcessReported DEF P!ProcessShape, P!Member, Now, P!ReportsSound, P!OurGroup, P!Alive, P!Childless, P!Holding, P!Resigned, P!Gone, P!os, P!GroupSound, P!GuardSound
<1>7. P!SignalsStayInside'
  BY <1>0, <1>1, <1>s, ProcessSettleStep, ProcessFields DEF P!ProcessShape, P!Member, Now, P!SignalsStayInside, P!os, P!GroupSound, P!GuardSound, P!Holding, P!Childless, P!Resigned, P!Gone
<1>8. P!CodeIsTheTargets'
  BY <1>0, <1>1, <1>s, ProcessSettleStep, ProcessFields DEF P!ProcessShape, P!Member, Now, P!CodeIsTheTargets, P!os, P!GroupSound, P!GuardSound, P!Holding, P!Childless, P!Resigned, P!Gone
<1> QED BY <1>1, <1>2, <1>3, <1>4, <1>5, <1>6, <1>7, <1>8 DEF P!ProcessInv

\* The future drains the output.
LEMMA ProcessDrainKeeps ==
  ASSUME P!ProcessInv, P!Drain
  PROVE  P!ProcessInv'
<1>0. /\ P!ProcessShape /\ P!GroupSound /\ P!SentinelSound /\ P!GuardSound /\ P!LeftSound /\ P!ReportsSound
      /\ P!SignalsStayInside /\ P!CodeIsTheTargets
  BY DEF P!ProcessInv
<1>s. fut \in P!FutureState /\ fut' \in P!FutureState
  BY <1>0, ProcessDrainStep DEF P!ProcessShape
<1>h. P!ProcessShape
  BY <1>0
<1>1. P!ProcessShape'
  BY <1>h, <1>s, ProcessDrainStep, ProcessSignalled DEF P!ProcessShape, Now, P!TermGroup
<1>2. P!GroupSound'
  BY <1>0, <1>1, <1>s, ProcessDrainStep, ProcessSignalled, ProcessHeld, ProcessFields DEF P!ProcessShape, P!Member, Now, P!GroupSound, P!Alive, P!TermGroup, P!NumberAlive, P!MaySignal, P!GuardSound, P!Holding, P!Childless, P!Resigned, P!Gone
<1>3. P!SentinelSound'
  BY <1>0, <1>1, <1>s, ProcessDrainStep, ProcessSignalled, ProcessHeld, ProcessFields DEF P!ProcessShape, P!Member, Now, P!SentinelSound, P!Alive, P!TermGroup, P!NumberAlive, P!MaySignal, P!GroupSound, P!GuardSound, P!Holding, P!Childless, P!Resigned, P!Gone
<1>4. P!GuardSound'
  BY <1>0, <1>1, <1>s, ProcessDrainStep, ProcessSignalled, ProcessHeld, ProcessFields DEF P!ProcessShape, P!Member, Now, P!GuardSound, P!Childless, P!Holding, P!Resigned, P!Gone, P!TermGroup, P!NumberAlive, P!MaySignal
<1>5. P!LeftSound'
  BY <1>0, <1>1, <1>s, ProcessDrainStep, ProcessSignalled, ProcessHeld, ProcessFields DEF P!ProcessShape, P!Member, Now, P!LeftSound, P!Contained, P!Alive, P!Excused, P!Childless, P!Holding, P!Resigned, P!Gone, P!TermGroup, P!NumberAlive, P!MaySignal, P!GroupSound, P!GuardSound, P!SentinelSound, P!OurGroup
<1>6. P!ReportsSound'
  BY <1>0, <1>1, <1>s, ProcessDrainStep, ProcessSignalled, ProcessHeld, ProcessFields, ProcessReported DEF P!ProcessShape, P!Member, Now, P!ReportsSound, P!OurGroup, P!Alive, P!Childless, P!Holding, P!Resigned, P!Gone, P!TermGroup, P!NumberAlive, P!MaySignal, P!GroupSound, P!GuardSound
<1>7. P!SignalsStayInside'
  BY <1>0, <1>1, <1>s, ProcessDrainStep, ProcessSignalled, ProcessHeld, ProcessFields DEF P!ProcessShape, P!Member, Now, P!SignalsStayInside, P!TermGroup, P!NumberAlive, P!MaySignal, P!GroupSound, P!GuardSound, P!Holding, P!Childless, P!Resigned, P!Gone
<1>8. P!CodeIsTheTargets'
  BY <1>0, <1>1, <1>s, ProcessDrainStep, ProcessSignalled, ProcessHeld, ProcessFields DEF P!ProcessShape, P!Member, Now, P!CodeIsTheTargets, P!TermGroup, P!NumberAlive, P!MaySignal, P!GroupSound, P!GuardSound, P!Holding, P!Childless, P!Resigned, P!Gone
<1> QED BY <1>1, <1>2, <1>3, <1>4, <1>5, <1>6, <1>7, <1>8 DEF P!ProcessInv

\* The future signals whoever is left.
LEMMA ProcessResidualKeeps ==
  ASSUME P!ProcessInv, P!Residual
  PROVE  P!ProcessInv'
<1>0. /\ P!ProcessShape /\ P!GroupSound /\ P!SentinelSound /\ P!GuardSound /\ P!LeftSound /\ P!ReportsSound
      /\ P!SignalsStayInside /\ P!CodeIsTheTargets
  BY DEF P!ProcessInv
<1>s. fut \in P!FutureState /\ fut' \in P!FutureState
  BY <1>0, ProcessResidualStep DEF P!ProcessShape
<1>h. P!ProcessShape
  BY <1>0
<1>1. P!ProcessShape'
  BY <1>h, <1>s, ProcessResidualStep, ProcessSignalled DEF P!ProcessShape, Now
<1>2. P!GroupSound'
  <2>1. UNCHANGED <<gated, proc, foreign, sentinel, status, gate>>
    BY <1>h, ProcessResidualStep
  <2>2. proc["leader"] = "none" => doomed' = doomed
    BY <1>0, ProcessResidualStep, ProcessSignalled DEF P!GroupSound, P!OurGroup, P!Alive, P!Member
  <2> QED BY <1>0, <2>1, <2>2 DEF P!GroupSound, P!Alive
<1>3. P!SentinelSound'
  BY <1>0, <1>1, <1>s, ProcessResidualStep, ProcessSignalled, ProcessHeld, ProcessFields DEF P!ProcessShape, P!Member, Now, P!SentinelSound, P!Alive, P!NumberAlive, P!GroupSound, P!GuardSound, P!Holding, P!Childless, P!Resigned, P!Gone
<1>4. P!GuardSound'
  BY <1>0, <1>1, <1>s, ProcessResidualStep, ProcessSignalled, ProcessHeld, ProcessFields DEF P!ProcessShape, P!Member, Now, P!GuardSound, P!Childless, P!Holding, P!Resigned, P!Gone, P!NumberAlive
<1>5. P!LeftSound'
  BY <1>0, <1>1, <1>s, ProcessResidualStep, ProcessSignalled, ProcessHeld, ProcessFields DEF P!ProcessShape, P!Member, Now, P!LeftSound, P!Contained, P!Alive, P!Excused, P!Childless, P!Holding, P!Resigned, P!Gone, P!NumberAlive, P!GroupSound, P!GuardSound, P!SentinelSound, P!OurGroup
<1>6. P!ReportsSound'
  BY <1>0, <1>1, <1>s, ProcessResidualStep, ProcessSignalled, ProcessHeld, ProcessFields, ProcessReported DEF P!ProcessShape, P!Member, Now, P!ReportsSound, P!OurGroup, P!Alive, P!Childless, P!Holding, P!Resigned, P!Gone, P!NumberAlive, P!Stopped, P!GroupSound, P!GuardSound
<1>7. P!SignalsStayInside'
  BY <1>0, <1>1, <1>s, ProcessResidualStep, ProcessSignalled, ProcessHeld, ProcessFields DEF P!ProcessShape, P!Member, Now, P!SignalsStayInside, P!NumberAlive, P!GroupSound, P!GuardSound, P!Holding, P!Childless, P!Resigned, P!Gone
<1>8. P!CodeIsTheTargets'
  BY <1>0, <1>1, <1>s, ProcessResidualStep, ProcessSignalled, ProcessHeld, ProcessFields DEF P!ProcessShape, P!Member, Now, P!CodeIsTheTargets, P!NumberAlive, P!GroupSound, P!GuardSound, P!Holding, P!Childless, P!Resigned, P!Gone
<1> QED BY <1>1, <1>2, <1>3, <1>4, <1>5, <1>6, <1>7, <1>8 DEF P!ProcessInv

\* The future looks once more and reports.
LEMMA ProcessObserveKeeps ==
  ASSUME P!ProcessInv, P!Observe
  PROVE  P!ProcessInv'
<1>0. /\ P!ProcessShape /\ P!GroupSound /\ P!SentinelSound /\ P!GuardSound /\ P!LeftSound /\ P!ReportsSound
      /\ P!SignalsStayInside /\ P!CodeIsTheTargets
  BY DEF P!ProcessInv
<1>s. fut \in P!FutureState /\ fut' \in P!FutureState
  BY <1>0, ProcessObserveStep DEF P!ProcessShape
<1>h. P!ProcessShape
  BY <1>0
<1>1. P!ProcessShape'
  BY <1>h, <1>s, ProcessObserveStep DEF P!ProcessShape, Now, P!os
<1>2. P!GroupSound'
  BY <1>0, <1>1, <1>s, ProcessObserveStep, ProcessFields DEF P!ProcessShape, P!Member, Now, P!GroupSound, P!Alive, P!os, P!NumberAlive, P!GuardSound, P!Holding, P!Childless, P!Resigned, P!Gone
<1>3. P!SentinelSound'
  BY <1>0, <1>1, <1>s, ProcessObserveStep, ProcessFields DEF P!ProcessShape, P!Member, Now, P!SentinelSound, P!Alive, P!os, P!NumberAlive, P!GroupSound, P!GuardSound, P!Holding, P!Childless, P!Resigned, P!Gone
<1>4. P!GuardSound'
  BY <1>0, <1>1, <1>s, ProcessObserveStep, ProcessFields DEF P!ProcessShape, P!Member, Now, P!GuardSound, P!Childless, P!Holding, P!Resigned, P!Gone, P!os, P!NumberAlive
<1>5. P!LeftSound'
  BY <1>0, <1>1, <1>s, ProcessObserveStep, ProcessFields DEF P!ProcessShape, P!Member, Now, P!LeftSound, P!Contained, P!Alive, P!Excused, P!Childless, P!Holding, P!Resigned, P!Gone, P!os, P!NumberAlive, P!GroupSound, P!GuardSound, P!SentinelSound, P!OurGroup
<1>6. P!ReportsSound'
  <2>1. /\ fut'.at = "ended" /\ UNCHANGED <<gated, proc, gate>>
        /\ reports' = IF gated THEN Append(reports, IF ~P!NumberAlive THEN "empty" ELSE "stopped") ELSE reports
    BY <1>0, ProcessObserveStep DEF Now, P!os, P!Stopped
  <2>2. reports = (IF gated THEN P!Begun ELSE P!Unsaid) /\ (gate = "go" => reports = P!Begun)
    BY <1>0, ProcessObserveStep, ProcessReported DEF P!ReportsSound, P!ProcessShape, P!Childless, P!Holding, P!Resigned, P!Gone
  <2>3. CASE ~gated
    BY <2>1, <2>2, <2>3, ProcessReported DEF P!ReportsSound, P!Childless, P!Holding, P!Resigned, P!Gone
  <2>4. CASE gated
    <3>1. reports' \in P!Finished
      BY <2>1, <2>2, <2>4, ProcessReported
    <3>2. reports' \in P!SaidEmpty => ~P!OurGroup
      BY <2>1, <2>2, <2>4, ProcessReported DEF P!NumberAlive
    <3> QED BY <2>1, <2>2, <2>4, <3>1, <3>2, ProcessReported DEF P!ReportsSound, P!OurGroup, P!Alive, P!Childless, P!Holding, P!Resigned, P!Gone
  <2> QED BY <2>3, <2>4
<1>7. P!SignalsStayInside'
  BY <1>0, <1>1, <1>s, ProcessObserveStep, ProcessFields DEF P!ProcessShape, P!Member, Now, P!SignalsStayInside, P!os, P!NumberAlive, P!GroupSound, P!GuardSound, P!Holding, P!Childless, P!Resigned, P!Gone
<1>8. P!CodeIsTheTargets'
  BY <1>0, <1>1, <1>s, ProcessObserveStep, ProcessFields DEF P!ProcessShape, P!Member, Now, P!CodeIsTheTargets, P!os, P!NumberAlive, P!GroupSound, P!GuardSound, P!Holding, P!Childless, P!Resigned, P!Gone
<1> QED BY <1>1, <1>2, <1>3, <1>4, <1>5, <1>6, <1>7, <1>8 DEF P!ProcessInv

\* The future is dropped, and its guard signals.
LEMMA ProcessDroppedKeeps ==
  ASSUME P!ProcessInv, P!Dropped
  PROVE  P!ProcessInv'
<1>0. /\ P!ProcessShape /\ P!GroupSound /\ P!SentinelSound /\ P!GuardSound /\ P!LeftSound /\ P!ReportsSound
      /\ P!SignalsStayInside /\ P!CodeIsTheTargets
  BY DEF P!ProcessInv
<1>s. fut \in P!FutureState /\ fut' \in P!FutureState
  BY <1>0, ProcessDroppedStep DEF P!ProcessShape
<1>h. P!ProcessShape
  BY <1>0
<1>1. P!ProcessShape'
  <2>1. gate' \in {"closed", "go", "eof"}
    BY <1>h, ProcessDroppedStep DEF P!ProcessShape
  <2>2. doomed' \subseteq P!Member /\ struck' \in {struck, "drop"}
    BY <1>h, ProcessDroppedStep, ProcessSignalled DEF P!ProcessShape
  <2>3. UNCHANGED <<gated, stop, proc, holds, foreign, sentinel, status, murdered>>
    BY <1>h, ProcessDroppedStep
  <2> QED BY <1>h, <1>s, <2>1, <2>2, <2>3 DEF P!ProcessShape
<1>2. P!GroupSound'
  BY <1>0, <1>1, <1>s, ProcessDroppedStep, ProcessSignalled, ProcessHeld, ProcessFields DEF P!ProcessShape, P!Member, Now, P!GroupSound, P!Alive, P!GuardSound, P!Holding, P!Childless, P!Resigned, P!Gone
<1>3. P!SentinelSound'
  BY <1>0, <1>1, <1>s, ProcessDroppedStep, ProcessSignalled, ProcessHeld, ProcessFields DEF P!ProcessShape, P!Member, Now, P!SentinelSound, P!Alive, P!GroupSound, P!GuardSound, P!Holding, P!Childless, P!Resigned, P!Gone
<1>4. P!GuardSound'
  BY <1>0, <1>1, <1>s, ProcessDroppedStep, ProcessSignalled, ProcessHeld, ProcessFields DEF P!ProcessShape, P!Member, Now, P!GuardSound, P!Childless, P!Holding, P!Resigned, P!Gone
<1>5. P!LeftSound'
  <2>1. fut'.at = "ended" /\ fut'.lost = fut.lost /\ UNCHANGED <<gated, proc, murdered>> /\ doomed \subseteq doomed'
    BY <1>h, ProcessDroppedStep, ProcessSignalled DEF Now
  <2>2. CASE fut.auth
    <3>1. P!OurGroup
      BY <1>0, <2>2, ProcessDroppedStep, ProcessHeld DEF P!GuardSound, P!Childless, P!Holding, P!Resigned, P!Gone
    <3>2. P!Alive \subseteq doomed'
      BY <1>h, <2>2, <3>1, ProcessDroppedStep, ProcessSignalled
    <3> QED BY <2>1, <3>2 DEF P!LeftSound, P!Contained, P!Alive
  <2>3. CASE ~fut.auth /\ fut.at \in P!Childless
    <3>1. P!Alive = {}
      BY <1>0, <2>3 DEF P!GuardSound, P!GroupSound, P!Alive, P!Childless, P!Holding, P!Resigned, P!Gone
    <3> QED BY <2>1, <3>1 DEF P!LeftSound, P!Contained, P!Alive
  <2>4. CASE ~fut.auth /\ fut.at \notin P!Childless
    <3>1. fut.lost \/ proc["leader"] = "dead"
      BY <1>0, <1>s, <2>4, ProcessDroppedStep, ProcessFields DEF P!GuardSound, P!Place, P!Childless, P!Holding, P!Resigned, P!Gone
    <3>2. fut'.why = "late"
      BY <1>h, <2>4, ProcessDroppedStep DEF Now
    <3>3. gated /\ ~fut.lost => murdered \/ P!Alive \subseteq doomed
      BY <1>0, <3>1 DEF P!SentinelSound
    <3> QED BY <1>h, <2>1, <3>2, <3>3 DEF P!LeftSound, P!Contained, P!Excused, P!Alive, P!ProcessShape
  <2> QED BY <2>2, <2>3, <2>4
<1>6. P!ReportsSound'
  <2>1. /\ fut'.at = "ended" /\ UNCHANGED <<gated, proc>> /\ (gate' = "go" => gate = "go")
        /\ gate = "go" => fut.at \notin P!Childless
    BY <1>0, ProcessDroppedStep DEF Now, P!GuardSound
  <2>2. \/ reports' = reports /\ (fut.at \in P!Childless \/ ~gated)
        \/ gated /\ fut.at \notin P!Childless /\ reports' = Append(reports, "stopped")
    BY <1>h, ProcessDroppedStep DEF P!Stopped, P!ProcessShape
  <2>3. reports \in {P!Unsaid, P!Begun} /\ (gate = "go" => reports = P!Begun)
    BY <1>0, <1>s, ProcessDroppedStep, ProcessFields, ProcessReported DEF P!ReportsSound, P!Place, P!Childless, P!Holding, P!Resigned, P!Gone
  <2>4. fut.at \in P!Childless \/ ~gated => reports = P!Unsaid
    BY <1>0 DEF P!ReportsSound
  <2>5. CASE reports' = reports /\ reports = P!Unsaid
    BY <2>1, <2>3, <2>5, ProcessReported DEF P!ReportsSound, P!Childless, P!Holding, P!Resigned, P!Gone
  <2>6. CASE gated /\ reports' = Append(reports, "stopped")
    <3>1. (reports = P!Unsaid => reports' \in P!Refused) /\ (reports = P!Begun => reports' \in P!Finished) /\ reports' \notin P!SaidEmpty
      BY <2>3, <2>6, ProcessReported
    <3> QED BY <2>1, <2>3, <2>6, <3>1, ProcessReported DEF P!ReportsSound, P!Childless, P!Holding, P!Resigned, P!Gone
  <2> QED BY <2>2, <2>4, <2>5, <2>6
<1>7. P!SignalsStayInside'
  BY <1>0, <1>1, <1>s, ProcessDroppedStep, ProcessSignalled, ProcessHeld, ProcessFields DEF P!ProcessShape, P!Member, Now, P!SignalsStayInside, P!GroupSound, P!GuardSound, P!Holding, P!Childless, P!Resigned, P!Gone
<1>8. P!CodeIsTheTargets'
  BY <1>0, <1>1, <1>s, ProcessDroppedStep, ProcessSignalled, ProcessHeld, ProcessFields DEF P!ProcessShape, P!Member, Now, P!CodeIsTheTargets, P!GroupSound, P!GuardSound, P!Holding, P!Childless, P!Resigned, P!Gone
<1> QED BY <1>1, <1>2, <1>3, <1>4, <1>5, <1>6, <1>7, <1>8 DEF P!ProcessInv

\* The future ends with its process.
LEMMA ProcessCrashKeeps ==
  ASSUME P!ProcessInv, P!Crash
  PROVE  P!ProcessInv'
<1>0. /\ P!ProcessShape /\ P!GroupSound /\ P!SentinelSound /\ P!GuardSound /\ P!LeftSound /\ P!ReportsSound
      /\ P!SignalsStayInside /\ P!CodeIsTheTargets
  BY DEF P!ProcessInv
<1>s. fut \in P!FutureState /\ fut' \in P!FutureState
  BY <1>0, ProcessCrashStep DEF P!ProcessShape
<1>h. P!ProcessShape
  BY <1>0
<1>1. P!ProcessShape'
  BY <1>h, <1>s, ProcessCrashStep DEF P!ProcessShape, Now, P!os
<1>2. P!GroupSound'
  BY <1>0, <1>1, <1>s, ProcessCrashStep, ProcessFields DEF P!ProcessShape, P!Member, Now, P!GroupSound, P!Alive, P!os, P!GuardSound, P!Holding, P!Childless, P!Resigned, P!Gone
<1>3. P!SentinelSound'
  BY <1>0, <1>1, <1>s, ProcessCrashStep, ProcessFields DEF P!ProcessShape, P!Member, Now, P!SentinelSound, P!Alive, P!os, P!GroupSound, P!GuardSound, P!Holding, P!Childless, P!Resigned, P!Gone
<1>4. P!GuardSound'
  BY <1>0, <1>1, <1>s, ProcessCrashStep, ProcessFields DEF P!ProcessShape, P!Member, Now, P!GuardSound, P!Childless, P!Holding, P!Resigned, P!Gone, P!os
<1>5. P!LeftSound'
  BY <1>0, <1>1, <1>s, ProcessCrashStep, ProcessFields DEF P!ProcessShape, P!Member, Now, P!LeftSound, P!Contained, P!Alive, P!Excused, P!Childless, P!Holding, P!Resigned, P!Gone, P!os, P!GroupSound, P!GuardSound, P!SentinelSound
<1>6. P!ReportsSound'
  <2>1. fut'.at = "crashed" /\ UNCHANGED <<gated, proc, reports>> /\ (gate' = "go" => gate = "go")
    BY <1>h, ProcessCrashStep DEF Now, P!os
  <2>2. reports \in {P!Unsaid, P!Begun} \cup P!Refused \cup P!Finished
    BY <1>0, <1>s, ProcessFields DEF P!ReportsSound, P!Place, P!Childless, P!Holding, P!Resigned, P!Gone
  <2> QED BY <1>0, <2>1, <2>2 DEF P!ReportsSound, P!OurGroup, P!Alive, P!Childless, P!Holding, P!Resigned, P!Gone
<1>7. P!SignalsStayInside'
  BY <1>0, <1>1, <1>s, ProcessCrashStep, ProcessFields DEF P!ProcessShape, P!Member, Now, P!SignalsStayInside, P!os, P!GroupSound, P!GuardSound, P!Holding, P!Childless, P!Resigned, P!Gone
<1>8. P!CodeIsTheTargets'
  BY <1>0, <1>1, <1>s, ProcessCrashStep, ProcessFields DEF P!ProcessShape, P!Member, Now, P!CodeIsTheTargets, P!os, P!GroupSound, P!GuardSound, P!Holding, P!Childless, P!Resigned, P!Gone
<1> QED BY <1>1, <1>2, <1>3, <1>4, <1>5, <1>6, <1>7, <1>8 DEF P!ProcessInv
\* The first state, and the state of a process nobody starts.
LEMMA ProcessInit ==
  ASSUME NEW place \in {"authorize", "ended"}, P!Unstarted(place)
  PROVE  P!ProcessInv
<1>1. P!ProcessShape
  BY DEF P!Unstarted, P!ProcessShape, P!FutureState, P!Place, P!Childless, P!Holding, P!Resigned, P!Gone, P!Member
<1>2. P!Alive = {} /\ proc["leader"] = "none" /\ proc["target"] = "none" /\ ~P!OurGroup
  BY DEF P!Unstarted, P!Alive, P!Member, P!OurGroup
<1>3. /\ fut.at = place /\ ~fut.auth /\ fut.why = "none" /\ ~fut.lost
  BY DEF P!Unstarted
<1>4. P!GroupSound /\ P!SentinelSound /\ P!SignalsStayInside
  BY <1>2 DEF P!Unstarted, P!GroupSound, P!SentinelSound, P!SignalsStayInside
<1>5. P!GuardSound /\ P!LeftSound /\ P!CodeIsTheTargets
  BY <1>2, <1>3 DEF P!Unstarted, P!GuardSound, P!LeftSound, P!CodeIsTheTargets, P!Contained, P!Childless, P!Holding, P!Resigned
<1>6. P!ReportsSound
  BY <1>2, <1>3, ProcessReported DEF P!Unstarted, P!ReportsSound, P!Unsaid, P!Childless, P!Holding, P!Resigned
<1> QED BY <1>1, <1>4, <1>5, <1>6 DEF P!ProcessInv

\* A step that leaves the process alone.
LEMMA ProcessStutter == P!ProcessInv /\ UNCHANGED P!vars => P!ProcessInv'
  BY DEF P!ProcessInv, P!vars, P!os, P!ProcessShape, P!GroupSound, P!SentinelSound, P!GuardSound, P!LeftSound, P!ReportsSound,
         P!SignalsStayInside, P!CodeIsTheTargets, P!Alive, P!OurGroup, P!Contained, P!Excused

\* Every step of the process, its future and its sentinel.
LEMMA ProcessStep == P!ProcessInv /\ P!Next => P!ProcessInv'
<1> SUFFICES ASSUME P!ProcessInv, P!Next PROVE P!ProcessInv'
  OBVIOUS
<1>1. CASE \E m \in P!Member : P!Ends(m)
  BY <1>1, ProcessEndsKeeps
<1>2. CASE P!Forks \/ P!Collected \/ P!Reused \/ P!Murdered
  BY <1>2, ProcessForksKeeps, ProcessCollectedKeeps, ProcessReusedKeeps, ProcessMurderedKeeps
<1>3. CASE P!Sentinel
  BY <1>3, ProcessSentinelStartsKeeps, ProcessSentinelRefusesKeeps, ProcessSentinelReportsKeeps, ProcessSentinelKillsKeeps DEF P!Sentinel
<1>4. CASE P!Future
  BY <1>4, ProcessAuthorizeKeeps, ProcessSpawnKeeps, ProcessAnnounceKeeps, ProcessReleaseKeeps, ProcessAbortKeeps, ProcessAbortSettleKeeps, ProcessSelectKeeps,
     ProcessTermLeaderKeeps, ProcessTermRestKeeps, ProcessKillLeaderKeeps, ProcessSettleKeeps, ProcessDrainKeeps, ProcessResidualKeeps, ProcessObserveKeeps
     DEF P!Future
<1>5. CASE P!Dropped \/ P!Crash
  BY <1>5, ProcessDroppedKeeps, ProcessCrashKeeps
<1>6. CASE \E how \in {"cancelled", "timed_out"} : P!Stops(how)
  BY <1>6, ProcessStopsKeeps
<1> QED BY <1>1, <1>2, <1>3, <1>4, <1>5, <1>6 DEF P!Next

\* The invariant says what the run checks.
LEMMA ProcessInvSuffices == P!ProcessInv => P!ProcessesContained
<1> SUFFICES ASSUME P!ProcessInv PROVE P!ProcessesContained
  OBVIOUS
<1>0. /\ P!ProcessShape /\ P!GroupSound /\ P!SentinelSound /\ P!GuardSound /\ P!LeftSound /\ P!ReportsSound
      /\ P!SignalsStayInside /\ P!CodeIsTheTargets
  BY DEF P!ProcessInv
<1>1. /\ fut \in P!FutureState /\ fut.at \in P!Place /\ (fut.auth => fut.at \notin {"ended"} \cup P!Childless)
  BY <1>0, ProcessFields DEF P!ProcessShape, P!GuardSound, P!Holding, P!Childless
<1>2. reports \in {P!Unsaid, P!Begun} \cup P!Refused \cup P!Finished
  BY <1>0, <1>1 DEF P!ReportsSound, P!Place, P!Childless, P!Holding, P!Resigned, P!Gone
<1>3. CASE reports = P!Unsaid
  <2>1. reports \in Seq({"started", "empty", "stopped"}) /\ Len(reports) = 0 /\ reports = <<>>
    BY <1>3 DEF P!Unsaid
  <2>2. gated /\ proc["target"] # "none" => FALSE
    BY <1>0, <1>3, ProcessReported DEF P!GroupSound, P!ReportsSound
  <2>3. P!TargetIsAnnounced /\ P!EmptyIsEmpty
    BY <2>1, <2>2 DEF P!TargetIsAnnounced, P!EmptyIsEmpty
  <2> QED BY <1>0, <1>1, <2>1, <2>3 DEF P!ProcessesContained, P!ProcessTypeOK, P!ProcessShape, P!NobodyLeft, P!LeftSound, P!Contained
<1>4. CASE reports = P!Begun
  <2>1. /\ reports \in Seq({"started", "empty", "stopped"}) /\ Len(reports) = 1 /\ reports[1] = "started"
        /\ reports # <<>> /\ Head(reports) = "started"
    BY <1>4 DEF P!Begun
  <2>2. fut.at # "ended"
    BY <1>0, <1>4, ProcessReported DEF P!ReportsSound
  <2>3. P!TargetIsAnnounced /\ P!EmptyIsEmpty
    BY <2>1, <2>2 DEF P!TargetIsAnnounced, P!EmptyIsEmpty
  <2> QED BY <1>0, <1>1, <2>1, <2>3 DEF P!ProcessesContained, P!ProcessTypeOK, P!ProcessShape, P!NobodyLeft, P!LeftSound, P!Contained
<1>5. CASE reports \in P!Refused
  <2>1. /\ reports \in Seq({"started", "empty", "stopped"}) /\ Len(reports) = 1 /\ reports # <<>>
        /\ reports[1] \in {"empty", "stopped"} /\ (reports[1] = "empty" => reports \in P!SaidEmpty)
    <3>1. CASE reports = <<"empty">>
      BY <3>1 DEF P!SaidEmpty
    <3>2. CASE reports = <<"stopped">>
      BY <3>2
    <3> QED BY <1>5, <3>1, <3>2 DEF P!Refused
  <2>2. gated /\ proc["target"] # "none" => FALSE
    <3>1. reports \notin {P!Begun} \cup P!Finished
      BY <1>5, <2>1, ProcessReported DEF P!Refused, P!Finished
    <3> QED BY <1>0, <3>1 DEF P!GroupSound, P!ReportsSound
  <2>3. P!TargetIsAnnounced /\ P!EmptyIsEmpty
    BY <1>0, <2>1, <2>2 DEF P!TargetIsAnnounced, P!EmptyIsEmpty, P!ReportsSound
  <2> QED BY <1>0, <1>1, <2>1, <2>3 DEF P!ProcessesContained, P!ProcessTypeOK, P!ProcessShape, P!NobodyLeft, P!LeftSound, P!Contained
<1>6. CASE reports \in P!Finished
  <2>1. /\ reports \in Seq({"started", "empty", "stopped"}) /\ Len(reports) = 2 /\ reports # <<>>
        /\ reports[1] = "started" /\ Head(reports) = "started" /\ reports[2] \in {"empty", "stopped"}
        /\ (reports[2] = "empty" => reports \in P!SaidEmpty)
    <3>1. CASE reports = <<"started", "empty">>
      BY <3>1 DEF P!SaidEmpty
    <3>2. CASE reports = <<"started", "stopped">>
      BY <3>2
    <3> QED BY <1>6, <3>1, <3>2 DEF P!Finished
  <2>2. 1 .. 2 = {1, 2}
    OBVIOUS
  <2>3. P!TargetIsAnnounced /\ P!EmptyIsEmpty
    BY <1>0, <2>1, <2>2 DEF P!TargetIsAnnounced, P!EmptyIsEmpty, P!ReportsSound
  <2> QED BY <1>0, <1>1, <2>1, <2>3 DEF P!ProcessesContained, P!ProcessTypeOK, P!ProcessShape, P!NobodyLeft, P!LeftSound, P!Contained
<1> QED BY <1>2, <1>3, <1>4, <1>5, <1>6

\* The invariant of a process holds whatever the behaviour is about.
LEMMA ProcessInvariant == MCSpec => []P!ProcessInv
<1>1. MCInit => P!ProcessInv
  <2> SUFFICES ASSUME MCInit PROVE P!ProcessInv
    OBVIOUS
  <2>1. CASE P!Init
    BY <2>1, ProcessInit DEF P!Init
  <2>2. CASE P!Unstarted("ended") /\ gated
    BY <2>2, ProcessInit
  <2> QED BY <2>1, <2>2 DEF MCInit
<1>2. ASSUME P!ProcessInv, [MCNext]_allVars PROVE P!ProcessInv'
  <2>1. CASE P!Next
    BY <1>2, <2>1, ProcessStep
  <2>2. CASE UNCHANGED processVars
    <3>1. UNCHANGED P!vars
      BY <2>2 DEF processVars, P!vars, P!os
    <3> QED BY <1>2, <3>1, ProcessStutter
  <2> QED BY <1>2, <2>1, <2>2 DEF MCNext, allVars
<1> QED BY <1>1, <1>2, PTL DEF MCSpec

\* What a harness starts is contained (ProcessesContained): signals stay in its
\* group, the reporter hears of the target before it runs and is told that the
\* group is empty only when it is, nobody is left unsignalled when the future
\* ends, and a code reported for a gated run is its target's.
THEOREM ProcessesStayContained == MCSpec => []ProcessesContained
<1>1. P!ProcessInv => ProcessesContained
  BY ProcessInvSuffices DEF ProcessesContained
<1> QED BY <1>1, ProcessInvariant, PTL
=============================================================================
