-------------------------- MODULE GoalPursuitProofs --------------------------
(***************************************************************************)
(* Proofs about the pursuit of a goal, for any drivers, workers and        *)
(* criteria, any limits and any number of operator commands and faults.    *)
(*                                                                         *)
(* The budgets hold because a driver whose copy of the checkpoint is fresh *)
(* holds the stored counters, and because it decides on a copy what it     *)
(* then writes: the invariant says what a copy promises at each point of   *)
(* the pursuit, and counts the segments reserved but not yet dispatched.   *)
(***************************************************************************)
EXTENDS GoalPursuit, FiniteSetTheorems, TLAPS

-----------------------------------------------------------------------------
(* The inductive invariant. *)

Statuses == {"queued", "in_progress", "paused", "completed", "failed", "cancelled"}
GoalRecord == [status : Statuses, claimed : Workers \union {NoWorker},
               live : BOOLEAN, gen : Nat]
Counters == [started : Nat, completed : Nat, failures : Nat]
Copy == [fresh : BOOLEAN, gen : Nat, started : Nat, completed : Nat, failures : Nat]

\* Only a goal in progress is leased.
GoalOK(g) ==
    /\ g \in GoalRecord
    /\ g.live => g.claimed # NoWorker
    /\ g.claimed # NoWorker => g.status = "in_progress"

Reserving == {"reserve", "reserve_failed"}
Sending   == {"dispatch", "dispatch_failed"}
Spending  == Sending \union {"running", "running_failed"}

\* What a driver's copy m of the checkpoint c promises at point p.
GoodCopy(p, m, c) ==
    /\ p \in Phases /\ m \in Copy
    /\ m.fresh => /\ m.started = c.started /\ m.completed = c.completed
                  /\ m.failures = c.failures
    /\ m.completed <= m.started
    /\ p \in Reserving => m.started < MaxSegments /\ m.failures < MaxFailures
    /\ p \in Spending => m.failures >= 1 /\ m.completed < m.started

DriversOK ==
    /\ at = [d \in Drivers |-> at[d]] /\ mem = [d \in Drivers |-> mem[d]]
    /\ \A d \in Drivers : GoodCopy(at[d], mem[d], ck)

\* Segments reserved whose dispatch is still to come.
Pending == {d \in Drivers : at[d] \in Sending}

CountersOK ==
    /\ ck \in Counters /\ dispatched \in Nat /\ streak \in Nat
    /\ ck.completed <= ck.started /\ ck.started <= MaxSegments /\ ck.failures <= MaxFailures
    /\ IsFiniteSet(Pending) /\ dispatched + Cardinality(Pending) <= ck.started
    /\ goal.status # "completed" => streak <= ck.failures

CriteriaOK ==
    /\ satisfied \subseteq Criteria /\ verified \subseteq Criteria /\ waived \in BOOLEAN
    /\ seen \in [Drivers -> SUBSET Criteria]
    /\ CompletedIsVerified

IInv == GoalOK(goal) /\ DriversOK /\ CountersOK /\ CriteriaOK

\* What every step shows: the invariant, and that the checkpoint does not go
\* back.
Shown == IInv' /\ ck'.started >= ck.started /\ ck'.completed >= ck.completed

\* A goal that is completed stays so, and on what it was completed.
GoalMoves ==
    /\ GoalOK(goal') /\ CriteriaOK'
    /\ goal.status = "completed" => goal'.status = "completed"

-----------------------------------------------------------------------------
(* Goals. *)

\* A granted lease is one.
LEMMA GrantedOK ==
    ASSUME IInv, NEW w \in Workers
    PROVE  GoalOK(Granted(w)) /\ Granted(w).status = "in_progress"
<1>1. goal.gen + 1 \in Nat
  BY DEF IInv, GoalOK, GoalRecord
<1>2. w # NoWorker
  BY PursuitAssumption
<1> QED BY <1>1, <1>2 DEF Granted, GoalOK, GoalRecord, Statuses

\* A goal that stops is released.
LEMMA ReleasedOK ==
    ASSUME IInv, NEW status \in Statuses
    PROVE  GoalOK(Released(status)) /\ Released(status).status = status
BY DEF IInv, GoalOK, GoalRecord, Released

\* What is unchanged stays sound.
LEMMA GoalStays ==
    ASSUME IInv, UNCHANGED <<goal, satisfied, verified, waived>>,
           seen' \in [Drivers -> SUBSET Criteria]
    PROVE  GoalMoves
BY DEF GoalMoves, IInv, CriteriaOK, CompletedIsVerified

\* A goal that is not completed by the step, nor was before.
LEMMA GoalChanges ==
    ASSUME IInv, GoalOK(goal'), goal.status # "completed", goal'.status # "completed",
           UNCHANGED <<satisfied, verified, waived>>,
           seen' \in [Drivers -> SUBSET Criteria]
    PROVE  GoalMoves
BY DEF GoalMoves, IInv, CriteriaOK, CompletedIsVerified

-----------------------------------------------------------------------------
(* Drivers. *)

\* A step that leaves drivers and counters alone.
LEMMA QuietShown ==
    ASSUME IInv, GoalMoves, UNCHANGED <<ck, at, mem, dispatched, streak>>
    PROVE  Shown
<1>1. DriversOK'
  BY DEF IInv, DriversOK
<1>2. Pending' = Pending
  BY DEF Pending
<1>3. CountersOK'
  BY <1>2 DEF IInv, CountersOK, GoalMoves
<1>4. ck'.started >= ck.started /\ ck'.completed >= ck.completed
  BY DEF IInv, CountersOK, Counters
<1> QED BY <1>1, <1>3, <1>4 DEF Shown, IInv, GoalMoves

\* Where a driver that is not about to dispatch leaves the others.
LEMMA PendingWithout ==
    ASSUME IInv, NEW d \in Drivers, NEW p, p \notin Sending, at' = [at EXCEPT ![d] = p]
    PROVE  /\ IsFiniteSet(Pending') /\ Cardinality(Pending') \in Nat
           /\ Cardinality(Pending) \in Nat /\ Cardinality(Pending') <= Cardinality(Pending)
<1>1. IsFiniteSet(Pending) /\ DOMAIN at = Drivers
  BY DEF IInv, CountersOK, DriversOK
<1>2. Pending' \subseteq Pending
  BY <1>1 DEF Pending
<1> QED BY <1>1, <1>2, FS_Subset, FS_CardinalityType

\* A driver moves on with the copy m, which the step may have taken anew.
LEMMA MoveShown ==
    ASSUME IInv, GoalMoves, NEW d \in Drivers, NEW p, NEW m, p \notin Sending,
           at' = [at EXCEPT ![d] = p], mem' = [mem EXCEPT ![d] = m], GoodCopy(p, m, ck),
           UNCHANGED <<ck, dispatched, streak>>
    PROVE  Shown
<1>1. DriversOK'
  BY DEF IInv, DriversOK
<1>2. CountersOK'
  <2>1. /\ IsFiniteSet(Pending') /\ Cardinality(Pending') \in Nat
        /\ Cardinality(Pending) \in Nat /\ Cardinality(Pending') <= Cardinality(Pending)
    BY PendingWithout
  <2>2. ck \in Counters /\ ck.started \in Nat /\ dispatched \in Nat
    BY DEF IInv, CountersOK, Counters
  <2>3. dispatched + Cardinality(Pending') <= ck.started
    BY <2>1, <2>2 DEF IInv, CountersOK
  <2> QED BY <2>1, <2>3 DEF IInv, CountersOK, GoalMoves
<1>3. ck'.started >= ck.started /\ ck'.completed >= ck.completed
  BY DEF IInv, CountersOK, Counters
<1> QED BY <1>1, <1>2, <1>3 DEF Shown, IInv, GoalMoves

\* A driver moves on with the copy it has.
LEMMA MoveOnShown ==
    ASSUME IInv, GoalMoves, NEW d \in Drivers, NEW p, p \in Phases \ (Reserving \union Spending),
           at' = [at EXCEPT ![d] = p], UNCHANGED <<mem, ck, dispatched, streak>>
    PROVE  Shown
<1>1. mem' = [mem EXCEPT ![d] = mem[d]]
  BY DEF IInv, DriversOK
<1>2. GoodCopy(p, mem[d], ck) /\ p \notin Sending
  BY DEF IInv, DriversOK, GoodCopy, Spending
<1>3. PICK m : m = mem[d]
  OBVIOUS
<1> QED BY <1>1, <1>2, <1>3, MoveShown

\* A driver that stops keeps nothing.
LEMMA ForgetShown ==
    ASSUME IInv, UNCHANGED <<goal, satisfied, verified, waived, ck, dispatched, streak>>,
           NEW d \in Drivers, NEW p, p \in {"idle", "quarantine"},
           at' = [at EXCEPT ![d] = p], Forgets(d)
    PROVE  Shown
<1>1. seen' \in [Drivers -> SUBSET Criteria]
  BY DEF Forgets, IInv, CriteriaOK
<1>2. GoalMoves
  BY <1>1, GoalStays
<1>3. GoodCopy(p, Blank, ck) /\ p \notin Sending
  BY DEF GoodCopy, Blank, Copy, Phases, Reserving, Spending, Sending
<1>4. mem' = [mem EXCEPT ![d] = Blank]
  BY DEF Forgets
<1>5. PICK m : m = Blank
  OBVIOUS
<1> QED BY <1>2, <1>3, <1>4, <1>5, MoveShown

\* record_pursuit_checkpoint by a driver whose copy is fresh.
LEMMA StoreShown ==
    ASSUME IInv, GoalMoves, NEW d \in Drivers, NEW p, NEW c \in Copy,
           mem[d].fresh, Store(d, c), at' = [at EXCEPT ![d] = p],
           GoodCopy(p, [c EXCEPT !.fresh = TRUE], c),
           c.started >= mem[d].started, c.completed >= mem[d].completed,
           c.started <= MaxSegments, c.failures <= MaxFailures,
           streak' \in Nat, goal'.status # "completed" => streak' <= c.failures,
           dispatched' = dispatched,
           IsFiniteSet(Pending'), dispatched + Cardinality(Pending') <= c.started
    PROVE  Shown
<1>1. /\ ck' = [started |-> c.started, completed |-> c.completed, failures |-> c.failures]
      /\ mem' = [e \in Drivers |-> IF e = d THEN [c EXCEPT !.fresh = TRUE]
                                            ELSE [mem[e] EXCEPT !.fresh = FALSE]]
  BY DEF Store
<1>2. c.started \in Nat /\ c.completed \in Nat /\ c.failures \in Nat
  BY DEF Copy
<1>3. ck' \in Counters /\ ck'.started = c.started /\ ck'.completed = c.completed
      /\ ck'.failures = c.failures
  BY <1>1, <1>2 DEF Counters
<1>4. DriversOK'
  <2>1. at' = [e \in Drivers |-> at'[e]] /\ mem' = [e \in Drivers |-> mem'[e]]
    BY <1>1 DEF IInv, DriversOK
  <2>2. GoodCopy(at'[d], mem'[d], ck')
    <3>1. at'[d] = p /\ mem'[d] = [c EXCEPT !.fresh = TRUE]
      BY <1>1 DEF IInv, DriversOK
    <3> QED BY <1>3, <3>1 DEF GoodCopy
  <2>3. ASSUME NEW e \in Drivers \ {d} PROVE GoodCopy(at'[e], mem'[e], ck')
    <3>1. at'[e] = at[e] /\ mem'[e] = [mem[e] EXCEPT !.fresh = FALSE]
      BY <1>1 DEF IInv, DriversOK
    <3>2. GoodCopy(at[e], mem[e], ck)
      BY DEF IInv, DriversOK
    <3>3. PICK m : m = [mem[e] EXCEPT !.fresh = FALSE]
      OBVIOUS
    <3>4. /\ m \in Copy /\ m.fresh = FALSE /\ m.started = mem[e].started
          /\ m.completed = mem[e].completed /\ m.failures = mem[e].failures
      BY <3>2, <3>3 DEF GoodCopy, Copy
    <3>5. mem'[e] = m
      BY <3>1, <3>3
    <3> QED BY <3>1, <3>2, <3>4, <3>5 DEF GoodCopy
  <2> QED BY <2>1, <2>2, <2>3 DEF DriversOK
<1>5. c.completed <= c.started
  BY DEF GoodCopy, Copy
<1>6. CountersOK'
  BY <1>3, <1>5 DEF CountersOK, IInv
<1>7. ck'.started >= ck.started /\ ck'.completed >= ck.completed
  <2>1. mem[d].started = ck.started /\ mem[d].completed = ck.completed
    BY DEF IInv, DriversOK, GoodCopy
  <2> QED BY <1>3, <2>1
<1> QED BY <1>4, <1>6, <1>7 DEF Shown, IInv, GoalMoves

\* The same by a driver that reserves nothing: its segments stay counted.
LEMMA StoreOnShown ==
    ASSUME IInv, GoalMoves, NEW d \in Drivers, NEW p, NEW c \in Copy, p \notin Sending,
           mem[d].fresh, Store(d, c), at' = [at EXCEPT ![d] = p],
           GoodCopy(p, [c EXCEPT !.fresh = TRUE], c),
           c.started = mem[d].started, c.completed >= mem[d].completed,
           c.failures <= MaxFailures,
           streak' \in Nat, goal'.status # "completed" => streak' <= c.failures,
           dispatched' = dispatched
    PROVE  Shown
<1>1. /\ IsFiniteSet(Pending') /\ Cardinality(Pending') \in Nat
      /\ Cardinality(Pending) \in Nat /\ Cardinality(Pending') <= Cardinality(Pending)
  BY PendingWithout
<1>2. c.started = ck.started /\ ck.started \in Nat /\ dispatched \in Nat
      /\ ck.started <= MaxSegments
  BY DEF IInv, DriversOK, GoodCopy, CountersOK, Counters
<1>3. dispatched + Cardinality(Pending') <= c.started
  BY <1>1, <1>2 DEF IInv, CountersOK
<1>4. c.started >= mem[d].started
  BY <1>2
<1> QED BY <1>1, <1>2, <1>3, <1>4, StoreShown

\* What a fresh copy says, as numbers.
LEMMA FreshCopy ==
    ASSUME IInv, NEW d \in Drivers
    PROVE  /\ mem[d] \in Copy /\ mem[d].started \in Nat /\ mem[d].completed \in Nat
           /\ mem[d].failures \in Nat /\ mem[d].completed <= mem[d].started
           /\ ck.started \in Nat /\ ck.completed \in Nat /\ ck.failures \in Nat
           /\ MaxFailures \in Nat /\ MaxSegments \in Nat /\ streak \in Nat /\ dispatched \in Nat
           /\ mem[d].fresh => /\ mem[d].started = ck.started
                              /\ mem[d].completed = ck.completed
                              /\ mem[d].failures = ck.failures
           /\ at[d] \in Phases
BY PursuitAssumption DEF IInv, DriversOK, GoodCopy, Copy, CountersOK, Counters

-----------------------------------------------------------------------------
(* Operators and the daemon's supervision. *)

\* Every command of an operator but the start of a pursuit.
LEMMA OperatorShown ==
    ASSUME IInv, Operator
    PROVE  Shown
<1>1. ASSUME GoalOnly, Op PROVE UNCHANGED <<satisfied, verified, waived, ck, at, mem, seen,
                                            dispatched, streak>>
  BY <1>1 DEF GoalOnly, Op, driverVars, history
<1>2. seen \in [Drivers -> SUBSET Criteria] /\ GoalOK(goal)
  BY DEF IInv, CriteriaOK
<1>3. ASSUME StartGoal PROVE Shown
  <2>1. GoalOK(goal') /\ goal'.status = "in_progress" /\ goal.status # "completed"
    BY <1>2, <1>3 DEF StartGoal, GoalOK, GoalRecord, Statuses
  <2>2. UNCHANGED <<satisfied, verified, waived, ck, at, mem, seen, dispatched, streak>>
    BY <1>1, <1>3 DEF StartGoal
  <2>3. GoalMoves
    BY <1>2, <2>1, <2>2, GoalChanges
  <2> QED BY <2>2, <2>3, QuietShown
<1>4. ASSUME NEW w \in Workers, ClaimGoal(w) PROVE Shown
  <2>1. goal' = Granted(w) /\ goal.status # "completed"
    BY <1>4 DEF ClaimGoal, Claimable, Reclaimable
  <2>2. UNCHANGED <<satisfied, verified, waived, ck, at, mem, seen, dispatched, streak>>
    BY <1>1, <1>4 DEF ClaimGoal
  <2>3. GoalOK(goal') /\ goal'.status = "in_progress"
    BY <2>1, GrantedOK
  <2>4. GoalMoves
    BY <1>2, <2>1, <2>2, <2>3, GoalChanges
  <2> QED BY <2>2, <2>4, QuietShown
<1>5. ASSUME NEW w, NEW s \in {"paused", "failed", "cancelled"}, StopGoal(w, s) PROVE Shown
  <2>1. goal' = Released(s) /\ goal.status # "completed"
    BY <1>5 DEF StopGoal
  <2>2. UNCHANGED <<satisfied, verified, waived, ck, at, mem, seen, dispatched, streak>>
    BY <1>1, <1>5 DEF StopGoal
  <2>3. GoalOK(goal') /\ goal'.status = s
    BY <2>1, ReleasedOK DEF Statuses
  <2>4. GoalMoves
    BY <1>2, <2>1, <2>2, <2>3, GoalChanges
  <2> QED BY <2>2, <2>4, QuietShown
<1>6. ASSUME NEW w, ResumeGoal(w) PROVE Shown
  <2>1. goal' = Released("in_progress") /\ goal.status # "completed"
    BY <1>6 DEF ResumeGoal
  <2>2. UNCHANGED <<satisfied, verified, waived, ck, at, mem, seen, dispatched, streak>>
    BY <1>1, <1>6 DEF ResumeGoal
  <2>3. GoalOK(goal') /\ goal'.status = "in_progress"
    BY <2>1, ReleasedOK DEF Statuses
  <2>4. GoalMoves
    BY <1>2, <2>1, <2>2, <2>3, GoalChanges
  <2> QED BY <2>2, <2>4, QuietShown
<1>7. ASSUME NEW w, NEW waiver \in BOOLEAN, DoneGoal(w, waiver) PROVE Shown
  <2>1. /\ goal' = Released("completed") /\ waived' = waiver
        /\ waiver <=> verified # Criteria
        /\ UNCHANGED <<satisfied, verified, ck, at, mem, seen, dispatched, streak>>
    BY <1>7 DEF DoneGoal, Op, driverVars, history
  <2>2. GoalOK(goal') /\ goal'.status = "completed"
    BY <2>1, ReleasedOK DEF Statuses
  <2>3. CriteriaOK'
    BY <2>1 DEF IInv, CriteriaOK, CompletedIsVerified
  <2> QED BY <2>1, <2>2, <2>3, QuietShown DEF GoalMoves
<1>8. ASSUME NEW w, NEW c \in Criteria, SatisfyCriterion(w, c) PROVE Shown
  <2>1. /\ satisfied' = satisfied \union {c}
        /\ UNCHANGED <<goal, verified, waived, ck, at, mem, seen, dispatched, streak>>
    BY <1>8 DEF SatisfyCriterion, Op, driverVars, history
  <2>2. GoalMoves
    BY <1>2, <2>1 DEF GoalMoves, IInv, CriteriaOK, CompletedIsVerified
  <2> QED BY <2>1, <2>2, QuietShown
<1>9. ASSUME NEW w, NEW C \in SUBSET Criteria, RecordVerification(w, C) PROVE Shown
  <2>1. /\ goal.status = "in_progress" /\ verified' = verified \union C
        /\ UNCHANGED <<goal, satisfied, waived, ck, at, mem, seen, dispatched, streak>>
    BY <1>9 DEF RecordVerification, Op, driverVars, history
  <2>2. GoalMoves
    BY <1>2, <2>1 DEF GoalMoves, IInv, CriteriaOK, CompletedIsVerified
  <2> QED BY <2>1, <2>2, QuietShown
<1>10. ASSUME NEW d \in Commands, Pursue(d) PROVE Shown
  <2>1. /\ d \in Drivers /\ at' = [at EXCEPT ![d] = "start"]
        /\ mem' = [mem EXCEPT ![d].gen = goal.gen]
        /\ UNCHANGED <<goal, satisfied, verified, waived, ck, seen, dispatched, streak>>
    BY <1>10 DEF Pursue, Goes, Op, durable, history, Drivers
  <2>2. PICK m : m = [mem[d] EXCEPT !.gen = goal.gen]
    OBVIOUS
  <2>3. mem' = [mem EXCEPT ![d] = m]
    BY <2>1, <2>2
  <2>4. goal.gen \in Nat /\ GoodCopy(at[d], mem[d], ck)
    BY <1>2, <2>1 DEF IInv, DriversOK, GoalOK, GoalRecord
  <2>5. GoodCopy("start", m, ck) /\ "start" \notin Sending
    <3>1. /\ m \in Copy /\ m.fresh = mem[d].fresh /\ m.started = mem[d].started
          /\ m.completed = mem[d].completed /\ m.failures = mem[d].failures
      BY <2>2, <2>4 DEF GoodCopy, Copy
    <3> QED BY <2>4, <3>1 DEF GoodCopy, Phases, Reserving, Spending, Sending
  <2>6. GoalMoves
    BY <1>2, <2>1, GoalStays
  <2> QED BY <2>1, <2>3, <2>5, <2>6, MoveShown
<1> QED BY <1>3, <1>4, <1>5, <1>6, <1>7, <1>8, <1>9, <1>10 DEF Operator

\* acquire_from_store.
LEMMA AcquireShown ==
    ASSUME IInv, Acquire
    PROVE  Shown
<1>1. /\ Daemon \in Drivers /\ at' = [at EXCEPT ![Daemon] = "start"]
      /\ mem' = [mem EXCEPT ![Daemon].gen = goal'.gen]
      /\ goal' = goal \/ (goal' = Granted(DaemonWorker) /\ goal.status # "completed")
      /\ UNCHANGED <<satisfied, verified, waived, ck, seen, dispatched, streak>>
  BY DEF Acquire, Goes, Drivers, Claimable, Reclaimable, history
<1>2. seen \in [Drivers -> SUBSET Criteria] /\ GoalOK(goal) /\ DaemonWorker \in Workers
  BY PursuitAssumption DEF IInv, CriteriaOK
<1>3. GoalMoves
  <2>1. CASE goal' = goal
    BY <1>1, <1>2, <2>1, GoalStays
  <2>2. CASE goal' = Granted(DaemonWorker) /\ goal.status # "completed"
    <3>1. GoalOK(goal') /\ goal'.status = "in_progress"
      BY <1>2, <2>2, GrantedOK
    <3> QED BY <1>1, <1>2, <2>2, <3>1, GoalChanges
  <2> QED BY <1>1, <2>1, <2>2
<1>4. PICK m : m = [mem[Daemon] EXCEPT !.gen = goal'.gen]
  OBVIOUS
<1>5. mem' = [mem EXCEPT ![Daemon] = m]
  BY <1>1, <1>4
<1>6. goal'.gen \in Nat /\ GoodCopy(at[Daemon], mem[Daemon], ck)
  BY <1>1, <1>3 DEF IInv, DriversOK, GoalMoves, GoalOK, GoalRecord
<1>7. GoodCopy("start", m, ck) /\ "start" \notin Sending
  <2>1. /\ m \in Copy /\ m.fresh = mem[Daemon].fresh /\ m.started = mem[Daemon].started
        /\ m.completed = mem[Daemon].completed /\ m.failures = mem[Daemon].failures
    BY <1>4, <1>6 DEF GoodCopy, Copy
  <2> QED BY <1>6, <2>1 DEF GoodCopy, Phases, Reserving, Spending, Sending
<1> QED BY <1>1, <1>3, <1>5, <1>7, MoveShown

\* pause_quarantined.
LEMMA QuarantineShown ==
    ASSUME IInv, Quarantine
    PROVE  Shown
<1>1. /\ Daemon \in Drivers /\ at' = [at EXCEPT ![Daemon] = "idle"]
      /\ goal' = goal \/ (goal' = Released("paused") /\ goal.status = "in_progress")
      /\ UNCHANGED <<mem, satisfied, verified, waived, ck, seen, dispatched, streak>>
  BY DEF Quarantine, Goes, Drivers, history
<1>2. seen \in [Drivers -> SUBSET Criteria] /\ GoalOK(goal)
  BY DEF IInv, CriteriaOK
<1>3. GoalMoves
  <2>1. CASE goal' = goal
    BY <1>1, <1>2, <2>1, GoalStays
  <2>2. CASE goal' = Released("paused") /\ goal.status = "in_progress"
    <3>1. GoalOK(goal') /\ goal'.status = "paused"
      BY <2>2, ReleasedOK DEF Statuses
    <3> QED BY <1>1, <1>2, <2>2, <3>1, GoalChanges
  <2> QED BY <1>1, <2>1, <2>2
<1>4. "idle" \in Phases \ (Reserving \union Spending)
  BY DEF Phases, Reserving, Spending, Sending
<1> QED BY <1>1, <1>3, <1>4, MoveOnShown

\* A lease runs out.
LEMMA ExpiresShown ==
    ASSUME IInv, Expires, UNCHANGED <<mem, satisfied, verified, waived, ck, seen, dispatched, streak>>
    PROVE  Shown
<1>1. goal' = [goal EXCEPT !.live = FALSE] /\ at' = at /\ goal.live /\ GoalOK(goal)
  BY DEF Expires, IInv
<1>2. GoalOK(goal') /\ goal'.status = "in_progress" /\ goal.status = "in_progress"
  BY <1>1 DEF GoalOK, GoalRecord
<1>3. GoalMoves
  BY <1>2, GoalChanges DEF IInv, CriteriaOK
<1> QED BY <1>1, <1>3, QuietShown

-----------------------------------------------------------------------------
(* One pursuit. *)

\* A driver writes only while the goal is in progress, and from a fresh copy.
LEMMA WriterIsFresh ==
    ASSUME NEW d \in Drivers, CanWrite(d)
    PROVE  goal.status = "in_progress" /\ mem[d].fresh
BY DEF CanWrite, Running

\* The start of a pursuit, up to its first write.
LEMMA ReadShown ==
    ASSUME IInv, NEW d \in Drivers, ReadCheckpoint(d)
    PROVE  Shown
<1>1. PICK m : m = [fresh |-> TRUE, gen |-> goal.gen, started |-> ck.started,
                    completed |-> ck.completed, failures |-> ck.failures]
  OBVIOUS
<1>2. /\ at' = [at EXCEPT ![d] = "begin"] /\ mem' = [mem EXCEPT ![d] = m]
      /\ UNCHANGED <<goal, satisfied, verified, waived, ck, seen, dispatched, streak>>
  BY <1>1 DEF ReadCheckpoint, Goes, DriverOnly, durable, history
<1>3. GoodCopy("begin", m, ck) /\ "begin" \notin Sending
  <2>1. goal.gen \in Nat /\ ck \in Counters /\ ck.completed <= ck.started
    BY DEF IInv, GoalOK, GoalRecord, CountersOK
  <2> QED BY <1>1, <2>1 DEF GoodCopy, Copy, Counters, Phases, Reserving, Spending, Sending
<1>4. GoalMoves
  BY <1>2, GoalStays DEF IInv, CriteriaOK
<1> QED BY <1>2, <1>3, <1>4, MoveShown

\* pursuit.started.
LEMMA BeginShown ==
    ASSUME IInv, NEW d \in Drivers, Begin(d)
    PROVE  Shown
<1>1. /\ CanWrite(d) /\ Store(d, mem[d]) /\ at' = [at EXCEPT ![d] = "loop"]
      /\ UNCHANGED <<goal, satisfied, verified, waived, seen, dispatched, streak>>
  BY DEF Begin, Goes, history
<1>2. GoalMoves
  BY <1>1, GoalStays DEF IInv, CriteriaOK
<1>3. PICK c : c = mem[d]
  OBVIOUS
<1>4. c \in Copy /\ mem[d].fresh /\ goal.status = "in_progress"
  BY <1>1, <1>3, WriterIsFresh, FreshCopy
<1>5. GoodCopy("loop", [c EXCEPT !.fresh = TRUE], c) /\ "loop" \notin Sending
  <2>1. [c EXCEPT !.fresh = TRUE] = c
    BY <1>3, <1>4 DEF Copy
  <2>2. c.completed <= c.started
    BY <1>3, FreshCopy
  <2> QED BY <1>4, <2>1, <2>2 DEF GoodCopy, Phases, Reserving, Spending, Sending
<1>6. /\ c.started = mem[d].started /\ c.completed >= mem[d].completed
      /\ c.failures <= MaxFailures
      /\ streak' \in Nat /\ streak' <= c.failures
  BY <1>1, <1>3, <1>4, FreshCopy DEF IInv, CountersOK
<1> QED BY <1>1, <1>2, <1>3, <1>4, <1>5, <1>6, StoreOnShown

\* The top of the loop, and the overall timeout.
LEMMA LoopShown ==
    ASSUME IInv, NEW d \in Drivers, Loop(d) \/ TimesOut(d)
    PROVE  Shown
<1>1. PICK p \in {"verify", "pause"} :
        /\ at' = [at EXCEPT ![d] = p]
        /\ seen' = seen \/ seen' = [seen EXCEPT ![d] = satisfied]
        /\ UNCHANGED <<mem, goal, satisfied, verified, waived, ck, dispatched, streak>>
  BY DEF Loop, TimesOut, Goes, DriverOnly, durable, history
<1>2. seen' \in [Drivers -> SUBSET Criteria]
  BY <1>1 DEF IInv, CriteriaOK
<1>3. GoalMoves
  BY <1>1, <1>2, GoalStays
<1>4. p \in Phases \ (Reserving \union Spending)
  BY DEF Phases, Reserving, Spending, Sending
<1> QED BY <1>1, <1>3, <1>4, MoveOnShown

\* record_pursuit_verification.
LEMMA VerifyShown ==
    ASSUME IInv, NEW d \in Drivers, NEW new \in SUBSET Criteria, NEW error \in BOOLEAN,
           Verify(d, new, error)
    PROVE  Shown
<1>1. PICK C, c : /\ C = seen[d] \union new
                  /\ c = IF error /\ mem[d].failures < MaxFailures
                         THEN [mem[d] EXCEPT !.failures = @ + 1] ELSE mem[d]
  OBVIOUS
<1>2. PICK p : p = After(C, error, c)
  OBVIOUS
<1>3. /\ CanWrite(d) /\ satisfied' = satisfied \union C /\ verified' = verified \union new
      /\ Store(d, c) /\ at' = [at EXCEPT ![d] = p]
      /\ UNCHANGED <<goal, waived, seen, dispatched, streak>>
  BY <1>1, <1>2 DEF Verify, Goes, history
<1>4. mem[d].fresh /\ goal.status = "in_progress"
  BY <1>3, WriterIsFresh
<1>5. GoalMoves
  <2>1. seen[d] \subseteq Criteria
    BY DEF IInv, CriteriaOK
  <2> QED BY <1>1, <1>3, <1>4, <2>1 DEF GoalMoves, IInv, CriteriaOK, CompletedIsVerified
<1>6. /\ c \in Copy /\ c.fresh = TRUE /\ c.started = mem[d].started
      /\ c.completed = mem[d].completed
      /\ c.failures >= mem[d].failures /\ c.failures <= MaxFailures
  <2>1. mem[d].failures + 1 \in Nat /\ mem[d].failures <= MaxFailures
    BY <1>4, FreshCopy DEF IInv, CountersOK
  <2>2. CASE error /\ mem[d].failures < MaxFailures
    <3>1. c = [mem[d] EXCEPT !.failures = mem[d].failures + 1]
      BY <1>1, <2>2
    <3>2. c.failures = mem[d].failures + 1 /\ c.fresh = mem[d].fresh
      BY <3>1, FreshCopy DEF Copy
    <3>3. c \in Copy /\ c.started = mem[d].started /\ c.completed = mem[d].completed
      BY <2>1, <3>1, FreshCopy DEF Copy
    <3> QED BY <1>4, <2>1, <2>2, <3>2, <3>3, FreshCopy DEF Copy
  <2>3. CASE ~(error /\ mem[d].failures < MaxFailures)
    <3>1. c = mem[d]
      BY <1>1, <2>3
    <3> QED BY <1>4, <2>1, <3>1, FreshCopy DEF Copy
  <2> QED BY <2>2, <2>3
<1>7. p \in Phases /\ p \notin Spending /\ p \notin Sending
      /\ (p \in Reserving => c.started < MaxSegments /\ c.failures < MaxFailures)
  <2>1. /\ p \in {"achieve", "pause", "reserve_failed", "reserve"}
        /\ p \in {"reserve_failed", "reserve"} =>
              ~(c.failures >= MaxFailures) /\ ~(c.started >= MaxSegments)
    BY <1>2 DEF After
  <2>2. c.started \in Nat /\ c.failures \in Nat
    BY <1>6 DEF Copy
  <2> QED BY <2>1, <2>2, FreshCopy DEF Phases, Reserving, Spending, Sending
<1>8. GoodCopy(p, [c EXCEPT !.fresh = TRUE], c)
  <2>1. [c EXCEPT !.fresh = TRUE] = c
    BY <1>6 DEF Copy
  <2> QED BY <1>6, <1>7, <2>1, FreshCopy DEF GoodCopy
<1>9. streak' \in Nat /\ streak' <= c.failures /\ c.completed >= mem[d].completed
  <2>1. streak <= mem[d].failures /\ c.failures \in Nat
    BY <1>4, <1>6, FreshCopy DEF IInv, CountersOK, Copy
  <2> QED BY <1>3, <1>6, <2>1, FreshCopy
<1> QED BY <1>3, <1>4, <1>5, <1>6, <1>7, <1>8, <1>9, StoreOnShown

\* pursuit.achieved.
LEMMA AchieveShown ==
    ASSUME IInv, NEW d \in Drivers, Achieve(d)
    PROVE  Shown
<1>1. PICK c : c = [mem[d] EXCEPT !.failures = 0]
  OBVIOUS
<1>2. /\ CanWrite(d) /\ verified = Criteria /\ goal' = Released("completed")
      /\ Store(d, c) /\ at' = [at EXCEPT ![d] = "idle"]
      /\ UNCHANGED <<satisfied, verified, waived, seen, dispatched, streak>>
  BY <1>1 DEF Achieve, Achievable, Ends, Goes, history
<1>3. mem[d].fresh
  BY <1>2, WriterIsFresh
<1>4. GoalOK(goal') /\ goal'.status = "completed"
  BY <1>2, ReleasedOK DEF Statuses
<1>5. GoalMoves
  BY <1>2, <1>4 DEF GoalMoves, IInv, CriteriaOK, CompletedIsVerified
<1>6. /\ c \in Copy /\ c.fresh = TRUE /\ c.started = mem[d].started
      /\ c.completed = mem[d].completed /\ c.failures = 0
  BY <1>1, <1>3, FreshCopy DEF Copy
<1>7. GoodCopy("idle", [c EXCEPT !.fresh = TRUE], c) /\ "idle" \notin Sending
  <2>1. [c EXCEPT !.fresh = TRUE] = c
    BY <1>6 DEF Copy
  <2> QED BY <1>6, <2>1, FreshCopy DEF GoodCopy, Phases, Reserving, Spending, Sending
<1>8. c.failures <= MaxFailures /\ streak' \in Nat /\ c.completed >= mem[d].completed
  BY <1>2, <1>6, FreshCopy
<1> QED BY <1>2, <1>3, <1>4, <1>5, <1>6, <1>7, <1>8, StoreOnShown

\* A pause of the pursuit.
LEMMA PauseShown ==
    ASSUME IInv, NEW d \in Drivers, PausePursuit(d)
    PROVE  Shown
<1>1. PICK c : c = mem[d]
  OBVIOUS
<1>2. /\ CanWrite(d) /\ goal' = Released("paused")
      /\ Store(d, c) /\ at' = [at EXCEPT ![d] = "idle"]
      /\ UNCHANGED <<satisfied, verified, waived, seen, dispatched, streak>>
  BY <1>1 DEF PausePursuit, Ends, Goes, history
<1>3. mem[d].fresh /\ goal.status = "in_progress"
  BY <1>2, WriterIsFresh
<1>4. GoalOK(goal') /\ goal'.status = "paused"
  BY <1>2, ReleasedOK DEF Statuses
<1>5. GoalMoves
  BY <1>2, <1>3, <1>4, GoalChanges DEF IInv, CriteriaOK
<1>6. c \in Copy /\ c.fresh = TRUE /\ c.started = mem[d].started
  BY <1>1, <1>3, FreshCopy DEF Copy
<1>7. GoodCopy("idle", [c EXCEPT !.fresh = TRUE], c) /\ "idle" \notin Sending
  <2>1. [c EXCEPT !.fresh = TRUE] = c
    BY <1>6 DEF Copy
  <2> QED BY <1>1, <1>6, <2>1, FreshCopy DEF GoodCopy, Phases, Reserving, Spending, Sending
<1>8. c.failures <= MaxFailures /\ streak' \in Nat /\ streak' <= c.failures
      /\ c.completed >= mem[d].completed
  BY <1>1, <1>2, <1>3, FreshCopy DEF IInv, CountersOK
<1> QED BY <1>2, <1>3, <1>5, <1>6, <1>7, <1>8, StoreOnShown

\* The reservation of a segment, before its dispatch.
LEMMA ReserveShown ==
    ASSUME IInv, NEW d \in Drivers, Reserve(d)
    PROVE  Shown
<1>1. PICK c, p : /\ c = Reserved(mem[d])
                  /\ p = IF at[d] = "reserve" THEN "dispatch" ELSE "dispatch_failed"
  OBVIOUS
<1>2. /\ at[d] \in Reserving /\ CanWrite(d) /\ Store(d, c) /\ at' = [at EXCEPT ![d] = p]
      /\ streak' = streak + 1
      /\ UNCHANGED <<goal, satisfied, verified, waived, seen, dispatched>>
  BY <1>1 DEF Reserve, Reserving, Goes
<1>3. mem[d].fresh /\ goal.status = "in_progress"
  BY <1>2, WriterIsFresh
<1>4. GoalMoves
  BY <1>2, GoalStays DEF IInv, CriteriaOK
<1>5. mem[d].started < MaxSegments /\ mem[d].failures < MaxFailures
  BY <1>2 DEF IInv, DriversOK, GoodCopy
<1>6. /\ c \in Copy /\ c.fresh = TRUE /\ c.started = mem[d].started + 1
      /\ c.completed = mem[d].completed /\ c.failures = mem[d].failures + 1
  <2>1. mem[d].started + 1 \in Nat /\ mem[d].failures + 1 \in Nat
    BY FreshCopy
  <2>2. c = [mem[d] EXCEPT !.started = mem[d].started + 1, !.failures = mem[d].failures + 1]
    BY <1>1 DEF Reserved
  <2> QED BY <1>3, <2>1, <2>2, FreshCopy DEF Copy
<1>7. p \in Sending /\ p \in Phases /\ p \notin Reserving
  BY <1>1 DEF Sending, Phases, Reserving
<1>8. GoodCopy(p, [c EXCEPT !.fresh = TRUE], c)
  <2>1. [c EXCEPT !.fresh = TRUE] = c
    BY <1>6 DEF Copy
  <2>2. c.completed < c.started /\ c.completed <= c.started /\ c.failures >= 1
    BY <1>6, FreshCopy
  <2> QED BY <1>6, <1>7, <2>1, <2>2 DEF GoodCopy
<1>9. /\ c.started >= mem[d].started /\ c.completed >= mem[d].completed
      /\ c.started <= MaxSegments /\ c.failures <= MaxFailures
  BY <1>5, <1>6, FreshCopy
<1>10. streak' \in Nat /\ streak' <= c.failures
  <2>1. streak <= ck.failures
    BY <1>3 DEF IInv, CountersOK
  <2> QED BY <1>2, <1>3, <1>6, <2>1, FreshCopy
<1>11. IsFiniteSet(Pending') /\ dispatched + Cardinality(Pending') <= c.started
  <2>1. IsFiniteSet(Pending) /\ DOMAIN at = Drivers
        /\ dispatched + Cardinality(Pending) <= ck.started
    BY DEF IInv, CountersOK, DriversOK
  <2>2. d \notin Pending /\ Pending' = Pending \union {d}
    BY <1>2, <1>7, <2>1 DEF Pending, Reserving, Sending
  <2>3. IsFiniteSet(Pending') /\ Cardinality(Pending') = Cardinality(Pending) + 1
    BY <2>1, <2>2, FS_AddElement
  <2>4. Cardinality(Pending) \in Nat
    BY <2>1, FS_CardinalityType
  <2> QED BY <1>3, <1>6, <2>1, <2>3, <2>4, FreshCopy
<1> QED BY <1>2, <1>3, <1>4, <1>6, <1>8, <1>9, <1>10, <1>11, StoreShown

\* The dispatch of a reserved segment.
LEMMA DispatchShown ==
    ASSUME IInv, NEW d \in Drivers, Dispatch(d)
    PROVE  Shown
<1>1. PICK p : p = IF at[d] = "dispatch" THEN "running" ELSE "running_failed"
  OBVIOUS
<1>2. /\ at[d] \in Sending /\ at' = [at EXCEPT ![d] = p] /\ dispatched' = dispatched + 1
      /\ UNCHANGED <<goal, satisfied, verified, waived, ck, mem, seen, streak>>
  BY <1>1 DEF Dispatch, Sending, Goes, durable
<1>3. GoalMoves
  BY <1>2, GoalStays DEF IInv, CriteriaOK
<1>4. p \in Phases /\ p \notin Reserving /\ p \notin Sending /\ at[d] \in Spending
  BY <1>1, <1>2 DEF Phases, Reserving, Sending, Spending
<1>5. DriversOK'
  <2>1. DOMAIN at = Drivers
    BY DEF IInv, DriversOK
  <2>2. GoodCopy(p, mem[d], ck)
    BY <1>4 DEF IInv, DriversOK, GoodCopy
  <2> QED BY <1>2, <2>1, <2>2 DEF IInv, DriversOK
<1>6. CountersOK'
  <2>1. IsFiniteSet(Pending) /\ DOMAIN at = Drivers
        /\ dispatched + Cardinality(Pending) <= ck.started
    BY DEF IInv, CountersOK, DriversOK
  <2>2. d \in Pending /\ Pending' = Pending \ {d}
    BY <1>2, <1>4, <2>1 DEF Pending
  <2>3. IsFiniteSet(Pending') /\ Cardinality(Pending') = Cardinality(Pending) - 1
    BY <2>1, <2>2, FS_RemoveElement
  <2>4. Cardinality(Pending) \in Nat
    BY <2>1, FS_CardinalityType
  <2>5. dispatched' + Cardinality(Pending') <= ck.started /\ dispatched' \in Nat
    BY <1>2, <2>1, <2>3, <2>4, FreshCopy
  <2> QED BY <1>2, <2>3, <2>5 DEF IInv, CountersOK
<1>7. ck'.started >= ck.started /\ ck'.completed >= ck.completed
  BY <1>2, FreshCopy
<1> QED BY <1>3, <1>5, <1>6, <1>7 DEF Shown, IInv, GoalMoves

\* The result of a segment.
LEMMA ReturnShown ==
    ASSUME IInv, NEW d \in Drivers, NEW success \in BOOLEAN, Return(d, success)
    PROVE  Shown
<1>1. PICK c : c = Completed(mem[d], success, at[d] = "running_failed")
  OBVIOUS
<1>2. PICK p \in {"pause", "loop"} :
        /\ at[d] \in {"running", "running_failed"} /\ CanWrite(d) /\ Store(d, c)
        /\ at' = [at EXCEPT ![d] = p] /\ streak' = IF success THEN 0 ELSE streak
        /\ UNCHANGED <<goal, satisfied, verified, waived, seen, dispatched>>
  BY <1>1 DEF Return, Goes
<1>3. mem[d].fresh /\ goal.status = "in_progress"
  BY <1>2, WriterIsFresh
<1>4. GoalMoves
  BY <1>2, GoalStays DEF IInv, CriteriaOK
<1>5. mem[d].failures >= 1 /\ mem[d].completed < mem[d].started
  BY <1>2 DEF IInv, DriversOK, GoodCopy, Spending
<1>6. PICK f \in Nat : /\ c = [mem[d] EXCEPT !.completed = mem[d].completed + 1, !.failures = f]
                       /\ f <= mem[d].failures /\ (~success => f = mem[d].failures)
  <2>1. PICK f \in Nat :
            /\ f = IF ~success THEN mem[d].failures
                   ELSE IF at[d] = "running_failed" THEN mem[d].failures - 1 ELSE 0
            /\ f <= mem[d].failures /\ (~success => f = mem[d].failures)
    <3>1. mem[d].failures - 1 \in Nat /\ mem[d].failures \in Nat /\ 0 \in Nat
          /\ 0 <= mem[d].failures /\ mem[d].failures - 1 <= mem[d].failures
      BY <1>5, FreshCopy
    <3> QED BY <3>1
  <2>2. c = [mem[d] EXCEPT !.completed = mem[d].completed + 1, !.failures = f]
    BY <1>1, <2>1 DEF Completed
  <2> QED BY <2>1, <2>2
<1>7. /\ c \in Copy /\ c.fresh = TRUE /\ c.started = mem[d].started
      /\ c.completed = mem[d].completed + 1 /\ c.failures = f
  <2>1. mem[d].completed + 1 \in Nat
    BY FreshCopy
  <2> QED BY <1>3, <1>6, <2>1, FreshCopy DEF Copy
<1>8. GoodCopy(p, [c EXCEPT !.fresh = TRUE], c) /\ p \notin Sending
  <2>1. [c EXCEPT !.fresh = TRUE] = c
    BY <1>7 DEF Copy
  <2>2. c.completed <= c.started
    BY <1>5, <1>7, FreshCopy
  <2> QED BY <1>7, <2>1, <2>2 DEF GoodCopy, Phases, Reserving, Spending, Sending
<1>9. c.completed >= mem[d].completed /\ c.failures <= MaxFailures
  <2>1. mem[d].failures <= MaxFailures
    BY <1>3, FreshCopy DEF IInv, CountersOK
  <2> QED BY <1>6, <1>7, <2>1, FreshCopy
<1>10. streak' \in Nat /\ streak' <= c.failures
  <2>1. streak <= mem[d].failures
    BY <1>3, FreshCopy DEF IInv, CountersOK
  <2> QED BY <1>2, <1>6, <1>7, <2>1, FreshCopy
<1> QED BY <1>2, <1>3, <1>4, <1>7, <1>8, <1>9, <1>10, StoreOnShown

\* Pursuits that stop, with an outcome or an error.
LEMMA StopShown ==
    ASSUME IInv, NEW d \in Drivers, Drifts(d) \/ Refused(d)
    PROVE  Shown
<1>1. Forgets(d) /\ UNCHANGED <<goal, satisfied, verified, waived, ck, dispatched, streak>>
  BY DEF Drifts, Refused, DriverOnly, durable, history
<1>2. PICK p \in {"idle", "quarantine"} : at' = [at EXCEPT ![d] = p]
  BY DEF Drifts, Refused, Ends, Errs, Goes
<1> QED BY <1>1, <1>2, ForgetShown

\* Faults of a driver.
LEMMA FaultShown ==
    ASSUME IInv, NEW d \in Drivers, Crash(d) \/ Fails(d) \/ Cancelled(d)
    PROVE  Shown
<1>1. UNCHANGED <<goal, satisfied, verified, waived, ck, dispatched, streak>>
  BY DEF Crash, Fails, Cancelled, Fault, history
<1>2. CASE Crash(d) \/ Fails(d) \/ (Cancelled(d) /\ d = Daemon)
  <2>1. Forgets(d)
    BY <1>2 DEF Crash, Fails, Cancelled
  <2>2. PICK p \in {"idle", "quarantine"} : at' = [at EXCEPT ![d] = p]
    BY <1>2 DEF Crash, Fails, Cancelled, Ends, Errs, Goes
  <2> QED BY <1>1, <2>1, <2>2, ForgetShown
<1>3. CASE Cancelled(d) /\ d # Daemon
  <2>1. at' = [at EXCEPT ![d] = "pause"] /\ UNCHANGED <<mem, seen>>
    BY <1>3 DEF Cancelled, Goes
  <2>2. GoalMoves
    BY <1>1, <2>1, GoalStays DEF IInv, CriteriaOK
  <2>3. "pause" \in Phases \ (Reserving \union Spending)
    BY DEF Phases, Reserving, Spending, Sending
  <2> QED BY <1>1, <2>1, <2>2, <2>3, MoveOnShown
<1> QED BY <1>2, <1>3

-----------------------------------------------------------------------------
(* The theorems. *)

\* Every step of drivers, operators and faults.
LEMMA NextShown ==
    ASSUME IInv, [Next]_vars
    PROVE  Shown
<1>1. CASE UNCHANGED vars
  <2>1. UNCHANGED <<goal, satisfied, verified, waived, ck, at, mem, seen, dispatched, streak>>
    BY <1>1 DEF vars, durable, driverVars, history
  <2>2. GoalMoves
    BY <2>1, GoalStays DEF IInv, CriteriaOK
  <2> QED BY <2>1, <2>2, QuietShown
<1>2. ASSUME NEW d \in Drivers, Step(d) PROVE Shown
  BY <1>2, ReadShown, BeginShown, LoopShown, VerifyShown, AchieveShown, PauseShown,
     ReserveShown, DispatchShown, ReturnShown, StopShown DEF Step
<1>3. CASE LeaseExpires \/ Stalls
  BY <1>3, ExpiresShown DEF LeaseExpires, Stalls, Fault, history
<1> QED BY <1>1, <1>2, <1>3, OperatorShown, AcquireShown, QuarantineShown, FaultShown DEF Next

\* A goal before anybody pursued it.
LEMMA InitHolds == Init => IInv
<1> SUFFICES ASSUME Init PROVE IInv
  OBVIOUS
<1>1. GoalOK(goal)
  BY DEF Init, GoalOK, GoalRecord, Statuses
<1>2. at = [d \in Drivers |-> "idle"] /\ mem = [d \in Drivers |-> Blank]
  BY DEF Init
<1>3. DriversOK
  <2>1. GoodCopy("idle", Blank, ck)
    BY DEF GoodCopy, Blank, Copy, Phases, Reserving, Spending, Sending
  <2> QED BY <1>2, <2>1 DEF DriversOK
<1>4. CountersOK
  <2>1. Pending = {}
    BY <1>2 DEF Pending, Sending
  <2>2. IsFiniteSet({}) /\ Cardinality({}) = 0
    BY FS_EmptySet
  <2>3. /\ ck \in Counters /\ ck.started = 0 /\ ck.completed = 0 /\ ck.failures = 0
        /\ dispatched = 0 /\ streak = 0
    BY DEF Init, Counters
  <2> QED BY <2>1, <2>2, <2>3, PursuitAssumption DEF CountersOK
<1>5. CriteriaOK
  BY <1>1 DEF Init, CriteriaOK, CompletedIsVerified
<1> QED BY <1>1, <1>3, <1>4, <1>5 DEF IInv

\* The invariant of a pursuit.
THEOREM PursuitInvariant == Spec => []IInv
<1>1. IInv /\ [Next]_vars => IInv'
  BY NextShown DEF Shown
<1> QED BY <1>1, InitHolds, PTL DEF Spec

\* A goal is completed only on the verifier's evidence for every criterion or
\* with a recorded waiver (record_pursuit_checkpoint, done).
THEOREM CompletionsAreVerified == Spec => []CompletedIsVerified
<1>1. IInv => CompletedIsVerified
  BY DEF IInv, CriteriaOK
<1> QED BY <1>1, PursuitInvariant, PTL

\* The budgets of a pursuit hold, whichever drivers overlap, crash, stall or
\* lose their lease: every dispatched segment is in the durable count, the
\* segments since the last success hold a failure slot each, and no driver
\* takes the checkpoint back.
THEOREM BudgetsAlwaysHold == Spec => BudgetsHold
<1>1. IInv => PursuitTypeOK /\ SegmentsAccounted /\ FailuresBoundDispatches
  <2> SUFFICES ASSUME IInv PROVE PursuitTypeOK /\ SegmentsAccounted /\ FailuresBoundDispatches
    OBVIOUS
  <2>1. PursuitTypeOK
    BY DEF IInv, GoalOK, GoalRecord, Statuses, DriversOK, GoodCopy, CriteriaOK, CountersOK,
           PursuitTypeOK
  <2>2. SegmentsAccounted
    <3>1. Cardinality(Pending) \in Nat /\ dispatched \in Nat /\ ck.started \in Nat
          /\ dispatched + Cardinality(Pending) <= ck.started /\ ck.started <= MaxSegments
      BY FS_CardinalityType DEF IInv, CountersOK, Counters
    <3> QED BY <3>1 DEF SegmentsAccounted
  <2>3. FailuresBoundDispatches
    BY DEF IInv, CountersOK, FailuresBoundDispatches
  <2> QED BY <2>1, <2>2, <2>3
<1>2. IInv /\ [Next]_vars => [ck'.started >= ck.started /\ ck'.completed >= ck.completed]_vars
  BY NextShown DEF Shown
<1> QED BY <1>1, <1>2, PursuitInvariant, PTL DEF Spec, BudgetsHold, CheckpointMonotone

=============================================================================
