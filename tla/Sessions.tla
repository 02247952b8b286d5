------------------------------ MODULE Sessions ------------------------------
(***************************************************************************)
(* The dispatch kernel (vyane-kernel/src/dispatch.rs) over the session     *)
(* store (vyane-ledger/src/session.rs), for one session of one owner.      *)
(*                                                                         *)
(* A dispatch that names the session takes its execution lease, a file     *)
(* lock, loads the session, replays its transcript to the model, and       *)
(* folds the turn into the session at the revision it loaded.  Control     *)
(* clients load without a lease and take one for a single mutation.  A     *)
(* load migrates a flat file of the first layout.                          *)
(*                                                                         *)
(* A load or a mutation runs in the blocking pool: it goes on, and keeps   *)
(* the lease, when its caller is dropped.  What runs under the short       *)
(* store lock is one step; its outcome covers a failure before the rename, *)
(* after it (the directory could not be synced) and success.               *)
(***************************************************************************)
EXTENDS Naturals, Sequences, SequencesExt

CONSTANTS
    Dispatch,   \* dispatches, each of one prepared plan
    Control,    \* callers of save, apply_update and apply_native_transition
    Tasks,      \* what the dispatches are for: admitted chain, session or not
    Bindings,   \* native sessions with their domain
    Flats,      \* what may be in the flat file at first
    MaxOutages, \* bound of the model: power losses
    NoFile,
    Nobody

VARIABLES
    v2,         \* the session's envelope: rev, native, turns
    flat,       \* the flat file
    disk,       \* what either may be after a power loss
    lease,      \* who holds the execution lock
    st,         \* where a client is and what it knows
    task,       \* the task of a dispatch
    saved,      \* dispatches whose turn was reported saved
    outages

vars == <<v2, flat, disk, lease, st, task, saved, outages>>
files == <<v2, flat, disk>>

Client == Dispatch \union Control

-----------------------------------------------------------------------------
(* The session. *)

Native == {"absent", "legacy"} \union Bindings
\* A pair of messages: who added it and how many pairs its call had replayed.
Turn == [by : Client \union {"old"}, on : Nat]
Envelope == [rev : Nat, native : Native, turns : Seq(Turn)]

\* What a missing session counts as: revision 0 and nothing to replay.
Empty == [rev |-> 0, native |-> "absent", turns |-> <<>>]
Session == IF v2 = NoFile THEN Empty ELSE v2

\* A flat record has no revision, and its native id no domain.
Migrated == [rev |-> 0, native |-> flat.native, turns |-> flat.turns]

\* A flat file that was not migrated: nothing is written beside it.
Blocked == v2 = NoFile /\ flat # NoFile

-----------------------------------------------------------------------------
(* Clients.  ctx: the snapshot loaded; gone: the caller was dropped while    *)
(* the pool works for it; prep: the lifecycle of the plan; at: the target it *)
(* is at; result: how the chain ended; calls, records: made and left so far. *)

Fresh == [phase |-> "new", ctx |-> Empty, gone |-> FALSE, prep |-> "fresh", at |-> 1,
          result |-> "none", cancelled |-> FALSE, calls |-> 0, records |-> 0]
Ended == [Fresh EXCEPT !.phase = "done"]

\* Client c goes on as s; when it ends, or its dropped work does, the lease
\* goes with it.
Becomes(c, s) ==
    LET ends == s.phase = "done" \/ (s.gone /\ s.phase \notin {"flat", "migrate"}) IN
    /\ st' = [st EXCEPT ![c] = IF ends THEN Ended ELSE s]
    /\ lease' = IF lease = c /\ ends THEN Nobody ELSE lease

Goto(c, p) == Becomes(c, [st[c] EXCEPT !.phase = p])

Init ==
    /\ v2 = NoFile /\ flat \in Flats
    /\ disk = [v2 |-> {v2}, flat |-> {flat}]
    /\ lease = Nobody
    /\ st = [c \in Client |-> Fresh]
    /\ task \in Tasks
    /\ saved = {} /\ outages = 0

-----------------------------------------------------------------------------
(* Admission. *)

\* consume_for_dispatch: a plan that no stream tried, or one declined.
Consumable(d) == st[d].prep \in {"fresh", "fallback"}

\* validate_native_resume: no chain with a harness in a session with a native
\* one.
Admissible(d) ==
    /\ Consumable(d)
    /\ "cli" \in Range(task[d].chain) => st[d].ctx.native = "absent"

AcquireLease(c) ==
    /\ lease = Nobody /\ lease' = c
    /\ \/ c \in Dispatch /\ st[c].phase = "new" /\ task[c].inSession
          /\ st' = [st EXCEPT ![c].phase = "look"]
       \/ c \in Control /\ st[c].phase \in {"new", "loaded"}
          /\ st' = [st EXCEPT ![c].phase = "write"]
    /\ UNCHANGED <<files, task, saved, outages>>

\* The lock could not be had in time, or a check of the task, of the plan or
\* of its provenance refuses.
Refused(c) ==
    /\ st[c].phase \in {"new", "loaded"}
    /\ c \in Dispatch /\ st[c].phase = "loaded" => ~Admissible(c)
    /\ Goto(c, "done")
    /\ UNCHANGED <<files, task, saved, outages>>

-----------------------------------------------------------------------------
(* Loading: load_envelope_blocking reads the envelope, then the flat file, *)
(* each by itself; only the migration has the store lock.                  *)

\* The snapshot a load returns.
Loaded(c, e) == Becomes(c, [st[c] EXCEPT !.phase = "loaded", !.ctx = e])

\* SessionStore::load and load_snapshot, also the admission of a detached
\* parent.
LoadUnleased(c) ==
    /\ c \in Control /\ st[c].phase = "new"
    /\ Goto(c, "look")
    /\ UNCHANGED <<files, task, saved, outages>>

ReadEnvelope(c) ==
    /\ st[c].phase = "look"
    /\ IF v2 = NoFile THEN Goto(c, "flat") ELSE Loaded(c, v2)
    /\ UNCHANGED <<files, task, saved, outages>>

ReadFlat(c) ==
    /\ st[c].phase = "flat"
    /\ IF flat = NoFile THEN Loaded(c, Empty) ELSE Goto(c, "migrate")
    /\ UNCHANGED <<files, task, saved, outages>>

\* The rename took place; the directory was synced after it, or not.
Publish(e, durable) ==
    /\ v2' = e
    /\ disk' = [disk EXCEPT !.v2 = IF durable THEN {e} ELSE @ \union {e}]

\* Under the store lock: another migration may have been first.  The flat
\* file is removed when the envelope is durable, as far as that goes.
Migrate(c) ==
    /\ st[c].phase = "migrate"
    /\ \/ v2 # NoFile /\ Loaded(c, v2) /\ UNCHANGED files
       \/ /\ Blocked
          /\ \/ Publish(Migrated, TRUE) /\ Loaded(c, Migrated) /\ UNCHANGED flat
             \/ \E left \in {{NoFile}, {NoFile, flat}} :
                    /\ v2' = Migrated /\ flat' = NoFile
                    /\ disk' = [v2 |-> {Migrated}, flat |-> left]
                    /\ Loaded(c, Migrated)
             \/ Publish(Migrated, FALSE) /\ Goto(c, "done") /\ UNCHANGED flat
    /\ UNCHANGED <<task, saved, outages>>

\* Unreadable, or it failed before the rename.
LoadFails(c) ==
    /\ st[c].phase \in {"look", "flat", "migrate"}
    /\ Goto(c, "done")
    /\ UNCHANGED <<files, task, saved, outages>>

-----------------------------------------------------------------------------
(* Mutations, at most one under a lease. *)

Kinds(c) == IF c \in Dispatch THEN {"run"}
            ELSE {"save", "update", "reset", "fork", "commit"}

\* A native id without a domain: of a caller, or reported by a harness.
MayCarryId(c, kind) == kind \in {"save", "update"} \/ st[c].result = "cli"

\* A run and a native transition name the revision they rest on.  A bound
\* session takes no id; a commit changes neither a legacy session nor the
\* binding.
Accepted(c, kind, id, b) ==
    /\ ~Blocked
    /\ id => MayCarryId(c, kind) /\ Session.native \notin Bindings
    /\ kind \notin {"save", "update"} => Session.rev = st[c].ctx.rev
    /\ kind \in {"reset", "fork"} => v2 # NoFile
    /\ kind = "commit" => Session.native \in {"absent", b}

NativeAfter(kind, id, b) ==
    CASE kind = "reset" -> "absent"
      [] kind \in {"fork", "commit"} -> b
      [] OTHER -> IF id /\ Session.native = "absent" THEN "legacy" ELSE Session.native

\* The messages a run or a caller adds; a harness keeps its own history.
Delta(c) ==
    CASE c \in Control -> << [by |-> c, on |-> Len(Session.turns)] >>
      [] c \in Dispatch /\ st[c].result = "chat"
                       -> << [by |-> c, on |-> Len(st[c].ctx.turns)] >>
      [] OTHER         -> <<>>

TurnsAfter(c, kind) ==
    CASE kind = "save"  -> st[c].ctx.turns
      [] kind = "reset" -> Session.turns
      [] OTHER          -> Session.turns \o Delta(c)

By(turns) == {turns[i].by : i \in DOMAIN turns}

\* A caller that saves replaces the record, and with it what is owed.
Write(c) ==
    /\ st[c].phase = "write"
    /\ \E kind \in Kinds(c), id \in BOOLEAN, b \in Bindings, durable \in BOOLEAN :
        /\ Accepted(c, kind, id, b)
        /\ Publish([rev |-> Session.rev + 1, native |-> NativeAfter(kind, id, b),
                    turns |-> TurnsAfter(c, kind)], durable)
        /\ saved' = CASE kind = "save" -> saved \intersect By(st[c].ctx.turns)
                      [] kind = "run" /\ durable /\ ~st[c].gone /\ st[c].result = "chat"
                                       -> saved \union {c}
                      [] OTHER         -> saved
    /\ Goto(c, "done")
    /\ UNCHANGED <<flat, task, outages>>

\* Refused, or failed before the rename.
WriteFails(c) ==
    /\ st[c].phase = "write"
    /\ Goto(c, "done")
    /\ UNCHANGED <<files, task, saved, outages>>

-----------------------------------------------------------------------------
(* Executing a plan. *)

Consume(d) ==
    /\ st[d].phase = IF task[d].inSession THEN "loaded" ELSE "new"
    /\ Admissible(d)
    /\ Becomes(d, [st[d] EXCEPT !.phase = "attempt", !.prep = "consumed"])
    /\ UNCHANGED <<files, task, saved, outages>>

Result(d, r) == Becomes(d, [st[d] EXCEPT !.phase = "record", !.result = r])

Call(d) == Becomes(d, [st[d] EXCEPT !.phase = "call", !.calls = @ + 1])

\* Failover: only after an eligible error, and while a target is left.
AfterError(d) ==
    \/ /\ st[d].at < Len(task[d].chain)
       /\ Becomes(d, [st[d] EXCEPT !.phase = "attempt", !.at = @ + 1])
    \/ Result(d, "error")

\* The token is looked at before the executor is built.
Attempt(d) ==
    /\ st[d].phase = "attempt"
    /\ IF st[d].cancelled THEN Result(d, "cancelled") ELSE Call(d) \/ AfterError(d)
    /\ UNCHANGED <<files, task, saved, outages>>

\* A chat is raced with the token, which wins; a harness sees to it itself.
CallReturns(d) ==
    /\ st[d].phase = "call"
    /\ LET transport == task[d].chain[st[d].at] IN
       \/ st[d].cancelled /\ Result(d, "cancelled")
       \/ /\ st[d].cancelled => transport = "cli"
          /\ Result(d, transport) \/ AfterError(d)
    /\ UNCHANGED <<files, task, saved, outages>>

\* The run record, then the session; a failure of either does not undo the run.
Record(d) ==
    /\ st[d].phase = "record"
    /\ Becomes(d, [st[d] EXCEPT !.phase = IF task[d].inSession THEN "write" ELSE "done",
                                !.prep = "consumed", !.records = @ + 1])
    /\ UNCHANGED <<files, task, saved, outages>>

\* dispatch_stream_prepared: one target and no session.
BeginProbe(d) ==
    /\ st[d].phase = "new" /\ st[d].prep = "fresh"
    /\ ~task[d].inSession /\ Len(task[d].chain) = 1
    /\ Becomes(d, [st[d] EXCEPT !.prep = "probing",
                                !.phase = IF st[d].cancelled THEN "record" ELSE "probe",
                                !.result = IF st[d].cancelled THEN "cancelled" ELSE @])
    /\ UNCHANGED <<files, task, saved, outages>>

\* The executor streams, or declines and leaves the plan to be dispatched, or
\* cannot be built.
Probe(d) ==
    /\ st[d].phase = "probe"
    /\ \/ Call(d)
       \/ Becomes(d, [st[d] EXCEPT !.phase = "new", !.prep = "fallback"])
       \/ Goto(d, "done")
    /\ UNCHANGED <<files, task, saved, outages>>

-----------------------------------------------------------------------------
(* The environment. *)

\* A token cancelled earlier than here is seen here.
Cancel(d) ==
    /\ st[d].phase \in {"new", "attempt", "call"} /\ ~st[d].cancelled
    /\ st' = [st EXCEPT ![d].cancelled = TRUE]
    /\ UNCHANGED <<files, lease, task, saved, outages>>

InPool(c) == st[c].phase \in {"look", "flat", "migrate", "write"}

\* Mutant: only the caller owns the lock, not the work in the pool.
AbandonReleasing(c) ==
    /\ st[c].phase \notin {"new", "done"} /\ ~st[c].gone
    /\ st' = [st EXCEPT ![c] = IF InPool(c) THEN [@ EXCEPT !.gone = TRUE] ELSE Ended]
    /\ lease' = IF lease = c THEN Nobody ELSE lease
    /\ UNCHANGED <<files, task, saved, outages>>

\* The client's future is dropped.  Work in the pool goes on under the lease.
\* A plan that was lent to a stream is still its caller's.
Abandon(c) ==
    /\ st[c].phase \notin {"new", "done"} /\ ~st[c].gone
    /\ IF InPool(c) THEN st' = [st EXCEPT ![c].gone = TRUE] /\ UNCHANGED lease
       ELSE Becomes(c, [st[c] EXCEPT !.phase = IF @ # "done" /\ st[c].prep = "probing"
                                               THEN "new" ELSE "done"])
    /\ UNCHANGED <<files, task, saved, outages>>

\* Everybody who began is gone, and what was not synced may be.
PowerLoss ==
    /\ outages < MaxOutages /\ outages' = outages + 1
    /\ v2' \in disk.v2 /\ flat' \in disk.flat
    /\ disk' = [v2 |-> {v2'}, flat |-> {flat'}]
    /\ st' = [c \in Client |-> IF st[c] = Fresh THEN Fresh ELSE Ended]
    /\ lease' = Nobody
    /\ UNCHANGED <<task, saved>>

Next ==
    \/ PowerLoss
    \/ \E c \in Client :
        \/ AcquireLease(c) \/ Refused(c) \/ LoadUnleased(c)
        \/ ReadEnvelope(c) \/ ReadFlat(c) \/ Migrate(c) \/ LoadFails(c)
        \/ Write(c) \/ WriteFails(c) \/ Abandon(c)
    \/ \E d \in Dispatch :
        \/ Consume(d) \/ Attempt(d) \/ CallReturns(d) \/ Record(d)
        \/ BeginProbe(d) \/ Probe(d) \/ Cancel(d)

Spec == Init /\ [][Next]_vars

-----------------------------------------------------------------------------
(* Properties. *)

SessionTypeOK ==
    /\ v2 \in Envelope \union {NoFile} /\ lease \in Client \union {Nobody}
    /\ \A c \in Client : st[c].ctx \in Envelope
    /\ \A c \in Client : lease = c => st[c].phase \notin {"new", "done"}

\* A dispatch between its load and its update.
Resting(d) ==
    lease = d /\ st[d].phase \in {"loaded", "attempt", "call", "record", "write"}

\* Its load found neither file: a migration came between the two reads.
Overtaken(d) == st[d].ctx = Empty /\ v2 # NoFile /\ v2.rev = 0

\* Meanwhile it has the session to itself: what it replays, and names in its
\* update, is what the session is.
LeaseHolds == \A d \in Dispatch : Resting(d) => st[d].ctx = Session \/ Overtaken(d)

\* No two calls branch off the same transcript: a turn rests on all the turns
\* before it, or misses those of the flat file.
Linear(turns) ==
    \A i \in DOMAIN turns :
        LET t == turns[i] IN
        /\ t.by \in Dispatch => t.on = i - 1 \/ (t.on = 0 /\ "old" \in By(turns))
        /\ \A j \in 1 .. i - 1 : turns[j].by # t.by
TranscriptLinear == Linear(Session.turns)

\* A turn reported saved stays, whatever power loss follows.
SavedStays == saved # {} => \A e \in disk.v2 : e # NoFile /\ saved \subseteq By(e.turns)

\* A harness never works in a session that has a native one.
HarnessStartsFresh ==
    \A d \in Dispatch :
        Resting(d) /\ st[d].phase = "call" /\ "cli" \in Range(task[d].chain) =>
            Session.native = "absent" \/ Overtaken(d)

\* The session keeps what lease, revision and atomic write promise
\* (load_session_context, apply_update_envelope_blocking,
\* write_envelope_atomic) through dropped callers and power losses.
SessionsSound ==
    SessionTypeOK /\ LeaseHolds /\ TranscriptLinear /\ SavedStays /\ HarnessStartsFresh

\* An execution calls each of its targets at most once and leaves at most one
\* run record, also when its stream was declined or abandoned
\* (begin_stream_probe, finish_stream_probe, consume_for_dispatch).
ExecutesOnce ==
    \A d \in Dispatch : /\ st[d].calls <= st[d].at
                        /\ st[d].phase = "record" => st[d].records = 0

\* "An identity, migration, or I/O error fails before model execution rather
\* than silently discarding continuity" (dispatch_prepared_inner): a model is
\* called with the session as it is.
ContinuityKept ==
    \A d \in Dispatch : Resting(d) /\ st[d].phase = "call" => st[d].ctx = Session
-----------------------------------------------------------------------------
(* The inductive invariant of DispatchProofs. *)

\* What a client may be, seen by itself.
ClientState ==
    [phase : {"new", "look", "flat", "migrate", "loaded", "write", "attempt", "call",
              "record", "probe", "done"},
     ctx : Envelope, gone : BOOLEAN, prep : {"fresh", "probing", "fallback", "consumed"},
     at : Nat \ {0}, result : {"none", "chat", "cli", "error", "cancelled"},
     cancelled : BOOLEAN, calls : Nat, records : Nat]

\* What may be in the flat file: the turns of the first layout count as one.
FlatRecord == [native : Native, turns : {<<>>, <<[by |-> "old", on |-> 0]>>}]

FilesOK ==
    /\ disk \in [v2 : SUBSET (Envelope \union {NoFile}),
                flat : SUBSET (FlatRecord \union {NoFile})]
    /\ v2 \in disk.v2 /\ flat \in disk.flat
    /\ \A e \in disk.v2 :
        e # NoFile /\ e.rev = 0 => e.turns = <<>> \/ "old" \in By(e.turns)

StatesOK ==
    /\ st \in [Client -> ClientState] /\ lease \in Client \union {Nobody}
    /\ saved \subseteq Client /\ task \in Tasks
    /\ \A d \in Dispatch : st[d].at <= Len(task[d].chain)

\* Who holds the lease: a control client to write, a dispatch into the session
\* from its load to its end, and no other dispatch.
LeaseSound(c) ==
    /\ st[c].gone => st[c].phase \in {"look", "flat", "migrate", "write"}
    /\ c \in Control =>
        /\ st[c].phase \in {"new", "look", "flat", "migrate", "loaded", "write", "done"}
        /\ lease = c <=> st[c].phase = "write"
    /\ c \in Dispatch /\ task[c].inSession =>
        /\ lease = c <=> st[c].phase \notin {"new", "done"}
        /\ st[c].phase # "probe" /\ st[c].prep \in {"fresh", "consumed"}
    /\ c \in Dispatch /\ ~task[c].inSession =>
        /\ lease # c
        /\ st[c].phase \in {"new", "attempt", "call", "record", "probe", "done"}

\* How far a dispatch got with its plan.
PlanSound(d) ==
    /\ st[d].calls <= st[d].at /\ (st[d].phase = "attempt" => st[d].calls < st[d].at)
    /\ st[d].phase # "write" => st[d].records = 0
    /\ st[d].phase = "new" => st[d].prep # "consumed"
    /\ \/ st[d].phase = "new" /\ Consumable(d)
       \/ st[d].phase \in {"look", "flat", "migrate", "loaded", "probe"}
       => st[d].calls = 0

\* A dispatch under the lease loaded what the session is; without an envelope
\* there is no flat file either.  While it looks, only a migration comes.
LoadSound(d) ==
    /\ lease = d /\ st[d].phase = "flat" => v2 = NoFile \/ v2.rev = 0
    /\ Resting(d) =>
        /\ st[d].ctx = Session \/ Overtaken(d)
        /\ v2 = NoFile => flat = NoFile
        /\ st[d].phase \in {"attempt", "call"} /\ "cli" \in Range(task[d].chain) =>
                st[d].ctx.native = "absent"

\* A transcript somebody may still read or write back: linear, and without a
\* turn of a client that has yet to write.
TurnsSound(turns) ==
    Linear(turns) /\ \A c \in Client : st[c].phase # "done" => c \notin By(turns)

KnownTurns == {e.turns : e \in disk.v2 \ {NoFile}} \union {st[c].ctx.turns : c \in Client}

SessionInv ==
    /\ FilesOK /\ StatesOK /\ SavedStays
    /\ \A c \in Client : LeaseSound(c)
    /\ \A d \in Dispatch : PlanSound(d) /\ LoadSound(d)
    /\ \A turns \in KnownTurns : TurnsSound(turns)
=============================================================================
