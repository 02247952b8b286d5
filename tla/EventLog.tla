------------------------------ MODULE EventLog ------------------------------
(***************************************************************************)
(* One stream of the append-only event log of vyane-ledger (EventLog): a   *)
(* JSONL file, and beside it a lock file that doubles as the allocator of  *)
(* sequence numbers.                                                       *)
(*                                                                         *)
(* A writer holds the exclusive lock from BeginAppend until its append     *)
(* returns, fails or dies with its process, and readers hold the shared    *)
(* lock for a whole page, so the critical section in progress is one       *)
(* variable and a page is one action.  A writer can be interrupted between *)
(* any two of its steps and in the middle of a write; the machine can lose *)
(* power and with it what was not synced.                                  *)
(*                                                                         *)
(* A line is the serialised record, Body bytes, and a newline.  Only the   *)
(* form of a line is modelled: "line" (complete), "body" (complete but for *)
(* the newline), "part" (a strict prefix of the record) and "junk" (such a *)
(* prefix, closed by a later writer).  Offsets are bytes.                  *)
(***************************************************************************)
EXTENDS Naturals, Sequences

CONSTANTS
    Event,          \* event ids
    Durability,     \* durabilities the callers ask for
    Reader,         \* consumers of the stream
    ByteReader,     \* those that keep a byte cursor (read_from)
    Body,           \* bytes of a serialised record
    NameWithData,   \* does sync_data of a new file commit its name as well?
    MaxAppends,     \* bound of the model: appends
    MaxLosses,      \* bound of the model: power losses
    NoAppend, NoAllocator

ASSUME LogAssumption ==
    /\ Durability \subseteq {"buffered", "durable"}
    /\ ByteReader \subseteq Reader
    /\ Body \in Nat /\ Body >= 2 /\ NameWithData \in BOOLEAN
    /\ MaxAppends \in Nat /\ MaxLosses \in Nat

Allocator == [seq : Nat, len : Nat]
Call == [pc : {"locked", "aligned", "reserved", "written"}, id : Event,
         durability : Durability, seq : Nat, created : BOOLEAN]

ASSUME NullAssumption == NoAllocator \notin Allocator /\ NoAppend \notin Call

VARIABLES
    file,       \* lines of the .jsonl file
    alloc,      \* the .lock file: the AllocatorState it holds, if it parses
    append,     \* the append that holds the exclusive lock
    synced,     \* how many lines a power loss must spare
    onDisk,     \* what a power loss may leave in the .lock file
    name,       \* the directory entries of the two files
    acked,      \* records whose append returned Ok
    cursor,     \* position of a reader: last sequence, byte offset
    delivered,  \* records a reader has been given
    appends, losses

log == <<file, alloc, append, synced, onDisk, name, acked>>
readers == <<cursor, delivered>>
vars == <<log, readers, appends, losses>>

-----------------------------------------------------------------------------
(* Lines and the allocator. *)

Form == {"line", "body", "part", "junk"}
Line == [seq : Nat \ {0}, id : Event, form : Form, end : Nat]
Origin == [seq |-> 0, off |-> 0]

Terminated(l) == l.form \in {"line", "junk"}
Valid(l) == l.form = "line"
\* A record that a reader sees, or will once its line is closed.
Committable(l) == l.form \in {"line", "body"}
Record(l) == [seq |-> l.seq, id |-> l.id]

EndOf(f) == IF f = <<>> THEN 0 ELSE f[Len(f)].end

\* A line with the number and event of r.
LineOf(r, form, end) == [seq |-> r.seq, id |-> r.id, form |-> form, end |-> end]

\* The line with its newline.
Closed(l) == CASE l.form = "body" -> LineOf(l, "line", l.end + 1)
               [] l.form = "part" -> LineOf(l, "junk", l.end + 1)
               [] OTHER -> l

\* What a write of the record of r that stops early can leave of its line.
Torn(r, start) ==
    {LineOf(r, "part", start + p) : p \in 1 .. Body - 1}
      \cup {LineOf(r, "body", start + Body)}

\* max_valid_sequence: the sequence numbers a scan of the file meets.
Scanned == {0} \cup {file[i].seq : i \in {j \in DOMAIN file : Valid(file[j])}}

\* Mutant: an unreadable lock file starts the stream over.
KnownUnscanned == IF alloc = NoAllocator THEN {0} ELSE Scanned \cup {alloc.seq}

\* The numbers a writer takes the maximum of.  The allocator is trusted alone
\* only if the file has the length it foresaw.
Known == CASE alloc = NoAllocator       -> Scanned
           [] alloc # NoAllocator /\ alloc.len = EndOf(file)  -> {alloc.seq}
           [] alloc # NoAllocator /\ alloc.len # EndOf(file)
                                        -> Scanned \cup {alloc.seq}

Init ==
    /\ file = <<>> /\ alloc = NoAllocator /\ append = NoAppend
    /\ synced = 0 /\ onDisk = {NoAllocator} /\ name = "absent" /\ acked = {}
    /\ cursor = [r \in Reader |-> Origin]
    /\ delivered = [r \in Reader |-> {}]
    /\ appends = 0 /\ losses = 0

-----------------------------------------------------------------------------
(* append_blocking. *)

\* The call ends, with Ok, with an error or with its process: the lock is free.
Return == append' = NoAppend /\ UNCHANGED <<readers, appends, losses>>

Continue(pc) ==
    /\ append' = [append EXCEPT !.pc = pc]
    /\ UNCHANGED <<readers, appends, losses>>

At(pc) == append # NoAppend /\ append.pc = pc
IsDurable == append.durability = "durable"

\* acquire_exclusive_lock, open_private.
BeginAppend(e, d) ==
    /\ append = NoAppend /\ appends < MaxAppends
    /\ append' = [pc |-> "locked", id |-> e, durability |-> d, seq |-> 0,
                  created |-> name = "absent"]
    /\ name' = IF name = "absent" THEN "cached" ELSE name
    /\ appends' = appends + 1
    /\ UNCHANGED <<file, alloc, synced, onDisk, acked, readers, losses>>

Ragged == file # <<>> /\ ~Terminated(file[Len(file)])

\* A newline is added to the last line.
CloseTail(spared) ==
    /\ file' = [file EXCEPT ![Len(file)] = Closed(@)]
    /\ synced' = spared

\* Lines spared by a power loss once the last one has been written to.
SparedBefore == IF synced = Len(file) THEN synced - 1 ELSE synced

\* Mutant: the file is cut back to the last newline before its end.
EnsureLineBoundaryTruncates ==
    /\ At("locked")
    /\ file' = IF file = <<>> THEN file ELSE SubSeq(file, 1, Len(file) - 1)
    /\ synced' = Len(file')
    /\ Continue("aligned")
    /\ UNCHANGED <<alloc, onDisk, name, acked>>

\* ensure_line_boundary: what an interrupted writer left is closed first.
EnsureLineBoundary ==
    /\ At("locked")
    /\ IF Ragged THEN CloseTail(IF IsDurable THEN Len(file) ELSE SparedBefore)
                 ELSE UNCHANGED <<file, synced>>
    /\ Continue("aligned")
    /\ UNCHANGED <<alloc, onDisk, name, acked>>

\* It stops before sync_data.
TearBoundary ==
    /\ At("locked") /\ Ragged
    /\ CloseTail(SparedBefore)
    /\ Return
    /\ UNCHANGED <<alloc, onDisk, name, acked>>

Reservation(m) == [seq |-> m + 1, len |-> EndOf(file) + Body + 1]

\* The number is reserved in the lock file before the line is written.
ReserveSequence ==
    /\ At("aligned")
    /\ \E m \in Known :
         /\ \A n \in Known : n <= m
         /\ alloc' = Reservation(m)
         /\ append' = [append EXCEPT !.pc = "reserved", !.seq = alloc'.seq]
         /\ onDisk' = IF IsDurable THEN {Reservation(m)}
                      ELSE onDisk \cup {NoAllocator, Reservation(m)}
    /\ UNCHANGED <<file, synced, name, acked, readers, appends, losses>>

\* write_allocator_state stops after set_len(0), within the write or before
\* sync_data.
TearAllocator ==
    /\ At("aligned")
    /\ \E m \in Known :
         /\ \A n \in Known : n <= m
         /\ alloc' \in {NoAllocator, Reservation(m)}
         /\ onDisk' = onDisk \cup {NoAllocator, Reservation(m)}
    /\ Return
    /\ UNCHANGED <<file, synced, name, acked>>

WriteLine ==
    /\ At("reserved")
    /\ file' = Append(file, LineOf(append, "line", EndOf(file) + Body + 1))
    /\ Continue("written")
    /\ UNCHANGED <<alloc, synced, onDisk, name, acked>>

\* write_all stops early.
TearLine ==
    /\ At("reserved")
    /\ \E l \in Torn(append, EndOf(file)) : file' = Append(file, l)
    /\ Return
    /\ UNCHANGED <<alloc, synced, onDisk, name, acked>>

\* sync_data for a durable append, sync_directory if this call created the
\* files, unlock, Ok.
FinishAppend ==
    /\ At("written")
    /\ synced' = IF IsDurable THEN Len(file) ELSE synced
    /\ name' = IF IsDurable /\ (append.created \/ NameWithData) THEN "durable" ELSE name
    /\ acked' = acked \cup {[seq |-> append.seq, id |-> append.id,
                             durability |-> append.durability]}
    /\ Return
    /\ UNCHANGED <<file, alloc, onDisk>>

\* An error or the death of the process between two steps.  After the line is
\* written the caller cannot know that it was.
Interrupt ==
    /\ append # NoAppend
    /\ Return
    /\ UNCHANGED <<file, alloc, synced, onDisk, name, acked>>

-----------------------------------------------------------------------------
(* read_from_blocking. *)

\* Lines of a page that are handed out: from cursor c on, each line whose
\* sequence exceeds those before it.
Accepted(c, i) ==
    /\ Valid(file[i]) /\ file[i].end > c.off /\ file[i].seq > c.seq
    /\ \A j \in 1 .. i - 1 :
         Valid(file[j]) /\ file[j].end > c.off => file[j].seq < file[i].seq

Page(c, n) == {i \in 1 .. n : Accepted(c, i)}
\* Mutant: a page stops at a line that does not parse.
ReadableUntilJunk == {i \in DOMAIN file : \A j \in 1 .. i : Valid(file[j])}

\* A page never passes a line without a newline.
Readable == {i \in DOMAIN file : Terminated(file[i])}

\* A page ends with line n: at the end of the file, at its limit of events,
\* or before the record that would exceed its limit of bytes.
PageEnds(c, n) ==
    /\ IF n = 0 THEN c.off = 0 ELSE n \in Readable /\ file[n].end >= c.off
    /\ \/ n + 1 \notin Readable
       \/ n # 0 /\ Accepted(c, n)
       \/ n + 1 \in Readable /\ Page(c, n) # {} /\ Accepted(c, n + 1)

\* Mutant: the cursor is left after the record that exceeded the page.
ReadPageSkipsRecord(r) ==
    LET c == cursor[r] IN
    /\ append = NoAppend
    /\ \E n \in 0 .. Len(file), s \in {c.seq} \cup Scanned :
         /\ PageEnds(c, n)
         /\ s = c.seq \/ \E i \in Page(c, n) : s = file[i].seq
         /\ c.seq <= s /\ \A i \in Page(c, n) : file[i].seq <= s
         /\ delivered' = [delivered EXCEPT
                            ![r] = @ \cup {Record(file[i]) : i \in Page(c, n)}]
         /\ cursor' = [cursor EXCEPT
                         ![r] = [seq |-> s,
                                 off |-> IF r \notin ByteReader THEN c.off
                                         ELSE IF n + 1 \in Readable THEN file[n + 1].end
                                         ELSE IF n # 0 THEN file[n].end ELSE c.off]]
    /\ UNCHANGED <<log, appends, losses>>

\* A reader asks for the page after its cursor and keeps next_cursor, or only
\* the last sequence (read_after).
ReadPage(r) ==
    LET c == cursor[r] IN
    /\ append = NoAppend
    /\ \E n \in 0 .. Len(file), s \in {c.seq} \cup Scanned :
         /\ PageEnds(c, n)
         /\ s = c.seq \/ \E i \in Page(c, n) : s = file[i].seq
         /\ c.seq <= s /\ \A i \in Page(c, n) : file[i].seq <= s
         /\ delivered' = [delivered EXCEPT
                            ![r] = @ \cup {Record(file[i]) : i \in Page(c, n)}]
         /\ cursor' = [cursor EXCEPT
                         ![r] = [seq |-> s,
                                 off |-> IF r \in ByteReader /\ n # 0
                                           THEN file[n].end ELSE c.off]]
    /\ UNCHANGED <<log, appends, losses>>

-----------------------------------------------------------------------------
(* Power loss: every process is gone, readers start over. *)

Survivors ==
    {SubSeq(file, 1, n) : n \in synced .. Len(file)}
      \cup UNION {{Append(SubSeq(file, 1, n), l) :
                     l \in {t \in Torn(file[n + 1], EndOf(SubSeq(file, 1, n))) :
                              /\ t.end < file[n + 1].end
                              /\ t.form = "body" => Valid(file[n + 1])}}
                  : n \in synced .. Len(file) - 1}

\* A file whose name was not committed may be gone.
PowerLoss ==
    /\ losses < MaxLosses
    /\ losses' = losses + 1
    /\ \/ name # "absent" /\ name' = "durable" /\ file' \in Survivors
       \/ name # "durable" /\ name' = "absent" /\ file' = <<>>
    /\ synced' = Len(file')
    /\ alloc' \in onDisk \cup (IF name = "durable" THEN {} ELSE {NoAllocator})
    /\ onDisk' = {alloc'}
    /\ append' = NoAppend
    /\ cursor' = [r \in Reader |-> Origin]
    /\ delivered' = [r \in Reader |-> {}]
    /\ UNCHANGED <<acked, appends>>

Running ==
    \/ \E e \in Event, d \in Durability : BeginAppend(e, d)
    \/ EnsureLineBoundary \/ TearBoundary \/ ReserveSequence \/ TearAllocator
    \/ WriteLine \/ TearLine \/ FinishAppend \/ Interrupt
    \/ \E r \in Reader : ReadPage(r)

Next == Running \/ PowerLoss

Spec == Init /\ [][Next]_vars

-----------------------------------------------------------------------------
(* Properties. *)

TypeOK ==
    /\ file \in Seq(Line)
    /\ alloc \in Allocator \cup {NoAllocator}
    /\ append \in Call \cup {NoAppend}
    /\ synced \in 0 .. Len(file)
    /\ onDisk \subseteq Allocator \cup {NoAllocator}
    /\ name \in {"absent", "cached", "durable"}
    /\ acked \subseteq [seq : Nat, id : Event, durability : Durability]
    /\ cursor \in [Reader -> [seq : Nat, off : Nat]]
    /\ delivered \in [Reader -> SUBSET [seq : Nat, id : Event]]
    /\ appends \in 0 .. MaxAppends /\ losses \in 0 .. MaxLosses

\* The records of a stream have increasing sequence numbers, whatever was
\* interrupted before: a reader skips a record that does not exceed the ones
\* before it, so a number used twice would hide a committed event for ever.
SequencesIncrease ==
    \A i, j \in DOMAIN file :
        i < j /\ Valid(file[i]) /\ Valid(file[j]) => file[i].seq < file[j].seq

\* A durable append that returned Ok is in the stream for good, and readable
\* from the start of it.
AcknowledgedIsVisible ==
    \A a \in acked : a.durability = "durable" =>
        \E i \in DOMAIN file :
            /\ Record(file[i]) = [seq |-> a.seq, id |-> a.id]
            /\ Accepted(Origin, i)

\* Whatever writers are interrupted and power is lost, the numbers of the
\* stream increase and what was durably acknowledged stays readable.
StreamSound == TypeOK /\ SequencesIncrease /\ AcknowledgedIsVisible

\* A reader has been given exactly the records before its cursor: a page that
\* ends at a torn line, at its limit or between junk loses nothing.
ReadersMissNothing ==
    \A r \in Reader :
        delivered[r] =
            {Record(file[i]) : i \in {j \in DOMAIN file :
                /\ Valid(file[j])
                /\ IF r \in ByteReader THEN file[j].end <= cursor[r].off
                                       ELSE file[j].seq <= cursor[r].seq}}

-----------------------------------------------------------------------------
(* Liveness while the machine has power: a writer does not stay in its      *)
(* critical section for ever, and readers keep polling.                    *)

WriterStep ==
    \/ EnsureLineBoundary \/ TearBoundary \/ ReserveSequence \/ TearAllocator
    \/ WriteLine \/ TearLine \/ FinishAppend \/ Interrupt

LogFairness ==
    WF_vars(WriterStep) /\ \A r \in Reader : WF_vars(ReadPage(r))
FairSpec == Init /\ [][Running]_vars /\ LogFairness

\* An event whose append returned Ok reaches every reader, the torn lines and
\* junk before it notwithstanding.  (What was acknowledged and delivered stays
\* so, and []<> says the same as ~> does.)
AcknowledgedIsDelivered ==
    \A n \in 1 .. MaxAppends, e \in Event :
        []<>((\E d \in Durability : [seq |-> n, id |-> e, durability |-> d] \in acked)
               => \A r \in Reader : [seq |-> n, id |-> e] \in delivered[r])
=============================================================================
