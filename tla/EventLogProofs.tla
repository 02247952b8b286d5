--------------------------- MODULE EventLogProofs ---------------------------
(***************************************************************************)
(* Proofs about the event log, for any number of events, readers, appends  *)
(* and power losses, when every append is durable (as all of vyane's are), *)
(* and about the projectors that write to it, for any number of instances, *)
(* events, faults and any size of a page.                                  *)
(***************************************************************************)
EXTENDS EventLog, EventProjector, SequenceTheorems, WellFoundedInduction, TLAPS

-----------------------------------------------------------------------------
(* The event log: the inductive invariant. *)

\* Where line i begins.
StartOf(f, i) == IF i = 1 THEN 0 ELSE f[i - 1].end

\* Only the last line can lack its newline, and a record takes Body bytes.
LinesInv ==
    /\ \A i \in DOMAIN file : StartOf(file, i) < file[i].end
    /\ \A i, j \in DOMAIN file :
         i < j => file[i].end < file[j].end /\ Terminated(file[i])
    /\ \A i \in DOMAIN file : Committable(file[i]) =>
         Closed(file[i]).end = StartOf(file, i) + Body + 1

\* Numbers increase, those of records yet to be closed included.
OrderInv ==
    \A i, j \in DOMAIN file :
        i < j /\ Committable(file[i]) /\ Committable(file[j])
          => file[i].seq < file[j].seq

\* Whatever the lock file holds now or after a power loss covers the records
\* up to the length it names.
Covers(a) ==
    \A i \in DOMAIN file :
        Committable(file[i]) /\ Closed(file[i]).end <= a.len => file[i].seq <= a.seq

AllocatorInv == \A a \in (onDisk \cup {alloc}) \ {NoAllocator} : Covers(a)

IsClosed == file # <<>> => Terminated(file[Len(file)])

AppendInv ==
    /\ At("aligned") => IsClosed
    /\ At("reserved") =>
         /\ IsClosed /\ append.seq # 0
         /\ alloc = [seq |-> append.seq, len |-> EndOf(file) + Body + 1]
         /\ onDisk = {alloc}
         /\ \A i \in DOMAIN file : Committable(file[i]) => file[i].seq < append.seq
    /\ At("written") =>
         /\ file # <<>> /\ Valid(file[Len(file)])
         /\ Record(file[Len(file)]) = [seq |-> append.seq, id |-> append.id]

\* Provided that the name of the file is committed with its data.
AckedInv ==
    NameWithData =>
        /\ acked # {} => name = "durable"
        /\ \A a \in acked : \E i \in 1 .. synced :
             Valid(file[i]) /\ Record(file[i]) = [seq |-> a.seq, id |-> a.id]

\* A byte cursor stands after a closed line; what is behind a cursor has a
\* number up to the cursor's, what is ahead of it a higher one.
CursorInv ==
    \A r \in Reader :
        /\ cursor[r].off = 0 \/ \E i \in DOMAIN file :
              Terminated(file[i]) /\ file[i].end = cursor[r].off
        /\ r \notin ByteReader => cursor[r].off = 0
        /\ cursor[r].seq \in Scanned
        /\ r \in ByteReader => \A i \in DOMAIN file : Valid(file[i]) =>
              (file[i].end <= cursor[r].off <=> file[i].seq <= cursor[r].seq)

IInv ==
    /\ TypeOK /\ LinesInv /\ OrderInv /\ AllocatorInv /\ AppendInv /\ AckedInv
    /\ CursorInv /\ ReadersMissNothing

-----------------------------------------------------------------------------
(* Lines. *)

\* Closing a line keeps its number and its event; a closed line stays as it is.
LEMMA ClosedLine ==
    ASSUME NEW l \in Line
    PROVE  /\ Closed(l) \in Line
           /\ Closed(l).seq = l.seq /\ Closed(l).id = l.id
           /\ Terminated(Closed(l))
           /\ Committable(Closed(l)) <=> Committable(l)
           /\ Closed(Closed(l)) = Closed(l)
           /\ Closed(l).end >= l.end
<1>1. CASE l.form = "body"
  <2>1. Closed(l) = LineOf(l, "line", l.end + 1)
    BY <1>1 DEF Closed
  <2>2. Closed(l) \in Line /\ Closed(l).form = "line" /\ Closed(l).end = l.end + 1
    BY <2>1 DEF Line, Form, LineOf
  <2>3. Closed(Closed(l)) = Closed(l)
    BY <2>2 DEF Closed
  <2>. QED
    BY <1>1, <2>1, <2>2, <2>3 DEF Line, LineOf, Terminated, Committable
<1>2. CASE l.form = "part"
  <2>1. Closed(l) = LineOf(l, "junk", l.end + 1)
    BY <1>2 DEF Closed
  <2>2. Closed(l) \in Line /\ Closed(l).form = "junk" /\ Closed(l).end = l.end + 1
    BY <2>1 DEF Line, Form, LineOf
  <2>3. Closed(Closed(l)) = Closed(l)
    BY <2>2 DEF Closed
  <2>. QED
    BY <1>2, <2>1, <2>2, <2>3 DEF Line, LineOf, Terminated, Committable
<1>3. CASE l.form \in {"line", "junk"}
  <2>1. Closed(l) = l
    BY <1>3 DEF Closed
  <2>. QED
    BY <1>3, <2>1 DEF Line, Terminated
<1>. QED
  BY <1>1, <1>2, <1>3 DEF Line, Form

\* The scan meets the numbers of the valid lines.
LEMMA ScannedNumbers ==
    ASSUME TypeOK
    PROVE  /\ Scanned \subseteq Nat
           /\ \A i \in DOMAIN file : Valid(file[i]) => file[i].seq \in Scanned
<1>1. \A i \in DOMAIN file : file[i] \in Line
  BY DEF TypeOK
<1>2. \A i \in DOMAIN file : file[i].seq \in Nat
  BY <1>1 DEF Line
<1>. QED
  BY <1>2 DEF Scanned

\* The end of the file is the end of its last line.
LEMMA EndOfFile ==
    ASSUME TypeOK, LinesInv
    PROVE  /\ EndOf(file) \in Nat
           /\ \A i \in DOMAIN file : file[i].end <= EndOf(file)
           /\ file # <<>> => Len(file) \in DOMAIN file
           /\ EndOf(file) = StartOf(file, Len(file) + 1) 
<1>1. /\ Len(file) \in Nat /\ DOMAIN file = 1 .. Len(file)
      /\ \A i \in 1 .. Len(file) : file[i] \in Line
  BY DEF TypeOK
<1>2. CASE file = <<>>
  BY <1>1, <1>2 DEF EndOf, StartOf
<1>3. CASE file # <<>>
  <2>1. Len(file) \in 1 .. Len(file) /\ EndOf(file) = file[Len(file)].end
    BY <1>1, <1>3 DEF EndOf
  <2>2. \A i \in 1 .. Len(file) : i < Len(file) => file[i].end < file[Len(file)].end
    BY <1>1, <2>1 DEF LinesInv
  <2>3. StartOf(file, Len(file) + 1) = file[Len(file)].end
    BY <1>1, <2>1 DEF StartOf
  <2>. QED
    BY <1>1, <2>1, <2>2, <2>3 DEF Line
<1>. QED
  BY <1>2, <1>3

\* A line starts at some byte.
LEMMA StartsAreNumbers ==
    ASSUME NEW f \in Seq(Line), NEW i \in 1 .. Len(f) + 1
    PROVE  StartOf(f, i) \in Nat
<1>1. CASE i = 1
  BY <1>1 DEF StartOf
<1>2. CASE i # 1
  <2>1. i - 1 \in 1 .. Len(f)
    BY <1>2
  <2>2. f[i - 1] \in Line
    BY <2>1
  <2>. QED
    BY <1>2, <2>2 DEF StartOf, Line
<1>. QED
  BY <1>1, <1>2

\* Writing a line after a closed file.
LEMMA LineAppended ==
    ASSUME TypeOK, LinesInv, OrderInv, IsClosed, NEW l \in Line,
           file' = Append(file, l),
           EndOf(file) < l.end,
           Committable(l) => Closed(l).end = EndOf(file) + Body + 1,
           \A i \in DOMAIN file : Committable(file[i]) => file[i].seq < l.seq
    PROVE  /\ LinesInv' /\ OrderInv' /\ file' \in Seq(Line)
           /\ Len(file') = Len(file) + 1 /\ file'[Len(file) + 1] = l
           /\ \A i \in DOMAIN file : i \in DOMAIN file' /\ file'[i] = file[i]
<1>1. /\ file' \in Seq(Line) /\ Len(file') = Len(file) + 1 /\ Len(file) \in Nat
      /\ DOMAIN file = 1 .. Len(file) /\ DOMAIN file' = 1 .. Len(file) + 1
      /\ file'[Len(file) + 1] = l
      /\ \A i \in 1 .. Len(file) : file'[i] = file[i]
      /\ \A i \in 1 .. Len(file) : file[i] \in Line
  BY DEF TypeOK
<1>2. ASSUME NEW i \in 1 .. Len(file) + 1
      PROVE  /\ StartOf(file', i) < file'[i].end
             /\ Committable(file'[i]) =>
                  Closed(file'[i]).end = StartOf(file', i) + Body + 1
  <2>1. CASE i = Len(file) + 1
    <3>1. StartOf(file', i) = StartOf(file, i)
      <4>1. i # 1 => i - 1 \in 1 .. Len(file)
        BY <1>1, <2>1
      <4>. QED
        BY <1>1, <4>1 DEF StartOf
    <3>2. StartOf(file', i) = EndOf(file)
      BY <2>1, <3>1, EndOfFile
    <3>. QED
      BY <1>1, <2>1, <3>2
  <2>2. CASE i \in 1 .. Len(file)
    <3>1. StartOf(file', i) = StartOf(file, i)
      BY <1>1, <2>2 DEF StartOf
    <3>. QED
      BY <1>1, <2>2, <3>1 DEF LinesInv
  <2>. QED
    BY <1>1, <2>1, <2>2
<1>3. ASSUME NEW i \in 1 .. Len(file) + 1, NEW j \in 1 .. Len(file) + 1, i < j
      PROVE  /\ file'[i].end < file'[j].end /\ Terminated(file'[i])
             /\ Committable(file'[i]) /\ Committable(file'[j])
                  => file'[i].seq < file'[j].seq
  <2>1. CASE j = Len(file) + 1
    <3>1. i \in 1 .. Len(file) /\ file # <<>>
      BY <1>1, <1>3, <2>1
    <3>2. file[i].end <= EndOf(file)
      BY <1>1, <3>1, EndOfFile
    <3>3. Terminated(file[i])
      BY <1>1, <3>1 DEF IsClosed, LinesInv
    <3>. QED
      <4>1. file[i].end \in Nat /\ EndOf(file) \in Nat /\ l.end \in Nat
        BY <1>1, <3>1, EndOfFile DEF Line
      <4>2. file[i].end < l.end
        BY <3>2, <4>1
      <4>. QED
        BY <1>1, <2>1, <3>1, <3>3, <4>2
  <2>2. CASE j \in 1 .. Len(file)
    BY <1>1, <1>3, <2>2 DEF LinesInv, OrderInv
  <2>. QED
    BY <1>1, <2>1, <2>2
<1>. QED
  BY <1>1, <1>2, <1>3 DEF LinesInv, OrderInv

\* Closing the last line of a sequence of lines.
LEMMA CloseLast ==
    ASSUME NEW f \in Seq(Line), f # <<>>,
           NEW g, g = [f EXCEPT ![Len(f)] = Closed(f[Len(f)])]
    PROVE  /\ g \in Seq(Line) /\ Len(g) = Len(f)
           /\ \A i \in 1 .. Len(f) :
                g[i] = IF i = Len(f) THEN Closed(f[i]) ELSE f[i]
<1>1. Len(f) \in 1 .. Len(f) /\ f[Len(f)] \in Line
  OBVIOUS
<1>2. Closed(f[Len(f)]) \in Line
  BY <1>1, ClosedLine
<1>. QED
  BY <1>1, <1>2, ExceptSeq

\* It leaves every line closed and keeps the order.
LEMMA LastClosed ==
    ASSUME TypeOK, LinesInv, OrderInv, file # <<>>,
           file' \in Seq(Line), Len(file') = Len(file),
           \A i \in 1 .. Len(file) :
             file'[i] = IF i = Len(file) THEN Closed(file[i]) ELSE file[i]
    PROVE  /\ LinesInv' /\ OrderInv'
           /\ \A i \in DOMAIN file :
                /\ i \in DOMAIN file'
                /\ file'[i] = Closed(file[i])
<1>1. /\ Len(file) \in Nat \ {0} /\ DOMAIN file = 1 .. Len(file)
      /\ \A i \in 1 .. Len(file) : file[i] \in Line
  BY DEF TypeOK
<1>2. /\ DOMAIN file' = 1 .. Len(file)
      /\ \A i \in 1 .. Len(file) : i # Len(file) => file'[i] = file[i]
      /\ file'[Len(file)] = Closed(file[Len(file)])
  BY <1>1
<1>3. \A i \in 1 .. Len(file) : file'[i] = Closed(file[i])
  <2>1. \A i \in 1 .. Len(file) : i # Len(file) => Terminated(file[i])
    <3>1. Len(file) \in 1 .. Len(file)
      BY <1>1
    <3>2. \A i \in 1 .. Len(file) : i # Len(file) => i < Len(file)
      BY <1>1
    <3>. QED
      BY <1>1, <3>1, <3>2 DEF LinesInv
  <2>2. \A i \in 1 .. Len(file) : Terminated(file[i]) => Closed(file[i]) = file[i]
    BY DEF Closed, Terminated
  <2>. QED
    BY <1>1, <1>2, <2>1, <2>2
<1>4. \A i \in 1 .. Len(file) : StartOf(file', i) = StartOf(file, i)
  <2>. TAKE i \in 1 .. Len(file)
  <2>1. i # 1 => i - 1 \in 1 .. Len(file) /\ i - 1 # Len(file)
    BY <1>1
  <2>. QED
    BY <1>2, <2>1 DEF StartOf
<1>5. \A i \in 1 .. Len(file) :
        /\ StartOf(file', i) < file'[i].end
        /\ Committable(file'[i]) =>
             Closed(file'[i]).end = StartOf(file', i) + Body + 1
  <2>1. \A i \in 1 .. Len(file) : StartOf(file, i) \in Nat
    BY StartsAreNumbers DEF TypeOK
  <2>. QED
    <3>. TAKE i \in 1 .. Len(file)
    <3>1. file[i] \in Line /\ Closed(file[i]) \in Line /\ StartOf(file, i) \in Nat
      BY <1>1, <2>1, ClosedLine
    <3>2. StartOf(file, i) < Closed(file[i]).end
      <4>1. StartOf(file, i) < file[i].end
        BY <1>1 DEF LinesInv
      <4>2. Closed(file[i]).end >= file[i].end
        BY <3>1, ClosedLine
      <4>. QED
        BY <3>1, <4>1, <4>2 DEF Line
    <3>3. Committable(Closed(file[i])) =>
            Closed(Closed(file[i])).end = StartOf(file, i) + Body + 1
      BY <1>1, <3>1, ClosedLine DEF LinesInv
    <3>. QED
      BY <1>3, <1>4, <3>2, <3>3
<1>6. \A i, j \in 1 .. Len(file) : i < j =>
        /\ file'[i].end < file'[j].end /\ Terminated(file'[i])
        /\ Committable(file'[i]) /\ Committable(file'[j])
             => file'[i].seq < file'[j].seq
  <2>. SUFFICES ASSUME NEW i \in 1 .. Len(file), NEW j \in 1 .. Len(file), i < j
                PROVE  /\ file'[i].end < file'[j].end /\ Terminated(file'[i])
                       /\ Committable(file'[i]) /\ Committable(file'[j])
                            => file'[i].seq < file'[j].seq
    OBVIOUS
  <2>1. /\ file[i] \in Line /\ file[j] \in Line /\ Closed(file[j]) \in Line
        /\ Closed(file[j]).end >= file[j].end /\ Closed(file[j]).seq = file[j].seq
        /\ Committable(Closed(file[j])) <=> Committable(file[j])
    BY <1>1, ClosedLine
  <2>2. file[i].end < file[j].end /\ Terminated(file[i])
    BY <1>1 DEF LinesInv
  <2>3. file'[i] = file[i] /\ file'[j] = Closed(file[j])
    BY <1>3, <2>2 DEF Closed, Terminated
  <2>4. file[i].end < Closed(file[j]).end
    BY <2>1, <2>2 DEF Line
  <2>5. Committable(file[i]) /\ Committable(file[j]) => file[i].seq < file[j].seq
    BY <1>1 DEF OrderInv
  <2>. QED
    BY <2>1, <2>2, <2>3, <2>4, <2>5
<1>7. LinesInv'
  BY <1>2, <1>5, <1>6 DEF LinesInv
<1>8. OrderInv'
  BY <1>2, <1>6 DEF OrderInv
<1>. QED
  BY <1>1, <1>2, <1>3, <1>7, <1>8

-----------------------------------------------------------------------------
(* What a power loss leaves. *)

\* Survivors keep the synced lines; only their last line may have been cut.
LEMMA SurvivorLines ==
    ASSUME TypeOK, LinesInv, NEW g \in Survivors
    PROVE  /\ g \in Seq(Line) /\ Len(g) \in synced .. Len(file)
           /\ \A i \in 1 .. Len(g) :
                \/ g[i] = file[i]
                \/ /\ i = Len(g) /\ i > synced /\ ~Terminated(g[i])
                   /\ g[i].seq = file[i].seq /\ g[i].id = file[i].id
                   /\ StartOf(file, i) < g[i].end
                   /\ Committable(g[i]) => /\ Committable(file[i])
                                           /\ Closed(g[i]).end = Closed(file[i]).end
<1>1. /\ Len(file) \in Nat /\ DOMAIN file = 1 .. Len(file) /\ synced \in 0 .. Len(file)
      /\ file \in Seq(Line) /\ \A i \in 1 .. Len(file) : file[i] \in Line
  BY DEF TypeOK
<1>2. ASSUME NEW n \in synced .. Len(file)
      PROVE  /\ SubSeq(file, 1, n) \in Seq(Line) /\ Len(SubSeq(file, 1, n)) = n
             /\ \A i \in 1 .. n : SubSeq(file, 1, n)[i] = file[i]
  BY <1>1
<1>3. CASE \E n \in synced .. Len(file) : g = SubSeq(file, 1, n)
  BY <1>1, <1>2, <1>3
<1>4. ASSUME NEW n \in synced .. Len(file) - 1,
             NEW l \in Torn(file[n + 1], EndOf(SubSeq(file, 1, n))),
             l.end < file[n + 1].end,
             l.form = "body" => Valid(file[n + 1]),
             g = Append(SubSeq(file, 1, n), l)
      PROVE  /\ g \in Seq(Line) /\ Len(g) = n + 1
             /\ \A i \in 1 .. n : g[i] = file[i]
             /\ g[n + 1] = l /\ ~Terminated(l)
             /\ l.seq = file[n + 1].seq /\ l.id = file[n + 1].id
             /\ StartOf(file, n + 1) < l.end
             /\ Committable(l) => /\ Committable(file[n + 1])
                                  /\ Closed(l).end = Closed(file[n + 1]).end
  <2>1. n \in synced .. Len(file) /\ n + 1 \in 1 .. Len(file) /\ n \in Nat
    BY <1>1
  <2>2. EndOf(SubSeq(file, 1, n)) = StartOf(file, n + 1)
    <3>1. CASE n = 0
      BY <1>2, <2>1, <3>1 DEF EndOf, StartOf
    <3>2. CASE n # 0
      BY <1>2, <2>1, <3>2 DEF EndOf, StartOf
    <3>. QED
      BY <3>1, <3>2
  <2>3. StartOf(file, n + 1) \in Nat
    BY <1>1, <2>1, StartsAreNumbers
  <2>4. /\ l.seq = file[n + 1].seq /\ l.id = file[n + 1].id /\ l.end \in Nat
        /\ StartOf(file, n + 1) < l.end
        /\ l.form \in {"part", "body"}
        /\ l.form = "body" => l.end = StartOf(file, n + 1) + Body
        /\ l \in Line
    BY <1>1, <2>1, <2>2, <2>3, LogAssumption, SMTT(30) DEF Torn, LineOf, Line, Form
  <2>5. /\ g \in Seq(Line) /\ Len(g) = n + 1 /\ g[n + 1] = l
        /\ \A i \in 1 .. n : g[i] = file[i]
    BY <1>2, <1>4, <2>1, <2>4
  <2>6. Committable(l) => /\ Committable(file[n + 1])
                          /\ Closed(l).end = Closed(file[n + 1]).end
    <3>. HAVE Committable(l)
    <3>1. l.form = "body"
      BY <2>4 DEF Committable
    <3>2. Committable(file[n + 1])
      BY <1>4, <3>1 DEF Valid, Committable
    <3>3. Closed(file[n + 1]).end = StartOf(file, n + 1) + Body + 1
      BY <1>1, <2>1, <3>2 DEF LinesInv
    <3>4. Closed(l).end = l.end + 1
      BY <3>1 DEF Closed, LineOf
    <3>. QED
      BY <2>4, <3>1, <3>2, <3>3, <3>4
  <2>. QED
    BY <2>4, <2>5, <2>6 DEF Terminated
<1>5. CASE \E n \in synced .. Len(file) - 1 :
             \E l \in Torn(file[n + 1], EndOf(SubSeq(file, 1, n))) :
               /\ l.end < file[n + 1].end
               /\ l.form = "body" => Valid(file[n + 1])
               /\ g = Append(SubSeq(file, 1, n), l)
  <2>1. PICK n \in synced .. Len(file) - 1 :
             \E l \in Torn(file[n + 1], EndOf(SubSeq(file, 1, n))) :
               /\ l.end < file[n + 1].end
               /\ l.form = "body" => Valid(file[n + 1])
               /\ g = Append(SubSeq(file, 1, n), l)
    BY <1>5
  <2>2. /\ g \in Seq(Line) /\ Len(g) = n + 1
        /\ \A i \in 1 .. n : g[i] = file[i]
        /\ ~Terminated(g[n + 1])
        /\ g[n + 1].seq = file[n + 1].seq /\ g[n + 1].id = file[n + 1].id
        /\ StartOf(file, n + 1) < g[n + 1].end
        /\ Committable(g[n + 1]) =>
             /\ Committable(file[n + 1])
             /\ Closed(g[n + 1]).end = Closed(file[n + 1]).end
    BY <1>4, <2>1
  <2>3. \A i \in 1 .. n + 1 : i = n + 1 \/ i \in 1 .. n
    BY <1>1
  <2>4. n + 1 > synced /\ n + 1 \in synced .. Len(file)
    BY <1>1
  <2>. QED
    BY <2>2, <2>3, <2>4
<1>. QED
  BY <1>3, <1>5 DEF Survivors

\* They keep the layout and the order of the lines.
LEMMA SurvivorsOrdered ==
    ASSUME TypeOK, LinesInv, OrderInv, file' \in Survivors
    PROVE  LinesInv' /\ OrderInv'
<1>1. /\ file' \in Seq(Line) /\ Len(file') \in synced .. Len(file)
      /\ \A i \in 1 .. Len(file') :
           \/ file'[i] = file[i]
           \/ /\ i = Len(file') /\ i > synced /\ ~Terminated(file'[i])
              /\ file'[i].seq = file[i].seq /\ file'[i].id = file[i].id
              /\ StartOf(file, i) < file'[i].end
              /\ Committable(file'[i]) =>
                   /\ Committable(file[i])
                   /\ Closed(file'[i]).end = Closed(file[i]).end
  BY SurvivorLines
<1>2. /\ Len(file) \in Nat /\ Len(file') \in Nat /\ Len(file') <= Len(file)
      /\ DOMAIN file = 1 .. Len(file) /\ DOMAIN file' = 1 .. Len(file')
      /\ \A i \in 1 .. Len(file') : i \in 1 .. Len(file)
      /\ \A i \in 1 .. Len(file) : file[i] \in Line
      /\ \A i \in 1 .. Len(file') : file'[i] \in Line
  BY <1>1 DEF TypeOK
<1>3. ASSUME NEW i \in 1 .. Len(file'), i # Len(file')
      PROVE  file'[i] = file[i]
  BY <1>1, <1>3
<1>4. ASSUME NEW i \in 1 .. Len(file')
      PROVE  StartOf(file', i) = StartOf(file, i)
  <2>1. CASE i = 1
    BY <2>1 DEF StartOf
  <2>2. CASE i # 1
    <3>1. i - 1 \in 1 .. Len(file') /\ i - 1 # Len(file')
      BY <1>2, <2>2
    <3>2. file'[i - 1] = file[i - 1]
      BY <1>3, <3>1
    <3>. QED
      BY <2>2, <3>2 DEF StartOf
  <2>. QED
    BY <2>1, <2>2
<1>5. ASSUME NEW i \in 1 .. Len(file')
      PROVE  /\ StartOf(file', i) < file'[i].end
             /\ Committable(file'[i]) =>
                  Closed(file'[i]).end = StartOf(file', i) + Body + 1
             /\ Committable(file'[i]) => Committable(file[i])
             /\ file'[i].seq = file[i].seq
  BY <1>1, <1>2, <1>4 DEF LinesInv
<1>6. ASSUME NEW i \in 1 .. Len(file'), NEW j \in 1 .. Len(file'), i < j
      PROVE  /\ file'[i].end < file'[j].end /\ Terminated(file'[i])
             /\ Committable(file'[i]) /\ Committable(file'[j])
                  => file'[i].seq < file'[j].seq
  <2>1. i # Len(file') /\ i \in 1 .. Len(file) /\ j \in 1 .. Len(file)
    <3>1. Len(file') \in Nat /\ i \in Nat /\ j \in 1 .. Len(file')
      BY <1>2
    <3>2. i # Len(file')
      BY <1>6, <3>1
    <3>. QED
      BY <1>2, <3>2
  <2>2. file'[i] = file[i] /\ Terminated(file[i]) /\ file[i].end < file[j].end
    BY <1>2, <1>3, <1>6, <2>1 DEF LinesInv
  <2>3. Committable(file[i]) /\ Committable(file[j]) => file[i].seq < file[j].seq
    BY <1>2, <1>6, <2>1 DEF OrderInv
  <2>4. file[i].end <= StartOf(file', j)
    <3>. Len(file) \in Nat
      BY <1>2
    <3>0. i \in Nat /\ j \in Nat /\ 1 <= i /\ j <= Len(file)
      BY <2>1
    <3>1. j - 1 \in 1 .. Len(file) /\ j # 1 /\ i <= j - 1
      BY <3>0, <1>6
    <3>2. StartOf(file', j) = file[j - 1].end
      BY <1>4, <3>1 DEF StartOf
    <3>3. i < j - 1 => file[i].end < file[j - 1].end
      BY <1>2, <2>1, <3>1 DEF LinesInv
    <3>4. file[i] \in Line /\ file[j - 1] \in Line
      BY <1>2, <2>1, <3>1
    <3>5. i = j - 1 \/ i < j - 1
      BY <3>0, <3>1
    <3>. QED
      BY <3>2, <3>3, <3>4, <3>5 DEF Line
  <2>5. StartOf(file', j) < file'[j].end
    BY <1>5
  <2>6. file[i].end \in Nat /\ StartOf(file', j) \in Nat /\ file'[j].end \in Nat
    <3>1. Len(file) \in Nat
      BY <1>2
    <3>2. j \in 1 .. Len(file) + 1
      BY <2>1, <3>1
    <3>. QED
      BY <1>2, <1>4, <3>2, <2>1, <3>1, StartsAreNumbers DEF Line, TypeOK
  <2>7. file'[i].end < file'[j].end
    BY <2>2, <2>4, <2>5, <2>6
  <2>. QED
    BY <1>5, <2>2, <2>3, <2>7
<1>7. LinesInv'
  BY <1>2, <1>5, <1>6 DEF LinesInv
<1>8. OrderInv'
  BY <1>2, <1>6 DEF OrderInv
<1>. QED
  BY <1>7, <1>8

\* An allocator state that covered the file covers what is left of it.
LEMMA SurvivorsCovered ==
    ASSUME TypeOK, LinesInv, file' \in Survivors, NEW a, Covers(a)
    PROVE  Covers(a)'
<1>1. Len(file') \in synced .. Len(file) /\ file' \in Seq(Line) /\ file \in Seq(Line)
      /\ synced \in Nat /\ Len(file) \in Nat
  BY SurvivorLines DEF TypeOK
<1>2. DOMAIN file' = 1 .. Len(file') /\ \A i \in 1 .. Len(file') : i \in DOMAIN file
  BY <1>1
<1>3. \A i \in 1 .. Len(file') : Committable(file'[i]) =>
        /\ Committable(file[i]) /\ file'[i].seq = file[i].seq
        /\ Closed(file'[i]).end = Closed(file[i]).end
  BY SurvivorLines
<1>. QED
  BY <1>2, <1>3 DEF Covers

-----------------------------------------------------------------------------
(* Numbers. *)

\* The number a writer reserves exceeds those of all records, and the
\* reservation covers the file it is made for.
LEMMA NumberIsFresh ==
    ASSUME TypeOK, LinesInv, AllocatorInv, IsClosed,
           NEW m \in Known, \A n \in Known : n <= m
    PROVE  /\ m \in Nat /\ Reservation(m) \in Allocator
           /\ \A i \in DOMAIN file : Committable(file[i]) => file[i].seq <= m
           /\ Covers(Reservation(m))
<1>1. /\ DOMAIN file = 1 .. Len(file) /\ Len(file) \in Nat
      /\ \A i \in DOMAIN file : file[i] \in Line
      /\ EndOf(file) \in Nat /\ Body \in Nat
  BY EndOfFile, LogAssumption DEF TypeOK
<1>2. \A i \in DOMAIN file : Committable(file[i]) =>
        Valid(file[i]) /\ Closed(file[i]) = file[i] /\ file[i].end <= EndOf(file)
  <2>. SUFFICES ASSUME NEW i \in DOMAIN file, Committable(file[i])
                PROVE  Valid(file[i]) /\ Closed(file[i]) = file[i]
                         /\ file[i].end <= EndOf(file)
    OBVIOUS
  <2>1. Terminated(file[i])
    <3>1. CASE i = Len(file)
      BY <1>1, <3>1 DEF IsClosed
    <3>2. CASE i # Len(file)
      <4>1. Len(file) \in DOMAIN file /\ i < Len(file)
        BY <1>1, <3>2
      <4>. QED
        BY <4>1 DEF LinesInv
    <3>. QED
      BY <3>1, <3>2
  <2>. QED
    BY <2>1, EndOfFile DEF Terminated, Committable, Valid, Closed
<1>3. m \in Nat /\ \A i \in DOMAIN file : Valid(file[i]) => file[i].seq <= m
  <2>1. CASE alloc = NoAllocator
    <3>1. Known = Scanned
      BY <2>1 DEF Known
    <3>. QED
      BY <3>1, ScannedNumbers
  <2>2. CASE alloc # NoAllocator /\ alloc.len # EndOf(file)
    <3>1. Known = Scanned \cup {alloc.seq} /\ alloc \in Allocator
      BY <2>2 DEF Known, TypeOK
    <3>2. alloc.seq \in Nat
      BY <3>1 DEF Allocator
    <3>. QED
      BY <3>1, <3>2, ScannedNumbers
  <2>3. CASE alloc # NoAllocator /\ alloc.len = EndOf(file)
    <3>1. Known = {alloc.seq} /\ alloc \in Allocator /\ Covers(alloc)
      BY <2>3 DEF Known, TypeOK, AllocatorInv
    <3>2. m = alloc.seq /\ m \in Nat
      BY <3>1 DEF Allocator
    <3>3. \A i \in DOMAIN file : Valid(file[i]) => Committable(file[i])
      BY DEF Valid, Committable
    <3>. QED
      BY <1>2, <2>3, <3>1, <3>2, <3>3 DEF Covers
  <2>. QED
    BY <2>1, <2>2, <2>3
<1>4. Reservation(m) \in Allocator /\ Reservation(m).seq = m + 1
  BY <1>1, <1>3 DEF Reservation, Allocator
<1>5. Covers(Reservation(m))
  <2>1. \A i \in DOMAIN file : file[i].seq \in Nat
    BY <1>1 DEF Line
  <2>. QED
    BY <1>2, <1>3, <1>4, <2>1 DEF Covers
<1>. QED
  BY <1>2, <1>3, <1>4, <1>5

-----------------------------------------------------------------------------
(* Readers. *)

\* A reader's position survives a change of the file that keeps the closed
\* lines and makes visible only records with higher numbers, further on.
LEMMA ReadersUndisturbed ==
    ASSUME TypeOK, CursorInv, ReadersMissNothing, UNCHANGED readers,
           \A i \in DOMAIN file : Terminated(file[i]) =>
              i \in DOMAIN file' /\ file'[i] = file[i],
           \A i \in DOMAIN file' : Valid(file'[i]) =>
              \/ i \in DOMAIN file /\ file'[i] = file[i]
              \/ /\ file'[i].seq \in Nat /\ file'[i].end \in Nat
                 /\ 0 < file'[i].end
                 /\ \A n \in Scanned : n < file'[i].seq
                 /\ \A j \in DOMAIN file : Terminated(file[j]) =>
                      file[j].end < file'[i].end
    PROVE  CursorInv' /\ ReadersMissNothing'
<1>1. \A i \in DOMAIN file : Valid(file[i]) => Terminated(file[i])
  BY DEF Valid, Terminated
<1>2. \A n \in Scanned : n \in Scanned'
  BY <1>1 DEF Scanned
<1>. SUFFICES ASSUME NEW r \in Reader
              PROVE  /\ (cursor'[r].off = 0 \/ \E i \in DOMAIN file' :
                           Terminated(file'[i]) /\ file'[i].end = cursor'[r].off)
                     /\ (r \notin ByteReader => cursor'[r].off = 0)
                     /\ cursor'[r].seq \in Scanned'
                     /\ (r \in ByteReader => \A i \in DOMAIN file' : Valid(file'[i]) =>
                           (file'[i].end <= cursor'[r].off
                              <=> file'[i].seq <= cursor'[r].seq))
                     /\ delivered'[r] =
                          {Record(file'[i]) : i \in {j \in DOMAIN file' :
                             /\ Valid(file'[j])
                             /\ IF r \in ByteReader
                                  THEN file'[j].end <= cursor'[r].off
                                  ELSE file'[j].seq <= cursor'[r].seq}}
  BY DEF CursorInv, ReadersMissNothing
<1>3. cursor' = cursor /\ delivered' = delivered
  BY DEF readers
<1>4. /\ cursor[r].off \in Nat /\ cursor[r].seq \in Nat
  BY DEF TypeOK
<1>5. cursor[r].seq \in Scanned
  BY DEF CursorInv
<1>6. ASSUME NEW i \in DOMAIN file', Valid(file'[i]),
             ~(i \in DOMAIN file /\ file'[i] = file[i])
      PROVE  ~(file'[i].end <= cursor[r].off) /\ ~(file'[i].seq <= cursor[r].seq)
  <2>1. /\ file'[i].seq \in Nat /\ file'[i].end \in Nat /\ 0 < file'[i].end
        /\ cursor[r].seq < file'[i].seq
        /\ \A j \in DOMAIN file : Terminated(file[j]) => file[j].end < file'[i].end
    BY <1>5, <1>6
  <2>2. cursor[r].off < file'[i].end
    BY <2>1 DEF CursorInv
  <2>. QED
    BY <1>4, <2>1, <2>2
<1>7. cursor[r].off = 0 \/ \E i \in DOMAIN file' :
         Terminated(file'[i]) /\ file'[i].end = cursor[r].off
  BY DEF CursorInv
<1>8. r \in ByteReader => \A i \in DOMAIN file' : Valid(file'[i]) =>
        (file'[i].end <= cursor[r].off <=> file'[i].seq <= cursor[r].seq)
  BY <1>6 DEF CursorInv
<1>9. {i \in DOMAIN file' : /\ Valid(file'[i])
                            /\ IF r \in ByteReader THEN file'[i].end <= cursor[r].off
                                                   ELSE file'[i].seq <= cursor[r].seq}
        = {i \in DOMAIN file : /\ Valid(file[i])
                               /\ IF r \in ByteReader THEN file[i].end <= cursor[r].off
                                                      ELSE file[i].seq <= cursor[r].seq}
  BY <1>1, <1>6
<1>10. delivered[r] =
         {Record(file'[i]) : i \in {j \in DOMAIN file' :
            /\ Valid(file'[j])
            /\ IF r \in ByteReader THEN file'[j].end <= cursor[r].off
                                   ELSE file'[j].seq <= cursor[r].seq}}
  <2>1. delivered[r] =
         {Record(file[i]) : i \in {j \in DOMAIN file :
            /\ Valid(file[j])
            /\ IF r \in ByteReader THEN file[j].end <= cursor[r].off
                                   ELSE file[j].seq <= cursor[r].seq}}
    BY DEF ReadersMissNothing
  <2>2. \A i \in DOMAIN file : Valid(file[i]) => file'[i] = file[i]
    BY <1>1
  <2>. QED
    BY <1>9, <2>1, <2>2
<1>. QED
  BY <1>2, <1>3, <1>5, <1>7, <1>8, <1>10 DEF CursorInv

\* The lines of a page: numbers increase along the file, so none is skipped.
LEMMA PageLines ==
    ASSUME TypeOK, OrderInv, NEW c, NEW n \in 0 .. Len(file)
    PROVE  Page(c, n) = {i \in 1 .. n : /\ Valid(file[i]) /\ file[i].end > c.off
                                        /\ file[i].seq > c.seq}
<1>1. Len(file) \in Nat /\ DOMAIN file = 1 .. Len(file)
  BY DEF TypeOK
<1>2. \A i \in 1 .. n : i \in DOMAIN file /\ \A j \in 1 .. i - 1 : j \in DOMAIN file /\ j < i
  BY <1>1
<1>3. \A i \in 1 .. n, j \in 1 .. Len(file) :
        j < i /\ Valid(file[i]) /\ Valid(file[j]) => file[j].seq < file[i].seq
  BY <1>1, <1>2 DEF OrderInv, Valid, Committable
<1>. QED
  BY <1>1, <1>2, <1>3 DEF Page, Accepted

\* One page: the reader gets what lies between its old and its new cursor.
LEMMA PageKeepsReaders ==
    ASSUME TypeOK, LinesInv, OrderInv, CursorInv, ReadersMissNothing,
           NEW r \in Reader, ReadPage(r)
    PROVE  TypeOK' /\ CursorInv' /\ ReadersMissNothing'
<1>. DEFINE c == cursor[r]
<1>1. PICK n \in 0 .. Len(file), s \in {c.seq} \cup Scanned :
         /\ PageEnds(c, n)
         /\ s = c.seq \/ \E i \in Page(c, n) : s = file[i].seq
         /\ c.seq <= s /\ \A i \in Page(c, n) : file[i].seq <= s
         /\ delivered' = [delivered EXCEPT
                            ![r] = @ \cup {Record(file[i]) : i \in Page(c, n)}]
         /\ cursor' = [cursor EXCEPT
                         ![r] = [seq |-> s,
                                 off |-> IF r \in ByteReader /\ n # 0
                                           THEN file[n].end ELSE c.off]]
  BY DEF ReadPage
<1>2. UNCHANGED <<file, alloc, append, synced, onDisk, name, acked, appends, losses>>
  BY DEF ReadPage, log
<1>3. /\ Len(file) \in Nat /\ DOMAIN file = 1 .. Len(file) /\ n \in Nat /\ n <= Len(file)
      /\ \A i \in 1 .. Len(file) : /\ file[i] \in Line /\ file[i].end \in Nat
                                   /\ file[i].seq \in Nat /\ file[i].seq > 0
  <2>1. /\ Len(file) \in Nat /\ DOMAIN file = 1 .. Len(file)
        /\ \A i \in 1 .. Len(file) : file[i] \in Line
    BY DEF TypeOK
  <2>2. n \in Nat /\ n <= Len(file)
    BY <2>1
  <2>. QED
    BY <2>1, <2>2 DEF Line
<1>4. c.off \in Nat /\ c.seq \in Nat /\ s \in Nat /\ s \in Scanned
  BY <1>1, ScannedNumbers DEF TypeOK, CursorInv
<1>5. Page(c, n) = {i \in 1 .. n : /\ Valid(file[i]) /\ file[i].end > c.off
                                   /\ file[i].seq > c.seq}
  BY PageLines, <1>1
<1>. DEFINE off == IF r \in ByteReader /\ n # 0 THEN file[n].end ELSE c.off
<1>6. off \in Nat
  BY <1>3, <1>4
<1>7. cursor' \in [Reader -> [seq : Nat, off : Nat]]
  BY <1>1, <1>4, <1>6 DEF TypeOK
<1>8. delivered' \in [Reader -> SUBSET [seq : Nat, id : Event]]
  <2>1. \A i \in 1 .. Len(file) : Record(file[i]) \in [seq : Nat, id : Event]
    BY <1>3 DEF Record, Line
  <2>2. \A i \in Page(c, n) : i \in 1 .. Len(file)
    BY <1>3, <1>5
  <2>3. {Record(file[i]) : i \in Page(c, n)} \subseteq [seq : Nat, id : Event]
    BY <2>1, <2>2
  <2>. QED
    BY <1>1, <2>3 DEF TypeOK
<1>9. TypeOK'
  BY <1>2, <1>7, <1>8 DEF TypeOK
<1>10. cursor'[r].seq = s /\ cursor'[r].off = off
       /\ delivered'[r] = delivered[r] \cup {Record(file[i]) : i \in Page(c, n)}
  BY <1>1 DEF TypeOK
<1>11. \A q \in Reader : q # r => cursor'[q] = cursor[q] /\ delivered'[q] = delivered[q]
  BY <1>1 DEF TypeOK
<1>12. \A i, j \in 1 .. Len(file) : /\ i < j => file[i].end < file[j].end
                                    /\ i < j /\ Valid(file[i]) /\ Valid(file[j])
                                         => file[i].seq < file[j].seq
  BY <1>3 DEF LinesInv, OrderInv, Valid, Committable
\* A record with a number up to s lies behind the cursor or on the page.
<1>13. \A i \in 1 .. Len(file) : Valid(file[i]) /\ file[i].seq <= s =>
         file[i].seq <= c.seq \/ i <= n
  <2>. SUFFICES ASSUME NEW i \in 1 .. Len(file), Valid(file[i]), file[i].seq <= s,
                       ~(file[i].seq <= c.seq)
                PROVE  i <= n
    OBVIOUS
  <2>1. PICK q \in Page(c, n) : s = file[q].seq
    BY <1>1
  <2>2. q \in 1 .. n /\ q \in 1 .. Len(file) /\ Valid(file[q])
    BY <1>3, <1>5
  <2>3. ~(q < i)
    BY <1>3, <1>12, <2>1, <2>2
  <2>. QED
    BY <1>3, <2>2, <2>3
<1>14. CASE r \notin ByteReader
  <2>1. c.off = 0 /\ off = 0
    BY <1>14 DEF CursorInv
  <2>2. \A i \in 1 .. Len(file) : file[i].end > c.off
    <3>1. \A i \in 1 .. Len(file) : StartOf(file, i) \in Nat
      BY <1>3, StartsAreNumbers DEF TypeOK
    <3>. QED
      BY <1>3, <2>1, <3>1 DEF LinesInv
  <2>3. delivered[r] = {Record(file[i]) : i \in {j \in DOMAIN file :
                          Valid(file[j]) /\ file[j].seq <= c.seq}}
    BY <1>14 DEF ReadersMissNothing
  <2>4. {j \in DOMAIN file : Valid(file[j]) /\ file[j].seq <= c.seq} \cup Page(c, n)
          = {j \in DOMAIN file : Valid(file[j]) /\ file[j].seq <= s}
    <3>1. ASSUME NEW i \in 1 .. Len(file), Valid(file[i])
          PROVE  file[i].seq <= c.seq \/ i \in Page(c, n) <=> file[i].seq <= s
      <4>1. i \in Page(c, n) <=> i <= n /\ ~(file[i].seq <= c.seq)
        BY <1>3, <1>4, <1>5, <2>2, <3>1
      <4>2. file[i].seq <= c.seq => file[i].seq <= s
        BY <1>1, <1>3, <1>4
      <4>3. i \in Page(c, n) => file[i].seq <= s
        BY <1>1
      <4>. QED
        BY <1>13, <3>1, <4>1, <4>2, <4>3
    <3>2. \A i \in Page(c, n) : i \in 1 .. Len(file) /\ Valid(file[i])
      BY <1>3, <1>5
    <3>. QED
      BY <1>3, <3>1, <3>2
  <2>5. delivered'[r] = {Record(file[i]) : i \in {j \in DOMAIN file :
                           Valid(file[j]) /\ file[j].seq <= s}}
    BY <1>10, <2>3, <2>4
  <2>6. ReadersMissNothing'
    BY <1>2, <1>10, <1>11, <1>14, <2>5 DEF ReadersMissNothing
  <2>7. CursorInv'
    BY <1>2, <1>4, <1>10, <1>11, <1>14, <2>1 DEF CursorInv, Scanned
  <2>. QED
    BY <1>9, <2>6, <2>7
<1>15. CASE r \in ByteReader /\ n = 0
  <2>1. Page(c, n) = {} /\ off = c.off
    BY <1>5, <1>15
  <2>2. s = c.seq
    BY <1>1, <2>1
  <2>3. cursor' = cursor /\ delivered' = delivered
    BY <1>1, <2>1, <2>2, <1>15 DEF TypeOK
  <2>. QED
    BY <1>2, <1>9, <2>3 DEF CursorInv, ReadersMissNothing, Scanned
<1>16. CASE r \in ByteReader /\ n # 0
  <2>1. n \in 1 .. Len(file) /\ Terminated(file[n]) /\ file[n].end >= c.off
        /\ off = file[n].end
    BY <1>1, <1>3, <1>16 DEF PageEnds, Readable
  <2>2. ASSUME NEW i \in 1 .. Len(file), Valid(file[i])
        PROVE  /\ file[i].end <= off <=> i <= n
               /\ file[i].end <= c.off <=> file[i].seq <= c.seq
               /\ file[i].end <= c.off => i <= n
    <3>1. file[i].end <= file[n].end <=> i <= n
      BY <1>3, <1>12, <2>1
    <3>. QED
      BY <1>3, <1>4, <1>16, <2>1, <2>2, <3>1 DEF CursorInv
  <2>3. ASSUME NEW i \in 1 .. Len(file), Valid(file[i])
        PROVE  /\ i \in Page(c, n) <=> i <= n /\ ~(file[i].seq <= c.seq)
               /\ i <= n <=> file[i].seq <= s
    <3>1. i \in Page(c, n) <=> i <= n /\ ~(file[i].seq <= c.seq)
      BY <1>3, <1>4, <1>5, <2>2, <2>3
    <3>2. i <= n => file[i].seq <= s
      BY <1>1, <1>3, <1>4, <3>1
    <3>3. file[i].seq <= s => i <= n
      BY <1>13, <2>2, <2>3
    <3>. QED
      BY <3>1, <3>2, <3>3
  <2>4. delivered[r] = {Record(file[i]) : i \in {j \in DOMAIN file :
                          Valid(file[j]) /\ file[j].end <= c.off}}
    BY <1>16 DEF ReadersMissNothing
  <2>5. {j \in DOMAIN file : Valid(file[j]) /\ file[j].end <= c.off} \cup Page(c, n)
          = {j \in DOMAIN file : Valid(file[j]) /\ file[j].end <= off}
    <3>1. \A i \in Page(c, n) : i \in 1 .. Len(file) /\ Valid(file[i])
      BY <1>3, <1>5
    <3>. QED
      BY <1>3, <2>2, <2>3, <3>1
  <2>6. delivered'[r] = {Record(file[i]) : i \in {j \in DOMAIN file :
                           Valid(file[j]) /\ file[j].end <= off}}
    BY <1>10, <2>4, <2>5
  <2>7. ReadersMissNothing'
    BY <1>2, <1>10, <1>11, <1>16, <2>6 DEF ReadersMissNothing
  <2>8. \A i \in DOMAIN file : Valid(file[i]) => (file[i].end <= off <=> file[i].seq <= s)
    BY <1>3, <2>2, <2>3
  <2>9. CursorInv'
    <3>1. file' = file /\ Scanned' = Scanned
      BY <1>2 DEF Scanned
    <3>2. \E i \in DOMAIN file : Terminated(file[i]) /\ file[i].end = off
      BY <1>3, <2>1
    <3>3. ASSUME NEW q \in Reader
          PROVE  /\ (cursor'[q].off = 0 \/ \E i \in DOMAIN file :
                       Terminated(file[i]) /\ file[i].end = cursor'[q].off)
                 /\ (q \notin ByteReader => cursor'[q].off = 0)
                 /\ cursor'[q].seq \in Scanned
                 /\ (q \in ByteReader => \A i \in DOMAIN file : Valid(file[i]) =>
                       (file[i].end <= cursor'[q].off
                          <=> file[i].seq <= cursor'[q].seq))
      <4>1. CASE q = r
        BY <1>4, <1>10, <1>16, <2>8, <3>2, <4>1
      <4>2. CASE q # r
        BY <1>11, <4>2 DEF CursorInv
      <4>. QED
        BY <4>1, <4>2
    <3>. QED
      BY <3>1, <3>3 DEF CursorInv
  <2>. QED
    BY <1>9, <2>7, <2>9
<1>. QED
  BY <1>14, <1>15, <1>16

-----------------------------------------------------------------------------
(* Steps.  A durable log: what is said of the allocator on disk holds only   *)
(* because every reservation is synced before its line is written.          *)

\* What does not change with the file, the allocator and the readers.
LEMMA UnchangedParts ==
    ASSUME IInv
    PROVE  /\ UNCHANGED file => LinesInv' /\ OrderInv'
           /\ UNCHANGED <<file, alloc, onDisk>> => AllocatorInv'
           /\ UNCHANGED <<file, synced, name, acked>> => AckedInv'
           /\ UNCHANGED <<file, readers>> => CursorInv' /\ ReadersMissNothing'
<1>1. UNCHANGED file => LinesInv' /\ OrderInv'
  BY DEF IInv, LinesInv, OrderInv
<1>2. UNCHANGED <<file, alloc, onDisk>> => AllocatorInv'
  BY DEF IInv, AllocatorInv, Covers
<1>3. UNCHANGED <<file, synced, name, acked>> => AckedInv'
  BY DEF IInv, AckedInv
<1>4. UNCHANGED <<file, readers>> => CursorInv' /\ ReadersMissNothing'
  BY DEF IInv, CursorInv, ReadersMissNothing, Scanned, readers
<1>. QED
  BY <1>1, <1>2, <1>3, <1>4

\* Taking the lock changes nothing but the append in progress.
LEMMA BeginAppendStep ==
    ASSUME IInv, NEW e \in Event, NEW d \in Durability, BeginAppend(e, d)
    PROVE  IInv'
<1>1. append' = [pc |-> "locked", id |-> e, durability |-> d, seq |-> 0,
                 created |-> name = "absent"]
      /\ name' = (IF name = "absent" THEN "cached" ELSE name)
      /\ appends' = appends + 1 /\ appends < MaxAppends
      /\ UNCHANGED <<file, alloc, synced, onDisk, acked, readers, losses>>
  BY DEF BeginAppend
<1>2. append' \in Call /\ append'.pc = "locked"
  BY <1>1 DEF Call
<1>3. TypeOK'
  BY <1>1, <1>2, LogAssumption DEF IInv, TypeOK, readers
<1>4. AppendInv'
  BY <1>2 DEF AppendInv, At
<1>5. AckedInv'
  BY <1>1 DEF IInv, AckedInv
<1>. QED
  BY <1>1, <1>3, <1>4, <1>5, UnchangedParts DEF IInv, readers

\* An interrupted append leaves file and lock file as they are.
LEMMA InterruptStep ==
    ASSUME IInv, Interrupt
    PROVE  IInv'
<1>1. append' = NoAppend
      /\ UNCHANGED <<file, alloc, synced, onDisk, name, acked, readers, appends, losses>>
  BY DEF Interrupt, Return, readers
<1>2. TypeOK'
  BY <1>1 DEF IInv, TypeOK, readers
<1>3. AppendInv'
  BY <1>1 DEF AppendInv, At
<1>. QED
  BY <1>1, <1>2, <1>3, UnchangedParts DEF IInv, readers

\* Reading a page changes only the reader.
LEMMA ReadPageStep ==
    ASSUME IInv, NEW r \in Reader, ReadPage(r)
    PROVE  IInv'
<1>1. UNCHANGED <<file, alloc, append, synced, onDisk, name, acked>>
  BY DEF ReadPage, log
<1>2. TypeOK' /\ CursorInv' /\ ReadersMissNothing'
  BY PageKeepsReaders DEF IInv
<1>3. AppendInv'
  BY <1>1 DEF IInv, AppendInv, At, IsClosed
<1>. QED
  BY <1>1, <1>2, <1>3, UnchangedParts DEF IInv

\* The record acknowledged is the last line, and it is synced.
LEMMA FinishAppendStep ==
    ASSUME IInv, Durability = {"durable"}, FinishAppend
    PROVE  IInv'
<1>1. /\ append # NoAppend /\ append.pc = "written" /\ append' = NoAppend
      /\ UNCHANGED <<file, alloc, onDisk, readers, appends, losses>>
      /\ acked' = acked \cup {[seq |-> append.seq, id |-> append.id,
                               durability |-> append.durability]}
      /\ synced' = (IF IsDurable THEN Len(file) ELSE synced)
      /\ name' = IF IsDurable /\ (append.created \/ NameWithData)
                   THEN "durable" ELSE name
  BY DEF FinishAppend, At, Return, readers
<1>2. append \in Call /\ append.durability = "durable" /\ append.seq \in Nat
        /\ append.id \in Event
  BY <1>1 DEF IInv, TypeOK, Call
<1>3. synced' = Len(file) /\ Len(file) \in Nat /\ file \in Seq(Line)
        /\ synced \in 0 .. Len(file)
  BY <1>1, <1>2 DEF IsDurable, IInv, TypeOK
<1>4. acked' \subseteq [seq : Nat, id : Event, durability : Durability]
  BY <1>1, <1>2 DEF IInv, TypeOK
<1>5. TypeOK'
  BY <1>1, <1>3, <1>4 DEF IInv, TypeOK, readers
<1>6. AppendInv'
  BY <1>1 DEF AppendInv, At
<1>7. AckedInv'
  <2>1. /\ file # <<>> /\ Valid(file[Len(file)])
        /\ Record(file[Len(file)]) = [seq |-> append.seq, id |-> append.id]
    BY <1>1 DEF IInv, AppendInv, At
  <2>2. Len(file) \in 1 .. synced' /\ \A i \in 1 .. synced : i \in 1 .. synced'
    BY <1>3, <2>1
  <2>. SUFFICES ASSUME NameWithData, NEW a \in acked'
                PROVE  \E i \in 1 .. synced' : /\ Valid(file[i])
                         /\ Record(file[i]) = [seq |-> a.seq, id |-> a.id]
    BY <1>1, <1>2 DEF AckedInv, IsDurable
  <2>3. CASE a \in acked
    BY <2>2, <2>3 DEF IInv, AckedInv
  <2>4. CASE a = [seq |-> append.seq, id |-> append.id,
                  durability |-> append.durability]
    BY <2>1, <2>2, <2>4
  <2>. QED
    BY <1>1, <2>3, <2>4
<1>. QED
  BY <1>1, <1>5, <1>6, <1>7, UnchangedParts DEF IInv, readers

\* Repairing the tail makes at most one record visible, the last, and it was
\* accounted for before.
LEMMA TailClosed ==
    ASSUME IInv, Ragged, NEW k \in {Len(file), SparedBefore}, CloseTail(k),
           UNCHANGED <<alloc, onDisk, name, acked, readers>>
    PROVE  /\ file' \in Seq(Line) /\ IsClosed' /\ synced' \in 0 .. Len(file')
           /\ LinesInv' /\ OrderInv' /\ AllocatorInv' /\ AckedInv'
           /\ CursorInv' /\ ReadersMissNothing'
<1>1. TypeOK /\ LinesInv /\ OrderInv /\ AllocatorInv /\ AckedInv /\ CursorInv
        /\ ReadersMissNothing
  BY DEF IInv
<1>2. /\ Len(file) \in Nat /\ DOMAIN file = 1 .. Len(file) /\ synced \in 0 .. Len(file)
      /\ file \in Seq(Line) /\ \A i \in 1 .. Len(file) : file[i] \in Line
  BY <1>1 DEF TypeOK
<1>3. file # <<>> /\ ~Terminated(file[Len(file)])
  BY DEF Ragged
<1>4. file' = [file EXCEPT ![Len(file)] = Closed(file[Len(file)])]
        /\ synced' = k
  BY DEF CloseTail
<1>5. /\ file' \in Seq(Line) /\ Len(file') = Len(file)
      /\ \A i \in 1 .. Len(file) :
           file'[i] = IF i = Len(file) THEN Closed(file[i]) ELSE file[i]
  BY <1>2, <1>3, <1>4, CloseLast
<1>6. /\ LinesInv' /\ OrderInv'
      /\ \A i \in DOMAIN file : i \in DOMAIN file' /\ file'[i] = Closed(file[i])
  BY <1>1, <1>3, <1>5, LastClosed
<1>7. DOMAIN file' = DOMAIN file /\ Len(file) \in DOMAIN file
  <2>1. Len(file) # 0
    BY <1>2, <1>3
  <2>2. DOMAIN file' = 1 .. Len(file)
    BY <1>5
  <2>. QED
    BY <1>2, <2>1, <2>2
<1>8. k \in 0 .. Len(file) /\ \A i \in 1 .. synced : i # Len(file) => i \in 1 .. k
  <2>1. Len(file) # 0
    BY <1>2, <1>3
  <2>2. Len(file) \in Nat /\ synced \in Nat /\ synced <= Len(file)
    BY <1>2
  <2>3. CASE k = Len(file)
    BY <2>2, <2>3
  <2>4. CASE k = SparedBefore
    <3>1. k = synced \/ (synced = Len(file) /\ k = synced - 1)
      BY <2>4 DEF SparedBefore
    <3>. QED
      BY <2>1, <2>2, <3>1
  <2>. QED
    BY <2>3, <2>4
<1>9. \A i \in DOMAIN file :
        /\ Closed(file[i]).seq = file[i].seq /\ Terminated(Closed(file[i]))
        /\ Committable(Closed(file[i])) <=> Committable(file[i])
        /\ Closed(Closed(file[i])) = Closed(file[i])
  BY <1>2, ClosedLine
<1>10. IsClosed'
  BY <1>5, <1>6, <1>7, <1>9 DEF IsClosed
<1>11. AllocatorInv'
  <2>1. ASSUME NEW a, Covers(a) PROVE Covers(a)'
    BY <1>6, <1>7, <1>9, <2>1 DEF Covers
  <2>. QED
    BY <1>1, <2>1 DEF AllocatorInv
<1>12. \A i \in DOMAIN file : Terminated(file[i]) => file'[i] = file[i]
  BY <1>6 DEF Closed, Terminated
<1>13. AckedInv'
  <2>1. \A i \in 1 .. synced : i \in DOMAIN file
    BY <1>2
  <2>2. \A i \in DOMAIN file : Valid(file[i]) => Terminated(file[i])
    BY DEF Valid, Terminated
  <2>3. \A i \in 1 .. synced : Valid(file[i]) =>
          i \in 1 .. synced' /\ file'[i] = file[i]
    BY <1>3, <1>4, <1>8, <1>12, <2>1, <2>2
  <2>. QED
    BY <1>1, <2>3 DEF AckedInv
<1>14. ASSUME NEW i \in DOMAIN file', Valid(file'[i]),
              ~(i \in DOMAIN file /\ file'[i] = file[i])
       PROVE  /\ file'[i].seq \in Nat /\ file'[i].end \in Nat /\ 0 < file'[i].end
              /\ \A n \in Scanned : n < file'[i].seq
              /\ \A j \in DOMAIN file : Terminated(file[j]) =>
                   file[j].end < file'[i].end
  <2>1. i = Len(file) /\ file'[i] = Closed(file[i]) /\ i \in DOMAIN file
    BY <1>2, <1>5, <1>7, <1>14
  <2>2. file[i] \in Line /\ file'[i] \in Line /\ file'[i].seq = file[i].seq
          /\ file'[i].end >= file[i].end
    BY <1>2, <2>1, ClosedLine
  <2>3. Committable(file[i])
    BY <1>9, <1>14, <2>1 DEF Valid, Committable
  <2>4. StartOf(file, i) \in Nat /\ StartOf(file, i) < file[i].end
    BY <1>1, <1>2, <2>1, StartsAreNumbers DEF LinesInv
  <2>5. file'[i].seq \in Nat /\ file'[i].end \in Nat /\ 0 < file'[i].end
          /\ 0 < file'[i].seq
    BY <2>2, <2>4 DEF Line
  <2>6. ASSUME NEW j \in DOMAIN file, Terminated(file[j])
        PROVE  file[j].end < file'[i].end /\ j < i
    <3>1. j # i /\ j < i
      BY <1>2, <1>3, <2>1, <2>6
    <3>2. file[j].end < file[i].end /\ file[j] \in Line
      BY <1>1, <1>2, <2>1, <3>1 DEF LinesInv
    <3>3. file[j].end \in Nat /\ file[i].end \in Nat /\ file'[i].end \in Nat
      BY <2>2, <3>2 DEF Line
    <3>4. file[j].end < file'[i].end
      BY <2>2, <3>2, <3>3
    <3>. QED
      BY <3>1, <3>4
  <2>7. \A j \in DOMAIN file : Valid(file[j]) => file[j].seq < file'[i].seq
    <3>1. \A j \in DOMAIN file : Valid(file[j]) => Terminated(file[j]) /\ Committable(file[j])
      BY DEF Valid, Terminated, Committable
    <3>. QED
      BY <1>1, <2>1, <2>2, <2>3, <2>6, <3>1 DEF OrderInv
  <2>8. \A n \in Scanned : n < file'[i].seq
    BY <2>5, <2>7 DEF Scanned
  <2>. QED
    BY <2>5, <2>6, <2>8
<1>15. CursorInv' /\ ReadersMissNothing'
  BY <1>1, <1>7, <1>12, <1>14, ReadersUndisturbed
<1>. QED
  BY <1>4, <1>5, <1>6, <1>8, <1>10, <1>11, <1>13, <1>15

\* A durable repair is synced before anything else is written.
LEMMA EnsureLineBoundaryStep ==
    ASSUME IInv, Durability = {"durable"}, EnsureLineBoundary
    PROVE  IInv'
<1>1. /\ append # NoAppend /\ append.pc = "locked"
      /\ append' = [append EXCEPT !.pc = "aligned"]
      /\ UNCHANGED <<alloc, onDisk, name, acked, readers, appends, losses>>
  BY DEF EnsureLineBoundary, At, Continue, readers
<1>2. append \in Call /\ append.durability = "durable"
  BY <1>1 DEF IInv, TypeOK, Call
<1>3. append' \in Call /\ append'.pc = "aligned"
  BY <1>1, <1>2 DEF Call
<1>4. CASE ~Ragged
  <2>1. UNCHANGED <<file, synced>>
    BY <1>4 DEF EnsureLineBoundary
  <2>2. TypeOK'
    BY <1>1, <1>3, <2>1 DEF IInv, TypeOK, readers
  <2>3. AppendInv'
    BY <1>3, <1>4, <2>1 DEF AppendInv, At, IsClosed, Ragged
  <2>. QED
    BY <1>1, <2>1, <2>2, <2>3, UnchangedParts DEF IInv, readers
<1>5. CASE Ragged
  <2>1. CloseTail(Len(file))
    BY <1>2, <1>5 DEF EnsureLineBoundary, IsDurable
  <2>2. /\ file' \in Seq(Line) /\ IsClosed' /\ synced' \in 0 .. Len(file')
        /\ LinesInv' /\ OrderInv' /\ AllocatorInv' /\ AckedInv'
        /\ CursorInv' /\ ReadersMissNothing'
    BY <1>1, <1>5, <2>1, TailClosed
  <2>3. TypeOK'
    BY <1>1, <1>3, <2>2 DEF IInv, TypeOK, readers
  <2>4. AppendInv'
    BY <1>3, <2>2 DEF AppendInv, At
  <2>. QED
    BY <2>2, <2>3, <2>4 DEF IInv
<1>. QED
  BY <1>4, <1>5

\* A repair that was not synced spares the acknowledged lines all the same:
\* the repaired line is not one of them.
LEMMA TearBoundaryStep ==
    ASSUME IInv, TearBoundary
    PROVE  IInv'
<1>1. /\ append' = NoAppend /\ Ragged /\ CloseTail(SparedBefore)
      /\ UNCHANGED <<alloc, onDisk, name, acked, readers, appends, losses>>
  BY DEF TearBoundary, Return, readers
<1>2. /\ file' \in Seq(Line) /\ IsClosed' /\ synced' \in 0 .. Len(file')
      /\ LinesInv' /\ OrderInv' /\ AllocatorInv' /\ AckedInv'
      /\ CursorInv' /\ ReadersMissNothing'
  BY <1>1, TailClosed
<1>3. TypeOK'
  BY <1>1, <1>2 DEF IInv, TypeOK, readers
<1>4. AppendInv'
  BY <1>1 DEF AppendInv, At
<1>. QED
  BY <1>2, <1>3, <1>4 DEF IInv

\* A reservation, synced, is all a power loss can leave.
LEMMA ReserveSequenceStep ==
    ASSUME IInv, Durability = {"durable"}, ReserveSequence
    PROVE  IInv'
<1>1. /\ append # NoAppend /\ append.pc = "aligned"
      /\ UNCHANGED <<file, synced, name, acked, readers, appends, losses>>
  BY DEF ReserveSequence, At, readers
<1>2. append \in Call /\ append.durability = "durable"
  BY <1>1 DEF IInv, TypeOK, Call
<1>3. PICK m \in Known :
         /\ \A n \in Known : n <= m
         /\ alloc' = Reservation(m)
         /\ append' = [append EXCEPT !.pc = "reserved", !.seq = alloc'.seq]
         /\ onDisk' = {Reservation(m)}
  BY <1>2 DEF ReserveSequence, IsDurable
<1>4. IsClosed
  BY <1>1 DEF IInv, AppendInv, At
<1>5. /\ m \in Nat /\ Reservation(m) \in Allocator
      /\ \A i \in DOMAIN file : Committable(file[i]) => file[i].seq <= m
      /\ Covers(Reservation(m))
  BY <1>3, <1>4, NumberIsFresh DEF IInv
<1>6. append' \in Call /\ append'.pc = "reserved" /\ append'.seq = m + 1
  <2>. DEFINE a == [append EXCEPT !.pc = "reserved"]
  <2>1. a \in Call /\ a.pc = "reserved"
    BY <1>2 DEF Call
  <2>2. append' = [a EXCEPT !.seq = m + 1]
    BY <1>3 DEF Reservation
  <2>. HIDE DEF a
  <2>. QED
    BY <1>5, <2>1, <2>2 DEF Call
<1>7. TypeOK'
  BY <1>1, <1>3, <1>5, <1>6 DEF IInv, TypeOK, readers
<1>8. AllocatorInv'
  BY <1>1, <1>3, <1>5 DEF AllocatorInv, Covers
<1>9. AppendInv'
  <2>1. \A i \in DOMAIN file : Committable(file[i]) => file[i].seq < m + 1
    <3>1. \A i \in DOMAIN file : file[i] \in Line
      BY DEF IInv, TypeOK
    <3>2. \A i \in DOMAIN file : file[i].seq \in Nat
      BY <3>1 DEF Line
    <3>. QED
      BY <1>5, <3>2
  <2>2. append'.seq # 0 /\ alloc' = [seq |-> append'.seq, len |-> EndOf(file') + Body + 1]
    BY <1>1, <1>3, <1>5, <1>6 DEF Reservation
  <2>3. IsClosed'
    BY <1>1, <1>4 DEF IsClosed
  <2>. QED
    BY <1>1, <1>3, <1>6, <2>1, <2>2, <2>3 DEF AppendInv, At
<1>. QED
  BY <1>1, <1>7, <1>8, <1>9, UnchangedParts DEF IInv, readers

\* A torn lock file does not parse, or it holds the reservation: either is
\* safe to start from.
LEMMA TearAllocatorStep ==
    ASSUME IInv, TearAllocator
    PROVE  IInv'
<1>1. /\ append # NoAppend /\ append.pc = "aligned" /\ append' = NoAppend
      /\ UNCHANGED <<file, synced, name, acked, readers, appends, losses>>
  BY DEF TearAllocator, Return, At, readers
<1>2. PICK m \in Known :
         /\ \A n \in Known : n <= m
         /\ alloc' \in {NoAllocator, Reservation(m)}
         /\ onDisk' = onDisk \cup {NoAllocator, Reservation(m)}
  BY DEF TearAllocator
<1>3. IsClosed
  BY <1>1 DEF IInv, AppendInv, At
<1>4. Reservation(m) \in Allocator /\ Covers(Reservation(m))
  BY <1>2, <1>3, NumberIsFresh DEF IInv
<1>5. TypeOK'
  BY <1>1, <1>2, <1>4 DEF IInv, TypeOK, readers
<1>6. AllocatorInv'
  BY <1>1, <1>2, <1>4 DEF IInv, AllocatorInv, Covers
<1>7. AppendInv'
  BY <1>1 DEF AppendInv, At
<1>. QED
  BY <1>1, <1>5, <1>6, <1>7, UnchangedParts DEF IInv, readers

\* A line of the reserved number, whole or torn, goes after every other.
LEMMA LineWritten ==
    ASSUME IInv, append # NoAppend, append.pc = "reserved",
           NEW l \in Line, l.seq = append.seq, EndOf(file) < l.end,
           Committable(l) => Closed(l).end = EndOf(file) + Body + 1,
           file' = Append(file, l),
           UNCHANGED <<alloc, synced, onDisk, name, acked, readers>>
    PROVE  /\ file' \in Seq(Line) /\ Len(file') = Len(file) + 1
           /\ file'[Len(file) + 1] = l
           /\ LinesInv' /\ OrderInv' /\ AllocatorInv' /\ AckedInv'
           /\ CursorInv' /\ ReadersMissNothing'
<1>1. /\ IsClosed
      /\ alloc = [seq |-> append.seq, len |-> EndOf(file) + Body + 1]
      /\ onDisk = {alloc}
      /\ \A i \in DOMAIN file : Committable(file[i]) => file[i].seq < append.seq
  BY DEF IInv, AppendInv, At
<1>2. /\ Len(file) \in Nat /\ DOMAIN file = 1 .. Len(file) /\ synced \in 0 .. Len(file)
      /\ file \in Seq(Line) /\ \A i \in 1 .. Len(file) : file[i] \in Line
  BY DEF IInv, TypeOK
<1>3. /\ LinesInv' /\ OrderInv' /\ file' \in Seq(Line)
      /\ Len(file') = Len(file) + 1 /\ file'[Len(file) + 1] = l
      /\ \A i \in DOMAIN file : i \in DOMAIN file' /\ file'[i] = file[i]
  BY <1>1, LineAppended DEF IInv
<1>4. \A i \in DOMAIN file' : i \in DOMAIN file \/ i = Len(file) + 1
  <2>1. DOMAIN file' = 1 .. Len(file) + 1
    BY <1>3
  <2>. QED
    BY <1>2, <2>1
<1>5. l.seq \in Nat /\ l.seq > 0 /\ l.end \in Nat
  BY DEF Line
<1>6. AllocatorInv'
  <2>1. \A i \in DOMAIN file' : Committable(file'[i]) => file'[i].seq <= append.seq
    <3>. TAKE i \in DOMAIN file'
    <3>1. CASE i = Len(file) + 1
      BY <1>3, <1>5, <3>1
    <3>2. CASE i \in DOMAIN file
      <4>1. file[i] \in Line /\ file'[i] = file[i]
        BY <1>2, <1>3, <3>2
      <4>2. file[i].seq \in Nat
        BY <4>1 DEF Line
      <4>. QED
        BY <1>1, <1>5, <3>2, <4>1, <4>2
    <3>. QED
      BY <1>4, <3>1, <3>2
  <2>2. \A a \in (onDisk' \cup {alloc'}) \ {NoAllocator} : a.seq = append.seq
    BY <1>1
  <2>. QED
    BY <2>1, <2>2 DEF AllocatorInv, Covers
<1>7. AckedInv'
  <2>1. \A i \in 1 .. synced : i \in DOMAIN file
    BY <1>2
  <2>. QED
    BY <1>3, <2>1 DEF IInv, AckedInv
<1>8. ASSUME NEW i \in DOMAIN file', Valid(file'[i]),
             ~(i \in DOMAIN file /\ file'[i] = file[i])
      PROVE  /\ file'[i].seq \in Nat /\ file'[i].end \in Nat /\ 0 < file'[i].end
             /\ \A n \in Scanned : n < file'[i].seq
             /\ \A j \in DOMAIN file : Terminated(file[j]) => file[j].end < file'[i].end
  <2>1. file'[i] = l
    BY <1>3, <1>4, <1>8
  <2>2. EndOf(file) \in Nat /\ \A j \in DOMAIN file : file[j].end <= EndOf(file)
    BY EndOfFile DEF IInv
  <2>3. \A j \in DOMAIN file : file[j].end < l.end
    <3>. TAKE j \in DOMAIN file
    <3>1. file[j] \in Line
      BY <1>2
    <3>2. file[j].end \in Nat /\ file[j].end <= EndOf(file)
      BY <2>2, <3>1 DEF Line
    <3>. QED
      BY <1>5, <2>2, <3>2
  <2>4. \A n \in Scanned : n < l.seq
    BY <1>1, <1>5 DEF Scanned, Valid, Committable
  <2>. QED
    BY <1>5, <2>1, <2>2, <2>3, <2>4
<1>9. CursorInv' /\ ReadersMissNothing'
  BY <1>3, <1>8, ReadersUndisturbed DEF IInv
<1>. QED
  BY <1>3, <1>6, <1>7, <1>9

\* The line of a successful write ends where the reservation foresaw.
LEMMA WriteLineStep ==
    ASSUME IInv, WriteLine
    PROVE  IInv'
<1>. DEFINE l == LineOf(append, "line", EndOf(file) + Body + 1)
<1>1. /\ append # NoAppend /\ append.pc = "reserved"
      /\ append' = [append EXCEPT !.pc = "written"]
      /\ file' = Append(file, l)
      /\ UNCHANGED <<alloc, synced, onDisk, name, acked, readers, appends, losses>>
  BY DEF WriteLine, At, Continue, readers
<1>2. append \in Call /\ append.seq \in Nat \ {0} /\ append.id \in Event
  BY <1>1 DEF IInv, TypeOK, Call, AppendInv, At
<1>3. EndOf(file) \in Nat /\ Body \in Nat
  BY EndOfFile, LogAssumption DEF IInv
<1>4. l \in Line /\ l.seq = append.seq /\ l.id = append.id /\ l.form = "line"
        /\ l.end = EndOf(file) + Body + 1
  BY <1>2, <1>3 DEF LineOf, Line, Form
<1>5. Closed(l) = l
  BY <1>4 DEF Closed
<1>6. EndOf(file) < l.end
  BY <1>3, <1>4
<1>. HIDE DEF l
<1>7. /\ file' \in Seq(Line) /\ Len(file') = Len(file) + 1
      /\ file'[Len(file) + 1] = l
      /\ LinesInv' /\ OrderInv' /\ AllocatorInv' /\ AckedInv'
      /\ CursorInv' /\ ReadersMissNothing'
  BY <1>1, <1>4, <1>5, <1>6, LineWritten
<1>8. append' \in Call /\ append'.pc = "written" /\ append'.seq = append.seq
        /\ append'.id = append.id
  BY <1>1, <1>2 DEF Call
<1>9. Len(file) \in Nat /\ synced \in 0 .. Len(file) /\ synced \in 0 .. Len(file) + 1
  BY DEF IInv, TypeOK
<1>10. TypeOK'
  BY <1>1, <1>7, <1>8, <1>9 DEF IInv, TypeOK, readers
<1>11. AppendInv'
  <2>1. file' # <<>> /\ file'[Len(file')] = l
    BY <1>7, <1>9
  <2>. QED
    BY <1>4, <1>8, <2>1 DEF AppendInv, At, Valid, Record
<1>. QED
  BY <1>7, <1>10, <1>11 DEF IInv

\* A torn write leaves a line that the next writer closes.
LEMMA TearLineStep ==
    ASSUME IInv, TearLine
    PROVE  IInv'
<1>1. /\ append # NoAppend /\ append.pc = "reserved" /\ append' = NoAppend
      /\ UNCHANGED <<alloc, synced, onDisk, name, acked, readers, appends, losses>>
  BY DEF TearLine, At, Return, readers
<1>2. PICK l \in Torn(append, EndOf(file)) : file' = Append(file, l)
  BY DEF TearLine
<1>3. append \in Call /\ append.seq \in Nat \ {0} /\ append.id \in Event
  BY <1>1 DEF IInv, TypeOK, Call, AppendInv, At
<1>4. EndOf(file) \in Nat /\ Body \in Nat /\ Body >= 2
  BY EndOfFile, LogAssumption DEF IInv
<1>5. /\ l \in Line /\ l.seq = append.seq /\ EndOf(file) < l.end
      /\ l.form \in {"part", "body"}
      /\ l.form = "body" => l.end = EndOf(file) + Body
  BY <1>3, <1>4 DEF Torn, LineOf, Line, Form
<1>6. Committable(l) => Closed(l).end = EndOf(file) + Body + 1
  BY <1>4, <1>5 DEF Committable, Closed, LineOf
<1>7. /\ file' \in Seq(Line) /\ Len(file') = Len(file) + 1
      /\ LinesInv' /\ OrderInv' /\ AllocatorInv' /\ AckedInv'
      /\ CursorInv' /\ ReadersMissNothing'
  BY <1>1, <1>2, <1>5, <1>6, LineWritten
<1>8. Len(file) \in Nat /\ synced \in 0 .. Len(file) /\ synced \in 0 .. Len(file) + 1
  BY DEF IInv, TypeOK
<1>9. TypeOK'
  BY <1>1, <1>7, <1>8 DEF IInv, TypeOK, readers
<1>10. AppendInv'
  BY <1>1 DEF AppendInv, At
<1>. QED
  BY <1>7, <1>9, <1>10 DEF IInv

\* After a power loss the synced lines are there, and whatever the lock file
\* holds covers what is left.
LEMMA PowerLossStep ==
    ASSUME IInv, PowerLoss
    PROVE  IInv'
<1>1. /\ losses < MaxLosses /\ losses' = losses + 1
      /\ \/ name # "absent" /\ name' = "durable" /\ file' \in Survivors
         \/ name # "durable" /\ name' = "absent" /\ file' = <<>>
      /\ synced' = Len(file') /\ alloc' \in onDisk \cup {NoAllocator}
      /\ onDisk' = {alloc'} /\ append' = NoAppend
      /\ cursor' = [r \in Reader |-> Origin] /\ delivered' = [r \in Reader |-> {}]
      /\ UNCHANGED <<acked, appends>>
  BY DEF PowerLoss
<1>2. TypeOK /\ LinesInv /\ OrderInv /\ AllocatorInv /\ AckedInv
  BY DEF IInv
<1>3. LinesInv' /\ OrderInv' /\ file' \in Seq(Line)
  <2>1. CASE file' \in Survivors
    BY <1>2, <2>1, SurvivorsOrdered, SurvivorLines
  <2>2. CASE file' = <<>>
    <3>1. file' \in Seq(Line) /\ DOMAIN file' = {}
      BY <2>2
    <3>. QED
      BY <3>1 DEF LinesInv, OrderInv
  <2>. QED
    BY <1>1, <2>1, <2>2
<1>4. file' \in Survivors =>
        /\ Len(file') \in synced .. Len(file)
        /\ \A i \in 1 .. Len(file') : file'[i] = file[i] \/ i > synced
  BY <1>2, SurvivorLines
<1>5. synced \in Nat /\ Len(file') \in Nat
        /\ (file' \in Survivors => synced <= Len(file'))
  BY <1>2, <1>3, <1>4 DEF TypeOK
<1>6. TypeOK'
  <2>1. synced' \in 0 .. Len(file')
    BY <1>1, <1>5
  <2>2. cursor' \in [Reader -> [seq : Nat, off : Nat]]
          /\ delivered' \in [Reader -> SUBSET [seq : Nat, id : Event]]
    BY <1>1 DEF Origin
  <2>3. losses' \in 0 .. MaxLosses
    BY <1>1, <1>2, LogAssumption DEF TypeOK
  <2>. QED
    BY <1>1, <1>2, <1>3, <2>1, <2>2, <2>3 DEF TypeOK
<1>7. AllocatorInv'
  <2>1. CASE file' \in Survivors
    <3>1. \A a : Covers(a) => Covers(a)'
      BY <1>2, <2>1, SurvivorsCovered
    <3>. QED
      BY <1>1, <1>2, <3>1 DEF AllocatorInv
  <2>2. CASE file' = <<>>
    BY <2>2 DEF AllocatorInv, Covers
  <2>. QED
    BY <1>1, <2>1, <2>2
<1>8. AppendInv'
  BY <1>1 DEF AppendInv, At
<1>9. AckedInv'
  <2>1. CASE acked = {}
    BY <1>1, <2>1 DEF AckedInv
  <2>2. CASE acked # {} /\ NameWithData
    <3>1. name = "durable"
      BY <1>2, <2>2 DEF AckedInv
    <3>2. name' = "durable" /\ file' \in Survivors
      BY <1>1, <3>1
    <3>3. \A i \in 1 .. synced : i \in 1 .. synced' /\ file'[i] = file[i]
      BY <1>1, <1>4, <1>5, <3>2
    <3>. QED
      BY <1>1, <1>2, <3>2, <3>3 DEF AckedInv
  <2>. QED
    BY <2>1, <2>2 DEF AckedInv
<1>10. CursorInv' /\ ReadersMissNothing'
  <2>2. \A i \in DOMAIN file' : ~(file'[i].end <= 0) /\ ~(file'[i].seq <= 0)
    <3>1. DOMAIN file' = 1 .. Len(file') /\ \A i \in DOMAIN file' : file'[i] \in Line
      BY <1>3
    <3>. TAKE i \in DOMAIN file'
    <3>2. StartOf(file', i) \in Nat /\ StartOf(file', i) < file'[i].end
      BY <1>3, <1>5, <3>1, StartsAreNumbers DEF LinesInv
    <3>3. file'[i] \in Line
      BY <3>1
    <3>4. file'[i].end \in Nat /\ file'[i].seq \in Nat \ {0}
      BY <3>3 DEF Line
    <3>. QED
      BY <3>2, <3>4
  <2>3. 0 \in Scanned'
    BY DEF Scanned
  <2>4. \A r \in Reader : cursor'[r].seq = 0 /\ cursor'[r].off = 0 /\ delivered'[r] = {}
    BY <1>1 DEF Origin
  <2>. QED
    BY <2>2, <2>3, <2>4 DEF CursorInv, ReadersMissNothing
<1>. QED
  BY <1>3, <1>6, <1>7, <1>8, <1>9, <1>10 DEF IInv

-----------------------------------------------------------------------------
(* Theorems. *)

\* The empty log satisfies the invariant.
LEMMA InitInv == Init => IInv
<1>. SUFFICES ASSUME Init PROVE IInv
  OBVIOUS
<1>1. file \in Seq(Line) /\ DOMAIN file = {} /\ Len(file) = 0
  BY DEF Init
<1>2. TypeOK
  BY <1>1, LogAssumption DEF Init, TypeOK, Origin
<1>3. LinesInv /\ OrderInv
  BY <1>1 DEF LinesInv, OrderInv
<1>4. AllocatorInv /\ AckedInv
  BY DEF Init, AllocatorInv, AckedInv
<1>5. AppendInv
  BY DEF Init, AppendInv, At
<1>6. CursorInv /\ ReadersMissNothing
  <2>1. \A r \in Reader : cursor[r].seq = 0 /\ cursor[r].off = 0 /\ delivered[r] = {}
    BY DEF Init, Origin
  <2>. QED
    BY <1>1, <2>1 DEF CursorInv, ReadersMissNothing, Scanned
<1>. QED
  BY <1>2, <1>3, <1>4, <1>5, <1>6 DEF IInv

\* Every step of a log whose appends are all durable keeps the invariant.
LEMMA NextInv ==
    ASSUME IInv, Durability = {"durable"}, [Next]_vars
    PROVE  IInv'
<1>1. ASSUME NEW e \in Event, NEW d \in Durability, BeginAppend(e, d) PROVE IInv'
  BY <1>1, BeginAppendStep
<1>2. CASE EnsureLineBoundary
  BY <1>2, EnsureLineBoundaryStep
<1>3. CASE ReserveSequence
  BY <1>3, ReserveSequenceStep
<1>12. CASE TearBoundary
  BY <1>12, TearBoundaryStep
<1>4. CASE TearAllocator
  BY <1>4, TearAllocatorStep
<1>5. CASE WriteLine
  BY <1>5, WriteLineStep
<1>6. CASE TearLine
  BY <1>6, TearLineStep
<1>7. CASE FinishAppend
  BY <1>7, FinishAppendStep
<1>8. CASE Interrupt
  BY <1>8, InterruptStep
<1>9. ASSUME NEW r \in Reader, ReadPage(r) PROVE IInv'
  BY <1>9, ReadPageStep
<1>10. CASE PowerLoss
  BY <1>10, PowerLossStep
<1>11. CASE UNCHANGED vars
  <2>1. UNCHANGED <<file, alloc, append, synced, onDisk, name, acked, cursor,
                    delivered, appends, losses>>
    BY <1>11 DEF vars, log, readers
  <2>2. TypeOK'
    BY <2>1 DEF IInv, TypeOK
  <2>3. AppendInv'
    BY <2>1 DEF IInv, AppendInv, At, IsClosed
  <2>. QED
    BY <2>1, <2>2, <2>3, UnchangedParts DEF IInv, readers
<1>. QED
  BY <1>1, <1>2, <1>3, <1>4, <1>5, <1>6, <1>7, <1>8, <1>9, <1>10, <1>11,
     <1>12 DEF Next, Running

\* The invariant holds in every state of a durable log.
THEOREM LogInvariant == Durability = {"durable"} => (Spec => []IInv)
<1>. HAVE Durability = {"durable"}
<1>1. Init => IInv
  BY InitInv
<1>2. IInv /\ [Next]_vars => IInv'
  BY NextInv
<1>. QED
  BY <1>1, <1>2, PTL DEF Spec

\* Type correctness of the durable log (EventLog and its lock file).
THEOREM TypeCorrect == Durability = {"durable"} => (Spec => []TypeOK)
<1>. HAVE Durability = {"durable"}
<1>1. Spec => []IInv
  BY LogInvariant
<1>2. IInv => TypeOK
  BY DEF IInv
<1>. QED
  BY <1>1, <1>2, PTL

\* append_blocking never gives out a number twice or backwards, across torn
\* lines, torn lock files and any number of power losses.
THEOREM NumbersIncrease == Durability = {"durable"} => (Spec => []SequencesIncrease)
<1>. HAVE Durability = {"durable"}
<1>1. Spec => []IInv
  BY LogInvariant
<1>2. IInv => SequencesIncrease
  BY DEF IInv, OrderInv, SequencesIncrease, Valid, Committable
<1>. QED
  BY <1>1, <1>2, PTL

\* What append acknowledged, read_from_blocking hands out from the origin,
\* whatever fails later.
THEOREM AcknowledgedStays ==
    Durability = {"durable"} /\ NameWithData => (Spec => []AcknowledgedIsVisible)
<1>. HAVE Durability = {"durable"} /\ NameWithData
<1>1. Spec => []IInv
  BY LogInvariant
<1>2. IInv => AcknowledgedIsVisible
  <2>. SUFFICES ASSUME IInv, NEW a \in acked
                PROVE  \E i \in DOMAIN file :
                         /\ Record(file[i]) = [seq |-> a.seq, id |-> a.id]
                         /\ Accepted(Origin, i)
    BY DEF AcknowledgedIsVisible
  <2>1. PICK i \in 1 .. synced :
          Valid(file[i]) /\ Record(file[i]) = [seq |-> a.seq, id |-> a.id]
    BY DEF IInv, AckedInv
  <2>2. /\ Len(file) \in Nat /\ DOMAIN file = 1 .. Len(file) /\ i \in 1 .. Len(file)
        /\ file[i] \in Line /\ file \in Seq(Line)
    <3>1. /\ Len(file) \in Nat /\ DOMAIN file = 1 .. Len(file) /\ file \in Seq(Line)
          /\ synced \in 0 .. Len(file)
      BY DEF IInv, TypeOK
    <3>2. i \in 1 .. Len(file)
      BY <3>1
    <3>. QED
      BY <3>1, <3>2
  <2>3. file[i].end > 0 /\ file[i].seq > 0
    <3>1. StartOf(file, i) \in Nat /\ StartOf(file, i) < file[i].end
      BY <2>2, StartsAreNumbers DEF IInv, LinesInv
    <3>2. file[i].end \in Nat /\ file[i].seq \in Nat \ {0}
      BY <2>2 DEF Line
    <3>. QED
      BY <3>1, <3>2
  <2>4. \A j \in 1 .. i - 1 : j \in DOMAIN file /\ j < i
    BY <2>2
  <2>5. \A j \in 1 .. i - 1 : Valid(file[j]) => file[j].seq < file[i].seq
    BY <2>1, <2>2, <2>4 DEF IInv, OrderInv, Valid, Committable
  <2>6. Accepted(Origin, i)
    BY <2>1, <2>3, <2>5 DEF Accepted, Origin
  <2>. QED
    BY <2>1, <2>2, <2>6
<1>. QED
  BY <1>1, <1>2, PTL

\* Interrupted writers and power losses neither disturb the numbers nor take
\* back what was durably acknowledged.
THEOREM StreamStaysSound ==
    Durability = {"durable"} /\ NameWithData => (Spec => []StreamSound)
<1>. HAVE Durability = {"durable"} /\ NameWithData
<1>1. TypeOK /\ SequencesIncrease /\ AcknowledgedIsVisible => StreamSound
  BY DEF StreamSound
<1>2. Spec => []TypeOK
  BY TypeCorrect
<1>3. Spec => []SequencesIncrease
  BY NumbersIncrease
<1>4. Spec => []AcknowledgedIsVisible
  BY AcknowledgedStays
<1>. QED
  BY <1>1, <1>2, <1>3, <1>4, PTL

\* No page of read_from loses a record, at a torn line, at its limits or
\* between junk.
THEOREM PagesLoseNothing == Durability = {"durable"} => (Spec => []ReadersMissNothing)
<1>. HAVE Durability = {"durable"}
<1>1. Spec => []IInv
  BY LogInvariant
<1>2. IInv => ReadersMissNothing
  BY DEF IInv
<1>. QED
  BY <1>1, <1>2, PTL


-----------------------------------------------------------------------------
(* The projectors: the inductive invariant. *)

\* No floor is above the stream, so an event next to a floor is at most the
\* next event of the stream.
FloorsBelow == \A i \in Instance : floor[i] <= Len(stream)

\* An instance about to append has passed every event before its own, and one
\* about to mark has its event in the stream.
NextIsDue ==
    \A i \in Instance :
        /\ at[i] = "append" => Smallest(page[i]) <= Len(stream) + 1
        /\ at[i] = "mark" => Smallest(page[i]) <= Len(stream)

\* Without a floor nothing is ever deferred, and a page leaves out only events
\* that are in the stream.
PagesHaveNoHole ==
    ~ordered =>
        /\ hidden = {}
        /\ \A i \in Instance : \A p \in page[i] : \A e \in 1 .. p :
             e \in page[i] \/ e <= Len(stream)

ProjectorInv == ProjectionSound /\ FloorsBelow /\ NextIsDue /\ PagesHaveNoHole

-----------------------------------------------------------------------------
(* The operators of the projectors. *)

\* A set of natural numbers that is not empty has a smallest member.
LEMMA SmallestIsLeast ==
    ASSUME NEW S \in SUBSET Nat, S # {}
    PROVE  Smallest(S) \in S /\ \A e \in S : Smallest(S) <= e
<1>1. PICK s \in S : \A e \in S : ~ (<<e, s>> \in OpToRel(<, Nat))
  BY WFMin, NatLessThanWellFounded, Zenon
<1>2. \A e \in S : s <= e
  <2> TAKE e \in S
  <2>1. e \in Nat /\ s \in Nat
    OBVIOUS
  <2>2. ~ (e < s)
    BY <1>1, <2>1, Zenon DEF OpToRel
  <2> QED
    BY <2>1, <2>2
<1> QED
  BY <1>2 DEF Smallest

\* While the stream is in order, it shows the events up to its length, and a
\* scan finds that length.
LEMMA SeenIsPrefix ==
    ASSUME ProjectorTypeOK, StreamInOrder
    PROVE  Seen = 1 .. Len(stream) /\ Highest = Len(stream) /\ Len(stream) \in 0 .. source
<1>1. Len(stream) \in Nat /\ source \in Nat
  BY ProjectorAssumption DEF ProjectorTypeOK
<1>2. Seen = 1 .. Len(stream)
  BY <1>1 DEF Seen, StreamInOrder
<1>3. Highest = Len(stream)
  <2>1. CASE Len(stream) = 0
    BY <1>1, <1>2, <2>1 DEF Highest
  <2>2. CASE Len(stream) > 0
    <3>1. Len(stream) \in Seen /\ \A e \in Seen : e <= Len(stream)
      BY <1>1, <1>2, <2>2
    <3>2. \A s \in Seen : (\A e \in Seen : e <= s) => s = Len(stream)
      BY <1>1, <1>2, <3>1
    <3>3. (CHOOSE s \in Seen : \A e \in Seen : e <= s) = Len(stream)
      BY <3>1, <3>2
    <3> QED
      BY <3>1, <3>3 DEF Highest
  <2> QED
    BY <1>1, <2>1, <2>2
<1>4. Len(stream) <= source
  <2>1. CASE Len(stream) = 0
    BY <1>1, <2>1
  <2>2. CASE Len(stream) > 0
    <3>1. stream[Len(stream)] \in 1 .. source
      BY <1>1, <2>2 DEF ProjectorTypeOK
    <3> QED
      BY <1>1, <2>2, <3>1 DEF StreamInOrder
  <2> QED
    BY <1>1, <2>1, <2>2
<1> QED
  BY <1>1, <1>2, <1>3, <1>4

\* Appending an event that is in the stream, or is its next one, keeps the
\* order and loses nothing.
LEMMA AppendKeepsOrder ==
    ASSUME ProjectorTypeOK, StreamInOrder,
           NEW s \in 1 .. source, s <= Len(stream) + 1
    PROVE  /\ Appended(s) \in Seq(1 .. source)
           /\ Len(Appended(s)) >= Len(stream) /\ Len(Appended(s)) >= s
           /\ Len(Appended(s)) \in Nat
           /\ \A k \in 1 .. Len(Appended(s)) : Appended(s)[k] = k
<1>0. Len(stream) \in Nat /\ source \in Nat /\ stream \in Seq(1 .. source) /\ s \in Nat
  BY ProjectorAssumption DEF ProjectorTypeOK
<1>1. Seen = 1 .. Len(stream)
  BY SeenIsPrefix
<1>2. CASE s \in Seen
  BY <1>0, <1>1, <1>2 DEF Appended, StreamInOrder
<1>3. CASE s \notin Seen
  <2>1. s = Len(stream) + 1
    BY <1>0, <1>1, <1>3
  <2>2. Appended(s) = Append(stream, s)
    BY <1>3 DEF Appended
  <2> QED
    BY <1>0, <2>1, <2>2, SMTT(30) DEF StreamInOrder
<1> QED
  BY <1>2, <1>3

-----------------------------------------------------------------------------
(* Every step keeps the invariant. *)

\* The head of a page that is not empty is one of its events.
LEMMA HeadOfPage ==
    ASSUME ProjectorTypeOK, NEW i \in Instance, page[i] # {}
    PROVE  /\ Smallest(page[i]) \in page[i] /\ Smallest(page[i]) \in 1 .. source
           /\ \A e \in page[i] : Smallest(page[i]) <= e
<1>1. page[i] \in SUBSET (1 .. source) /\ source \in Nat
  BY ProjectorAssumption DEF ProjectorTypeOK
<1>2. page[i] \in SUBSET Nat
  BY <1>1
<1> QED
  BY <1>1, <1>2, SmallestIsLeast

\* Events that are emitted, deferred or due again.
LEMMA OutboxStep ==
    ASSUME ProjectorInv, Produce \/ \E e \in 1 .. source : Defer(e) \/ Reappear(e)
    PROVE  ProjectorInv'
<1>0. source \in Nat /\ stream \in Seq(1 .. source) /\ Len(stream) \in Nat
  BY ProjectorAssumption DEF ProjectorInv, ProjectionSound, ProjectorTypeOK
<1>1. UNCHANGED <<ordered, projectorVars>>
  BY DEF Produce, Defer, Reappear
<1>2. source' \in {source, source + 1} /\ source' \in 0 .. MaxEvents
  BY <1>0, ProjectorAssumption
     DEF Produce, Emit, Defer, Reappear, ProjectorInv, ProjectionSound, ProjectorTypeOK
<1>3. hidden' \subseteq 1 .. source' /\ faults' \in 0 .. MaxFaults /\ (~ordered => hidden' = {})
  <2>1. CASE Produce
    BY <2>1, <1>0
       DEF Produce, Emit, ProjectorInv, ProjectionSound, ProjectorTypeOK, PagesHaveNoHole
  <2>2. CASE \E e \in 1 .. source : Defer(e)
    BY <2>2, <1>0, ProjectorAssumption DEF Defer, ProjectorInv, ProjectionSound, ProjectorTypeOK
  <2>3. CASE \E e \in 1 .. source : Reappear(e)
    BY <2>3, <1>0 DEF Reappear, ProjectorInv, ProjectionSound, ProjectorTypeOK, PagesHaveNoHole
  <2> QED
    BY <2>1, <2>2, <2>3
<1>4. 1 .. source \subseteq 1 .. source'
  BY <1>0, <1>2
<1>5. ProjectorTypeOK'
  <2>1. stream' \in Seq(1 .. source')
    BY <1>0, <1>1, <1>4, SeqMonotonic DEF projectorVars
  <2>2. floor' \in [Instance -> -1 .. source']
    BY <1>0, <1>1, <1>2 DEF projectorVars, ProjectorInv, ProjectionSound, ProjectorTypeOK
  <2> QED
    BY <1>1, <1>2, <1>3, <1>4, <2>1, <2>2
       DEF projectorVars, ProjectorInv, ProjectionSound, ProjectorTypeOK
<1>6. StreamInOrder' /\ MarkedIsVisible'
  BY <1>1 DEF projectorVars, ProjectorInv, ProjectionSound, StreamInOrder, MarkedIsVisible, Seen
<1>7. FloorsBelow' /\ NextIsDue' /\ PagesHaveNoHole'
  BY <1>1, <1>3
     DEF projectorVars, ProjectorInv, FloorsBelow, NextIsDue, PagesHaveNoHole, Smallest
<1> QED
  BY <1>5, <1>6, <1>7 DEF ProjectorInv, ProjectionSound

\* The steps of an instance that touch nothing but its own floor, page and
\* phase keep what is said of the others.
LEMMA OwnStep ==
    ASSUME ProjectorInv, NEW i \in Instance, NEW f, NEW P, NEW a,
           UNCHANGED <<ordered, source, hidden, marked, stream>>, faults' \in 0 .. MaxFaults,
           floor' = [floor EXCEPT ![i] = f], page' = [page EXCEPT ![i] = P],
           at' = [at EXCEPT ![i] = a],
           f \in -1 .. Len(stream), P \subseteq 1 .. source, a \in Phase,
           a \in {"append", "mark"} => P # {},
           a = "append" => Smallest(P) <= Len(stream) + 1,
           a = "mark" => Smallest(P) <= Len(stream),
           ~ordered => \A p \in P : \A e \in 1 .. p : e \in P \/ e <= Len(stream)
    PROVE  ProjectorInv'
<1>0. source \in Nat /\ Len(stream) \in 0 .. source
  BY SeenIsPrefix, ProjectorAssumption DEF ProjectorInv, ProjectionSound, ProjectorTypeOK
<1>1. \A j \in Instance :
        /\ floor'[j] = IF j = i THEN f ELSE floor[j]
        /\ page'[j] = IF j = i THEN P ELSE page[j]
        /\ at'[j] = IF j = i THEN a ELSE at[j]
  BY DEF ProjectorInv, ProjectionSound, ProjectorTypeOK
<1>2. ProjectorTypeOK'
  <2>1. floor' \in [Instance -> -1 .. source] /\ page' \in [Instance -> SUBSET (1 .. source)]
          /\ at' \in [Instance -> Phase]
    BY <1>0 DEF ProjectorInv, ProjectionSound, ProjectorTypeOK
  <2>2. \A j \in Instance : at'[j] \in {"append", "mark"} => page'[j] # {}
    BY <1>1 DEF ProjectorInv, ProjectionSound, ProjectorTypeOK
  <2> QED
    BY <2>1, <2>2 DEF ProjectorInv, ProjectionSound, ProjectorTypeOK
<1>3. StreamInOrder' /\ MarkedIsVisible'
  BY DEF ProjectorInv, ProjectionSound, StreamInOrder, MarkedIsVisible, Seen
<1>4. FloorsBelow'
  BY <1>0, <1>1 DEF ProjectorInv, FloorsBelow
<1>5. NextIsDue'
  <2> SUFFICES ASSUME NEW j \in Instance
               PROVE  /\ at'[j] = "append" => Smallest(page'[j]) <= Len(stream) + 1
                      /\ at'[j] = "mark" => Smallest(page'[j]) <= Len(stream)
    BY DEF NextIsDue, Smallest
  <2>1. CASE j = i
    BY <1>1, <2>1
  <2>2. CASE j # i
    BY <1>1, <2>2 DEF ProjectorInv, NextIsDue
  <2> QED
    BY <2>1, <2>2
<1>6. PagesHaveNoHole'
  BY <1>1 DEF ProjectorInv, PagesHaveNoHole
<1> QED
  BY <1>2, <1>3, <1>4, <1>5, <1>6 DEF ProjectorInv, ProjectionSound

\* The floor and the page an instance keeps are good for another step of it.
LEMMA KeptParts ==
    ASSUME ProjectorInv, NEW i \in Instance
    PROVE  /\ floor = [floor EXCEPT ![i] = floor[i]] /\ page = [page EXCEPT ![i] = page[i]]
           /\ floor[i] \in -1 .. Len(stream) /\ page[i] \subseteq 1 .. source
           /\ ~ordered => \A p \in page[i] : \A e \in 1 .. p : e \in page[i] \/ e <= Len(stream)
           /\ Len(stream) \in 0 .. source /\ source \in Nat
           /\ Highest = Len(stream) /\ Seen = 1 .. Len(stream)
           /\ faults \in 0 .. MaxFaults
<1>1. source \in Nat /\ Len(stream) \in 0 .. source /\ Highest = Len(stream)
        /\ Seen = 1 .. Len(stream)
  BY SeenIsPrefix, ProjectorAssumption DEF ProjectorInv, ProjectionSound, ProjectorTypeOK
<1>2. floor[i] \in -1 .. source
  BY DEF ProjectorInv, ProjectionSound, ProjectorTypeOK
<1> QED
  BY <1>1, <1>2
     DEF ProjectorInv, ProjectionSound, ProjectorTypeOK, FloorsBelow, PagesHaveNoHole

\* A scan moves the floor to a place in the stream (ScanFloor).
LEMMA ScanFloorStep ==
    ASSUME ProjectorInv, NEW i \in Instance, ScanFloor(i)
    PROVE  ProjectorInv'
<1>1. PICK f \in -1 .. Len(stream) : floor' = [floor EXCEPT ![i] = f]
  BY KeptParts DEF ScanFloor
<1>2. page' = [page EXCEPT ![i] = page[i]]
  BY KeptParts DEF ScanFloor
<1>3. /\ UNCHANGED <<ordered, source, hidden, marked, stream>> /\ faults' \in 0 .. MaxFaults
      /\ at' = [at EXCEPT ![i] = "read"] /\ "read" \in Phase
  BY KeptParts DEF ScanFloor, Go, Phase, outboxVars
<1>4. /\ page[i] \subseteq 1 .. source
      /\ ~ordered => \A p \in page[i] : \A e \in 1 .. p : e \in page[i] \/ e <= Len(stream)
  BY KeptParts
<1> QED
  BY <1>1, <1>2, <1>3, <1>4, OwnStep

\* What a page leaves out is marked, so it is in the stream.
LEMMA ReadOutboxPageStep ==
    ASSUME ProjectorInv, NEW i \in Instance, ReadOutboxPage(i)
    PROVE  ProjectorInv'
<1>1. PICK P \in SUBSET Due : IsPage(P) /\ page' = [page EXCEPT ![i] = P]
  BY DEF ReadOutboxPage
<1>2. P \subseteq 1 .. source
  BY <1>1 DEF Due
<1>3. ~ordered => \A p \in P : \A e \in 1 .. p : e \in P \/ e <= Len(stream)
  <2> SUFFICES ASSUME ~ordered, NEW p \in P, NEW e \in 1 .. p, e \notin P
               PROVE  e <= Len(stream)
    OBVIOUS
  <2>1. source \in Nat /\ Seen = 1 .. Len(stream) /\ Len(stream) \in Nat
    BY KeptParts
  <2>2. p \in 1 .. source /\ e \in 1 .. source
    BY <1>2, <2>1
  <2>3. e \notin Due
    BY <1>1, <2>2 DEF IsPage
  <2>4. e \in marked
    BY <2>2, <2>3 DEF Due, ProjectorInv, PagesHaveNoHole
  <2> QED
    BY <2>1, <2>4 DEF ProjectorInv, ProjectionSound, MarkedIsVisible
<1>4. floor' = [floor EXCEPT ![i] = floor[i]]
  BY KeptParts DEF ReadOutboxPage
<1>5. /\ UNCHANGED <<ordered, source, hidden, marked, stream>> /\ faults' \in 0 .. MaxFaults
      /\ at' = [at EXCEPT ![i] = "item"] /\ "item" \in Phase /\ floor[i] \in -1 .. Len(stream)
  BY KeptParts DEF ReadOutboxPage, Go, Phase, outboxVars
<1> QED
  BY <1>1, <1>2, <1>3, <1>4, <1>5, OwnStep

\* An instance that leaves its page keeps nothing that could be wrong.
LEMMA LeaveStep ==
    ASSUME ProjectorInv, NEW i \in Instance, NEW f \in -1 .. Len(stream), Leave(i),
           UNCHANGED <<ordered, source, hidden, marked, stream>>, faults' \in 0 .. MaxFaults,
           floor' = [floor EXCEPT ![i] = f]
    PROVE  ProjectorInv'
<1>1. page' = [page EXCEPT ![i] = {}] /\ at' = [at EXCEPT ![i] = "idle"]
  BY DEF Leave, Go
<1> QED
  BY <1>1, OwnStep DEF Phase

\* Without a floor the head of a page comes next because the page has no hole,
\* with one because the floor is not above the stream.
LEMMA TakeItemStep ==
    ASSUME ProjectorInv, NEW i \in Instance, TakeItem(i)
    PROVE  ProjectorInv'
<1> DEFINE s == Smallest(page[i])
<1>0. page[i] # {} /\ at[i] = "item" /\ UNCHANGED <<ordered, source, hidden, marked, stream, faults>>
  BY DEF TakeItem, outboxVars
<1>1. s \in page[i] /\ s \in 1 .. source /\ \A e \in page[i] : s <= e
  BY <1>0, HeadOfPage DEF ProjectorInv, ProjectionSound
<1>2. /\ floor[i] \in -1 .. Len(stream) /\ Len(stream) \in Nat /\ source \in Nat
      /\ Highest = Len(stream)
  BY KeptParts
<1> HIDE DEF s
<1>3. CASE ~ordered
  <2>1. s <= Len(stream) + 1
    <3> SUFFICES ASSUME s > 1
                 PROVE  s <= Len(stream) + 1
      BY <1>1, <1>2
    <3>1. s - 1 \in 1 .. s
      BY <1>1, <1>2
    <3>2. s - 1 \notin page[i]
      BY <1>1, <1>2
    <3>3. s - 1 <= Len(stream)
      BY <1>1, <1>3, <3>1, <3>2 DEF ProjectorInv, PagesHaveNoHole
    <3> QED
      BY <1>1, <1>2, <3>3
  <2>2. at' = [at EXCEPT ![i] = "append"] /\ UNCHANGED <<floor, page>>
    BY <1>3 DEF TakeItem, Go
  <2> QED
    BY <1>0, <2>1, <2>2, KeptParts, OwnStep DEF Phase, s
<1>4. CASE ordered /\ s <= floor[i] + 1
  <2>1. s <= Len(stream) + 1
    BY <1>1, <1>2, <1>4
  <2>2. at' = [at EXCEPT ![i] = "append"] /\ UNCHANGED <<floor, page>>
    BY <1>1, <1>2, <1>4 DEF TakeItem, Go, s
  <2> QED
    BY <1>0, <2>1, <2>2, KeptParts, OwnStep DEF Phase, s
<1>5. CASE ordered /\ s > floor[i] + 1
  <2>1. floor' = [floor EXCEPT ![i] = Len(stream)]
    BY <1>1, <1>2, <1>5, KeptParts DEF TakeItem, Raise, Larger, s
  <2>2. CASE s <= Larger(floor[i], Highest) + 1
    <3>1. s <= Len(stream) + 1
      BY <1>1, <1>2, <2>2 DEF Larger
    <3>2. at' = [at EXCEPT ![i] = "append"] /\ UNCHANGED page
      BY <1>1, <1>2, <1>5, <2>2 DEF TakeItem, Go, s
    <3>3. /\ page' = [page EXCEPT ![i] = page[i]] /\ page[i] \subseteq 1 .. source
          /\ Len(stream) \in -1 .. Len(stream) /\ faults' \in 0 .. MaxFaults
      BY <1>0, <1>2, <3>2, KeptParts
    <3> QED
      BY <1>0, <1>5, <2>1, <3>1, <3>2, <3>3, OwnStep DEF Phase, s
  <2>3. CASE ~ (s <= Larger(floor[i], Highest) + 1)
    <3>1. Leave(i)
      BY <1>1, <1>2, <1>5, <2>3 DEF TakeItem, s
    <3>2. Len(stream) \in -1 .. Len(stream) /\ faults' \in 0 .. MaxFaults
      BY <1>0, <1>2, KeptParts
    <3> QED
      BY <1>0, <2>1, <3>1, <3>2, LeaveStep
  <2> QED
    BY <2>2, <2>3
<1> QED
  BY <1>1, <1>2, <1>3, <1>4, <1>5

\* An append brings the stream to the head of the page, or further.
LEMMA AppendStep ==
    ASSUME ProjectorInv, NEW i \in Instance, at[i] = "append",
           stream' = Appended(Smallest(page[i])),
           \/ Go(i, "mark") /\ UNCHANGED page
           \/ Leave(i),
           UNCHANGED <<ordered, outboxVars, marked, floor, faults>>
    PROVE  ProjectorInv'
<1> DEFINE s == Smallest(page[i])
<1>1. page[i] # {} /\ s <= Len(stream) + 1
  BY DEF ProjectorInv, ProjectionSound, ProjectorTypeOK, NextIsDue
<1>2. s \in page[i] /\ s \in 1 .. source
  BY <1>1, HeadOfPage DEF ProjectorInv, ProjectionSound
<1> HIDE DEF s
<1>3. /\ Appended(s) \in Seq(1 .. source) /\ Len(Appended(s)) \in Nat
      /\ Len(Appended(s)) >= Len(stream) /\ Len(Appended(s)) >= s
      /\ \A k \in 1 .. Len(Appended(s)) : Appended(s)[k] = k
  BY <1>1, <1>2, AppendKeepsOrder DEF ProjectorInv, ProjectionSound
<1>4. stream' = Appended(s) /\ Len(stream) \in Nat /\ source \in Nat
  BY KeptParts DEF s
<1>5. \A j \in Instance :
        /\ page'[j] \in {page[j], {}} /\ (page'[j] # {} => page'[j] = page[j])
        /\ j # i => at'[j] = at[j] /\ page'[j] = page[j]
        /\ at'[i] \in {"mark", "idle"} /\ (at'[i] = "mark" => page'[i] = page[i])
  BY DEF Go, Leave, ProjectorInv, ProjectionSound, ProjectorTypeOK
<1>6. ProjectorTypeOK'
  <2>1. page' \in [Instance -> SUBSET (1 .. source)] /\ at' \in [Instance -> Phase]
    BY DEF Go, Leave, Phase, ProjectorInv, ProjectionSound, ProjectorTypeOK
  <2>2. \A j \in Instance : at'[j] \in {"append", "mark"} => page'[j] # {}
    BY <1>1, <1>5 DEF ProjectorInv, ProjectionSound, ProjectorTypeOK
  <2> QED
    BY <1>3, <1>4, <2>1, <2>2 DEF outboxVars, ProjectorInv, ProjectionSound, ProjectorTypeOK
<1>7. StreamInOrder'
  BY <1>3, <1>4 DEF StreamInOrder
<1>8. MarkedIsVisible'
  <2>1. Seen' = 1 .. Len(stream')
    BY <1>3, <1>4 DEF Seen
  <2> QED
    BY <1>3, <1>4, <2>1, KeptParts DEF ProjectorInv, ProjectionSound, MarkedIsVisible
<1>9. FloorsBelow'
  <2> SUFFICES ASSUME NEW j \in Instance
               PROVE  floor[j] <= Len(stream')
    BY DEF FloorsBelow
  <2> QED
    BY <1>3, <1>4, KeptParts
<1>10. NextIsDue'
  <2> SUFFICES ASSUME NEW j \in Instance
               PROVE  /\ at'[j] = "append" => Smallest(page'[j]) <= Len(stream') + 1
                      /\ at'[j] = "mark" => Smallest(page'[j]) <= Len(stream')
    BY DEF NextIsDue, Smallest
  <2>1. CASE j = i
    BY <1>3, <1>4, <1>5, <2>1 DEF s
  <2>2. CASE j # i
    <3>1. at'[j] = at[j] /\ page'[j] = page[j]
      BY <1>5, <2>2
    <3>2. at[j] \in {"append", "mark"} => Smallest(page[j]) \in Nat
      BY <1>4, HeadOfPage DEF ProjectorInv, ProjectionSound, ProjectorTypeOK
    <3> QED
      BY <1>3, <1>4, <3>1, <3>2 DEF ProjectorInv, NextIsDue
  <2> QED
    BY <2>1, <2>2
<1>11. PagesHaveNoHole'
  <2>1. ~ordered => hidden' = {}
    BY DEF outboxVars, ProjectorInv, PagesHaveNoHole
  <2>2. ASSUME ~ordered, NEW j \in Instance, NEW p \in page'[j], NEW e \in 1 .. p
        PROVE  e \in page'[j] \/ e <= Len(stream')
    <3>1. page'[j] = page[j] /\ p \in page[j]
      BY <1>5, <2>2
    <3>2. p \in 1 .. source
      BY <3>1, KeptParts
    <3> QED
      BY <1>3, <1>4, <2>2, <3>1, <3>2, KeptParts
  <2> QED
    BY <2>1, <2>2 DEF PagesHaveNoHole
<1> QED
  BY <1>6, <1>7, <1>8, <1>9, <1>10, <1>11 DEF ProjectorInv, ProjectionSound

\* What is marked is in the stream, and the page goes on without it.
LEMMA MarkStep ==
    ASSUME ProjectorInv, NEW i \in Instance, MarkProjected(i)
    PROVE  ProjectorInv'
<1> DEFINE s == Smallest(page[i])
<1>1. page[i] # {} /\ s <= Len(stream)
  BY DEF MarkProjected, ProjectorInv, ProjectionSound, ProjectorTypeOK, NextIsDue
<1>2. s \in page[i] /\ s \in 1 .. source /\ s \in Nat
  BY <1>1, HeadOfPage DEF ProjectorInv, ProjectionSound
<1> HIDE DEF s
<1>3. /\ marked' = marked \cup {s} /\ hidden' = hidden \ {s}
      /\ page' = [page EXCEPT ![i] = page[i] \ {s}] /\ at' = [at EXCEPT ![i] = "item"]
      /\ UNCHANGED <<ordered, source, stream, faults>>
      /\ floor' \in {floor, [floor EXCEPT ![i] = Larger(floor[i], s)]}
  BY DEF MarkProjected, Go, Raise, s
<1>4. /\ Larger(floor[i], s) \in -1 .. Len(stream) /\ Len(stream) \in 0 .. source
      /\ source \in Nat /\ Seen = 1 .. Len(stream) /\ page[i] \subseteq 1 .. source
  BY <1>1, <1>2, KeptParts DEF Larger
<1>5. ProjectorTypeOK'
  <2>0. Larger(floor[i], s) \in -1 .. source
    BY <1>4
  <2>1. floor' \in [Instance -> -1 .. source]
    <3>1. floor \in [Instance -> -1 .. source]
      BY DEF ProjectorInv, ProjectionSound, ProjectorTypeOK
    <3>2. [floor EXCEPT ![i] = Larger(floor[i], s)] \in [Instance -> -1 .. source]
      BY <2>0, <3>1
    <3> QED
      BY <1>3, <3>1, <3>2
  <2>2. page' \in [Instance -> SUBSET (1 .. source)] /\ at' \in [Instance -> Phase]
    BY <1>3, <1>4 DEF ProjectorInv, ProjectionSound, ProjectorTypeOK, Phase
  <2>3. \A j \in Instance : at'[j] \in {"append", "mark"} => page'[j] # {}
    BY <1>3 DEF ProjectorInv, ProjectionSound, ProjectorTypeOK
  <2> QED
    BY <1>2, <1>3, <2>1, <2>2, <2>3 DEF ProjectorInv, ProjectionSound, ProjectorTypeOK
<1>6. StreamInOrder' /\ MarkedIsVisible'
  <2>1. Seen' = Seen /\ s \in Seen
    BY <1>1, <1>2, <1>3, <1>4 DEF Seen
  <2> QED
    BY <1>3, <2>1 DEF ProjectorInv, ProjectionSound, StreamInOrder, MarkedIsVisible
<1>7. FloorsBelow'
  <2> SUFFICES ASSUME NEW j \in Instance
               PROVE  floor'[j] <= Len(stream)
    BY <1>3 DEF FloorsBelow
  <2>1. floor'[j] \in {floor[j], Larger(floor[i], s)}
    BY <1>3 DEF ProjectorInv, ProjectionSound, ProjectorTypeOK
  <2>2. floor[j] <= Len(stream) /\ Larger(floor[i], s) <= Len(stream)
    BY <1>4 DEF ProjectorInv, FloorsBelow
  <2> QED
    BY <2>1, <2>2
<1>8. NextIsDue'
  <2> SUFFICES ASSUME NEW j \in Instance
               PROVE  /\ at'[j] = "append" => Smallest(page'[j]) <= Len(stream) + 1
                      /\ at'[j] = "mark" => Smallest(page'[j]) <= Len(stream)
    BY <1>3 DEF NextIsDue, Smallest
  <2> QED
    BY <1>3 DEF ProjectorInv, ProjectionSound, ProjectorTypeOK, NextIsDue
<1>9. PagesHaveNoHole'
  <2>1. ~ordered => hidden' = {}
    BY <1>3 DEF ProjectorInv, PagesHaveNoHole
  <2>2. ASSUME ~ordered, NEW j \in Instance, NEW p \in page'[j], NEW e \in 1 .. p
        PROVE  e \in page'[j] \/ e <= Len(stream)
    <3>1. p \in page[j] /\ (page'[j] = page[j] \/ page'[j] = page[j] \ {s})
      BY <1>3, <2>2 DEF ProjectorInv, ProjectionSound, ProjectorTypeOK
    <3>2. e \in page[j] \/ e <= Len(stream)
      BY <2>2, <3>1, KeptParts
    <3> QED
      BY <1>1, <3>1, <3>2
  <2> QED
    BY <1>3, <2>1, <2>2 DEF PagesHaveNoHole
<1> QED
  BY <1>5, <1>6, <1>7, <1>8, <1>9 DEF ProjectorInv, ProjectionSound

-----------------------------------------------------------------------------
(* The theorem. *)

\* IInv is an invariant of the projectors.
THEOREM ProjectorInvariant == ProjectorSpec => []ProjectorInv
<1>1. ProjectorInit => ProjectorInv
  <2> SUFFICES ASSUME ProjectorInit
               PROVE  ProjectorInv
    OBVIOUS
  <2>1. ProjectorTypeOK
    BY ProjectorAssumption DEF ProjectorInit, ProjectorTypeOK, Phase
  <2> QED
    BY <2>1 DEF ProjectorInit, ProjectorInv, ProjectionSound, StreamInOrder, MarkedIsVisible, Seen,
                FloorsBelow, NextIsDue, PagesHaveNoHole
<1>2. ProjectorInv /\ [ProjectorNext]_projectionVars => ProjectorInv'
  <2> SUFFICES ASSUME ProjectorInv, [ProjectorNext]_projectionVars
               PROVE  ProjectorInv'
    OBVIOUS
  <2>1. CASE Produce \/ \E e \in 1 .. source : Defer(e) \/ Reappear(e)
    BY <2>1, OutboxStep
  <2>2. ASSUME NEW i \in Instance, ProjectOnce(i) \/ Restart(i)
        PROVE  ProjectorInv'
    <3>0. /\ floor = [floor EXCEPT ![i] = floor[i]] /\ floor[i] \in -1 .. Len(stream)
          /\ -1 \in -1 .. Len(stream) /\ faults \in 0 .. MaxFaults
      BY KeptParts
    <3>1. CASE ScanFloor(i)
      BY <3>1, ScanFloorStep
    <3>2. CASE ReadOutboxPage(i)
      BY <3>2, ReadOutboxPageStep
    <3>3. CASE EndPage(i)
      BY <3>0, <3>3, LeaveStep DEF EndPage, outboxVars
    <3>4. CASE TakeItem(i)
      BY <3>4, TakeItemStep
    <3>5. CASE AppendEvent(i)
      BY <3>5, AppendStep DEF AppendEvent, outboxVars
    <3>6. CASE AppendFails(i)
      <4>1. CASE stream' = stream
        BY <3>0, <3>6, <4>1, LeaveStep DEF AppendFails, outboxVars
      <4>2. CASE stream' = Appended(Smallest(page[i]))
        BY <3>6, <4>2, AppendStep DEF AppendFails, outboxVars
      <4> QED
        BY <3>6, <4>1, <4>2 DEF AppendFails
    <3>7. CASE MarkProjected(i)
      BY <3>7, MarkStep
    <3>8. CASE MarkFails(i)
      BY <3>0, <3>8, LeaveStep DEF MarkFails, outboxVars
    <3>9. CASE Restart(i)
      <4>1. faults' \in 0 .. MaxFaults
        BY <3>0, <3>9, ProjectorAssumption DEF Restart
      <4> QED
        BY <3>0, <3>9, <4>1, LeaveStep DEF Restart, outboxVars
    <3> QED
      BY <2>2, <3>1, <3>2, <3>3, <3>4, <3>5, <3>6, <3>7, <3>8, <3>9 DEF ProjectOnce
  <2>3. CASE UNCHANGED projectionVars
    BY <2>3 DEF projectionVars, outboxVars, projectorVars, ProjectorInv, ProjectionSound, ProjectorTypeOK,
                StreamInOrder, MarkedIsVisible, Seen, FloorsBelow, NextIsDue, Smallest,
                PagesHaveNoHole
  <2> QED
    BY <2>1, <2>2, <2>3 DEF ProjectorNext
<1> QED
  BY <1>1, <1>2, PTL DEF ProjectorSpec

\* Whatever instances overlap, die or lag behind, readers of the stream meet
\* the events in order and without a gap, and nothing is acknowledged in the
\* outbox before it is in the stream.
THEOREM ProjectionStaysSound == ProjectorSpec => []ProjectionSound
<1>1. ProjectorInv => ProjectionSound
  BY DEF ProjectorInv
<1> QED
  BY <1>1, ProjectorInvariant, PTL
=============================================================================
