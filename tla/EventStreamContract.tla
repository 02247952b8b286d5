------------------------ MODULE EventStreamContract ------------------------
(***************************************************************************)
(* What a stream of the event log promises its consumers while the machine *)
(* keeps its power: a sequence of records that only ever grows at its end, *)
(* by one record at a time, with a sequence number above all others.  A    *)
(* record once seen keeps its place, its number and its event.             *)
(***************************************************************************)
EXTENDS Naturals, Sequences

CONSTANT Event

VARIABLE stream

Init == stream = <<>>

Publish ==
    /\ Len(stream') = Len(stream) + 1
    /\ SubSeq(stream', 1, Len(stream)) = stream
    /\ LET new == stream'[Len(stream')]
       IN  /\ new.id \in Event
           /\ \A i \in DOMAIN stream : stream[i].seq < new.seq

Spec == Init /\ [][Publish]_stream
=============================================================================
