--------------------------- MODULE DurableProofs ----------------------------
(***************************************************************************)
(* Proofs about what must outlive a process (MCDurable), for every value   *)
(* of the constants: a delivery of the process lane, with any sessions and *)
(* any ceiling; and workflow runs, with any plans in topological order,    *)
(* any number of runs, steps, permits, crashes, resumes and replays.       *)
(***************************************************************************)
EXTENDS MCDurable, SequenceTheorems, FiniteSetTheorems, WellFoundedInduction, TLAPS

-----------------------------------------------------------------------------
(***************************************************************************)
(* A delivery of the process lane.  Its variables are those of the instance *)
(* D: x1 ceiling, x2 the receipt, x3 effect, x4 the approval row, x5 fence, *)
(* x6 the delivery row, x7 the run, x8 marker, x9 children, x10 the         *)
(* memories of the sessions.                                                *)
(***************************************************************************)

\* The transaction a session with memory m comes to next.
NextOf(m) == IF m.open /\ m.todo # <<>> THEN Head(m.todo) ELSE "idle"

\* After its first transaction an operation is still in order.
LEMMA OrderedTail ==
    ASSUME NEW t \in Seq(D!Transaction), t # <<>>, D!Ordered(t)
    PROVE  /\ Tail(t) \in Seq(D!Transaction) /\ D!Ordered(Tail(t)) /\ Head(t) = t[1]
           /\ Tail(t) # <<>> => Head(Tail(t)) \in D!Transaction /\ D!Follows(Head(t), Head(Tail(t)))
           /\ Head(t) \in {"Apply", "Finish"} => Tail(t) # <<>>
<1>1. /\ Len(t) \in Nat \ {0} /\ Tail(t) \in Seq(D!Transaction) /\ Len(Tail(t)) = Len(t) - 1
      /\ \A i \in 1 .. Len(Tail(t)) : Tail(t)[i] = t[i + 1]
      /\ Head(t) = t[1]
  OBVIOUS
<1>0. \A i \in 1 .. Len(Tail(t)) : i = Len(Tail(t)) => Tail(t)[i] \notin {"Apply", "Finish"}
  <2> SUFFICES ASSUME NEW i \in 1 .. Len(Tail(t)), i = Len(Tail(t))
               PROVE  Tail(t)[i] \notin {"Apply", "Finish"}
    OBVIOUS
  <2>1. PICK k : k = i + 1
    OBVIOUS
  <2>2. k \in 1 .. Len(t) /\ k = Len(t) /\ Tail(t)[i] = t[k]
    BY <1>1, <2>1
  <2> QED BY <2>2 DEF D!Ordered
<1>2. D!Ordered(Tail(t))
  <2> SUFFICES ASSUME NEW i \in 1 .. Len(Tail(t)) - 1
               PROVE  D!Follows(Tail(t)[i], Tail(t)[i + 1])
    BY <1>0 DEF D!Ordered
  <2>1. Tail(t)[i] = t[i + 1] /\ Tail(t)[i + 1] = t[i + 2] /\ i + 1 \in 1 .. Len(t) - 1
    BY <1>1
  <2>2. i + 2 = (i + 1) + 1
    BY SMTT(30)
  <2> QED BY <2>1, <2>2 DEF D!Ordered
<1>3. ASSUME Tail(t) # <<>> PROVE D!Follows(Head(t), Head(Tail(t))) /\ Head(Tail(t)) \in D!Transaction
  <2>1. Len(Tail(t)) # 0
    BY <1>1, <1>3, EmptySeq
  <2>2. Head(Tail(t)) = t[1 + 1] /\ 1 \in 1 .. Len(t) - 1 /\ t[1 + 1] \in D!Transaction
    BY <1>1, <1>3, <2>1, SMTT(30)
  <2> QED BY <1>1, <2>2 DEF D!Ordered
<1>4. Head(t) \in {"Apply", "Finish"} => Tail(t) # <<>>
  <2>0. Len(<<>>) = 0
    OBVIOUS
  <2>1. ASSUME Tail(t) = <<>> PROVE 1 \in 1 .. Len(t) /\ Len(t) = 1
    <3>1. Len(t) - 1 = 0
      BY <1>1, <2>0, <2>1, SMTT(30)
    <3>2. PICK n \in Nat : n = Len(t)
      BY <1>1
    <3>3. n = 1 /\ 1 \in 1 .. n
      BY <3>1, <3>2
    <3> QED BY <3>2, <3>3
  <2> QED BY <1>1, <2>1 DEF D!Ordered
<1> QED BY <1>1, <1>2, <1>3, <1>4

\* Two operations in order, the second after the first.
LEMMA OrderedConcat ==
    ASSUME NEW a \in Seq(D!Transaction), NEW b \in Seq(D!Transaction), D!Ordered(a), D!Ordered(b),
           Len(a) > 0, Len(b) > 0, D!Follows(a[Len(a)], b[1])
    PROVE  /\ a \o b \in Seq(D!Transaction) /\ D!Ordered(a \o b) /\ Len(a \o b) > 0
           /\ (a \o b)[1] = a[1] /\ (a \o b)[Len(a \o b)] = b[Len(b)]
<1> DEFINE c == a \o b
<1>1. /\ Len(a) \in Nat \ {0} /\ Len(b) \in Nat \ {0} /\ c \in Seq(D!Transaction)
      /\ Len(c) = Len(a) + Len(b)
      /\ \A i \in 1 .. Len(c) : c[i] = IF i <= Len(a) THEN a[i] ELSE b[i - Len(a)]
  OBVIOUS
<1> HIDE DEF c
<1>0. \A i \in 1 .. Len(c) : i = Len(c) => c[i] \notin {"Apply", "Finish"}
  BY <1>1 DEF D!Ordered
<1>2. D!Ordered(c)
  <2> SUFFICES ASSUME NEW i \in 1 .. Len(c) - 1
               PROVE  D!Follows(c[i], c[i + 1])
    BY <1>0 DEF D!Ordered
  <2>1. CASE i < Len(a)
    <3>1. c[i] = a[i] /\ c[i + 1] = a[i + 1] /\ i \in 1 .. Len(a) - 1
      BY <1>1, <2>1
    <3> QED BY <3>1 DEF D!Ordered
  <2>2. CASE i = Len(a)
    <3>1. c[i] = a[Len(a)] /\ c[i + 1] = b[(i + 1) - Len(a)] /\ (i + 1) - Len(a) = 1
      BY <1>1, <2>2
    <3> QED BY <3>1
  <2>3. CASE i > Len(a)
    <3>1. PICK k : k = i - Len(a)
      OBVIOUS
    <3>2. c[i] = b[k] /\ c[i + 1] = b[(i + 1) - Len(a)] /\ (i + 1) - Len(a) = k + 1
          /\ k \in 1 .. Len(b) - 1
      BY <1>1, <2>3, <3>1, SMTT(30)
    <3> QED BY <3>2 DEF D!Ordered
  <2> QED BY <1>1, <2>1, <2>2, <2>3
<1>3. c[1] = a[1] /\ c[Len(c)] = b[Len(b)] /\ Len(c) > 0
  <2>1. c[Len(c)] = b[Len(c) - Len(a)] /\ Len(c) - Len(a) = Len(b)
    BY <1>1
  <2> QED BY <1>1, <2>1
<1> QED BY <1>1, <1>2, <1>3 DEF c

\* Transactions in their order, from first to last.
Operation(t, first, last) ==
    t \in Seq(D!Transaction) /\ D!Ordered(t) /\ Len(t) > 0 /\ t[1] = first /\ t[Len(t)] = last

\* The same, for their first and last transactions.
LEMMA OpThenOp ==
    ASSUME NEW a, NEW b, NEW f, NEW l, NEW g, NEW m, Operation(a, f, l), Operation(b, g, m), D!Follows(l, g)
    PROVE  Operation(a \o b, f, m)
BY OrderedConcat DEF Operation

\* The local gates (record_local_gates).
LEMMA GateNames == D!Range(D!LocalGates) = {"unit", "integration", "review", "ci_packaging"}
<1>1. DOMAIN D!LocalGates = {1, 2, 3, 4}
  BY DEF D!LocalGates
<1>2. D!LocalGates[1] = "unit" /\ D!LocalGates[2] = "integration"
      /\ D!LocalGates[3] = "review" /\ D!LocalGates[4] = "ci_packaging"
  BY DEF D!LocalGates
<1> QED BY <1>1, <1>2 DEF D!Range

\* Every name of a transaction is one.
LEMMA Transactions ==
    /\ {"Attempt", "AskGate", "AllowGate", "GrantGate", "DenyGate", "Probe", "Digest", "Summary",
         "Complete", "Cleanup", "Fail", "Cancel", "Unresolved"} \subseteq D!Transaction
    /\ {"unit", "integration", "review", "ci_packaging"} \subseteq D!Transaction
    /\ {"AskPhase", "GrantPhase", "ResumePhase", "DenyPhase", "CompletePhase"}
            \subseteq D!Transaction
    /\ {"Insert", "Ensure", "Claim", "Fence", "Adopt", "Evaluate", "Ask", "Grant", "Deny",
         "Check", "Apply", "Spawn", "Publish", "Finish", "Commit", "CancelRun"}
            \subseteq D!Transaction
<1>1. DOMAIN D!PhaseEvent = {"AskPhase", "GrantPhase", "ResumePhase", "DenyPhase", "CompletePhase"}
  BY DEF D!PhaseEvent
<1> QED BY <1>1, GateNames DEF D!Transaction, D!ReceiptLabels

\* An operation of one transaction.
LEMMA OneTransaction ==
    ASSUME NEW x \in D!Transaction, x \notin {"Apply", "Finish"}
    PROVE  Operation(<<x>>, x, x)
<1>1. <<x>> \in Seq(D!Transaction) /\ Len(<<x>>) = 1 /\ <<x>>[1] = x
  OBVIOUS
<1> QED BY <1>1 DEF Operation, D!Ordered

\* Two transactions.
LEMMA TwoInOrder ==
    ASSUME NEW a \in D!Transaction, NEW b \in D!Transaction,
           D!Follows(a, b),
           b \notin {"Apply", "Finish"}
    PROVE  Operation(<<a, b>>, a, b)
BY DEF Operation, D!Ordered

\* Three.
LEMMA ThreeInOrder ==
    ASSUME NEW a \in D!Transaction, NEW b \in D!Transaction, NEW c \in D!Transaction,
           D!Follows(a, b), D!Follows(b, c),
           c \notin {"Apply", "Finish"}
    PROVE  Operation(<<a, b, c>>, a, c)
BY DEF Operation, D!Ordered

\* Four.
LEMMA FourInOrder ==
    ASSUME NEW a \in D!Transaction, NEW b \in D!Transaction, NEW c \in D!Transaction,
           NEW d \in D!Transaction,
           D!Follows(a, b), D!Follows(b, c), D!Follows(c, d),
           d \notin {"Apply", "Finish"}
    PROVE  Operation(<<a, b, c, d>>, a, d)
BY DEF Operation, D!Ordered

\* Five.
LEMMA FiveInOrder ==
    ASSUME NEW a \in D!Transaction, NEW b \in D!Transaction, NEW c \in D!Transaction,
           NEW d \in D!Transaction, NEW e \in D!Transaction,
           D!Follows(a, b), D!Follows(b, c), D!Follows(c, d), D!Follows(d, e),
           e \notin {"Apply", "Finish"}
    PROVE  Operation(<<a, b, c, d, e>>, a, e)
BY DEF Operation, D!Ordered

\* Six.
LEMMA SixInOrder ==
    ASSUME NEW a \in D!Transaction, NEW b \in D!Transaction, NEW c \in D!Transaction,
           NEW d \in D!Transaction, NEW e \in D!Transaction, NEW f \in D!Transaction,
           D!Follows(a, b), D!Follows(b, c), D!Follows(c, d), D!Follows(d, e), D!Follows(e, f),
           f \notin {"Apply", "Finish"}
    PROVE  Operation(<<a, b, c, d, e, f>>, a, f)
BY DEF Operation, D!Ordered

\* The operations a session is given are in order.
LEMMA ShortOpsInOrder ==
    /\ Operation(D!AskOp, "Ask", "AskGate") /\ Operation(D!GrantOp, "Grant", "ResumePhase")
    /\ Operation(D!DenyOp, "Deny", "DenyGate") /\ Operation(D!FailOp, "Cleanup", "Fail")
    /\ Operation(D!CancelOp, "CancelRun", "Cancel") /\ Operation(D!OpenOp, "Insert", "Ensure")
    /\ Operation(D!ClaimOp, "Claim", "Fence") /\ Operation(D!PublishOp, "Publish", "Digest")
    /\ Operation(D!LocalGates, "unit", "ci_packaging") /\ Operation(D!FinishOp, "Finish", "CompletePhase")
<1>1. /\ D!Follows("Ask", "AskPhase") /\ D!Follows("AskPhase", "AskGate")
      /\ D!Follows("Deny", "DenyPhase") /\ D!Follows("DenyPhase", "DenyGate")
      /\ D!Follows("CancelRun", "Cleanup") /\ D!Follows("Cleanup", "Cancel")
  BY DEF D!Follows
<1>2. /\ D!Follows("Grant", "GrantPhase") /\ D!Follows("GrantPhase", "GrantGate")
      /\ D!Follows("GrantGate", "ResumePhase")
      /\ D!Follows("unit", "integration") /\ D!Follows("integration", "review")
      /\ D!Follows("review", "ci_packaging")
  BY DEF D!Follows
<1>3. /\ D!Follows("Cleanup", "Fail") /\ D!Follows("Insert", "Ensure") /\ D!Follows("Claim", "Fence")
      /\ D!Follows("Publish", "Digest")
  BY DEF D!Follows
<1>4. /\ D!Follows("Finish", "Commit") /\ D!Follows("Commit", "Summary")
      /\ D!Follows("Summary", "Complete") /\ D!Follows("Complete", "CompletePhase")
  BY DEF D!Follows
<1>5. Operation(D!AskOp, "Ask", "AskGate") /\ Operation(D!DenyOp, "Deny", "DenyGate")
      /\ Operation(D!CancelOp, "CancelRun", "Cancel")
  BY <1>1, Transactions, ThreeInOrder DEF D!AskOp, D!DenyOp, D!CancelOp
<1>6. Operation(D!GrantOp, "Grant", "ResumePhase") /\ Operation(D!LocalGates, "unit", "ci_packaging")
  BY <1>2, Transactions, FourInOrder DEF D!GrantOp, D!LocalGates
<1>7. Operation(D!FailOp, "Cleanup", "Fail") /\ Operation(D!OpenOp, "Insert", "Ensure")
      /\ Operation(D!ClaimOp, "Claim", "Fence") /\ Operation(D!PublishOp, "Publish", "Digest")
  BY <1>3, Transactions, TwoInOrder DEF D!FailOp, D!OpenOp, D!ClaimOp, D!PublishOp
<1>8. Operation(D!FinishOp, "Finish", "CompletePhase")
  BY <1>4, Transactions, FiveInOrder DEF D!FinishOp
<1> QED BY <1>5, <1>6, <1>7, <1>8

\* The work between the claim and the artifact.
LEMMA WorkInOrder == Operation(D!WorkOp, "Evaluate", "ci_packaging")
<1>1. /\ D!Follows("Evaluate", "AllowGate") /\ D!Follows("AllowGate", "Check")
      /\ D!Follows("Check", "Apply") /\ D!Follows("Apply", "Spawn") /\ D!Follows("Spawn", "Probe")
      /\ D!Follows("Probe", "unit")
  BY DEF D!Follows
<1>2. Operation(<<"Evaluate", "AllowGate", "Check", "Apply", "Spawn", "Probe">>, "Evaluate", "Probe")
  BY <1>1, Transactions, SixInOrder
<1> QED BY <1>1, <1>2, ShortOpsInOrder, OpThenOp DEF D!WorkOp

\* What comes after the claim, after an adoption, and in a recovery.
LEMMA LongOpsInOrder ==
    /\ Operation(D!FreshRun, "Insert", "CompletePhase")
    /\ Operation(<<"Adopt">> \o D!WorkOp \o D!PublishOp \o D!FinishOp, "Adopt", "CompletePhase")
    /\ \A artifact \in {<<>>, D!PublishOp} :
        Operation(<<"Adopt">> \o artifact \o <<"Probe">> \o D!LocalGates \o D!FinishOp,
           "Adopt", "CompletePhase")
<1>0. /\ D!Follows("Ensure", "Claim") /\ D!Follows("Fence", "Attempt")
      /\ D!Follows("Attempt", "Evaluate") /\ D!Follows("ci_packaging", "Publish")
      /\ D!Follows("Digest", "Finish") /\ D!Follows("Adopt", "Evaluate")
      /\ D!Follows("Adopt", "Publish") /\ D!Follows("Adopt", "Probe") /\ D!Follows("Digest", "Probe")
      /\ D!Follows("Probe", "unit") /\ D!Follows("ci_packaging", "Finish")
  BY DEF D!Follows
<1>1. Operation(<<"Attempt">>, "Attempt", "Attempt") /\ Operation(<<"Adopt">>, "Adopt", "Adopt")
      /\ Operation(<<"Probe">>, "Probe", "Probe")
  BY OneTransaction, Transactions
<1>2. Operation(D!FreshRun, "Insert", "CompletePhase")
  <2>1. Operation(D!OpenOp \o D!ClaimOp, "Insert", "Fence")
    BY <1>0, ShortOpsInOrder, OpThenOp
  <2>2. Operation((D!OpenOp \o D!ClaimOp) \o <<"Attempt">>, "Insert", "Attempt")
    BY <1>0, <1>1, <2>1, OpThenOp
  <2>3. Operation(((D!OpenOp \o D!ClaimOp) \o <<"Attempt">>) \o D!WorkOp, "Insert", "ci_packaging")
    BY <1>0, <2>2, WorkInOrder, OpThenOp
  <2>4. Operation((((D!OpenOp \o D!ClaimOp) \o <<"Attempt">>) \o D!WorkOp) \o D!PublishOp, "Insert", "Digest")
    BY <1>0, <2>3, ShortOpsInOrder, OpThenOp
  <2>5. Operation(((((D!OpenOp \o D!ClaimOp) \o <<"Attempt">>) \o D!WorkOp) \o D!PublishOp) \o D!FinishOp,
           "Insert", "CompletePhase")
    BY <1>0, <2>4, ShortOpsInOrder, OpThenOp
  <2> QED BY <2>5 DEF D!FreshRun
<1>3. Operation(<<"Adopt">> \o D!WorkOp \o D!PublishOp \o D!FinishOp, "Adopt", "CompletePhase")
  <2>1. Operation(<<"Adopt">> \o D!WorkOp, "Adopt", "ci_packaging")
    BY <1>0, <1>1, WorkInOrder, OpThenOp
  <2>2. Operation((<<"Adopt">> \o D!WorkOp) \o D!PublishOp, "Adopt", "Digest")
    BY <1>0, <2>1, ShortOpsInOrder, OpThenOp
  <2> QED BY <1>0, <2>2, ShortOpsInOrder, OpThenOp
<1>4. ASSUME NEW artifact \in {<<>>, D!PublishOp}
      PROVE  Operation(<<"Adopt">> \o artifact \o <<"Probe">> \o D!LocalGates \o D!FinishOp,
                "Adopt", "CompletePhase")
  <2>1. PICK last : Operation(<<"Adopt">> \o artifact, "Adopt", last) /\ last \in {"Adopt", "Digest"}
    <3>1. CASE artifact = <<>>
      <4>1. <<"Adopt">> \o artifact = <<"Adopt">>
        BY <3>1
      <4> QED BY <1>1, <4>1
    <3>2. CASE artifact = D!PublishOp
      BY <1>0, <1>1, <3>2, ShortOpsInOrder, OpThenOp
    <3> QED BY <3>1, <3>2
  <2>2. Operation((<<"Adopt">> \o artifact) \o <<"Probe">>, "Adopt", "Probe")
    BY <1>0, <1>1, <2>1, OpThenOp
  <2>3. Operation(((<<"Adopt">> \o artifact) \o <<"Probe">>) \o D!LocalGates, "Adopt", "ci_packaging")
    BY <1>0, <2>2, ShortOpsInOrder, OpThenOp
  <2> QED BY <1>0, <2>3, ShortOpsInOrder, OpThenOp
<1> QED BY <1>2, <1>3, <1>4

-----------------------------------------------------------------------------
\* What no step takes back.
NothingTakenBack ==
    /\ x1' = x1
    /\ x2 # NoRow => x2' # NoRow
    /\ x4 # NoRow => x4' # NoRow
    /\ x4 # NoRow /\ x4.dec = "approved" => x4'.dec = "approved"
    /\ x4 # NoRow /\ x4.dec = "denied" => x4'.dec = "denied"
    /\ x3 => x3'
    /\ x7 = "succeeded" => x7' = "succeeded"

\* What a session relies on is not taken back by another.
LEMMA EstablishedKept ==
    ASSUME NothingTakenBack, NEW l, D!Established(l), l = "Spawn" => x9' = x9
    PROVE  D!Established(l)'
BY DEF NothingTakenBack, D!Established, D!Permitted, D!Granted

\* One session goes on with memory m.
LEMMA SessionGoesOn ==
    ASSUME D!DeliveryInv, NothingTakenBack, NEW s \in Paths, NEW m \in D!Memory,
           x10' = [x10 EXCEPT ![s] = m], x9' = x9 \/ D!Label(s) = "Spawn",
           D!Ordered(m.todo), D!Established(NextOf(m))',
           m.open /\ NextOf(m) # "Insert" => m.rrev # 0,
           m.rrev # 0 => x2' # NoRow,
           NextOf(m) = "Spawn" => D!Label(s) = "Spawn" \/ ~x3
    PROVE  /\ x10' \in [Paths -> D!Memory]
           /\ \A t \in Paths : D!SessionSound(t)'
           /\ D!OneSpawns'
<1>1. x10 \in [Paths -> D!Memory]
  BY DEF D!DeliveryInv, D!DeliverySound, D!DeliveryTypeOK
<1>2. /\ x10' \in [Paths -> D!Memory] /\ x10'[s] = m
      /\ \A t \in Paths \ {s} : x10'[t] = x10[t]
  BY <1>1
<1>3. D!Label(s)' = NextOf(m) /\ \A t \in Paths \ {s} : D!Label(t)' = D!Label(t)
  BY <1>2 DEF D!Label, NextOf
<1>4. D!OneSpawns'
  <2>1. ASSUME NEW t \in Paths \ {s}, D!Label(t) = "Spawn" PROVE NextOf(m) # "Spawn"
    <3>1. D!SessionSound(t) /\ (D!Label(s) = "Spawn" => s = t)
      BY <2>1 DEF D!DeliveryInv, D!OneSpawns
    <3>2. x3
      BY <2>1, <3>1 DEF D!SessionSound, D!Established
    <3> QED BY <2>1, <3>1, <3>2
  <2> QED BY <1>3, <2>1 DEF D!DeliveryInv, D!OneSpawns
<1>5. ASSUME NEW t \in Paths \ {s} PROVE D!SessionSound(t)'
  <2>1. D!SessionSound(t)
    BY DEF D!DeliveryInv
  <2>2. D!Label(t) = "Spawn" => x9' = x9
    BY DEF D!DeliveryInv, D!OneSpawns
  <2>3. PICK l : l = D!Label(t)
    OBVIOUS
  <2>4. D!Established(l)'
    BY <2>1, <2>2, <2>3, EstablishedKept DEF D!SessionSound
  <2>5. x10'[t] = x10[t] /\ l = D!Label(t)'
    BY <1>2, <1>3, <2>3
  <2> QED BY <2>1, <2>3, <2>4, <2>5 DEF D!SessionSound, NothingTakenBack
<1>6. D!SessionSound(s)'
  <2>1. PICK l : l = NextOf(m)
    OBVIOUS
  <2>2. D!Established(l)' /\ l = D!Label(s)'
    BY <1>3, <2>1
  <2> QED BY <1>2, <1>3, <2>1, <2>2 DEF D!SessionSound
<1> QED BY <1>2, <1>4, <1>5, <1>6

\* No session moves.
LEMMA SessionsRest ==
    ASSUME D!DeliveryInv, NothingTakenBack, x10' = x10, x9' = x9
    PROVE  /\ x10' \in [Paths -> D!Memory]
           /\ \A t \in Paths : D!SessionSound(t)'
           /\ D!OneSpawns'
<1>1. \A t \in Paths : D!Label(t)' = D!Label(t)
  BY DEF D!Label
<1>2. ASSUME NEW t \in Paths PROVE D!SessionSound(t)'
  <2>1. D!SessionSound(t)
    BY DEF D!DeliveryInv
  <2>2. PICK l : l = D!Label(t)
    OBVIOUS
  <2>3. D!Established(l)' /\ l = D!Label(t)'
    BY <1>1, <2>1, <2>2, EstablishedKept DEF D!SessionSound
  <2> QED BY <2>1, <2>2, <2>3 DEF D!SessionSound, NothingTakenBack
<1> QED BY <1>1, <1>2 DEF D!DeliveryInv, D!DeliverySound, D!DeliveryTypeOK, D!OneSpawns

\* A session in the middle of an operation: what it is, and what it is after
\* its next transaction or an error.
LEMMA InTheMiddle ==
    ASSUME D!DeliveryInv, NEW s \in Paths, D!Label(s) # "idle"
    PROVE  /\ x10[s] \in D!Memory /\ x10[s].open /\ x10[s].todo # <<>>
           /\ D!Label(s) = Head(x10[s].todo) /\ D!Ordered(x10[s].todo)
           /\ D!SessionSound(s) /\ D!Established(D!Label(s))
           /\ D!Label(s) # "Insert" => x10[s].rrev # 0 /\ x2 \in D!Receipt /\ x2 # NoRow
<1>1. x10[s] \in D!Memory /\ x2 \in D!Receipt \union {NoRow} /\ D!SessionSound(s)
  BY DEF D!DeliveryInv, D!DeliverySound, D!DeliveryTypeOK
<1>2. x10[s].open /\ x10[s].todo # <<>> /\ D!Label(s) = Head(x10[s].todo)
  BY DEF D!Label
<1> QED BY <1>1, <1>2 DEF D!SessionSound

\* The error leaves nothing to do.
LEMMA AfterAnError ==
    ASSUME D!DeliveryInv, NEW s \in Paths, D!Label(s) # "idle"
    PROVE  /\ D!Failed(s) \in D!Memory /\ D!Ordered(D!Failed(s).todo) /\ NextOf(D!Failed(s)) = "idle"
           /\ D!Failed(s).rrev = x10[s].rrev /\ D!Failed(s).open /\ D!Failed(s).todo = <<>>
<1>1. x10[s] \in D!Memory /\ x10[s].open
  BY InTheMiddle
<1>2. <<>> \in Seq(D!Transaction) /\ Len(<<>>) = 0
  OBVIOUS
<1>3. /\ D!Failed(s) \in D!Memory /\ D!Failed(s).todo = <<>>
      /\ D!Failed(s).rrev = x10[s].rrev /\ D!Failed(s).open
  BY <1>1, <1>2 DEF D!Failed, D!Memory
<1> QED BY <1>2, <1>3 DEF D!Ordered, NextOf

\* The next transaction is one that may come after this one.
LEMMA AfterTheNext ==
    ASSUME D!DeliveryInv, NEW s \in Paths, D!Label(s) # "idle"
    PROVE  /\ D!Advanced(s) \in D!Memory /\ D!Advanced(s).open /\ D!Advanced(s).rrev = x10[s].rrev
           /\ D!Ordered(D!Advanced(s).todo)
           /\ D!Advanced(s).todo = Tail(x10[s].todo)
           /\ \/ NextOf(D!Advanced(s)) = "idle"
              \/ D!Follows(D!Label(s), NextOf(D!Advanced(s)))
<1>1. /\ x10[s] \in D!Memory /\ x10[s].open /\ x10[s].todo # <<>>
      /\ D!Label(s) = Head(x10[s].todo) /\ D!Ordered(x10[s].todo)
  BY InTheMiddle
<1>2. x10[s].todo \in Seq(D!Transaction)
  BY <1>1 DEF D!Memory
<1>3. PICK t \in Seq(D!Transaction) : t = x10[s].todo
  BY <1>2
<1>4. /\ Tail(t) \in Seq(D!Transaction) /\ D!Ordered(Tail(t))
      /\ Tail(t) # <<>> => D!Follows(Head(t), Head(Tail(t)))
  BY <1>1, <1>3, OrderedTail
<1>5. /\ D!Advanced(s) \in D!Memory /\ D!Advanced(s).todo = Tail(t)
      /\ D!Advanced(s).rrev = x10[s].rrev /\ D!Advanced(s).open
  BY <1>1, <1>3, <1>4 DEF D!Advanced, D!Memory
<1> QED BY <1>1, <1>3, <1>4, <1>5 DEF NextOf

\* The half of the invariant about the sessions.
PathsInv ==
    x10 \in [Paths -> D!Memory] /\ D!OneSpawns /\ \A s \in Paths : D!SessionSound(s)

\* The half about the rows.
RowsTyped ==
    /\ x1 \in {"allow", "ask", "deny"}
    /\ x2 \in D!Receipt \union {NoRow} /\ x4 \in D!ApprovalRow \union {NoRow}
    /\ x6 \in D!DeliveryRow \union {NoRow}
    /\ x3 \in BOOLEAN /\ x5 \in BOOLEAN /\ x8 \in BOOLEAN
    /\ x7 \in {"none", "running", "expired", "succeeded", "cancelled"}
    /\ x9 \in Nat
RowsInv == RowsTyped /\ D!CompletedIsTrue /\ D!EffectOnce /\ D!PhaseFollowsDecision /\ D!RowsSound

\* The invariant is the two halves together.
LEMMA TwoHalves == D!DeliveryInv <=> RowsInv /\ PathsInv
BY DEF D!DeliveryInv, RowsInv, PathsInv, D!DeliverySound, D!DeliveryTypeOK, RowsTyped

\* And so after a step.
LEMMA TwoHalvesNext == ASSUME RowsInv', PathsInv' PROVE D!DeliveryInv'
BY DEF D!DeliveryInv, RowsInv, PathsInv, D!DeliverySound, D!DeliveryTypeOK, RowsTyped

\* A step that touches no row keeps what the rows say.
LEMMA RowsRest ==
    ASSUME RowsInv, UNCHANGED <<x1, D!store, x7, x8, x9>>
    PROVE  RowsInv' /\ NothingTakenBack
BY DEF RowsInv, D!store, NothingTakenBack, RowsTyped, D!CompletedIsTrue, D!EffectOnce, D!PhaseFollowsDecision,
       D!RowsSound, D!Delivery, D!Granted

\* Session s goes on to its next transaction.
LEMMA Advances ==
    ASSUME D!DeliveryInv, NothingTakenBack, NEW s \in Paths, D!Label(s) # "idle", x2' # NoRow,
           NEW m \in D!Memory, m.open, m.todo = Tail(x10[s].todo), m.rrev # 0,
           x10' = [x10 EXCEPT ![s] = m], x9' = x9 \/ D!Label(s) = "Spawn",
           \A l : D!Follows(D!Label(s), l) => D!Established(l)',
           D!Label(s) = "Apply" => ~x3
    PROVE  PathsInv'
<1>1. /\ D!Ordered(m.todo) /\ NextOf(m) = NextOf(D!Advanced(s))
      /\ (NextOf(m) = "idle" \/ D!Follows(D!Label(s), NextOf(m)))
  BY AfterTheNext DEF NextOf
<1>2. PICK l : l = NextOf(m)
  OBVIOUS
<1>3. D!Established("idle")'
  BY DEF D!Established
<1>4. D!Established(l)'
  BY <1>1, <1>2, <1>3
<1>5. l = "Spawn" => D!Label(s) = "Apply"
  BY <1>1, <1>2 DEF D!Follows
<1>6. D!Established(NextOf(m))'
  BY <1>2, <1>4
<1> QED BY <1>1, <1>2, <1>5, <1>6, SessionGoesOn DEF PathsInv

\* Session s has nothing more to do, or is gone.
LEMMA Stops ==
    ASSUME D!DeliveryInv, NothingTakenBack, NEW s \in Paths, NEW m \in D!Memory,
           ~m.open \/ m.todo = <<>>, D!Ordered(m.todo),
           m.open => m.rrev # 0, m.rrev # 0 => x2' # NoRow,
           x10' = [x10 EXCEPT ![s] = m], x9' = x9 \/ D!Label(s) = "Spawn"
    PROVE  PathsInv'
<1>1. NextOf(m) = "idle"
  BY DEF NextOf
<1>2. PICK l : l = NextOf(m)
  OBVIOUS
<1>3. D!Established(l)'
  BY <1>1, <1>2 DEF D!Established
<1>4. D!Established(NextOf(m))'
  BY <1>2, <1>3
<1> QED BY <1>1, <1>4, SessionGoesOn DEF PathsInv

\* Session s begins the operation todo.
LEMMA Begins ==
    ASSUME D!DeliveryInv, NothingTakenBack, NEW s \in Paths, NEW m \in D!Memory, NEW f, NEW l,
           Operation(m.todo, f, l), f \notin {"AllowGate", "Check", "Apply", "Spawn", "Summary",
                "Complete", "AskPhase", "GrantPhase", "GrantGate", "ResumePhase", "DenyPhase"},
           f = "Ask" => x1 = "ask",
           m.open, f # "Insert" => m.rrev # 0, m.rrev # 0 => x2' # NoRow,
           x10' = [x10 EXCEPT ![s] = m], x9' = x9
    PROVE  PathsInv'
<1>1. m.todo \in Seq(D!Transaction) /\ m.todo # <<>> /\ Head(m.todo) = f /\ D!Ordered(m.todo)
  <2>1. m.todo \in Seq(D!Transaction) /\ Len(m.todo) > 0 /\ m.todo[1] = f /\ D!Ordered(m.todo)
    BY DEF Operation
  <2>2. m.todo # <<>>
    BY <2>1
  <2> QED BY <2>1, <2>2
<1>2. NextOf(m) = f
  BY <1>1 DEF NextOf
<1>3. D!Established(f)'
  BY DEF D!Established, NothingTakenBack
<1>4. D!Established(NextOf(m))'
  BY <1>2, <1>3
<1> QED BY <1>1, <1>2, <1>4, SessionGoesOn DEF PathsInv

-----------------------------------------------------------------------------
(* The transactions, one by one. *)

\* A closed session knows nothing.
LEMMA ClosedIsMemory ==
    D!Closed \in D!Memory /\ ~D!Closed.open /\ D!Closed.rrev = 0 /\ D!Ordered(D!Closed.todo)
<1>1. <<>> \in Seq(D!Transaction) /\ Len(<<>>) = 0
  OBVIOUS
<1> QED BY <1>1, DeliveryAssumption DEF D!Closed, D!Memory, D!Ordered

\* DogfoodPath::open_durable.
LEMMA OpenKeeps == ASSUME D!DeliveryInv, NEW s \in Paths, D!Open(s) PROVE D!DeliveryInv'
<1>1. PICK m : m = [D!Closed EXCEPT !.open = TRUE, !.todo = D!FreshRun]
  OBVIOUS
<1>2. Operation(D!FreshRun, "Insert", "CompletePhase")
  BY LongOpsInOrder
<1>3. m \in D!Memory /\ m.open /\ m.todo = D!FreshRun /\ m.rrev = 0
  BY <1>1, <1>2, ClosedIsMemory DEF D!Memory, Operation
<1>4. RowsInv' /\ NothingTakenBack
  BY TwoHalves, RowsRest DEF D!Open
<1>5. x10' = [x10 EXCEPT ![s] = m] /\ x9' = x9
  BY <1>1 DEF D!Open
<1>6. PathsInv'
  BY <1>2, <1>3, <1>4, <1>5, Begins
<1> QED BY <1>4, <1>6, TwoHalvesNext

\* DogfoodPath::reopen.
LEMMA ReopenKeeps == ASSUME D!DeliveryInv, NEW s \in Paths, D!Reopen(s) PROVE D!DeliveryInv'
<1>1. PICK m : m = [D!Closed EXCEPT !.open = TRUE, !.rrev = x2.rev, !.art = x2.art,
                       !.prev = D!Delivery.rev, !.dig = IF x4 = NoRow THEN 0 ELSE x4.rev]
  OBVIOUS
<1>2. x2 \in D!Receipt /\ (x4 = NoRow \/ x4 \in D!ApprovalRow)
      /\ (x6 = NoRow \/ x6 \in D!DeliveryRow)
  BY DEF D!Reopen, D!DeliveryInv, D!DeliverySound, D!DeliveryTypeOK
<1>3. /\ x2.rev \in 1 .. MaxRevision /\ x2.art \in BOOLEAN /\ D!Delivery.rev \in Nat
      /\ (IF x4 = NoRow THEN 0 ELSE x4.rev) \in 0 .. MaxRevision
  BY <1>2, DeliveryAssumption DEF D!Receipt, D!ApprovalRow, D!DeliveryRow, D!Delivery
<1>4. m \in D!Memory /\ m.open /\ m.todo = <<>> /\ m.rrev # 0 /\ D!Ordered(m.todo)
  <2>1. PICK a, r, p, d : /\ a = x2.art /\ r = x2.rev /\ p = D!Delivery.rev
                          /\ d = IF x4 = NoRow THEN 0 ELSE x4.rev
    OBVIOUS
  <2>2. /\ r \in 0 .. MaxRevision /\ r # 0 /\ a \in BOOLEAN /\ p \in Nat
        /\ d \in 0 .. MaxRevision
    BY <1>3, <2>1, DeliveryAssumption
  <2>3. m = [D!Closed EXCEPT !.open = TRUE, !.rrev = r, !.art = a, !.prev = p, !.dig = d]
    BY <1>1, <2>1
  <2>4. m \in D!Memory /\ m.open /\ m.todo = D!Closed.todo /\ m.rrev = r
    BY ONLY <2>2, <2>3, ClosedIsMemory DEF D!Memory
  <2> QED BY <2>2, <2>4, ClosedIsMemory DEF D!Closed
<1>5. RowsInv' /\ NothingTakenBack
  BY TwoHalves, RowsRest DEF D!Reopen
<1>6. x10' = [x10 EXCEPT ![s] = m] /\ x9' = x9 /\ x2' # NoRow
  BY <1>1 DEF D!Reopen, D!store
<1>7. PathsInv'
  BY <1>4, <1>5, <1>6, Stops
<1> QED BY <1>5, <1>7, TwoHalvesNext

\* The process of a session dies.
LEMMA CrashKeeps == ASSUME D!DeliveryInv, NEW s \in Paths, D!Crash(s) PROVE D!DeliveryInv'
<1>1. RowsInv' /\ NothingTakenBack
  BY TwoHalves, RowsRest DEF D!Crash
<1>2. x10' = [x10 EXCEPT ![s] = D!Closed] /\ x9' = x9
  BY DEF D!Crash
<1>3. PathsInv'
  BY <1>1, <1>2, ClosedIsMemory, Stops
<1> QED BY <1>1, <1>3, TwoHalvesNext

\* The session goes on, or not, and no row changes.
LEMMA QuietKeeps ==
    ASSUME D!DeliveryInv, NEW s \in Paths, D!Label(s) \notin {"idle", "Insert", "Apply"},
           UNCHANGED <<x1, D!store, x7, x8, x9>>,
           NEW m \in D!Memory, x10' = [x10 EXCEPT ![s] = m], m.open, m.rrev # 0,
           \/ m.todo = <<>>
           \/ /\ m.todo = Tail(x10[s].todo)
              /\ \A l : D!Follows(D!Label(s), l) => D!Established(l)'
    PROVE  D!DeliveryInv'
<1>1. RowsInv' /\ NothingTakenBack /\ x2' # NoRow
  BY TwoHalves, RowsRest, InTheMiddle DEF D!store
<1>2. D!Ordered(<<>>)
  BY DEF D!Ordered
<1>3. CASE m.todo = <<>>
  <2>1. PathsInv'
    BY <1>1, <1>2, <1>3, Stops
  <2> QED BY <1>1, <2>1, TwoHalvesNext
<1>4. CASE /\ m.todo = Tail(x10[s].todo)
           /\ \A l : D!Follows(D!Label(s), l) => D!Established(l)'
  BY <1>1, <1>4, Advances, TwoHalvesNext
<1> QED BY <1>3, <1>4

\* reclaim_or_adopt_after_restart.
LEMMA AdoptKeeps == ASSUME D!DeliveryInv, NEW s \in Paths, D!Adopt(s) PROVE D!DeliveryInv'
<1>1. D!Label(s) = "Adopt" /\ x10[s].rrev # 0
  BY InTheMiddle DEF D!Adopt
<1>2. PICK m : m = IF x10[s].claimed THEN D!Advanced(s)
        ELSE IF x7 \in {"succeeded", "cancelled"} THEN [D!Advanced(s) EXCEPT !.permit = TRUE]
        ELSE IF x7 = "running" /\ x5
             THEN [D!Advanced(s) EXCEPT !.permit = TRUE, !.claimed = TRUE]
             ELSE D!Failed(s)
  OBVIOUS
<1>3. /\ D!Advanced(s) \in D!Memory /\ D!Advanced(s).open /\ D!Advanced(s).rrev = x10[s].rrev
      /\ D!Advanced(s).todo = Tail(x10[s].todo)
      /\ D!Failed(s) \in D!Memory /\ D!Failed(s).open /\ D!Failed(s).rrev = x10[s].rrev
      /\ D!Failed(s).todo = <<>>
  BY <1>1, AfterTheNext, AfterAnError
<1>4. m \in D!Memory /\ m.open /\ m.rrev # 0 /\ (m.todo = <<>> \/ m.todo = Tail(x10[s].todo))
  BY <1>1, <1>2, <1>3 DEF D!Memory
<1>5. \A l : D!Follows("Adopt", l) => D!Established(l)'
  BY DEF D!Follows, D!Established
<1>6. x10' = [x10 EXCEPT ![s] = m]
  BY <1>2 DEF D!Adopt
<1> QED BY <1>1, <1>4, <1>5, <1>6, QuietKeeps DEF D!Adopt

\* execute_process_effect, before its transaction.
LEMMA CheckKeeps == ASSUME D!DeliveryInv, NEW s \in Paths, D!CheckEffect(s) PROVE D!DeliveryInv'
<1>1. D!Label(s) = "Check" /\ x10[s].rrev # 0 /\ D!Permitted
  BY InTheMiddle DEF D!CheckEffect, D!Established
<1>2. PICK m : m = IF x10[s].permit /\ (x3 \/ D!AllowsEffect(D!Delivery.phase))
                    THEN D!Advanced(s) ELSE D!Failed(s)
  OBVIOUS
<1>3. m \in D!Memory /\ m.open /\ m.rrev # 0 /\ (m.todo = <<>> \/ m.todo = Tail(x10[s].todo))
  BY <1>1, <1>2, AfterTheNext, AfterAnError
<1>4. D!Permitted'
  BY <1>1 DEF D!CheckEffect, D!store, D!Permitted, D!Granted
<1>5. \A l : D!Follows("Check", l) => D!Established(l)'
  BY <1>4 DEF D!Follows, D!Established
<1>6. x10' = [x10 EXCEPT ![s] = m]
  BY <1>2 DEF D!CheckEffect
<1> QED BY <1>1, <1>3, <1>5, <1>6, QuietKeeps DEF D!CheckEffect

\* publish_artifact.
LEMMA PublishKeeps == ASSUME D!DeliveryInv, NEW s \in Paths, D!PublishArtifact(s) PROVE D!DeliveryInv'
<1>1. D!Label(s) = "Publish" /\ x10[s].rrev # 0
  BY InTheMiddle DEF D!PublishArtifact
<1>2. PICK m : m = [D!Advanced(s) EXCEPT !.art = TRUE]
  OBVIOUS
<1>3. m \in D!Memory /\ m.open /\ m.rrev # 0 /\ m.todo = Tail(x10[s].todo)
  BY <1>1, <1>2, AfterTheNext DEF D!Memory
<1>4. \A l : D!Follows("Publish", l) => D!Established(l)'
  BY DEF D!Follows, D!Established
<1>5. x10' = [x10 EXCEPT ![s] = m]
  BY <1>2 DEF D!PublishArtifact
<1> QED BY <1>1, <1>3, <1>4, <1>5, QuietKeeps DEF D!PublishArtifact

\* finish_success: a run that succeeded is not committed again.
LEMMA FinishKeeps == ASSUME D!DeliveryInv, NEW s \in Paths, D!FinishSuccess(s) PROVE D!DeliveryInv'
<1>1. /\ D!Label(s) = "Finish" /\ x10[s].rrev # 0 /\ x10[s] \in D!Memory /\ x10[s].open
      /\ x2 \in D!Receipt /\ x2 # NoRow
      /\ x10[s].todo # <<>> /\ Head(x10[s].todo) = "Finish" /\ D!Ordered(x10[s].todo)
  BY InTheMiddle DEF D!FinishSuccess
<1>2. x2.rev \in 1 .. MaxRevision /\ x2.rev # 0 /\ x2.rev \in 0 .. MaxRevision
  BY <1>1, DeliveryAssumption DEF D!Receipt
<1>3. RowsInv' /\ NothingTakenBack /\ x2' # NoRow /\ x9' = x9 /\ x7' = x7
  BY <1>1, TwoHalves, RowsRest DEF D!FinishSuccess, D!store
<1>4. /\ D!Advanced(s) \in D!Memory /\ D!Advanced(s).open
      /\ D!Advanced(s).todo = Tail(x10[s].todo) /\ D!Ordered(D!Advanced(s).todo)
      /\ D!Failed(s) \in D!Memory /\ D!Failed(s).open /\ D!Failed(s).todo = <<>>
  BY <1>1, AfterTheNext, AfterAnError
<1>5. CASE ~(x2.status = "open" /\ x7 = "succeeded")
  <2>1. PICK m : m = IF x2.status = "open" /\ x7 \in {"running", "expired"}
                            /\ x10[s].claimed /\ x10[s].art
                     THEN [D!Advanced(s) EXCEPT !.rrev = x2.rev]
                     ELSE [D!Failed(s) EXCEPT !.rrev = x2.rev]
    OBVIOUS
  <2>2. x10' = [x10 EXCEPT ![s] = m]
    BY <1>5, <2>1 DEF D!FinishSuccess
  <2>3. m \in D!Memory /\ m.open /\ m.rrev # 0 /\ (m.todo = <<>> \/ m.todo = Tail(x10[s].todo))
    BY <1>2, <1>4, <2>1 DEF D!Memory
  <2>4. \A l : D!Follows("Finish", l) => D!Established(l)'
    BY DEF D!Follows, D!Established
  <2> QED BY <1>1, <2>2, <2>3, <2>4, QuietKeeps DEF D!FinishSuccess
<1>6. CASE x2.status = "open" /\ x7 = "succeeded"
  <2>1. PICK t \in Seq(D!Transaction) : t = Tail(x10[s].todo)
    BY <1>4 DEF D!Memory
  <2>2. PICK m : m = [x10[s] EXCEPT !.rrev = x2.rev, !.todo = Tail(t)]
    OBVIOUS
  <2>3. x10' = [x10 EXCEPT ![s] = m]
    BY <1>6, <2>1, <2>2 DEF D!FinishSuccess
  <2>4. t # <<>> /\ D!Ordered(t) /\ D!Follows("Finish", Head(t))
    BY <1>1, <1>4, <2>1, OrderedTail DEF D!Memory
  <2>5. /\ Tail(t) \in Seq(D!Transaction) /\ D!Ordered(Tail(t))
        /\ (Tail(t) # <<>> => D!Follows(Head(t), Head(Tail(t))))
    BY <2>4, OrderedTail
  <2>6. m \in D!Memory /\ m.open /\ m.rrev # 0 /\ m.todo = Tail(t)
    <3>1. PICK r \in 0 .. MaxRevision, u \in Seq(D!Transaction) : r = x2.rev /\ u = Tail(t)
      BY <1>2, <2>5
    <3>2. m = [x10[s] EXCEPT !.rrev = r, !.todo = u]
      BY <2>2, <3>1
    <3> QED BY <1>1, <1>2, <3>1, <3>2 DEF D!Memory
  <2>7. PICK l : l = NextOf(m)
    OBVIOUS
  <2>8. l = "idle" \/ (D!Follows("Finish", Head(t)) /\ D!Follows(Head(t), l))
    BY <2>4, <2>5, <2>6, <2>7 DEF NextOf
  <2>9. D!Established(l)' /\ l # "Spawn" /\ l # "Insert"
    BY <1>3, <1>6, <2>8 DEF D!Follows, D!Established
  <2>10. PathsInv'
    BY <1>3, <2>3, <2>5, <2>6, <2>7, <2>9, SessionGoesOn DEF PathsInv
  <2> QED BY <1>3, <2>10, TwoHalvesNext
<1> QED BY <1>5, <1>6

\* The caller of an idle session asks for an operation.
LEMMA CallKeeps ==
    ASSUME D!DeliveryInv, NEW s \in Paths, x10[s].open, D!Label(s) # "Insert",
           UNCHANGED <<x1, D!store, x7, x8, x9>>,
           NEW todo, NEW f, NEW l, Operation(todo, f, l),
           f \in {"Grant", "Deny", "Adopt", "CancelRun", "Unresolved"},
           NEW c \in BOOLEAN, x10' = [x10 EXCEPT ![s] = [x10[s] EXCEPT !.todo = todo, !.cancel = c]]
    PROVE  D!DeliveryInv'
<1>1. PICK m : m = [x10[s] EXCEPT !.todo = todo, !.cancel = c]
  OBVIOUS
<1>2. x10[s] \in D!Memory /\ x10[s].rrev # 0 /\ x2 # NoRow
  BY DEF D!DeliveryInv, D!DeliverySound, D!DeliveryTypeOK, D!SessionSound
<1>3. m \in D!Memory /\ m.todo = todo /\ m.open /\ m.rrev = x10[s].rrev
  BY <1>1, <1>2 DEF D!Memory, Operation
<1>4. RowsInv' /\ NothingTakenBack /\ x2' # NoRow
  BY <1>2, TwoHalves, RowsRest DEF D!store
<1>5. PathsInv'
  <2>1. x10' = [x10 EXCEPT ![s] = m] /\ Operation(m.todo, f, l) /\ m.rrev # 0
    BY <1>1, <1>2, <1>3
  <2>2. /\ f \notin {"AllowGate", "Check", "Apply", "Spawn", "Summary",
                "Complete", "AskPhase", "GrantPhase", "GrantGate", "ResumePhase", "DenyPhase"}
        /\ f # "Ask"
    OBVIOUS
  <2> QED BY <1>3, <1>4, <2>1, <2>2, Begins
<1> QED BY <1>4, <1>5, TwoHalvesNext

\* grant, deny and the work that goes on.
LEMMA GrantDenyContinueKeep ==
    ASSUME D!DeliveryInv, NEW s \in Paths,
           D!GrantApproval(s) \/ D!DenyApproval(s) \/ D!Continue(s)
    PROVE  D!DeliveryInv'
<1>1. PICK todo, f, l : /\ D!Call(s, todo) /\ Operation(todo, f, l) /\ f \in {"Grant", "Deny", "Adopt"}
  BY ShortOpsInOrder, LongOpsInOrder DEF D!GrantApproval, D!DenyApproval, D!Continue
<1>2. x10[s] \in D!Memory /\ x10[s].open /\ D!Label(s) = "idle"
  BY <1>1 DEF D!DeliveryInv, D!DeliverySound, D!DeliveryTypeOK, D!Call, D!Label
<1>3. PICK c \in BOOLEAN : c = x10[s].cancel
  BY <1>2 DEF D!Memory
<1>4. [x10[s] EXCEPT !.todo = todo] = [x10[s] EXCEPT !.todo = todo, !.cancel = c]
  BY <1>2, <1>3 DEF D!Memory
<1>5. x10' = [x10 EXCEPT ![s] = [x10[s] EXCEPT !.todo = todo, !.cancel = c]]
  BY <1>1, <1>4 DEF D!Call
<1> QED BY <1>1, <1>2, <1>3, <1>5, CallKeeps DEF D!Call

\* cancel_path.
LEMMA CancelPathKeeps == ASSUME D!DeliveryInv, NEW s \in Paths, D!CancelPath(s) PROVE D!DeliveryInv'
<1>1. x10' = [x10 EXCEPT ![s] = [x10[s] EXCEPT !.todo = D!CancelOp, !.cancel = TRUE]]
  <2>1. x10 \in [Paths -> D!Memory]
    BY DEF D!DeliveryInv, D!DeliverySound, D!DeliveryTypeOK
  <2> QED BY <2>1 DEF D!CancelPath
<1> QED BY <1>1, ShortOpsInOrder, CallKeeps DEF D!CancelPath

\* recover_after_crash.
LEMMA RecoverKeeps ==
    ASSUME D!DeliveryInv, NEW s \in Paths, D!RecoverAfterCrash(s)
    PROVE  D!DeliveryInv'
<1>1. PICK artifact \in {<<>>, D!PublishOp} : artifact = IF x10[s].art THEN <<>> ELSE D!PublishOp
  OBVIOUS
<1>2. PICK todo : todo = IF x3 THEN <<"Adopt">> \o artifact \o <<"Probe">> \o D!LocalGates \o D!FinishOp
                         ELSE <<"Unresolved">>
  OBVIOUS
<1>3. \E f, l : Operation(todo, f, l) /\ f \in {"Adopt", "Unresolved"}
  BY <1>2, LongOpsInOrder, OneTransaction, Transactions
<1>4. x10' = [x10 EXCEPT ![s] = [x10[s] EXCEPT !.todo = todo, !.cancel = FALSE]]
  <2>1. x10 \in [Paths -> D!Memory]
    BY DEF D!DeliveryInv, D!DeliverySound, D!DeliveryTypeOK
  <2> QED BY <1>1, <1>2, <2>1 DEF D!RecoverAfterCrash
<1>5. D!Label(s) = "idle"
  BY DEF D!RecoverAfterCrash, D!Label
<1> QED BY <1>3, <1>4, <1>5, CallKeeps DEF D!RecoverAfterCrash

\* evaluate_permission: only a permission leads on to the effect.
LEMMA EvaluateKeeps ==
    ASSUME D!DeliveryInv, NEW s \in Paths, D!EvaluatePermission(s)
    PROVE  D!DeliveryInv'
<1>1. /\ D!Label(s) = "Evaluate" /\ x10[s].rrev # 0 /\ x10[s] \in D!Memory /\ x10[s].open
      /\ x2 # NoRow
  BY InTheMiddle DEF D!EvaluatePermission
<1>2. PICK todo :
        todo = IF D!Delivery.phase = "denied" \/ (D!Delivery.phase = "approval_required" /\ ~D!Granted)
               THEN <<>>
               ELSE IF (IF D!Granted THEN "allow" ELSE x1) = "deny" THEN D!FailOp
               ELSE IF (IF D!Granted THEN "allow" ELSE x1) = "ask" THEN D!AskOp
               ELSE Tail(x10[s].todo)
  OBVIOUS
<1>3. PICK m : m = [x10[s] EXCEPT !.todo = todo]
  OBVIOUS
<1>4. x10' = [x10 EXCEPT ![s] = m]
  <2>1. x10 \in [Paths -> D!Memory]
    BY DEF D!DeliveryInv, D!DeliverySound, D!DeliveryTypeOK
  <2> QED BY <1>2, <1>3, <2>1 DEF D!EvaluatePermission
<1>5. RowsInv' /\ NothingTakenBack /\ x2' # NoRow /\ UNCHANGED <<x1, D!store, x7, x8, x9>>
  BY <1>1, TwoHalves, RowsRest DEF D!EvaluatePermission, D!store
<1>6. ASSUME todo \in Seq(D!Transaction)
      PROVE  m \in D!Memory /\ m.todo = todo /\ m.open /\ m.rrev = x10[s].rrev
  BY <1>1, <1>3, <1>6 DEF D!Memory
<1>7. CASE todo = <<>>
  <2>1. todo \in Seq(D!Transaction)
    BY <1>7
  <2> QED BY <1>1, <1>4, <1>5, <1>6, <1>7, <2>1, QuietKeeps
<1>8. CASE todo \in {D!FailOp, D!AskOp} /\ (todo = D!AskOp => x1 = "ask")
  <2>1. PICK f, l : Operation(todo, f, l) /\ f \in {"Cleanup", "Ask"} /\ (f = "Ask" => x1 = "ask")
    BY <1>8, ShortOpsInOrder
  <2>2. todo \in Seq(D!Transaction)
    BY <2>1 DEF Operation
  <2>3. PathsInv'
    BY <1>1, <1>4, <1>5, <1>6, <2>1, <2>2, Begins
  <2> QED BY <1>5, <2>3, TwoHalvesNext
<1>9. CASE todo = Tail(x10[s].todo) /\ (D!Granted \/ x1 = "allow")
  <2>1. todo \in Seq(D!Transaction)
    BY <1>1, <1>9, AfterTheNext DEF D!Memory
  <2>2. D!Permitted'
    <3>1. x4 # NoRow => x1 = "ask"
      BY DEF D!DeliveryInv, D!RowsSound
    <3> QED BY <1>5, <1>9, <3>1 DEF D!Permitted, D!Granted, D!store
  <2>3. \A l : D!Follows("Evaluate", l) => D!Established(l)'
    BY <2>2 DEF D!Follows, D!Established
  <2> QED BY <1>1, <1>4, <1>5, <1>6, <1>9, <2>1, <2>3, QuietKeeps
<1>10. x1 \in {"allow", "ask", "deny"}
  BY DEF D!DeliveryInv, D!DeliverySound, D!DeliveryTypeOK
<1>11. \/ todo = D!FailOp \/ todo = D!AskOp \/ todo = <<>>
       \/ todo = Tail(x10[s].todo) /\ (D!Granted \/ x1 = "allow")
  BY <1>2, <1>10
<1>12. /\ todo = D!AskOp /\ todo # <<>>
       /\ ~(todo = Tail(x10[s].todo) /\ (D!Granted \/ x1 = "allow"))
       => x1 = "ask" \/ todo = D!FailOp
  BY <1>2, <1>10
<1>13. D!AskOp # D!FailOp
  <2>1. D!AskOp[1] = "Ask" /\ D!FailOp[1] = "Cleanup"
    BY DEF D!AskOp, D!FailOp
  <2> QED BY <2>1
<1> QED BY <1>7, <1>8, <1>9, <1>11, <1>12, <1>13

\* insert_open_receipt.
LEMMA InsertKeeps == ASSUME D!DeliveryInv, NEW s \in Paths, D!InsertReceipt(s) PROVE D!DeliveryInv'
<1>1. /\ D!Label(s) = "Insert" /\ x10[s] \in D!Memory
      /\ UNCHANGED <<x1, x3, x4, x5, x6, x7, x8, x9>>
  BY InTheMiddle DEF D!InsertReceipt
<1>2. CASE x2 # NoRow
  <2>1. UNCHANGED <<x1, D!store, x7, x8, x9>> /\ x10' = [x10 EXCEPT ![s] = D!Closed]
    BY <1>1, <1>2 DEF D!InsertReceipt, D!store
  <2>2. RowsInv' /\ NothingTakenBack
    BY <2>1, TwoHalves, RowsRest
  <2>3. PathsInv'
    BY <2>1, <2>2, ClosedIsMemory, Stops
  <2> QED BY <2>2, <2>3, TwoHalvesNext
<1>3. CASE x2 = NoRow
  <2>1. PICK m : m = [D!Advanced(s) EXCEPT !.rrev = 1]
    OBVIOUS
  <2>2. m \in D!Memory /\ m.open /\ m.todo = Tail(x10[s].todo) /\ m.rrev # 0
    <3>1. 1 \in 0 .. MaxRevision
      BY DeliveryAssumption
    <3> QED BY <1>1, <2>1, <3>1, AfterTheNext DEF D!Memory
  <2>3. x10' = [x10 EXCEPT ![s] = m] /\ x9' = x9
    BY <1>1, <1>3, <2>1 DEF D!InsertReceipt
  <2>4. x2' \in D!Receipt /\ x2'.status = "open" /\ x2'.truth = "unknown"
    <3>1. x2' = [rev |-> 1, status |-> "open", truth |-> "unknown", local |-> {},
                   art |-> FALSE]
      BY <1>3 DEF D!InsertReceipt
    <3>2. 1 \in 1 .. MaxRevision /\ {} \in SUBSET D!Range(D!LocalGates)
      BY DeliveryAssumption
    <3> QED BY ONLY <3>1, <3>2 DEF D!Receipt
  <2>5. RowsInv' /\ NothingTakenBack /\ x2' # NoRow
    <3>1. x2' # NoRow
      BY <2>4, DeliveryAssumption
    <3>2. RowsTyped' /\ D!CompletedIsTrue'
      BY <1>1, <2>4, TwoHalves DEF RowsInv, RowsTyped, D!CompletedIsTrue
    <3>3. D!EffectOnce' /\ D!PhaseFollowsDecision' /\ D!RowsSound'
      BY <1>1, <2>4, TwoHalves
         DEF RowsInv, D!EffectOnce, D!PhaseFollowsDecision, D!RowsSound, D!Granted, D!Delivery
    <3> QED BY <1>1, <1>3, <3>1, <3>2, <3>3 DEF NothingTakenBack, RowsInv
  <2>6. \A l : D!Follows("Insert", l) => D!Established(l)'
    BY DEF D!Follows, D!Established
  <2>7. PathsInv'
    BY <1>1, <2>2, <2>3, <2>5, <2>6, Advances
  <2> QED BY <2>5, <2>7, TwoHalvesNext
<1> QED BY <1>2, <1>3

\* The sessions after a step that changes rows and takes nothing back.
LEMMA GoesOnKeeps ==
    ASSUME D!DeliveryInv, RowsInv', NothingTakenBack, NEW s \in Paths,
           D!Label(s) \notin {"idle", "Insert", "Apply"},
           NEW m \in D!Memory, x10' = [x10 EXCEPT ![s] = m], m.open, m.rrev # 0,
           x9' = x9 \/ D!Label(s) = "Spawn",
           \/ m.todo = <<>>
           \/ /\ m.todo = Tail(x10[s].todo)
              /\ \A l : D!Follows(D!Label(s), l) => D!Established(l)'
    PROVE  D!DeliveryInv'
<1>1. x2' # NoRow
  BY InTheMiddle DEF NothingTakenBack
<1>2. D!Ordered(<<>>)
  BY DEF D!Ordered
<1>3. CASE m.todo = <<>>
  <2>1. PathsInv'
    BY <1>1, <1>2, <1>3, Stops
  <2> QED BY <2>1, TwoHalvesNext
<1>4. CASE /\ m.todo = Tail(x10[s].todo)
           /\ \A l : D!Follows(D!Label(s), l) => D!Established(l)'
  BY <1>1, <1>4, Advances, TwoHalvesNext
<1> QED BY <1>3, <1>4

\* ensure_delivery_running.
LEMMA EnsureKeeps ==
    ASSUME D!DeliveryInv, NEW s \in Paths, D!EnsureDeliveryRunning(s)
    PROVE  D!DeliveryInv'
<1>1. /\ D!Label(s) = "Ensure" /\ x10[s] \in D!Memory /\ x10[s].rrev # 0
      /\ UNCHANGED <<x1, x2, x3, x4, x5, x7, x8, x9>>
  BY InTheMiddle DEF D!EnsureDeliveryRunning
<1>2. x6 \in D!DeliveryRow \union {NoRow}
  BY DEF D!DeliveryInv, D!DeliverySound, D!DeliveryTypeOK
<1>3. x6' \in D!DeliveryRow /\ (x6'.phase = D!Delivery.phase)
  BY <1>2 DEF D!EnsureDeliveryRunning, D!DeliveryRow, D!Delivery
<1>4. x6' # NoRow /\ D!Delivery'.phase = D!Delivery.phase /\ x6'.rev \in Nat
  BY <1>3, DeliveryAssumption DEF D!Delivery, D!DeliveryRow
<1>5. PICK m : m = [D!Advanced(s) EXCEPT !.prev = x6'.rev]
  OBVIOUS
<1>6. m \in D!Memory /\ m.open /\ m.todo = Tail(x10[s].todo) /\ m.rrev # 0
  BY <1>1, <1>4, <1>5, AfterTheNext DEF D!Memory
<1>7. x10' = [x10 EXCEPT ![s] = m]
  BY <1>5 DEF D!EnsureDeliveryRunning
<1>8. RowsInv' /\ NothingTakenBack
  <2>1. RowsTyped' /\ D!CompletedIsTrue'
    BY <1>1, <1>3, TwoHalves DEF RowsInv, RowsTyped, D!CompletedIsTrue
  <2>2. D!EffectOnce' /\ D!PhaseFollowsDecision' /\ D!RowsSound'
    BY <1>1, <1>4, TwoHalves
       DEF RowsInv, D!EffectOnce, D!PhaseFollowsDecision, D!RowsSound, D!Granted
  <2> QED BY <1>1, <2>1, <2>2 DEF NothingTakenBack, RowsInv
<1>9. \A l : D!Follows("Ensure", l) => D!Established(l)'
  BY DEF D!Follows, D!Established
<1> QED BY <1>1, <1>6, <1>7, <1>8, <1>9, GoesOnKeeps

\* The run changes, but not once it has succeeded.
LEMMA RunMoves ==
    ASSUME D!DeliveryInv, UNCHANGED <<x1, x2, x3, x4, x6, x8, x9>>,
           x5' \in BOOLEAN,
           x7' \in {"none", "running", "expired", "succeeded", "cancelled"},
           x7 = "succeeded" => x7' = "succeeded"
    PROVE  RowsInv' /\ NothingTakenBack
<1>1. RowsTyped' /\ D!CompletedIsTrue'
  BY TwoHalves DEF RowsInv, RowsTyped, D!CompletedIsTrue
<1>2. D!EffectOnce' /\ D!PhaseFollowsDecision' /\ D!RowsSound'
  BY TwoHalves DEF RowsInv, D!EffectOnce, D!PhaseFollowsDecision, D!RowsSound, D!Granted, D!Delivery
<1> QED BY <1>1, <1>2 DEF NothingTakenBack, RowsInv

\* create_or_adopt_agent_run and the claim.
LEMMA ClaimKeeps == ASSUME D!DeliveryInv, NEW s \in Paths, D!Claim(s) PROVE D!DeliveryInv'
<1>1. D!Label(s) = "Claim" /\ x10[s] \in D!Memory /\ x10[s].rrev # 0
  BY InTheMiddle DEF D!Claim
<1>2. PICK m : m = IF x7 = "none" THEN [D!Advanced(s) EXCEPT !.claimed = TRUE, !.permit = TRUE]
                   ELSE D!Failed(s)
  OBVIOUS
<1>3. m \in D!Memory /\ m.open /\ m.rrev # 0 /\ (m.todo = <<>> \/ m.todo = Tail(x10[s].todo))
  BY <1>1, <1>2, AfterTheNext, AfterAnError DEF D!Memory
<1>4. x10' = [x10 EXCEPT ![s] = m] /\ x9' = x9
  BY <1>2 DEF D!Claim, D!Stop
<1>5. RowsInv' /\ NothingTakenBack
  <2>1. /\ x5' \in BOOLEAN /\ (x7 = "succeeded" => x7' = "succeeded")
        /\ x7' \in {"none", "running", "expired", "succeeded", "cancelled"}
        /\ UNCHANGED <<x1, x2, x3, x4, x6, x8, x9>>
    BY DEF D!Claim, D!store, D!DeliveryInv, D!DeliverySound, D!DeliveryTypeOK
  <2> QED BY <2>1, RunMoves
<1>6. \A l : D!Follows("Claim", l) => D!Established(l)'
  BY DEF D!Follows, D!Established
<1> QED BY <1>1, <1>3, <1>4, <1>5, <1>6, GoesOnKeeps

\* put_lease_fence.
LEMMA FenceKeeps == ASSUME D!DeliveryInv, NEW s \in Paths, D!PutLeaseFence(s) PROVE D!DeliveryInv'
<1>1. D!Label(s) = "Fence" /\ x10[s] \in D!Memory /\ x10[s].rrev # 0
  BY InTheMiddle DEF D!PutLeaseFence
<1>2. PICK m : m = D!Advanced(s)
  OBVIOUS
<1>3. m \in D!Memory /\ m.open /\ m.rrev # 0 /\ m.todo = Tail(x10[s].todo)
  BY <1>1, <1>2, AfterTheNext
<1>4. x10' = [x10 EXCEPT ![s] = m] /\ x9' = x9
  BY <1>2 DEF D!PutLeaseFence
<1>5. RowsInv' /\ NothingTakenBack
  <2>1. /\ x5' \in BOOLEAN /\ x7' = x7
        /\ x7' \in {"none", "running", "expired", "succeeded", "cancelled"}
        /\ UNCHANGED <<x1, x2, x3, x4, x6, x8, x9>>
    BY DEF D!PutLeaseFence, D!DeliveryInv, D!DeliverySound, D!DeliveryTypeOK
  <2> QED BY <2>1, RunMoves
<1>6. \A l : D!Follows("Fence", l) => D!Established(l)'
  BY DEF D!Follows, D!Established
<1> QED BY <1>1, <1>3, <1>4, <1>5, <1>6, GoesOnKeeps

\* The lease of the run expires.
LEMMA ExpiryKeeps == ASSUME D!DeliveryInv, D!LeaseExpires PROVE D!DeliveryInv'
<1>1. /\ x5' \in BOOLEAN /\ (x7 = "succeeded" => x7' = "succeeded")
      /\ x7' \in {"none", "running", "expired", "succeeded", "cancelled"}
      /\ UNCHANGED <<x1, x2, x3, x4, x6, x8, x9>>
  BY DEF D!LeaseExpires, D!store, D!DeliveryInv, D!DeliverySound, D!DeliveryTypeOK
<1>2. RowsInv' /\ NothingTakenBack
  BY <1>1, RunMoves
<1>3. PathsInv'
  BY <1>1, <1>2, SessionsRest DEF D!LeaseExpires, PathsInv
<1> QED BY <1>2, <1>3, TwoHalvesNext

\* commit_completion.
LEMMA CommitKeeps == ASSUME D!DeliveryInv, NEW s \in Paths, D!CommitCompletion(s) PROVE D!DeliveryInv'
<1>1. D!Label(s) = "Commit" /\ x10[s] \in D!Memory /\ x10[s].rrev # 0
  BY InTheMiddle DEF D!CommitCompletion
<1>2. PICK m : m = IF x7 = "running" THEN D!Advanced(s) ELSE D!Failed(s)
  OBVIOUS
<1>3. m \in D!Memory /\ m.open /\ m.rrev # 0
      /\ (m.todo = <<>> \/ (m.todo = Tail(x10[s].todo) /\ x7' = "succeeded"))
  BY <1>1, <1>2, AfterTheNext, AfterAnError DEF D!CommitCompletion
<1>4. x10' = [x10 EXCEPT ![s] = m] /\ x9' = x9
  BY <1>2 DEF D!CommitCompletion, D!Stop
<1>5. RowsInv' /\ NothingTakenBack
  <2>1. /\ x5' \in BOOLEAN /\ (x7 = "succeeded" => x7' = "succeeded")
        /\ x7' \in {"none", "running", "expired", "succeeded", "cancelled"}
        /\ UNCHANGED <<x1, x2, x3, x4, x6, x8, x9>>
    BY DEF D!CommitCompletion, D!store, D!DeliveryInv, D!DeliverySound, D!DeliveryTypeOK
  <2> QED BY <2>1, RunMoves
<1>6. x7' = "succeeded" => \A l : D!Follows("Commit", l) => D!Established(l)'
  BY DEF D!Follows, D!Established
<1> QED BY <1>1, <1>3, <1>4, <1>5, <1>6, GoesOnKeeps

\* cancel_path: the run is cancelled, unless it succeeded.
LEMMA CancelRunKeeps == ASSUME D!DeliveryInv, NEW s \in Paths, D!CancelRun(s) PROVE D!DeliveryInv'
<1>1. D!Label(s) = "CancelRun" /\ x10[s] \in D!Memory /\ x10[s].rrev # 0
  BY InTheMiddle DEF D!CancelRun
<1>2. PICK m : m = D!Advanced(s)
  OBVIOUS
<1>3. m \in D!Memory /\ m.open /\ m.rrev # 0 /\ m.todo = Tail(x10[s].todo)
  BY <1>1, <1>2, AfterTheNext
<1>4. x10' = [x10 EXCEPT ![s] = m] /\ x9' = x9
  BY <1>2 DEF D!CancelRun
<1>5. RowsInv' /\ NothingTakenBack
  <2>1. /\ x5' \in BOOLEAN /\ (x7 = "succeeded" => x7' = "succeeded")
        /\ x7' \in {"none", "running", "expired", "succeeded", "cancelled"}
        /\ UNCHANGED <<x1, x2, x3, x4, x6, x8, x9>>
    BY DEF D!CancelRun, D!store, D!DeliveryInv, D!DeliverySound, D!DeliveryTypeOK
  <2> QED BY <2>1, RunMoves
<1>6. \A l : D!Follows("CancelRun", l) => D!Established(l)'
  BY DEF D!Follows, D!Established
<1> QED BY <1>1, <1>3, <1>4, <1>5, <1>6, GoesOnKeeps

\* A row of the table of approvals is there, and keeps its decision.
LEMMA RowMoves ==
    ASSUME D!DeliveryInv,
           UNCHANGED <<x1, x2, x3, x5, x6, x7, x8, x9>>,
           x4' = x4 \/ x4' \in D!ApprovalRow, x4' # NoRow => x1 = "ask",
           x4 # NoRow => x4' # NoRow,
           x4 # NoRow /\ x4.dec \in {"approved", "denied"} => x4'.dec = x4.dec
    PROVE  RowsInv' /\ NothingTakenBack
<1>1. RowsTyped' /\ D!CompletedIsTrue'
  BY TwoHalves DEF RowsInv, RowsTyped, D!CompletedIsTrue
<1>2. NothingTakenBack /\ D!RowsSound'
  BY TwoHalves DEF NothingTakenBack, RowsInv, D!RowsSound
<1>3. D!Granted => D!Granted'
  BY DEF D!Granted
<1>4. D!EffectOnce' /\ D!PhaseFollowsDecision'
  BY <1>3, TwoHalves DEF RowsInv, D!EffectOnce, D!PhaseFollowsDecision, D!Delivery, D!Granted
<1> QED BY <1>1, <1>2, <1>4 DEF RowsInv

\* record_approval_required.
LEMMA AskKeeps ==
    ASSUME D!DeliveryInv, NEW s \in Paths, D!RecordApprovalRequired(s)
    PROVE  D!DeliveryInv'
<1>1. /\ D!Label(s) = "Ask" /\ x10[s] \in D!Memory /\ x10[s].rrev # 0 /\ x1 = "ask"
      /\ UNCHANGED <<x1, x2, x3, x5, x6, x7, x8, x9>>
  BY InTheMiddle DEF D!RecordApprovalRequired, D!Established
<1>2. PICK rev \in 1 .. MaxRevision : rev = x10[s].rrev
  BY <1>1, DeliveryAssumption DEF D!Memory
<1>3. x4 \in D!ApprovalRow \union {NoRow}
  BY DEF D!DeliveryInv, D!DeliverySound, D!DeliveryTypeOK
<1>4. CASE x4 = NoRow \/ x4.rev = rev
  <2>1. PICK m : m = [D!Advanced(s) EXCEPT !.dig = rev]
    OBVIOUS
  <2>2. m \in D!Memory /\ m.open /\ m.rrev # 0 /\ m.todo = Tail(x10[s].todo)
    <3>1. rev \in 0 .. MaxRevision
      BY <1>2, DeliveryAssumption
    <3> QED BY <1>1, <2>1, <3>1, AfterTheNext DEF D!Memory
  <2>3. x10' = [x10 EXCEPT ![s] = m] /\ x9' = x9
    BY <1>1, <1>2, <1>4, <2>1 DEF D!RecordApprovalRequired
  <2>4. x4' \in D!ApprovalRow /\ (x4 # NoRow => x4' = x4)
    <3>1. [dec |-> "pending", rev |-> rev, gen |-> 0] \in D!ApprovalRow
      BY DEF D!ApprovalRow
    <3> QED BY <1>2, <1>3, <1>4, <3>1 DEF D!RecordApprovalRequired
  <2>5. x4' # NoRow
    BY <2>4, DeliveryAssumption
  <2>6. RowsInv' /\ NothingTakenBack
    BY <1>1, <2>4, <2>5, RowMoves
  <2>7. \A l : D!Follows("Ask", l) => D!Established(l)'
    BY <2>5 DEF D!Follows, D!Established
  <2> QED BY <1>1, <2>2, <2>3, <2>6, <2>7, GoesOnKeeps
<1>5. CASE ~(x4 = NoRow \/ x4.rev = rev)
  <2>1. x10' = [x10 EXCEPT ![s] = D!Failed(s)] /\ x4' = x4
    BY <1>2, <1>5 DEF D!RecordApprovalRequired, D!Stop
  <2>2. UNCHANGED <<x1, D!store, x7, x8, x9>>
    BY <1>1, <2>1 DEF D!store
  <2>3. D!Failed(s) \in D!Memory /\ D!Failed(s).open /\ D!Failed(s).rrev # 0 /\ D!Failed(s).todo = <<>>
    BY <1>1, AfterAnError
  <2> QED BY <1>1, <2>1, <2>2, <2>3, QuietKeeps
<1> QED BY <1>4, <1>5

\* A decision of a pending row, or the same decision again.
LEMMA DecisionMoves ==
    ASSUME D!DeliveryInv, x4 # NoRow, NEW dec \in {"approved", "denied"}, NEW gen \in 1 .. 2,
           D!Decides(x4, dec, x4.rev, gen), x4' = D!Decided(dec, gen)
    PROVE  /\ x4' \in D!ApprovalRow /\ x4' # NoRow /\ x4'.dec = dec
           /\ x4.dec \in {"pending", dec} /\ (x4.dec # "pending" => x4' = x4)
<1>1. x4 \in D!ApprovalRow /\ gen \in 0 .. 2
  BY DEF D!DeliveryInv, D!DeliverySound, D!DeliveryTypeOK
<1>2. x4' = [x4 EXCEPT !.dec = dec, !.gen = gen]
  BY DEF D!Decided
<1>3. x4' \in D!ApprovalRow /\ x4'.dec = dec
  BY <1>1, <1>2 DEF D!ApprovalRow
<1>4. x4.dec = "pending" \/ (x4.dec = dec /\ x4.gen = gen)
  BY DEF D!Decides
<1>5. ASSUME x4.dec = dec, x4.gen = gen PROVE x4' = x4
  BY <1>1, <1>2, <1>5 DEF D!ApprovalRow
<1> QED BY <1>3, <1>4, <1>5, DeliveryAssumption

\* grant_approval and deny_approval of a session.
LEMMA DecideKeeps == ASSUME D!DeliveryInv, NEW s \in Paths, D!Decide(s) PROVE D!DeliveryInv'
<1>1. /\ D!Label(s) \in {"Grant", "Deny"} /\ x10[s] \in D!Memory /\ x10[s].rrev # 0
      /\ UNCHANGED <<x1, x2, x3, x5, x6, x7, x8, x9>>
  BY InTheMiddle DEF D!Decide
<1>2. PICK dec \in {"approved", "denied"} :
        dec = IF D!Label(s) = "Grant" THEN "approved" ELSE "denied"
  OBVIOUS
<1>3. CASE x10' = [x10 EXCEPT ![s] = D!Failed(s)] /\ x4' = x4
  <2>1. UNCHANGED <<x1, D!store, x7, x8, x9>>
    BY <1>1, <1>3 DEF D!store
  <2>2. D!Failed(s) \in D!Memory /\ D!Failed(s).open /\ D!Failed(s).rrev # 0 /\ D!Failed(s).todo = <<>>
    BY <1>1, AfterAnError
  <2> QED BY <1>1, <1>3, <2>1, <2>2, QuietKeeps
<1>4. CASE /\ D!Decides(x4, dec, x4.rev, 1) /\ x4' = D!Decided(dec, 1)
           /\ x10' = [x10 EXCEPT ![s] = D!Advanced(s)]
  <2>1. x4 # NoRow
    BY <1>4 DEF D!Decides
  <2>2. /\ x4' \in D!ApprovalRow /\ x4' # NoRow /\ x4'.dec = dec
        /\ x4.dec \in {"pending", dec}
    BY <1>4, <2>1, DecisionMoves
  <2>3. RowsInv' /\ NothingTakenBack
    <3>1. x1 = "ask"
      BY <2>1 DEF D!DeliveryInv, D!RowsSound
    <3> QED BY <1>1, <2>1, <2>2, <3>1, RowMoves
  <2>4. \A l : D!Follows(D!Label(s), l) => D!Established(l)'
    BY <1>1, <1>2, <2>2 DEF D!Follows, D!Established, D!Granted
  <2>5. /\ D!Advanced(s) \in D!Memory /\ D!Advanced(s).open /\ D!Advanced(s).rrev # 0
        /\ D!Advanced(s).todo = Tail(x10[s].todo)
    BY <1>1, AfterTheNext
  <2> QED BY <1>1, <1>4, <2>3, <2>4, <2>5, GoesOnKeeps
<1> QED BY <1>1, <1>2, <1>3, <1>4 DEF D!Decide, D!Stop

\* The phase an event leads to.
LEMMA EventDecidesPhase ==
    ASSUME NEW p, NEW e, NEW q \in D!Successors(p, e)
    PROVE  /\ e = "ask" => q = "approval_required"
           /\ e = "grant" => q = "approved"
           /\ e = "deny" => q = "denied"
           /\ e = "resume" => q = "resuming"
           /\ e = "complete" => q = "completed"
           /\ e \in {"ask", "grant", "deny", "resume", "complete"}
<1>1. <<p, e, q>> \in D!Transitions
  BY DEF D!Successors
<1> QED BY <1>1 DEF D!Transitions

\* The phase moves to one that the rows stand for.
LEMMA PhaseMoves ==
    ASSUME D!DeliveryInv,
           UNCHANGED <<x1, x2, x3, x4, x5, x7, x8, x9>>,
           x6' \in D!DeliveryRow,
           x6'.phase = "denied" => x4 # NoRow /\ x4.dec = "denied",
           x6'.phase \in {"approved", "resuming"} => D!Granted,
           x6'.phase = "approval_required" => x4 # NoRow
    PROVE  RowsInv' /\ NothingTakenBack
<1>1. x6' # NoRow
  BY DeliveryAssumption
<1>2. RowsTyped' /\ D!CompletedIsTrue' /\ D!RowsSound' /\ NothingTakenBack
  BY TwoHalves DEF RowsInv, RowsTyped, D!CompletedIsTrue, D!RowsSound, NothingTakenBack
<1>3. D!EffectOnce'
  BY TwoHalves DEF RowsInv, D!EffectOnce, D!Granted
<1>4. D!PhaseFollowsDecision'
  BY <1>1 DEF D!PhaseFollowsDecision, D!Delivery, D!Granted
<1> QED BY <1>2, <1>3, <1>4 DEF RowsInv

\* set_delivery_phase: the phase follows the row.
LEMMA PhaseKeeps == ASSUME D!DeliveryInv, NEW s \in Paths, D!SetDeliveryPhase(s) PROVE D!DeliveryInv'
<1>0. DOMAIN D!PhaseEvent = {"AskPhase", "GrantPhase", "ResumePhase", "DenyPhase", "CompletePhase"}
  BY DEF D!PhaseEvent
<1>1. /\ D!Label(s) \in {"AskPhase", "GrantPhase", "ResumePhase", "DenyPhase", "CompletePhase"}
      /\ UNCHANGED <<x1, x2, x3, x4, x5, x7, x8, x9>>
  BY <1>0 DEF D!SetDeliveryPhase
<1>2. x10[s] \in D!Memory /\ x10[s].rrev # 0 /\ D!Established(D!Label(s))
  BY <1>1, InTheMiddle
<1>3. /\ D!Delivery.rev \in Nat /\ D!Delivery.asked \in BOOLEAN
      /\ D!Delivery.rev + 1 \in Nat \ {0}
  <2>1. x6 = NoRow \/ x6 \in D!DeliveryRow
    BY DEF D!DeliveryInv, D!DeliverySound, D!DeliveryTypeOK
  <2>2. CASE x6 = NoRow
    BY <2>2 DEF D!Delivery
  <2>3. CASE x6 # NoRow
    <3>1. D!Delivery = x6 /\ x6.rev \in Nat /\ x6.asked \in BOOLEAN
      BY <2>1, <2>3 DEF D!Delivery, D!DeliveryRow
    <3> QED BY <3>1
  <2> QED BY <2>2, <2>3
<1>4. CASE \E p \in D!NextPhases(s, D!PhaseEvent[D!Label(s)]) :
                /\ x6' = [phase |-> p, rev |-> D!Delivery.rev + 1,
                            asked |-> D!Delivery.asked \/ x10[s].dig # 0]
                /\ x10' = [x10 EXCEPT ![s] = [D!Advanced(s) EXCEPT !.prev = D!Delivery.rev + 1]]
  <2>1. PICK p \in D!NextPhases(s, D!PhaseEvent[D!Label(s)]) :
                /\ x6' = [phase |-> p, rev |-> D!Delivery.rev + 1,
                            asked |-> D!Delivery.asked \/ x10[s].dig # 0]
                /\ x10' = [x10 EXCEPT ![s] = [D!Advanced(s) EXCEPT !.prev = D!Delivery.rev + 1]]
    BY <1>4
  <2>2. PICK e : e = D!PhaseEvent[D!Label(s)]
    OBVIOUS
  <2>3. /\ D!Label(s) = "AskPhase" => e = "ask"
        /\ D!Label(s) = "GrantPhase" => e = "grant"
        /\ D!Label(s) = "ResumePhase" => e = "resume"
        /\ D!Label(s) = "DenyPhase" => e = "deny"
        /\ D!Label(s) = "CompletePhase" => e = "complete"
    BY <2>2 DEF D!PhaseEvent
  <2>4. p \in D!Successors(D!Delivery.phase, e)
    BY <2>1, <2>2 DEF D!NextPhases
  <2>5. /\ D!Label(s) = "AskPhase" => p = "approval_required"
        /\ D!Label(s) = "GrantPhase" => p = "approved"
        /\ D!Label(s) = "ResumePhase" => p = "resuming"
        /\ D!Label(s) = "DenyPhase" => p = "denied"
        /\ D!Label(s) = "CompletePhase" => p = "completed"
    BY <2>3, <2>4, EventDecidesPhase
  <2>6. PICK n, a : n = D!Delivery.rev + 1 /\ a = (D!Delivery.asked \/ x10[s].dig # 0)
    OBVIOUS
  <2>7. a \in BOOLEAN
    BY <2>6
  <2>8. x6' = [phase |-> p, rev |-> n, asked |-> a]
    BY <2>1, <2>6
  <2>9. x6' \in D!DeliveryRow /\ x6'.phase = p
    BY <1>1, <1>3, <2>5, <2>6, <2>7, <2>8 DEF D!DeliveryRow
  <2>10. RowsInv' /\ NothingTakenBack
    BY <1>1, <1>2, <2>5, <2>9, PhaseMoves DEF D!Established
  <2>11. PICK m : m = [D!Advanced(s) EXCEPT !.prev = n]
    OBVIOUS
  <2>12. m \in D!Memory /\ m.open /\ m.rrev # 0 /\ m.todo = Tail(x10[s].todo)
    BY <1>1, <1>2, <1>3, <2>6, <2>11, AfterTheNext DEF D!Memory
  <2>13. x10' = [x10 EXCEPT ![s] = m] /\ x9' = x9
    BY <1>1, <2>1, <2>6, <2>11
  <2>14. \A l : D!Follows(D!Label(s), l) => D!Established(l)'
    BY <1>1, <1>2 DEF D!Follows, D!Established, D!Granted
  <2> QED BY <1>1, <2>10, <2>12, <2>13, <2>14, GoesOnKeeps
<1>5. CASE ~ \E p \in D!NextPhases(s, D!PhaseEvent[D!Label(s)]) :
                /\ x6' = [phase |-> p, rev |-> D!Delivery.rev + 1,
                            asked |-> D!Delivery.asked \/ x10[s].dig # 0]
                /\ x10' = [x10 EXCEPT ![s] = [D!Advanced(s) EXCEPT !.prev = D!Delivery.rev + 1]]
  <2>1. PICK m : m = IF D!Label(s) = "CompletePhase"
                            /\ (D!Delivery.rev # x10[s].prev \/ ~D!Terminal(D!Delivery.phase))
                     THEN [D!Failed(s) EXCEPT !.prev = D!Delivery.rev] ELSE D!Failed(s)
    OBVIOUS
  <2>2. x10' = [x10 EXCEPT ![s] = m] /\ x6' = x6
    BY <1>5, <2>1 DEF D!SetDeliveryPhase
  <2>3. UNCHANGED <<x1, D!store, x7, x8, x9>>
    BY <1>1, <2>2 DEF D!store
  <2>4. m \in D!Memory /\ m.open /\ m.rrev # 0 /\ m.todo = <<>>
    BY <1>1, <1>2, <1>3, <2>1, AfterAnError DEF D!Memory
  <2> QED BY <1>1, <2>2, <2>3, <2>4, QuietKeeps
<1> QED BY <1>4, <1>5

\* handle_decide_approval and handle_deny_approval.
LEMMA BoundaryKeeps ==
    ASSUME D!DeliveryInv, NEW dec \in {"approved", "denied"}, NEW gen \in 1 .. 2,
           D!BoundaryDecides(dec, gen)
    PROVE  D!DeliveryInv'
<1>1. /\ UNCHANGED <<x1, x2, x3, x5, x7, x8, x9, x10>>
      /\ x4 # NoRow /\ x6 # NoRow /\ x6' = D!AfterEvent(dec)
  BY DEF D!BoundaryDecides, D!EventApplies
<1>2. /\ x4' \in D!ApprovalRow /\ x4' # NoRow /\ x4'.dec = dec
      /\ x4.dec \in {"pending", dec}
  BY DecisionMoves DEF D!BoundaryDecides
<1>3. x1 = "ask" /\ x6 \in D!DeliveryRow /\ D!PhaseFollowsDecision /\ D!EffectOnce
  BY <1>1 DEF D!DeliveryInv, D!DeliverySound, D!DeliveryTypeOK, D!RowsSound
<1>4. D!Delivery = x6
  BY <1>1 DEF D!Delivery
<1>5. x6' \in D!DeliveryRow /\ (x6'.phase = x6.phase \/ x6'.phase = dec)
  <2>1. CASE D!Repeated(dec)
    BY <1>1, <1>3, <2>1 DEF D!AfterEvent
  <2>2. CASE ~D!Repeated(dec)
    <3>1. PICK q : q = CHOOSE p \in D!Successors(x6.phase, D!Verdict[dec]) : TRUE
      OBVIOUS
    <3>2. q \in D!Successors(x6.phase, D!Verdict[dec])
      BY <2>2, <3>1 DEF D!BoundaryDecides, D!EventApplies
    <3>3. PICK e : e = D!Verdict[dec]
      OBVIOUS
    <3>4. (dec = "approved" => e = "grant") /\ (dec = "denied" => e = "deny")
      BY <3>3 DEF D!Verdict
    <3>5. q = dec
      BY <3>2, <3>3, <3>4, EventDecidesPhase
    <3>6. PICK n, a : n = x6.rev + 1 /\ a = (x6.asked \/ dec = "approved")
      OBVIOUS
    <3>7. n \in Nat \ {0} /\ a \in BOOLEAN
      BY <1>3, <3>6 DEF D!DeliveryRow
    <3>8. x6' = [phase |-> q, rev |-> n, asked |-> a]
      BY <1>1, <2>2, <3>1, <3>6 DEF D!AfterEvent
    <3> QED BY <3>5, <3>7, <3>8 DEF D!DeliveryRow
  <2> QED BY <2>1, <2>2
<1>6. x6' # NoRow /\ D!Delivery' = x6'
  BY <1>5, DeliveryAssumption DEF D!Delivery
<1>7. D!PhaseFollowsDecision'
  BY <1>2, <1>3, <1>4, <1>5, <1>6 DEF D!PhaseFollowsDecision, D!Granted
<1>8. RowsTyped' /\ D!CompletedIsTrue' /\ D!RowsSound' /\ NothingTakenBack
  BY <1>1, <1>2, <1>3, <1>5, TwoHalves
     DEF RowsInv, RowsTyped, D!CompletedIsTrue, D!RowsSound, NothingTakenBack
<1>9. D!EffectOnce'
  BY <1>1, <1>2, <1>3 DEF D!EffectOnce, D!Granted
<1>10. RowsInv'
  BY <1>7, <1>8, <1>9 DEF RowsInv
<1>11. PathsInv'
  BY <1>1, <1>8, SessionsRest DEF PathsInv
<1> QED BY <1>10, <1>11, TwoHalvesNext

\* apply_effect_once: only a new effect leads on to its child.
LEMMA ApplyKeeps == ASSUME D!DeliveryInv, NEW s \in Paths, D!ApplyEffectOnce(s) PROVE D!DeliveryInv'
<1>1. /\ D!Label(s) = "Apply" /\ x10[s] \in D!Memory /\ x10[s].rrev # 0 /\ x10[s].open
      /\ D!Permitted /\ x2 # NoRow
      /\ x10[s].todo # <<>> /\ Head(x10[s].todo) = "Apply" /\ D!Ordered(x10[s].todo)
      /\ UNCHANGED <<x1, x2, x4, x5, x6, x7, x8, x9>> /\ x3'
  BY InTheMiddle DEF D!ApplyEffectOnce, D!Established
<1>2. x10 \in [Paths -> D!Memory] /\ x3 \in BOOLEAN
  BY DEF D!DeliveryInv, D!DeliverySound, D!DeliveryTypeOK
<1>3. RowsInv' /\ NothingTakenBack /\ x2' # NoRow /\ D!Permitted'
  <2>1. RowsTyped' /\ D!CompletedIsTrue' /\ D!RowsSound' /\ NothingTakenBack
    BY <1>1, TwoHalves DEF RowsInv, RowsTyped, D!CompletedIsTrue, D!RowsSound, NothingTakenBack, D!ApplyEffectOnce
  <2>2. D!EffectOnce' /\ D!PhaseFollowsDecision' /\ D!Permitted'
    BY <1>1, TwoHalves
       DEF RowsInv, D!EffectOnce, D!PhaseFollowsDecision, D!Granted, D!Permitted, D!Delivery
  <2> QED BY <1>1, <2>1, <2>2 DEF RowsInv, NothingTakenBack
<1>4. CASE ~x3
  <2>1. x10' = [x10 EXCEPT ![s] = D!Advanced(s)]
    BY <1>2, <1>4 DEF D!ApplyEffectOnce, D!NewEffect, D!Advanced
  <2>2. x9 = 0
    BY <1>4 DEF D!DeliveryInv, D!RowsSound
  <2>3. \A l : D!Follows("Apply", l) => D!Established(l)'
    BY <1>1, <1>3, <2>2 DEF D!Follows, D!Established
  <2>4. PathsInv'
    BY <1>1, <1>3, <1>4, <2>1, <2>3, AfterTheNext, Advances
  <2> QED BY <1>3, <2>4, TwoHalvesNext
<1>5. CASE x3
  <2>1. PICK t \in Seq(D!Transaction) : t = Tail(x10[s].todo)
    BY <1>1, AfterTheNext DEF D!Memory
  <2>2. PICK m : m = [x10[s] EXCEPT !.todo = Tail(t)]
    OBVIOUS
  <2>3. x10' = [x10 EXCEPT ![s] = m]
    BY <1>2, <1>5, <2>1, <2>2 DEF D!ApplyEffectOnce, D!NewEffect
  <2>4. t # <<>> /\ D!Ordered(t) /\ D!Follows("Apply", Head(t))
    BY <1>1, <2>1, OrderedTail DEF D!Memory
  <2>5. /\ Tail(t) \in Seq(D!Transaction) /\ D!Ordered(Tail(t))
        /\ (Tail(t) # <<>> => D!Follows(Head(t), Head(Tail(t))))
    BY <2>4, OrderedTail
  <2>6. m \in D!Memory /\ m.open /\ m.rrev # 0 /\ m.todo = Tail(t)
    <3>1. PICK u \in Seq(D!Transaction) : u = Tail(t)
      BY <2>5
    <3>2. m = [x10[s] EXCEPT !.todo = u]
      BY <2>2, <3>1
    <3> QED BY <1>1, <3>1, <3>2 DEF D!Memory
  <2>7. PICK l : l = NextOf(m)
    OBVIOUS
  <2>8. l = "idle" \/ (D!Follows("Apply", Head(t)) /\ D!Follows(Head(t), l))
    BY <2>4, <2>5, <2>6, <2>7 DEF NextOf
  <2>9. D!Established(l)' /\ l # "Spawn" /\ l # "Insert"
    BY <1>3, <2>8 DEF D!Follows, D!Established
  <2>10. PathsInv'
    BY <1>1, <1>3, <2>3, <2>5, <2>6, <2>7, <2>9, SessionGoesOn DEF PathsInv
  <2> QED BY <1>3, <2>10, TwoHalvesNext
<1> QED BY <1>4, <1>5

\* spawn_effect_child: it is the first one.
LEMMA SpawnKeeps == ASSUME D!DeliveryInv, NEW s \in Paths, D!SpawnEffectChild(s) PROVE D!DeliveryInv'
<1>1. /\ D!Label(s) = "Spawn" /\ x10[s] \in D!Memory /\ x10[s].rrev # 0
      /\ x3 /\ x9 = 0
      /\ UNCHANGED <<x1, D!store, x7>>
  BY InTheMiddle DEF D!SpawnEffectChild, D!Established
<1>2. /\ x9' \in {0, 1} /\ x8' \in BOOLEAN /\ (x8 => x8')
  <2>1. x8 \in BOOLEAN
    BY DEF D!DeliveryInv, D!DeliverySound, D!DeliveryTypeOK
  <2>2. x9' = x9 + 1 \/ x9' = x9
    BY DEF D!SpawnEffectChild
  <2>3. x8' = x8 \/ x8' = TRUE
    BY DEF D!SpawnEffectChild
  <2>4. x9' \in {0, 1}
    BY <1>1, <2>2
  <2> QED BY <2>1, <2>3, <2>4, Zenon
<1>3. RowsInv' /\ NothingTakenBack
  <2>1. RowsTyped' /\ D!CompletedIsTrue' /\ D!RowsSound' /\ NothingTakenBack
    BY <1>1, <1>2, TwoHalves DEF RowsInv, RowsTyped, D!CompletedIsTrue, D!RowsSound, NothingTakenBack, D!store
  <2>2. D!EffectOnce' /\ D!PhaseFollowsDecision'
    BY <1>1, <1>2, TwoHalves
       DEF RowsInv, D!EffectOnce, D!PhaseFollowsDecision, D!Granted, D!Delivery, D!store
  <2> QED BY <2>1, <2>2 DEF RowsInv
<1>4. PICK m \in {D!Advanced(s), D!Failed(s)} : x10' = [x10 EXCEPT ![s] = m]
  BY DEF D!SpawnEffectChild, D!Stop
<1>5. m \in D!Memory /\ m.open /\ m.rrev # 0 /\ (m.todo = <<>> \/ m.todo = Tail(x10[s].todo))
  BY <1>1, <1>4, AfterTheNext, AfterAnError
<1>6. \A l : D!Follows("Spawn", l) => D!Established(l)'
  BY DEF D!Follows, D!Established
<1> QED BY <1>1, <1>3, <1>4, <1>5, <1>6, GoesOnKeeps

\* Somebody repairs what the probe looks at.
LEMMA RepairKeeps == ASSUME D!DeliveryInv, D!MarkerRepaired PROVE D!DeliveryInv'
<1>1. /\ x8' /\ UNCHANGED <<x1, x2, x3, x4, x5, x6, x7, x9, x10>>
      /\ x8' \in BOOLEAN
  BY DEF D!MarkerRepaired, D!store
<1>2. RowsInv' /\ NothingTakenBack
  <2>1. RowsTyped' /\ D!CompletedIsTrue' /\ D!RowsSound' /\ NothingTakenBack
    BY <1>1, TwoHalves DEF RowsInv, RowsTyped, D!CompletedIsTrue, D!RowsSound, NothingTakenBack
  <2>2. D!EffectOnce' /\ D!PhaseFollowsDecision'
    BY <1>1, TwoHalves
       DEF RowsInv, D!EffectOnce, D!PhaseFollowsDecision, D!Granted, D!Delivery
  <2> QED BY <2>1, <2>2 DEF RowsInv
<1>3. PathsInv'
  BY <1>1, <1>2, SessionsRest DEF PathsInv
<1> QED BY <1>2, <1>3, TwoHalvesNext

\* What a transaction writes to the receipt.
LEMMA MutatedReceipt ==
    ASSUME NEW r \in D!Receipt, x8 \in BOOLEAN, NEW l \in D!ReceiptLabels,
           r.truth = "passed" => x8, NEW n \in 1 .. MaxRevision
    PROVE  LET next == [D!Mutated(l, r) EXCEPT !.rev = n] IN
           /\ next \in D!Receipt /\ next.rev = n
           /\ next.truth = "passed" => x8
           /\ next.status = "completed" => l = "Complete" \/ r.status = "completed"
<1> DEFINE next == [D!Mutated(l, r) EXCEPT !.rev = n]
<1>1. /\ D!Mutated(l, r) \in D!Receipt
      /\ D!Mutated(l, r).truth = "passed" => x8
      /\ D!Mutated(l, r).status = "completed" => l = "Complete" \/ r.status = "completed"
  <2>1. CASE l \in D!Range(D!LocalGates)
    <3>1. PICK u : u = r.local \union {l}
      OBVIOUS
    <3>2. u \in SUBSET D!Range(D!LocalGates)
      BY <2>1, <3>1 DEF D!Receipt
    <3>3. D!Mutated(l, r) = [r EXCEPT !.local = u]
      BY <2>1, <3>1, GateNames DEF D!Mutated
    <3> QED BY <3>2, <3>3 DEF D!Receipt
  <2>2. CASE l \notin D!Range(D!LocalGates)
    BY <2>2 DEF D!Mutated, D!Receipt
  <2> QED BY <2>1, <2>2
<1>2. PICK q \in D!Receipt : q = D!Mutated(l, r)
  BY <1>1
<1>3. /\ next \in D!Receipt /\ next.rev = n /\ next.truth = q.truth /\ next.status = q.status
  BY <1>2 DEF D!Receipt
<1> QED BY <1>1, <1>2, <1>3

\* transition_receipt: completed only after the commit.
LEMMA ReceiptKeeps == ASSUME D!DeliveryInv, NEW s \in Paths, D!ReceiptStep(s) PROVE D!DeliveryInv'
<1>1. /\ D!Label(s) \in D!ReceiptLabels
      /\ UNCHANGED <<x1, x3, x4, x5, x6, x7, x8, x9>>
  BY DEF D!ReceiptStep
<1>2. D!Label(s) \notin {"idle", "Insert", "Apply", "Evaluate", "Commit", "Ask", "Grant", "Deny",
                       "Spawn", "GrantPhase"}
  BY <1>1, GateNames DEF D!ReceiptLabels
<1>3. /\ x10[s] \in D!Memory /\ x10[s].rrev # 0 /\ D!Established(D!Label(s))
      /\ x2 \in D!Receipt /\ x2 # NoRow
  BY <1>2, InTheMiddle
<1>4. PICK l, n : l = D!Label(s) /\ n = x10[s].rrev + 1
  OBVIOUS
<1>5. PICK next : next = [D!Mutated(l, x2) EXCEPT !.rev = n]
  OBVIOUS
<1>6. CASE D!Current(s) /\ D!ValidReceipt(next)
  <2>1. x2.status = "open" /\ n \in 1 .. MaxRevision
    BY <1>3, <1>4, <1>6, DeliveryAssumption DEF D!Current, D!ReceiptStep, D!Receipt
  <2>2. /\ x8 \in BOOLEAN /\ (x2.truth = "passed" => x8)
    BY <1>3 DEF D!DeliveryInv, D!DeliverySound, D!DeliveryTypeOK, D!RowsSound
  <2>3. PICK r \in D!Receipt : r = x2
    BY <1>3
  <2>4. /\ next \in D!Receipt /\ next.rev = n
        /\ next.truth = "passed" => x8
        /\ next.status = "completed" => l = "Complete"
    BY <1>1, <1>4, <1>5, <2>1, <2>2, <2>3, MutatedReceipt
  <2>5. x2' = next /\ x2' # NoRow
    BY <1>4, <1>5, <1>6, <2>4, DeliveryAssumption DEF D!ReceiptStep
  <2>6. next.status = "completed" => x7 = "succeeded" /\ x8 /\ next.truth = "passed" /\ next.art
    BY <1>3, <1>4, <1>6, <2>4 DEF D!ValidReceipt, D!Established
  <2>7. RowsInv' /\ NothingTakenBack
    <3>1. RowsTyped'
      BY <1>1, <2>4, <2>5, TwoHalves DEF RowsInv, RowsTyped
    <3>2. D!CompletedIsTrue' /\ D!RowsSound'
      BY <1>1, <2>4, <2>5, <2>6, TwoHalves DEF D!CompletedIsTrue, D!RowsSound, RowsInv
    <3>3. D!EffectOnce' /\ D!PhaseFollowsDecision' /\ NothingTakenBack
      BY <1>1, <2>5, TwoHalves
         DEF RowsInv, D!EffectOnce, D!PhaseFollowsDecision, D!Granted, D!Delivery, NothingTakenBack
    <3> QED BY <3>1, <3>2, <3>3 DEF RowsInv
  <2>8. PICK m : m = [(IF l = "Probe" /\ ~x8 THEN D!Failed(s) ELSE D!Advanced(s))
                        EXCEPT !.rrev = n]
    OBVIOUS
  <2>9. m \in D!Memory /\ m.open /\ m.rrev # 0 /\ (m.todo = <<>> \/ m.todo = Tail(x10[s].todo))
    <3>1. n \in 0 .. MaxRevision /\ n # 0
      BY <2>1, DeliveryAssumption
    <3> QED BY <1>2, <2>8, <3>1, AfterTheNext, AfterAnError, SMTT(30) DEF D!Memory
  <2>10. x10' = [x10 EXCEPT ![s] = m] /\ x9' = x9
    BY <1>1, <1>4, <1>5, <1>6, <2>4, <2>8 DEF D!ReceiptStep
  <2>11. \A k : D!Follows(D!Label(s), k) => D!Established(k)'
    BY <1>1, <1>2, <1>3 DEF D!Follows, D!Established, D!Permitted, D!Granted
  <2> QED BY <1>2, <2>7, <2>9, <2>10, <2>11, GoesOnKeeps
<1>7. CASE ~(D!Current(s) /\ D!ValidReceipt(next))
  <2>1. x10' = [x10 EXCEPT ![s] = D!Failed(s)] /\ x2' = x2
    BY <1>4, <1>5, <1>7 DEF D!ReceiptStep, D!Stop
  <2>2. UNCHANGED <<x1, D!store, x7, x8, x9>>
    BY <1>1, <2>1 DEF D!store
  <2>3. D!Failed(s) \in D!Memory /\ D!Failed(s).open /\ D!Failed(s).rrev # 0 /\ D!Failed(s).todo = <<>>
    BY <1>2, <1>3, AfterAnError
  <2> QED BY <1>2, <2>1, <2>2, <2>3, QuietKeeps
<1> QED BY <1>6, <1>7

\* The invariant holds at first.
LEMMA DeliveryInit == D!Init => D!DeliveryInv
<1> SUFFICES ASSUME D!Init PROVE D!DeliveryInv
  OBVIOUS
<1>1. x10 \in [Paths -> D!Memory] /\ \A s \in Paths : x10[s] = D!Closed
  BY ClosedIsMemory DEF D!Init
<1>2. \A s \in Paths : D!Label(s) = "idle"
  BY <1>1, ClosedIsMemory DEF D!Label
<1>3. ASSUME NEW s \in Paths PROVE D!SessionSound(s)
  BY <1>1, <1>2, ClosedIsMemory DEF D!SessionSound, D!Established
<1>4. RowsInv
  <2>1. x1 \in {"allow", "ask", "deny"}
    BY DeliveryAssumption DEF D!Init
  <2>2. RowsTyped
    BY <2>1 DEF D!Init, RowsTyped
  <2>3. D!CompletedIsTrue /\ D!EffectOnce /\ D!RowsSound
    BY DEF D!Init, D!CompletedIsTrue, D!EffectOnce, D!RowsSound
  <2>4. D!PhaseFollowsDecision
    BY DEF D!Init, D!PhaseFollowsDecision, D!Delivery
  <2> QED BY <2>2, <2>3, <2>4 DEF RowsInv
<1> QED BY <1>1, <1>2, <1>3, <1>4, TwoHalves DEF PathsInv, D!OneSpawns

\* Every step keeps it.
LEMMA DeliveryStep == ASSUME D!DeliveryInv, D!Next PROVE D!DeliveryInv'
BY OpenKeeps, ReopenKeeps, CrashKeeps, AdoptKeeps, CheckKeeps, PublishKeeps, FinishKeeps,
   GrantDenyContinueKeep, CancelPathKeeps, RecoverKeeps, EvaluateKeeps, InsertKeeps, EnsureKeeps,
   ClaimKeeps, FenceKeeps, ExpiryKeeps, CommitKeeps, CancelRunKeeps, AskKeeps, DecideKeeps,
   PhaseKeeps, BoundaryKeeps, ApplyKeeps, SpawnKeeps, RepairKeeps, ReceiptKeeps DEF D!Next

\* So does a step that changes nothing.
LEMMA DeliveryStutter == ASSUME D!DeliveryInv, UNCHANGED D!vars PROVE D!DeliveryInv'
<1>1. RowsInv' /\ NothingTakenBack /\ x10' = x10 /\ x9' = x9
  BY TwoHalves, RowsRest DEF D!vars, D!store
<1> QED BY <1>1, SessionsRest, TwoHalvesNext DEF PathsInv

\* No step changes a decision or a receipt that ended.
LEMMA DecisionIsFinal == ASSUME D!DeliveryInv, D!Next PROVE D!DecisionStands
<1>1. x2 # NoRow /\ x2.status # "open" => x2' = x2
  BY ZenonT(60) DEF D!Next, D!Open, D!InsertReceipt, D!EnsureDeliveryRunning, D!Reopen, D!Crash, D!Claim, D!PutLeaseFence,
         D!Adopt, D!EvaluatePermission, D!RecordApprovalRequired, D!Decide, D!ReceiptStep, D!Current,
         D!SetDeliveryPhase, D!CheckEffect, D!ApplyEffectOnce, D!SpawnEffectChild, D!PublishArtifact,
         D!FinishSuccess, D!CommitCompletion, D!CancelRun, D!GrantApproval, D!DenyApproval, D!Continue,
         D!Call, D!CancelPath, D!RecoverAfterCrash, D!BoundaryDecides, D!LeaseExpires, D!MarkerRepaired, D!store
<1>2. ASSUME x4 # NoRow, x4.dec # "pending" PROVE x4' = x4
  <2>1. ASSUME NEW dec \in {"approved", "denied"}, NEW gen \in 1 .. 2,
               D!Decides(x4, dec, x4.rev, gen), x4' = D!Decided(dec, gen)
        PROVE  x4' = x4
    BY <1>2, <2>1, DecisionMoves
  <2>2. \/ x4' = x4
        \/ \E dec \in {"approved", "denied"}, gen \in 1 .. 2 :
                D!Decides(x4, dec, x4.rev, gen) /\ x4' = D!Decided(dec, gen)
    <3>1. ASSUME NEW s \in Paths, D!Decide(s)
          PROVE  \/ x4' = x4
                 \/ \E dec \in {"approved", "denied"} :
                        D!Decides(x4, dec, x4.rev, 1) /\ x4' = D!Decided(dec, 1)
      BY <3>1 DEF D!Decide
    <3>2. ASSUME NEW s \in Paths, D!RecordApprovalRequired(s) PROVE x4' = x4
      BY <1>2, <3>2 DEF D!RecordApprovalRequired
    <3>3. \/ x4' = x4
          \/ \E s \in Paths : D!Decide(s) \/ D!RecordApprovalRequired(s)
          \/ \E dec \in {"approved", "denied"}, gen \in 1 .. 2 : D!BoundaryDecides(dec, gen)
      BY ZenonT(60) DEF D!Next, D!Open, D!InsertReceipt, D!EnsureDeliveryRunning, D!Reopen, D!Crash, D!Claim,
             D!PutLeaseFence, D!Adopt, D!EvaluatePermission, D!ReceiptStep,
             D!SetDeliveryPhase, D!CheckEffect, D!ApplyEffectOnce, D!SpawnEffectChild, D!PublishArtifact,
             D!FinishSuccess, D!CommitCompletion, D!CancelRun, D!GrantApproval, D!DenyApproval, D!Continue,
             D!Call, D!CancelPath, D!RecoverAfterCrash, D!LeaseExpires, D!MarkerRepaired, D!store
    <3> QED BY <3>1, <3>2, <3>3 DEF D!BoundaryDecides
  <2> QED BY <2>1, <2>2
<1> QED BY <1>1, <1>2, SMTT(30) DEF D!DecisionStands

\* The invariant of the part, and the steps of the other parts.
DeliveryPart == part = "delivery" => D!DeliveryInv

\* Deliveries keep their invariant, whatever becomes of the other parts.
LEMMA DeliveryPartInvariant == MCSpec => []DeliveryPart
<1>1. MCInit => DeliveryPart
  BY DeliveryInit DEF MCInit, DeliveryPart
<1>2. ASSUME DeliveryPart, [MCNext]_allVars PROVE DeliveryPart'
  <2> SUFFICES ASSUME part' = "delivery" PROVE D!DeliveryInv'
    BY DEF DeliveryPart
  <2>1. CASE MCNext
    <3>1. part = "delivery" /\ D!Next
      BY <2>1 DEF MCNext
    <3> QED BY <1>2, <3>1, DeliveryStep DEF DeliveryPart
  <2>2. CASE UNCHANGED allVars
    <3>1. part = "delivery" /\ UNCHANGED D!vars
      BY <2>2 DEF allVars, partVars, D!vars
    <3> QED BY <1>2, <3>1, DeliveryStutter DEF DeliveryPart
  <2> QED BY <1>2, <2>1, <2>2
<1> QED BY <1>1, <1>2, PTL DEF MCSpec

\* A delivery of the process lane is sound (DeliverySound): a receipt says
\* completed only of a run that committed, with a probe that passed and its
\* artifact; the effect's child is started at most once and only as far as the
\* ceiling and the decisions allow; the phase claims no decision that the
\* approval row does not hold; whatever processes share, reopen, cancel or
\* recover the delivery, and wherever they die.
THEOREM DeliveriesAreSound == MCSpec => []DeliverySound
<1>1. DeliveryPart => DeliverySound
  BY DEF DeliveryPart, DeliverySound, D!DeliveryInv
<1> QED BY <1>1, DeliveryPartInvariant, PTL

\* A decision of an approval is final, and so is the receipt of a delivery
\* that ended (DecisionsStand; grant_approval_in_tx, deny_approval_in_tx,
\* transition_receipt), whichever revisions the sessions still hold.
THEOREM DecisionsAreFinal == MCSpec => DecisionsStand
<1>1. ASSUME DeliveryPart, [MCNext]_allVars
      PROVE  [part = "delivery" => D!DecisionStands]_allVars
  <2> SUFFICES ASSUME MCNext, part = "delivery" PROVE D!DecisionStands
    BY <1>1
  <2>1. D!Next
    BY DEF MCNext
  <2> QED BY <1>1, <2>1, DecisionIsFinal DEF DeliveryPart
<1> QED BY <1>1, DeliveryPartInvariant, PTL DEF MCSpec, DecisionsStand

-----------------------------------------------------------------------------
(* Workflow runs: the plan is x1, journals on disk x2, engines' copies x3,
   engines x4, cancellations x5, worktrees x6, executions x7, journals that
   callers have read x8, and x9: has a start overtaken an engine or a write? *)

\* The number of members of a set is the same inside the part and outside.
LEMMA CountIs ==
    ASSUME NEW ns
    PROVE  W!Cardinality(ns) = Cardinality(ns)
BY DEF W!Cardinality, Cardinality

-----------------------------------------------------------------------------
(* Numbers. *)

\* A set of natural numbers that is not empty has a least member.
LEMMA LeastNumber ==
    ASSUME NEW ns \in SUBSET Nat, ns # {}
    PROVE  \E m \in ns : \A y \in ns : m <= y
<1>1. PICK m \in ns : \A y \in ns : ~ (<<y, m>> \in OpToRel(<, Nat))
  BY WFMin, NatLessThanWellFounded, Zenon
<1>2. \A y \in ns : m <= y
  <2> TAKE y \in ns
  <2>1. y \in Nat /\ m \in Nat
    OBVIOUS
  <2>2. ~ (y < m)
    BY <1>1, <2>1, Zenon DEF OpToRel
  <2> QED
    BY <2>1, <2>2
<1> QED BY <1>2

\* One that is bounded has a greatest one.
LEMMA GreatestNumber ==
    ASSUME NEW n \in Nat, NEW ns \in SUBSET (0 .. n), ns # {}
    PROVE  \E m \in ns : \A y \in ns : m >= y
<1> DEFINE C == {n - y : y \in ns}
<1>0. \A y \in ns : n - y \in Nat
  OBVIOUS
<1>1. C \in SUBSET Nat /\ C # {}
  BY <1>0
<1>2. PICK c \in C : \A y \in C : c <= y
  BY <1>1, LeastNumber
<1>3. PICK m \in ns : c = n - m
  OBVIOUS
<1>4. \A y \in ns : m >= y
  <2> TAKE y \in ns
  <2>1. c <= n - y
    BY <1>2
  <2> QED BY <1>3, <2>1
<1> QED BY <1>4

\* Induction over the natural numbers, for a set of them.
LEMMA NumbersByInduction ==
    ASSUME NEW ns, 0 \in ns, \A n \in Nat : n \in ns => n + 1 \in ns
    PROVE  \A n \in Nat : n \in ns
<1> SUFFICES ASSUME Nat \ ns # {} PROVE FALSE
  OBVIOUS
<1>1. PICK m \in Nat \ ns : \A y \in Nat \ ns : m <= y
  BY LeastNumber
<1>2. m # 0 /\ m - 1 \in Nat
  OBVIOUS
<1>3. m - 1 \in ns
  BY <1>1, <1>2
<1>4. m = (m - 1) + 1
  OBVIOUS
<1> QED BY <1>2, <1>3, <1>4

-----------------------------------------------------------------------------
(* What Vec::retain keeps of the entries of a step. *)

Prefix(ws, f, k) ==
    f = [n \in 0 .. k |->
            IF n = 0 THEN <<>>
            ELSE IF W!MayHoldWork(ws[n]) THEN Append(f[n - 1], ws[n]) ELSE f[n - 1]]

\* There is a function that retains every prefix.
LEMMA PrefixExists ==
    ASSUME NEW ws, NEW k \in Nat
    PROVE  \E f : Prefix(ws, f, k)
<1> DEFINE ns == {n \in Nat : \E f : Prefix(ws, f, n)}
<1>1. 0 \in ns
  <2> DEFINE g == [n \in 0 .. 0 |-> <<>>]
  <2>1. Prefix(ws, g, 0)
    BY DEF Prefix
  <2> QED BY <2>1
<1>2. ASSUME NEW n \in Nat, n \in ns PROVE n + 1 \in ns
  <2>1. PICK f : Prefix(ws, f, n)
    BY <1>2
  <2> DEFINE x == IF W!MayHoldWork(ws[n + 1]) THEN Append(f[n], ws[n + 1]) ELSE f[n]
             g == [m \in 0 .. n + 1 |-> IF m = n + 1 THEN x ELSE f[m]]
             h == [m \in 0 .. n + 1 |->
                     IF m = 0 THEN <<>>
                     ELSE IF W!MayHoldWork(ws[m]) THEN Append(g[m - 1], ws[m]) ELSE g[m - 1]]
  <2>2. ASSUME NEW m \in 0 .. n + 1 PROVE g[m] = h[m]
    <3>1. CASE m = n + 1
      <4>1. m # 0 /\ m - 1 = n /\ n \in 0 .. n + 1 /\ n # n + 1
        BY <3>1
      <4>2. g[n] = f[n]
        BY <4>1
      <4> QED BY <3>1, <4>1, <4>2
    <3>2. CASE m # n + 1
      <4>1. m \in 0 .. n
        BY <3>2
      <4>2. g[m] = f[m]
        BY <3>2
      <4>3. m # 0 => m - 1 \in 0 .. n + 1 /\ m - 1 # n + 1
        BY <4>1
      <4>4. m # 0 => g[m - 1] = f[m - 1]
        BY <4>3
      <4>5. f[m] = IF m = 0 THEN <<>>
                   ELSE IF W!MayHoldWork(ws[m]) THEN Append(f[m - 1], ws[m]) ELSE f[m - 1]
        BY <2>1, <4>1 DEF Prefix
      <4> QED BY <4>2, <4>4, <4>5
    <3> QED BY <3>1, <3>2
  <2>3. g = h
    BY <2>2
  <2> HIDE DEF x
  <2>4. Prefix(ws, g, n + 1)
    BY <2>3 DEF Prefix
  <2> QED BY <2>4
<1> HIDE DEF ns
<1>3. k \in ns
  BY <1>1, <1>2, NumbersByInduction
<1> QED BY <1>3 DEF ns

\* What is retained was there, what may hold work is, and entries that had
\* attempts of their own still have.
LEMMA RetainedIs ==
    ASSUME NEW ws \in Seq(W!Worktree)
    PROVE  /\ W!Retained(ws) \in Seq(W!Worktree)
           /\ \A w \in W!Range(ws) : W!MayHoldWork(w) => w \in W!Range(W!Retained(ws))
           /\ W!OwnAttempts(ws) => W!OwnAttempts(W!Retained(ws))
<1> DEFINE N == Len(ws)
           first == CHOOSE f : Prefix(ws, f, N)
<1>0. N \in Nat /\ DOMAIN ws = 1 .. N /\ \A i \in 1 .. N : ws[i] \in W!Worktree
  OBVIOUS
<1>1. Prefix(ws, first, N)
  BY <1>0, PrefixExists
<1>2. W!Retained(ws) = first[N]
  BY DEF W!Retained, Prefix
<1> HIDE DEF first, N
<1>3. first[0] = <<>>
  BY <1>0, <1>1 DEF Prefix
<1>4. \A n \in 1 .. N :
        first[n] = IF W!MayHoldWork(ws[n]) THEN Append(first[n - 1], ws[n]) ELSE first[n - 1]
  <2> TAKE n \in 1 .. N
  <2>1. n \in 0 .. N /\ n # 0
    BY <1>0
  <2> QED BY <1>1, <2>1 DEF Prefix
<1> DEFINE Held(n) ==
        /\ first[n] \in Seq(W!Worktree)
        /\ \A i \in 1 .. Len(first[n]) : \E h \in 1 .. n : first[n][i] = ws[h]
        /\ \A h \in 1 .. n : W!MayHoldWork(ws[h]) => \E i \in 1 .. Len(first[n]) : first[n][i] = ws[h]
        /\ W!OwnAttempts(ws) => W!OwnAttempts(first[n])
<1> DEFINE ns == {n \in Nat : n <= N => Held(n)}
<1>5. 0 \in ns
  <2>1. <<>> \in Seq(W!Worktree) /\ Len(<<>>) = 0 /\ DOMAIN <<>> = {}
    OBVIOUS
  <2>2. Held(0)
    BY <1>3, <2>1 DEF W!OwnAttempts
  <2> QED BY <2>2
<1>6. ASSUME NEW n \in Nat, n \in ns PROVE n + 1 \in ns
  <2> SUFFICES ASSUME n + 1 <= N PROVE Held(n + 1)
    OBVIOUS
  <2>1. Held(n) /\ n + 1 \in 1 .. N
    BY <1>0, <1>6
  <2>2. first[n + 1] = IF W!MayHoldWork(ws[n + 1]) THEN Append(first[n], ws[n + 1]) ELSE first[n]
    <3>1. (n + 1) - 1 = n
      OBVIOUS
    <3> QED BY <1>4, <2>1, <3>1
  <2>3. CASE ~W!MayHoldWork(ws[n + 1])
    <3>1. first[n + 1] = first[n]
      BY <2>2, <2>3
    <3>2. \A h \in 1 .. n + 1 : W!MayHoldWork(ws[h]) => h \in 1 .. n
      BY <2>3
    <3>3. \A h \in 1 .. n : h \in 1 .. n + 1
      OBVIOUS
    <3> QED BY <2>1, <3>1, <3>2, <3>3
  <2>4. CASE W!MayHoldWork(ws[n + 1])
    <3>1. PICK a \in Seq(W!Worktree) : a = first[n]
      BY <2>1
    <3>0. ws[n + 1] \in W!Worktree
      BY <1>0, <2>1
    <3>2. PICK b \in Seq(W!Worktree) : b = first[n + 1] /\ b = Append(a, ws[n + 1])
      <4>1. Append(a, ws[n + 1]) \in Seq(W!Worktree)
        BY <3>0
      <4>2. first[n + 1] = Append(a, ws[n + 1])
        BY <2>2, <2>4, <3>1
      <4> QED BY <4>1, <4>2
    <3>3. /\ Len(b) = Len(a) + 1 /\ Len(a) \in Nat /\ b[Len(a) + 1] = ws[n + 1]
          /\ \A i \in 1 .. Len(a) : b[i] = a[i]
          /\ DOMAIN b = 1 .. Len(a) + 1 /\ DOMAIN a = 1 .. Len(a)
      BY <1>0, <2>1, <3>2
    <3>4. \A i \in 1 .. Len(b) : \E h \in 1 .. n + 1 : b[i] = ws[h]
      <4> TAKE i \in 1 .. Len(b)
      <4>1. CASE i = Len(a) + 1
        BY <3>3, <4>1
      <4>2. CASE i # Len(a) + 1
        <5>1. i \in 1 .. Len(a)
          BY <3>3, <4>2
        <5>2. PICK h \in 1 .. n : a[i] = ws[h]
          BY <2>1, <3>1, <5>1
        <5> QED BY <3>3, <5>1, <5>2
      <4> QED BY <4>1, <4>2
    <3>5. \A h \in 1 .. n + 1 : W!MayHoldWork(ws[h]) => \E i \in 1 .. Len(b) : b[i] = ws[h]
      <4> SUFFICES ASSUME NEW h \in 1 .. n + 1, W!MayHoldWork(ws[h])
                   PROVE  \E i \in 1 .. Len(b) : b[i] = ws[h]
        OBVIOUS
      <4>1. CASE h = n + 1
        BY <3>3, <4>1
      <4>2. CASE h # n + 1
        <5>1. PICK i \in 1 .. Len(a) : a[i] = ws[h]
          BY <2>1, <3>1, <4>2
        <5> QED BY <3>3, <5>1
      <4> QED BY <4>1, <4>2
    <3>6. ASSUME W!OwnAttempts(ws) PROVE W!OwnAttempts(b)
      <4>1. \A i \in 1 .. Len(a) : b[i].attempt # b[Len(a) + 1].attempt
        <5> TAKE i \in 1 .. Len(a)
        <5>1. PICK h \in 1 .. n : a[i] = ws[h]
          BY <2>1, <3>1
        <5>2. h \in DOMAIN ws /\ n + 1 \in DOMAIN ws /\ h # n + 1
          BY <1>0, <2>1
        <5> QED BY <3>3, <3>6, <5>1, <5>2 DEF W!OwnAttempts
      <4>2. \A i, k \in 1 .. Len(a) : i # k => b[i].attempt # b[k].attempt
        <5>1. W!OwnAttempts(a)
          BY <2>1, <3>1, <3>6
        <5> QED BY <3>3, <5>1 DEF W!OwnAttempts
      <4>3. \A i \in DOMAIN b : i = Len(a) + 1 \/ i \in 1 .. Len(a)
        BY <3>3
      <4> QED BY <4>1, <4>2, <4>3 DEF W!OwnAttempts
    <3> QED BY <3>2, <3>4, <3>5, <3>6
  <2> QED BY <2>3, <2>4
<1> HIDE DEF ns
<1>7. N \in ns
  BY <1>0, <1>5, <1>6, NumbersByInduction
<1>8. Held(N)
  BY <1>0, <1>7 DEF ns
<1>9. \A w \in W!Range(ws) : W!MayHoldWork(w) => w \in W!Range(first[N])
  <2> SUFFICES ASSUME NEW h \in 1 .. N, W!MayHoldWork(ws[h]) PROVE ws[h] \in W!Range(first[N])
    BY <1>0 DEF W!Range
  <2>1. PICK i \in 1 .. Len(first[N]) : first[N][i] = ws[h]
    BY <1>8
  <2>2. i \in DOMAIN first[N]
    BY <1>8, <2>1
  <2> QED BY <2>1, <2>2 DEF W!Range
<1> QED BY <1>2, <1>8, <1>9

\* What reset_for_rerun makes of the entries.
LEMMA KeptIs ==
    ASSUME NEW ws \in Seq(W!Worktree)
    PROVE  /\ W!Kept(ws) \in Seq(W!Worktree)
           /\ \A a : W!Recorded(ws, a) => W!Recorded(W!Kept(ws), a)
           /\ W!OwnAttempts(ws) => W!OwnAttempts(W!Kept(ws))
<1>1. PICK held \in Seq(W!Worktree) : held = W!Retained(ws)
  BY RetainedIs
<1>2. PICK k : k = W!Kept(ws)
  OBVIOUS
<1>3. /\ DOMAIN held = 1 .. Len(held) /\ Len(held) \in Nat
      /\ \A i \in DOMAIN held : held[i] \in W!Worktree
  OBVIOUS
<1>4. k = [i \in 1 .. Len(held) |->
             IF held[i].disp = "active" THEN [held[i] EXCEPT !.disp = "kept"] ELSE held[i]]
  BY <1>1, <1>2, <1>3 DEF W!Kept
<1>5. \A i \in 1 .. Len(held) :
        k[i] \in W!Worktree /\ k[i].attempt = held[i].attempt
        /\ (held[i].disp # "removed" => k[i].disp # "removed")
  BY <1>3, <1>4 DEF W!Worktree
<1>6. k \in Seq(W!Worktree) /\ DOMAIN k = 1 .. Len(held)
  BY <1>3, <1>4, <1>5
<1>7. ASSUME NEW a, W!Recorded(ws, a) PROVE W!Recorded(k, a)
  <2>1. PICK w \in W!Range(ws) : w.attempt = a /\ w.disp # "removed"
    BY <1>7 DEF W!Recorded
  <2>2. w \in W!Range(held)
    BY <1>1, <2>1, RetainedIs DEF W!MayHoldWork
  <2>3. PICK i \in 1 .. Len(held) : w = held[i]
    BY <1>3, <2>2 DEF W!Range
  <2>4. k[i] \in W!Range(k) /\ k[i].attempt = a /\ k[i].disp # "removed"
    BY <1>5, <1>6, <2>1, <2>3 DEF W!Range
  <2> QED BY <2>4 DEF W!Recorded
<1>8. ASSUME W!OwnAttempts(ws) PROVE W!OwnAttempts(k)
  BY <1>1, <1>3, <1>5, <1>6, <1>8, RetainedIs, SMTT(30) DEF W!OwnAttempts
<1> QED BY <1>2, <1>6, <1>7, <1>8

-----------------------------------------------------------------------------
(* Journals. *)

\* The fields of a journal.
LEMMA JournalFields ==
    ASSUME NEW j \in W!Journal
    PROVE  /\ j.status \in W!RunStatuses /\ j.step \in [W!Steps -> W!StepStatuses]
           /\ j.partial \in SUBSET W!Steps /\ j.trees \in [W!Steps -> Seq(W!Worktree)]
           /\ j.reused \in SUBSET W!Steps
           /\ \A s \in W!Steps : j.step[s] \in W!StepStatuses /\ j.trees[s] \in Seq(W!Worktree)
BY DEF W!Journal

\* Steps are given a status.
LEMMA WithStatusIs ==
    ASSUME NEW j \in W!Journal, NEW ss, NEW status \in W!StepStatuses
    PROVE  /\ W!WithStatus(j, ss, status) \in W!Journal
           /\ W!WithStatus(j, ss, status).status = j.status
           /\ W!WithStatus(j, ss, status).partial = j.partial
           /\ W!WithStatus(j, ss, status).trees = j.trees
           /\ W!WithStatus(j, ss, status).reused = j.reused
           /\ \A s \in W!Steps : W!WithStatus(j, ss, status).step[s] =
                IF s \in ss THEN status ELSE j.step[s]
<1>1. PICK f \in [W!Steps -> W!StepStatuses] :
        f = [s \in W!Steps |-> IF s \in ss THEN status ELSE j.step[s]]
  BY JournalFields
<1>2. W!WithStatus(j, ss, status) = [j EXCEPT !.step = f]
  BY <1>1 DEF W!WithStatus
<1> QED BY <1>1, <1>2, ZenonT(60) DEF W!Journal

\* The unscheduled steps are given a status; a success is none of them.
LEMMA MarkUnscheduledIs ==
    ASSUME NEW j \in W!Journal, NEW e, NEW status \in W!StepStatuses
    PROVE  /\ W!MarkUnscheduled(j, e, status) \in W!Journal
           /\ W!MarkUnscheduled(j, e, status).status = j.status
           /\ W!MarkUnscheduled(j, e, status).partial = j.partial
           /\ W!MarkUnscheduled(j, e, status).trees = j.trees
           /\ W!MarkUnscheduled(j, e, status).reused = j.reused
           /\ \A s \in W!Steps : W!MarkUnscheduled(j, e, status).step[s] =
                IF s \in W!Unscheduled(e) /\ j.step[s] # "success" THEN status ELSE j.step[s]
<1> DEFINE ss == {s \in W!Unscheduled(e) : j.step[s] # "success"}
<1>1. W!MarkUnscheduled(j, e, status) = W!WithStatus(j, ss, status)
  BY DEF W!MarkUnscheduled
<1>2. \A s : s \in ss <=> s \in W!Unscheduled(e) /\ j.step[s] # "success"
  OBVIOUS
<1> HIDE DEF ss
<1> QED BY <1>1, <1>2, WithStatusIs

\* An entry is added to those of a step.
LEMMA AddEntryIs ==
    ASSUME NEW j \in W!Journal, NEW s \in W!Steps, NEW a \in W!Attempts,
           NEW disp \in {"active", "cleanup_failed"}
    PROVE  /\ W!AddEntry(j, s, a, disp) \in W!Journal
           /\ W!AddEntry(j, s, a, disp).status = j.status
           /\ W!AddEntry(j, s, a, disp).partial = j.partial
           /\ W!AddEntry(j, s, a, disp).step = j.step
           /\ W!AddEntry(j, s, a, disp).reused = j.reused
           /\ W!AddEntry(j, s, a, disp).trees[s] = Append(j.trees[s], [attempt |-> a, disp |-> disp])
<1>1. [attempt |-> a, disp |-> disp] \in W!Worktree
  BY DEF W!Worktree
<1>2. PICK w \in W!Worktree : w = [attempt |-> a, disp |-> disp]
  BY <1>1
<1>3. PICK ws \in Seq(W!Worktree) : ws = Append(j.trees[s], w)
  <2>1. j.trees[s] \in Seq(W!Worktree)
    BY JournalFields
  <2>2. Append(j.trees[s], w) \in Seq(W!Worktree)
    BY <2>1
  <2> QED BY <2>2
<1>4. PICK f \in [W!Steps -> Seq(W!Worktree)] : f = [j.trees EXCEPT ![s] = ws]
  BY JournalFields
<1>5. W!AddEntry(j, s, a, disp) = [j EXCEPT !.trees = f]
  BY <1>2, <1>3, <1>4 DEF W!AddEntry
<1>6. f[s] = ws /\ \A t \in W!Steps \ {s} : f[t] = j.trees[t]
  BY <1>4, JournalFields
<1> QED BY <1>2, <1>3, <1>5, <1>6 DEF W!Journal

\* The other steps keep theirs.
LEMMA AddEntryOthers ==
    ASSUME NEW j \in W!Journal, NEW s \in W!Steps, NEW a, NEW disp, NEW u \in W!Steps, u # s
    PROVE  W!AddEntry(j, s, a, disp).trees[u] = j.trees[u]
<1>1. PICK f : f = [j.trees EXCEPT ![s] = Append(j.trees[s], [attempt |-> a, disp |-> disp])]
  OBVIOUS
<1>2. W!AddEntry(j, s, a, disp) = [j EXCEPT !.trees = f]
  BY <1>1 DEF W!AddEntry
<1>3. f[u] = j.trees[u]
  BY <1>1, JournalFields
<1> QED BY <1>2, <1>3 DEF W!Journal

\* What an added entry does to the attempts and the record of a step.
LEMMA AppendIs ==
    ASSUME NEW ws \in Seq(W!Worktree), NEW w \in W!Worktree
    PROVE  /\ Append(ws, w) \in Seq(W!Worktree) /\ Append(ws, w) # <<>>
           /\ W!Last(Append(ws, w)) = w
           /\ \A a : W!Recorded(ws, a) => W!Recorded(Append(ws, w), a)
           /\ w.disp # "removed" => W!Recorded(Append(ws, w), w.attempt)
           /\ W!OwnAttempts(ws) /\ (\A v \in W!Range(ws) : v.attempt # w.attempt) =>
                W!OwnAttempts(Append(ws, w))
<1>0. Append(ws, w) \in Seq(W!Worktree)
  OBVIOUS
<1>1. PICK vs \in Seq(W!Worktree) : vs = Append(ws, w)
  BY <1>0
<1>2. /\ Len(vs) = Len(ws) + 1 /\ Len(ws) \in Nat /\ vs[Len(ws) + 1] = w
      /\ \A i \in 1 .. Len(ws) : vs[i] = ws[i]
      /\ DOMAIN vs = 1 .. Len(ws) + 1 /\ DOMAIN ws = 1 .. Len(ws)
  BY <1>1
<1>3. vs # <<>> /\ W!Last(vs) = w
  BY <1>1, <1>2 DEF W!Last
<1>4. \A v \in W!Range(ws) : v \in W!Range(vs)
  BY <1>2 DEF W!Range
<1>5. w \in W!Range(vs)
  BY <1>2 DEF W!Range
<1>6. ASSUME W!OwnAttempts(ws), \A v \in W!Range(ws) : v.attempt # w.attempt
      PROVE  W!OwnAttempts(vs)
  <2>1. \A i \in 1 .. Len(ws) : vs[i].attempt # w.attempt
    BY <1>2, <1>6 DEF W!Range
  <2>2. \A i, k \in 1 .. Len(ws) : i # k => vs[i].attempt # vs[k].attempt
    BY <1>2, <1>6 DEF W!OwnAttempts
  <2>3. \A i \in DOMAIN vs : i = Len(ws) + 1 \/ i \in 1 .. Len(ws)
    BY <1>2
  <2> QED BY <1>2, <2>1, <2>2, <2>3 DEF W!OwnAttempts
<1> QED BY <1>1, <1>3, <1>4, <1>5, <1>6 DEF W!Recorded

\* An attempt beyond the last one has a number of its own.
LEMMA NextAttemptIs ==
    ASSUME W!PlansOK, NEW j \in W!Journal, NEW s \in W!Steps
    PROVE  /\ W!NextAttempt(j, s) \in Nat
           /\ \A w \in W!Range(j.trees[s]) : w.attempt < W!NextAttempt(j, s)
<1> DEFINE ns == {0} \union {w.attempt + 1 : w \in W!Range(j.trees[s])}
<1>1. j.trees[s] \in Seq(W!Worktree)
  BY JournalFields
<1>2. MaxExecutions \in Nat
  BY DEF W!PlansOK
<1>3. \A w \in W!Range(j.trees[s]) : w \in W!Worktree
  BY <1>1 DEF W!Range
<1>4. \A w \in W!Range(j.trees[s]) : w.attempt \in Nat /\ w.attempt + 1 \in 0 .. MaxExecutions
  BY <1>2, <1>3 DEF W!Worktree, W!Attempts
<1>5. ns \in SUBSET (0 .. MaxExecutions) /\ ns # {}
  BY <1>2, <1>4
<1>6. \E m \in ns : \A y \in ns : m >= y
  BY <1>2, <1>5, GreatestNumber
<1>7. W!NextAttempt(j, s) = CHOOSE m \in ns : \A y \in ns : m >= y
  BY DEF W!NextAttempt, W!Max
<1>8. W!NextAttempt(j, s) \in ns /\ \A y \in ns : W!NextAttempt(j, s) >= y
  BY <1>6, <1>7
<1>9. \A w \in W!Range(j.trees[s]) : w.attempt + 1 \in ns
  OBVIOUS
<1> HIDE DEF ns
<1>10. W!NextAttempt(j, s) \in Nat
  <2>1. W!NextAttempt(j, s) \in 0 .. MaxExecutions
    BY <1>5, <1>8
  <2> QED BY <1>2, <2>1
<1> QED
  <2> SUFFICES ASSUME NEW w \in W!Range(j.trees[s]) PROVE w.attempt < W!NextAttempt(j, s)
    BY <1>10
  <2>1. W!NextAttempt(j, s) >= w.attempt + 1 /\ w.attempt \in Nat
    BY <1>4, <1>8, <1>9
  <2> QED BY <1>10, <2>1

\* A new journal, and what is reset for a rerun.
LEMMA NewJournalIs ==
    /\ W!NewJournal \in W!Journal /\ W!NewJournal.status = "running"
    /\ W!NewJournal.partial = {} /\ W!NewJournal.reused = {}
    /\ \A s \in W!Steps : W!NewJournal.step[s] = "pending" /\ W!NewJournal.trees[s] = <<>>
<1>1. <<>> \in Seq(W!Worktree)
  OBVIOUS
<1> QED BY <1>1 DEF W!NewJournal, W!Journal, W!RunStatuses, W!StepStatuses

\* Resuming keeps successes with their entries, and what may hold work.
LEMMA ResetIs ==
    ASSUME NEW j \in W!Journal
    PROVE  /\ W!ResetForRerun(j) \in W!Journal /\ W!ResetForRerun(j).status = "running"
           /\ W!ResetForRerun(j).partial = j.partial /\ W!ResetForRerun(j).reused = j.reused
           /\ \A s \in W!Steps :
                /\ W!ResetForRerun(j).step[s] = IF j.step[s] = "success" THEN "success" ELSE "pending"
                /\ W!ResetForRerun(j).trees[s] =
                     IF j.step[s] = "success" THEN j.trees[s] ELSE W!Kept(j.trees[s])
<1>1. \A s \in W!Steps : j.trees[s] \in Seq(W!Worktree) /\ W!Kept(j.trees[s]) \in Seq(W!Worktree)
  BY JournalFields, KeptIs
<1>2. PICK f \in [W!Steps -> W!StepStatuses] :
        f = [s \in W!Steps |-> IF j.step[s] = "success" THEN "success" ELSE "pending"]
  BY DEF W!StepStatuses, W!Terminal
<1>3. PICK g \in [W!Steps -> Seq(W!Worktree)] :
        g = [s \in W!Steps |-> IF j.step[s] = "success" THEN j.trees[s] ELSE W!Kept(j.trees[s])]
  BY <1>1
<1>4. W!ResetForRerun(j) = [j EXCEPT !.status = "running", !.step = f, !.trees = g]
  BY <1>2, <1>3 DEF W!ResetForRerun
<1>5. W!ResetForRerun(j) = [status |-> "running", step |-> f, partial |-> j.partial, trees |-> g,
                          reused |-> j.reused]
  BY <1>4 DEF W!Journal
<1>6. W!ResetForRerun(j) \in W!Journal
  BY <1>5, JournalFields DEF W!Journal, W!RunStatuses
<1> QED BY <1>2, <1>3, <1>5, <1>6

\* A replay copies a prefix of steps all of whose targets succeeded.
LEMMA ReplayIs ==
    ASSUME NEW j \in W!Journal
    PROVE  /\ W!ReplayPrefix(j) \in W!Journal /\ W!ReplayPrefix(j).status = "running"
           /\ W!ReplayPrefix(j).partial = {}
           /\ W!ReplayPrefix(j).reused = {s \in W!Steps : \A t \in 1 .. s : W!Reusable(j, t)}
           /\ \A s \in W!Steps :
                /\ W!ReplayPrefix(j).step[s] = IF s \in W!ReplayPrefix(j).reused THEN "success" ELSE "pending"
                /\ s \notin W!ReplayPrefix(j).reused => W!ReplayPrefix(j).trees[s] = <<>>
<1>1. PICK ss \in SUBSET W!Steps : ss = {s \in W!Steps : \A t \in 1 .. s : W!Reusable(j, t)}
  OBVIOUS
<1>2. \A s \in W!Steps : j.trees[s] \in Seq(W!Worktree)
  BY JournalFields
<1>3. PICK f \in [W!Steps -> W!StepStatuses] :
        f = [s \in W!Steps |-> IF s \in ss THEN "success" ELSE "pending"]
  BY DEF W!StepStatuses, W!Terminal
<1>4. <<>> \in Seq(W!Worktree)
  OBVIOUS
<1>5. PICK g \in [W!Steps -> Seq(W!Worktree)] : g = [s \in W!Steps |-> IF s \in ss THEN j.trees[s] ELSE <<>>]
  BY <1>2, <1>4
<1>6. j.partial \cap ss = {}
  <2> SUFFICES ASSUME NEW s \in ss, s \in j.partial PROVE FALSE
    OBVIOUS
  <2>1. s \in W!Steps /\ s \in 1 .. s
    BY DEF W!Steps
  <2> QED BY <1>1, <2>1 DEF W!Reusable
<1>7. W!ReplayPrefix(j) = [W!NewJournal EXCEPT !.step = f, !.trees = g, !.partial = {}, !.reused = ss]
  BY <1>1, <1>3, <1>5, <1>6 DEF W!ReplayPrefix
<1>8. PICK n \in W!Journal : n = W!NewJournal /\ n.status = "running"
  BY NewJournalIs
<1>9. W!ReplayPrefix(j) = [status |-> "running", step |-> f, partial |-> {}, trees |-> g, reused |-> ss]
  BY <1>7, <1>8 DEF W!Journal
<1>10. W!ReplayPrefix(j) \in W!Journal
  BY <1>9 DEF W!Journal, W!RunStatuses
<1> QED BY <1>1, <1>3, <1>5, <1>9, <1>10

-----------------------------------------------------------------------------
(* Engines. *)

\* The fields of an engine.
LEMMA EngineFields ==
    ASSUME NEW e \in W!EngineState
    PROVE  /\ e.terminal \in SUBSET W!Steps /\ W!Running(e) \in SUBSET W!Steps
           /\ e.out \in [W!Running(e) -> W!Out] /\ e.aborting \in BOOLEAN /\ e.failures \in BOOLEAN
           /\ \A s \in W!Running(e) : e.out[s] \in W!Out
<1>1. PICK ss \in SUBSET W!Steps : e.out \in [ss -> W!Out]
  BY DEF W!EngineState
<1>2. W!Running(e) = ss
  BY <1>1 DEF W!Running
<1> QED BY <1>1, <1>2 DEF W!EngineState

\* An engine from its parts.
LEMMA EngineFromParts ==
    ASSUME NEW terminal \in SUBSET W!Steps, NEW ss \in SUBSET W!Steps, NEW out \in [ss -> W!Out],
           NEW aborting \in BOOLEAN, NEW failures \in BOOLEAN, NEW e,
           e = [terminal |-> terminal, out |-> out, aborting |-> aborting, failures |-> failures]
    PROVE  /\ e \in W!EngineState /\ W!Running(e) = ss /\ e.out = out /\ e.terminal = terminal
           /\ e.aborting = aborting /\ e.failures = failures
<1>1. out \in UNION {[uu -> W!Out] : uu \in SUBSET W!Steps}
  OBVIOUS
<1>2. DOMAIN out = ss
  OBVIOUS
<1> QED BY <1>1, <1>2 DEF W!EngineState, W!Running

\* An engine that has yet to start.
LEMMA NewEngineIs ==
    ASSUME NEW j \in W!Journal
    PROVE  /\ W!NewEngine(j) \in W!EngineState /\ W!Running(W!NewEngine(j)) = {}
           /\ W!NewEngine(j).terminal = {s \in W!Steps : j.step[s] \in W!Terminal}
           /\ W!NewEngine(j).aborting = FALSE /\ W!NewEngine(j).failures = FALSE
<1>1. PICK ss \in SUBSET W!Steps : ss = {s \in W!Steps : j.step[s] \in W!Terminal}
  OBVIOUS
<1>2. PICK none \in SUBSET W!Steps : none = {}
  OBVIOUS
<1>3. PICK f \in [none -> W!Out] : f = [s \in {} |-> "made"]
  BY <1>2
<1>4. PICK e : e = W!NewEngine(j)
  OBVIOUS
<1>5. PICK no \in BOOLEAN : no = FALSE
  OBVIOUS
<1>6. e = [terminal |-> ss, out |-> f, aborting |-> no, failures |-> no]
  BY <1>1, <1>3, <1>4, <1>5 DEF W!NewEngine
<1>7. e \in W!EngineState /\ W!Running(e) = none /\ e.terminal = ss /\ e.aborting = no /\ e.failures = no
  BY <1>6, EngineFromParts
<1> QED BY <1>1, <1>2, <1>4, <1>5, <1>7

\* The engine of nobody.
LEMMA NoEngineIs == W!NoEngine \in W!EngineState /\ W!Running(W!NoEngine) = {}
BY NewJournalIs, NewEngineIs DEF W!NoEngine

\* A step is started, or its place moves.
LEMMA WithOutIs ==
    ASSUME NEW e \in W!EngineState, NEW s \in W!Steps, NEW o \in W!Out
    PROVE  /\ W!WithOut(e, s, o) \in W!EngineState
           /\ W!Running(W!WithOut(e, s, o)) = W!Running(e) \union {s}
           /\ W!WithOut(e, s, o).out[s] = o
           /\ \A u \in W!Running(e) \ {s} : W!WithOut(e, s, o).out[u] = e.out[u]
           /\ W!WithOut(e, s, o).terminal = e.terminal
           /\ W!WithOut(e, s, o).aborting = e.aborting /\ W!WithOut(e, s, o).failures = e.failures
<1>1. PICK ss \in SUBSET W!Steps : ss = W!Running(e) \union {s}
  BY EngineFields
<1>2. PICK f \in [ss -> W!Out] : f = [u \in ss |-> IF u = s THEN o ELSE e.out[u]]
  BY <1>1, EngineFields
<1>3. W!WithOut(e, s, o) = [terminal |-> e.terminal, out |-> f, aborting |-> e.aborting,
                          failures |-> e.failures]
  BY <1>1, <1>2 DEF W!WithOut, W!EngineState
<1>4. e.terminal \in SUBSET W!Steps /\ e.aborting \in BOOLEAN /\ e.failures \in BOOLEAN
  BY EngineFields
<1> QED BY <1>1, <1>2, <1>3, <1>4, EngineFromParts

\* There are finitely many steps.
LEMMA StepsFinite ==
    ASSUME W!PlansOK, NEW ss \in SUBSET W!Steps
    PROVE  IsFiniteSet(ss) /\ Cardinality(ss) \in Nat
<1>1. IsFiniteSet(W!Steps)
  BY FS_Interval DEF W!Steps, W!PlansOK
<1>2. IsFiniteSet(ss)
  BY <1>1, FS_Subset
<1> QED BY <1>2, FS_CardinalityType

\* The dependents of a failed step are closed, and each of them depends on it.
LEMMA DependentsAre ==
    ASSUME NEW bad, NEW e, NEW j
    PROVE  /\ W!Dependents(bad, e, j) \in SUBSET W!Open(e, j)
           /\ \A s \in W!Open(e, j) :
                x1.needs[s] \cap (W!Dependents(bad, e, j) \union {bad}) # {} =>
                    s \in W!Dependents(bad, e, j)
           /\ \A s \in W!Dependents(bad, e, j) :
                x1.needs[s] \cap (W!Dependents(bad, e, j) \union {bad}) # {}
<1>1. PICK open : open = W!Open(e, j)
  OBVIOUS
<1>2. PICK deps : deps = W!Dependents(bad, e, j)
  OBVIOUS
<1>3. deps = {s \in open : \A ss \in SUBSET open : W!Closed(bad, open, ss) => s \in ss}
  BY <1>1, <1>2 DEF W!Dependents
<1>4. ASSUME NEW s \in open, x1.needs[s] \cap (deps \union {bad}) # {} PROVE s \in deps
  <2> SUFFICES ASSUME NEW ss \in SUBSET open, W!Closed(bad, open, ss) PROVE s \in ss
    BY <1>3
  <2>1. deps \subseteq ss
    BY <1>3
  <2>2. x1.needs[s] \cap (ss \union {bad}) # {}
    BY <1>4, <2>1
  <2> QED BY <2>2 DEF W!Closed
<1>5. ASSUME NEW s \in deps, x1.needs[s] \cap (deps \union {bad}) = {} PROVE FALSE
  <2>1. deps \ {s} \in SUBSET open
    BY <1>3
  <2>2. W!Closed(bad, open, deps \ {s})
    <3> SUFFICES ASSUME NEW u \in open, x1.needs[u] \cap ((deps \ {s}) \union {bad}) # {}
                 PROVE  u \in deps \ {s}
      BY DEF W!Closed
    <3>1. u # s
      BY <1>5
    <3> QED BY <1>4, <3>1
  <2>3. s \in deps \ {s}
    BY <1>3, <2>1, <2>2
  <2> QED BY <2>3
<1> QED BY <1>1, <1>2, <1>3, <1>4, <1>5

-----------------------------------------------------------------------------
(* Steps of one run. *)

\* What a step leaves of a run's successes and of its work.
Stands(d, dn) == d # NoJournal => W!Completed(d) \subseteq W!Completed(dn) /\ dn.reused = d.reused
Stays(t, t2) == \A p \in W!Steps \X W!Attempts : t[p] = "worked" => t2[p] = "worked"

\* The invariant of a run is about its rows and the plan, and the plan stays.
LEMMA SamePlan ==
    ASSUME x1' = x1, NEW r \in Runs, NEW d, NEW j, NEW e, NEW c, NEW t,
           W!RunSound(d, j, e, c, t),
           x2'[r] = d, x3'[r] = j, x4'[r] = e, x5'[r] = c, x6'[r] = t
    PROVE  W!RunSound(x2[r], x3[r], x4[r], x5[r], x6[r])'
<1>1. W!FileSound(x2[r], x6[r])'
  <2>1. W!FileSound(d, t)
    BY DEF W!RunSound
  <2> QED BY <2>1 DEF W!FileSound, W!JournalSound, W!EndAgrees, W!Completed, W!Steps, W!Attempts, W!OwnAttempts, W!Recorded
<1>2. (x3[r] = NoJournal => x4[r] = W!NoEngine)'
  BY DEF W!RunSound
<1>3. ASSUME j # NoJournal
      PROVE  /\ W!CopySound(x2[r], x3[r], x4[r])' /\ W!ScheduleSound(x3[r], x4[r])'
             /\ W!FailuresSound(x3[r], x4[r], x5[r])'
             /\ W!StartedSound(x2[r], x3[r], x4[r], x6[r])'
  <2>1. W!CopySound(d, j, e) /\ W!ScheduleSound(j, e) /\ W!FailuresSound(j, e, c) /\ W!StartedSound(d, j, e, t)
    BY <1>3 DEF W!RunSound
  <2>2. W!CopySound(x2[r], x3[r], x4[r])'
    BY <2>1 DEF W!CopySound, W!JournalSound
  <2>3. W!ScheduleSound(x3[r], x4[r])'
    BY <2>1 DEF W!ScheduleSound
  <2>4. W!FailuresSound(x3[r], x4[r], x5[r])'
    BY <2>1 DEF W!FailuresSound
  <2>5. W!StartedSound(x2[r], x3[r], x4[r], x6[r])'
    BY <2>1 DEF W!StartedSound, W!Placed
  <2> QED BY <2>2, <2>3, <2>4, <2>5
<1> QED BY <1>1, <1>2, <1>3 DEF W!RunSound

\* The rows of a run.
LEMMA RowsOf ==
    ASSUME W!JournalsInv, NEW r \in Runs
    PROVE  /\ W!RunSound(x2[r], x3[r], x4[r], x5[r], x6[r])
           /\ x2[r] \in W!Journal \union {NoJournal} /\ x3[r] \in W!Journal \union {NoJournal}
           /\ x4[r] \in W!EngineState /\ x5[r] \in BOOLEAN
           /\ x6[r] \in [W!Steps \X W!Attempts -> W!TreeState]
BY DEF W!JournalsInv, W!WorkflowShape

\* A step of one run: what is left is to look at its rows.
LEMMA OneRun ==
    ASSUME W!PlansOK, W!JournalsInv, NEW r \in Runs, x1' = x1,
           NEW dn \in W!Journal \union {NoJournal}, NEW j2 \in W!Journal \union {NoJournal},
           NEW e2 \in W!EngineState, NEW c2 \in BOOLEAN, NEW t2 \in [W!Steps \X W!Attempts -> W!TreeState],
           x2' = [x2 EXCEPT ![r] = dn], x3' = [x3 EXCEPT ![r] = j2],
           x4' = [x4 EXCEPT ![r] = e2], x5' = [x5 EXCEPT ![r] = c2],
           x6' = [x6 EXCEPT ![r] = t2],
           W!RunSound(dn, j2, e2, c2, t2), Stands(x2[r], dn), Stays(x6[r], t2)
    PROVE  W!JournalsInv' /\ W!KeepsWork
<1>1. W!WorkflowShape
  BY DEF W!JournalsInv
<1>2. W!WorkflowShape'
  <2>1. x2' \in [Runs -> W!Journal \union {NoJournal}] /\ x3' \in [Runs -> W!Journal \union {NoJournal}]
    BY <1>1 DEF W!WorkflowShape
  <2>2. x4' \in [Runs -> W!EngineState] /\ x5' \in [Runs -> BOOLEAN]
    BY <1>1 DEF W!WorkflowShape
  <2>3. x6' \in [Runs -> [W!Steps \X W!Attempts -> W!TreeState]]
    BY <1>1 DEF W!WorkflowShape
  <2> QED BY <1>1, <2>1, <2>2, <2>3 DEF W!WorkflowShape
<1>3. /\ x2'[r] = dn /\ x3'[r] = j2 /\ x4'[r] = e2 /\ x5'[r] = c2 /\ x6'[r] = t2
      /\ \A q \in Runs \ {r} :
           /\ x2'[q] = x2[q] /\ x3'[q] = x3[q] /\ x4'[q] = x4[q]
           /\ x5'[q] = x5[q] /\ x6'[q] = x6[q]
  BY <1>1 DEF W!WorkflowShape
<1>4. ASSUME NEW q \in Runs
      PROVE  /\ W!RunSound(x2[q], x3[q], x4[q], x5[q], x6[q])'
             /\ Stands(x2[q], x2'[q]) /\ Stays(x6[q], x6'[q])
  <2>1. CASE q = r
    BY <1>3, <2>1, SamePlan
  <2>2. CASE q # r
    <3>1. PICK d, j, e, c, t : d = x2[q] /\ j = x3[q] /\ e = x4[q] /\ c = x5[q] /\ t = x6[q]
      OBVIOUS
    <3>2. W!RunSound(d, j, e, c, t)
      BY <3>1, RowsOf
    <3>3. x2'[q] = d /\ x3'[q] = j /\ x4'[q] = e /\ x5'[q] = c /\ x6'[q] = t
      BY <1>3, <2>2, <3>1
    <3>4. W!RunSound(x2[q], x3[q], x4[q], x5[q], x6[q])'
      BY <3>2, <3>3, SamePlan
    <3>5. Stands(x2[q], x2'[q]) /\ Stays(x6[q], x6'[q])
      BY <1>3, <2>2 DEF Stands, Stays
    <3> QED BY <3>4, <3>5
  <2> QED BY <2>1, <2>2
<1>5. W!JournalsInv'
  BY <1>2, <1>4 DEF W!JournalsInv
<1>6. W!SuccessStands
  <2> SUFFICES ASSUME NEW q \in Runs, x2[q] # NoJournal
               PROVE  /\ W!Completed(x2[q]) \subseteq W!Completed(x2'[q])
                      /\ W!Running(x4'[q]) \cap W!Completed(x2[q]) = {}
                      /\ x2'[q].reused = x2[q].reused
    BY DEF W!SuccessStands
  <2>1. W!Completed(x2[q]) \subseteq W!Completed(x2'[q]) /\ x2'[q].reused = x2[q].reused
    BY <1>4 DEF Stands
  <2>2. CASE x3'[q] = NoJournal
    <3>1. x4'[q] = W!NoEngine
      BY <1>4, <2>2 DEF W!RunSound, W!NoEngine, W!NewEngine, W!NewJournal, W!Steps, W!Terminal
    <3> QED BY <2>1, <3>1, NoEngineIs
  <2>3. CASE x3'[q] # NoJournal
    <3>1. W!CopySound(x2[q], x3[q], x4[q])' /\ W!ScheduleSound(x3[q], x4[q])'
      BY <1>4, <2>3 DEF W!RunSound
    <3>2. W!Completed(x3'[q]) = W!Completed(x2'[q])
      BY <3>1 DEF W!CopySound, W!Completed, W!Steps
    <3>3. \A s \in W!Running(x4'[q]) : x3'[q].step[s] = "running"
      BY <3>1 DEF W!ScheduleSound, W!Running
    <3>4. \A s \in W!Completed(x3'[q]) : x3'[q].step[s] = "success"
      BY DEF W!Completed
    <3> QED BY <2>1, <3>2, <3>3, <3>4
  <2> QED BY <2>1, <2>2, <2>3
<1>7. W!TreesRecorded'
  <2>1. \A q \in Runs : W!FileSound(x2[q], x6[q])'
    BY <1>4 DEF W!RunSound
  <2> QED BY <2>1 DEF W!FileSound, W!TreesRecorded, W!JournalSound
<1>8. W!WorkStays
  BY <1>4 DEF W!WorkStays, Stays
<1> QED BY <1>5, <1>6, <1>7, <1>8 DEF W!KeepsWork, W!KeepsTrees

\* The rows of a run under names of their own.
LEMMA Rows ==
    ASSUME W!JournalsInv, NEW r \in Runs
    PROVE  \E d \in W!Journal \union {NoJournal}, j \in W!Journal \union {NoJournal},
              e \in W!EngineState, c \in BOOLEAN, t \in [W!Steps \X W!Attempts -> W!TreeState] :
             /\ d = x2[r] /\ j = x3[r] /\ e = x4[r] /\ c = x5[r] /\ t = x6[r]
             /\ x2 = [x2 EXCEPT ![r] = d] /\ x3 = [x3 EXCEPT ![r] = j]
             /\ x4 = [x4 EXCEPT ![r] = e] /\ x5 = [x5 EXCEPT ![r] = c]
             /\ x6 = [x6 EXCEPT ![r] = t]
             /\ W!RunSound(d, j, e, c, t) /\ x1 \in Plans
<1>1. /\ x2 = [x2 EXCEPT ![r] = x2[r]] /\ x3 = [x3 EXCEPT ![r] = x3[r]]
      /\ x4 = [x4 EXCEPT ![r] = x4[r]] /\ x5 = [x5 EXCEPT ![r] = x5[r]]
      /\ x6 = [x6 EXCEPT ![r] = x6[r]] /\ x1 \in Plans
  BY DEF W!JournalsInv, W!WorkflowShape
<1>2. PICK d \in W!Journal \union {NoJournal} : d = x2[r]
  BY RowsOf
<1>3. PICK j \in W!Journal \union {NoJournal} : j = x3[r]
  BY RowsOf
<1>4. PICK e \in W!EngineState : e = x4[r]
  BY RowsOf
<1>5. PICK c \in BOOLEAN : c = x5[r]
  BY RowsOf
<1>6. PICK t \in [W!Steps \X W!Attempts -> W!TreeState] : t = x6[r]
  BY RowsOf
<1>7. W!RunSound(d, j, e, c, t)
  BY <1>2, <1>3, <1>4, <1>5, <1>6, RowsOf
<1> QED BY <1>1, <1>2, <1>3, <1>4, <1>5, <1>6, <1>7

\* What the plan says.
LEMMA PlanIs ==
    ASSUME W!PlansOK, x1 \in Plans
    PROVE  /\ \A s \in W!Steps : x1.needs[s] \in SUBSET W!Steps /\ x1.needs[s] \subseteq 1 .. s - 1
           /\ x1.isolated \in SUBSET W!Steps /\ NoJournal \notin W!Journal
           /\ \A s \in W!Steps : s \in Nat
BY DEF W!PlansOK, W!Steps

\* A run without engine: only its file matters.
LEMMA EndSound ==
    ASSUME NEW d, NEW t, W!FileSound(d, t)
    PROVE  W!RunSound(d, NoJournal, W!NoEngine, FALSE, t)
BY DEF W!RunSound

\* An engine begins with a journal of successes and of pending steps.
LEMMA BeginSound ==
    ASSUME W!PlansOK, x1 \in Plans, NEW j \in W!Journal, j.status = "running",
           \A s \in W!Steps : j.step[s] \in {"success", "pending"}, NEW t, W!FileSound(j, t)
    PROVE  W!RunSound(j, j, W!NewEngine(j), FALSE, t)
<1>1. PICK e \in W!EngineState : e = W!NewEngine(j)
  BY NewEngineIs
<1>2. /\ W!Running(e) = {} /\ e.terminal = W!Completed(j) /\ e.aborting = FALSE /\ e.failures = FALSE
      /\ j # NoJournal
  BY <1>1, NewEngineIs, PlanIs DEF W!Completed, W!Terminal
<1>3. W!JournalSound(j)
  BY <1>2 DEF W!FileSound
<1>4. W!Made(e) = {}
  BY <1>2 DEF W!Made
<1>5. W!CopySound(j, j, e)
  BY <1>2, <1>3, <1>4 DEF W!CopySound
<1>6. W!ScheduleSound(j, e)
  <2>1. Cardinality(W!Running(e)) <= MaxConcurrency
    BY <1>2, FS_EmptySet DEF W!PlansOK
  <2>2. \A s \in e.terminal : j.step[s] \in W!Terminal
    BY <1>2 DEF W!Completed, W!Terminal
  <2>3. \A s \in W!Unscheduled(e) : j.step[s] = "pending"
    BY <1>2 DEF W!Unscheduled, W!Completed
  <2> QED BY <1>2, <2>1, <2>2, <2>3, CountIs DEF W!ScheduleSound
<1>7. W!FailuresSound(j, e, FALSE)
  <2>1. \A s \in W!Unscheduled(e) : x1.needs[s] \subseteq W!Steps
    BY PlanIs DEF W!Unscheduled
  <2> QED BY <1>2, <2>1 DEF W!FailuresSound
<1>8. W!StartedSound(j, j, e, t)
  BY <1>2 DEF W!StartedSound
<1> QED BY <1>1, <1>2, <1>5, <1>6, <1>7, <1>8 DEF W!RunSound

\* A journal is prepared.
LEMMA PrepareKeeps ==
    ASSUME W!PlansOK, W!JournalsInv, NEW r \in Runs, W!Prepare(r)
    PROVE  W!JournalsInv' /\ W!KeepsWork
<1>1. PICK d \in W!Journal \union {NoJournal}, j \in W!Journal \union {NoJournal},
           e \in W!EngineState, c \in BOOLEAN, t \in [W!Steps \X W!Attempts -> W!TreeState] :
        /\ d = x2[r] /\ j = x3[r] /\ e = x4[r] /\ c = x5[r] /\ t = x6[r]
        /\ x2 = [x2 EXCEPT ![r] = d] /\ x3 = [x3 EXCEPT ![r] = j]
        /\ x4 = [x4 EXCEPT ![r] = e] /\ x5 = [x5 EXCEPT ![r] = c]
        /\ x6 = [x6 EXCEPT ![r] = t]
        /\ W!RunSound(d, j, e, c, t) /\ x1 \in Plans
  BY Rows
<1>2. /\ d = NoJournal /\ x1' = x1 /\ x2' = [x2 EXCEPT ![r] = W!NewJournal]
      /\ x3' = [x3 EXCEPT ![r] = j] /\ x4' = [x4 EXCEPT ![r] = e]
      /\ x5' = [x5 EXCEPT ![r] = c] /\ x6' = [x6 EXCEPT ![r] = t]
  BY <1>1 DEF W!Prepare
<1>3. j = NoJournal
  BY <1>1, <1>2 DEF W!RunSound, W!CopySound
<1>4. \A s \in W!Steps : W!NewJournal.step[s] = "pending" /\ W!NewJournal.trees[s] = <<>>
  BY NewJournalIs
<1>5. W!Completed(W!NewJournal) = {}
  BY <1>4 DEF W!Completed
<1>6. W!FileSound(W!NewJournal, t)
  <2>1. W!JournalSound(W!NewJournal)
    BY <1>4, <1>5, NewJournalIs DEF W!JournalSound, W!OwnAttempts
  <2> QED BY <1>1, <1>2, <2>1, NewJournalIs DEF W!RunSound, W!FileSound
<1>7. W!RunSound(W!NewJournal, j, e, c, t)
  BY <1>1, <1>3, <1>6 DEF W!RunSound
<1>8. Stands(x2[r], W!NewJournal) /\ Stays(x6[r], t)
  BY <1>1, <1>2 DEF Stands, Stays
<1>9. PICK n \in W!Journal \union {NoJournal} : n = W!NewJournal
  BY NewJournalIs
<1>10. /\ x2' = [x2 EXCEPT ![r] = n] /\ W!RunSound(n, j, e, c, t) /\ Stands(x2[r], n)
       /\ Stays(x6[r], t)
  BY <1>2, <1>7, <1>8, <1>9
<1> QED BY <1>2, <1>10, OneRun

\* A prepared journal is executed, as it is in the file.
LEMMA RunPreparedKeeps ==
    ASSUME W!PlansOK, W!JournalsInv, NEW r \in Runs, W!RunPrepared(r), ~W!Overtakes(r)
    PROVE  W!JournalsInv' /\ W!KeepsWork
<1>1. PICK d \in W!Journal \union {NoJournal}, j \in W!Journal \union {NoJournal},
           e \in W!EngineState, c \in BOOLEAN, t \in [W!Steps \X W!Attempts -> W!TreeState] :
        /\ d = x2[r] /\ j = x3[r] /\ e = x4[r] /\ c = x5[r] /\ t = x6[r]
        /\ x2 = [x2 EXCEPT ![r] = d] /\ x3 = [x3 EXCEPT ![r] = j]
        /\ x4 = [x4 EXCEPT ![r] = e] /\ x5 = [x5 EXCEPT ![r] = c]
        /\ x6 = [x6 EXCEPT ![r] = t]
        /\ W!RunSound(d, j, e, c, t) /\ x1 \in Plans
  BY Rows
<1>2. /\ d = W!NewJournal /\ x1' = x1 /\ x2' = [x2 EXCEPT ![r] = d]
      /\ x3' = [x3 EXCEPT ![r] = d] /\ x4' = [x4 EXCEPT ![r] = W!NewEngine(d)]
      /\ x5' = [x5 EXCEPT ![r] = FALSE] /\ x6' = [x6 EXCEPT ![r] = t]
  BY <1>1 DEF W!RunPrepared, W!Execute, W!Overtakes
<1>3. d \in W!Journal /\ d.status = "running" /\ \A s \in W!Steps : d.step[s] = "pending"
  BY <1>2, NewJournalIs
<1>4. W!RunSound(d, d, W!NewEngine(d), FALSE, t)
  BY <1>1, <1>3, BeginSound DEF W!RunSound
<1>5. Stands(x2[r], d) /\ Stays(x6[r], t)
  BY <1>1 DEF Stands, Stays
<1>6. W!NewEngine(d) \in W!EngineState
  BY <1>3, NewEngineIs
<1> QED BY <1>1, <1>2, <1>3, <1>4, <1>5, <1>6, OneRun

\* A run is resumed from the journal that is in the file.
LEMMA ResumeKeeps ==
    ASSUME W!PlansOK, W!JournalsInv, NEW r \in Runs, W!Resume(r), ~W!Overtakes(r)
    PROVE  W!JournalsInv' /\ W!KeepsWork
<1>1. PICK d \in W!Journal \union {NoJournal}, j \in W!Journal \union {NoJournal},
           e \in W!EngineState, c \in BOOLEAN, t \in [W!Steps \X W!Attempts -> W!TreeState] :
        /\ d = x2[r] /\ j = x3[r] /\ e = x4[r] /\ c = x5[r] /\ t = x6[r]
        /\ x2 = [x2 EXCEPT ![r] = d] /\ x3 = [x3 EXCEPT ![r] = j]
        /\ x4 = [x4 EXCEPT ![r] = e] /\ x5 = [x5 EXCEPT ![r] = c]
        /\ x6 = [x6 EXCEPT ![r] = t]
        /\ W!RunSound(d, j, e, c, t) /\ x1 \in Plans
  BY Rows
<1>2. PICK k : k = W!ResetForRerun(d)
  OBVIOUS
<1>3. /\ d # NoJournal /\ x1' = x1 /\ x2' = [x2 EXCEPT ![r] = k]
      /\ x3' = [x3 EXCEPT ![r] = k] /\ x4' = [x4 EXCEPT ![r] = W!NewEngine(k)]
      /\ x5' = [x5 EXCEPT ![r] = FALSE] /\ x6' = [x6 EXCEPT ![r] = t]
  BY <1>1, <1>2 DEF W!Resume, W!Execute, W!Overtakes
<1>4. /\ d \in W!Journal /\ k \in W!Journal /\ k.status = "running"
      /\ k.partial = d.partial /\ k.reused = d.reused
      /\ \A s \in W!Steps :
           /\ k.step[s] = IF d.step[s] = "success" THEN "success" ELSE "pending"
           /\ k.trees[s] = IF d.step[s] = "success" THEN d.trees[s] ELSE W!Kept(d.trees[s])
  BY <1>2, <1>3, ResetIs
<1>5. W!Completed(k) = W!Completed(d)
  BY <1>4 DEF W!Completed
<1>6. W!FileSound(d, t) /\ W!JournalSound(d)
  BY <1>1, <1>3 DEF W!RunSound, W!FileSound
<1>7. \A s \in W!Steps :
        /\ W!OwnAttempts(d.trees[s]) => W!OwnAttempts(k.trees[s])
        /\ \A a \in W!Attempts : W!Recorded(d.trees[s], a) => W!Recorded(k.trees[s], a)
  BY <1>4, KeptIs, JournalFields
<1>8. W!FileSound(k, t)
  <2>1. W!JournalSound(k)
    BY <1>4, <1>5, <1>6, <1>7 DEF W!JournalSound
  <2>2. k # NoJournal
    BY <1>1, <1>4, PlanIs
  <2> QED BY <1>4, <1>6, <1>7, <2>1, <2>2 DEF W!FileSound
<1>9. W!RunSound(k, k, W!NewEngine(k), FALSE, t)
  BY <1>1, <1>4, <1>8, BeginSound
<1>10. Stands(x2[r], k) /\ Stays(x6[r], t)
  BY <1>1, <1>4, <1>5 DEF Stands, Stays
<1>11. W!NewEngine(k) \in W!EngineState
  BY <1>4, NewEngineIs
<1> QED BY <1>1, <1>3, <1>4, <1>9, <1>10, <1>11, OneRun

\* A run that ended is replayed.
LEMMA ReplayKeeps ==
    ASSUME W!PlansOK, W!JournalsInv, NEW r \in Runs, NEW source \in Runs, W!Replay(source, r)
    PROVE  W!JournalsInv' /\ W!KeepsWork
<1>1. PICK d \in W!Journal \union {NoJournal}, j \in W!Journal \union {NoJournal},
           e \in W!EngineState, c \in BOOLEAN, t \in [W!Steps \X W!Attempts -> W!TreeState] :
        /\ d = x2[r] /\ j = x3[r] /\ e = x4[r] /\ c = x5[r] /\ t = x6[r]
        /\ x2 = [x2 EXCEPT ![r] = d] /\ x3 = [x3 EXCEPT ![r] = j]
        /\ x4 = [x4 EXCEPT ![r] = e] /\ x5 = [x5 EXCEPT ![r] = c]
        /\ x6 = [x6 EXCEPT ![r] = t]
        /\ W!RunSound(d, j, e, c, t) /\ x1 \in Plans
  BY Rows
<1>2. PICK o : o = x2[source]
  OBVIOUS
<1>3. PICK k : k = W!ReplayPrefix(o)
  OBVIOUS
<1>4. /\ d = NoJournal /\ o # NoJournal /\ x1' = x1 /\ x2' = [x2 EXCEPT ![r] = k]
      /\ x3' = [x3 EXCEPT ![r] = k] /\ x4' = [x4 EXCEPT ![r] = W!NewEngine(k)]
      /\ x5' = [x5 EXCEPT ![r] = FALSE] /\ x6' = [x6 EXCEPT ![r] = t]
  BY <1>1, <1>2, <1>3 DEF W!Replay, W!Execute
<1>5. o \in W!Journal
  BY <1>2, <1>4, RowsOf
<1>6. /\ k \in W!Journal /\ k.status = "running" /\ k.partial = {}
      /\ k.reused = {s \in W!Steps : \A u \in 1 .. s : W!Reusable(o, u)}
      /\ \A s \in W!Steps : /\ k.step[s] = IF s \in k.reused THEN "success" ELSE "pending"
                            /\ s \notin k.reused => k.trees[s] = <<>>
  BY <1>3, <1>5, ReplayIs
<1>7. W!Completed(k) = k.reused
  BY <1>6 DEF W!Completed
<1>8. ASSUME NEW s \in k.reused PROVE x1.needs[s] \subseteq k.reused
  <2>1. s \in W!Steps
    BY <1>6
  <2>2. ASSUME NEW n \in x1.needs[s] PROVE \A u \in 1 .. n : u \in 1 .. s
    <3>1. n \in W!Steps /\ n \in 1 .. s - 1 /\ s \in Nat /\ n \in Nat
      BY <1>1, <2>1, PlanIs
    <3>2. n <= s
      BY <3>1
    <3> QED BY <3>1, <3>2
  <2>3. \A n \in x1.needs[s] : n \in W!Steps
    BY <1>1, <2>1, PlanIs
  <2> QED BY <1>6, <2>2, <2>3
<1>9. W!FileSound(k, t)
  <2>1. W!JournalSound(k)
    BY <1>6, <1>7, <1>8 DEF W!JournalSound, W!OwnAttempts
  <2> QED BY <1>1, <1>4, <1>6, <2>1 DEF W!RunSound, W!FileSound
<1>10. W!RunSound(k, k, W!NewEngine(k), FALSE, t)
  BY <1>1, <1>6, <1>9, BeginSound
<1>11. Stands(x2[r], k) /\ Stays(x6[r], t)
  BY <1>1, <1>4 DEF Stands, Stays
<1>12. W!NewEngine(k) \in W!EngineState
  BY <1>6, NewEngineIs
<1> QED BY <1>1, <1>4, <1>6, <1>10, <1>11, <1>12, OneRun

\* The token of a running engine is cancelled.
LEMMA CancelKeeps ==
    ASSUME W!PlansOK, W!JournalsInv, NEW r \in Runs, W!Cancel(r)
    PROVE  W!JournalsInv' /\ W!KeepsWork
<1>1. PICK d \in W!Journal \union {NoJournal}, j \in W!Journal \union {NoJournal},
           e \in W!EngineState, c \in BOOLEAN, t \in [W!Steps \X W!Attempts -> W!TreeState] :
        /\ d = x2[r] /\ j = x3[r] /\ e = x4[r] /\ c = x5[r] /\ t = x6[r]
        /\ x2 = [x2 EXCEPT ![r] = d] /\ x3 = [x3 EXCEPT ![r] = j]
        /\ x4 = [x4 EXCEPT ![r] = e] /\ x5 = [x5 EXCEPT ![r] = c]
        /\ x6 = [x6 EXCEPT ![r] = t]
        /\ W!RunSound(d, j, e, c, t) /\ x1 \in Plans
  BY Rows
<1>2. /\ x1' = x1 /\ x2' = [x2 EXCEPT ![r] = d] /\ x3' = [x3 EXCEPT ![r] = j]
      /\ x4' = [x4 EXCEPT ![r] = e] /\ x5' = [x5 EXCEPT ![r] = TRUE]
      /\ x6' = [x6 EXCEPT ![r] = t]
  BY <1>1 DEF W!Cancel
<1>3. W!FailuresSound(j, e, c) => W!FailuresSound(j, e, TRUE)
  BY DEF W!FailuresSound
<1>4. W!RunSound(d, j, e, TRUE, t)
  BY <1>1, <1>3 DEF W!RunSound
<1>5. Stands(x2[r], d) /\ Stays(x6[r], t)
  BY <1>1 DEF Stands, Stays
<1> QED BY <1>1, <1>2, <1>4, <1>5, OneRun

\* A tree is worked in.
LEMMA WorkKeeps ==
    ASSUME W!PlansOK, W!JournalsInv, NEW r \in Runs, NEW s \in W!Steps, NEW a \in W!Attempts, W!Work(r, s, a)
    PROVE  W!JournalsInv' /\ W!KeepsWork
<1>1. PICK d \in W!Journal \union {NoJournal}, j \in W!Journal \union {NoJournal},
           e \in W!EngineState, c \in BOOLEAN, t \in [W!Steps \X W!Attempts -> W!TreeState] :
        /\ d = x2[r] /\ j = x3[r] /\ e = x4[r] /\ c = x5[r] /\ t = x6[r]
        /\ x2 = [x2 EXCEPT ![r] = d] /\ x3 = [x3 EXCEPT ![r] = j]
        /\ x4 = [x4 EXCEPT ![r] = e] /\ x5 = [x5 EXCEPT ![r] = c]
        /\ x6 = [x6 EXCEPT ![r] = t]
        /\ W!RunSound(d, j, e, c, t) /\ x1 \in Plans
  BY Rows
<1>2. PICK t2 : t2 = [t EXCEPT ![<<s, a>>] = "worked"]
  OBVIOUS
<1>3. /\ x1' = x1 /\ x2' = [x2 EXCEPT ![r] = d] /\ x3' = [x3 EXCEPT ![r] = j]
      /\ x4' = [x4 EXCEPT ![r] = e] /\ x5' = [x5 EXCEPT ![r] = c]
      /\ x6' = [x6 EXCEPT ![r] = t2] /\ t[<<s, a>>] = "used"
  BY <1>1, <1>2 DEF W!Work
<1>4. t2 \in [W!Steps \X W!Attempts -> W!TreeState]
  BY <1>2 DEF W!TreeState
<1>5. \A p \in W!Steps \X W!Attempts : IF p = <<s, a>> THEN t2[p] = "worked" ELSE t2[p] = t[p]
  BY <1>2
<1>6. W!FileSound(d, t2)
  BY <1>1, <1>3, <1>5 DEF W!RunSound, W!FileSound
<1>7. ASSUME W!StartedSound(d, j, e, t) PROVE W!StartedSound(d, j, e, t2)
  <2> SUFFICES ASSUME NEW p, t[p] \in {"made", "absent"}, t2[p] # t[p] PROVE FALSE
    BY <1>7 DEF W!StartedSound
  <2> QED BY <1>2, <1>3, <1>5
<1>8. W!RunSound(d, j, e, c, t2)
  BY <1>1, <1>6, <1>7 DEF W!RunSound
<1>9. Stands(x2[r], d) /\ Stays(x6[r], t2)
  BY <1>1, <1>5 DEF Stands, Stays
<1> QED BY <1>1, <1>3, <1>4, <1>8, <1>9, OneRun

\* An engine is lost with its memory.
LEMMA EngineLostKeeps ==
    ASSUME W!PlansOK, W!JournalsInv, NEW r \in Runs, W!EngineLost(r)
    PROVE  W!JournalsInv' /\ W!KeepsWork
<1>1. PICK d \in W!Journal \union {NoJournal}, j \in W!Journal \union {NoJournal},
           e \in W!EngineState, c \in BOOLEAN, t \in [W!Steps \X W!Attempts -> W!TreeState] :
        /\ d = x2[r] /\ j = x3[r] /\ e = x4[r] /\ c = x5[r] /\ t = x6[r]
        /\ x2 = [x2 EXCEPT ![r] = d] /\ x3 = [x3 EXCEPT ![r] = j]
        /\ x4 = [x4 EXCEPT ![r] = e] /\ x5 = [x5 EXCEPT ![r] = c]
        /\ x6 = [x6 EXCEPT ![r] = t]
        /\ W!RunSound(d, j, e, c, t) /\ x1 \in Plans
  BY Rows
<1>2. PICK gone \in SUBSET {s \in W!Running(x4[r]) \cap x1.isolated :
                             /\ x4[r].out[s] = "dispatched"
                             /\ x6[r][<<s, W!Attempt(r, s)>>] = "used"} :
        x6' = [x6 EXCEPT ![r] = [p \in W!Steps \X W!Attempts |->
                    IF p[1] \in gone /\ p[2] = W!Attempt(r, p[1]) THEN "absent" ELSE x6[r][p]]]
  BY DEF W!EngineLost
<1>3. PICK t2 : t2 = [p \in W!Steps \X W!Attempts |->
                        IF p[1] \in gone /\ p[2] = W!Attempt(r, p[1]) THEN "absent" ELSE t[p]]
  OBVIOUS
<1>4. /\ x1' = x1 /\ x2' = [x2 EXCEPT ![r] = d] /\ x3' = [x3 EXCEPT ![r] = NoJournal]
      /\ x4' = [x4 EXCEPT ![r] = W!NoEngine] /\ x5' = [x5 EXCEPT ![r] = FALSE]
  BY <1>1 DEF W!EngineLost, W!NoMoreEngine
<1>5. x6' = [x6 EXCEPT ![r] = t2]
  BY <1>1, <1>2, <1>3
<1>6. t2 \in [W!Steps \X W!Attempts -> W!TreeState]
  BY <1>3 DEF W!TreeState
<1>7. \A p \in W!Steps \X W!Attempts : t2[p] = t[p] \/ (t2[p] = "absent" /\ t[p] = "used")
  <2> TAKE p \in W!Steps \X W!Attempts
  <2>1. p = <<p[1], p[2]>>
    OBVIOUS
  <2>2. CASE p[1] \in gone /\ p[2] = W!Attempt(r, p[1])
    BY <1>1, <1>2, <1>3, <2>1, <2>2
  <2>3. CASE ~(p[1] \in gone /\ p[2] = W!Attempt(r, p[1]))
    BY <1>3, <2>3
  <2> QED BY <2>2, <2>3
<1>8. W!FileSound(d, t2)
  BY <1>1, <1>7 DEF W!RunSound, W!FileSound
<1>9. Stands(x2[r], d) /\ Stays(x6[r], t2)
  BY <1>1, <1>7 DEF Stands, Stays
<1> QED BY <1>1, <1>4, <1>5, <1>6, <1>8, <1>9, EndSound, NoEngineIs, OneRun

-----------------------------------------------------------------------------
(* A run with an engine. *)

\* What is known of a run that has an engine.
LEMMA LiveIs ==
    ASSUME W!PlansOK, NEW d \in W!Journal \union {NoJournal}, NEW j \in W!Journal \union {NoJournal},
           NEW e \in W!EngineState, NEW c, NEW t, W!RunSound(d, j, e, c, t),
           j # NoJournal \/ W!Running(e) # {}
    PROVE  /\ d \in W!Journal /\ j \in W!Journal /\ W!JournalSound(d) /\ W!FileSound(d, t)
           /\ W!CopySound(d, j, e) /\ W!ScheduleSound(j, e) /\ W!FailuresSound(j, e, c)
           /\ W!StartedSound(d, j, e, t)
<1>1. j # NoJournal
  BY NoEngineIs DEF W!RunSound
<1>2. W!CopySound(d, j, e) /\ W!ScheduleSound(j, e) /\ W!FailuresSound(j, e, c) /\ W!StartedSound(d, j, e, t)
  BY <1>1 DEF W!RunSound
<1>3. d # NoJournal /\ W!FileSound(d, t)
  BY <1>2 DEF W!RunSound, W!CopySound
<1>4. W!JournalSound(d)
  BY <1>3 DEF W!FileSound
<1> QED BY <1>1, <1>2, <1>3, <1>4

\* A run that has an engine, from what is known of it.
LEMMA LiveFrom ==
    ASSUME NEW d, NEW j, NEW e, NEW c, NEW t, W!FileSound(d, t), W!CopySound(d, j, e),
           W!ScheduleSound(j, e), W!FailuresSound(j, e, c), W!StartedSound(d, j, e, t),
           j # NoJournal
    PROVE  W!RunSound(d, j, e, c, t)
BY DEF W!RunSound

\* A file that was just written is the engine's copy.
LEMMA WrittenIs ==
    ASSUME W!PlansOK, x1 \in Plans, NEW k \in W!Journal, NEW e, NEW t, W!JournalSound(k),
           k.status = "running", W!Made(e) = {},
           \A s \in W!Steps, a \in W!Attempts : t[<<s, a>>] \in {"used", "worked"} =>
                W!Recorded(k.trees[s], a)
    PROVE  W!FileSound(k, t) /\ W!CopySound(k, k, e) /\ k # NoJournal
<1>1. k # NoJournal
  BY PlanIs
<1>2. W!FileSound(k, t)
  BY <1>1 DEF W!FileSound
<1>3. W!CopySound(k, k, e)
  BY <1>1 DEF W!CopySound
<1> QED BY <1>1, <1>2, <1>3

\* With no tree in the making the copy has the entries of the file.
LEMMA NothingMade ==
    ASSUME NEW d \in W!Journal, NEW j \in W!Journal, NEW e, W!CopySound(d, j, e), W!Made(e) = {}
    PROVE  \A s \in W!Steps : j.trees[s] = d.trees[s]
BY DEF W!CopySound

\* An engine that aborts.
LEMMA AbortingIs ==
    ASSUME NEW e \in W!EngineState, NEW e2,
           e2 = [e EXCEPT !.aborting = TRUE, !.failures = TRUE]
    PROVE  /\ e2 \in W!EngineState /\ W!Running(e2) = W!Running(e) /\ e2.out = e.out
           /\ e2.terminal = e.terminal /\ e2.aborting = TRUE /\ e2.failures = TRUE
           /\ W!Unscheduled(e2) = W!Unscheduled(e) /\ W!Made(e2) = W!Made(e)
<1>1. PICK ss \in SUBSET W!Steps : ss = W!Running(e)
  BY EngineFields
<1>2. PICK f \in [ss -> W!Out] : f = e.out
  BY <1>1, EngineFields
<1>3. PICK u \in SUBSET W!Steps : u = e.terminal
  BY EngineFields
<1>4. PICK yes \in BOOLEAN : yes = TRUE
  OBVIOUS
<1>5. e2 = [terminal |-> u, out |-> f, aborting |-> yes, failures |-> yes]
  BY <1>2, <1>3, <1>4 DEF W!EngineState
<1>6. /\ e2 \in W!EngineState /\ W!Running(e2) = ss /\ e2.out = f /\ e2.terminal = u
      /\ e2.aborting = yes /\ e2.failures = yes
  BY ONLY ss \in SUBSET W!Steps, f \in [ss -> W!Out], u \in SUBSET W!Steps, yes \in BOOLEAN, <1>5,
     EngineFromParts
<1>7. W!Running(e2) = W!Running(e) /\ e2.out = e.out /\ e2.terminal = e.terminal
  BY <1>1, <1>2, <1>3, <1>6
<1>8. W!Unscheduled(e2) = W!Unscheduled(e) /\ W!Made(e2) = W!Made(e)
  BY <1>7 DEF W!Unscheduled, W!Made
<1> QED BY <1>4, <1>6, <1>7, <1>8

\* At the head of its loop an engine that sees the token cancelled aborts, and
\* marks what is not scheduled.
LEMMA HeadSound ==
    ASSUME W!PlansOK, x1 \in Plans, NEW d \in W!Journal, NEW j \in W!Journal, NEW e \in W!EngineState,
           NEW c \in BOOLEAN, NEW t, W!RunSound(d, j, e, c, t)
    PROVE  /\ W!HeadJournal(j, e, c) \in W!Journal /\ W!HeadEngine(e, c) \in W!EngineState
           /\ W!RunSound(d, W!HeadJournal(j, e, c), W!HeadEngine(e, c), c, t)
<1>1. CASE ~W!SeesCancel(e, c)
  BY <1>1 DEF W!HeadJournal, W!HeadEngine
<1>2. CASE W!SeesCancel(e, c)
  <2>1. PICK j2 : j2 = W!MarkUnscheduled(j, e, "cancelled")
    OBVIOUS
  <2>2. PICK e2 : e2 = [e EXCEPT !.aborting = TRUE, !.failures = TRUE]
    OBVIOUS
  <2>3. /\ j2 \in W!Journal /\ j2.status = j.status /\ j2.partial = j.partial
        /\ j2.trees = j.trees /\ j2.reused = j.reused
        /\ \A s \in W!Steps : j2.step[s] =
             IF s \in W!Unscheduled(e) /\ j.step[s] # "success" THEN "cancelled" ELSE j.step[s]
    BY <2>1, MarkUnscheduledIs DEF W!StepStatuses, W!Terminal
  <2>4. /\ e2 \in W!EngineState /\ W!Running(e2) = W!Running(e) /\ e2.out = e.out
        /\ e2.terminal = e.terminal /\ e2.aborting = TRUE /\ e2.failures = TRUE
        /\ W!Unscheduled(e2) = W!Unscheduled(e) /\ W!Made(e2) = W!Made(e)
    BY <2>2, AbortingIs
  <2>5. /\ W!FileSound(d, t) /\ W!CopySound(d, j, e) /\ W!ScheduleSound(j, e)
        /\ W!FailuresSound(j, e, c) /\ W!StartedSound(d, j, e, t)
    BY LiveIs, PlanIs
  <2>6. c = TRUE /\ e.aborting = FALSE
    BY <1>2, EngineFields DEF W!SeesCancel
  <2>7. W!Completed(j2) = W!Completed(j)
    BY <2>3 DEF W!Completed
  <2>8. W!CopySound(d, j2, e2)
    <3>1. W!JournalSound(j2)
      BY <2>3, <2>5, <2>7 DEF W!CopySound, W!JournalSound
    <3>2. /\ d # NoJournal /\ d.status = "running" /\ j2.status = "running"
          /\ j2.partial = d.partial /\ j2.reused = d.reused /\ W!Completed(j2) = W!Completed(d)
      BY <2>3, <2>5, <2>7 DEF W!CopySound
    <3>3. /\ \A s \in W!Steps \ W!Made(e) : j.trees[s] = d.trees[s]
          /\ \A s \in W!Made(e) : \E a \in W!Attempts :
               j.trees[s] = Append(d.trees[s], [attempt |-> a, disp |-> "active"])
          /\ \A s, u \in W!Made(e) : s = u
      BY <2>5, Zenon DEF W!CopySound
    <3>4. j2.trees = j.trees /\ W!Made(e2) = W!Made(e)
      BY <2>3, <2>4
    <3> QED BY <3>1, <3>2, <3>3, <3>4, Zenon DEF W!CopySound
  <2>9. W!ScheduleSound(j2, e2)
    <3>1. e.terminal \in SUBSET W!Steps /\ W!Running(e) \in SUBSET W!Steps
      BY EngineFields
    <3>2. \A s \in e.terminal : s \notin W!Unscheduled(e)
      BY DEF W!Unscheduled
    <3>3. \A s \in W!Running(e) : s \notin W!Unscheduled(e)
      BY DEF W!Unscheduled
    <3>4. \A s \in e.terminal : j2.step[s] \in W!Terminal
      BY <2>3, <2>5, <3>1, <3>2 DEF W!ScheduleSound
    <3>5. \A s \in W!Running(e) : j2.step[s] = "running" /\ x1.needs[s] \subseteq W!Completed(j2)
      BY <2>3, <2>5, <2>7, <3>1, <3>3 DEF W!ScheduleSound
    <3>6. \A s \in W!Unscheduled(e) : s \in W!Steps /\ j.step[s] = "pending"
      BY <2>5, <2>6 DEF W!ScheduleSound, W!Unscheduled
    <3>7. \A s \in W!Unscheduled(e) : j2.step[s] = "cancelled"
      BY <2>3, <3>6
    <3> QED BY <2>4, <2>5, <2>7, <3>4, <3>5, <3>7 DEF W!ScheduleSound
  <2>10. W!FailuresSound(j2, e2, c)
    BY <2>4, <2>6 DEF W!FailuresSound
  <2>11. W!StartedSound(d, j2, e2, t)
    BY <2>3, <2>4, <2>5 DEF W!StartedSound
  <2>12. W!RunSound(d, j2, e2, c, t)
    BY <2>3, <2>5, <2>8, <2>9, <2>10, <2>11, LiveFrom, PlanIs
  <2> QED BY <1>2, <2>1, <2>2, <2>3, <2>4, <2>12 DEF W!HeadJournal, W!HeadEngine
<1> QED BY <1>1, <1>2

\* The engine sees the cancellation before a start.
LEMMA SeeCancelKeeps ==
    ASSUME W!PlansOK, W!JournalsInv, NEW r \in Runs, W!SeeCancel(r)
    PROVE  W!JournalsInv' /\ W!KeepsWork
<1>1. PICK d \in W!Journal \union {NoJournal}, j \in W!Journal \union {NoJournal},
           e \in W!EngineState, c \in BOOLEAN, t \in [W!Steps \X W!Attempts -> W!TreeState] :
        /\ d = x2[r] /\ j = x3[r] /\ e = x4[r] /\ c = x5[r] /\ t = x6[r]
        /\ x2 = [x2 EXCEPT ![r] = d] /\ x3 = [x3 EXCEPT ![r] = j]
        /\ x4 = [x4 EXCEPT ![r] = e] /\ x5 = [x5 EXCEPT ![r] = c]
        /\ x6 = [x6 EXCEPT ![r] = t]
        /\ W!RunSound(d, j, e, c, t) /\ x1 \in Plans
  BY Rows
<1>2. j # NoJournal /\ c = TRUE
  BY <1>1 DEF W!SeeCancel, W!InPass, W!Live
<1>3. PICK j2 : j2 = W!HeadJournal(j, e, c)
  OBVIOUS
<1>4. PICK e2 : e2 = W!HeadEngine(e, c)
  OBVIOUS
<1>5. /\ x1' = x1 /\ x2' = [x2 EXCEPT ![r] = d] /\ x3' = [x3 EXCEPT ![r] = j2]
      /\ x4' = [x4 EXCEPT ![r] = e2] /\ x5' = [x5 EXCEPT ![r] = c]
      /\ x6' = [x6 EXCEPT ![r] = t]
  BY <1>1, <1>2, <1>3, <1>4 DEF W!SeeCancel
<1>6. d \in W!Journal /\ j \in W!Journal
  BY <1>1, <1>2, LiveIs
<1>7. j2 \in W!Journal /\ e2 \in W!EngineState /\ W!RunSound(d, j2, e2, c, t)
  BY <1>1, <1>3, <1>4, <1>6, HeadSound
<1>8. Stands(x2[r], d) /\ Stays(x6[r], t)
  BY <1>1 DEF Stands, Stays
<1>9. j2 \in W!Journal \union {NoJournal}
  BY <1>7
<1> QED BY <1>5, <1>7, <1>8, <1>9, OneRun

-----------------------------------------------------------------------------
(* Starts. *)

\* A step that can be started is pending, its needs have succeeded, and there
\* is a permit left.
LEMMA StartableIs ==
    ASSUME W!PlansOK, NEW j \in W!Journal, NEW e \in W!EngineState, W!ScheduleSound(j, e),
           NEW s \in W!Startable(j, e)
    PROVE  /\ s \in W!Steps /\ s \in W!Unscheduled(e) /\ s \notin W!Running(e) /\ s \notin e.terminal
           /\ e.aborting = FALSE /\ j.step[s] = "pending"
           /\ x1.needs[s] \subseteq W!Completed(j)
           /\ Cardinality(W!Running(e) \union {s}) <= MaxConcurrency
<1>1. /\ e.aborting = FALSE /\ ~(Cardinality(W!Running(e)) >= MaxConcurrency) /\ s \in W!Ready(j, e)
  BY EngineFields, CountIs DEF W!Startable
<1>2. s \in W!Unscheduled(e) /\ x1.needs[s] \subseteq W!Completed(j)
  BY <1>1 DEF W!Ready
<1>3. s \in W!Steps /\ s \notin W!Running(e) /\ s \notin e.terminal
  BY <1>2 DEF W!Unscheduled
<1>4. j.step[s] = "pending"
  BY <1>1, <1>2 DEF W!ScheduleSound
<1>5. W!Running(e) \in SUBSET W!Steps
  BY EngineFields
<1>6. IsFiniteSet(W!Running(e)) /\ Cardinality(W!Running(e)) \in Nat /\ MaxConcurrency \in Nat
  BY <1>5, StepsFinite DEF W!PlansOK
<1>7. Cardinality(W!Running(e) \union {s}) = Cardinality(W!Running(e)) + 1
  BY <1>3, <1>6, FS_AddElement
<1> QED BY <1>1, <1>2, <1>3, <1>4, <1>6, <1>7

\* What a start does to the statuses and to the engine's sets.
LEMMA StartSchedule ==
    ASSUME W!PlansOK, x1 \in Plans, NEW j \in W!Journal, NEW e \in W!EngineState, NEW c,
           W!ScheduleSound(j, e), W!FailuresSound(j, e, c), NEW s \in W!Startable(j, e),
           NEW k \in W!Journal, NEW o \in W!Out, NEW e2, e2 = W!WithOut(e, s, o),
           \A u \in W!Steps : k.step[u] = IF u = s THEN "running" ELSE j.step[u]
    PROVE  /\ e2 \in W!EngineState /\ W!Completed(k) = W!Completed(j)
           /\ W!ScheduleSound(k, e2) /\ W!FailuresSound(k, e2, c)
<1>1. /\ s \in W!Steps /\ s \in W!Unscheduled(e) /\ s \notin W!Running(e) /\ s \notin e.terminal
      /\ e.aborting = FALSE /\ j.step[s] = "pending"
      /\ x1.needs[s] \subseteq W!Completed(j)
      /\ Cardinality(W!Running(e) \union {s}) <= MaxConcurrency
  BY StartableIs
<1>2. /\ e2 \in W!EngineState /\ W!Running(e2) = W!Running(e) \union {s}
      /\ e2.terminal = e.terminal /\ e2.aborting = e.aborting /\ e2.failures = e.failures
  BY <1>1, WithOutIs
<1>3. W!Completed(k) = W!Completed(j)
  BY <1>1 DEF W!Completed
<1>4. W!Unscheduled(e2) = W!Unscheduled(e) \ {s}
  BY <1>2 DEF W!Unscheduled
<1>5. e.terminal \in SUBSET W!Steps /\ W!Running(e) \in SUBSET W!Steps
  BY EngineFields
<1>6. W!ScheduleSound(k, e2)
  <2>1. e2.terminal \cap W!Running(e2) = {} /\ W!Completed(k) \subseteq e2.terminal
    BY <1>1, <1>2, <1>3 DEF W!ScheduleSound
  <2>2. \A u \in e2.terminal : k.step[u] \in W!Terminal
    BY <1>1, <1>2, <1>5 DEF W!ScheduleSound
  <2>3. \A u \in W!Running(e2) : k.step[u] = "running" /\ x1.needs[u] \subseteq W!Completed(k)
    BY <1>1, <1>2, <1>3, <1>5 DEF W!ScheduleSound
  <2>4. \A u \in W!Unscheduled(e2) : u \in W!Steps /\ u # s /\ k.step[u] = "pending"
    <3> TAKE u \in W!Unscheduled(e2)
    <3>1. u \in W!Steps /\ u # s /\ u \in W!Unscheduled(e)
      BY <1>4 DEF W!Unscheduled
    <3>2. j.step[u] = "pending"
      BY <1>1, <3>1 DEF W!ScheduleSound
    <3> QED BY <3>1, <3>2
  <2> QED BY <1>1, <1>2, <2>1, <2>2, <2>3, <2>4, CountIs DEF W!ScheduleSound
<1>7. W!FailuresSound(k, e2, c)
  <2>1. \A u \in W!Steps : x1.needs[u] \in SUBSET W!Steps
    BY PlanIs
  <2>2. e2.failures => c \/ \E u \in W!Steps : k.step[u] \in {"failed", "cancelled"}
    BY <1>1, <1>2 DEF W!FailuresSound
  <2>3. \A u \in W!Steps : k.step[u] = "skipped" => j.step[u] = "skipped"
    OBVIOUS
  <2>4. \A u \in W!Steps : j.step[u] \in {"failed", "skipped"} => k.step[u] \in {"failed", "skipped"}
    BY <1>1
  <2>5. \A u \in W!Steps : k.step[u] = "skipped" =>
          \E n \in x1.needs[u] : k.step[n] \in {"failed", "skipped"}
    BY <1>1, <2>1, <2>3, <2>4 DEF W!FailuresSound
  <2>6. \A u \in W!Unscheduled(e2) : u \in W!Steps /\ u \in W!Unscheduled(e)
    BY <1>4 DEF W!Unscheduled
  <2>7. \A u \in W!Unscheduled(e2) : \A n \in x1.needs[u] :
          k.step[n] \notin {"failed", "skipped", "cancelled"}
    BY <1>1, <2>1, <2>6 DEF W!FailuresSound
  <2>8. (e2.aborting => e2.failures) /\ \A u \in W!Steps : k.step[u] = "skipped" => e2.failures
    BY <1>2, <2>3 DEF W!FailuresSound
  <2> QED BY <2>2, <2>5, <2>7, <2>8 DEF W!FailuresSound
<1> QED BY <1>2, <1>3, <1>6, <1>7

\* A step is started without a tree, and the journal is written.
LEMMA StartSound ==
    ASSUME W!PlansOK, x1 \in Plans, NEW d \in W!Journal, NEW j \in W!Journal, NEW e \in W!EngineState,
           NEW c, NEW t, W!RunSound(d, j, e, c, t), W!Made(e) = {}, NEW s \in W!Startable(j, e),
           NEW o \in {"dispatched", "unplaced"}, ~W!Placed(s, o)
    PROVE  /\ W!WithStatus(j, {s}, "running") \in W!Journal /\ W!WithOut(e, s, o) \in W!EngineState
           /\ W!RunSound(W!WithStatus(j, {s}, "running"), W!WithStatus(j, {s}, "running"),
                       W!WithOut(e, s, o), c, t)
           /\ Stands(d, W!WithStatus(j, {s}, "running"))
<1>1. PICK k : k = W!WithStatus(j, {s}, "running")
  OBVIOUS
<1>2. PICK e2 : e2 = W!WithOut(e, s, o)
  OBVIOUS
<1>3. /\ k \in W!Journal /\ k.status = j.status /\ k.partial = j.partial
      /\ k.trees = j.trees /\ k.reused = j.reused
      /\ \A u \in W!Steps : k.step[u] = IF u = s THEN "running" ELSE j.step[u]
  BY <1>1, WithStatusIs DEF W!StepStatuses
<1>4. /\ W!FileSound(d, t) /\ W!CopySound(d, j, e) /\ W!ScheduleSound(j, e)
      /\ W!FailuresSound(j, e, c) /\ W!StartedSound(d, j, e, t) /\ d # NoJournal
  BY LiveIs, PlanIs
<1>5. o \in W!Out
  BY DEF W!Out
<1>6. s \in W!Steps /\ s \notin W!Running(e)
  BY <1>4, StartableIs
<1>7. /\ e2 \in W!EngineState /\ W!Completed(k) = W!Completed(j)
      /\ W!ScheduleSound(k, e2) /\ W!FailuresSound(k, e2, c)
  BY <1>2, <1>3, <1>4, <1>5, StartSchedule
<1>8. /\ W!Running(e2) = W!Running(e) \union {s} /\ e2.out[s] = o
      /\ \A u \in W!Running(e) \ {s} : e2.out[u] = e.out[u]
  BY <1>2, <1>5, <1>6, WithOutIs
<1>9. \A u \in W!Steps : k.trees[u] = d.trees[u]
  BY <1>3, <1>4, NothingMade
<1>10. W!Made(e2) = {}
  BY <1>8 DEF W!Made
<1>11. W!JournalSound(k)
  BY <1>3, <1>4, <1>7 DEF W!CopySound, W!JournalSound
<1>12. W!FileSound(k, t) /\ W!CopySound(k, k, e2) /\ k # NoJournal
  <2>1. \A u \in W!Steps, a \in W!Attempts : t[<<u, a>>] \in {"used", "worked"} => W!Recorded(k.trees[u], a)
    BY <1>4, <1>9 DEF W!FileSound
  <2>2. k.status = "running"
    BY <1>3, <1>4 DEF W!CopySound
  <2> QED BY <1>3, <1>10, <1>11, <2>1, <2>2, WrittenIs
<1>13. W!StartedSound(k, k, e2, t)
  <2> SUFFICES ASSUME NEW u \in W!Running(e2)
               PROVE  /\ k.step[u] = "running" /\ e2.out[u] # "made"
                      /\ W!Placed(u, e2.out[u]) => k.trees[u] # <<>>
                      /\ e2.out[u] = "removed" => t[<<u, W!Last(k.trees[u]).attempt>>] = "absent"
    BY DEF W!StartedSound
  <2>1. k.step[u] = "running" /\ e2.out[u] # "made"
    BY <1>7, <1>10 DEF W!ScheduleSound, W!Made
  <2>2. CASE u = s
    BY <1>8, <2>1, <2>2
  <2>3. CASE u # s
    BY <1>3, <1>4, <1>8, <2>1, <2>3 DEF W!StartedSound
  <2> QED BY <2>2, <2>3
<1>14. W!RunSound(k, k, e2, c, t)
  BY <1>7, <1>12, <1>13, LiveFrom
<1>15. Stands(d, k)
  BY <1>3, <1>4, <1>7 DEF Stands, W!CopySound
<1> QED BY <1>1, <1>2, <1>3, <1>7, <1>14, <1>15

\* A path that is free is that of an attempt of its own.
LEMMA FreeIs ==
    ASSUME W!PlansOK, NEW r \in Runs, NEW j \in W!Journal, j = x3[r], NEW s \in W!Steps, W!Free(r, s) # {},
           NEW a, a = W!Min(W!Free(r, s))
    PROVE  /\ a \in W!Attempts /\ x6[r][<<s, a>>] = "absent"
           /\ \A w \in W!Range(j.trees[s]) : w.attempt # a
<1>1. PICK n \in Nat : n = W!NextAttempt(j, s)
  BY NextAttemptIs
<1>2. W!Free(r, s) = {x \in W!Attempts \cap (n .. n + MaxSkips) : x6[r][<<s, x>>] = "absent"}
  BY <1>1 DEF W!Free
<1>3. MaxSkips \in Nat
  BY DEF W!PlansOK
<1>4. PICK F : F = W!Free(r, s)
  OBVIOUS
<1>5. F \in SUBSET Nat /\ F # {}
  <2>1. n .. n + MaxSkips \subseteq Nat
    BY <1>1, <1>3
  <2>2. F \subseteq n .. n + MaxSkips
    BY <1>2, <1>4
  <2>3. F # {}
    BY <1>4
  <2> QED BY <2>1, <2>2, <2>3
<1>6. \E m \in F : \A y \in F : m <= y
  BY <1>5, LeastNumber
<1>7. a = CHOOSE m \in F : \A y \in F : m <= y
  BY <1>4 DEF W!Min
<1>8. a \in F
  BY <1>6, <1>7
<1>9. a \in W!Attempts /\ a \in n .. n + MaxSkips /\ x6[r][<<s, a>>] = "absent"
  BY <1>2, <1>4, <1>8
<1>10. a >= n /\ a \in Nat
  BY <1>1, <1>3, <1>9
<1>11. ASSUME NEW w \in W!Range(j.trees[s]) PROVE w.attempt # a
  <2>1. w.attempt < n
    BY <1>1, NextAttemptIs
  <2>2. j.trees[s] \in Seq(W!Worktree)
    BY JournalFields
  <2>3. w \in W!Worktree
    BY <2>2 DEF W!Range
  <2>4. w.attempt \in Nat
    BY <2>3 DEF W!Worktree, W!Attempts
  <2> QED BY <1>1, <1>10, <2>1, <2>4
<1> QED BY <1>9, <1>11

\* Journal k and engine e2 after such a start, next to file d, journal j and engine e before.
EntryMade(d, j, e, c, t, s, a, disp, o, x, k, e2, t2) ==
    /\ s \in W!Steps /\ s \notin W!Running(e)
    /\ k \in W!Journal /\ e2 \in W!EngineState /\ t2 \in [W!Steps \X W!Attempts -> W!TreeState]
    /\ k.status = "running" /\ k.partial = j.partial /\ k.reused = j.reused
    /\ W!Completed(k) = W!Completed(j) /\ W!JournalSound(k)
    /\ k.trees[s] = Append(d.trees[s], [attempt |-> a, disp |-> disp])
    /\ \A u \in W!Steps \ {s} : k.trees[u] = d.trees[u]
    /\ W!Last(k.trees[s]).attempt = a /\ k.trees[s] # <<>>
    /\ W!ScheduleSound(k, e2) /\ W!FailuresSound(k, e2, c)
    /\ W!Running(e2) = W!Running(e) \union {s} /\ e2.out[s] = o
    /\ \A u \in W!Running(e) : e2.out[u] = e.out[u] /\ e2.out[u] # "made"
    /\ \A p \in W!Steps \X W!Attempts : IF p = <<s, a>> THEN t2[p] = x ELSE t2[p] = t[p]
    /\ Stays(t, t2) /\ k # NoJournal
    /\ \A u \in W!Steps, b \in W!Attempts : t2[<<u, b>>] \in {"used", "worked"} =>
         W!Recorded(d.trees[u], b) /\ W!Recorded(k.trees[u], b)

\* A start with an entry for a tree, of state x, at a path that was free.
EntryStarts(d, j, e, c, t, s, a, disp, o, x, k, e2, t2) ==
    /\ d \in W!Journal /\ j \in W!Journal /\ e \in W!EngineState /\ t \in [W!Steps \X W!Attempts -> W!TreeState]
    /\ W!RunSound(d, j, e, c, t) /\ W!Made(e) = {} /\ s \in W!Startable(j, e)
    /\ a \in W!Attempts /\ t[<<s, a>>] = "absent" /\ \A w \in W!Range(j.trees[s]) : w.attempt # a
    /\ disp \in {"active", "cleanup_failed"} /\ o \in {"made", "unplaced"} /\ x \in {"made", "branch"}
    /\ k = W!AddEntry(W!WithStatus(j, {s}, "running"), s, a, disp) /\ e2 = W!WithOut(e, s, o)
    /\ t2 = [t EXCEPT ![<<s, a>>] = x]

\* A step is started with an entry for a tree at a path that was free.
LEMMA EntrySound ==
    ASSUME W!PlansOK, x1 \in Plans, NEW d, NEW j, NEW e, NEW c, NEW t, NEW s, NEW a, NEW disp,
           NEW o, NEW x, NEW k, NEW e2, NEW t2,
           EntryStarts(d, j, e, c, t, s, a, disp, o, x, k, e2, t2)
    PROVE  EntryMade(d, j, e, c, t, s, a, disp, o, x, k, e2, t2)
<1> USE DEF EntryStarts
<1>1. PICK m : m = W!WithStatus(j, {s}, "running")
  OBVIOUS
<1>2. /\ W!FileSound(d, t) /\ W!CopySound(d, j, e) /\ W!ScheduleSound(j, e)
      /\ W!FailuresSound(j, e, c) /\ W!StartedSound(d, j, e, t) /\ d # NoJournal
  BY LiveIs, PlanIs
<1>3. s \in W!Steps /\ s \notin W!Running(e)
  BY <1>2, StartableIs
<1>4. /\ m \in W!Journal /\ m.status = j.status /\ m.partial = j.partial
      /\ m.trees = j.trees /\ m.reused = j.reused
      /\ \A u \in W!Steps : m.step[u] = IF u = s THEN "running" ELSE j.step[u]
  BY <1>1, WithStatusIs DEF W!StepStatuses
<1>5. /\ k \in W!Journal /\ k.status = m.status /\ k.partial = m.partial /\ k.step = m.step
      /\ k.reused = m.reused /\ k.trees[s] = Append(m.trees[s], [attempt |-> a, disp |-> disp])
      /\ \A u \in W!Steps \ {s} : k.trees[u] = m.trees[u]
  <2>1. k = W!AddEntry(m, s, a, disp)
    BY <1>1
  <2>2. m \in W!Journal /\ s \in W!Steps
    BY <1>3, <1>4
  <2>3. k \in W!Journal /\ k.status = m.status /\ k.partial = m.partial /\ k.step = m.step
    BY ONLY <2>1, <2>2, a \in W!Attempts, disp \in {"active", "cleanup_failed"}, AddEntryIs
  <2>4. k.reused = m.reused
    BY ONLY <2>1, <2>2, a \in W!Attempts, disp \in {"active", "cleanup_failed"}, AddEntryIs
  <2>6. ASSUME NEW u \in W!Steps, u # s PROVE k.trees[u] = m.trees[u]
    BY ONLY <2>1, <2>2, <2>6, u \in W!Steps, AddEntryOthers
  <2>5. k.trees[s] = Append(m.trees[s], [attempt |-> a, disp |-> disp])
    BY ONLY <2>1, <2>2, a \in W!Attempts, disp \in {"active", "cleanup_failed"}, AddEntryIs
  <2> QED BY <2>3, <2>4, <2>5, <2>6
<1>6. \A u \in W!Steps : m.trees[u] = d.trees[u] /\ m.trees[u] = j.trees[u]
  BY <1>2, <1>4, NothingMade
<1>7. o \in W!Out
  BY DEF W!Out
<1>8. /\ e2 \in W!EngineState /\ W!Completed(k) = W!Completed(j)
      /\ W!ScheduleSound(k, e2) /\ W!FailuresSound(k, e2, c)
  <2>1. \A u \in W!Steps : k.step[u] = IF u = s THEN "running" ELSE j.step[u]
    BY <1>4, <1>5
  <2>2. k \in W!Journal /\ W!ScheduleSound(j, e) /\ W!FailuresSound(j, e, c)
    BY <1>2, <1>5
  <2> QED BY ONLY W!PlansOK, x1 \in Plans, j \in W!Journal, e \in W!EngineState, s \in W!Startable(j, e),
                  <1>7, e2 = W!WithOut(e, s, o), <2>1, <2>2, StartSchedule
<1>9. /\ W!Running(e2) = W!Running(e) \union {s} /\ e2.out[s] = o
      /\ \A u \in W!Running(e) : e2.out[u] = e.out[u] /\ e2.out[u] # "made"
  BY <1>3, <1>7, WithOutIs DEF W!Made
<1>10. PICK w \in W!Worktree : w = [attempt |-> a, disp |-> disp]
  BY DEF W!Worktree
<1>11. d.trees[s] \in Seq(W!Worktree) /\ w.attempt = a /\ w.disp = disp /\ w.disp # "removed"
  BY <1>3, <1>10, JournalFields
<1>12. k.trees[s] = Append(d.trees[s], w) /\ \A v \in W!Range(d.trees[s]) : v.attempt # w.attempt
  BY <1>3, <1>5, <1>6, <1>10, <1>11
<1>13. /\ k.trees[s] # <<>> /\ W!Last(k.trees[s]) = w
       /\ \A b : W!Recorded(d.trees[s], b) => W!Recorded(k.trees[s], b)
       /\ W!OwnAttempts(d.trees[s]) => W!OwnAttempts(k.trees[s])
  BY <1>11, <1>12, AppendIs, ZenonT(60)
<1>14. \A u \in W!Steps \ {s} : k.trees[u] = d.trees[u]
  BY <1>5, <1>6
<1>15. W!JournalSound(k)
  <2>1. W!JournalSound(j) /\ W!JournalSound(d) /\ j.reused = d.reused
    BY <1>2 DEF W!CopySound, W!FileSound
  <2>2. \A u \in W!Steps \ k.reused : W!OwnAttempts(k.trees[u])
    BY <1>4, <1>5, <1>13, <1>14, <2>1 DEF W!JournalSound
  <2> QED BY <1>4, <1>5, <1>8, <2>1, <2>2 DEF W!JournalSound
<1>16. \A p \in W!Steps \X W!Attempts : IF p = <<s, a>> THEN t2[p] = x ELSE t2[p] = t[p]
  BY <1>3
<1>17. t2 \in [W!Steps \X W!Attempts -> W!TreeState]
  BY <1>3 DEF W!TreeState
<1>18. Stays(t, t2)
  BY <1>16 DEF Stays
<1>19. ASSUME NEW u \in W!Steps, NEW b \in W!Attempts, t2[<<u, b>>] \in {"used", "worked"}
       PROVE  W!Recorded(d.trees[u], b) /\ W!Recorded(k.trees[u], b)
  <2>1. t[<<u, b>>] \in {"used", "worked"}
    BY <1>16, <1>19
  <2>2. W!Recorded(d.trees[u], b)
    BY <1>2, <2>1 DEF W!FileSound
  <2> QED BY <1>13, <1>14, <2>2
<1>20. k.status = "running" /\ k.partial = j.partial /\ k.reused = j.reused /\ k # NoJournal
  BY <1>2, <1>4, <1>5, PlanIs DEF W!CopySound
<1>21. k.trees[s] = Append(d.trees[s], [attempt |-> a, disp |-> disp]) /\ W!Last(k.trees[s]).attempt = a
  BY <1>10, <1>11, <1>12, <1>13
<1> QED BY <1>3, <1>5, <1>8, <1>9, <1>13, <1>14, <1>15, <1>16, <1>17, <1>18, <1>19, <1>20, <1>21
     DEF EntryMade

\* A step without isolation is started.
LEMMA StartStepKeeps ==
    ASSUME W!PlansOK, W!JournalsInv, NEW r \in Runs, W!StartStep(r)
    PROVE  W!JournalsInv' /\ W!KeepsWork
<1>1. PICK d \in W!Journal \union {NoJournal}, j \in W!Journal \union {NoJournal},
           e \in W!EngineState, c \in BOOLEAN, t \in [W!Steps \X W!Attempts -> W!TreeState] :
        /\ d = x2[r] /\ j = x3[r] /\ e = x4[r] /\ c = x5[r] /\ t = x6[r]
        /\ x2 = [x2 EXCEPT ![r] = d] /\ x3 = [x3 EXCEPT ![r] = j]
        /\ x4 = [x4 EXCEPT ![r] = e] /\ x5 = [x5 EXCEPT ![r] = c]
        /\ x6 = [x6 EXCEPT ![r] = t]
        /\ W!RunSound(d, j, e, c, t) /\ x1 \in Plans
  BY Rows
<1>2. PICK s \in W!Startable(j, e) \ x1.isolated :
        /\ x3' = [x3 EXCEPT ![r] = W!WithStatus(j, {s}, "running")]
        /\ x2' = [x2 EXCEPT ![r] = W!WithStatus(j, {s}, "running")]
        /\ x4' = [x4 EXCEPT ![r] = W!WithOut(e, s, "dispatched")]
  BY <1>1 DEF W!StartStep
<1>3. /\ j # NoJournal /\ W!Made(e) = {} /\ x1' = x1 /\ x5' = [x5 EXCEPT ![r] = c]
      /\ x6' = [x6 EXCEPT ![r] = t]
  BY <1>1 DEF W!StartStep, W!InPass, W!Live, W!Making, W!Made
<1>4. PICK k : k = W!WithStatus(j, {s}, "running")
  OBVIOUS
<1>5. PICK e2 : e2 = W!WithOut(e, s, "dispatched")
  OBVIOUS
<1>6. ~W!Placed(s, "dispatched")
  BY DEF W!Placed, W!Settlements
<1>7. d \in W!Journal /\ j \in W!Journal
  BY <1>1, <1>3, LiveIs
<1>8. k \in W!Journal /\ e2 \in W!EngineState /\ W!RunSound(k, k, e2, c, t) /\ Stands(d, k)
  BY <1>1, <1>3, <1>4, <1>5, <1>6, <1>7, StartSound
<1>9. k \in W!Journal \union {NoJournal} /\ Stays(x6[r], t) /\ Stands(x2[r], k)
  BY <1>1, <1>8 DEF Stays
<1>10. /\ x3' = [x3 EXCEPT ![r] = k] /\ x2' = [x2 EXCEPT ![r] = k]
       /\ x4' = [x4 EXCEPT ![r] = e2]
  BY <1>2, <1>4, <1>5
<1> QED BY <1>3, <1>8, <1>9, <1>10, OneRun

\* A tree is made for a step and entered in the engine's copy.
LEMMA ProvisionKeeps ==
    ASSUME W!PlansOK, W!JournalsInv, NEW r \in Runs, W!Provision(r)
    PROVE  W!JournalsInv' /\ W!KeepsWork
<1>1. PICK d \in W!Journal \union {NoJournal}, j \in W!Journal \union {NoJournal},
           e \in W!EngineState, c \in BOOLEAN, t \in [W!Steps \X W!Attempts -> W!TreeState] :
        /\ d = x2[r] /\ j = x3[r] /\ e = x4[r] /\ c = x5[r] /\ t = x6[r]
        /\ x2 = [x2 EXCEPT ![r] = d] /\ x3 = [x3 EXCEPT ![r] = j]
        /\ x4 = [x4 EXCEPT ![r] = e] /\ x5 = [x5 EXCEPT ![r] = c]
        /\ x6 = [x6 EXCEPT ![r] = t]
        /\ W!RunSound(d, j, e, c, t) /\ x1 \in Plans
  BY Rows
<1>0. PICK s \in W!Startable(j, e) \cap x1.isolated :
        /\ W!Free(r, s) # {}
        /\ x6' = [x6 EXCEPT ![r][<<s, W!Min(W!Free(r, s))>>] = "made"]
        /\ x3' = [x3 EXCEPT ![r] =
             W!AddEntry(W!WithStatus(j, {s}, "running"), s, W!Min(W!Free(r, s)), "active")]
        /\ x4' = [x4 EXCEPT ![r] = W!WithOut(e, s, "made")]
  BY <1>1 DEF W!Provision
<1>2. PICK a : a = W!Min(W!Free(r, s))
  OBVIOUS
<1>3. /\ j # NoJournal /\ W!Made(e) = {} /\ x1' = x1 /\ x5' = [x5 EXCEPT ![r] = c]
      /\ x2' = [x2 EXCEPT ![r] = d]
  BY <1>1 DEF W!Provision, W!InPass, W!Live, W!Making, W!Made
<1>4. PICK k : k = W!AddEntry(W!WithStatus(j, {s}, "running"), s, a, "active")
  OBVIOUS
<1>5. PICK e2 : e2 = W!WithOut(e, s, "made")
  OBVIOUS
<1>6. PICK t2 : t2 = [t EXCEPT ![<<s, a>>] = "made"]
  OBVIOUS
<1>7. d \in W!Journal /\ j \in W!Journal /\ W!CopySound(d, j, e) /\ W!StartedSound(d, j, e, t) /\ W!FileSound(d, t)
      /\ W!ScheduleSound(j, e)
  BY <1>1, <1>3, LiveIs
<1>8. s \in W!Startable(j, e) /\ s \in W!Steps
  BY <1>7, StartableIs
<1>9. a \in W!Attempts /\ t[<<s, a>>] = "absent" /\ \A w \in W!Range(j.trees[s]) : w.attempt # a
  BY <1>0, <1>1, <1>2, <1>7, <1>8, FreeIs
<1>10. /\ s \in W!Steps /\ s \notin W!Running(e)
       /\ k \in W!Journal /\ e2 \in W!EngineState /\ t2 \in [W!Steps \X W!Attempts -> W!TreeState]
       /\ k.status = "running" /\ k.partial = j.partial /\ k.reused = j.reused
       /\ W!Completed(k) = W!Completed(j) /\ W!JournalSound(k)
       /\ k.trees[s] = Append(d.trees[s], [attempt |-> a, disp |-> "active"])
       /\ \A u \in W!Steps \ {s} : k.trees[u] = d.trees[u]
       /\ W!Last(k.trees[s]).attempt = a /\ k.trees[s] # <<>>
       /\ W!ScheduleSound(k, e2) /\ W!FailuresSound(k, e2, c)
       /\ W!Running(e2) = W!Running(e) \union {s} /\ e2.out[s] = "made"
       /\ \A u \in W!Running(e) : e2.out[u] = e.out[u] /\ e2.out[u] # "made"
       /\ \A p \in W!Steps \X W!Attempts : IF p = <<s, a>> THEN t2[p] = "made" ELSE t2[p] = t[p]
       /\ Stays(t, t2) /\ k # NoJournal
       /\ \A u \in W!Steps, b \in W!Attempts : t2[<<u, b>>] \in {"used", "worked"} =>
            W!Recorded(d.trees[u], b) /\ W!Recorded(k.trees[u], b)
  <2>1. PICK disp \in {"active", "cleanup_failed"}, o \in {"made", "unplaced"}, x \in {"made", "branch"} :
          disp = "active" /\ o = "made" /\ x = "made"
    OBVIOUS
  <2>2. /\ k = W!AddEntry(W!WithStatus(j, {s}, "running"), s, a, disp) /\ e2 = W!WithOut(e, s, o)
        /\ t2 = [t EXCEPT ![<<s, a>>] = x]
    BY <1>4, <1>5, <1>6, <2>1
  <2> HIDE <2>1
  <2>3. EntryMade(d, j, e, c, t, s, a, disp, o, x, k, e2, t2)
    <3>1. disp \in {"active", "cleanup_failed"} /\ o \in {"made", "unplaced"} /\ x \in {"made", "branch"}
      OBVIOUS
    <3>2. /\ x1 \in Plans /\ W!RunSound(d, j, e, c, t) /\ W!Made(e) = {} /\ d \in W!Journal /\ j \in W!Journal
          /\ s \in W!Startable(j, e)
      BY <1>1, <1>3, <1>7, <1>8
    <3>3. EntryStarts(d, j, e, c, t, s, a, disp, o, x, k, e2, t2)
      BY <1>9, <2>2, <3>1, <3>2 DEF EntryStarts
    <3> QED BY ONLY W!PlansOK, <3>2, <3>3, EntrySound
  <2> QED BY ONLY <2>1, <2>3 DEF EntryMade
<1>11. W!Made(e2) = {s}
  BY <1>10 DEF W!Made
<1>12. W!FileSound(d, t2)
  BY <1>7, <1>10 DEF W!FileSound, W!CopySound
<1>13. W!CopySound(d, k, e2)
  BY <1>7, <1>9, <1>10, <1>11 DEF W!CopySound
<1>14. W!StartedSound(d, k, e2, t2)
  <2> SUFFICES ASSUME NEW u \in W!Running(e2)
               PROVE  /\ e2.out[u] # "made" => d.step[u] = "running"
                      /\ W!Placed(u, e2.out[u]) => k.trees[u] # <<>>
                      /\ e2.out[u] = "made" => t2[<<u, W!Last(k.trees[u]).attempt>>] = "made"
                      /\ e2.out[u] = "removed" => t2[<<u, W!Last(k.trees[u]).attempt>>] = "absent"
    BY DEF W!StartedSound
  <2>1. CASE u = s
    BY <1>9, <1>10, <2>1
  <2>2. CASE u # s
    <3>1. u \in W!Running(e) /\ u \in W!Steps /\ k.trees[u] = d.trees[u] /\ d.trees[u] = j.trees[u]
      BY <1>3, <1>7, <1>10, <2>2, EngineFields, NothingMade
    <3>2. e2.out[u] = e.out[u] /\ e.out[u] # "made"
      BY <1>10, <3>1
    <3>3. \A b : t2[<<u, b>>] = t[<<u, b>>]
      BY <1>6, <2>2
    <3> QED BY <1>7, <3>1, <3>2, <3>3 DEF W!StartedSound
  <2> QED BY <2>1, <2>2
<1>15. W!RunSound(d, k, e2, c, t2)
  BY <1>10, <1>12, <1>13, <1>14, LiveFrom
<1>16. /\ x3' = [x3 EXCEPT ![r] = k] /\ x4' = [x4 EXCEPT ![r] = e2]
       /\ x6' = [x6 EXCEPT ![r] = t2]
  BY <1>0, <1>1, <1>2, <1>4, <1>5, <1>6
<1>17. k \in W!Journal \union {NoJournal} /\ Stays(x6[r], t2) /\ Stands(x2[r], d)
  BY <1>1, <1>10 DEF Stands
<1>18. e2 \in W!EngineState /\ t2 \in [W!Steps \X W!Attempts -> W!TreeState]
  BY <1>10
<1> QED BY ONLY W!PlansOK, W!JournalsInv, r \in Runs, d \in W!Journal \union {NoJournal}, c \in BOOLEAN,
                <1>3, <1>15, <1>16, <1>17, <1>18, OneRun

\* No tree could be made for a step, or one was made and could not be removed.
LEMMA ProvisionFailsKeeps ==
    ASSUME W!PlansOK, W!JournalsInv, NEW r \in Runs, W!ProvisionFails(r)
    PROVE  W!JournalsInv' /\ W!KeepsWork
<1>1. PICK d \in W!Journal \union {NoJournal}, j \in W!Journal \union {NoJournal},
           e \in W!EngineState, c \in BOOLEAN, t \in [W!Steps \X W!Attempts -> W!TreeState] :
        /\ d = x2[r] /\ j = x3[r] /\ e = x4[r] /\ c = x5[r] /\ t = x6[r]
        /\ x2 = [x2 EXCEPT ![r] = d] /\ x3 = [x3 EXCEPT ![r] = j]
        /\ x4 = [x4 EXCEPT ![r] = e] /\ x5 = [x5 EXCEPT ![r] = c]
        /\ x6 = [x6 EXCEPT ![r] = t]
        /\ W!RunSound(d, j, e, c, t) /\ x1 \in Plans
  BY Rows
<1>2. PICK s \in W!Startable(j, e) \cap x1.isolated :
        /\ \/ /\ x2' = [x2 EXCEPT ![r] = W!WithStatus(j, {s}, "running")] /\ x6' = x6
           \/ /\ W!Free(r, s) # {}
              /\ \E x \in {"made", "branch"} :
                   /\ x6' = [x6 EXCEPT ![r][<<s, W!Min(W!Free(r, s))>>] = x]
                   /\ x2' = [x2 EXCEPT ![r] =
                        W!AddEntry(W!WithStatus(j, {s}, "running"), s, W!Min(W!Free(r, s)), "cleanup_failed")]
        /\ x3' = [x3 EXCEPT ![r] = x2'[r]]
        /\ x4' = [x4 EXCEPT ![r] = W!WithOut(e, s, "unplaced")]
  <2>1. PICK s \in W!Startable(j, e) \cap x1.isolated :
          /\ \E x \in (IF W!Free(r, s) = {} THEN {} ELSE {"made", "branch"}) \union {"absent"} :
                IF x = "absent"
                THEN x2' = [x2 EXCEPT ![r] = W!WithStatus(j, {s}, "running")] /\ x6' = x6
                ELSE /\ x6' = [x6 EXCEPT ![r][<<s, W!Min(W!Free(r, s))>>] = x]
                     /\ x2' = [x2 EXCEPT ![r] =
                          W!AddEntry(W!WithStatus(j, {s}, "running"), s, W!Min(W!Free(r, s)), "cleanup_failed")]
          /\ x3' = [x3 EXCEPT ![r] = x2'[r]]
          /\ x4' = [x4 EXCEPT ![r] = W!WithOut(e, s, "unplaced")]
    BY <1>1, Zenon DEF W!ProvisionFails
  <2> QED BY <2>1
<1>3. /\ j # NoJournal /\ W!Made(e) = {} /\ x1' = x1 /\ x5' = [x5 EXCEPT ![r] = c]
  BY <1>1 DEF W!ProvisionFails, W!InPass, W!Live, W!Making, W!Made
<1>4. /\ d \in W!Journal /\ j \in W!Journal /\ W!CopySound(d, j, e) /\ W!StartedSound(d, j, e, t)
      /\ W!FileSound(d, t) /\ W!ScheduleSound(j, e)
  BY <1>1, <1>3, LiveIs
<1>5. s \in W!Startable(j, e) /\ s \in W!Steps
  BY <1>4, StartableIs
<1>6. PICK e2 : e2 = W!WithOut(e, s, "unplaced")
  OBVIOUS
<1>7. x4' = [x4 EXCEPT ![r] = e2]
  BY <1>2, <1>6
<1>8. ASSUME NEW k, x2' = [x2 EXCEPT ![r] = k] PROVE x3' = [x3 EXCEPT ![r] = k]
  <2>1. r \in DOMAIN x2
    BY DEF W!JournalsInv, W!WorkflowShape
  <2>2. x2'[r] = k
    BY <1>8, <2>1
  <2> QED BY <1>2, <2>2
<1>9. CASE x2' = [x2 EXCEPT ![r] = W!WithStatus(j, {s}, "running")] /\ x6' = x6
  <2>1. PICK k : k = W!WithStatus(j, {s}, "running")
    OBVIOUS
  <2>2. ~W!Placed(s, "unplaced")
    BY DEF W!Placed, W!Settlements
  <2>3. k \in W!Journal /\ e2 \in W!EngineState /\ W!RunSound(k, k, e2, c, t) /\ Stands(d, k)
    BY <1>1, <1>3, <1>4, <1>5, <1>6, <2>1, <2>2, StartSound
  <2>4. k \in W!Journal \union {NoJournal} /\ Stays(x6[r], t) /\ Stands(x2[r], k)
    BY <1>1, <2>3 DEF Stays
  <2>5. /\ x2' = [x2 EXCEPT ![r] = k] /\ x3' = [x3 EXCEPT ![r] = k]
        /\ x6' = [x6 EXCEPT ![r] = t]
    BY <1>1, <1>8, <1>9, <2>1
  <2> QED BY ONLY W!PlansOK, W!JournalsInv, r \in Runs, c \in BOOLEAN, t \in [W!Steps \X W!Attempts -> W!TreeState],
                  <1>3, <1>7, <2>3, <2>4, <2>5, OneRun
<1>10. ASSUME W!Free(r, s) # {}, NEW x \in {"made", "branch"},
              x6' = [x6 EXCEPT ![r][<<s, W!Min(W!Free(r, s))>>] = x],
              x2' = [x2 EXCEPT ![r] =
                W!AddEntry(W!WithStatus(j, {s}, "running"), s, W!Min(W!Free(r, s)), "cleanup_failed")]
       PROVE  W!JournalsInv' /\ W!KeepsWork
  <2>1. PICK a : a = W!Min(W!Free(r, s))
    OBVIOUS
  <2>2. PICK k : k = W!AddEntry(W!WithStatus(j, {s}, "running"), s, a, "cleanup_failed")
    OBVIOUS
  <2>3. PICK t2 : t2 = [t EXCEPT ![<<s, a>>] = x]
    OBVIOUS
  <2>4. a \in W!Attempts /\ t[<<s, a>>] = "absent" /\ \A w \in W!Range(j.trees[s]) : w.attempt # a
    BY <1>1, <1>4, <1>5, <1>10, <2>1, FreeIs
  <2>5. PICK disp \in {"active", "cleanup_failed"}, o \in {"made", "unplaced"} :
          disp = "cleanup_failed" /\ o = "unplaced"
    OBVIOUS
  <2>6. EntryMade(d, j, e, c, t, s, a, disp, o, x, k, e2, t2)
    <3>1. disp \in {"active", "cleanup_failed"} /\ o \in {"made", "unplaced"} /\ x \in {"made", "branch"}
      OBVIOUS
    <3>2. /\ x1 \in Plans /\ W!RunSound(d, j, e, c, t) /\ W!Made(e) = {} /\ d \in W!Journal /\ j \in W!Journal
          /\ s \in W!Startable(j, e)
      BY <1>1, <1>3, <1>4, <1>5
    <3>3. /\ k = W!AddEntry(W!WithStatus(j, {s}, "running"), s, a, disp) /\ e2 = W!WithOut(e, s, o)
          /\ t2 = [t EXCEPT ![<<s, a>>] = x]
      BY <1>6, <2>2, <2>3, <2>5
    <3>4. EntryStarts(d, j, e, c, t, s, a, disp, o, x, k, e2, t2)
      BY <2>4, <3>1, <3>2, <3>3 DEF EntryStarts
    <3> QED BY ONLY W!PlansOK, <3>2, <3>4, EntrySound
  <2>7. /\ s \notin W!Running(e) /\ k \in W!Journal /\ e2 \in W!EngineState
        /\ t2 \in [W!Steps \X W!Attempts -> W!TreeState] /\ k.status = "running" /\ k.reused = j.reused
        /\ W!Completed(k) = W!Completed(j) /\ W!JournalSound(k)
    BY ONLY <2>6 DEF EntryMade
  <2>8. /\ \A u \in W!Steps \ {s} : k.trees[u] = d.trees[u]
        /\ W!ScheduleSound(k, e2) /\ W!FailuresSound(k, e2, c)
        /\ W!Running(e2) = W!Running(e) \union {s} /\ e2.out[s] = "unplaced"
        /\ \A u \in W!Running(e) : e2.out[u] = e.out[u] /\ e2.out[u] # "made"
    BY ONLY <2>5, <2>6 DEF EntryMade
  <2>9. /\ Stays(t, t2)
        /\ \A u \in W!Steps, b \in W!Attempts : t2[<<u, b>>] \in {"used", "worked"} => W!Recorded(k.trees[u], b)
    BY ONLY <2>6 DEF EntryMade
  <2>10. W!Made(e2) = {}
    BY <2>8 DEF W!Made
  <2>11. W!FileSound(k, t2) /\ W!CopySound(k, k, e2) /\ k # NoJournal
    BY <1>1, <2>7, <2>9, <2>10, WrittenIs
  <2>12. W!StartedSound(k, k, e2, t2)
    <3> SUFFICES ASSUME NEW u \in W!Running(e2)
                 PROVE  /\ k.step[u] = "running" /\ e2.out[u] # "made"
                        /\ W!Placed(u, e2.out[u]) => k.trees[u] # <<>>
                        /\ e2.out[u] = "removed" => t2[<<u, W!Last(k.trees[u]).attempt>>] = "absent"
      BY DEF W!StartedSound
    <3>1. k.step[u] = "running" /\ e2.out[u] # "made"
      BY <2>8, <2>10 DEF W!ScheduleSound, W!Made
    <3>2. CASE u = s
      BY <2>8, <3>1, <3>2 DEF W!Placed, W!Settlements
    <3>3. CASE u # s
      <4>1. u \in W!Running(e) /\ u \in W!Steps /\ k.trees[u] = d.trees[u] /\ d.trees[u] = j.trees[u]
        BY <1>3, <1>4, <2>8, <3>3, EngineFields, NothingMade
      <4>2. e2.out[u] = e.out[u]
        BY <2>8, <4>1
      <4>3. \A b : t2[<<u, b>>] = t[<<u, b>>]
        BY <2>3, <3>3
      <4> QED BY <1>4, <3>1, <4>1, <4>2, <4>3 DEF W!StartedSound
    <3> QED BY <3>2, <3>3
  <2>13. W!RunSound(k, k, e2, c, t2)
    BY <2>8, <2>11, <2>12, LiveFrom
  <2>14. Stands(x2[r], k) /\ Stays(x6[r], t2) /\ k \in W!Journal \union {NoJournal}
    BY <1>1, <1>4, <2>7, <2>9 DEF Stands, W!CopySound
  <2>15. x2' = [x2 EXCEPT ![r] = k] /\ x6' = [x6 EXCEPT ![r] = t2]
    BY <1>1, <1>10, <2>1, <2>2, <2>3
  <2>16. x3' = [x3 EXCEPT ![r] = k]
    BY <1>8, <2>15
  <2> QED BY ONLY W!PlansOK, W!JournalsInv, r \in Runs, c \in BOOLEAN, <1>3, <1>7, <2>7, <2>13, <2>14,
                  <2>15, <2>16, OneRun
<1> QED BY <1>2, <1>9, <1>10

\* The place of a started step moves.
PlaceMoves(e, s, o, e2) ==
    /\ e2 \in W!EngineState /\ W!Running(e2) = W!Running(e) /\ e2.out[s] = o
    /\ \A u \in W!Running(e) \ {s} : e2.out[u] = e.out[u]
    /\ e2.terminal = e.terminal /\ e2.aborting = e.aborting /\ e2.failures = e.failures
    /\ W!Unscheduled(e2) = W!Unscheduled(e)

\* The rest of the engine stays.
LEMMA PlaceIs ==
    ASSUME NEW e \in W!EngineState, NEW s \in W!Running(e), NEW o \in W!Out
    PROVE  PlaceMoves(e, s, o, W!WithOut(e, s, o))
<1>0. PICK e2 : e2 = W!WithOut(e, s, o)
  OBVIOUS
<1>1. s \in W!Steps
  BY EngineFields
<1>2. /\ e2 \in W!EngineState /\ W!Running(e2) = W!Running(e) \union {s} /\ e2.out[s] = o
      /\ \A u \in W!Running(e) \ {s} : e2.out[u] = e.out[u]
      /\ e2.terminal = e.terminal /\ e2.aborting = e.aborting /\ e2.failures = e.failures
  BY <1>0, <1>1, WithOutIs
<1>3. W!Running(e2) = W!Running(e)
  BY <1>2
<1>4. W!Unscheduled(e2) = W!Unscheduled(e)
  BY <1>2, <1>3 DEF W!Unscheduled
<1> QED BY <1>0, <1>2, <1>3, <1>4 DEF PlaceMoves

\* The attempt in progress at a started step that has an entry.
LEMMA AttemptIs ==
    ASSUME NEW j \in W!Journal, NEW s \in W!Steps, j.trees[s] # <<>>
    PROVE  W!Last(j.trees[s]).attempt \in W!Attempts
<1>1. j.trees[s] \in Seq(W!Worktree) /\ j.trees[s] # <<>>
  BY JournalFields
<1>2. W!Last(j.trees[s]) \in W!Worktree
  BY <1>1 DEF W!Last
<1> QED BY <1>2 DEF W!Worktree

\* The trees of a run with one of them in another state.
TreeTurns(t, s, a, x, t2) ==
    /\ t2 \in [W!Steps \X W!Attempts -> W!TreeState] /\ t2[<<s, a>>] = x
    /\ \A u \in W!Steps, b \in W!Attempts : u # s \/ b # a => t2[<<u, b>>] = t[<<u, b>>]
    /\ \A u, b : u # s => t2[<<u, b>>] = t[<<u, b>>]
    /\ t[<<s, a>>] # "worked" \/ x = "worked" => Stays(t, t2)

\* A tree in another state leaves the others as they are.
LEMMA TreeIs ==
    ASSUME NEW t \in [W!Steps \X W!Attempts -> W!TreeState], NEW s \in W!Steps, NEW a \in W!Attempts,
           NEW x \in W!TreeState
    PROVE  TreeTurns(t, s, a, x, [t EXCEPT ![<<s, a>>] = x])
<1>0. PICK t2 : t2 = [t EXCEPT ![<<s, a>>] = x]
  OBVIOUS
<1>1. t2 \in [W!Steps \X W!Attempts -> W!TreeState] /\ t2[<<s, a>>] = x
  BY <1>0
<1>2. \A u \in W!Steps, b \in W!Attempts : u # s \/ b # a => t2[<<u, b>>] = t[<<u, b>>]
  BY <1>0
<1>3. \A u, b : u # s => t2[<<u, b>>] = t[<<u, b>>]
  BY <1>0
<1>4. \A p \in W!Steps \X W!Attempts : p # <<s, a>> => t2[p] = t[p]
  BY <1>0
<1>5. t[<<s, a>>] # "worked" \/ x = "worked" => Stays(t, t2)
  BY <1>1, <1>4 DEF Stays
<1>6. TreeTurns(t, s, a, x, t2)
  BY <1>1, <1>2, <1>3, <1>5 DEF TreeTurns
<1> QED BY <1>0, <1>6

\* What is known of a step s whose tree is in the making.
TreeMade(d, j, e, t, s) ==
    LET a == W!Last(j.trees[s]).attempt
    IN  /\ s \in W!Steps /\ a \in W!Attempts /\ t[<<s, a>>] = "made" /\ W!Made(e) = {s}
        /\ W!Recorded(j.trees[s], a)
        /\ \A u \in W!Steps : u # s => j.trees[u] = d.trees[u]
        /\ \A u \in W!Steps : \A b : W!Recorded(d.trees[u], b) => W!Recorded(j.trees[u], b)

\* The engine's copy has the entry, and the file the others.
LEMMA MadeIs ==
    ASSUME W!PlansOK, NEW d \in W!Journal, NEW j \in W!Journal, NEW e \in W!EngineState, NEW t,
           W!CopySound(d, j, e), W!StartedSound(d, j, e, t), NEW s \in W!Running(e), e.out[s] = "made"
    PROVE  TreeMade(d, j, e, t, s)
<1>0. PICK a : a = W!Last(j.trees[s]).attempt
  OBVIOUS
<1>1. s \in W!Steps /\ W!Running(e) \in SUBSET W!Steps
  BY EngineFields
<1>2. s \in W!Made(e)
  BY DEF W!Made
<1>3. W!Made(e) = {s}
  BY <1>2 DEF W!CopySound
<1>4. \A u \in W!Steps : u # s => j.trees[u] = d.trees[u]
  BY <1>3 DEF W!CopySound
<1>5. PICK b \in W!Attempts : j.trees[s] = Append(d.trees[s], [attempt |-> b, disp |-> "active"])
  BY <1>2 DEF W!CopySound
<1>6. PICK w \in W!Worktree : w = [attempt |-> b, disp |-> "active"]
  BY DEF W!Worktree
<1>7. d.trees[s] \in Seq(W!Worktree) /\ w.attempt = b /\ w.disp # "removed"
  BY <1>1, <1>6, JournalFields
<1>8. j.trees[s] = Append(d.trees[s], w)
  BY <1>5, <1>6
<1>9. /\ W!Last(j.trees[s]) = w /\ \A x : W!Recorded(d.trees[s], x) => W!Recorded(j.trees[s], x)
      /\ W!Recorded(j.trees[s], w.attempt)
  BY <1>7, <1>8, AppendIs
<1>10. a = b
  BY <1>0, <1>7, <1>9
<1>11. t[<<s, a>>] = "made"
  BY <1>0 DEF W!StartedSound
<1>12. \A u \in W!Steps : \A x : W!Recorded(d.trees[u], x) => W!Recorded(j.trees[u], x)
  BY <1>4, <1>9
<1> QED BY <1>0, <1>1, <1>3, <1>4, <1>7, <1>9, <1>10, <1>11, <1>12 DEF TreeMade

\* The journal with a new tree is written, and the target begins.
LEMMA WriteStartKeeps ==
    ASSUME W!PlansOK, W!JournalsInv, NEW r \in Runs, NEW s, W!WriteStart(r, s)
    PROVE  W!JournalsInv' /\ W!KeepsWork
<1>1. PICK d \in W!Journal \union {NoJournal}, j \in W!Journal \union {NoJournal},
           e \in W!EngineState, c \in BOOLEAN, t \in [W!Steps \X W!Attempts -> W!TreeState] :
        /\ d = x2[r] /\ j = x3[r] /\ e = x4[r] /\ c = x5[r] /\ t = x6[r]
        /\ x2 = [x2 EXCEPT ![r] = d] /\ x3 = [x3 EXCEPT ![r] = j]
        /\ x4 = [x4 EXCEPT ![r] = e] /\ x5 = [x5 EXCEPT ![r] = c]
        /\ x6 = [x6 EXCEPT ![r] = t]
        /\ W!RunSound(d, j, e, c, t) /\ x1 \in Plans
  BY Rows
<1>2. s \in W!Running(e) /\ e.out[s] = "made"
  BY <1>1 DEF W!WriteStart
<1>3. PICK a : a = W!Last(j.trees[s]).attempt
  OBVIOUS
<1>4. PICK e2 : e2 = W!WithOut(e, s, "dispatched")
  OBVIOUS
<1>5. PICK t2 : t2 = [t EXCEPT ![<<s, a>>] = "used"]
  OBVIOUS
<1>6. /\ x1' = x1 /\ x2' = [x2 EXCEPT ![r] = j] /\ x3' = [x3 EXCEPT ![r] = j]
      /\ x4' = [x4 EXCEPT ![r] = e2] /\ x5' = [x5 EXCEPT ![r] = c]
  BY <1>1, <1>4 DEF W!WriteStart
<1>7. x6' = [x6 EXCEPT ![r] = t2]
  BY <1>1, <1>3, <1>5 DEF W!WriteStart, W!Attempt
<1>8. /\ d \in W!Journal /\ j \in W!Journal /\ W!FileSound(d, t) /\ W!CopySound(d, j, e)
      /\ W!ScheduleSound(j, e) /\ W!FailuresSound(j, e, c) /\ W!StartedSound(d, j, e, t)
  BY <1>1, <1>2, LiveIs
<1>9. /\ s \in W!Steps /\ a \in W!Attempts /\ t[<<s, a>>] = "made" /\ W!Made(e) = {s}
      /\ W!Recorded(j.trees[s], a)
      /\ \A u \in W!Steps : u # s => j.trees[u] = d.trees[u]
      /\ \A u \in W!Steps : \A b : W!Recorded(d.trees[u], b) => W!Recorded(j.trees[u], b)
  <2>1. TreeMade(d, j, e, t, s)
    BY <1>2, <1>8, MadeIs
  <2> QED BY <1>3, <2>1 DEF TreeMade
<1>10. /\ t2 \in [W!Steps \X W!Attempts -> W!TreeState] /\ Stays(t, t2)
       /\ \A u \in W!Steps, b \in W!Attempts : u # s \/ b # a => t2[<<u, b>>] = t[<<u, b>>]
       /\ \A u, b : u # s => t2[<<u, b>>] = t[<<u, b>>]
  <2>1. "used" \in W!TreeState
    BY DEF W!TreeState
  <2>2. TreeTurns(t, s, a, "used", t2)
    BY <1>5, <1>9, <2>1, TreeIs
  <2> QED BY <1>9, <2>2 DEF TreeTurns
<1>11. /\ e2 \in W!EngineState /\ W!Running(e2) = W!Running(e) /\ e2.out[s] = "dispatched"
       /\ \A u \in W!Running(e) \ {s} : e2.out[u] = e.out[u]
       /\ e2.terminal = e.terminal /\ e2.aborting = e.aborting /\ e2.failures = e.failures
  <2>1. "dispatched" \in W!Out
    BY DEF W!Out
  <2>2. PlaceMoves(e, s, "dispatched", e2)
    BY <1>2, <1>4, <2>1, PlaceIs
  <2> QED BY <2>2 DEF PlaceMoves
<1>12. W!Made(e2) = {}
  BY <1>9, <1>11 DEF W!Made
<1>13. W!JournalSound(j) /\ j.status = "running" /\ j # NoJournal
  BY <1>1, <1>8, PlanIs DEF W!CopySound
<1>14. W!FileSound(j, t2) /\ W!CopySound(j, j, e2)
  <2>1. \A u \in W!Steps, b \in W!Attempts : t2[<<u, b>>] \in {"used", "worked"} => W!Recorded(j.trees[u], b)
    BY <1>8, <1>9, <1>10, SMTT(30) DEF W!FileSound
  <2> QED BY <1>1, <1>8, <1>12, <1>13, <2>1, WrittenIs
<1>15. W!Unscheduled(e2) = W!Unscheduled(e)
  BY <1>11 DEF W!Unscheduled
<1>16. W!ScheduleSound(j, e2)
  BY <1>8, <1>11, <1>15 DEF W!ScheduleSound
<1>17. W!FailuresSound(j, e2, c)
  BY <1>8, <1>11, <1>15 DEF W!FailuresSound
<1>18. W!StartedSound(j, j, e2, t2)
  <2> SUFFICES ASSUME NEW u \in W!Running(e2)
               PROVE  /\ j.step[u] = "running" /\ e2.out[u] # "made"
                      /\ W!Placed(u, e2.out[u]) => j.trees[u] # <<>>
                      /\ e2.out[u] = "removed" => t2[<<u, W!Last(j.trees[u]).attempt>>] = "absent"
    BY DEF W!StartedSound
  <2>1. j.step[u] = "running" /\ e2.out[u] # "made"
    BY <1>12, <1>16 DEF W!ScheduleSound, W!Made
  <2>2. CASE u = s
    <3>1. W!Placed(s, "made")
      BY DEF W!Placed
    <3> QED BY <1>2, <1>8, <1>11, <2>1, <2>2, <3>1 DEF W!StartedSound
  <2>3. CASE u # s
    BY <1>8, <1>10, <1>11, <2>1, <2>3 DEF W!StartedSound
  <2> QED BY <2>2, <2>3
<1>19. W!RunSound(j, j, e2, c, t2)
  BY <1>13, <1>14, <1>16, <1>17, <1>18, LiveFrom
<1>20. Stands(x2[r], j) /\ Stays(x6[r], t2) /\ e2 \in W!EngineState
  BY <1>1, <1>8, <1>10, <1>11 DEF Stands, W!CopySound
<1>21. t2 \in [W!Steps \X W!Attempts -> W!TreeState]
  BY <1>10
<1> QED BY ONLY W!PlansOK, W!JournalsInv, r \in Runs, j \in W!Journal \union {NoJournal}, c \in BOOLEAN,
                <1>6, <1>7, <1>19, <1>20, <1>21, OneRun

\* What becomes of a tree that is settled.
LEMMA SettledIs ==
    ASSUME NEW y \in W!TreeState, NEW x \in W!Settled(y)
    PROVE  /\ x.now \in W!TreeState /\ x.disp \in W!Settlements /\ x.disp \in W!Out
           /\ x.now = y \/ (y # "worked" /\ x.now \in {"absent", "branch"})
           /\ x.disp = "removed" => x.now = "absent"
BY DEF W!Settled, W!TreeState, W!Settlements, W!Out

\* The tree of a dispatched step is settled.
LEMMA SettleKeeps ==
    ASSUME W!PlansOK, W!JournalsInv, NEW r \in Runs, NEW s, W!Settle(r, s)
    PROVE  W!JournalsInv' /\ W!KeepsWork
<1>1. PICK d \in W!Journal \union {NoJournal}, j \in W!Journal \union {NoJournal},
           e \in W!EngineState, c \in BOOLEAN, t \in [W!Steps \X W!Attempts -> W!TreeState] :
        /\ d = x2[r] /\ j = x3[r] /\ e = x4[r] /\ c = x5[r] /\ t = x6[r]
        /\ x2 = [x2 EXCEPT ![r] = d] /\ x3 = [x3 EXCEPT ![r] = j]
        /\ x4 = [x4 EXCEPT ![r] = e] /\ x5 = [x5 EXCEPT ![r] = c]
        /\ x6 = [x6 EXCEPT ![r] = t]
        /\ W!RunSound(d, j, e, c, t) /\ x1 \in Plans
  BY Rows
<1>2. s \in W!Running(e) /\ s \in x1.isolated /\ e.out[s] = "dispatched"
  BY <1>1 DEF W!Settle
<1>3. PICK a : a = W!Last(j.trees[s]).attempt
  OBVIOUS
<1>4. PICK x \in W!Settled(t[<<s, a>>]) :
        /\ x6' = [x6 EXCEPT ![r][<<s, a>>] = x.now]
        /\ x4' = [x4 EXCEPT ![r] = W!WithOut(e, s, x.disp)]
  BY <1>1, <1>3 DEF W!Settle, W!Attempt
<1>5. PICK e2 : e2 = W!WithOut(e, s, x.disp)
  OBVIOUS
<1>6. PICK t2 : t2 = [t EXCEPT ![<<s, a>>] = x.now]
  OBVIOUS
<1>7. /\ x1' = x1 /\ x2' = [x2 EXCEPT ![r] = d] /\ x3' = [x3 EXCEPT ![r] = j]
      /\ x4' = [x4 EXCEPT ![r] = e2] /\ x5' = [x5 EXCEPT ![r] = c]
      /\ x6' = [x6 EXCEPT ![r] = t2]
  BY <1>1, <1>4, <1>5, <1>6 DEF W!Settle
<1>8. /\ d \in W!Journal /\ j \in W!Journal /\ W!FileSound(d, t) /\ W!CopySound(d, j, e)
      /\ W!ScheduleSound(j, e) /\ W!FailuresSound(j, e, c) /\ W!StartedSound(d, j, e, t)
  BY <1>1, <1>2, LiveIs
<1>9. s \in W!Steps /\ j.trees[s] # <<>>
  BY <1>2, <1>8, EngineFields DEF W!StartedSound, W!Placed
<1>10. a \in W!Attempts
  BY <1>3, <1>8, <1>9, AttemptIs
<1>11. t[<<s, a>>] \in W!TreeState
  BY <1>9, <1>10
<1>12. /\ x.now \in W!TreeState /\ x.disp \in W!Settlements /\ x.disp \in W!Out
       /\ x.now = t[<<s, a>>] \/ (t[<<s, a>>] # "worked" /\ x.now \in {"absent", "branch"})
       /\ x.disp = "removed" => x.now = "absent"
  BY <1>11, SettledIs
<1>13. /\ t2 \in [W!Steps \X W!Attempts -> W!TreeState] /\ Stays(t, t2) /\ t2[<<s, a>>] = x.now
       /\ \A u \in W!Steps, b \in W!Attempts : u # s \/ b # a => t2[<<u, b>>] = t[<<u, b>>]
       /\ \A u, b : u # s => t2[<<u, b>>] = t[<<u, b>>]
  <2>1. TreeTurns(t, s, a, x.now, t2)
    BY <1>6, <1>9, <1>10, <1>12, TreeIs
  <2> QED BY <1>12, <2>1 DEF TreeTurns
<1>14. /\ e2 \in W!EngineState /\ W!Running(e2) = W!Running(e) /\ e2.out[s] = x.disp
       /\ \A u \in W!Running(e) \ {s} : e2.out[u] = e.out[u]
       /\ e2.terminal = e.terminal /\ e2.aborting = e.aborting /\ e2.failures = e.failures
  <2>1. PlaceMoves(e, s, x.disp, e2)
    BY <1>2, <1>5, <1>12, PlaceIs
  <2> QED BY <2>1 DEF PlaceMoves
<1>15. x.disp # "made"
  BY <1>12 DEF W!Settlements
<1>16. W!Made(e2) = W!Made(e)
  BY <1>2, <1>14, <1>15 DEF W!Made
<1>17. W!FileSound(d, t2)
  BY <1>8, <1>12, <1>13 DEF W!FileSound
<1>18. W!CopySound(d, j, e2)
  BY <1>8, <1>16, Zenon DEF W!CopySound
<1>19. W!Unscheduled(e2) = W!Unscheduled(e)
  BY <1>14 DEF W!Unscheduled
<1>20. W!ScheduleSound(j, e2)
  BY <1>8, <1>14, <1>19 DEF W!ScheduleSound
<1>21. W!FailuresSound(j, e2, c)
  BY <1>8, <1>14, <1>19 DEF W!FailuresSound
<1>22. W!StartedSound(d, j, e2, t2)
  <2> SUFFICES ASSUME NEW u \in W!Running(e2)
               PROVE  /\ e2.out[u] # "made" => d.step[u] = "running"
                      /\ W!Placed(u, e2.out[u]) => j.trees[u] # <<>>
                      /\ e2.out[u] = "made" => t2[<<u, W!Last(j.trees[u]).attempt>>] = "made"
                      /\ e2.out[u] = "removed" => t2[<<u, W!Last(j.trees[u]).attempt>>] = "absent"
    BY DEF W!StartedSound
  <2>1. CASE u = s
    <3>1. d.step[s] = "running"
      BY <1>2, <1>8 DEF W!StartedSound
    <3> QED BY <1>3, <1>9, <1>12, <1>13, <1>14, <1>15, <2>1, <3>1
  <2>2. CASE u # s
    BY <1>8, <1>13, <1>14, <2>2 DEF W!StartedSound
  <2> QED BY <2>1, <2>2
<1>23. W!RunSound(d, j, e2, c, t2)
  BY <1>1, <1>8, <1>17, <1>18, <1>20, <1>21, <1>22, LiveFrom, PlanIs
<1>24. /\ Stands(x2[r], d) /\ Stays(x6[r], t2) /\ e2 \in W!EngineState
       /\ t2 \in [W!Steps \X W!Attempts -> W!TreeState]
  BY <1>1, <1>13, <1>14 DEF Stands
<1> QED BY ONLY W!PlansOK, W!JournalsInv, r \in Runs, d \in W!Journal \union {NoJournal},
                j \in W!Journal \union {NoJournal}, c \in BOOLEAN, <1>7, <1>23, <1>24, OneRun

\* The journal of a start cannot be written.
LEMMA WriteStartFailsKeeps ==
    ASSUME W!PlansOK, W!JournalsInv, NEW r \in Runs, NEW s, W!WriteStartFails(r, s)
    PROVE  W!JournalsInv' /\ W!KeepsWork
<1>1. PICK d \in W!Journal \union {NoJournal}, j \in W!Journal \union {NoJournal},
           e \in W!EngineState, c \in BOOLEAN, t \in [W!Steps \X W!Attempts -> W!TreeState] :
        /\ d = x2[r] /\ j = x3[r] /\ e = x4[r] /\ c = x5[r] /\ t = x6[r]
        /\ x2 = [x2 EXCEPT ![r] = d] /\ x3 = [x3 EXCEPT ![r] = j]
        /\ x4 = [x4 EXCEPT ![r] = e] /\ x5 = [x5 EXCEPT ![r] = c]
        /\ x6 = [x6 EXCEPT ![r] = t]
        /\ W!RunSound(d, j, e, c, t) /\ x1 \in Plans
  BY Rows
<1>2. s \in W!Running(e) /\ e.out[s] = "made"
  BY <1>1 DEF W!WriteStartFails
<1>3. PICK a : a = W!Last(j.trees[s]).attempt
  OBVIOUS
<1>4. PICK x \in W!Settled("made") : x6' = [x6 EXCEPT ![r][<<s, a>>] = x.now]
  BY <1>1, <1>3 DEF W!WriteStartFails, W!Attempt
<1>5. PICK t2 : t2 = [t EXCEPT ![<<s, a>>] = x.now]
  OBVIOUS
<1>6. /\ x1' = x1 /\ x3' = [x3 EXCEPT ![r] = NoJournal] /\ x4' = [x4 EXCEPT ![r] = W!NoEngine]
      /\ x5' = [x5 EXCEPT ![r] = FALSE] /\ x6' = [x6 EXCEPT ![r] = t2]
  BY <1>1, <1>4, <1>5 DEF W!WriteStartFails, W!NoMoreEngine
<1>7. PICK dn \in {d, j} : x2' = [x2 EXCEPT ![r] = dn]
  BY <1>1 DEF W!WriteStartFails
<1>8. /\ d \in W!Journal /\ j \in W!Journal /\ W!FileSound(d, t) /\ W!CopySound(d, j, e)
      /\ W!StartedSound(d, j, e, t)
  BY <1>1, <1>2, LiveIs
<1>9. /\ s \in W!Steps /\ a \in W!Attempts /\ t[<<s, a>>] = "made"
      /\ \A u \in W!Steps : \A b : W!Recorded(d.trees[u], b) => W!Recorded(j.trees[u], b)
  <2>1. TreeMade(d, j, e, t, s)
    BY <1>2, <1>8, MadeIs
  <2> QED BY <1>3, <2>1 DEF TreeMade
<1>10. x.now \in W!TreeState /\ x.now \in {"made", "absent", "branch"}
  BY SettledIs DEF W!TreeState
<1>11. /\ t2 \in [W!Steps \X W!Attempts -> W!TreeState] /\ Stays(t, t2) /\ t2[<<s, a>>] = x.now
       /\ \A u \in W!Steps, b \in W!Attempts : u # s \/ b # a => t2[<<u, b>>] = t[<<u, b>>]
  <2>1. TreeTurns(t, s, a, x.now, t2)
    BY <1>5, <1>9, <1>10, TreeIs
  <2> QED BY <1>9, <2>1 DEF TreeTurns
<1>12. \A u \in W!Steps, b \in W!Attempts : t2[<<u, b>>] \in {"used", "worked"} =>
         W!Recorded(d.trees[u], b) /\ W!Recorded(j.trees[u], b)
  BY <1>8, <1>9, <1>10, <1>11 DEF W!FileSound
<1>13. W!JournalSound(d) /\ W!JournalSound(j) /\ d.status = "running" /\ j.status = "running"
       /\ d # NoJournal /\ j # NoJournal
  BY <1>1, <1>8, PlanIs DEF W!CopySound, W!FileSound
<1>14. W!FileSound(dn, t2)
  BY <1>7, <1>12, <1>13 DEF W!FileSound
<1>15. dn \in W!Journal \union {NoJournal} /\ Stands(x2[r], dn)
  BY <1>1, <1>7, <1>8 DEF Stands, W!CopySound
<1>16. W!RunSound(dn, NoJournal, W!NoEngine, FALSE, t2)
  BY <1>14, EndSound
<1>17. /\ Stays(x6[r], t2) /\ t2 \in [W!Steps \X W!Attempts -> W!TreeState] /\ W!NoEngine \in W!EngineState
       /\ NoJournal \in W!Journal \union {NoJournal} /\ FALSE \in BOOLEAN
  BY <1>1, <1>11, NoEngineIs
<1> QED BY ONLY W!PlansOK, W!JournalsInv, r \in Runs, <1>6, <1>7, <1>15, <1>16, <1>17, OneRun

-----------------------------------------------------------------------------
(* The end of a step. *)

\* The entries vs are the entries ws, the last of them settled as o.
LastSettled(ws, o, vs) ==
    /\ vs \in Seq(W!Worktree) /\ (W!OwnAttempts(ws) => W!OwnAttempts(vs))
    /\ \A a : W!Recorded(ws, a) /\ (o # "removed" \/ a # W!Last(ws).attempt) => W!Recorded(vs, a)

\* The last entry of a step is given the disposition of its settlement.
LEMMA SettleEntryIs ==
    ASSUME NEW ws \in Seq(W!Worktree), ws # <<>>, NEW o \in W!Settlements, NEW vs,
           vs = [ws EXCEPT ![Len(ws)] = [ws[Len(ws)] EXCEPT !.disp = o]]
    PROVE  LastSettled(ws, o, vs)
<1>1. PICK n \in Nat : n = Len(ws) /\ n \in 1 .. Len(ws)
  OBVIOUS
<1>2. ws[n] \in W!Worktree
  BY <1>1
<1>3. PICK w \in W!Worktree : w = [ws[n] EXCEPT !.disp = o] /\ w.attempt = ws[n].attempt /\ w.disp = o
  <2>1. PICK v \in W!Worktree : v = ws[n]
    BY <1>2
  <2>2. o \in {"active", "removed", "kept", "cleanup_failed"}
    BY DEF W!Settlements
  <2>3. PICK w : w = [v EXCEPT !.disp = o]
    OBVIOUS
  <2>4. w = [attempt |-> v.attempt, disp |-> o]
    BY ONLY v \in W!Worktree, <2>3 DEF W!Worktree
  <2>5. w \in W!Worktree /\ w.attempt = v.attempt /\ w.disp = o
    BY ONLY v \in W!Worktree, <2>2, <2>4 DEF W!Worktree
  <2> QED BY <2>1, <2>3, <2>5
<1>4. vs = [ws EXCEPT ![n] = w]
  BY <1>1, <1>3
<1>5. /\ vs \in Seq(W!Worktree) /\ DOMAIN vs = DOMAIN ws /\ vs[n] = w
      /\ \A i \in DOMAIN ws : i # n => vs[i] = ws[i]
  BY ONLY ws \in Seq(W!Worktree), w \in W!Worktree, <1>1, <1>4
<1>6. n \in DOMAIN ws
  BY <1>1
<1>7. \A i \in DOMAIN ws : vs[i].attempt = ws[i].attempt
  BY <1>3, <1>5
<1>8. W!OwnAttempts(ws) => W!OwnAttempts(vs)
  BY <1>5, <1>7 DEF W!OwnAttempts
<1>9. W!Last(ws) = ws[n]
  BY <1>1 DEF W!Last
<1>10. ASSUME NEW a, W!Recorded(ws, a), o # "removed" \/ a # W!Last(ws).attempt PROVE W!Recorded(vs, a)
  <2>1. PICK i \in DOMAIN ws : ws[i].attempt = a /\ ws[i].disp # "removed"
    BY <1>10 DEF W!Recorded, W!Range
  <2>2. vs[i].attempt = a /\ vs[i].disp # "removed"
    BY <1>3, <1>5, <1>9, <1>10, <2>1
  <2>3. vs[i] \in W!Range(vs)
    BY <1>5, <2>1 DEF W!Range
  <2> QED BY <2>2, <2>3 DEF W!Recorded
<1> QED BY <1>5, <1>8, <1>10 DEF LastSettled

\* Journal k is journal j with the entry of step s settled.
EntrySettled(j, s, o, k) ==
    /\ k \in W!Journal /\ k.status = j.status /\ k.partial = j.partial /\ k.step = j.step
    /\ k.reused = j.reused /\ \A u \in W!Steps : u # s => k.trees[u] = j.trees[u]
    /\ W!OwnAttempts(j.trees[s]) => W!OwnAttempts(k.trees[s])
    /\ \A a : W!Recorded(j.trees[s], a) /\ (o # "removed" \/ a # W!Last(j.trees[s]).attempt) =>
         W!Recorded(k.trees[s], a)

\* A settlement is entered.
LEMMA AppliedIs ==
    ASSUME NEW j \in W!Journal, NEW s \in W!Steps, NEW o, o \in W!Settlements => j.trees[s] # <<>>
    PROVE  EntrySettled(j, s, o, W!Applied(j, s, o))
<1>1. CASE o \notin W!Settlements
  <2>1. W!Applied(j, s, o) = j
    BY <1>1 DEF W!Applied
  <2> QED BY <2>1 DEF EntrySettled
<1>2. CASE o \in W!Settlements
  <2>1. PICK vs : vs = [j.trees[s] EXCEPT ![Len(j.trees[s])] = [j.trees[s][Len(j.trees[s])] EXCEPT !.disp = o]]
    OBVIOUS
  <2>2. j.trees[s] \in Seq(W!Worktree) /\ j.trees[s] # <<>>
    BY <1>2, JournalFields
  <2>3. /\ vs \in Seq(W!Worktree) /\ (W!OwnAttempts(j.trees[s]) => W!OwnAttempts(vs))
        /\ \A a : W!Recorded(j.trees[s], a) /\ (o # "removed" \/ a # W!Last(j.trees[s]).attempt) =>
             W!Recorded(vs, a)
    <3>1. LastSettled(j.trees[s], o, vs)
      BY ONLY <1>2, <2>1, <2>2, SettleEntryIs
    <3> QED BY ONLY <3>1 DEF LastSettled
  <2>4. PICK f \in [W!Steps -> Seq(W!Worktree)] : f = [j.trees EXCEPT ![s] = vs]
    BY <2>3, JournalFields
  <2>5. f[s] = vs /\ \A u \in W!Steps : u # s => f[u] = j.trees[u]
    BY <2>4, JournalFields
  <2>6. W!Applied(j, s, o) = [j EXCEPT !.trees = f]
    BY <1>2, <2>1, <2>4 DEF W!Applied
  <2>7. PICK k : k = [j EXCEPT !.trees = f]
    OBVIOUS
  <2>8. /\ k \in W!Journal /\ k.status = j.status /\ k.partial = j.partial /\ k.step = j.step
        /\ k.reused = j.reused /\ k.trees = f
    BY ONLY j \in W!Journal, f \in [W!Steps -> Seq(W!Worktree)], <2>7 DEF W!Journal
  <2>9. EntrySettled(j, s, o, k)
    BY <2>3, <2>5, <2>8 DEF EntrySettled
  <2> QED BY <2>6, <2>7, <2>9
<1> QED BY <1>1, <1>2

\* Engine e1 is engine e with step s no longer running.
StepEnds(e, s, e1) ==
    /\ e1 \in W!EngineState /\ W!Running(e1) = W!Running(e) \ {s}
    /\ \A u \in W!Running(e) : u # s => e1.out[u] = e.out[u]
    /\ e1.terminal = e.terminal \union {s} /\ W!Unscheduled(e1) = W!Unscheduled(e)
    /\ e1.aborting = e.aborting /\ e1.failures = e.failures

\* A step ends.
LEMMA StepEndsIs ==
    ASSUME NEW e \in W!EngineState, NEW s \in W!Running(e), NEW e1,
           e1 = [e EXCEPT !.out = [u \in W!Running(e) \ {s} |-> e.out[u]],
                          !.terminal = e.terminal \union {s}]
    PROVE  StepEnds(e, s, e1)
<1>1. s \in W!Steps
  BY EngineFields
<1>2. PICK ss \in SUBSET W!Steps : ss = W!Running(e) \ {s}
  BY EngineFields
<1>3. PICK f \in [ss -> W!Out] : f = [u \in ss |-> e.out[u]]
  BY <1>2, EngineFields
<1>4. PICK x \in SUBSET W!Steps : x = e.terminal \union {s}
  BY <1>1, EngineFields
<1>5. e1 = [terminal |-> x, out |-> f, aborting |-> e.aborting, failures |-> e.failures]
  BY <1>2, <1>3, <1>4 DEF W!EngineState
<1>6. e.aborting \in BOOLEAN /\ e.failures \in BOOLEAN
  BY EngineFields
<1>7. /\ e1 \in W!EngineState /\ W!Running(e1) = ss /\ e1.out = f /\ e1.terminal = x
      /\ e1.aborting = e.aborting /\ e1.failures = e.failures
  BY ONLY ss \in SUBSET W!Steps, f \in [ss -> W!Out], x \in SUBSET W!Steps, <1>5, <1>6, EngineFromParts
<1>8. W!Unscheduled(e1) = W!Unscheduled(e)
  BY <1>2, <1>4, <1>7 DEF W!Unscheduled
<1>9. \A u \in W!Running(e) : u # s => e1.out[u] = e.out[u]
  BY <1>2, <1>3, <1>7
<1> QED BY <1>2, <1>4, <1>7, <1>8, <1>9 DEF StepEnds

\* A run in which step s ends: journal j1 has its settlement, engine e1 no
\* longer runs it.
Ending(d, j, e, c, t, s, j1, e1) ==
    /\ d \in W!Journal /\ j \in W!Journal /\ e \in W!EngineState /\ W!FileSound(d, t) /\ W!CopySound(d, j, e)
    /\ W!ScheduleSound(j, e) /\ W!FailuresSound(j, e, c) /\ W!StartedSound(d, j, e, t)
    /\ W!Made(e) = {} /\ s \in W!Running(e) /\ s \in W!Steps
    /\ EntrySettled(j, s, e.out[s], j1) /\ StepEnds(e, s, e1)

\* The journal and the engine after it.
Ended(j, e, c, s, j1, k, e2) ==
    /\ k \in W!Journal /\ k.status = j.status /\ k.trees = j1.trees /\ k.reused = j.reused
    /\ e2 \in W!EngineState /\ W!Running(e2) = W!Running(e) \ {s}
    /\ \A u \in W!Running(e) : u # s => e2.out[u] = e.out[u]
    /\ W!Completed(j) \subseteq W!Completed(k)
    /\ \A u \in W!Completed(k) : x1.needs[u] \subseteq W!Completed(k)
    /\ k.reused \subseteq W!Completed(k) \ k.partial
    /\ W!ScheduleSound(k, e2) /\ W!FailuresSound(k, e2, c)

\* They are sound if the statuses are.
LEMMA EndedSound ==
    ASSUME W!PlansOK, x1 \in Plans, NEW d, NEW j, NEW e, NEW c, NEW t, NEW s, NEW j1, NEW e1,
           NEW k, NEW e2, Ending(d, j, e, c, t, s, j1, e1), Ended(j, e, c, s, j1, k, e2)
    PROVE  W!RunSound(k, k, e2, c, t) /\ Stands(d, k) /\ k \in W!Journal /\ e2 \in W!EngineState
<1>1. /\ d \in W!Journal /\ j \in W!Journal /\ e \in W!EngineState /\ W!FileSound(d, t) /\ W!CopySound(d, j, e)
      /\ W!StartedSound(d, j, e, t) /\ W!Made(e) = {} /\ s \in W!Running(e) /\ s \in W!Steps
      /\ EntrySettled(j, s, e.out[s], j1)
  BY DEF Ending
<1>2. /\ k \in W!Journal /\ k.status = j.status /\ k.trees = j1.trees /\ k.reused = j.reused
      /\ e2 \in W!EngineState /\ W!Running(e2) = W!Running(e) \ {s}
      /\ \A u \in W!Running(e) : u # s => e2.out[u] = e.out[u]
      /\ W!Completed(j) \subseteq W!Completed(k) /\ W!ScheduleSound(k, e2) /\ W!FailuresSound(k, e2, c)
  BY DEF Ended
<1>3. \A u \in W!Steps : j.trees[u] = d.trees[u]
  BY <1>1, NothingMade
<1>4. /\ \A u \in W!Steps : u # s => k.trees[u] = j.trees[u]
      /\ W!OwnAttempts(j.trees[s]) => W!OwnAttempts(k.trees[s])
      /\ \A a : W!Recorded(j.trees[s], a) /\ (e.out[s] # "removed" \/ a # W!Last(j.trees[s]).attempt) =>
           W!Recorded(k.trees[s], a)
  BY <1>1, <1>2 DEF EntrySettled
<1>5. W!JournalSound(k)
  <2>1. W!JournalSound(j)
    BY <1>1 DEF W!CopySound
  <2>2. \A u \in W!Steps \ k.reused : W!OwnAttempts(k.trees[u])
    BY <1>2, <1>4, <2>1 DEF W!JournalSound
  <2>3. /\ \A u \in W!Completed(k) : x1.needs[u] \subseteq W!Completed(k)
        /\ k.reused \subseteq W!Completed(k) \ k.partial
    BY DEF Ended
  <2> QED BY <2>2, <2>3 DEF W!JournalSound
<1>6. ASSUME NEW u \in W!Steps, NEW a \in W!Attempts, t[<<u, a>>] \in {"used", "worked"}
      PROVE  W!Recorded(k.trees[u], a)
  <2>1. W!Recorded(j.trees[u], a)
    BY <1>1, <1>3, <1>6 DEF W!FileSound
  <2>2. CASE u # s
    BY <1>4, <2>1, <2>2
  <2>3. CASE u = s
    <3>1. e.out[s] = "removed" => t[<<s, W!Last(j.trees[s]).attempt>>] = "absent"
      BY <1>1 DEF W!StartedSound
    <3> QED BY <1>4, <1>6, <2>1, <2>3, <3>1
  <2> QED BY <2>2, <2>3
<1>7. W!Made(e2) = {}
  BY <1>1, <1>2 DEF W!Made
<1>8. k.status = "running"
  BY <1>1, <1>2 DEF W!CopySound
<1>9. W!FileSound(k, t) /\ W!CopySound(k, k, e2) /\ k # NoJournal
  BY <1>2, <1>5, <1>6, <1>7, <1>8, WrittenIs
<1>10. W!StartedSound(k, k, e2, t)
  <2> SUFFICES ASSUME NEW u \in W!Running(e2)
               PROVE  /\ k.step[u] = "running" /\ e2.out[u] # "made"
                      /\ W!Placed(u, e2.out[u]) => k.trees[u] # <<>>
                      /\ e2.out[u] = "removed" => t[<<u, W!Last(k.trees[u]).attempt>>] = "absent"
    BY DEF W!StartedSound
  <2>1. k.step[u] = "running" /\ e2.out[u] # "made"
    BY <1>2, <1>7 DEF W!ScheduleSound, W!Made
  <2>2. u \in W!Running(e) /\ u # s /\ u \in W!Steps
    BY <1>1, <1>2, EngineFields
  <2>3. e2.out[u] = e.out[u] /\ k.trees[u] = j.trees[u]
    BY <1>2, <1>4, <2>2
  <2> QED BY <1>1, <2>1, <2>2, <2>3 DEF W!StartedSound
<1>11. W!RunSound(k, k, e2, c, t)
  BY <1>2, <1>9, <1>10, LiveFrom
<1>12. Stands(d, k)
  BY <1>1, <1>2 DEF Stands, W!CopySound
<1> QED BY <1>2, <1>11, <1>12

\* What the statuses and the engine's sets are before the end of step s.
EndingFacts(j, e, c, s, j1, e1) ==
    /\ j \in W!Journal /\ j1 \in W!Journal /\ e \in W!EngineState /\ e1 \in W!EngineState
    /\ s \in W!Steps /\ s \in W!Running(e) /\ j.step[s] = "running"
    /\ j1.step = j.step /\ j1.status = j.status /\ j1.partial = j.partial /\ j1.reused = j.reused
    /\ x1.needs[s] \subseteq W!Completed(j) /\ s \notin W!Completed(j) /\ s \notin W!Unscheduled(e)
    /\ W!Running(e1) = W!Running(e) \ {s} /\ e1.terminal = e.terminal \union {s}
    /\ \A u \in W!Running(e) : u # s => e1.out[u] = e.out[u]
    /\ W!Unscheduled(e1) = W!Unscheduled(e)
    /\ e1.aborting = e.aborting /\ e1.failures = e.failures
    /\ Cardinality(W!Running(e) \ {s}) <= MaxConcurrency
    /\ e.terminal \cap W!Running(e) = {} /\ W!Completed(j) \subseteq e.terminal
    /\ \A u \in e.terminal : u \in W!Steps /\ u # s /\ u \notin W!Unscheduled(e) /\ j.step[u] \in W!Terminal
    /\ \A u \in W!Running(e) : /\ u \in W!Steps /\ u \notin W!Unscheduled(e) /\ j.step[u] = "running"
                              /\ x1.needs[u] \subseteq W!Completed(j)
    /\ \A u \in W!Unscheduled(e) :
         /\ u \in W!Steps /\ u # s /\ u \notin W!Completed(j)
         /\ j.step[u] \in IF e.aborting THEN {"cancelled", "skipped"} ELSE {"pending"}
    /\ W!FailuresSound(j, e, c) /\ W!JournalSound(j)

\* They follow from the invariant.
LEMMA EndingIs ==
    ASSUME W!PlansOK, x1 \in Plans, NEW d, NEW j, NEW e, NEW c, NEW t, NEW s, NEW j1, NEW e1,
           Ending(d, j, e, c, t, s, j1, e1)
    PROVE  EndingFacts(j, e, c, s, j1, e1)
<1>1. /\ j \in W!Journal /\ e \in W!EngineState /\ W!CopySound(d, j, e) /\ W!ScheduleSound(j, e)
      /\ W!FailuresSound(j, e, c) /\ s \in W!Running(e) /\ s \in W!Steps
      /\ EntrySettled(j, s, e.out[s], j1) /\ StepEnds(e, s, e1)
  BY DEF Ending
<1>2. /\ j1 \in W!Journal /\ j1.step = j.step /\ j1.status = j.status /\ j1.partial = j.partial
      /\ j1.reused = j.reused
  BY <1>1 DEF EntrySettled
<1>3. /\ e1 \in W!EngineState /\ W!Running(e1) = W!Running(e) \ {s} /\ e1.terminal = e.terminal \union {s}
      /\ \A u \in W!Running(e) : u # s => e1.out[u] = e.out[u]
      /\ W!Unscheduled(e1) = W!Unscheduled(e) /\ e1.aborting = e.aborting /\ e1.failures = e.failures
  BY <1>1 DEF StepEnds
<1>4. e.terminal \in SUBSET W!Steps /\ W!Running(e) \in SUBSET W!Steps
  BY <1>1, EngineFields
<1>5. j.step[s] = "running" /\ x1.needs[s] \subseteq W!Completed(j)
  BY <1>1 DEF W!ScheduleSound
<1>6. s \notin W!Completed(j)
  BY <1>5 DEF W!Completed
<1>7. Cardinality(W!Running(e) \ {s}) <= MaxConcurrency
  <2>1. IsFiniteSet(W!Running(e)) /\ Cardinality(W!Running(e)) \in Nat
    BY <1>4, StepsFinite
  <2>2. Cardinality(W!Running(e) \ {s}) \in Nat
    BY <1>4, StepsFinite
  <2>3. Cardinality(W!Running(e) \ {s}) <= Cardinality(W!Running(e))
    BY <2>1, FS_Subset
  <2>4. Cardinality(W!Running(e)) <= MaxConcurrency /\ MaxConcurrency \in Nat
    BY <1>1, CountIs DEF W!ScheduleSound, W!PlansOK
  <2> QED BY <2>1, <2>2, <2>3, <2>4
<1>8. \A u \in e.terminal : u \in W!Steps /\ u # s /\ u \notin W!Unscheduled(e) /\ j.step[u] \in W!Terminal
  BY <1>1, <1>4 DEF W!ScheduleSound, W!Unscheduled
<1>9. \A u \in W!Running(e) : /\ u \in W!Steps /\ u \notin W!Unscheduled(e) /\ j.step[u] = "running"
                              /\ x1.needs[u] \subseteq W!Completed(j)
  BY <1>1, <1>4 DEF W!ScheduleSound, W!Unscheduled
<1>10. \A u \in W!Unscheduled(e) :
         /\ u \in W!Steps /\ u # s /\ u \notin W!Completed(j)
         /\ j.step[u] \in IF e.aborting THEN {"cancelled", "skipped"} ELSE {"pending"}
  BY <1>1 DEF W!ScheduleSound, W!Unscheduled
<1>11. W!JournalSound(j) /\ e.terminal \cap W!Running(e) = {} /\ W!Completed(j) \subseteq e.terminal
  BY <1>1 DEF W!CopySound, W!ScheduleSound
<1>12. s \notin W!Unscheduled(e)
  BY <1>1, <1>9
<1> QED BY <1>1, <1>2, <1>3, <1>5, <1>6, <1>7, <1>8, <1>9, <1>10, <1>11, <1>12 DEF EndingFacts

\* A step succeeds, perhaps only in part.
LEMMA SuccessEnds ==
    ASSUME W!PlansOK, x1 \in Plans, NEW d, NEW j, NEW e, NEW c, NEW t, NEW s, NEW j1, NEW e1,
           Ending(d, j, e, c, t, s, j1, e1), NEW some \in SUBSET {s}, NEW k,
           k = [W!WithStatus(j1, {s}, "success") EXCEPT !.partial = j1.partial \union some]
    PROVE  Ended(j, e, c, s, j1, k, e1)
<1>0. EndingFacts(j, e, c, s, j1, e1)
  BY EndingIs
<1>1. /\ j \in W!Journal /\ j1 \in W!Journal /\ e \in W!EngineState /\ e1 \in W!EngineState
      /\ s \in W!Steps /\ s \in W!Running(e) /\ j.step[s] = "running"
      /\ j1.step = j.step /\ j1.status = j.status /\ j1.partial = j.partial /\ j1.reused = j.reused
      /\ x1.needs[s] \subseteq W!Completed(j) /\ s \notin W!Completed(j) /\ s \notin W!Unscheduled(e)
  BY <1>0 DEF EndingFacts
<1>20. /\ W!Running(e1) = W!Running(e) \ {s} /\ e1.terminal = e.terminal \union {s}
       /\ \A u \in W!Running(e) : u # s => e1.out[u] = e.out[u]
       /\ W!Unscheduled(e1) = W!Unscheduled(e)
       /\ e1.aborting = e.aborting /\ e1.failures = e.failures
       /\ Cardinality(W!Running(e) \ {s}) <= MaxConcurrency
       /\ e.terminal \cap W!Running(e) = {} /\ W!Completed(j) \subseteq e.terminal
  BY <1>0 DEF EndingFacts
<1>21. \A u \in e.terminal : u \in W!Steps /\ u # s /\ u \notin W!Unscheduled(e) /\ j.step[u] \in W!Terminal
  BY <1>0 DEF EndingFacts
<1>22. \A u \in W!Running(e) : /\ u \in W!Steps /\ u \notin W!Unscheduled(e) /\ j.step[u] = "running"
                              /\ x1.needs[u] \subseteq W!Completed(j)
  BY <1>0 DEF EndingFacts
<1>23. \A u \in W!Unscheduled(e) :
         /\ u \in W!Steps /\ u # s /\ u \notin W!Completed(j)
         /\ j.step[u] \in IF e.aborting THEN {"cancelled", "skipped"} ELSE {"pending"}
  BY <1>0 DEF EndingFacts
<1>24. W!FailuresSound(j, e, c) /\ W!JournalSound(j)
  BY <1>0 DEF EndingFacts
<1>2. PICK m : m = W!WithStatus(j1, {s}, "success")
  OBVIOUS
<1>3. /\ m \in W!Journal /\ m.status = j1.status /\ m.partial = j1.partial /\ m.trees = j1.trees
      /\ m.reused = j1.reused
      /\ \A u \in W!Steps : m.step[u] = IF u = s THEN "success" ELSE j1.step[u]
  BY <1>1, <1>2, WithStatusIs DEF W!StepStatuses, W!Terminal
<1>4. PICK p \in SUBSET W!Steps : p = j1.partial \union some
  BY <1>1, JournalFields
<1>5. k = [m EXCEPT !.partial = p]
  BY <1>2, <1>4
<1>6. /\ k \in W!Journal /\ k.status = m.status /\ k.partial = p /\ k.trees = m.trees
      /\ k.reused = m.reused /\ k.step = m.step
  <2>1. k = [status |-> m.status, step |-> m.step, partial |-> p, trees |-> m.trees, reused |-> m.reused]
    BY ONLY <1>3, <1>5 DEF W!Journal
  <2>2. /\ m.status \in W!RunStatuses /\ m.step \in [W!Steps -> W!StepStatuses]
        /\ m.trees \in [W!Steps -> Seq(W!Worktree)] /\ m.reused \in SUBSET W!Steps
    BY <1>3, JournalFields
  <2> QED BY ONLY p \in SUBSET W!Steps, <2>1, <2>2 DEF W!Journal
<1>7. \A u \in W!Steps : k.step[u] = IF u = s THEN "success" ELSE j.step[u]
  BY <1>1, <1>3, <1>6
<1>8. W!Completed(k) = W!Completed(j) \union {s}
  BY <1>1, <1>7 DEF W!Completed
<1>9. \A u \in W!Completed(k) : x1.needs[u] \subseteq W!Completed(k)
  BY <1>1, <1>8, <1>24 DEF W!JournalSound
<1>10. k.reused \subseteq W!Completed(k) \ k.partial
  BY <1>1, <1>3, <1>4, <1>6, <1>8, <1>24 DEF W!JournalSound
<1>11. W!ScheduleSound(k, e1)
  <2>1. e1.terminal \cap W!Running(e1) = {} /\ W!Completed(k) \subseteq e1.terminal
    BY <1>1, <1>8, <1>20
  <2>2. \A u \in e1.terminal : k.step[u] \in W!Terminal
    <3> SUFFICES ASSUME NEW u \in e1.terminal PROVE k.step[u] \in W!Terminal
      OBVIOUS
    <3>1. CASE u = s
      BY <1>1, <1>7, <3>1 DEF W!Terminal
    <3>2. CASE u # s
      <4>1. u \in e.terminal
        BY <1>20, <3>2
      <4> QED BY <1>7, <1>21, <3>2, <4>1
    <3> QED BY <3>1, <3>2
  <2>3. \A u \in W!Running(e1) : k.step[u] = "running" /\ x1.needs[u] \subseteq W!Completed(k)
    BY <1>7, <1>8, <1>20, <1>22
  <2>4. \A u \in W!Unscheduled(e1) :
          k.step[u] \in IF e1.aborting THEN {"cancelled", "skipped"} ELSE {"pending"}
    <3> SUFFICES ASSUME NEW u \in W!Unscheduled(e)
                 PROVE  k.step[u] \in IF e.aborting THEN {"cancelled", "skipped"} ELSE {"pending"}
      BY <1>20
    <3>1. u \in W!Steps /\ u # s
      BY <1>23
    <3>2. k.step[u] = j.step[u]
      BY <1>7, <3>1
    <3> QED BY <1>23, <3>2
  <2> QED BY <1>20, <2>1, <2>2, <2>3, <2>4, CountIs DEF W!ScheduleSound
<1>12. W!FailuresSound(k, e1, c)
  <2>1. \A u \in W!Steps : x1.needs[u] \in SUBSET W!Steps
    BY PlanIs
  <2>2. e1.failures => c \/ \E u \in W!Steps : k.step[u] \in {"failed", "cancelled"}
    BY <1>1, <1>7, <1>20, <1>24, SMTT(30) DEF W!FailuresSound
  <2>3. \A u \in W!Steps : k.step[u] = "skipped" => j.step[u] = "skipped"
    BY <1>7
  <2>4. \A u \in W!Steps : j.step[u] \in {"failed", "skipped"} => k.step[u] \in {"failed", "skipped"}
    BY <1>1, <1>7
  <2>5. ~e1.aborting => \A u \in W!Steps : k.step[u] = "skipped" =>
          \E n \in x1.needs[u] : k.step[n] \in {"failed", "skipped"}
    BY <1>20, <1>24, <2>1, <2>3, <2>4 DEF W!FailuresSound
  <2>6. ~e1.aborting => \A u \in W!Unscheduled(e1) : \A n \in x1.needs[u] :
          k.step[n] \notin {"failed", "skipped", "cancelled"}
    <3> SUFFICES ASSUME ~e.aborting, NEW u \in W!Unscheduled(e), NEW n \in x1.needs[u]
                 PROVE  k.step[n] \notin {"failed", "skipped", "cancelled"}
      BY <1>20
    <3>1. n \in W!Steps
      BY <1>23, <2>1
    <3>2. j.step[n] \notin {"failed", "skipped", "cancelled"}
      BY <1>24 DEF W!FailuresSound
    <3> QED BY <1>7, <3>1, <3>2
  <2>7. (e1.aborting => e1.failures) /\ \A u \in W!Steps : k.step[u] = "skipped" => e1.failures
    BY <1>20, <1>24, <2>3 DEF W!FailuresSound
  <2> QED BY <2>2, <2>5, <2>6, <2>7 DEF W!FailuresSound
<1>13. /\ k \in W!Journal /\ k.status = j.status /\ k.trees = j1.trees /\ k.reused = j.reused
       /\ e1 \in W!EngineState /\ W!Running(e1) = W!Running(e) \ {s}
       /\ \A u \in W!Running(e) : u # s => e1.out[u] = e.out[u]
       /\ W!Completed(j) \subseteq W!Completed(k)
  BY <1>1, <1>3, <1>6, <1>8, <1>20
<1> QED BY <1>9, <1>10, <1>11, <1>12, <1>13 DEF Ended

\* A step fails or is cancelled, and the run aborts.
LEMMA AbortEnds ==
    ASSUME W!PlansOK, x1 \in Plans, NEW d, NEW j, NEW e, NEW c, NEW t, NEW s, NEW j1, NEW e1,
           Ending(d, j, e, c, t, s, j1, e1), NEW result \in {"failed", "cancelled"},
           NEW mark \in {"cancelled", "skipped"}, NEW k, NEW e2,
           k = W!MarkUnscheduled(W!WithStatus(j1, {s}, result), e1, mark),
           e2 = [e1 EXCEPT !.aborting = TRUE, !.failures = TRUE]
    PROVE  Ended(j, e, c, s, j1, k, e2)
<1>0. EndingFacts(j, e, c, s, j1, e1)
  BY EndingIs
<1>1. /\ j \in W!Journal /\ j1 \in W!Journal /\ e \in W!EngineState /\ e1 \in W!EngineState
      /\ s \in W!Steps /\ s \in W!Running(e) /\ j.step[s] = "running"
      /\ j1.step = j.step /\ j1.status = j.status /\ j1.partial = j.partial /\ j1.reused = j.reused
      /\ x1.needs[s] \subseteq W!Completed(j) /\ s \notin W!Completed(j) /\ s \notin W!Unscheduled(e)
  BY <1>0 DEF EndingFacts
<1>20. /\ W!Running(e1) = W!Running(e) \ {s} /\ e1.terminal = e.terminal \union {s}
       /\ \A u \in W!Running(e) : u # s => e1.out[u] = e.out[u]
       /\ W!Unscheduled(e1) = W!Unscheduled(e)
       /\ e1.aborting = e.aborting /\ e1.failures = e.failures
       /\ Cardinality(W!Running(e) \ {s}) <= MaxConcurrency
       /\ e.terminal \cap W!Running(e) = {} /\ W!Completed(j) \subseteq e.terminal
  BY <1>0 DEF EndingFacts
<1>21. \A u \in e.terminal : u \in W!Steps /\ u # s /\ u \notin W!Unscheduled(e) /\ j.step[u] \in W!Terminal
  BY <1>0 DEF EndingFacts
<1>22. \A u \in W!Running(e) : /\ u \in W!Steps /\ u \notin W!Unscheduled(e) /\ j.step[u] = "running"
                              /\ x1.needs[u] \subseteq W!Completed(j)
  BY <1>0 DEF EndingFacts
<1>23. \A u \in W!Unscheduled(e) :
         /\ u \in W!Steps /\ u # s /\ u \notin W!Completed(j)
         /\ j.step[u] \in IF e.aborting THEN {"cancelled", "skipped"} ELSE {"pending"}
  BY <1>0 DEF EndingFacts
<1>24. W!FailuresSound(j, e, c) /\ W!JournalSound(j)
  BY <1>0 DEF EndingFacts
<1>2. PICK m : m = W!WithStatus(j1, {s}, result)
  OBVIOUS
<1>3. /\ m \in W!Journal /\ m.status = j1.status /\ m.partial = j1.partial /\ m.trees = j1.trees
      /\ m.reused = j1.reused
      /\ \A u \in W!Steps : m.step[u] = IF u = s THEN result ELSE j1.step[u]
  BY <1>1, <1>2, WithStatusIs DEF W!StepStatuses, W!Terminal
<1>4. k = W!MarkUnscheduled(m, e1, mark) /\ mark \in W!StepStatuses
  BY <1>2 DEF W!StepStatuses, W!Terminal
<1>5. /\ k \in W!Journal /\ k.status = m.status /\ k.partial = m.partial /\ k.trees = m.trees
      /\ k.reused = m.reused
      /\ \A u \in W!Steps : k.step[u] =
           IF u \in W!Unscheduled(e1) /\ m.step[u] # "success" THEN mark ELSE m.step[u]
  BY ONLY <1>3, <1>4, MarkUnscheduledIs
<1>6. /\ e2 \in W!EngineState /\ W!Running(e2) = W!Running(e1) /\ e2.out = e1.out
      /\ e2.terminal = e1.terminal /\ e2.aborting = TRUE /\ e2.failures = TRUE
      /\ W!Unscheduled(e2) = W!Unscheduled(e1)
  BY <1>1, AbortingIs
<1>7. \A u \in W!Steps : k.step[u] =
        IF u = s THEN result ELSE IF u \in W!Unscheduled(e) THEN mark ELSE j.step[u]
  <2> TAKE u \in W!Steps
  <2>1. u \in W!Unscheduled(e) => j.step[u] # "success" /\ u # s
    BY <1>23 DEF W!Completed
  <2>2. u = s => u \notin W!Unscheduled(e)
    BY <1>1
  <2>3. m.step[u] = IF u = s THEN result ELSE j.step[u]
    BY <1>1, <1>3
  <2>4. k.step[u] = IF u \in W!Unscheduled(e) /\ m.step[u] # "success" THEN mark ELSE m.step[u]
    BY <1>5, <1>20
  <2> QED BY <2>1, <2>2, <2>3, <2>4
<1>8. W!Completed(k) = W!Completed(j)
  BY <1>1, <1>7, <1>23 DEF W!Completed
<1>9. W!ScheduleSound(k, e2)
  <2>1. e2.terminal \cap W!Running(e2) = {} /\ W!Completed(k) \subseteq e2.terminal
    BY <1>6, <1>8, <1>20, <1>22, <1>21
  <2>2. \A u \in e2.terminal : k.step[u] \in W!Terminal
    <3> SUFFICES ASSUME NEW u \in e2.terminal PROVE k.step[u] \in W!Terminal
      OBVIOUS
    <3>1. CASE u = s
      BY <1>1, <1>7, <3>1 DEF W!Terminal
    <3>2. CASE u # s
      <4>1. u \in e.terminal
        BY <1>6, <1>20, <3>2
      <4> QED BY <1>7, <1>21, <3>2, <4>1
    <3> QED BY <3>1, <3>2
  <2>3. \A u \in W!Running(e2) : k.step[u] = "running" /\ x1.needs[u] \subseteq W!Completed(k)
    BY <1>6, <1>7, <1>8, <1>20, <1>22
  <2>4. \A u \in W!Unscheduled(e2) : k.step[u] = mark
    BY <1>6, <1>7, <1>20, <1>23
  <2> QED BY <1>6, <1>20, <2>1, <2>2, <2>3, <2>4, CountIs DEF W!ScheduleSound
<1>10. W!FailuresSound(k, e2, c)
  <2>1. k.step[s] \in {"failed", "cancelled"}
    BY <1>1, <1>7
  <2> QED BY <1>1, <1>6, <2>1 DEF W!FailuresSound
<1>11. /\ k \in W!Journal /\ k.status = j.status /\ k.trees = j1.trees /\ k.reused = j.reused
       /\ k.partial = j.partial /\ e2 \in W!EngineState /\ W!Running(e2) = W!Running(e) \ {s}
       /\ \A u \in W!Running(e) : u # s => e2.out[u] = e.out[u]
  BY <1>1, <1>3, <1>5, <1>6, <1>20, SMTT(30)
<1>12. /\ W!Completed(j) \subseteq W!Completed(k)
       /\ \A u \in W!Completed(k) : x1.needs[u] \subseteq W!Completed(k)
       /\ k.reused \subseteq W!Completed(k) \ k.partial
  BY <1>8, <1>11, <1>24 DEF W!JournalSound
<1> QED BY <1>9, <1>10, <1>11, <1>12 DEF Ended

\* A step fails, the run goes on, and what depends on the step is skipped.
LEMMA SkipEnds ==
    ASSUME W!PlansOK, x1 \in Plans, NEW d, NEW j, NEW e, NEW c, NEW t, NEW s, NEW j1, NEW e1,
           Ending(d, j, e, c, t, s, j1, e1), NEW deps, deps = W!Dependents(s, e1, j1), NEW k, NEW e2,
           k = W!WithStatus(W!WithStatus(j1, {s}, "failed"), deps, "skipped"),
           e2 = [e1 EXCEPT !.terminal = e1.terminal \union deps, !.failures = TRUE]
    PROVE  Ended(j, e, c, s, j1, k, e2)
<1>0. EndingFacts(j, e, c, s, j1, e1)
  BY EndingIs
<1>1. /\ j \in W!Journal /\ j1 \in W!Journal /\ e \in W!EngineState /\ e1 \in W!EngineState
      /\ s \in W!Steps /\ s \in W!Running(e) /\ j.step[s] = "running"
      /\ j1.step = j.step /\ j1.status = j.status /\ j1.partial = j.partial /\ j1.reused = j.reused
      /\ x1.needs[s] \subseteq W!Completed(j) /\ s \notin W!Completed(j) /\ s \notin W!Unscheduled(e)
  BY <1>0 DEF EndingFacts
<1>20. /\ W!Running(e1) = W!Running(e) \ {s} /\ e1.terminal = e.terminal \union {s}
       /\ \A u \in W!Running(e) : u # s => e1.out[u] = e.out[u]
       /\ W!Unscheduled(e1) = W!Unscheduled(e)
       /\ e1.aborting = e.aborting /\ e1.failures = e.failures
       /\ Cardinality(W!Running(e) \ {s}) <= MaxConcurrency
       /\ e.terminal \cap W!Running(e) = {} /\ W!Completed(j) \subseteq e.terminal
  BY <1>0 DEF EndingFacts
<1>21. \A u \in e.terminal : u \in W!Steps /\ u # s /\ u \notin W!Unscheduled(e) /\ j.step[u] \in W!Terminal
  BY <1>0 DEF EndingFacts
<1>22. \A u \in W!Running(e) : /\ u \in W!Steps /\ u \notin W!Unscheduled(e) /\ j.step[u] = "running"
                              /\ x1.needs[u] \subseteq W!Completed(j)
  BY <1>0 DEF EndingFacts
<1>23. \A u \in W!Unscheduled(e) :
         /\ u \in W!Steps /\ u # s /\ u \notin W!Completed(j)
         /\ j.step[u] \in IF e.aborting THEN {"cancelled", "skipped"} ELSE {"pending"}
  BY <1>0 DEF EndingFacts
<1>24. W!FailuresSound(j, e, c) /\ W!JournalSound(j)
  BY <1>0 DEF EndingFacts
<1>2. PICK m : m = W!WithStatus(j1, {s}, "failed")
  OBVIOUS
<1>3. /\ m \in W!Journal /\ m.status = j1.status /\ m.partial = j1.partial /\ m.trees = j1.trees
      /\ m.reused = j1.reused
      /\ \A u \in W!Steps : m.step[u] = IF u = s THEN "failed" ELSE j1.step[u]
  BY <1>1, <1>2, WithStatusIs DEF W!StepStatuses, W!Terminal
<1>4. k = W!WithStatus(m, deps, "skipped") /\ "skipped" \in W!StepStatuses
  BY <1>2 DEF W!StepStatuses, W!Terminal
<1>5. /\ k \in W!Journal /\ k.status = m.status /\ k.partial = m.partial /\ k.trees = m.trees
      /\ k.reused = m.reused
      /\ \A u \in W!Steps : k.step[u] = IF u \in deps THEN "skipped" ELSE m.step[u]
  BY ONLY <1>3, <1>4, WithStatusIs
<1>6. W!Open(e1, j1) = W!Unscheduled(e)
  BY <1>1, <1>20, <1>23 DEF W!Open, W!Completed
<1>7. /\ deps \subseteq W!Unscheduled(e)
      /\ \A u \in W!Unscheduled(e) : x1.needs[u] \cap (deps \union {s}) # {} => u \in deps
      /\ \A u \in deps : x1.needs[u] \cap (deps \union {s}) # {}
  <2>1. /\ deps \in SUBSET W!Open(e1, j1)
        /\ \A u \in W!Open(e1, j1) : x1.needs[u] \cap (deps \union {s}) # {} => u \in deps
        /\ \A u \in deps : x1.needs[u] \cap (deps \union {s}) # {}
    BY ONLY deps = W!Dependents(s, e1, j1), DependentsAre
  <2> QED BY ONLY <1>6, <2>1
<1>8. /\ e2 \in W!EngineState /\ W!Running(e2) = W!Running(e1) /\ e2.out = e1.out
      /\ e2.terminal = e1.terminal \union deps /\ e2.aborting = e1.aborting /\ e2.failures = TRUE
  <2>1. PICK ss \in SUBSET W!Steps : ss = W!Running(e1)
    BY <1>1, EngineFields
  <2>2. PICK f \in [ss -> W!Out] : f = e1.out
    BY <1>1, <2>1, EngineFields
  <2>3. PICK x \in SUBSET W!Steps : x = e1.terminal \union deps
    BY <1>1, <1>7, <1>23, EngineFields
  <2>4. PICK yes \in BOOLEAN, ab \in BOOLEAN : yes = TRUE /\ ab = e1.aborting
    BY <1>1, EngineFields
  <2>5. e2 = [terminal |-> x, out |-> f, aborting |-> ab, failures |-> yes]
    BY <1>1, <2>2, <2>3, <2>4 DEF W!EngineState
  <2>6. /\ e2 \in W!EngineState /\ W!Running(e2) = ss /\ e2.out = f /\ e2.terminal = x
        /\ e2.aborting = ab /\ e2.failures = yes
    BY ONLY ss \in SUBSET W!Steps, f \in [ss -> W!Out], x \in SUBSET W!Steps, yes \in BOOLEAN,
            ab \in BOOLEAN, <2>5, EngineFromParts
  <2> QED BY ONLY <2>1, <2>2, <2>3, <2>4, <2>6
<1>9. W!Unscheduled(e2) = W!Unscheduled(e) \ deps
  <2>1. W!Unscheduled(e2) = W!Unscheduled(e1) \ deps
    BY <1>8 DEF W!Unscheduled
  <2> QED BY <1>20, <2>1
<1>10. \A u \in W!Steps : k.step[u] =
         IF u = s THEN "failed" ELSE IF u \in deps THEN "skipped" ELSE j.step[u]
  <2>1. s \notin deps
    BY <1>1, <1>7
  <2> QED BY <1>1, <1>3, <1>5, <2>1
<1>11. \A u \in deps : u \in W!Steps /\ u # s /\ u \notin W!Completed(j) /\ u \notin e.terminal /\ u \notin W!Running(e)
  BY <1>7, <1>21, <1>22, <1>23
<1>12. W!Completed(k) = W!Completed(j)
  BY <1>1, <1>10, <1>11 DEF W!Completed
<1>13. W!ScheduleSound(k, e2)
  <2>1. e2.terminal \cap W!Running(e2) = {} /\ W!Completed(k) \subseteq e2.terminal
    BY <1>8, <1>11, <1>12, <1>20
  <2>2. \A u \in e2.terminal : k.step[u] \in W!Terminal
    <3> SUFFICES ASSUME NEW u \in e2.terminal PROVE k.step[u] \in W!Terminal
      OBVIOUS
    <3>1. u = s \/ u \in deps \/ u \in e.terminal
      BY <1>8, <1>20
    <3>2. CASE u = s
      BY <1>1, <1>10, <3>2 DEF W!Terminal
    <3>3. CASE u \in deps
      BY <1>10, <1>11, <3>3 DEF W!Terminal
    <3>4. CASE u \in e.terminal
      BY <1>10, <1>11, <1>21, <3>4
    <3> QED BY <3>1, <3>2, <3>3, <3>4
  <2>3. \A u \in W!Running(e2) : k.step[u] = "running" /\ x1.needs[u] \subseteq W!Completed(k)
    BY <1>8, <1>10, <1>11, <1>12, <1>20, <1>22, ZenonT(60)
  <2>4. \A u \in W!Unscheduled(e2) :
          k.step[u] \in IF e2.aborting THEN {"cancelled", "skipped"} ELSE {"pending"}
    BY <1>8, <1>9, <1>10, <1>20, <1>23
  <2>5. Cardinality(W!Running(e2)) <= MaxConcurrency
    BY <1>8, <1>20
  <2> QED BY <2>1, <2>2, <2>3, <2>4, <2>5, CountIs DEF W!ScheduleSound
<1>14. W!FailuresSound(k, e2, c)
  <2>1. \A u \in W!Steps : x1.needs[u] \in SUBSET W!Steps
    BY PlanIs
  <2>2. e2.failures /\ \E u \in W!Steps : k.step[u] \in {"failed", "cancelled"}
    BY <1>1, <1>8, <1>10
  <2>3. \A n \in deps \union {s} : k.step[n] \in {"failed", "skipped"}
    BY <1>1, <1>10, <1>11
  <2>4. \A u \in W!Steps : j.step[u] \in {"failed", "skipped"} => k.step[u] \in {"failed", "skipped"}
    BY <1>1, <1>10
  <2>5. ASSUME ~e2.aborting, NEW u \in W!Steps, k.step[u] = "skipped"
        PROVE  \E n \in x1.needs[u] : k.step[n] \in {"failed", "skipped"}
    <3>1. CASE u \in deps
      BY <1>7, <2>3, <3>1
    <3>2. CASE u \notin deps
      <4>1. j.step[u] = "skipped"
        BY <1>10, <2>5, <3>2
      <4>2. PICK n \in x1.needs[u] : j.step[n] \in {"failed", "skipped"}
        BY <1>8, <1>20, <1>24, <2>5, <4>1 DEF W!FailuresSound
      <4>3. n \in W!Steps
        BY <2>1
      <4> QED BY <2>4, <4>2, <4>3
    <3> QED BY <3>1, <3>2
  <2>6. ASSUME ~e2.aborting, NEW u \in W!Unscheduled(e2), NEW n \in x1.needs[u]
        PROVE  k.step[n] \notin {"failed", "skipped", "cancelled"}
    <3>1. u \in W!Unscheduled(e) /\ u \notin deps /\ u \in W!Steps
      BY <1>9, <1>23
    <3>2. n \in W!Steps /\ n \notin deps /\ n # s
      BY <1>7, <2>1, <3>1
    <3>3. j.step[n] \notin {"failed", "skipped", "cancelled"}
      BY <1>8, <1>20, <1>24, <2>6, <3>1 DEF W!FailuresSound
    <3> QED BY <1>10, <3>2, <3>3
  <2> QED BY <2>2, <2>5, <2>6 DEF W!FailuresSound
<1>15. /\ k \in W!Journal /\ k.status = j.status /\ k.trees = j1.trees /\ k.reused = j.reused
       /\ k.partial = j.partial /\ e2 \in W!EngineState /\ W!Running(e2) = W!Running(e) \ {s}
       /\ \A u \in W!Running(e) : u # s => e2.out[u] = e.out[u]
  BY <1>1, <1>3, <1>5, <1>8, <1>20, ZenonT(60)
<1>16. /\ W!Completed(j) \subseteq W!Completed(k)
       /\ \A u \in W!Completed(k) : x1.needs[u] \subseteq W!Completed(k)
       /\ k.reused \subseteq W!Completed(k) \ k.partial
  BY <1>12, <1>15, <1>24 DEF W!JournalSound
<1> QED BY <1>13, <1>14, <1>15, <1>16 DEF Ended

\* A step ends with a result.
LEMMA FinishedIs ==
    ASSUME W!PlansOK, x1 \in Plans, NEW r \in Runs, NEW d \in W!Journal, NEW j \in W!Journal,
           NEW e \in W!EngineState, NEW c, NEW t, j = x3[r], e = x4[r], W!RunSound(d, j, e, c, t),
           NEW s \in W!Running(e), W!Made(e) = {}, NEW result \in W!Results(s, e.out[s])
    PROVE  \E k \in W!Journal, e2 \in W!EngineState :
             /\ k = W!Finished(r, s, result).journal /\ e2 = W!Finished(r, s, result).engine
             /\ W!RunSound(k, k, e2, c, t) /\ Stands(d, k)
<1>1. PICK j1 : j1 = W!Applied(j, s, e.out[s])
  OBVIOUS
<1>2. PICK e1 : e1 = [e EXCEPT !.out = [u \in W!Running(e) \ {s} |-> e.out[u]],
                              !.terminal = e.terminal \union {s}]
  OBVIOUS
<1>3. Ending(d, j, e, c, t, s, j1, e1)
  <2>1. /\ W!FileSound(d, t) /\ W!CopySound(d, j, e) /\ W!ScheduleSound(j, e) /\ W!FailuresSound(j, e, c)
        /\ W!StartedSound(d, j, e, t)
    BY LiveIs, PlanIs
  <2>2. s \in W!Steps
    BY EngineFields
  <2>3. e.out[s] \in W!Settlements => j.trees[s] # <<>>
    BY <2>1 DEF W!StartedSound, W!Placed
  <2>4. EntrySettled(j, s, e.out[s], j1)
    BY <1>1, <2>2, <2>3, AppliedIs
  <2>5. StepEnds(e, s, e1)
    BY <1>2, StepEndsIs
  <2> QED BY <2>1, <2>2, <2>4, <2>5 DEF Ending
<1>4. SUFFICES ASSUME NEW k, NEW e2, W!Finished(r, s, result) = [journal |-> k, engine |-> e2],
                      Ended(j, e, c, s, j1, k, e2)
               PROVE  \E l \in W!Journal, f \in W!EngineState :
                        /\ l = W!Finished(r, s, result).journal /\ f = W!Finished(r, s, result).engine
                        /\ W!RunSound(l, l, f, c, t) /\ Stands(d, l)
  <2>1. CASE result \in {"success", "partial"}
    <3>1. PICK some \in SUBSET {s} : some = IF result = "partial" THEN {s} ELSE {}
      OBVIOUS
    <3>2. PICK k : k = [W!WithStatus(j1, {s}, "success") EXCEPT !.partial = j1.partial \union some]
      OBVIOUS
    <3>3. W!Finished(r, s, result) = [journal |-> k, engine |-> e1]
      BY <1>1, <1>2, <2>1, <3>1, <3>2 DEF W!Finished
    <3>4. Ended(j, e, c, s, j1, k, e1)
      BY ONLY W!PlansOK, x1 \in Plans, <1>3, some \in SUBSET {s}, <3>2, SuccessEnds
    <3> QED BY <3>3, <3>4
  <2>2. CASE result \notin {"success", "partial"} /\ (result = "cancelled" \/ s \notin x1.keepGoing)
    <3>1. PICK mark \in {"cancelled", "skipped"} :
            mark = IF result = "cancelled" THEN "cancelled" ELSE "skipped"
      OBVIOUS
    <3>2. PICK k : k = W!MarkUnscheduled(W!WithStatus(j1, {s}, result), e1, mark)
      OBVIOUS
    <3>3. PICK e2 : e2 = [e1 EXCEPT !.aborting = TRUE, !.failures = TRUE]
      BY SMTT(30)
    <3>4. W!Finished(r, s, result) = [journal |-> k, engine |-> e2]
      BY <1>1, <1>2, <2>2, <3>1, <3>2, <3>3 DEF W!Finished
    <3>5. result \in {"failed", "cancelled"}
      BY <2>2 DEF W!Results
    <3>6. Ended(j, e, c, s, j1, k, e2)
      BY ONLY W!PlansOK, x1 \in Plans, <1>3, mark \in {"cancelled", "skipped"}, <3>2, <3>3, <3>5, AbortEnds
    <3> QED BY <3>4, <3>6
  <2>3. CASE result \notin {"success", "partial"} /\ ~(result = "cancelled" \/ s \notin x1.keepGoing)
    <3>1. PICK deps : deps = W!Dependents(s, e1, j1)
      OBVIOUS
    <3>2. PICK k : k = W!WithStatus(W!WithStatus(j1, {s}, "failed"), deps, "skipped")
      OBVIOUS
    <3>3. PICK e2 : e2 = [e1 EXCEPT !.terminal = e1.terminal \union deps, !.failures = TRUE]
      BY SMTT(30)
    <3>4. W!Finished(r, s, result) = [journal |-> k, engine |-> e2]
      BY <1>1, <1>2, <2>3, <3>1, <3>2, <3>3 DEF W!Finished
    <3>5. Ended(j, e, c, s, j1, k, e2)
      BY ONLY W!PlansOK, x1 \in Plans, <1>3, <3>1, <3>2, <3>3, SkipEnds
    <3> QED BY <3>4, <3>5
  <2> QED BY <2>1, <2>2, <2>3
<1>5. W!RunSound(k, k, e2, c, t) /\ Stands(d, k) /\ k \in W!Journal /\ e2 \in W!EngineState
  BY ONLY W!PlansOK, x1 \in Plans, <1>3, <1>4, EndedSound
<1>6. k = W!Finished(r, s, result).journal /\ e2 = W!Finished(r, s, result).engine
  BY <1>4
<1> QED BY <1>5, <1>6

\* A step ends, and the engine is back at the head of its loop.
LEMMA FinishStepKeeps ==
    ASSUME W!PlansOK, W!JournalsInv, NEW r \in Runs, NEW s, NEW result, W!FinishStep(r, s, result)
    PROVE  W!JournalsInv' /\ W!KeepsWork
<1>1. PICK d \in W!Journal \union {NoJournal}, j \in W!Journal \union {NoJournal},
           e \in W!EngineState, c \in BOOLEAN, t \in [W!Steps \X W!Attempts -> W!TreeState] :
        /\ d = x2[r] /\ j = x3[r] /\ e = x4[r] /\ c = x5[r] /\ t = x6[r]
        /\ x2 = [x2 EXCEPT ![r] = d] /\ x3 = [x3 EXCEPT ![r] = j]
        /\ x4 = [x4 EXCEPT ![r] = e] /\ x5 = [x5 EXCEPT ![r] = c]
        /\ x6 = [x6 EXCEPT ![r] = t]
        /\ W!RunSound(d, j, e, c, t) /\ x1 \in Plans
  BY Rows
<1>2. s \in W!Running(e) /\ W!Made(e) = {} /\ result \in W!Results(s, e.out[s])
  BY <1>1 DEF W!FinishStep, W!Making, W!Made
<1>3. d \in W!Journal /\ j \in W!Journal
  BY <1>1, <1>2, LiveIs
<1>4. PICK k \in W!Journal, e2 \in W!EngineState :
        /\ k = W!Finished(r, s, result).journal /\ e2 = W!Finished(r, s, result).engine
        /\ W!RunSound(k, k, e2, c, t) /\ Stands(d, k)
  BY <1>1, <1>2, <1>3, FinishedIs
<1>5. PICK j3 : j3 = W!HeadJournal(k, e2, c)
  OBVIOUS
<1>6. PICK e3 : e3 = W!HeadEngine(e2, c)
  OBVIOUS
<1>7. j3 \in W!Journal /\ e3 \in W!EngineState /\ W!RunSound(k, j3, e3, c, t)
  BY <1>1, <1>4, <1>5, <1>6, HeadSound
<1>8. /\ x1' = x1 /\ x2' = [x2 EXCEPT ![r] = k] /\ x3' = [x3 EXCEPT ![r] = j3]
      /\ x4' = [x4 EXCEPT ![r] = e3] /\ x5' = [x5 EXCEPT ![r] = c]
      /\ x6' = [x6 EXCEPT ![r] = t]
  BY <1>1, <1>4, <1>5, <1>6 DEF W!FinishStep
<1>9. /\ Stands(x2[r], k) /\ Stays(x6[r], t) /\ k \in W!Journal \union {NoJournal}
      /\ j3 \in W!Journal \union {NoJournal}
  BY <1>1, <1>4, <1>7 DEF Stays
<1> QED BY ONLY W!PlansOK, W!JournalsInv, r \in Runs, c \in BOOLEAN, t \in [W!Steps \X W!Attempts -> W!TreeState],
                <1>7, <1>8, <1>9, OneRun

\* An engine with nothing running that can start nothing has nothing left.
LEMMA NothingLeft ==
    ASSUME W!PlansOK, x1 \in Plans, NEW j \in W!Journal, NEW e \in W!EngineState, NEW c,
           W!ScheduleSound(j, e), W!FailuresSound(j, e, c), W!Running(e) = {}, W!Startable(j, e) = {},
           ~e.aborting
    PROVE  W!Unscheduled(e) = {}
<1> SUFFICES ASSUME W!Unscheduled(e) # {} PROVE FALSE
  OBVIOUS
<1>1. W!Unscheduled(e) \in SUBSET Nat
  BY PlanIs DEF W!Unscheduled
<1>2. PICK u \in W!Unscheduled(e) : \A y \in W!Unscheduled(e) : u <= y
  BY <1>1, LeastNumber
<1>3. u \in W!Steps /\ u \in Nat
  BY <1>1 DEF W!Unscheduled
<1>4. ASSUME NEW n \in x1.needs[u] PROVE n \in W!Completed(j)
  <2>1. n \in W!Steps /\ n \in 1 .. u - 1
    BY <1>3, PlanIs
  <2>2. n \in Nat /\ ~(u <= n)
    BY <1>3, <2>1
  <2>3. n \notin W!Unscheduled(e)
    BY <1>2, <2>2
  <2>4. n \in e.terminal
    BY <2>1, <2>3 DEF W!Unscheduled
  <2>5. j.step[n] \in W!Terminal
    BY <2>4 DEF W!ScheduleSound
  <2>6. j.step[n] \notin {"failed", "skipped", "cancelled"}
    BY DEF W!FailuresSound
  <2> QED BY <2>1, <2>5, <2>6 DEF W!Terminal, W!Completed
<1>5. u \in W!Ready(j, e)
  BY <1>4 DEF W!Ready
<1>6. \A y \in W!Ready(j, e) : u <= y
  BY <1>2 DEF W!Ready
<1>7. ~(Cardinality(W!Running(e)) >= MaxConcurrency)
  BY FS_EmptySet DEF W!PlansOK
<1>8. u \in W!Startable(j, e)
  BY <1>5, <1>6, <1>7, CountIs DEF W!Startable
<1> QED BY <1>8

\* The status a run ends with is that of its steps.
LEMMA FinalStatusAgrees ==
    ASSUME W!PlansOK, x1 \in Plans, NEW j \in W!Journal, NEW e \in W!EngineState, NEW c \in BOOLEAN,
           W!ScheduleSound(j, e), W!FailuresSound(j, e, c), W!Running(e) = {}, W!Startable(j, e) = {},
           NEW k \in W!Journal, k = IF c THEN W!MarkUnscheduled(j, e, "cancelled") ELSE j,
           NEW l \in W!Journal, l.step = k.step, l.status = W!FinalStatus(k, e, c)
    PROVE  W!EndAgrees(l) /\ W!Completed(l) = W!Completed(j)
<1>1. \A u \in W!Steps : u \in e.terminal \/ u \in W!Unscheduled(e)
  BY DEF W!Unscheduled
<1>2. \A u \in W!Steps : k.step[u] =
        IF c /\ u \in W!Unscheduled(e) /\ j.step[u] # "success" THEN "cancelled" ELSE j.step[u]
  BY MarkUnscheduledIs DEF W!StepStatuses, W!Terminal
<1>3. \A u \in W!Unscheduled(e) :
        /\ u \in W!Steps /\ u \notin W!Completed(j)
        /\ j.step[u] \in IF e.aborting THEN {"cancelled", "skipped"} ELSE {"pending"}
  BY DEF W!ScheduleSound, W!Unscheduled
<1>4. \A u \in e.terminal : j.step[u] \in W!Terminal /\ u \notin W!Unscheduled(e)
  BY DEF W!ScheduleSound, W!Unscheduled
<1>5. ASSUME NEW u \in W!Steps PROVE l.step[u] \in W!Terminal
  <2>1. CASE u \in e.terminal
    BY <1>2, <1>4, <2>1
  <2>2. CASE u \in W!Unscheduled(e) /\ c
    BY <1>2, <1>3, <2>2 DEF W!Completed, W!Terminal
  <2>3. CASE u \in W!Unscheduled(e) /\ ~c
    <3>1. e.aborting
      BY <2>3, NothingLeft
    <3> QED BY <1>2, <1>3, <2>3, <3>1 DEF W!Terminal
  <2> QED BY <1>1, <2>1, <2>2, <2>3
<1>6. W!Completed(l) = W!Completed(j)
  BY <1>2 DEF W!Completed
<1>7. ~c => \A u \in W!Steps : l.step[u] = j.step[u]
  BY <1>2
<1>8. l.status = W!FinalStatus(l, e, c)
  BY DEF W!FinalStatus
<1>9. PICK st : st = l.step
  OBVIOUS
<1>10. /\ \A u \in W!Steps : st[u] \in {"success", "failed", "skipped", "cancelled"}
  BY <1>5, <1>9 DEF W!Terminal
<1>11. l.status = IF c \/ \E u \in W!Steps : st[u] = "cancelled" THEN "cancelled"
                  ELSE IF e.aborting /\ \E u \in W!Steps : st[u] = "failed" THEN "failed"
                  ELSE IF e.failures \/ \E u \in W!Steps : st[u] \in {"failed", "skipped"} THEN "with_failures"
                  ELSE "completed"
  BY <1>8, <1>9 DEF W!FinalStatus
<1>12. ASSUME ~c
       PROVE  /\ e.failures => \E u \in W!Steps : st[u] \in {"failed", "cancelled"}
              /\ \A u \in W!Steps : st[u] = "skipped" => e.failures
              /\ ~e.aborting => \A u \in W!Steps : st[u] = "skipped" =>
                   \E n \in x1.needs[u] : st[n] \in {"failed", "skipped"}
  <2>1. \A u \in W!Steps : st[u] = j.step[u]
    BY <1>7, <1>9, <1>12
  <2>2. \A u \in W!Steps : x1.needs[u] \in SUBSET W!Steps
    BY PlanIs
  <2>3. e.failures => \E u \in W!Steps : st[u] \in {"failed", "cancelled"}
    BY <1>12, <2>1 DEF W!FailuresSound
  <2>4. \A u \in W!Steps : st[u] = "skipped" => e.failures
    BY <2>1 DEF W!FailuresSound
  <2>5. ASSUME ~e.aborting, NEW u \in W!Steps, st[u] = "skipped"
        PROVE  \E n \in x1.needs[u] : st[n] \in {"failed", "skipped"}
    <3>1. PICK n \in x1.needs[u] : j.step[n] \in {"failed", "skipped"}
      BY <2>1, <2>5 DEF W!FailuresSound
    <3> QED BY <2>1, <2>2, <3>1
  <2> QED BY <2>3, <2>4, <2>5
<1>13. l.status = "completed" => \A u \in W!Steps : st[u] = "success"
  BY <1>10, <1>11
<1>14. (\A u \in W!Steps : st[u] = "success") => l.status \in {"completed", "cancelled"}
  BY <1>11, <1>12
<1>15. (\E u \in W!Steps : st[u] = "cancelled") => l.status = "cancelled"
  BY <1>11
<1>16. l.status \in {"failed", "with_failures"} => \E u \in W!Steps : st[u] = "failed"
  BY <1>11, <1>12
<1>17. l.status = "with_failures" => ~e.aborting /\ ~c
  BY <1>11, <1>16
<1>18. W!Completed(l) = W!Steps <=> \A u \in W!Steps : st[u] = "success"
  BY <1>9 DEF W!Completed
<1>19. W!EndAgrees(l)
  <2>1. /\ ~\E u \in W!Steps : l.step[u] = "pending"
        /\ ~\E u \in W!Steps : l.step[u] = "running"
    BY <1>9, <1>10
  <2>2. l.status = "completed" => W!Completed(l) = W!Steps
    BY <1>13, <1>18
  <2>3. W!Completed(l) = W!Steps => l.status \in {"completed", "cancelled"}
    BY <1>14, <1>18
  <2>4. l.status = "with_failures" => \A u \in W!Steps : l.step[u] = "skipped" =>
          \E n \in x1.needs[u] : l.step[n] \in {"failed", "skipped"}
    BY <1>9, <1>12, <1>17
  <2> QED BY <1>9, <1>15, <1>16, <2>1, <2>2, <2>3, <2>4 DEF W!EndAgrees
<1> QED BY <1>6, <1>19

\* The last journal of a run is written.
LEMMA EndRunKeeps ==
    ASSUME W!PlansOK, W!JournalsInv, NEW r \in Runs, W!EndRun(r)
    PROVE  W!JournalsInv' /\ W!KeepsWork
<1>1. PICK d \in W!Journal \union {NoJournal}, j \in W!Journal \union {NoJournal},
           e \in W!EngineState, c \in BOOLEAN, t \in [W!Steps \X W!Attempts -> W!TreeState] :
        /\ d = x2[r] /\ j = x3[r] /\ e = x4[r] /\ c = x5[r] /\ t = x6[r]
        /\ x2 = [x2 EXCEPT ![r] = d] /\ x3 = [x3 EXCEPT ![r] = j]
        /\ x4 = [x4 EXCEPT ![r] = e] /\ x5 = [x5 EXCEPT ![r] = c]
        /\ x6 = [x6 EXCEPT ![r] = t]
        /\ W!RunSound(d, j, e, c, t) /\ x1 \in Plans
  BY Rows
<1>2. PICK k : k = IF c THEN W!MarkUnscheduled(j, e, "cancelled") ELSE j
  OBVIOUS
<1>3. PICK l : l = [k EXCEPT !.status = W!FinalStatus(k, e, c)]
  OBVIOUS
<1>4. /\ x1' = x1 /\ x2' = [x2 EXCEPT ![r] = l] /\ x3' = [x3 EXCEPT ![r] = NoJournal]
      /\ x4' = [x4 EXCEPT ![r] = W!NoEngine] /\ x5' = [x5 EXCEPT ![r] = FALSE]
      /\ x6' = [x6 EXCEPT ![r] = t]
  BY <1>1, <1>2, <1>3 DEF W!EndRun, W!NoMoreEngine
<1>5. j # NoJournal /\ W!Running(e) = {} /\ W!Made(e) = {} /\ W!Startable(j, e) = {}
  BY <1>1 DEF W!EndRun, W!Live, W!InPass, W!Making, W!Made
<1>6. /\ d \in W!Journal /\ j \in W!Journal /\ W!FileSound(d, t) /\ W!CopySound(d, j, e)
      /\ W!ScheduleSound(j, e) /\ W!FailuresSound(j, e, c)
  BY <1>1, <1>5, LiveIs
<1>7. /\ k \in W!Journal /\ k.partial = j.partial /\ k.trees = j.trees /\ k.reused = j.reused
  BY <1>2, <1>6, MarkUnscheduledIs DEF W!StepStatuses, W!Terminal
<1>8. W!FinalStatus(k, e, c) \in W!RunStatuses
  BY DEF W!FinalStatus, W!RunStatuses
<1>9. /\ l \in W!Journal /\ l.step = k.step /\ l.partial = k.partial /\ l.trees = k.trees
      /\ l.reused = k.reused /\ l.status = W!FinalStatus(k, e, c)
  BY ONLY <1>3, <1>7, <1>8 DEF W!Journal
<1>10. W!EndAgrees(l) /\ W!Completed(l) = W!Completed(j)
  BY ONLY W!PlansOK, <1>1, c \in BOOLEAN, e \in W!EngineState, <1>2, <1>5, <1>6, <1>7, <1>9, FinalStatusAgrees
<1>11. \A s \in W!Steps : l.trees[s] = d.trees[s]
  BY <1>5, <1>6, <1>7, <1>9, NothingMade
<1>12. W!JournalSound(l)
  <2>1. W!JournalSound(j)
    BY <1>6 DEF W!CopySound
  <2> QED BY <1>7, <1>9, <1>10, <2>1 DEF W!JournalSound
<1>13. W!FileSound(l, t)
  BY <1>1, <1>6, <1>9, <1>10, <1>11, <1>12, PlanIs DEF W!FileSound
<1>14. W!RunSound(l, NoJournal, W!NoEngine, FALSE, t)
  BY <1>13, EndSound
<1>15. Stands(x2[r], l) /\ Stays(x6[r], t)
  BY <1>1, <1>6, <1>7, <1>9, <1>10 DEF Stands, Stays, W!CopySound
<1>16. /\ l \in W!Journal \union {NoJournal} /\ NoJournal \in W!Journal \union {NoJournal}
       /\ W!NoEngine \in W!EngineState /\ FALSE \in BOOLEAN
  BY <1>9, NoEngineIs
<1> QED BY ONLY W!PlansOK, W!JournalsInv, r \in Runs, t \in [W!Steps \X W!Attempts -> W!TreeState],
                <1>4, <1>14, <1>15, <1>16, OneRun

-----------------------------------------------------------------------------
(* The invariant. *)

\* At the start nothing is written.
LEMMA JournalsInit ==
    ASSUME W!PlansOK, W!Init
    PROVE  W!JournalsInv
<1>1. W!WorkflowShape
  BY NoEngineIs DEF W!Init, W!WorkflowShape, W!TreeState
<1>2. ASSUME NEW r \in Runs PROVE W!RunSound(x2[r], x3[r], x4[r], x5[r], x6[r])
  <2>1. /\ x2[r] = NoJournal /\ x3[r] = NoJournal /\ x4[r] = W!NoEngine /\ x5[r] = FALSE
        /\ x6[r] = [p \in W!Steps \X W!Attempts |-> "absent"]
    BY DEF W!Init
  <2>2. W!FileSound(x2[r], x6[r])
    BY <2>1 DEF W!FileSound
  <2> QED BY <2>1, <2>2, EndSound
<1> QED BY <1>1, <1>2 DEF W!JournalsInv

\* A step of an engine or of its surroundings keeps it, and the work.
LEMMA ProceedKeeps ==
    ASSUME W!PlansOK, W!JournalsInv, NEW r \in Runs, W!Proceed(r)
    PROVE  W!JournalsInv' /\ W!KeepsWork
<1>1. \/ W!Engine(r)
      \/ W!Prepare(r) \/ W!Cancel(r) \/ W!EngineLost(r)
      \/ \E source \in Runs : W!Replay(source, r)
      \/ \E s \in W!Steps : W!WriteStartFails(r, s) \/ \E a \in W!Attempts : W!Work(r, s, a)
  BY DEF W!Proceed
<1>2. CASE W!Engine(r)
  <2>1. CASE W!SeeCancel(r) \/ W!StartStep(r) \/ W!Provision(r) \/ W!ProvisionFails(r) \/ W!EndRun(r)
    BY <2>1, SeeCancelKeeps, StartStepKeeps, ProvisionKeeps, ProvisionFailsKeeps, EndRunKeeps
  <2>2. ASSUME NEW s \in W!Running(x4[r]), W!WriteStart(r, s) \/ W!Settle(r, s) PROVE W!JournalsInv' /\ W!KeepsWork
    BY <2>2, WriteStartKeeps, SettleKeeps
  <2>3. ASSUME NEW s \in W!Running(x4[r]), NEW result, W!FinishStep(r, s, result) PROVE W!JournalsInv' /\ W!KeepsWork
    BY <2>3, FinishStepKeeps
  <2> QED BY <1>2, <2>1, <2>2, <2>3 DEF W!Engine
<1>3. CASE W!Prepare(r) \/ W!Cancel(r) \/ W!EngineLost(r)
  BY <1>3, PrepareKeeps, CancelKeeps, EngineLostKeeps
<1>4. ASSUME NEW source \in Runs, W!Replay(source, r) PROVE W!JournalsInv' /\ W!KeepsWork
  BY <1>4, ReplayKeeps
<1>5. ASSUME NEW s \in W!Steps, W!WriteStartFails(r, s) PROVE W!JournalsInv' /\ W!KeepsWork
  BY <1>5, WriteStartFailsKeeps
<1>6. ASSUME NEW s \in W!Steps, NEW a \in W!Attempts, W!Work(r, s, a) PROVE W!JournalsInv' /\ W!KeepsWork
  BY <1>6, WorkKeeps
<1> QED BY <1>1, <1>2, <1>3, <1>4, <1>5, <1>6

\* So does a step of something else.
LEMMA JournalsStutter ==
    ASSUME W!JournalsInv, UNCHANGED <<x1, x2, x3, x4, x5, x6>>
    PROVE  W!JournalsInv'
<1>1. /\ x1' = x1 /\ x2' = x2 /\ x3' = x3 /\ x4' = x4 /\ x5' = x5
      /\ x6' = x6
  OBVIOUS
<1>2. W!WorkflowShape'
  BY <1>1 DEF W!JournalsInv, W!WorkflowShape
<1>3. ASSUME NEW r \in Runs PROVE W!RunSound(x2[r], x3[r], x4[r], x5[r], x6[r])'
  <2>1. PICK d, j, e, c, t : d = x2[r] /\ j = x3[r] /\ e = x4[r] /\ c = x5[r] /\ t = x6[r]
    OBVIOUS
  <2>2. W!RunSound(d, j, e, c, t)
    BY <2>1, RowsOf
  <2>3. x2'[r] = d /\ x3'[r] = j /\ x4'[r] = e /\ x5'[r] = c /\ x6'[r] = t
    BY <1>1, <2>1
  <2> QED BY <1>1, <2>2, <2>3, SamePlan
<1> QED BY <1>2, <1>3 DEF W!JournalsInv

\* What the invariant says of the journals.
LEMMA JournalsAre ==
    ASSUME W!PlansOK, W!JournalsInv
    PROVE  W!JournalsSound
<1>1. W!WorkflowShape
  BY DEF W!JournalsInv
<1>2. \A r \in Runs : W!FileSound(x2[r], x6[r])
  BY DEF W!JournalsInv, W!RunSound
<1>3. W!WorkflowTypeOK
  BY <1>1, EngineFields DEF W!WorkflowShape, W!WorkflowTypeOK
<1>4. ASSUME NEW r \in Runs
      PROVE  /\ Cardinality(W!Running(x4[r])) <= MaxConcurrency
             /\ \A s \in W!Dispatched(r) :
                  /\ x2[r].step[s] = "running"
                  /\ \A n \in x1.needs[s] : x2[r].step[n] = "success"
  <2>1. CASE W!Running(x4[r]) = {}
    BY <2>1, FS_EmptySet DEF W!Dispatched, W!PlansOK
  <2>2. CASE W!Running(x4[r]) # {}
    <3>1. PICK d \in W!Journal \union {NoJournal}, j \in W!Journal \union {NoJournal},
               e \in W!EngineState, c \in BOOLEAN, t \in [W!Steps \X W!Attempts -> W!TreeState] :
            /\ d = x2[r] /\ j = x3[r] /\ e = x4[r] /\ c = x5[r] /\ t = x6[r]
            /\ x2 = [x2 EXCEPT ![r] = d] /\ x3 = [x3 EXCEPT ![r] = j]
            /\ x4 = [x4 EXCEPT ![r] = e] /\ x5 = [x5 EXCEPT ![r] = c]
            /\ x6 = [x6 EXCEPT ![r] = t]
            /\ W!RunSound(d, j, e, c, t) /\ x1 \in Plans
      BY Rows
    <3>2. W!ScheduleSound(j, e) /\ W!CopySound(d, j, e) /\ W!StartedSound(d, j, e, t)
      BY <2>2, <3>1, LiveIs
    <3>3. W!Completed(j) = W!Completed(d)
      BY <3>2 DEF W!CopySound
    <3> QED BY <3>1, <3>2, <3>3, CountIs DEF W!ScheduleSound, W!StartedSound, W!Dispatched, W!Completed
  <2> QED BY <2>1, <2>2
<1>5. W!DispatchesRecorded
  BY <1>4, CountIs DEF W!DispatchesRecorded
<1>6. W!EndsAgree
  BY <1>2 DEF W!EndsAgree, W!FileSound
<1>7. W!SuccessesRest
  BY <1>2 DEF W!SuccessesRest, W!FileSound, W!JournalSound
<1>8. ASSUME NEW r \in W!Live, W!Running(x4[r]) = {}, W!Startable(x3[r], x4[r]) = {}, NEW s \in W!Steps
      PROVE  x3[r].step[s] \in W!Terminal
  <2>1. PICK d \in W!Journal \union {NoJournal}, j \in W!Journal \union {NoJournal},
             e \in W!EngineState, c \in BOOLEAN, t \in [W!Steps \X W!Attempts -> W!TreeState] :
          /\ d = x2[r] /\ j = x3[r] /\ e = x4[r] /\ c = x5[r] /\ t = x6[r]
          /\ x2 = [x2 EXCEPT ![r] = d] /\ x3 = [x3 EXCEPT ![r] = j]
          /\ x4 = [x4 EXCEPT ![r] = e] /\ x5 = [x5 EXCEPT ![r] = c]
          /\ x6 = [x6 EXCEPT ![r] = t]
          /\ W!RunSound(d, j, e, c, t) /\ x1 \in Plans
    BY <1>8, Rows DEF W!Live
  <2>2. j # NoJournal /\ W!Running(e) = {} /\ W!Startable(j, e) = {}
    BY <1>8, <2>1 DEF W!Live
  <2>3. j \in W!Journal /\ W!ScheduleSound(j, e) /\ W!FailuresSound(j, e, c)
    BY <2>1, <2>2, LiveIs
  <2>4. CASE s \in e.terminal
    BY <2>1, <2>3, <2>4 DEF W!ScheduleSound
  <2>5. CASE s \notin e.terminal
    <3>1. s \in W!Unscheduled(e)
      BY <2>2, <2>5 DEF W!Unscheduled
    <3>2. e.aborting
      BY <2>1, <2>2, <2>3, <3>1, NothingLeft
    <3> QED BY <2>1, <2>3, <3>1, <3>2 DEF W!ScheduleSound, W!Terminal
  <2> QED BY <2>4, <2>5
<1>9. W!NeverStuck
  BY <1>8 DEF W!NeverStuck
<1> QED BY <1>3, <1>5, <1>6, <1>7, <1>9 DEF W!JournalsSound

\* A caller reads a journal.
LEMMA ReadJournalKeeps ==
    ASSUME W!PlansOK, W!JournalsInv, NEW r \in Runs, W!ReadJournal(r)
    PROVE  W!JournalsInv' /\ W!KeepsWork
<1>1. UNCHANGED <<x1, x2, x3, x4, x5, x6>>
  BY DEF W!ReadJournal
<1>2. PICK d \in W!Journal \union {NoJournal}, j \in W!Journal \union {NoJournal},
           e \in W!EngineState, c \in BOOLEAN, t \in [W!Steps \X W!Attempts -> W!TreeState] :
        /\ d = x2[r] /\ j = x3[r] /\ e = x4[r] /\ c = x5[r] /\ t = x6[r]
        /\ x2 = [x2 EXCEPT ![r] = d] /\ x3 = [x3 EXCEPT ![r] = j]
        /\ x4 = [x4 EXCEPT ![r] = e] /\ x5 = [x5 EXCEPT ![r] = c]
        /\ x6 = [x6 EXCEPT ![r] = t]
        /\ W!RunSound(d, j, e, c, t) /\ x1 \in Plans
  BY Rows
<1>3. /\ x1' = x1 /\ x2' = [x2 EXCEPT ![r] = d] /\ x3' = [x3 EXCEPT ![r] = j]
      /\ x4' = [x4 EXCEPT ![r] = e] /\ x5' = [x5 EXCEPT ![r] = c] /\ x6' = [x6 EXCEPT ![r] = t]
  BY <1>1, <1>2
<1>4. Stands(x2[r], d) /\ Stays(x6[r], t)
  BY <1>2 DEF Stands, Stays
<1>5. /\ d \in W!Journal \union {NoJournal} /\ j \in W!Journal \union {NoJournal}
      /\ e \in W!EngineState /\ c \in BOOLEAN /\ t \in [W!Steps \X W!Attempts -> W!TreeState]
      /\ W!RunSound(d, j, e, c, t)
  BY <1>2
<1> QED BY ONLY W!PlansOK, W!JournalsInv, r \in Runs, <1>3, <1>4, <1>5, OneRun

\* Every step keeps the invariant unless it overtakes an engine or a write, and
\* such a step is on record.
LEMMA JournalsStep ==
    ASSUME W!PlansOK, x9 = FALSE, W!JournalsInv, W!Next
    PROVE  /\ x9' \in BOOLEAN /\ (x9' = FALSE => W!JournalsInv')
           /\ W!KeepsWork
<1>1. PICK r \in Runs :
        \/ W!Proceed(r) /\ x9' = x9
        \/ W!ReadJournal(r) \/ W!RunPrepared(r) \/ W!Resume(r)
  BY DEF W!Next, W!starts
<1>2. CASE W!Proceed(r) /\ x9' = x9
  BY <1>2, ProceedKeeps
<1>3. CASE W!ReadJournal(r)
  <2>1. x9' = x9
    BY <1>3 DEF W!ReadJournal
  <2> QED BY <1>3, <2>1, ReadJournalKeeps
<1>4. CASE W!RunPrepared(r) \/ W!Resume(r)
  <2>0. x9' = W!Overtakes(r)
    BY <1>4 DEF W!RunPrepared, W!Resume, W!UseRead
  <2>1. CASE ~W!Overtakes(r)
    <3>1. x9' = FALSE
      BY <2>0, <2>1 DEF W!Overtakes
    <3> QED BY <1>4, <2>1, <3>1, RunPreparedKeeps, ResumeKeeps
  <2>2. CASE W!Overtakes(r)
    <3>1. x9' = TRUE
      BY <2>0, <2>2 DEF W!Overtakes
    <3> QED BY <3>1 DEF W!KeepsWork
  <2> QED BY <2>1, <2>2
<1> QED BY <1>1, <1>2, <1>3, <1>4

\* The invariant of the part: the journals are sound unless some start overtook
\* an engine or a write.
WorkflowPart == part = "workflow" => x9 \in BOOLEAN /\ (x9 = FALSE => W!JournalsInv)

\* Workflow runs keep their invariant, whatever becomes of the other parts.
LEMMA WorkflowPartInvariant == MCSpec => []WorkflowPart
<1>0. W!PlansOK
  BY WorkflowAssumption
<1>1. MCInit => WorkflowPart
  <2> SUFFICES ASSUME MCInit, part = "workflow" PROVE x9 = FALSE /\ W!JournalsInv
    BY DEF WorkflowPart
  <2>1. W!Init
    BY DEF MCInit
  <2> QED BY <1>0, <2>1, JournalsInit DEF W!Init
<1>2. ASSUME WorkflowPart, [MCNext]_allVars PROVE WorkflowPart'
  <2> SUFFICES ASSUME part' = "workflow"
               PROVE  x9' \in BOOLEAN /\ (x9' = FALSE => W!JournalsInv')
    BY DEF WorkflowPart
  <2>1. CASE MCNext
    <3>1. part = "workflow" /\ W!Next
      BY <2>1 DEF MCNext
    <3>2. x9 = FALSE
      BY <1>2, <3>1 DEF WorkflowPart, W!Next
    <3> QED BY <1>0, <1>2, <3>1, <3>2, JournalsStep DEF WorkflowPart
  <2>2. CASE UNCHANGED allVars
    <3>1. part = "workflow" /\ UNCHANGED <<x1, x2, x3, x4, x5, x6>> /\ x9' = x9
      BY <2>2 DEF allVars, partVars
    <3> QED BY <1>2, <3>1, JournalsStutter DEF WorkflowPart
  <2> QED BY <1>2, <2>1, <2>2
<1> QED BY <1>1, <1>2, PTL DEF MCSpec

\* The journals of workflow runs are sound (JournalsSound) up to the first start
\* that overtakes an engine at work on its journal or a write to it, for any
\* plans in topological order, any number of runs, steps, permits, crashes,
\* resumes and replays: what is with a target is on record, on recorded successes
\* and within the permits; a run ends with the status of its steps, none of them
\* left open; a replay took over nothing that had succeeded only in part; and an
\* engine that runs nothing and can start nothing has nothing left.
THEOREM JournalsStaySound == MCSpec => []JournalsSound
<1>1. ASSUME WorkflowPart PROVE JournalsSound
  <2> SUFFICES ASSUME part = "workflow" PROVE W!JournalsSound
    BY DEF JournalsSound
  <2>1. CASE x9 = FALSE
    BY <1>1, <2>1, WorkflowAssumption, JournalsAre DEF WorkflowPart
  <2>2. CASE x9 = TRUE
    BY <2>2 DEF W!JournalsSound
  <2> QED BY <1>1, <2>1, <2>2 DEF WorkflowPart
<1> QED BY <1>1, WorkflowPartInvariant, PTL

\* Work is kept (WorkKept): no step, crash, resume or replay that overtakes
\* neither an engine at work on its journal nor a write to it takes back a
\* recorded success or runs it again, removes a worktree that was worked in, or
\* loses it from the journal.
THEOREM WorkIsKept == MCSpec => WorkKept
<1>0. W!PlansOK
  BY WorkflowAssumption
<1>1. ASSUME WorkflowPart, [MCNext]_allVars PROVE [part = "workflow" => W!KeepsWork]_allVars
  <2>1. CASE MCNext
    <3> SUFFICES ASSUME part = "workflow" PROVE W!KeepsWork
      OBVIOUS
    <3>1. W!Next
      BY <2>1 DEF MCNext
    <3>2. x9 = FALSE
      BY <1>1, <3>1 DEF WorkflowPart, W!Next
    <3> QED BY <1>0, <1>1, <3>1, <3>2, JournalsStep DEF WorkflowPart
  <2>2. CASE UNCHANGED allVars
    BY <2>2
  <2> QED BY <1>1, <2>1, <2>2
<1> QED BY <1>1, WorkflowPartInvariant, PTL DEF MCSpec, WorkKept
=============================================================================
