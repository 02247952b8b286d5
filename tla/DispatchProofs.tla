--------------------------- MODULE DispatchProofs ---------------------------
(***************************************************************************)
(* Proofs about dispatches: a session under the dispatch kernel and a task *)
(* that was detached (the parts S and T of MCDurable), and the continuity  *)
(* plan of a goal, whose approved steps are what is dispatched.            *)
(*                                                                         *)
(* The session has any dispatches, control clients, chains and native      *)
(* sessions, and any number of power losses.  Its variables are those of   *)
(* the instance S: x1 the envelope, x2 the flat file, x3 what either may   *)
(* be after a power loss, x4 lease, x5 the clients, x6 the tasks, x7 the   *)
(* turns reported saved.  Most steps are of one client and touch neither   *)
(* file: for these it is enough to look at that client (QuietStep).  The   *)
(* three that are left are a migration, which finds nobody between load    *)
(* and update; a mutation, which is the lease holder's; and a power loss,  *)
(* after which nobody who began is left.                                   *)
(*                                                                         *)
(* The detached task has any commands that cancel it and a chain of any    *)
(* length.  Its variables are those of the instance T: x1 the row, x2 the  *)
(* submitting command, x3 the pipe, x4 the worker, x5 the harness groups,  *)
(* x6 the sidecar, x7 numbers of strangers, x8 signals amiss, x9 the       *)
(* commands, x10 the legs of the chain.                                    *)
(*                                                                         *)
(* The continuity plan has any quota events, policies and options and any  *)
(* number of approvals and observations; its variables are its own.        *)
(***************************************************************************)
EXTENDS MCDurable, SequenceTheorems, FiniteSetTheorems, TLAPS

-----------------------------------------------------------------------------
\* The client is done, or its dropped work is.
Ends(s) == s.phase = "done" \/ (s.gone /\ s.phase \notin {"flat", "migrate"})

\* Records of a client.
LEMMA StartAndEnd ==
    /\ S!Empty \in S!Envelope /\ S!Fresh \in S!ClientState /\ S!Ended \in S!ClientState
    /\ S!Fresh.phase = "new" /\ S!Ended.phase = "done" /\ S!Ended.ctx = S!Empty /\ ~S!Ended.gone
    /\ S!Fresh.ctx = S!Empty /\ ~S!Fresh.gone /\ S!Fresh.prep = "fresh" /\ S!Fresh.at = 1
    /\ S!Fresh.calls = 0 /\ S!Fresh.records = 0
    /\ S!Ended.prep = "fresh" /\ S!Ended.at = 1 /\ S!Ended.calls = 0 /\ S!Ended.records = 0
    /\ S!Empty.turns = <<>> /\ S!Empty.rev = 0 /\ S!Empty.native = "absent"
<1>1. <<>> \in Seq(S!Turn)
  OBVIOUS
<1>2. /\ S!Empty \in S!Envelope /\ S!Empty.turns = <<>> /\ S!Empty.rev = 0 /\ S!Empty.native = "absent"
  BY <1>1 DEF S!Empty, S!Envelope, S!Native
<1>3. PICK e \in S!Envelope : e = S!Empty
  BY <1>2
<1>4. /\ S!Fresh \in S!ClientState /\ S!Fresh.phase = "new" /\ S!Fresh.ctx = e /\ ~S!Fresh.gone
      /\ S!Fresh.prep = "fresh" /\ S!Fresh.at = 1 /\ S!Fresh.calls = 0 /\ S!Fresh.records = 0
  BY <1>3 DEF S!Fresh, S!ClientState
<1>5. PICK f \in S!ClientState : f = S!Fresh
  BY <1>4
<1>6. /\ S!Ended \in S!ClientState /\ S!Ended.phase = "done" /\ S!Ended.ctx = f.ctx
      /\ S!Ended.gone = f.gone /\ S!Ended.prep = f.prep /\ S!Ended.at = f.at
      /\ S!Ended.calls = f.calls /\ S!Ended.records = f.records
  BY <1>5 DEF S!Ended, S!ClientState
<1> QED BY <1>2, <1>3, <1>4, <1>5, <1>6

\* Nothing was ever said in an empty transcript.
LEMMA NoTurns == S!TurnsSound(<<>>) /\ S!By(<<>>) = {}
BY DEF S!TurnsSound, S!Linear, S!By

\* No client that is done begins again: then sound transcripts stay sound.
LEMMA TurnsKept ==
    ASSUME \A c \in S!Client : x5[c].phase = "done" => x5'[c].phase = "done",
           NEW turns, S!TurnsSound(turns)
    PROVE  S!TurnsSound(turns)'
BY DEF S!TurnsSound, S!Linear

\* What the invariant says of each client, of the files and of the session read.
LEMMA Parts ==
    ASSUME S!SessionInv
    PROVE  /\ \A c \in S!Client : x5[c] \in S!ClientState /\ x5[c].ctx \in S!Envelope
           /\ \A c \in S!Client : S!TurnsSound(x5[c].ctx.turns) /\ S!LeaseSound(c)
           /\ \A e \in x3.v2 : e # NoFile => e \in S!Envelope /\ S!TurnsSound(e.turns)
           /\ x1 \in x3.v2 /\ (x1 # NoFile => x1 \in S!Envelope)
           /\ S!Session \in S!Envelope /\ S!TurnsSound(S!Session.turns)
           /\ x5 \in [S!Client -> S!ClientState]
           /\ Dispatches \subseteq S!Client /\ Control \subseteq S!Client
<1>1. /\ \A c \in S!Client : x5[c] \in S!ClientState /\ x5[c].ctx \in S!Envelope
      /\ \A c \in S!Client : S!TurnsSound(x5[c].ctx.turns) /\ S!LeaseSound(c)
      /\ x5 \in [S!Client -> S!ClientState]
  BY DEF S!SessionInv, S!StatesOK, S!ClientState, S!KnownTurns
<1>2. /\ \A e \in x3.v2 : e # NoFile => e \in S!Envelope /\ S!TurnsSound(e.turns)
      /\ x1 \in x3.v2
  BY DEF S!SessionInv, S!FilesOK, S!KnownTurns
<1>3. S!Session \in S!Envelope /\ S!TurnsSound(S!Session.turns)
  BY <1>2, StartAndEnd, NoTurns DEF S!Session
<1> QED BY <1>1, <1>2, <1>3 DEF S!Client

\* A step of client c that touches neither the files nor what is owed.
LEMMA QuietStep ==
    ASSUME S!SessionInv, NEW c \in S!Client, NEW s \in S!ClientState,
           UNCHANGED <<S!files, x6, x7>>, x5' = [x5 EXCEPT ![c] = s],
           x4' \in S!Client \union {Nobody},
           \A e \in S!Client \ {c} : x4' = e <=> x4 = e,
           x5[c].phase # "done" \/ s.phase = "done",
           s.ctx \in {x5[c].ctx, S!Session, S!Empty},
           S!LeaseSound(c)',
           c \in Dispatches => S!PlanSound(c)' /\ S!LoadSound(c)' /\ s.at <= Len(x6[c].chain)
    PROVE  S!SessionInv'
<1>1. /\ x1' = x1 /\ x2' = x2 /\ x3' = x3 /\ x6' = x6 /\ x7' = x7
      /\ S!Session' = S!Session
  BY DEF S!files, S!Session
<1>2. /\ x5' \in [S!Client -> S!ClientState] /\ x5'[c] = s
      /\ \A e \in S!Client \ {c} : x5'[e] = x5[e]
  BY Parts
<1>3. S!FilesOK' /\ S!SavedStays'
  BY <1>1 DEF S!SessionInv, S!FilesOK, S!SavedStays
<1>4. S!StatesOK'
  BY <1>1, <1>2, Parts DEF S!SessionInv, S!StatesOK
<1>5. ASSUME NEW e \in S!Client \ {c} PROVE S!LeaseSound(e)'
  BY <1>1, <1>2, Parts DEF S!LeaseSound
<1>6. ASSUME NEW e \in Dispatches \ {c} PROVE S!PlanSound(e)' /\ S!LoadSound(e)'
  <2>1. e \in S!Client /\ x5'[e] = x5[e] /\ (x4' = e <=> x4 = e)
    BY <1>2, Parts
  <2>2. S!PlanSound(e) /\ S!LoadSound(e)
    BY DEF S!SessionInv
  <2> QED BY <1>1, <2>1, <2>2 DEF S!PlanSound, S!LoadSound, S!Consumable, S!Resting, S!Overtaken
<1>7. ASSUME NEW turns \in S!KnownTurns' PROVE S!TurnsSound(turns)'
  <2>1. \A e \in S!Client : x5[e].phase = "done" => x5'[e].phase = "done"
    BY <1>2
  <2>2. S!TurnsSound(turns)
    <3>1. CASE turns \in {e.turns : e \in x3.v2 \ {NoFile}}
      BY <3>1, Parts
    <3>2. CASE \E e \in S!Client : turns = x5'[e].ctx.turns
      BY <1>2, <3>2, Parts, StartAndEnd, NoTurns
    <3> QED BY <1>1, <1>7, <3>1, <3>2 DEF S!KnownTurns
  <2> QED BY <2>1, <2>2, TurnsKept
<1> QED BY <1>3, <1>4, <1>5, <1>6, <1>7 DEF S!SessionInv

\* Client c goes on as s, and its lease with it.
LEMMA QuietBecomes ==
    ASSUME S!SessionInv, NEW c \in S!Client, NEW s \in S!ClientState, S!Becomes(c, s),
           UNCHANGED <<S!files, x6, x7>>, x5[c].phase # "done",
           s.ctx \in {x5[c].ctx, S!Session, S!Empty},
           x5'[c] = s /\ x4' = x4 /\ ~Ends(s) =>
              /\ S!LeaseSound(c)'
              /\ c \in Dispatches => S!PlanSound(c)' /\ S!LoadSound(c)' /\ s.at <= Len(x6[c].chain)
    PROVE  S!SessionInv'
<1>1. x5 \in [S!Client -> S!ClientState] /\ x4 \in S!Client \union {Nobody} /\ Nobody \notin S!Client
  BY Parts, SessionAssumption DEF S!SessionInv, S!StatesOK
<1>2. CASE Ends(s)
  <2>1. /\ x5' = [x5 EXCEPT ![c] = S!Ended]
        /\ x4' = IF x4 = c THEN Nobody ELSE x4
    BY <1>2 DEF S!Becomes, Ends
  <2>2. x4' \in S!Client \union {Nobody} /\ x4' # c
        /\ \A e \in S!Client \ {c} : x4' = e <=> x4 = e
    BY <1>1, <2>1
  <2>3. x5'[c] = S!Ended
    BY <1>1, <2>1
  <2>4. S!LeaseSound(c)'
    BY <2>2, <2>3, StartAndEnd DEF S!LeaseSound
  <2>5. ASSUME c \in Dispatches PROVE S!PlanSound(c)' /\ S!LoadSound(c)'
    BY <2>2, <2>3, StartAndEnd DEF S!PlanSound, S!LoadSound, S!Consumable, S!Resting
  <2>6. c \in Dispatches => S!Ended.at <= Len(x6[c].chain)
    <3>1. ASSUME c \in Dispatches PROVE x5[c].at \in Nat \ {0} /\ x5[c].at <= Len(x6[c].chain)
                                      /\ Len(x6[c].chain) \in Nat
      <4>1. x5[c] \in S!ClientState /\ x6 \in Tasks
        BY Parts DEF S!SessionInv, S!StatesOK
      <4>2. x6[c].chain \in Seq({"chat", "cli"})
        BY <3>1, <4>1, SessionAssumption
      <4> QED BY <3>1, <4>1, <4>2 DEF S!SessionInv, S!StatesOK, S!ClientState
    <3> QED BY <3>1, StartAndEnd
  <2>7. S!Ended.ctx = S!Empty /\ S!Ended.phase = "done" /\ S!Ended \in S!ClientState
    BY StartAndEnd
  <2> QED BY <2>1, <2>2, <2>4, <2>5, <2>6, <2>7, QuietStep
<1>3. CASE ~Ends(s)
  <2>1. x5' = [x5 EXCEPT ![c] = s] /\ x4' = x4
    BY <1>3 DEF S!Becomes, Ends
  <2>2. x5'[c] = s
    BY <1>1, <2>1
  <2> QED BY <1>1, <1>3, <2>1, <2>2, QuietStep
<1> QED BY <1>2, <1>3

\* What a step may take from a state of client c.
LEMMA ClientParts ==
    ASSUME S!SessionInv, NEW c \in S!Client
    PROVE  /\ x5[c] \in S!ClientState /\ x5[c].ctx \in S!Envelope /\ S!LeaseSound(c)
           /\ x4 \in S!Client \union {Nobody} /\ Nobody \notin S!Client
           /\ c \in Dispatches => /\ S!PlanSound(c) /\ S!LoadSound(c) /\ c \notin Control
                                  /\ x5[c].at <= Len(x6[c].chain)
                                  /\ x6[c].chain \in Seq({"chat", "cli"})
                                  /\ Len(x6[c].chain) \in Nat /\ x6[c].inSession \in BOOLEAN
           /\ c \in Control => c \notin Dispatches
<1>1. /\ x5[c] \in S!ClientState /\ x5[c].ctx \in S!Envelope /\ S!LeaseSound(c)
      /\ x4 \in S!Client \union {Nobody} /\ Nobody \notin S!Client
      /\ x6 \in Tasks /\ (c \in Control => c \notin Dispatches)
  BY Parts, SessionAssumption DEF S!SessionInv, S!StatesOK
<1>2. ASSUME c \in Dispatches
      PROVE  /\ S!PlanSound(c) /\ S!LoadSound(c) /\ c \notin Control
             /\ x5[c].at <= Len(x6[c].chain)
  BY <1>2, SessionAssumption DEF S!SessionInv, S!StatesOK
<1>3. ASSUME c \in Dispatches
      PROVE  /\ x6[c].chain \in Seq({"chat", "cli"}) /\ x6[c].inSession \in BOOLEAN
             /\ Len(x6[c].chain) \in Nat
  <2>1. x6[c] \in [chain : Seq({"chat", "cli"}), inSession : BOOLEAN]
    BY <1>1, <1>3, SessionAssumption
  <2> QED BY <2>1
<1> QED BY <1>1, <1>2, <1>3

\* A client that goes to its end.
LEMMA GoesToEnd ==
    ASSUME S!SessionInv, NEW c \in S!Client, S!Goto(c, "done"), x5[c].phase # "done",
           UNCHANGED <<S!files, x6, x7>>
    PROVE  S!SessionInv'
<1>f. PICK f \in S!ClientState : f = x5[c]
  BY ClientParts
<1>1. PICK s : s = [f EXCEPT !.phase = "done"]
  OBVIOUS
<1>s. s \in S!ClientState /\ s.phase = "done" /\ s.ctx = f.ctx
  BY ONLY <1>f, <1>1, ZenonT(60) DEF S!ClientState
<1>2. s \in S!ClientState /\ s.phase = "done" /\ s.ctx = x5[c].ctx /\ S!Becomes(c, s)
  BY <1>f, <1>1, <1>s DEF S!Goto
<1>3. Ends(s)
  BY <1>2 DEF Ends
<1> QED BY <1>2, <1>3, QuietBecomes

\* A client takes the session lease, which nobody held.
LEMMA AcquireLeaseKeeps ==
    ASSUME S!SessionInv, NEW c \in S!Client, S!AcquireLease(c)
    PROVE  S!SessionInv'
<1>1. UNCHANGED <<S!files, x6, x7>> /\ x4' = c /\ x4 = Nobody
  BY DEF S!AcquireLease
<1>2. \A e \in S!Client \ {c} : x4' = e <=> x4 = e
  BY <1>1, ClientParts
<1>3. x6' = x6 /\ x5 \in [S!Client -> S!ClientState]
  BY <1>1, Parts
<1>4. CASE c \in Dispatches /\ x5[c].phase = "new" /\ x6[c].inSession
           /\ x5' = [x5 EXCEPT ![c].phase = "look"]
  <2>0. PICK f \in S!ClientState : f = x5[c]
    BY ClientParts
  <2>1. PICK s : s = [f EXCEPT !.phase = "look"]
    OBVIOUS
  <2>2. /\ s \in S!ClientState /\ s.phase = "look" /\ s.ctx = f.ctx /\ s.gone = f.gone
        /\ s.prep = f.prep /\ s.at = f.at /\ s.calls = f.calls /\ s.records = f.records
    BY ONLY <2>0, <2>1, ZenonT(60) DEF S!ClientState
  <2>3. x5' = [x5 EXCEPT ![c] = s] /\ x5'[c] = s
    BY <1>3, <1>4, <2>0, <2>1
  <2>4. S!LeaseSound(c)'
    BY <1>1, <1>3, <1>4, <2>0, <2>2, <2>3, ClientParts DEF S!LeaseSound
  <2>5. S!PlanSound(c)' /\ S!LoadSound(c)'
    BY <1>1, <1>4, <2>0, <2>2, <2>3, ClientParts
       DEF S!PlanSound, S!LoadSound, S!Consumable, S!Resting, S!LeaseSound
  <2> QED BY <1>1, <1>2, <1>4, <2>0, <2>2, <2>3, <2>4, <2>5, QuietStep, ClientParts
<1>5. CASE c \in Control /\ x5[c].phase \in {"new", "loaded"}
           /\ x5' = [x5 EXCEPT ![c].phase = "write"]
  <2>0. PICK f \in S!ClientState : f = x5[c]
    BY ClientParts
  <2>1. PICK s : s = [f EXCEPT !.phase = "write"]
    OBVIOUS
  <2>2. s \in S!ClientState /\ s.phase = "write" /\ s.ctx = f.ctx /\ s.gone = f.gone
    BY ONLY <2>0, <2>1, ZenonT(60) DEF S!ClientState
  <2>3. x5' = [x5 EXCEPT ![c] = s] /\ x5'[c] = s
    BY <1>3, <1>5, <2>0, <2>1
  <2>4. S!LeaseSound(c)' /\ c \notin Dispatches
    BY <1>1, <1>3, <1>5, <2>0, <2>2, <2>3, ClientParts DEF S!LeaseSound
  <2> QED BY <1>1, <1>2, <1>5, <2>0, <2>2, <2>3, <2>4, QuietStep
<1> QED BY <1>4, <1>5 DEF S!AcquireLease

\* A client that is refused ends: it wrote nothing.
LEMMA RefusedKeeps ==
    ASSUME S!SessionInv, NEW c \in S!Client, S!Refused(c)
    PROVE  S!SessionInv'
BY GoesToEnd DEF S!Refused

\* A load that fails ends the client: it wrote nothing.
LEMMA LoadFailsKeeps ==
    ASSUME S!SessionInv, NEW c \in S!Client, S!LoadFails(c)
    PROVE  S!SessionInv'
BY GoesToEnd DEF S!LoadFails

\* An update that fails leaves both files as they were.
LEMMA WriteFailsKeeps ==
    ASSUME S!SessionInv, NEW c \in S!Client, S!WriteFails(c)
    PROVE  S!SessionInv'
BY GoesToEnd DEF S!WriteFails

\* A control client begins its load without the lease.
LEMMA LoadUnleasedKeeps ==
    ASSUME S!SessionInv, NEW c \in S!Client, S!LoadUnleased(c)
    PROVE  S!SessionInv'
<1>1. UNCHANGED <<S!files, x6, x7>> /\ c \in Control /\ x5[c].phase = "new" /\ S!Goto(c, "look")
  BY DEF S!LoadUnleased
<1>f. PICK f \in S!ClientState : f = x5[c]
  BY ClientParts
<1>2. PICK s : s = [f EXCEPT !.phase = "look"]
  OBVIOUS
<1>s. s \in S!ClientState /\ s.phase = "look" /\ s.ctx = f.ctx /\ s.gone = f.gone
  BY ONLY <1>f, <1>2, ZenonT(60) DEF S!ClientState
<1>3. /\ s.ctx = x5[c].ctx /\ s.gone = x5[c].gone /\ S!Becomes(c, s) /\ c \notin Dispatches
  BY <1>1, <1>f, <1>2, <1>s, ClientParts DEF S!Goto
<1>4. ASSUME x5'[c] = s, x4' = x4 PROVE S!LeaseSound(c)'
  BY <1>1, <1>s, <1>3, <1>4, ClientParts DEF S!LeaseSound
<1> QED BY <1>1, <1>s, <1>3, <1>4, QuietBecomes

\* A load that goes on to the next file.
LEMMA LooksOn ==
    ASSUME S!SessionInv, NEW c \in S!Client, NEW p \in {"flat", "migrate"}, S!Goto(c, p),
           UNCHANGED <<S!files, x6, x7>>,
           \/ x5[c].phase = "look" /\ p = "flat" /\ x1 = NoFile
           \/ x5[c].phase = "flat" /\ p = "migrate"
    PROVE  S!SessionInv'
<1>1. PICK s : s = [x5[c] EXCEPT !.phase = p]
  OBVIOUS
<1>2. /\ s \in S!ClientState /\ s.phase = p /\ s.ctx = x5[c].ctx /\ s.gone = x5[c].gone
      /\ s.prep = x5[c].prep /\ s.at = x5[c].at /\ s.calls = x5[c].calls
      /\ s.records = x5[c].records /\ S!Becomes(c, s)
  <2>1. x5[c] \in S!ClientState
    BY ClientParts
  <2>2. S!Becomes(c, s)
    BY <1>1 DEF S!Goto
  <2>3. PICK f \in S!ClientState : f = x5[c]
    BY <2>1
  <2>4. s = [f EXCEPT !.phase = p]
    BY <1>1, <2>3
  <2>5. /\ s \in S!ClientState /\ s.phase = p /\ s.ctx = f.ctx /\ s.gone = f.gone
        /\ s.prep = f.prep /\ s.at = f.at /\ s.calls = f.calls /\ s.records = f.records
    BY ONLY <2>3, <2>4, p \in {"flat", "migrate"}, ZenonT(60) DEF S!ClientState
  <2> QED BY <2>2, <2>3, <2>5
<1>3. x6' = x6 /\ x1' = x1 /\ x2' = x2
  BY DEF S!files
<1>4. ASSUME x5'[c] = s, x4' = x4 PROVE S!LeaseSound(c)'
  BY <1>2, <1>3, <1>4, ClientParts DEF S!LeaseSound
<1>5. ASSUME x5'[c] = s, x4' = x4, c \in Dispatches PROVE S!PlanSound(c)' /\ S!LoadSound(c)'
  BY <1>2, <1>3, <1>5, ClientParts DEF S!PlanSound, S!LoadSound, S!Consumable, S!Resting
<1> QED BY <1>2, <1>4, <1>5, QuietBecomes, ClientParts

\* A load that ends with what the session is, or missed a migration.
LEMMA LoadsSession ==
    ASSUME S!SessionInv, NEW c \in S!Client, NEW e \in {S!Session, S!Empty}, S!Loaded(c, e),
           UNCHANGED <<S!files, x6, x7>>, x5[c].phase \in {"look", "flat", "migrate"},
           e = S!Session \/ (x1 # NoFile /\ x1.rev = 0) \/ x4 # c,
           x1 = NoFile => x2 = NoFile
    PROVE  S!SessionInv'
<1>1. PICK s : s = [x5[c] EXCEPT !.phase = "loaded", !.ctx = e]
  OBVIOUS
<1>2. /\ s \in S!ClientState /\ s.phase = "loaded" /\ s.ctx = e /\ s.gone = x5[c].gone
      /\ s.prep = x5[c].prep /\ s.at = x5[c].at /\ s.calls = x5[c].calls
      /\ s.records = x5[c].records /\ S!Becomes(c, s)
  <2>1. e \in S!Envelope /\ x5[c] \in S!ClientState
    BY Parts, ClientParts, StartAndEnd
  <2>2. S!Becomes(c, s)
    BY <1>1 DEF S!Loaded
  <2>3. PICK f \in S!ClientState : f = x5[c]
    BY <2>1
  <2>4. s = [f EXCEPT !.phase = "loaded", !.ctx = e]
    BY <1>1, <2>3
  <2>5. /\ s \in S!ClientState /\ s.phase = "loaded" /\ s.ctx = e /\ s.gone = f.gone
        /\ s.prep = f.prep /\ s.at = f.at /\ s.calls = f.calls /\ s.records = f.records
    BY ONLY <2>1, <2>3, <2>4, ZenonT(60) DEF S!ClientState
  <2> QED BY <2>2, <2>3, <2>5
<1>3. x6' = x6 /\ x1' = x1 /\ x2' = x2 /\ S!Session' = S!Session
  BY DEF S!files, S!Session
<1>4. ASSUME x5'[c] = s, x4' = x4, ~Ends(s) PROVE S!LeaseSound(c)'
  BY <1>2, <1>3, <1>4, ClientParts DEF S!LeaseSound, Ends
<1>5. ASSUME x5'[c] = s, x4' = x4, c \in Dispatches PROVE S!PlanSound(c)' /\ S!LoadSound(c)'
  <2>1. S!PlanSound(c)'
    BY <1>2, <1>3, <1>5, ClientParts DEF S!PlanSound, S!Consumable
  <2>2. S!LoadSound(c)'
    BY <1>2, <1>3, <1>5, ClientParts DEF S!LoadSound, S!Resting, S!Overtaken
  <2> QED BY <2>1, <2>2
<1> QED BY <1>2, <1>4, <1>5, QuietBecomes, ClientParts

\* A load that finds the envelope takes it as its context.
LEMMA ReadEnvelopeKeeps ==
    ASSUME S!SessionInv, NEW c \in S!Client, S!ReadEnvelope(c)
    PROVE  S!SessionInv'
<1>1. UNCHANGED <<S!files, x6, x7>> /\ x5[c].phase = "look"
  BY DEF S!ReadEnvelope
<1>2. CASE x1 = NoFile
  <2>1. S!Goto(c, "flat")
    BY <1>2 DEF S!ReadEnvelope
  <2> QED BY <1>1, <1>2, <2>1, LooksOn
<1>3. CASE x1 # NoFile
  BY <1>1, <1>3, LoadsSession DEF S!ReadEnvelope, S!Session
<1> QED BY <1>2, <1>3

\* A load that finds only the flat file goes on to migrate it.
LEMMA ReadFlatKeeps ==
    ASSUME S!SessionInv, NEW c \in S!Client, S!ReadFlat(c)
    PROVE  S!SessionInv'
<1>1. UNCHANGED <<S!files, x6, x7>> /\ x5[c].phase = "flat"
  BY DEF S!ReadFlat
<1>2. CASE x2 = NoFile
  <2>1. S!Loaded(c, S!Empty)
    BY <1>2 DEF S!ReadFlat
  <2>2. ASSUME x4 = c, S!Empty # S!Session PROVE x1 # NoFile /\ x1.rev = 0
    <3>1. c \in Dispatches
      BY <1>1, <2>2, ClientParts DEF S!LeaseSound, S!Client
    <3> QED BY <1>1, <2>2, <3>1, ClientParts DEF S!LoadSound, S!Session
  <2> QED BY <1>1, <1>2, <2>1, <2>2, LoadsSession
<1>3. CASE x2 # NoFile
  BY <1>1, <1>3, LooksOn DEF S!ReadFlat
<1> QED BY <1>2, <1>3

\* A dispatch that goes on with its plan: s differs from its state only in
\* what the plan is about.
LEMMA PlanGoesOn ==
    ASSUME S!SessionInv, NEW d \in Dispatches, NEW s \in S!ClientState, S!Becomes(d, s),
           UNCHANGED <<S!files, x6, x7>>,
           x5[d].phase \in {"new", "loaded", "attempt", "call", "record", "probe"},
           s.phase \in {"new", "attempt", "call", "record", "write", "probe", "done"},
           s.ctx = x5[d].ctx, s.gone = x5[d].gone, s.at <= Len(x6[d].chain),
           s.calls <= s.at, s.phase = "attempt" => s.calls < s.at,
           s.phase \notin {"write", "done"} => s.records = 0,
           s.phase \in {"new", "probe"} =>
              /\ ~x6[d].inSession /\ s.prep # "consumed"
              /\ s.prep \in {"fresh", "fallback"} \/ s.phase = "probe" => s.calls = 0,
           s.phase = "write" => x6[d].inSession,
           x6[d].inSession => s.prep \in {"fresh", "consumed"} /\ x5[d].phase # "new",
           x6[d].inSession /\ s.phase \in {"attempt", "call"}
              /\ "cli" \in S!Range(x6[d].chain) => x5[d].ctx.native = "absent"
    PROVE  S!SessionInv'
<1>1. d \in S!Client
  BY DEF S!Client
<1>2. x6' = x6 /\ x1' = x1 /\ x2' = x2 /\ S!Session' = S!Session
  BY DEF S!files, S!Session
<1>3. ASSUME x5'[d] = s, x4' = x4, ~Ends(s) PROVE S!LeaseSound(d)'
  BY <1>1, <1>2, <1>3, ClientParts DEF S!LeaseSound, Ends
<1>4. ASSUME x5'[d] = s, ~Ends(s) PROVE S!PlanSound(d)'
  BY <1>1, <1>2, <1>4, ClientParts DEF S!PlanSound, S!Consumable, Ends
<1>5. ASSUME x5'[d] = s, x4' = x4 PROVE S!LoadSound(d)'
  <2>1. SUFFICES ASSUME x4 = d
                 PROVE  S!LoadSound(d)'
    BY <1>5 DEF S!LoadSound, S!Resting
  <2>2. x6[d].inSession /\ S!Resting(d)
    BY <1>1, <2>1, ClientParts DEF S!LeaseSound, S!Resting
  <2>3. S!LoadSound(d)
    BY <1>1, ClientParts
  <2> QED BY <1>2, <1>5, <2>1, <2>2, <2>3 DEF S!LoadSound, S!Resting, S!Overtaken
<1> QED BY <1>1, <1>3, <1>4, <1>5, QuietBecomes, ClientParts

\* A dispatch consumes its plan and turns to the first target.
LEMMA ConsumeKeeps ==
    ASSUME S!SessionInv, NEW d \in Dispatches, S!Consume(d)
    PROVE  S!SessionInv'
<1>1. /\ UNCHANGED <<S!files, x6, x7>> /\ S!Admissible(d)
      /\ x5[d].phase = IF x6[d].inSession THEN "loaded" ELSE "new"
  BY DEF S!Consume
<1>2. PICK f \in S!ClientState : f = x5[d]
  BY ClientParts DEF S!Client
<1>3. PICK s : s = [f EXCEPT !.phase = "attempt", !.prep = "consumed"]
  OBVIOUS
<1>4. /\ s \in S!ClientState /\ s.phase = "attempt" /\ s.ctx = f.ctx /\ s.gone = f.gone
      /\ s.prep = "consumed" /\ s.at = f.at /\ s.calls = f.calls /\ s.records = f.records
      /\ s.at \in Nat \ {0} /\ s.calls \in Nat
  BY ONLY <1>2, <1>3, ZenonT(60) DEF S!ClientState
<1>5. S!Becomes(d, s)
  BY <1>2, <1>3 DEF S!Consume
<1>6. s.calls = 0 /\ s.records = 0 /\ s.at <= Len(x6[d].chain)
  BY <1>1, <1>2, <1>4, ClientParts DEF S!PlanSound, S!Consumable, S!Admissible, S!Client
<1> QED BY <1>1, <1>2, <1>4, <1>5, <1>6, PlanGoesOn DEF S!Admissible

\* The chain ended with r.
LEMMA ResultKeeps ==
    ASSUME S!SessionInv, NEW d \in Dispatches, UNCHANGED <<S!files, x6, x7>>,
           NEW r \in {"none", "chat", "cli", "error", "cancelled"}, S!Result(d, r),
           x5[d].phase \in {"attempt", "call"}
    PROVE  S!SessionInv'
<1>1. PICK f \in S!ClientState : f = x5[d]
  BY ClientParts DEF S!Client
<1>2. PICK s : s = [f EXCEPT !.phase = "record", !.result = r]
  OBVIOUS
<1>3. /\ s \in S!ClientState /\ s.phase = "record" /\ s.ctx = f.ctx /\ s.gone = f.gone
      /\ s.prep = f.prep /\ s.at = f.at /\ s.calls = f.calls /\ s.records = f.records
  BY <1>1, <1>2 DEF S!ClientState
<1>4. S!Becomes(d, s)
  BY <1>1, <1>2 DEF S!Result
<1>5. /\ s.calls <= s.at /\ s.records = 0 /\ s.at <= Len(x6[d].chain)
      /\ x6[d].inSession => s.prep \in {"fresh", "consumed"}
  BY <1>1, <1>3, ClientParts DEF S!PlanSound, S!LeaseSound, S!Client
<1> QED BY <1>1, <1>3, <1>4, <1>5, PlanGoesOn

\* A target is called: one more than before.
LEMMA TargetCallKeeps ==
    ASSUME S!SessionInv, NEW d \in Dispatches, UNCHANGED <<S!files, x6, x7>>, S!Call(d),
           x5[d].phase \in {"attempt", "probe"}
    PROVE  S!SessionInv'
<1>1. PICK f \in S!ClientState : f = x5[d]
  BY ClientParts DEF S!Client
<1>n. PICK n \in Nat : n = f.calls + 1
  BY <1>1 DEF S!ClientState
<1>2. PICK s : s = [f EXCEPT !.phase = "call", !.calls = n]
  OBVIOUS
<1>3. /\ s \in S!ClientState /\ s.phase = "call" /\ s.ctx = f.ctx /\ s.gone = f.gone
      /\ s.prep = f.prep /\ s.at = f.at /\ s.calls = n /\ s.records = f.records
      /\ f.calls \in Nat /\ f.at \in Nat \ {0}
  BY ONLY <1>1, <1>n, <1>2, ZenonT(60) DEF S!ClientState
<1>4. S!Becomes(d, s)
  BY <1>1, <1>n, <1>2 DEF S!Call
<1>5. /\ s.calls <= s.at /\ s.records = 0 /\ s.at <= Len(x6[d].chain)
      /\ x6[d].inSession => s.prep \in {"fresh", "consumed"} /\ x5[d].phase = "attempt"
  BY <1>1, <1>n, <1>3, ClientParts DEF S!PlanSound, S!LeaseSound, S!Client
<1>6. ASSUME x6[d].inSession, "cli" \in S!Range(x6[d].chain) PROVE x5[d].ctx.native = "absent"
  <2>1. x4 = d /\ x5[d].phase = "attempt"
    BY <1>5, <1>6, ClientParts DEF S!LeaseSound, S!Client
  <2> QED BY <1>6, <2>1, ClientParts DEF S!LoadSound, S!Resting, S!Client
<1> QED BY <1>1, <1>3, <1>4, <1>5, <1>6, PlanGoesOn

\* A target failed: the chain goes on, or its error is the result.
LEMMA AfterErrorKeeps ==
    ASSUME S!SessionInv, NEW d \in Dispatches, UNCHANGED <<S!files, x6, x7>>, S!AfterError(d),
           x5[d].phase \in {"attempt", "call"}
    PROVE  S!SessionInv'
<1>1. CASE S!Result(d, "error")
  BY <1>1, ResultKeeps
<1>2. CASE /\ x5[d].at < Len(x6[d].chain)
           /\ S!Becomes(d, [x5[d] EXCEPT !.phase = "attempt", !.at = @ + 1])
  <2>1. PICK f \in S!ClientState : f = x5[d]
    BY ClientParts DEF S!Client
  <2>n. PICK n \in Nat \ {0} : n = f.at + 1
    BY <2>1 DEF S!ClientState
  <2>2. PICK s : s = [f EXCEPT !.phase = "attempt", !.at = n]
    OBVIOUS
  <2>3. /\ s \in S!ClientState /\ s.phase = "attempt" /\ s.ctx = f.ctx /\ s.gone = f.gone
        /\ s.prep = f.prep /\ s.at = n /\ s.calls = f.calls /\ s.records = f.records
        /\ f.calls \in Nat /\ f.at \in Nat \ {0}
    BY ONLY <2>1, <2>n, <2>2, ZenonT(60) DEF S!ClientState
  <2>4. S!Becomes(d, s)
    BY <1>2, <2>1, <2>n, <2>2
  <2>5. /\ s.calls < s.at /\ s.records = 0 /\ s.at <= Len(x6[d].chain)
        /\ x6[d].inSession => s.prep \in {"fresh", "consumed"}
    BY <1>2, <2>1, <2>n, <2>3, ClientParts DEF S!PlanSound, S!LeaseSound, S!Client
  <2>6. ASSUME x6[d].inSession, "cli" \in S!Range(x6[d].chain) PROVE x5[d].ctx.native = "absent"
    <3>1. x4 = d
      BY <2>6, ClientParts DEF S!LeaseSound, S!Client
    <3> QED BY <2>6, <3>1, ClientParts DEF S!LoadSound, S!Resting, S!Client
  <2> QED BY <2>1, <2>3, <2>4, <2>5, <2>6, PlanGoesOn
<1> QED BY <1>1, <1>2 DEF S!AfterError

\* An attempt: a call, or no call because of a token or an error.
LEMMA AttemptKeeps ==
    ASSUME S!SessionInv, NEW d \in Dispatches, S!Attempt(d)
    PROVE  S!SessionInv'
<1>1. UNCHANGED <<S!files, x6, x7>> /\ x5[d].phase = "attempt"
  BY DEF S!Attempt
<1>2. CASE S!Result(d, "cancelled")
  BY <1>1, <1>2, ResultKeeps
<1>3. CASE S!Call(d)
  BY <1>1, <1>3, TargetCallKeeps
<1>4. CASE S!AfterError(d)
  BY <1>1, <1>4, AfterErrorKeeps
<1> QED BY <1>2, <1>3, <1>4 DEF S!Attempt

\* The call returns: a result to record, or the next target.
LEMMA CallReturnsKeeps ==
    ASSUME S!SessionInv, NEW d \in Dispatches, S!CallReturns(d)
    PROVE  S!SessionInv'
<1>1. UNCHANGED <<S!files, x6, x7>> /\ x5[d].phase = "call"
  BY DEF S!CallReturns
<1>2. CASE S!Result(d, "cancelled")
  BY <1>1, <1>2, ResultKeeps
<1>3. CASE S!Result(d, x6[d].chain[x5[d].at])
  <2>1. PICK r : r = x6[d].chain[x5[d].at]
    OBVIOUS
  <2>2. r \in {"chat", "cli"}
    <3>1. /\ x6[d].chain \in Seq({"chat", "cli"}) /\ Len(x6[d].chain) \in Nat
          /\ x5[d].at \in Nat \ {0} /\ x5[d].at <= Len(x6[d].chain)
      BY ClientParts DEF S!ClientState, S!Client
    <3> QED BY <2>1, <3>1
  <2> QED BY <1>1, <1>3, <2>1, <2>2, ResultKeeps
<1>4. CASE S!AfterError(d)
  BY <1>1, <1>4, AfterErrorKeeps
<1> QED BY <1>2, <1>3, <1>4 DEF S!CallReturns

\* The run record of an attempt is written.
LEMMA RecordKeeps ==
    ASSUME S!SessionInv, NEW d \in Dispatches, S!Record(d)
    PROVE  S!SessionInv'
<1>1. UNCHANGED <<S!files, x6, x7>> /\ x5[d].phase = "record"
  BY DEF S!Record
<1>2. PICK f \in S!ClientState : f = x5[d]
  BY ClientParts DEF S!Client
<1>3. PICK n \in Nat : n = f.records + 1
  BY <1>2 DEF S!ClientState
<1>4. PICK p \in {"write", "done"} : p = IF x6[d].inSession THEN "write" ELSE "done"
  OBVIOUS
<1>5. PICK s : s = [f EXCEPT !.phase = p, !.prep = "consumed", !.records = n]
  OBVIOUS
<1>6. /\ s \in S!ClientState /\ s.phase = p /\ s.ctx = f.ctx /\ s.gone = f.gone
      /\ s.prep = "consumed" /\ s.at = f.at /\ s.calls = f.calls
  BY ONLY <1>2, <1>3, <1>4, <1>5, ZenonT(60) DEF S!ClientState
<1>7. S!Becomes(d, s)
  BY <1>2, <1>3, <1>4, <1>5 DEF S!Record
<1>8. s.calls <= s.at /\ s.at <= Len(x6[d].chain) /\ (p = "write" => x6[d].inSession)
  BY <1>2, <1>4, <1>6, ClientParts DEF S!PlanSound, S!Client
<1> QED BY <1>1, <1>2, <1>4, <1>6, <1>7, <1>8, PlanGoesOn

\* A plan of one target without a session is lent to a stream.
LEMMA BeginProbeKeeps ==
    ASSUME S!SessionInv, NEW d \in Dispatches, S!BeginProbe(d)
    PROVE  S!SessionInv'
<1>1. /\ UNCHANGED <<S!files, x6, x7>> /\ x5[d].phase = "new" /\ x5[d].prep = "fresh"
      /\ ~x6[d].inSession
  BY DEF S!BeginProbe
<1>2. PICK f \in S!ClientState : f = x5[d]
  BY ClientParts DEF S!Client
<1>3. PICK p \in {"record", "probe"} : p = IF f.cancelled THEN "record" ELSE "probe"
  OBVIOUS
<1>4. PICK r \in {"none", "chat", "cli", "error", "cancelled"} :
           r = IF f.cancelled THEN "cancelled" ELSE f.result
  BY <1>2 DEF S!ClientState
<1>5. PICK s : s = [f EXCEPT !.prep = "probing", !.phase = p, !.result = r]
  OBVIOUS
<1>6. /\ s \in S!ClientState /\ s.phase = p /\ s.ctx = f.ctx /\ s.gone = f.gone
      /\ s.prep = "probing" /\ s.at = f.at /\ s.calls = f.calls /\ s.records = f.records
  BY ONLY <1>2, <1>3, <1>4, <1>5, ZenonT(60) DEF S!ClientState
<1>7. S!Becomes(d, s)
  BY <1>2, <1>3, <1>4, <1>5 DEF S!BeginProbe
<1>8. s.calls = 0 /\ s.calls <= s.at /\ s.at <= Len(x6[d].chain) /\ s.records = 0
  BY <1>1, <1>2, <1>6, ClientParts DEF S!PlanSound, S!Consumable, S!Client
<1> QED BY <1>1, <1>2, <1>3, <1>6, <1>7, <1>8, PlanGoesOn

\* The executor streams, declines, or cannot be built.
LEMMA ProbeKeeps ==
    ASSUME S!SessionInv, NEW d \in Dispatches, S!Probe(d)
    PROVE  S!SessionInv'
<1>1. UNCHANGED <<S!files, x6, x7>> /\ x5[d].phase = "probe" /\ d \in S!Client
  BY DEF S!Probe, S!Client
<1>2. CASE S!Call(d)
  BY <1>1, <1>2, TargetCallKeeps
<1>3. CASE S!Goto(d, "done")
  BY <1>1, <1>3, GoesToEnd
<1>4. CASE S!Becomes(d, [x5[d] EXCEPT !.phase = "new", !.prep = "fallback"])
  <2>1. PICK f \in S!ClientState : f = x5[d]
    BY <1>1, ClientParts
  <2>2. PICK s : s = [f EXCEPT !.phase = "new", !.prep = "fallback"]
    OBVIOUS
  <2>3. /\ s \in S!ClientState /\ s.phase = "new" /\ s.ctx = f.ctx /\ s.gone = f.gone
        /\ s.prep = "fallback" /\ s.at = f.at /\ s.calls = f.calls /\ s.records = f.records
    BY ONLY <2>1, <2>2, ZenonT(60) DEF S!ClientState
  <2>4. S!Becomes(d, s)
    BY <1>4, <2>1, <2>2
  <2>5. /\ s.calls = 0 /\ s.calls <= s.at /\ s.at <= Len(x6[d].chain) /\ s.records = 0
        /\ ~x6[d].inSession
    BY <1>1, <2>1, <2>3, ClientParts DEF S!PlanSound, S!LeaseSound
  <2> QED BY <1>1, <2>1, <2>3, <2>4, <2>5, PlanGoesOn
<1> QED BY <1>2, <1>3, <1>4 DEF S!Probe

\* A dispatch is cancelled between two of its steps.
LEMMA CancelKeeps ==
    ASSUME S!SessionInv, NEW d \in Dispatches, S!Cancel(d)
    PROVE  S!SessionInv'
<1>1. /\ UNCHANGED <<S!files, x6, x7>> /\ x4' = x4 /\ x5[d].phase # "done"
      /\ x5' = [x5 EXCEPT ![d].cancelled = TRUE] /\ d \in S!Client
  BY DEF S!Cancel, S!Client
<1>2. x6' = x6 /\ x1' = x1 /\ x2' = x2 /\ S!Session' = S!Session
  BY <1>1 DEF S!files, S!Session
<1>3. PICK f \in S!ClientState : f = x5[d]
  BY <1>1, ClientParts
<1>4. PICK s : s = [f EXCEPT !.cancelled = TRUE]
  OBVIOUS
<1>5. /\ s \in S!ClientState /\ s.phase = f.phase /\ s.ctx = f.ctx /\ s.gone = f.gone
      /\ s.prep = f.prep /\ s.at = f.at /\ s.calls = f.calls /\ s.records = f.records
  BY ONLY <1>3, <1>4, ZenonT(60) DEF S!ClientState
<1>6. x5' = [x5 EXCEPT ![d] = s]
  BY <1>1, <1>3, <1>4
<1>7. x5'[d] = s
  BY <1>1, <1>6, Parts
<1>8. S!LeaseSound(d)' /\ S!PlanSound(d)' /\ S!LoadSound(d)'
  <2>1. S!LeaseSound(d)'
    BY <1>1, <1>2, <1>3, <1>5, <1>7, ClientParts DEF S!LeaseSound
  <2>2. S!PlanSound(d)'
    BY <1>1, <1>2, <1>3, <1>5, <1>7, ClientParts DEF S!PlanSound, S!Consumable
  <2>3. S!LoadSound(d)'
    BY <1>1, <1>2, <1>3, <1>5, <1>7, ClientParts DEF S!LoadSound, S!Resting, S!Overtaken
  <2> QED BY <2>1, <2>2, <2>3
<1> QED BY <1>1, <1>3, <1>5, <1>6, <1>8, QuietStep, ClientParts

\* A client is dropped; its work in the pool goes on under the lease.
LEMMA AbandonKeeps ==
    ASSUME S!SessionInv, NEW c \in S!Client, S!Abandon(c)
    PROVE  S!SessionInv'
<1>1. UNCHANGED <<S!files, x6, x7>> /\ x5[c].phase \notin {"new", "done"} /\ ~x5[c].gone
  BY DEF S!Abandon
<1>2. x6' = x6 /\ x1' = x1 /\ x2' = x2 /\ S!Session' = S!Session
  BY <1>1 DEF S!files, S!Session
<1>3. PICK f \in S!ClientState : f = x5[c]
  BY <1>1, ClientParts
<1>4. CASE S!InPool(c)
  <2>1. PICK s : s = [f EXCEPT !.gone = TRUE]
    OBVIOUS
  <2>2. /\ s \in S!ClientState /\ s.phase = f.phase /\ s.ctx = f.ctx /\ s.gone
        /\ s.prep = f.prep /\ s.at = f.at /\ s.calls = f.calls /\ s.records = f.records
    BY ONLY <1>3, <2>1, ZenonT(60) DEF S!ClientState
  <2>3. x5' = [x5 EXCEPT ![c].gone = TRUE] /\ x4' = x4
    BY <1>4 DEF S!Abandon
  <2>4. x5' = [x5 EXCEPT ![c] = s]
    BY <1>3, <2>1, <2>3
  <2>5. x5'[c] = s
    BY <2>4, Parts
  <2>6. S!LeaseSound(c)'
    BY <1>2, <1>3, <1>4, <2>2, <2>3, <2>5, ClientParts DEF S!LeaseSound, S!InPool
  <2>7. ASSUME c \in Dispatches PROVE S!PlanSound(c)' /\ S!LoadSound(c)'
    <3>1. S!PlanSound(c)'
      BY <1>2, <1>3, <2>2, <2>5, <2>7, ClientParts DEF S!PlanSound, S!Consumable
    <3>2. S!LoadSound(c)'
      BY <1>2, <1>3, <2>2, <2>3, <2>5, <2>7, ClientParts DEF S!LoadSound, S!Resting, S!Overtaken
    <3> QED BY <3>1, <3>2
  <2> QED BY <1>1, <1>3, <2>2, <2>3, <2>4, <2>6, <2>7, QuietStep, ClientParts
<1>5. CASE ~S!InPool(c) /\ x5[c].prep = "probing"
  <2>1. PICK s : s = [f EXCEPT !.phase = "new"]
    OBVIOUS
  <2>2. /\ s \in S!ClientState /\ s.phase = "new" /\ s.ctx = f.ctx /\ s.gone = f.gone
        /\ s.prep = f.prep /\ s.at = f.at /\ s.calls = f.calls /\ s.records = f.records
    BY ONLY <1>3, <2>1, ZenonT(60) DEF S!ClientState
  <2>3. S!Becomes(c, s)
    BY <1>1, <1>3, <1>5, <2>1 DEF S!Abandon
  <2>4. CASE c \in Control
    <3>1. ASSUME x5'[c] = s, x4' = x4 PROVE S!LeaseSound(c)'
      BY <1>1, <1>2, <1>3, <1>5, <2>2, <2>4, <3>1, ClientParts DEF S!LeaseSound, S!InPool
    <3> QED BY <1>1, <1>3, <2>2, <2>3, <2>4, <3>1, QuietBecomes, ClientParts
  <2>5. CASE c \in Dispatches
    <3>1. /\ ~x6[c].inSession /\ s.at <= Len(x6[c].chain) /\ s.calls <= s.at
          /\ s.records = 0 /\ x5[c].phase \in {"attempt", "call", "record", "probe"}
      BY <1>1, <1>3, <1>5, <2>2, <2>5, ClientParts DEF S!LeaseSound, S!PlanSound, S!InPool
    <3> QED BY <1>1, <1>3, <1>5, <2>2, <2>3, <2>5, <3>1, PlanGoesOn
  <2> QED BY <2>4, <2>5 DEF S!Client
<1>6. CASE ~S!InPool(c) /\ x5[c].prep # "probing"
  <2>1. S!Goto(c, "done")
    BY <1>6 DEF S!Abandon, S!Goto
  <2> QED BY <1>1, <2>1, GoesToEnd
<1> QED BY <1>4, <1>5, <1>6

\* The turns of the first layout are nobody's.
LEMMA MigratedSound ==
    ASSUME S!SessionInv, S!Blocked
    PROVE  /\ S!Migrated \in S!Envelope /\ S!Migrated.rev = 0 /\ S!Migrated # NoFile
           /\ S!Migrated.turns = <<>> \/ "old" \in S!By(S!Migrated.turns)
           /\ S!TurnsSound(S!Migrated.turns) /\ x7 = {} /\ x2 \in S!FlatRecord
           /\ \A d \in Dispatches : ~S!Resting(d)
<1>1. x2 \in S!FlatRecord
  BY DEF S!SessionInv, S!FilesOK, S!Blocked
<1>2. PICK f \in S!FlatRecord : f = x2
  BY <1>1
<1>3. PICK t : t = [by |-> "old", on |-> 0]
  OBVIOUS
<1>4. t \in S!Turn /\ t.by = "old"
  BY <1>3 DEF S!Turn
<1>5. /\ <<>> \in Seq(S!Turn) /\ <<t>> \in Seq(S!Turn) /\ S!By(<<t>>) = {"old"}
      /\ DOMAIN <<t>> = {1} /\ <<t>>[1] = t
  BY <1>4 DEF S!By
<1>6. f.turns \in {<<>>, <<t>>} /\ f.native \in S!Native
  BY <1>3 DEF S!FlatRecord
<1>7. PICK m : m = [rev |-> 0, native |-> f.native, turns |-> f.turns]
  OBVIOUS
<1>8. m \in S!Envelope /\ m.rev = 0 /\ m.turns = f.turns
  BY <1>5, <1>6, <1>7 DEF S!Envelope
<1>9. S!Migrated = m
  BY <1>2, <1>7 DEF S!Migrated
<1>10. S!TurnsSound(<<t>>)
  BY <1>4, <1>5, SessionAssumption DEF S!TurnsSound, S!Linear, S!Client
<1>11. x7 = {}
  BY DEF S!SessionInv, S!FilesOK, S!SavedStays, S!Blocked
<1>12. \A d \in Dispatches : ~S!Resting(d)
  BY DEF S!SessionInv, S!LoadSound, S!Blocked
<1> QED BY <1>1, <1>5, <1>6, <1>8, <1>9, <1>10, <1>11, <1>12, NoTurns, SessionAssumption

\* Under the store lock the flat file becomes the envelope.
LEMMA MigrationStep ==
    ASSUME S!SessionInv, S!Blocked, NEW c \in S!Client, NEW s \in S!ClientState, NEW m, m = S!Migrated,
           x5[c].phase = "migrate", x1' = m, UNCHANGED <<x6, x7>>,
           x3' \in [v2 : {{m}, x3.v2 \union {m}}, flat : SUBSET (x3.flat \union {NoFile})],
           x2' \in x3'.flat,
           x5' = [x5 EXCEPT ![c] = s], x4' \in S!Client \union {Nobody},
           \A e \in S!Client \ {c} : x4' = e <=> x4 = e,
           S!LeaseSound(c)', c \in Dispatches => S!PlanSound(c)' /\ s.at <= Len(x6[c].chain),
           \/ s.phase = "done" /\ s.ctx = S!Empty
           \/ s.phase = "loaded" /\ s.ctx = m
    PROVE  S!SessionInv'
<1>1. /\ m \in S!Envelope /\ m.rev = 0 /\ m # NoFile
      /\ m.turns = <<>> \/ "old" \in S!By(m.turns)
      /\ S!TurnsSound(m.turns) /\ x7 = {}
      /\ \A d \in Dispatches : ~S!Resting(d)
  BY MigratedSound
<1>2. /\ x5' \in [S!Client -> S!ClientState] /\ x5'[c] = s
      /\ \A e \in S!Client \ {c} : x5'[e] = x5[e]
  BY Parts
<1>3. S!FilesOK'
  <2>1. \A e \in x3'.v2 : e \in x3.v2 \/ e = m
    OBVIOUS
  <2>2. x1' \in x3'.v2
    OBVIOUS
  <2> QED BY <1>1, <2>1, <2>2 DEF S!SessionInv, S!FilesOK
<1>4. S!StatesOK' /\ S!SavedStays'
  BY <1>1, <1>2, Parts DEF S!SessionInv, S!StatesOK, S!SavedStays
<1>5. ASSUME NEW e \in S!Client \ {c} PROVE S!LeaseSound(e)'
  BY <1>2, Parts DEF S!LeaseSound
<1>6. ASSUME NEW e \in Dispatches \ {c} PROVE S!PlanSound(e)' /\ S!LoadSound(e)'
  <2>1. e \in S!Client /\ x5'[e] = x5[e] /\ (x4' = e <=> x4 = e)
    BY <1>2, Parts
  <2>2. S!PlanSound(e) /\ ~S!Resting(e)
    BY <1>1 DEF S!SessionInv
  <2> QED BY <1>1, <2>1, <2>2 DEF S!PlanSound, S!LoadSound, S!Consumable, S!Resting
<1>7. ASSUME c \in Dispatches PROVE S!LoadSound(c)'
  <2>1. S!Session' = m
    BY <1>1 DEF S!Session
  <2> QED BY <1>1, <1>2, <2>1 DEF S!LoadSound, S!Resting
<1>8. ASSUME NEW turns \in S!KnownTurns' PROVE S!TurnsSound(turns)'
  <2>1. \A e \in S!Client : x5[e].phase = "done" => x5'[e].phase = "done"
    BY <1>2
  <2>2. S!TurnsSound(turns)
    <3>1. CASE turns \in {e.turns : e \in x3'.v2 \ {NoFile}}
      BY <1>1, <3>1, Parts
    <3>2. CASE \E e \in S!Client : turns = x5'[e].ctx.turns
      BY <1>1, <1>2, <3>2, Parts, StartAndEnd, NoTurns
    <3> QED BY <1>8, <3>1, <3>2 DEF S!KnownTurns
  <2> QED BY <2>1, <2>2, TurnsKept
<1> QED BY <1>3, <1>4, <1>5, <1>6, <1>7, <1>8 DEF S!SessionInv

\* A client that ends lets go of the lease.
LEMMA EndOfClient ==
    ASSUME S!SessionInv, NEW c \in S!Client, NEW s, S!Becomes(c, s), Ends(s), x6' = x6
    PROVE  /\ x5' = [x5 EXCEPT ![c] = S!Ended] /\ x5'[c] = S!Ended
           /\ x4' = IF x4 = c THEN Nobody ELSE x4
           /\ x4' \in S!Client \union {Nobody} /\ x4' # c
           /\ \A e \in S!Client \ {c} : x4' = e <=> x4 = e
           /\ S!LeaseSound(c)' /\ (c \in Dispatches => S!PlanSound(c)' /\ S!LoadSound(c)')
           /\ c \in Dispatches => S!Ended.at <= Len(x6[c].chain)
<1>1. x5 \in [S!Client -> S!ClientState] /\ x4 \in S!Client \union {Nobody} /\ Nobody \notin S!Client
  BY Parts, SessionAssumption DEF S!SessionInv, S!StatesOK
<1>2. /\ x5' = [x5 EXCEPT ![c] = S!Ended]
      /\ x4' = IF x4 = c THEN Nobody ELSE x4
  BY DEF S!Becomes, Ends
<1>3. /\ x4' \in S!Client \union {Nobody} /\ x4' # c
      /\ \A e \in S!Client \ {c} : x4' = e <=> x4 = e
  BY <1>1, <1>2
<1>4. x5'[c] = S!Ended
  BY <1>1, <1>2
<1>5. S!LeaseSound(c)'
  BY <1>3, <1>4, StartAndEnd DEF S!LeaseSound
<1>6. c \in Dispatches => S!PlanSound(c)' /\ S!LoadSound(c)'
  BY <1>3, <1>4, StartAndEnd DEF S!PlanSound, S!LoadSound, S!Consumable, S!Resting
<1>7. c \in Dispatches => S!Ended.at <= Len(x6[c].chain)
  <2>1. x5[c].at \in Nat \ {0} /\ (c \in Dispatches => x5[c].at <= Len(x6[c].chain)
                                                    /\ Len(x6[c].chain) \in Nat)
    BY ClientParts DEF S!ClientState
  <2> QED BY <2>1, StartAndEnd
<1> QED BY <1>2, <1>3, <1>4, <1>5, <1>6, <1>7

\* The files of a migration, whichever way it came out.
LEMMA MigratesAs ==
    ASSUME S!SessionInv, S!Blocked, NEW c \in S!Client, NEW m, m = S!Migrated,
           x5[c].phase = "migrate", x1' = m, UNCHANGED <<x6, x7>>,
           x3' \in [v2 : {{m}, x3.v2 \union {m}}, flat : SUBSET (x3.flat \union {NoFile})],
           x2' \in x3'.flat,
           S!Loaded(c, m) \/ S!Goto(c, "done")
    PROVE  S!SessionInv'
<1>1. PICK f \in S!ClientState : f = x5[c]
  BY ClientParts
<1>2. m \in S!Envelope
  BY MigratedSound
<1>3. PICK s : S!Becomes(c, s) /\ s \in {[f EXCEPT !.phase = "loaded", !.ctx = m],
                                         [f EXCEPT !.phase = "done"]}
  BY <1>1 DEF S!Loaded, S!Goto
<1>4. /\ s \in S!ClientState /\ s.gone = f.gone /\ s.prep = f.prep /\ s.at = f.at
      /\ s.calls = f.calls /\ s.records = f.records
      /\ s.phase = "done" \/ (s.phase = "loaded" /\ s.ctx = m)
  <2>1. CASE s = [f EXCEPT !.phase = "loaded", !.ctx = m]
    BY ONLY <1>1, <1>2, <2>1, ZenonT(60) DEF S!ClientState
  <2>2. CASE s = [f EXCEPT !.phase = "done"]
    BY ONLY <1>1, <2>2, ZenonT(60) DEF S!ClientState
  <2> QED BY <1>3, <2>1, <2>2
<1>5. CASE Ends(s)
  <2>1. /\ x5' = [x5 EXCEPT ![c] = S!Ended] /\ x4' \in S!Client \union {Nobody}
        /\ \A e \in S!Client \ {c} : x4' = e <=> x4 = e
        /\ S!LeaseSound(c)' /\ (c \in Dispatches => S!PlanSound(c)' /\ S!Ended.at <= Len(x6[c].chain))
    BY <1>3, <1>5, EndOfClient
  <2>2. S!Ended \in S!ClientState /\ S!Ended.phase = "done" /\ S!Ended.ctx = S!Empty
    BY StartAndEnd
  <2> QED BY <2>1, <2>2, MigrationStep
<1>6. CASE ~Ends(s)
  <2>1. x5' = [x5 EXCEPT ![c] = s] /\ x4' = x4 /\ s.phase = "loaded" /\ s.ctx = m
    BY <1>3, <1>4, <1>6 DEF S!Becomes, Ends
  <2>2. x5'[c] = s
    BY <2>1, Parts
  <2>3. S!LeaseSound(c)'
    BY <1>1, <1>4, <1>6, <2>1, <2>2, ClientParts DEF S!LeaseSound, Ends
  <2>4. c \in Dispatches => S!PlanSound(c)' /\ s.at <= Len(x6[c].chain)
    BY <1>1, <1>4, <2>1, <2>2, ClientParts DEF S!PlanSound, S!Consumable
  <2>5. x4' \in S!Client \union {Nobody}
    BY <2>1, ClientParts
  <2> QED BY <1>4, <2>1, <2>3, <2>4, <2>5, MigrationStep
<1> QED BY <1>5, <1>6

\* The flat file becomes an envelope: nobody else is between load and update.
LEMMA MigrateKeeps ==
    ASSUME S!SessionInv, NEW c \in S!Client, S!Migrate(c)
    PROVE  S!SessionInv'
<1>1. x5[c].phase = "migrate" /\ UNCHANGED <<x6, x7>>
  BY DEF S!Migrate
<1>2. CASE x1 # NoFile /\ S!Loaded(c, x1) /\ UNCHANGED S!files
  BY <1>1, <1>2, LoadsSession DEF S!Session
<1>3. CASE S!Blocked /\ x1' = S!Migrated /\ (S!Loaded(c, S!Migrated) \/ S!Goto(c, "done"))
           /\ \/ /\ x2' = x2
                 /\ \/ x3' = [x3 EXCEPT !.v2 = {S!Migrated}]
                    \/ x3' = [x3 EXCEPT !.v2 = x3.v2 \union {S!Migrated}]
              \/ /\ x2' = NoFile
                 /\ \E left \in {{NoFile}, {NoFile, x2}} :
                        x3' = [v2 |-> {S!Migrated}, flat |-> left]
  <2>1. PICK m : m = S!Migrated
    OBVIOUS
  <2>2. x2 \in x3.flat
    BY DEF S!SessionInv, S!FilesOK
  <2>3. PICK k \in [v2 : SUBSET (S!Envelope \union {NoFile}),
                    flat : SUBSET (S!FlatRecord \union {NoFile})] : k = x3
    BY DEF S!SessionInv, S!FilesOK
  <2>4. x3' \in [v2 : {{m}, k.v2 \union {m}}, flat : SUBSET (k.flat \union {NoFile})]
    <3>1. CASE x3' = [k EXCEPT !.v2 = {m}]
      BY <2>3, <3>1
    <3>2. CASE x3' = [k EXCEPT !.v2 = k.v2 \union {m}]
      BY <2>3, <3>2
    <3>3. CASE \E left \in {{NoFile}, {NoFile, x2}} : x3' = [v2 |-> {m}, flat |-> left]
      BY <2>2, <2>3, <3>3
    <3> QED BY <1>3, <2>1, <2>3, <3>1, <3>2, <3>3
  <2>5. x2' \in x3'.flat
    <3>1. CASE x2' = x2 /\ x3' = [k EXCEPT !.v2 = {m}]
      BY <2>2, <2>3, <3>1
    <3>2. CASE x2' = x2 /\ x3' = [k EXCEPT !.v2 = k.v2 \union {m}]
      BY <2>2, <2>3, <3>2
    <3>3. CASE x2' = NoFile /\ \E left \in {{NoFile}, {NoFile, x2}} :
                  x3' = [v2 |-> {m}, flat |-> left]
      BY <3>3
    <3> QED BY <1>3, <2>1, <2>3, <3>1, <3>2, <3>3
  <2>6. x3' \in [v2 : {{m}, x3.v2 \union {m}}, flat : SUBSET (x3.flat \union {NoFile})]
    BY <2>3, <2>4
  <2> QED BY <1>1, <1>3, <2>1, <2>5, <2>6, MigratesAs
<1> QED BY <1>2, <1>3 DEF S!Migrate, S!Publish

\* One more turn.
LEMMA OneMoreTurn ==
    ASSUME NEW turns \in Seq(S!Turn), NEW t \in S!Turn
    PROVE  /\ turns \o <<t>> \in Seq(S!Turn)
           /\ DOMAIN (turns \o <<t>>) = 1 .. Len(turns) + 1 /\ DOMAIN turns = 1 .. Len(turns)
           /\ \A i \in 1 .. Len(turns) : (turns \o <<t>>)[i] = turns[i]
           /\ (turns \o <<t>>)[Len(turns) + 1] = t /\ Len(turns) \in Nat
           /\ S!By(turns \o <<t>>) = S!By(turns) \union {t.by}
<1>1. /\ turns \o <<t>> \in Seq(S!Turn) /\ Len(turns) \in Nat
      /\ DOMAIN (turns \o <<t>>) = 1 .. Len(turns) + 1 /\ DOMAIN turns = 1 .. Len(turns)
      /\ \A i \in 1 .. Len(turns) : (turns \o <<t>>)[i] = turns[i]
      /\ (turns \o <<t>>)[Len(turns) + 1] = t
  OBVIOUS
<1>2. PICK more : more = turns \o <<t>>
  OBVIOUS
<1>3. S!By(more) = S!By(turns) \union {t.by}
  <2>1. ASSUME NEW x \in S!By(more) PROVE x \in S!By(turns) \union {t.by}
    <3>1. PICK i \in 1 .. Len(turns) + 1 : x = more[i].by
      BY <1>1, <1>2, <2>1 DEF S!By
    <3>2. CASE i = Len(turns) + 1
      BY <1>1, <1>2, <3>1, <3>2
    <3>3. CASE i \in 1 .. Len(turns)
      BY <1>1, <1>2, <3>1, <3>3 DEF S!By
    <3> QED BY <1>1, <3>2, <3>3
  <2>2. ASSUME NEW x \in S!By(turns) PROVE x \in S!By(more)
    <3>1. PICK i \in 1 .. Len(turns) : x = turns[i].by
      BY <1>1, <2>2 DEF S!By
    <3>2. more[i].by = x /\ i \in DOMAIN more
      BY <1>1, <1>2, <3>1
    <3> QED BY <3>2 DEF S!By
  <2>3. t.by \in S!By(more)
    <3>1. more[Len(turns) + 1].by = t.by /\ Len(turns) + 1 \in DOMAIN more
      BY <1>1, <1>2
    <3> QED BY <3>1 DEF S!By
  <2> QED BY <2>1, <2>2, <2>3
<1> QED BY <1>1, <1>2, <1>3

\* A turn that rests on all before it, by somebody new, keeps a transcript
\* linear.
LEMMA LinearGrows ==
    ASSUME NEW turns \in Seq(S!Turn), NEW t \in S!Turn, S!Linear(turns), t.by \notin S!By(turns),
           t.by \in Dispatches => t.on = Len(turns) \/ (t.on = 0 /\ "old" \in S!By(turns))
    PROVE  S!Linear(turns \o <<t>>)
<1>1. PICK more : more = turns \o <<t>>
  OBVIOUS
<1>2. /\ DOMAIN more = 1 .. Len(turns) + 1 /\ DOMAIN turns = 1 .. Len(turns)
      /\ \A i \in 1 .. Len(turns) : more[i] = turns[i]
      /\ more[Len(turns) + 1] = t /\ Len(turns) \in Nat
      /\ S!By(more) = S!By(turns) \union {t.by}
  BY <1>1, OneMoreTurn
<1>3. ASSUME NEW i \in DOMAIN more
      PROVE  /\ more[i].by \in Dispatches =>
                  more[i].on = i - 1 \/ (more[i].on = 0 /\ "old" \in S!By(more))
             /\ \A j \in 1 .. i - 1 : more[j].by # more[i].by
  <2>1. CASE i \in 1 .. Len(turns)
    <3>1. more[i] = turns[i] /\ \A j \in 1 .. i - 1 : j \in 1 .. Len(turns) /\ more[j] = turns[j]
      BY <1>2, <2>1
    <3> QED BY <1>2, <2>1, <3>1 DEF S!Linear
  <2>2. CASE i = Len(turns) + 1
    <3>1. more[i] = t /\ i - 1 = Len(turns)
      BY <1>2, <2>2
    <3>2. ASSUME NEW j \in 1 .. i - 1 PROVE more[j].by \in S!By(turns)
      <4>1. j \in DOMAIN turns /\ more[j] = turns[j]
        BY <1>2, <2>2
      <4> QED BY <4>1 DEF S!By
    <3> QED BY <1>2, <3>1, <3>2
  <2> QED BY <1>2, <2>1, <2>2
<1> QED BY <1>1, <1>3 DEF S!Linear

\* What a mutation leaves: an envelope of the next revision, whose transcript
\* is linear and has nobody in it who did not write.
LEMMA WritesSound ==
    ASSUME S!SessionInv, NEW c \in S!Client, x5[c].phase = "write",
           NEW kind \in S!Kinds(c), NEW id \in BOOLEAN, NEW b \in Bindings, S!Accepted(c, kind, id, b),
           NEW m, m = [rev |-> S!Session.rev + 1, native |-> S!NativeAfter(kind, id, b),
                       turns |-> S!TurnsAfter(c, kind)]
    PROVE  /\ m \in S!Envelope /\ m # NoFile /\ m.rev # 0
           /\ S!Linear(m.turns)
           /\ \A e \in S!Client : e # c /\ x5[e].phase # "done" => e \notin S!By(m.turns)
           /\ kind = "save" => m.turns = x5[c].ctx.turns
           /\ kind # "save" => S!By(S!Session.turns) \subseteq S!By(m.turns)
           /\ kind = "run" /\ x5[c].result = "chat" => c \in S!By(m.turns)
<1>1. PICK g \in S!Envelope : g = S!Session /\ S!TurnsSound(g.turns)
  BY Parts
<1>2. PICK x \in S!Envelope : x = x5[c].ctx /\ S!TurnsSound(x.turns)
  BY Parts
<1>3. /\ kind \in {"run", "save", "update", "reset", "fork", "commit"}
      /\ kind = "run" <=> c \in Dispatches
      /\ c \in Control \/ (c \in Dispatches /\ c \notin Control)
  BY ClientParts DEF S!Kinds, S!Client
<1>4. /\ g.rev \in Nat /\ g.native \in S!Native /\ g.turns \in Seq(S!Turn) /\ x.turns \in Seq(S!Turn)
  BY DEF S!Envelope
<1>5. S!NativeAfter(kind, id, b) \in S!Native
  BY <1>1, <1>3, <1>4 DEF S!NativeAfter, S!Native
<1>6. ASSUME kind \notin {"save", "reset"} PROVE
        \/ S!TurnsAfter(c, kind) = g.turns \o <<>> /\ ~(kind = "run" /\ x5[c].result = "chat")
        \/ \E t \in S!Turn : /\ S!TurnsAfter(c, kind) = g.turns \o <<t>> /\ t.by = c
                             /\ c \in Dispatches => t.on = Len(x.turns)
  <2>1. S!TurnsAfter(c, kind) = g.turns \o S!Delta(c)
    BY <1>1, <1>3, <1>6 DEF S!TurnsAfter
  <2>2. CASE c \in Control
    <3>1. PICK t : t = [by |-> c, on |-> Len(g.turns)]
      OBVIOUS
    <3>2. t \in S!Turn /\ t.by = c
      BY <1>4, <3>1 DEF S!Turn
    <3>3. S!Delta(c) = <<t>> /\ c \notin Dispatches
      BY <1>1, <2>2, <3>1, ClientParts DEF S!Delta
    <3> QED BY <2>1, <3>2, <3>3
  <2>3. CASE c \in Dispatches /\ x5[c].result = "chat"
    <3>1. PICK t : t = [by |-> c, on |-> Len(x.turns)]
      OBVIOUS
    <3>2. t \in S!Turn /\ t.by = c /\ t.on = Len(x.turns)
      BY <1>4, <3>1 DEF S!Turn
    <3>3. S!Delta(c) = <<t>>
      BY <1>2, <2>3, <3>1, ClientParts DEF S!Delta
    <3> QED BY <2>1, <3>2, <3>3
  <2>4. CASE c \in Dispatches /\ x5[c].result # "chat"
    <3>1. S!Delta(c) = <<>>
      BY <2>4, ClientParts DEF S!Delta
    <3> QED BY <2>1, <2>4, <3>1
  <2> QED BY <1>3, <2>2, <2>3, <2>4
<1>7. c \in Dispatches => \/ Len(x.turns) = Len(g.turns)
                          \/ Len(x.turns) = 0 /\ "old" \in S!By(g.turns)
  <2>1. SUFFICES ASSUME c \in Dispatches
                 PROVE  \/ Len(x.turns) = Len(g.turns)
                        \/ Len(x.turns) = 0 /\ "old" \in S!By(g.turns)
    OBVIOUS
  <2>2. x4 = c
    BY <2>1, ClientParts DEF S!LeaseSound
  <2>3. x = g \/ S!Overtaken(c)
    BY <1>1, <1>2, <2>1, <2>2, ClientParts DEF S!LoadSound, S!Resting
  <2>4. CASE S!Overtaken(c)
    <3>1. x.turns = <<>> /\ g = x1 /\ x1 # NoFile /\ x1.rev = 0 /\ x1 \in x3.v2
      BY <1>1, <1>2, <2>4, Parts, StartAndEnd DEF S!Overtaken, S!Session
    <3>2. g.turns = <<>> \/ "old" \in S!By(g.turns)
      BY <3>1 DEF S!SessionInv, S!FilesOK
    <3> QED BY <3>1, <3>2
  <2> QED BY <2>3, <2>4
<1>8. /\ c \notin S!By(g.turns) /\ S!Linear(g.turns) /\ S!Linear(x.turns)
      /\ \A e \in S!Client : x5[e].phase # "done" => e \notin S!By(g.turns) /\ e \notin S!By(x.turns)
  BY <1>1, <1>2 DEF S!TurnsSound
<1>9. /\ S!TurnsAfter(c, kind) \in Seq(S!Turn) /\ S!Linear(S!TurnsAfter(c, kind))
      /\ S!By(S!TurnsAfter(c, kind)) \subseteq S!By(g.turns) \union S!By(x.turns) \union {c}
      /\ kind = "save" => S!TurnsAfter(c, kind) = x.turns
      /\ kind # "save" => S!By(g.turns) \subseteq S!By(S!TurnsAfter(c, kind))
      /\ kind = "run" /\ x5[c].result = "chat" => c \in S!By(S!TurnsAfter(c, kind))
  <2>1. CASE kind = "save"
    <3>1. S!TurnsAfter(c, kind) = x.turns
      BY <1>2, <2>1 DEF S!TurnsAfter
    <3> QED BY <1>4, <1>8, <2>1, <3>1
  <2>2. CASE kind = "reset"
    <3>1. S!TurnsAfter(c, kind) = g.turns
      BY <1>1, <2>2 DEF S!TurnsAfter
    <3> QED BY <1>4, <1>8, <2>2, <3>1
  <2>3. CASE /\ kind \notin {"save", "reset"} /\ S!TurnsAfter(c, kind) = g.turns \o <<>>
             /\ ~(kind = "run" /\ x5[c].result = "chat")
    <3>1. g.turns \o <<>> = g.turns
      BY <1>4
    <3> QED BY <1>4, <1>8, <2>3, <3>1
  <2>4. CASE /\ kind \notin {"save", "reset"}
             /\ \E t \in S!Turn : /\ S!TurnsAfter(c, kind) = g.turns \o <<t>> /\ t.by = c
                                  /\ c \in Dispatches => t.on = Len(x.turns)
    <3>1. PICK t \in S!Turn : /\ S!TurnsAfter(c, kind) = g.turns \o <<t>> /\ t.by = c
                              /\ c \in Dispatches => t.on = Len(x.turns)
      BY <2>4
    <3>2. g.turns \o <<t>> \in Seq(S!Turn) /\ S!By(g.turns \o <<t>>) = S!By(g.turns) \union {c}
      BY <1>4, <3>1, OneMoreTurn
    <3>3. S!Linear(g.turns \o <<t>>)
      BY <1>4, <1>7, <1>8, <3>1, LinearGrows
    <3> QED BY <2>4, <3>1, <3>2, <3>3
  <2> QED BY <1>6, <2>1, <2>2, <2>3, <2>4
<1>10. PICK turns \in Seq(S!Turn) : turns = S!TurnsAfter(c, kind)
  BY <1>9
<1>11. PICK na \in S!Native : na = S!NativeAfter(kind, id, b)
  BY <1>5
<1>12. m = [rev |-> g.rev + 1, native |-> na, turns |-> turns]
  BY <1>1, <1>10, <1>11
<1>13. m \in S!Envelope /\ m.rev # 0 /\ m.turns = turns
  BY <1>4, <1>10, <1>11, <1>12 DEF S!Envelope
<1> QED BY <1>1, <1>2, <1>8, <1>9, <1>10, <1>13, SessionAssumption

\* The lease holder writes the session: it read the one it replaces.
LEMMA WriteKeeps ==
    ASSUME S!SessionInv, NEW c \in S!Client, S!Write(c)
    PROVE  S!SessionInv'
<1>1. x5[c].phase = "write" /\ S!Goto(c, "done") /\ x2' = x2 /\ x6' = x6
  BY DEF S!Write
<1>2. PICK kind \in S!Kinds(c), id \in BOOLEAN, b \in Bindings, durable \in BOOLEAN :
        /\ S!Accepted(c, kind, id, b)
        /\ S!Publish([rev |-> S!Session.rev + 1, native |-> S!NativeAfter(kind, id, b),
                    turns |-> S!TurnsAfter(c, kind)], durable)
        /\ x7' = CASE kind = "save" -> x7 \intersect S!By(x5[c].ctx.turns)
                      [] kind = "run" /\ durable /\ ~x5[c].gone /\ x5[c].result = "chat"
                                       -> x7 \union {c}
                      [] OTHER         -> x7
  BY DEF S!Write
<1>3. PICK m : m = [rev |-> S!Session.rev + 1, native |-> S!NativeAfter(kind, id, b),
                    turns |-> S!TurnsAfter(c, kind)]
  OBVIOUS
<1>4. /\ m \in S!Envelope /\ m # NoFile /\ m.rev # 0 /\ S!Linear(m.turns)
      /\ \A e \in S!Client : e # c /\ x5[e].phase # "done" => e \notin S!By(m.turns)
      /\ kind = "save" => m.turns = x5[c].ctx.turns
      /\ kind # "save" => S!By(S!Session.turns) \subseteq S!By(m.turns)
      /\ kind = "run" /\ x5[c].result = "chat" => c \in S!By(m.turns)
  BY <1>1, <1>2, <1>3, WritesSound
<1>5. PICK k \in [v2 : SUBSET (S!Envelope \union {NoFile}),
                  flat : SUBSET (S!FlatRecord \union {NoFile})] : k = x3
  BY DEF S!SessionInv, S!FilesOK
<1>6. /\ x1' = m
      /\ x3' \in [v2 : SUBSET (S!Envelope \union {NoFile}),
                    flat : SUBSET (S!FlatRecord \union {NoFile})]
      /\ x3'.flat = k.flat
      /\ x3'.v2 = IF durable THEN {m} ELSE k.v2 \union {m}
  <2>1. x1' = m /\ x3' = [k EXCEPT !.v2 = IF durable THEN {m} ELSE k.v2 \union {m}]
    BY <1>2, <1>3, <1>5 DEF S!Publish
  <2>2. CASE durable
    <3>1. x3' = [k EXCEPT !.v2 = {m}]
      BY <2>1, <2>2
    <3> QED BY <1>4, <1>5, <2>1, <2>2, <3>1
  <2>3. CASE ~durable
    <3>1. x3' = [k EXCEPT !.v2 = k.v2 \union {m}]
      BY <2>1, <2>3
    <3> QED BY <1>4, <1>5, <2>1, <2>3, <3>1
  <2> QED BY <2>2, <2>3
<1>7. x4 = c /\ (kind = "run" <=> c \in Dispatches)
  BY <1>1, ClientParts DEF S!LeaseSound, S!Client, S!Kinds
<1>8. PICK s : s = [x5[c] EXCEPT !.phase = "done"] /\ S!Becomes(c, s) /\ Ends(s)
  <2>1. PICK f \in S!ClientState : f = x5[c]
    BY ClientParts
  <2>2. [f EXCEPT !.phase = "done"].phase = "done"
    BY ONLY <2>1 DEF S!ClientState
  <2> QED BY <1>1, <2>1, <2>2 DEF S!Goto, Ends
<1>9. /\ x5' = [x5 EXCEPT ![c] = S!Ended] /\ x5'[c] = S!Ended /\ x4' = Nobody
      /\ S!LeaseSound(c)' /\ (c \in Dispatches => S!PlanSound(c)' /\ S!LoadSound(c)')
      /\ c \in Dispatches => S!Ended.at <= Len(x6[c].chain)
  BY <1>1, <1>7, <1>8, EndOfClient
<1>10. /\ x5' \in [S!Client -> S!ClientState] /\ \A e \in S!Client \ {c} : x5'[e] = x5[e]
       /\ Nobody \notin S!Client
  BY <1>9, Parts, StartAndEnd, SessionAssumption
<1>11. S!FilesOK'
  <2>1. \A e \in x3'.v2 : e \in x3.v2 \/ e = m
    BY <1>5, <1>6
  <2>2. x1' \in x3'.v2 /\ x2' \in x3'.flat
    BY <1>1, <1>5, <1>6 DEF S!SessionInv, S!FilesOK
  <2> QED BY <1>4, <1>6, <2>1, <2>2 DEF S!SessionInv, S!FilesOK
<1>12. S!SavedStays' /\ x7' \subseteq S!Client
  <2>1. x7 \subseteq S!Client /\ S!SavedStays /\ x1 \in x3.v2
    BY Parts DEF S!SessionInv, S!StatesOK
  <2>2. CASE kind = "save"
    <3>1. x7' = x7 \intersect S!By(x5[c].ctx.turns)
      BY <1>2, <2>2
    <3> QED BY <1>4, <1>5, <1>6, <2>1, <2>2, <3>1 DEF S!SavedStays
  <2>3. x7 # {} => x7 \subseteq S!By(S!Session.turns)
    BY <2>1 DEF S!SavedStays, S!Session
  <2>4. CASE kind = "run" /\ durable /\ ~x5[c].gone /\ x5[c].result = "chat"
    <3>1. x7' = x7 \union {c}
      BY <1>2, <2>4
    <3>2. x7' \subseteq S!By(m.turns)
      BY <1>4, <2>3, <2>4, <3>1
    <3> QED BY <1>4, <1>6, <2>1, <2>4, <3>1, <3>2 DEF S!SavedStays
  <2>5. CASE kind # "save" /\ ~(kind = "run" /\ durable /\ ~x5[c].gone /\ x5[c].result = "chat")
    <3>1. x7' = x7
      BY <1>2, <2>5
    <3>2. x7 # {} => x7 \subseteq S!By(m.turns)
      BY <1>4, <2>3, <2>5
    <3> QED BY <1>4, <1>5, <1>6, <2>1, <3>1, <3>2 DEF S!SavedStays
  <2> QED BY <2>2, <2>4, <2>5
<1>13. S!StatesOK'
  BY <1>1, <1>9, <1>10, <1>12 DEF S!SessionInv, S!StatesOK
<1>14. ASSUME NEW e \in S!Client \ {c} PROVE S!LeaseSound(e)'
  BY <1>1, <1>7, <1>9, <1>10, Parts DEF S!LeaseSound
<1>15. ASSUME NEW e \in Dispatches \ {c} PROVE S!PlanSound(e)' /\ S!LoadSound(e)'
  <2>1. e \in S!Client /\ x5'[e] = x5[e] /\ x4' # e
    BY <1>9, <1>10, Parts
  <2>2. S!PlanSound(e)
    BY DEF S!SessionInv
  <2> QED BY <1>1, <2>1, <2>2 DEF S!PlanSound, S!LoadSound, S!Consumable, S!Resting
<1>16. ASSUME NEW turns \in S!KnownTurns' PROVE S!TurnsSound(turns)'
  <2>1. /\ \A e \in S!Client : x5[e].phase = "done" => x5'[e].phase = "done"
        /\ \A e \in S!Client : x5'[e].phase # "done" => e # c /\ x5[e].phase # "done"
    BY <1>9, <1>10, StartAndEnd
  <2>2. CASE turns = m.turns
    BY <1>4, <2>1, <2>2 DEF S!TurnsSound, S!Linear
  <2>3. CASE turns # m.turns
    <3>1. S!TurnsSound(turns)
      <4>1. CASE turns \in {e.turns : e \in x3'.v2 \ {NoFile}}
        BY <1>5, <1>6, <2>3, <4>1, Parts
      <4>2. CASE \E e \in S!Client : turns = x5'[e].ctx.turns
        BY <1>9, <1>10, <4>2, Parts, StartAndEnd, NoTurns
      <4> QED BY <1>16, <4>1, <4>2 DEF S!KnownTurns
    <3> QED BY <2>1, <3>1, TurnsKept
  <2> QED BY <2>2, <2>3
<1> QED BY <1>9, <1>11, <1>12, <1>13, <1>14, <1>15, <1>16 DEF S!SessionInv

\* A power loss: the files become one of what was written, and no client is left midway.
LEMMA PowerLossKeeps ==
    ASSUME S!SessionInv, S!PowerLoss
    PROVE  S!SessionInv'
<1>1. /\ x1' \in x3.v2 /\ x2' \in x3.flat /\ x6' = x6 /\ x7' = x7
      /\ x3' = [v2 |-> {x1'}, flat |-> {x2'}] /\ x4' = Nobody /\ Nobody \notin S!Client
  BY SessionAssumption DEF S!PowerLoss
<1>2. /\ x5' \in [S!Client -> S!ClientState]
      /\ \A c \in S!Client : (x5'[c] = S!Fresh /\ x5[c] = S!Fresh) \/ x5'[c] = S!Ended
  BY StartAndEnd DEF S!PowerLoss
<1>3. S!FilesOK' /\ S!SavedStays'
  <2>1. x3'.v2 = {x1'} /\ x3'.flat = {x2'}
    BY <1>1
  <2> QED BY <1>1, <2>1 DEF S!SessionInv, S!FilesOK, S!SavedStays
<1>4. S!StatesOK'
  <2>1. ASSUME NEW d \in Dispatches PROVE x5'[d].at <= Len(x6[d].chain)
    <3>1. d \in S!Client /\ x5'[d].at = 1
      BY <1>2, StartAndEnd DEF S!Client
    <3>2. /\ x5[d].at \in Nat \ {0} /\ x5[d].at <= Len(x6[d].chain)
          /\ Len(x6[d].chain) \in Nat
      BY <3>1, ClientParts DEF S!ClientState
    <3> QED BY <3>1, <3>2
  <2> QED BY <1>1, <1>2, <2>1 DEF S!SessionInv, S!StatesOK
<1>5. ASSUME NEW c \in S!Client PROVE S!LeaseSound(c)'
  BY <1>1, <1>2, StartAndEnd DEF S!LeaseSound
<1>6. ASSUME NEW d \in Dispatches PROVE S!PlanSound(d)' /\ S!LoadSound(d)'
  <2>1. d \in S!Client /\ (x5'[d] = S!Fresh \/ x5'[d] = S!Ended)
    BY <1>2 DEF S!Client
  <2> QED BY <1>1, <2>1, StartAndEnd DEF S!PlanSound, S!LoadSound, S!Consumable, S!Resting
<1>7. ASSUME NEW turns \in S!KnownTurns' PROVE S!TurnsSound(turns)'
  <2>1. \A e \in S!Client : x5[e].phase = "done" => x5'[e].phase = "done"
    BY <1>2, StartAndEnd
  <2>2. x3'.v2 = {x1'}
    BY <1>1
  <2>3. S!TurnsSound(turns)
    <3>1. CASE turns \in {e.turns : e \in x3'.v2 \ {NoFile}}
      BY <1>1, <2>2, <3>1, Parts
    <3>2. CASE \E e \in S!Client : turns = x5'[e].ctx.turns
      BY <1>2, <3>2, StartAndEnd, NoTurns
    <3> QED BY <1>7, <3>1, <3>2 DEF S!KnownTurns
  <2> QED BY <2>1, <2>3, TurnsKept
<1> QED BY <1>3, <1>4, <1>5, <1>6, <1>7 DEF S!SessionInv

\* Nobody has begun, and there is at most the flat file.
LEMMA SessionInit == S!Init => S!SessionInv
<1> SUFFICES ASSUME S!Init PROVE S!SessionInv
  OBVIOUS
<1>1. /\ x1 = NoFile /\ x2 \in S!FlatRecord \union {NoFile} /\ x4 = Nobody
      /\ x3 = [v2 |-> {NoFile}, flat |-> {x2}] /\ x6 \in Tasks /\ x7 = {}
  BY SessionAssumption DEF S!Init
<1>2. x5 \in [S!Client -> S!ClientState] /\ \A c \in S!Client : x5[c] = S!Fresh
  BY StartAndEnd DEF S!Init
<1>3. S!FilesOK /\ S!SavedStays
  <2>1. x3.v2 = {NoFile} /\ x3.flat = {x2}
    BY <1>1
  <2> QED BY <1>1, <2>1 DEF S!FilesOK, S!SavedStays
<1>4. ASSUME NEW d \in Dispatches PROVE x5[d].at <= Len(x6[d].chain)
  <2>1. x6[d] \in [chain : Seq({"chat", "cli"}), inSession : BOOLEAN] /\ x6[d].chain # <<>>
    BY <1>1, SessionAssumption
  <2>2. x6[d].chain \in Seq({"chat", "cli"})
    BY <2>1
  <2>3. Len(x6[d].chain) \in Nat /\ Len(x6[d].chain) # 0
    BY <2>1, <2>2, EmptySeq
  <2>4. x5[d].at = 1
    BY <1>2, StartAndEnd DEF S!Client
  <2> QED BY <2>3, <2>4
<1>5. S!StatesOK
  BY <1>1, <1>2, <1>4 DEF S!StatesOK
<1>6. ASSUME NEW c \in S!Client PROVE S!LeaseSound(c)
  BY <1>1, <1>2, StartAndEnd, SessionAssumption DEF S!LeaseSound
<1>7. ASSUME NEW d \in Dispatches PROVE S!PlanSound(d) /\ S!LoadSound(d)
  BY <1>1, <1>2, StartAndEnd, SessionAssumption
     DEF S!PlanSound, S!LoadSound, S!Consumable, S!Resting, S!Client
<1>8. ASSUME NEW turns \in S!KnownTurns PROVE S!TurnsSound(turns)
  BY <1>1, <1>2, <1>8, StartAndEnd, NoTurns DEF S!KnownTurns
<1> QED BY <1>3, <1>5, <1>6, <1>7, <1>8 DEF S!SessionInv

\* A step of another part of the system leaves the session as it is.
LEMMA SessionStutter ==
    ASSUME S!SessionInv, UNCHANGED S!vars
    PROVE  S!SessionInv'
<1>1. /\ x1' = x1 /\ x2' = x2 /\ x3' = x3 /\ x4' = x4 /\ x5' = x5
      /\ x6' = x6 /\ x7' = x7
  BY DEF S!vars
<1>2. S!FilesOK' /\ S!StatesOK' /\ S!SavedStays'
  BY <1>1 DEF S!SessionInv, S!FilesOK, S!StatesOK, S!SavedStays
<1>3. ASSUME NEW c \in S!Client PROVE S!LeaseSound(c)'
  BY <1>1 DEF S!SessionInv, S!LeaseSound
<1>4. ASSUME NEW d \in Dispatches PROVE S!PlanSound(d)' /\ S!LoadSound(d)'
  <2>1. S!PlanSound(d) /\ S!LoadSound(d) /\ S!Session' = S!Session
    BY <1>1 DEF S!SessionInv, S!Session
  <2> QED BY <1>1, <2>1 DEF S!PlanSound, S!LoadSound, S!Consumable, S!Resting, S!Overtaken
<1>5. ASSUME NEW turns \in S!KnownTurns' PROVE S!TurnsSound(turns)'
  <2>1. turns \in S!KnownTurns
    BY <1>1, <1>5 DEF S!KnownTurns
  <2>2. S!TurnsSound(turns)
    BY <2>1 DEF S!SessionInv
  <2> QED BY <1>1, <2>2 DEF S!TurnsSound, S!Linear
<1> QED BY <1>2, <1>3, <1>4, <1>5 DEF S!SessionInv

\* Every step of the session keeps its inductive invariant.
LEMMA SessionStep ==
    ASSUME S!SessionInv, S!Next
    PROVE  S!SessionInv'
<1>1. CASE S!PowerLoss
  BY <1>1, PowerLossKeeps
<1>2. ASSUME NEW c \in S!Client,
             \/ S!AcquireLease(c) \/ S!Refused(c) \/ S!LoadUnleased(c)
             \/ S!ReadEnvelope(c) \/ S!ReadFlat(c) \/ S!Migrate(c) \/ S!LoadFails(c)
             \/ S!Write(c) \/ S!WriteFails(c) \/ S!Abandon(c)
      PROVE  S!SessionInv'
  BY <1>2, AcquireLeaseKeeps, RefusedKeeps, LoadUnleasedKeeps, ReadEnvelopeKeeps, ReadFlatKeeps,
     MigrateKeeps, LoadFailsKeeps, WriteKeeps, WriteFailsKeeps, AbandonKeeps
<1>3. ASSUME NEW d \in Dispatches,
             \/ S!Consume(d) \/ S!Attempt(d) \/ S!CallReturns(d) \/ S!Record(d)
             \/ S!BeginProbe(d) \/ S!Probe(d) \/ S!Cancel(d)
      PROVE  S!SessionInv'
  BY <1>3, ConsumeKeeps, AttemptKeeps, CallReturnsKeeps, RecordKeeps, BeginProbeKeeps,
     ProbeKeeps, CancelKeeps
<1> QED BY <1>1, <1>2, <1>3 DEF S!Next

\* What the runs check follows.
LEMMA SessionInvSuffices == S!SessionInv => S!SessionsSound /\ S!ExecutesOnce
<1> SUFFICES ASSUME S!SessionInv PROVE S!SessionsSound /\ S!ExecutesOnce
  OBVIOUS
<1>1. S!SessionTypeOK
  <2>1. /\ x1 \in S!Envelope \union {NoFile} /\ x4 \in S!Client \union {Nobody}
        /\ \A c \in S!Client : x5[c].ctx \in S!Envelope
    BY Parts DEF S!SessionInv, S!StatesOK
  <2>2. ASSUME NEW c \in S!Client, x4 = c PROVE x5[c].phase \notin {"new", "done"}
    BY <2>2, ClientParts DEF S!LeaseSound, S!Client
  <2> QED BY <2>1, <2>2 DEF S!SessionTypeOK
<1>2. S!LeaseHolds
  BY DEF S!SessionInv, S!LoadSound, S!LeaseHolds
<1>3. S!TranscriptLinear
  BY Parts DEF S!TranscriptLinear, S!TurnsSound
<1>4. S!HarnessStartsFresh
  <2>1. ASSUME NEW d \in Dispatches, S!Resting(d), x5[d].phase = "call",
               "cli" \in S!Range(x6[d].chain)
        PROVE  S!Session.native = "absent" \/ S!Overtaken(d)
    BY <2>1 DEF S!SessionInv, S!LoadSound
  <2> QED BY <2>1 DEF S!HarnessStartsFresh
<1>5. S!ExecutesOnce
  BY DEF S!SessionInv, S!PlanSound, S!ExecutesOnce
<1> QED BY <1>1, <1>2, <1>3, <1>4, <1>5 DEF S!SessionInv, S!SessionsSound

\* The invariant of the part, and the steps of the other parts.
SessionPart == part = "session" => S!SessionInv

\* The session invariant holds beside the other durable files.
LEMMA SessionPartInvariant == MCSpec => []SessionPart
<1>1. MCInit => SessionPart
  BY SessionInit DEF MCInit, SessionPart
<1>2. ASSUME SessionPart, [MCNext]_allVars PROVE SessionPart'
  <2> SUFFICES ASSUME part' = "session" PROVE S!SessionInv'
    BY DEF SessionPart
  <2>1. CASE MCNext
    <3>1. part = "session" /\ S!Next
      BY <2>1 DEF MCNext
    <3> QED BY <1>2, <3>1, SessionStep DEF SessionPart
  <2>2. CASE UNCHANGED allVars
    <3>1. part = "session" /\ UNCHANGED S!vars
      BY <2>2 DEF allVars, partVars, S!vars
    <3> QED BY <1>2, <3>1, SessionStutter DEF SessionPart
  <2> QED BY <1>2, <2>1, <2>2
<1> QED BY <1>1, <1>2, PTL DEF MCSpec

\* A session stays sound (SessionsSound): under its lease a dispatch replays
\* what the session is, or misses only a migration that came between its two
\* reads; no two calls branch off one transcript; a turn reported saved survives
\* a power loss; no harness works in a session with a native one; and a plan
\* calls each of its targets at most once and leaves at most one record.
THEOREM SessionsStaySound == MCSpec => []SessionsSound
<1>1. SessionPart => SessionsSound
  BY SessionInvSuffices DEF SessionPart, SessionsSound
<1> QED BY <1>1, SessionPartInvariant, PTL

-----------------------------------------------------------------------------
(* A detached task: its row. *)

\* The later of two times is a time.
LEMMA LaterNat == ASSUME NEW a \in Nat, NEW b \in Nat PROVE T!Later(a, b) \in Nat
  BY DEF T!Later

\* The fields of a row.
LEMMA RowFields ==
  ASSUME NEW who, NEW r \in T!TaskRecord(who), NEW at \in Nat
  PROVE  /\ r.rev \in Nat /\ r.epoch \in Nat /\ r.failure \in T!Failure /\ r.controller \in who
         /\ r.lease \in Nat /\ r.holder \in who /\ r.updated \in Nat
         /\ r.state \in T!Active \cup T!Terminal \cup {"absent"}
         /\ T!Later(at, r.updated) \in Nat
<1>1. /\ r.rev \in Nat /\ r.epoch \in Nat /\ r.failure \in T!Failure /\ r.controller \in who
      /\ r.lease \in Nat /\ r.holder \in who /\ r.updated \in Nat
      /\ r.state \in T!Active \cup T!Terminal \cup {"absent"}
  BY DEF T!TaskRecord
<1>2. T!Later(at, r.updated) \in Nat
  BY <1>1, LaterNat
<1> QED BY <1>1, <1>2

\* A mutated row is a row with the next revision.
LEMMA MutatedRow ==
  ASSUME NEW who, NEW r \in T!TaskRecord(who), NEW at \in Nat
  PROVE  /\ T!Mutated(r, at) \in T!TaskRecord(who)
         /\ T!Mutated(r, at).state = r.state
         /\ T!Mutated(r, at).rev = r.rev + 1
         /\ T!Mutated(r, at).epoch = r.epoch
         /\ T!Mutated(r, at).controller = r.controller
         /\ T!Mutated(r, at).lease = r.lease
         /\ T!Mutated(r, at).holder = r.holder
         /\ T!Mutated(r, at).failure = r.failure
         /\ T!Mutated(r, at).updated = T!Later(at, r.updated)
<1>1. r.rev + 1 \in Nat /\ T!Later(at, r.updated) \in Nat
  BY RowFields
<1> QED BY <1>1 DEF T!Mutated, T!TaskRecord

\* A created row is queued and well formed.
LEMMA CreatedRow ==
  ASSUME NEW who, 0 \in who, NEW at \in Nat
  PROVE  /\ T!Created(at) \in T!TaskRecord(who) /\ T!WellFormed(T!Created(at))
         /\ T!Created(at).state = "queued" /\ T!LegalStep(T!NoTask, T!Created(at))
<1>0. T!NoTask \in T!TaskRecord(who)
  BY DEF T!NoTask, T!TaskRecord, T!Failure, T!Active, T!Terminal
<1>1. /\ T!Created(at) \in T!TaskRecord(who)
      /\ T!Created(at).state = "queued" /\ T!Created(at).rev = T!NoTask.rev
      /\ T!Created(at).epoch = T!NoTask.epoch /\ T!Created(at).controller = T!NoTask.controller
      /\ T!Created(at).lease = T!NoTask.lease /\ T!Created(at).failure = T!NoTask.failure
  BY <1>0 DEF T!Created, T!TaskRecord, T!Active
<1>2. T!NoTask.rev = 0 /\ T!NoTask.epoch = 0 /\ T!NoTask.controller = 0 /\ T!NoTask.lease = 0
      /\ T!NoTask.failure = "none" /\ T!NoTask.state = "absent"
  BY DEF T!NoTask
<1>3. T!WellFormed(T!Created(at))
  BY <1>1, <1>2 DEF T!WellFormed, T!Active
<1>4. T!LegalStep(T!NoTask, T!Created(at))
  BY <1>1, <1>2 DEF T!LegalStep
<1> QED BY <1>1, <1>3, <1>4

\* A queued row attached to a controller runs under it.
LEMMA AttachedRow ==
  ASSUME NEW who, NEW r \in T!TaskRecord(who), T!WellFormed(r), r.state = "queued", 0 \in who,
         NEW c \in who, c # 0, NEW lease \in Nat, NEW at \in Nat
  PROVE  /\ T!Attached(r, c, lease, at) \in T!TaskRecord(who) /\ T!WellFormed(T!Attached(r, c, lease, at))
         /\ T!Attached(r, c, lease, at).state = "running" /\ T!Attached(r, c, lease, at).controller = c
         /\ T!Attached(r, c, lease, at).rev = r.rev + 1 /\ T!Attached(r, c, lease, at).epoch = r.epoch + 1
         /\ T!Attached(r, c, lease, at).lease = lease
         /\ T!Attached(r, c, lease, at).holder = (IF lease = 0 THEN 0 ELSE c)
         /\ T!LegalStep(r, T!Attached(r, c, lease, at))
<1> DEFINE m == T!Mutated(r, at)
           n == T!Attached(r, c, lease, at)
<1>1. m \in T!TaskRecord(who) /\ m.rev = r.rev + 1 /\ m.failure = r.failure
  BY MutatedRow
<1>2. r.rev \in Nat /\ r.epoch \in Nat
  BY RowFields
<1>3. /\ n \in T!TaskRecord(who)
      /\ n.state = "running" /\ n.rev = m.rev /\ n.epoch = r.epoch + 1 /\ n.controller = c
      /\ n.lease = lease /\ n.holder = (IF lease = 0 THEN 0 ELSE c) /\ n.failure = m.failure
  <2> HIDE DEF m
  <2>1. n = [m EXCEPT !.state = "running", !.epoch = r.epoch + 1, !.controller = c,
                      !.lease = lease, !.holder = IF lease = 0 THEN 0 ELSE c]
    BY DEF T!Attached, m
  <2>2. (IF lease = 0 THEN 0 ELSE c) \in who
    OBVIOUS
  <2> HIDE DEF n
  <2>3. r.epoch + 1 \in Nat /\ "running" \in T!Active \cup T!Terminal \cup {"absent"}
    BY <1>2 DEF T!Active
  <2>4. n \in T!TaskRecord(who)
    BY <1>1, <2>1, <2>2, <2>3 DEF T!TaskRecord
  <2> QED BY <1>1, <2>1, <2>4 DEF T!TaskRecord
<1> HIDE DEF m, n
<1>4. r.epoch = 0 /\ r.failure = "none"
  BY <1>2 DEF T!WellFormed, T!Active
<1>5. T!WellFormed(n)
  BY <1>1, <1>2, <1>3, <1>4 DEF T!WellFormed, T!Active, T!Terminal
<1>6. T!LegalStep(r, n)
  BY <1>1, <1>2, <1>3 DEF T!LegalStep
<1> QED BY <1>1, <1>3, <1>5, <1>6 DEF n

\* What an ended row says, and that it may end so.
EndsAs(r, state, failure) ==
  /\ r.state \in T!Active /\ state \in T!Terminal /\ failure \in T!Failure
  /\ r.state = "queued" => state \in {"failed", "cancelled", "interrupted"}
  /\ state = "succeeded" <=> failure = "none"
  /\ state \in {"timed_out", "cancelled"} => failure = state
  /\ state \in {"failed", "interrupted"} => failure \notin {"timed_out", "cancelled"}

\* An ended row beside the row it was.
EndedWell(who, r, state, failure, n) ==
  /\ n \in T!TaskRecord(who) /\ T!WellFormed(n) /\ T!LegalStep(r, n)
  /\ n.state = state /\ n.rev = r.rev + 1 /\ n.controller = r.controller
  /\ n.epoch = r.epoch /\ n.failure = failure

\* A row that ends is well formed and keeps its controller.
LEMMA EndedRow ==
  ASSUME NEW who, NEW r \in T!TaskRecord(who), T!WellFormed(r), 0 \in who,
         NEW state, NEW failure, NEW at \in Nat, EndsAs(r, state, failure)
  PROVE  EndedWell(who, r, state, failure, T!Ended(r, state, failure, at))
<1> DEFINE m == T!Mutated(r, at)
           n == T!Ended(r, state, failure, at)
<1>1. m \in T!TaskRecord(who) /\ m.rev = r.rev + 1 /\ m.epoch = r.epoch /\ m.controller = r.controller
  BY MutatedRow
<1>2. r.rev \in Nat /\ r.epoch \in Nat
  BY RowFields
<1>3. /\ n \in T!TaskRecord(who)
      /\ n.state = state /\ n.rev = m.rev /\ n.epoch = m.epoch /\ n.controller = m.controller
      /\ n.lease = 0 /\ n.holder = 0 /\ n.failure = failure
  <2> HIDE DEF m
  <2>1. n = [m EXCEPT !.state = state, !.failure = failure, !.lease = 0, !.holder = 0]
    BY DEF T!Ended, m
  <2>2. state \in T!Terminal /\ failure \in T!Failure
    BY DEF EndsAs
  <2> HIDE DEF n
  <2> QED BY <1>1, <2>1, <2>2 DEF T!TaskRecord
<1> HIDE DEF m, n
<1>4. /\ (r.controller # 0) <=> (r.epoch > 0)
      /\ r.state = "queued" => r.controller = 0
      /\ r.state \in {"running", "cancelling"} => r.controller # 0
  BY DEF T!WellFormed
<1>5. T!WellFormed(n)
  BY <1>1, <1>2, <1>3, <1>4 DEF T!WellFormed, T!Active, T!Terminal, EndsAs
<1>6. T!LegalStep(r, n)
  BY <1>1, <1>2, <1>3, <1>4 DEF T!LegalStep, T!Active, EndsAs
<1> QED BY <1>1, <1>3, <1>5, <1>6 DEF n, EndedWell

\* A settled row has ended as its worker said.
LEMMA SettledRow ==
  ASSUME NEW who, NEW r \in T!TaskRecord(who), T!WellFormed(r), 0 \in who,
         NEW state \in T!Settlement, NEW at \in Nat, T!CanSettle(r, state)
  PROVE  /\ T!Settled(r, state, at) \in T!TaskRecord(who) /\ T!WellFormed(T!Settled(r, state, at))
         /\ T!Settled(r, state, at).state = state /\ T!Settled(r, state, at).rev = r.rev + 1
         /\ T!Settled(r, state, at).controller = r.controller
         /\ T!Settled(r, state, at).epoch = r.epoch
         /\ T!Settled(r, state, at).failure # "worker_lost"
         /\ T!LegalStep(r, T!Settled(r, state, at))
<1> DEFINE f == CASE state = "succeeded" -> "none" [] state = "failed" -> "failure" [] OTHER -> state
<1>1. EndsAs(r, state, f)
  BY DEF T!Settlement, T!Terminal, T!Failure, T!CanSettle, EndsAs, T!Active
<1>2. T!Settled(r, state, at) = T!Ended(r, state, f, at)
  BY DEF T!Settled
<1>4. f # "worker_lost"
  BY DEF T!Settlement, T!Terminal
<1> HIDE DEF f
<1>3. EndedWell(who, r, state, f, T!Ended(r, state, f, at))
  BY <1>1, EndedRow
<1> QED BY <1>2, <1>3, <1>4 DEF EndedWell

\* An interrupted row says why.
LEMMA InterruptedRow ==
  ASSUME NEW who, NEW r \in T!TaskRecord(who), T!WellFormed(r), r.state \in T!Active, 0 \in who,
         NEW code \in {"worker_lost", "control_unavailable", "internal"}, NEW at \in Nat
  PROVE  /\ T!Interrupted(r, code, at) \in T!TaskRecord(who) /\ T!WellFormed(T!Interrupted(r, code, at))
         /\ T!Interrupted(r, code, at).state = "interrupted" /\ T!Interrupted(r, code, at).rev = r.rev + 1
         /\ T!Interrupted(r, code, at).controller = r.controller /\ T!Interrupted(r, code, at).failure = code
         /\ T!Interrupted(r, code, at).epoch = r.epoch
         /\ T!LegalStep(r, T!Interrupted(r, code, at))
<1>1. EndsAs(r, "interrupted", code)
  BY DEF T!Terminal, T!Failure, EndsAs
<1>2. T!Interrupted(r, code, at) = T!Ended(r, "interrupted", code, at)
  BY DEF T!Interrupted
<1>3. EndedWell(who, r, "interrupted", code, T!Ended(r, "interrupted", code, at))
  BY <1>1, EndedRow
<1> QED BY <1>2, <1>3 DEF EndedWell

\* A cancellation ends a queued row and marks a running one.
LEMMA CancelledRow ==
  ASSUME NEW who, NEW r \in T!TaskRecord(who), T!WellFormed(r), T!CanCancel(r), 0 \in who, NEW at \in Nat
  PROVE  /\ T!CancelRequested(r, at) \in T!TaskRecord(who) /\ T!WellFormed(T!CancelRequested(r, at))
         /\ T!CancelRequested(r, at).state = (IF r.state = "queued" THEN "cancelled" ELSE "cancelling")
         /\ T!CancelRequested(r, at).controller = r.controller /\ T!CancelRequested(r, at).rev = r.rev + 1
         /\ T!CancelRequested(r, at).epoch = r.epoch
         /\ (r.state = "running" => T!CancelRequested(r, at).lease = r.lease)
         /\ (r.state = "running" => T!CancelRequested(r, at).holder = r.holder)
         /\ T!LegalStep(r, T!CancelRequested(r, at))
<1> DEFINE m == T!Mutated(r, at)
           n == T!CancelRequested(r, at)
<1>1. CASE r.state = "queued"
  <2>1. EndsAs(r, "cancelled", "cancelled")
    BY <1>1 DEF T!Active, T!Terminal, T!Failure, EndsAs
  <2>2. n = T!Ended(r, "cancelled", "cancelled", at)
    BY <1>1 DEF T!CancelRequested
  <2> HIDE DEF n
  <2>3. /\ n \in T!TaskRecord(who) /\ T!WellFormed(n) /\ n.state = "cancelled" /\ n.rev = r.rev + 1
        /\ n.controller = r.controller /\ n.epoch = r.epoch /\ T!LegalStep(r, n)
    <3>1. EndedWell(who, r, "cancelled", "cancelled", T!Ended(r, "cancelled", "cancelled", at))
      BY <2>1, EndedRow
    <3> QED BY <2>2, <3>1 DEF EndedWell
  <2> QED BY <1>1, <2>3 DEF n
<1>2. CASE r.state = "running"
  <2>1. /\ m \in T!TaskRecord(who)
        /\ m.state = r.state
        /\ m.rev = r.rev + 1
        /\ m.epoch = r.epoch
        /\ m.controller = r.controller
        /\ m.lease = r.lease
        /\ m.holder = r.holder
        /\ m.failure = r.failure
        /\ m.updated = T!Later(at, r.updated)
    BY MutatedRow
  <2>2. n = [m EXCEPT !.state = "cancelling"]
    BY <1>2 DEF T!CancelRequested
  <2> HIDE DEF n, m
  <2>3. /\ n \in T!TaskRecord(who)
        /\ n.state = "cancelling"
        /\ n.rev = m.rev
        /\ n.epoch = m.epoch
        /\ n.controller = m.controller
        /\ n.lease = m.lease
        /\ n.holder = m.holder
        /\ n.failure = m.failure
        /\ n.updated = m.updated
    BY <2>1, <2>2 DEF T!TaskRecord, T!Active
  <2>4. r.rev \in Nat
    BY RowFields
  <2>5. T!WellFormed(n)
    BY <1>2, <2>1, <2>3, <2>4 DEF T!WellFormed, T!Active, T!Terminal
  <2>6. T!LegalStep(r, n)
    BY <1>2, <2>1, <2>3 DEF T!LegalStep
  <2> QED BY <1>2, <2>1, <2>3, <2>5, <2>6 DEF n
<1> QED BY <1>1, <1>2 DEF T!CanCancel

\* The controllers of a detached task: none, or its worker.
Controllers == {0, 1}

\* The row of a detached task.
TaskRowShape ==
  x1 \in T!TaskRecord({0, 1}) /\ T!WellFormed(x1) /\ (x1.state = "absent" => x1 = T!NoTask)

\* A row that was there moves on under its controller, or not at all.
Onward ==
  \/ x1' = x1
  \/ /\ x1.state \in T!Active /\ x1'.state \in T!Active \cup T!Terminal
     /\ x1'.controller = x1.controller

\* What a step of anybody leaves as it is for the commands.
Forward ==
  /\ x1.state # "absent" => x1'.state # "absent"
  /\ x1.controller # 0 => x1'.controller # 0
  /\ x1.state \in T!Terminal => x1' = x1
  /\ x1.controller # 0 /\ ~T!WorkerAlive => ~T!WorkerAlive'
  /\ \/ \A g \in T!Run : x5'[g].work = "alive" => x5[g].work = "alive"
     \/ T!WorkerAlive /\ x1.controller # 0

\* A group loses its leader, its members or both, or nobody.
Fades(g) ==
  /\ \/ x5'[g].leader = x5[g].leader
     \/ /\ x5[g].leader = "alive"
        /\ x5'[g].leader = IF x4.at \in T!NotAlive THEN "gone" ELSE "zombie"
  /\ \/ x5'[g].work = x5[g].work
     \/ x5[g].work = "alive" /\ x5'[g].work = "dead"

\* The sidecar is kept, or removed when nobody works.
SidecarKept ==
  \/ x6' = x6
  \/ x6' = 0 /\ (\A g \in T!Run : ~T!Working(g)) /\ x4.at \notin {"release", "run"}

\* The states of a row, and what is known of its names.
LEMMA RowKnown ==
  ASSUME T!DetachedShape
  PROVE  /\ x1 \in T!TaskRecord(Controllers) /\ T!WellFormed(x1) /\ 0 \in Controllers
         /\ 1 \in Controllers /\ 0 \in Nat /\ TaskRowShape
         /\ x1.state \in T!Active \cup T!Terminal \cup {"absent"}
         /\ (x1.state \in {"running", "cancelling"} => x1.controller # 0)
         /\ (x1.state = "queued" => x1.controller = 0)
         /\ (x1.state = "absent" => x1.controller = 0)
<1>1. x1 \in T!TaskRecord(Controllers) /\ T!WellFormed(x1) /\ 0 \in Controllers /\ TaskRowShape
  BY DEF T!DetachedShape, Controllers, TaskRowShape
<1>2. x1.state \in T!Active \cup T!Terminal \cup {"absent"}
  BY <1>1 DEF T!TaskRecord
<1>3. /\ (x1.state \in {"running", "cancelling"} => x1.controller # 0)
      /\ (x1.state = "queued" => x1.controller = 0)
  BY <1>1 DEF T!WellFormed
<1>4. x1.state = "absent" => x1.controller = 0
  BY <1>1 DEF TaskRowShape, T!NoTask
<1> QED BY <1>1, <1>2, <1>3, <1>4 DEF Controllers

\* Settling the row, unless it ended.
LEMMA SettleStep ==
  ASSUME T!DetachedShape, x1.state # "absent", NEW s \in T!Settlement,
         x1.state = "queued" => s = "failed",
         x1' = IF x1.state \in T!Terminal THEN x1 ELSE T!Settled(x1, s, 0)
  PROVE  /\ TaskRowShape' /\ Onward /\ x1'.state \in T!Terminal
         /\ (x1' = x1 \/ x1'.failure # "worker_lost")
<1>1. CASE x1.state \in T!Terminal
  BY <1>1, RowKnown DEF TaskRowShape, Onward
<1>2. CASE x1.state \notin T!Terminal
  <2>1. x1' = T!Settled(x1, s, 0) /\ x1.state \in T!Active
    BY <1>2, RowKnown
  <2>2. T!CanSettle(x1, s) /\ s \in T!Terminal
    BY <2>1 DEF T!CanSettle, T!Active, T!Settlement
  <2>3. /\ x1' \in T!TaskRecord(Controllers) /\ T!WellFormed(x1') /\ x1'.state = s
        /\ x1'.controller = x1.controller /\ x1'.failure # "worker_lost"
    BY <2>1, <2>2, RowKnown, SettledRow
  <2>5. s # "absent"
    BY <2>2 DEF T!Terminal
  <2> QED BY <2>1, <2>2, <2>3, <2>5 DEF TaskRowShape, Onward, Controllers
<1> QED BY <1>1, <1>2

\* Interrupting the row, unless it ended.
LEMMA InterruptStep ==
  ASSUME T!DetachedShape, x1.state # "absent",
         NEW code \in {"worker_lost", "control_unavailable"}, T!Interrupt(code)
  PROVE  /\ TaskRowShape' /\ Onward /\ x1'.state \in T!Terminal
         /\ (x1' = x1 \/ x1'.failure = code)
<1>1. CASE x1.state \in T!Terminal
  <2>1. x1' = x1
    BY <1>1 DEF T!Interrupt
  <2> QED BY <1>1, <2>1, RowKnown DEF TaskRowShape, Onward
<1>2. CASE x1.state \notin T!Terminal
  <2>1. x1' = T!Interrupted(x1, code, 0) /\ x1.state \in T!Active
    BY <1>2, RowKnown DEF T!Interrupt
  <2>2. /\ x1' \in T!TaskRecord(Controllers) /\ T!WellFormed(x1') /\ x1'.state = "interrupted"
        /\ x1'.controller = x1.controller /\ x1'.failure = code
    BY <2>1, RowKnown, InterruptedRow
  <2>3. "interrupted" \in T!Terminal
    BY DEF T!Terminal
  <2> QED BY <2>1, <2>2, <2>3 DEF TaskRowShape, Onward, Controllers
<1> QED BY <1>1, <1>2

\* Asking for the end of a row that may be cancelled.
LEMMA CancelStep ==
  ASSUME T!DetachedShape, T!CanCancel(x1), x1' = T!CancelRequested(x1, 0)
  PROVE  /\ TaskRowShape' /\ Onward /\ x1'.failure # "worker_lost"
         /\ x1'.state = (IF x1.state = "queued" THEN "cancelled" ELSE "cancelling")
<1>1. /\ x1' \in T!TaskRecord(Controllers) /\ T!WellFormed(x1') /\ x1'.controller = x1.controller
      /\ x1'.state = (IF x1.state = "queued" THEN "cancelled" ELSE "cancelling")
  BY RowKnown, CancelledRow
<1>2. x1'.failure # "worker_lost"
  BY <1>1 DEF T!WellFormed, T!Active
<1>3. x1.state \in T!Active /\ x1'.state \in T!Active \cup T!Terminal /\ x1'.state # "absent"
  BY <1>1 DEF T!CanCancel, T!Active, T!Terminal
<1> QED BY <1>1, <1>2, <1>3 DEF TaskRowShape, Onward, Controllers

\* The worker's fields.
LEMMA WorkerFields ==
  ASSUME T!DetachedShape
  PROVE  /\ x4.gen \in 0 .. MaxLegs /\ x4.active \in BOOLEAN /\ x4.token \in BOOLEAN
         /\ x4.outcome \in T!Settlement \cup {"none"}
         /\ x4.at \in T!Unattached \cup T!Attended \cup {"request", "dispatch", "settle", "gone"}
  BY DEF T!DetachedShape, T!WorkerState

\* The worker goes on to another place.
LEMMA WorkerMoves ==
  ASSUME T!DetachedShape, NEW to \in T!Unattached \cup T!Attended \cup {"request", "dispatch", "settle", "gone"},
         T!WorkerGoto(to)
  PROVE  /\ x4' \in T!WorkerState /\ x4'.at = to /\ x4'.gen = x4.gen
         /\ x4'.outcome = x4.outcome /\ x4'.active = x4.active
  BY DEF T!DetachedShape, T!WorkerState, T!WorkerGoto

\* The fields of a group, and of one that was signalled.
LEMMA GroupFields ==
  ASSUME T!DetachedShape, NEW g \in T!Run
  PROVE  /\ x5[g] \in T!HarnessGroup
         /\ x5[g].leader \in {"none", "alive", "zombie", "gone"}
         /\ x5[g].work \in {"none", "alive", "dead"}
  BY DEF T!DetachedShape, T!HarnessGroup

\* A group that lost its leader.
LEMMA LeaderEnded ==
  ASSUME NEW h \in T!HarnessGroup, NEW at
  PROVE  /\ T!LeaderEnds(h, at) \in T!HarnessGroup /\ T!LeaderEnds(h, at).work = h.work
         /\ T!LeaderEnds(h, at).leader = (IF h.leader # "alive" THEN h.leader
                                        ELSE IF at \in T!NotAlive THEN "gone" ELSE "zombie")
<1>1. (IF h.leader # "alive" THEN h.leader ELSE IF at \in T!NotAlive THEN "gone" ELSE "zombie")
        \in {"none", "alive", "zombie", "gone"}
  BY DEF T!HarnessGroup
<1> QED BY <1>1 DEF T!LeaderEnds, T!HarnessGroup

\* A group that was killed.
LEMMA GroupKilled ==
  ASSUME NEW h \in T!HarnessGroup, NEW at
  PROVE  /\ T!Killed(h, at) \in T!HarnessGroup
         /\ T!Killed(h, at).work = (IF h.work = "alive" THEN "dead" ELSE h.work)
         /\ T!Killed(h, at).leader = (IF h.leader # "alive" THEN h.leader
                                    ELSE IF at \in T!NotAlive THEN "gone" ELSE "zombie")
<1> DEFINE e == T!LeaderEnds(h, at)
<1>1. /\ e \in T!HarnessGroup /\ e.work = h.work
      /\ e.leader = (IF h.leader # "alive" THEN h.leader
                     ELSE IF at \in T!NotAlive THEN "gone" ELSE "zombie")
  BY LeaderEnded
<1>2. T!Killed(h, at) = [e EXCEPT !.work = IF h.work = "alive" THEN "dead" ELSE h.work]
  BY DEF T!Killed
<1> HIDE DEF e
<1>3. (IF h.work = "alive" THEN "dead" ELSE h.work) \in {"none", "alive", "dead"}
  BY DEF T!HarnessGroup
<1> QED BY <1>1, <1>2, <1>3 DEF T!HarnessGroup

\* One group is killed.
LEMMA KillStep ==
  ASSUME T!DetachedShape, NEW k \in T!Run,
         x5' = [x5 EXCEPT ![k] = T!Killed(x5[k], x4.at)]
  PROVE  /\ x5' \in [T!Run -> T!HarnessGroup] /\ \A g \in T!Run : Fades(g)
         /\ x5'[k].work # "alive" /\ x5'[k].leader # "alive"
         /\ \A g \in T!Run \ {k} : x5'[g] = x5[g]
<1>1. x5 \in [T!Run -> T!HarnessGroup] /\ x5[k] \in T!HarnessGroup
  BY DEF T!DetachedShape
<1>2. PICK h \in T!HarnessGroup : h = T!Killed(x5[k], x4.at)
  BY <1>1, GroupKilled
<1>3. /\ h.work = (IF x5[k].work = "alive" THEN "dead" ELSE x5[k].work)
      /\ h.leader = (IF x5[k].leader # "alive" THEN x5[k].leader
                     ELSE IF x4.at \in T!NotAlive THEN "gone" ELSE "zombie")
  BY <1>1, <1>2, GroupKilled
<1>4. x5' = [x5 EXCEPT ![k] = h]
  BY <1>2
<1>5. x5' \in [T!Run -> T!HarnessGroup] /\ x5'[k] = h /\ \A g \in T!Run \ {k} : x5'[g] = x5[g]
  BY <1>1, <1>4
<1>6. \A g \in T!Run : Fades(g)
  BY <1>3, <1>5 DEF Fades
<1> QED BY <1>3, <1>5, <1>6

\* One leader is killed.
LEMMA LeaderStep ==
  ASSUME T!DetachedShape, NEW k \in T!Run,
         x5' = [x5 EXCEPT ![k] = T!LeaderEnds(x5[k], x4.at)]
  PROVE  x5' \in [T!Run -> T!HarnessGroup] /\ \A g \in T!Run : Fades(g)
<1>1. x5 \in [T!Run -> T!HarnessGroup] /\ x5[k] \in T!HarnessGroup
  BY DEF T!DetachedShape
<1>2. PICK h \in T!HarnessGroup : h = T!LeaderEnds(x5[k], x4.at)
  BY <1>1, LeaderEnded
<1>3. /\ h.work = x5[k].work
      /\ h.leader = (IF x5[k].leader # "alive" THEN x5[k].leader
                     ELSE IF x4.at \in T!NotAlive THEN "gone" ELSE "zombie")
  BY <1>1, <1>2, LeaderEnded
<1>4. x5' = [x5 EXCEPT ![k] = h]
  BY <1>2
<1>5. x5' \in [T!Run -> T!HarnessGroup] /\ x5'[k] = h /\ \A g \in T!Run \ {k} : x5'[g] = x5[g]
  BY <1>1, <1>4
<1>6. \A g \in T!Run : Fades(g)
  BY <1>3, <1>5 DEF Fades
<1> QED BY <1>5, <1>6

\* One field of one group is set.
LEMMA LeaderSet ==
  ASSUME T!DetachedShape, NEW k \in T!Run, NEW v \in {"none", "alive", "zombie", "gone"},
         x5' = [x5 EXCEPT ![k].leader = v]
  PROVE  /\ x5' \in [T!Run -> T!HarnessGroup] /\ x5'[k].leader = v /\ x5'[k].work = x5[k].work
         /\ \A g \in T!Run \ {k} : x5'[g] = x5[g]
<1>1. PICK h \in T!HarnessGroup : h = x5[k]
  BY DEF T!DetachedShape
<1>2. PICK n \in T!HarnessGroup : n = [h EXCEPT !.leader = v]
  BY DEF T!HarnessGroup
<1>3. n.leader = v /\ n.work = h.work
  BY <1>2 DEF T!HarnessGroup
<1>4. x5' = [x5 EXCEPT ![k] = n]
  BY <1>1, <1>2
<1> QED BY <1>1, <1>3, <1>4 DEF T!DetachedShape

\* The members of one group are set.
LEMMA WorkSet ==
  ASSUME T!DetachedShape, NEW k \in T!Run, NEW v \in {"none", "alive", "dead"},
         x5' = [x5 EXCEPT ![k].work = v]
  PROVE  /\ x5' \in [T!Run -> T!HarnessGroup] /\ x5'[k].work = v /\ x5'[k].leader = x5[k].leader
         /\ \A g \in T!Run \ {k} : x5'[g] = x5[g]
<1>1. PICK h \in T!HarnessGroup : h = x5[k]
  BY DEF T!DetachedShape
<1>2. PICK n \in T!HarnessGroup : n = [h EXCEPT !.work = v]
  BY DEF T!HarnessGroup
<1>3. n.work = v /\ n.leader = h.leader
  BY <1>2 DEF T!HarnessGroup
<1>4. x5' = [x5 EXCEPT ![k] = n]
  BY <1>1, <1>2
<1> QED BY <1>1, <1>3, <1>4 DEF T!DetachedShape

\* The worker is gone.
LEMMA GoneStep ==
  ASSUME T!DetachedShape, T!WorkerGone
  PROVE  /\ x4' \in T!WorkerState /\ x4'.at = "gone" /\ x4'.gen = x4.gen
         /\ x5' \in [T!Run -> T!HarnessGroup]
         /\ \A g \in T!Run :
              /\ x5'[g].work = x5[g].work
              /\ x5'[g].leader = (IF x5[g].leader = "zombie" THEN "gone" ELSE x5[g].leader)
<1>1. T!WorkerGoto("gone")
  BY DEF T!WorkerGone, T!WorkerGoto
<1>2. x4' \in T!WorkerState /\ x4'.at = "gone" /\ x4'.gen = x4.gen
  BY <1>1, WorkerMoves
<1> DEFINE n(g) == IF x5[g].leader = "zombie" THEN [x5[g] EXCEPT !.leader = "gone"] ELSE x5[g]
<1>3. ASSUME NEW g \in T!Run
      PROVE  /\ n(g) \in T!HarnessGroup /\ n(g).work = x5[g].work
             /\ n(g).leader = (IF x5[g].leader = "zombie" THEN "gone" ELSE x5[g].leader)
  <2>1. PICK h \in T!HarnessGroup : h = x5[g]
    BY DEF T!DetachedShape
  <2>2. n(g) = IF h.leader = "zombie" THEN [h EXCEPT !.leader = "gone"] ELSE h
    BY <2>1
  <2> QED BY ONLY <2>1, <2>2 DEF T!HarnessGroup
<1>4. x5' = [g \in T!Run |-> n(g)]
  BY DEF T!WorkerGone
<1> HIDE DEF n
<1>5. x5' \in [T!Run -> T!HarnessGroup] /\ \A g \in T!Run : x5'[g] = n(g)
  BY <1>3, <1>4
<1> QED BY <1>2, <1>3, <1>5

\* The commands of an empty step: one that goes on.
LEMMA CommandMoves ==
  ASSUME T!DetachedShape, NEW c \in Cancellers,
         NEW to \in T!Engaged \cup T!Cleaning \cup {"away", "start", "dequeue", "refuse", "report", "clean", "failed"},
         T!CanGoto(c, to)
  PROVE  /\ x9' \in [Cancellers -> T!Command] /\ x9'[c].at = to
         /\ x9'[c].code = x9[c].code /\ x9'[c].via = x9[c].via
         /\ \A d \in Cancellers \ {c} : x9'[d] = x9[d]
<1>1. PICK k \in T!Command : k = x9[c]
  BY DEF T!DetachedShape
<1>2. PICK n \in T!Command : n = [k EXCEPT !.at = to]
  BY DEF T!Command
<1>3. n.at = to /\ n.code = k.code /\ n.via = k.via
  BY <1>2 DEF T!Command
<1>4. x9' = [x9 EXCEPT ![c] = n]
  BY <1>1, <1>2 DEF T!CanGoto
<1> QED BY <1>1, <1>3, <1>4 DEF T!DetachedShape

\* One that goes on with the code of an interruption.
LEMMA CommandGives ==
  ASSUME T!DetachedShape, NEW c \in Cancellers, NEW code \in {"worker_lost", "control_unavailable"},
         T!CanGive(c, "orphan", code)
  PROVE  /\ x9' \in [Cancellers -> T!Command] /\ x9'[c].at = "orphan" /\ x9'[c].code = code
         /\ \A d \in Cancellers \ {c} : x9'[d] = x9[d]
<1>1. PICK k \in T!Command : k = x9[c]
  BY DEF T!DetachedShape
<1>2. [k EXCEPT !.at = "orphan", !.code = code] \in T!Command
  BY DEF T!Command, T!Engaged
<1>3. PICK n \in T!Command : n = [k EXCEPT !.at = "orphan", !.code = code]
  BY <1>2
<1>4. n.at = "orphan" /\ n.code = code
  BY <1>3 DEF T!Command
<1>5. x9' = [x9 EXCEPT ![c] = n]
  BY <1>1, <1>3 DEF T!CanGive
<1> QED BY <1>1, <1>4, <1>5 DEF T!DetachedShape

\* What a command knows stays true when others go forward.
LEMMA CommandKept ==
  ASSUME NEW c \in Cancellers, T!CommandSound(c), Forward, x9'[c] = x9[c]
  PROVE  T!CommandSound(c)'
<1>1. x9[c].at \notin {"away", "start"} => x1'.state # "absent"
  BY DEF T!CommandSound, Forward
<1>2. x9[c].at \in T!Engaged => x1'.controller # 0
  BY DEF T!CommandSound, Forward
<1>3. x9[c].at \in {"orphan", "orphaned"} => ~T!WorkerAlive' /\ x9[c].code # "none"
  BY DEF T!CommandSound, Forward, T!Engaged
<1>4. x9[c].at \in T!Cleaning \cup {"clean", "report"} => x1'.state \in T!Terminal
  BY DEF T!CommandSound, Forward
<1>5. x9[c].at \in T!Cleaning => x1'.controller = 0 \/ ~T!WorkerAlive'
  BY DEF T!CommandSound, Forward
<1>6. x9[c].at = "ok" => \A g \in T!Run : x5'[g].work # "alive"
  BY DEF T!CommandSound, Forward, T!Cleaning, T!Working
<1>7. x9[c].at = "ok" => \A g \in T!Run : ~T!Working(g)'
  BY <1>6 DEF T!Working
<1> QED BY <1>1, <1>2, <1>3, <1>4, <1>5, <1>7 DEF T!CommandSound

\* No command moved.
LEMMA CommandsLeft ==
  ASSUME T!CommandsSound, Forward, x9' = x9
  PROVE  T!CommandsSound'
<1> SUFFICES ASSUME NEW c \in Cancellers PROVE T!CommandSound(c)'
  BY DEF T!CommandsSound
<1> QED BY CommandKept DEF T!CommandsSound

\* One command moved.
LEMMA CommandsMoved ==
  ASSUME T!CommandsSound, Forward, NEW c \in Cancellers, T!CommandSound(c)',
         \A d \in Cancellers \ {c} : x9'[d] = x9[d]
  PROVE  T!CommandsSound'
<1> SUFFICES ASSUME NEW d \in Cancellers PROVE T!CommandSound(d)'
  BY DEF T!CommandsSound
<1>1. CASE d = c
  BY <1>1
<1>2. CASE d # c
  BY <1>2, CommandKept DEF T!CommandsSound
<1> QED BY <1>1, <1>2

\* A task declared lost stays so.
LEMMA LostKept ==
  ASSUME T!LostIsDead, T!AttachSound, Forward, x1' = x1 \/ x1'.failure # "worker_lost"
  PROVE  T!LostIsDead'
<1> SUFFICES ASSUME x1'.state = "interrupted", x1'.failure = "worker_lost"
             PROVE  ~T!WorkerAlive' /\ \A g \in T!Run : ~T!Working(g)'
  BY DEF T!LostIsDead
<1>1. x1' = x1 /\ x1.controller # 0 /\ ~T!WorkerAlive /\ \A g \in T!Run : ~T!Working(g)
  BY DEF T!LostIsDead, T!AttachSound
<1>2. ~T!WorkerAlive' /\ \A g \in T!Run : x5'[g].work # "alive"
  BY <1>1 DEF Forward, T!Working
<1> QED BY <1>2 DEF T!Working

\* Where a leader lives, and what an unfinished harness means.
LEMMA LeaderAlive ==
  ASSUME T!DetachedShape, T!AttachSound, T!HarnessSound, NEW g \in T!Run, x5[g].leader = "alive", T!WorkerAlive
  PROVE  g = x4.gen /\ x4.at \in T!Attended
<1>1. x4.gen \in 0 .. MaxLegs /\ g \in 1 .. MaxLegs
  BY WorkerFields DEF T!Run
<1>2. g = x4.gen
  BY <1>1 DEF T!HarnessSound
<1>3. x4.at \notin T!Unattached \cup {"request", "gone"}
  BY <1>1, <1>2 DEF T!AttachSound, T!WorkerAlive, T!NotAlive
<1>4. x4.at \notin {"dispatch", "settle"}
  BY <1>2 DEF T!HarnessSound
<1> QED BY <1>2, <1>3, <1>4, WorkerFields

\* Groups that fade leave the harnesses sound.
LEMMA FadesKeep ==
  ASSUME T!DetachedShape, T!AttachSound, T!HarnessSound, \A g \in T!Run : Fades(g), SidecarKept,
         x4'.at = x4.at, x4'.gen = x4.gen
  PROVE  T!HarnessSound'
<1>1. ASSUME NEW g \in T!Run
      PROVE  /\ g > x4.gen => x5'[g].leader = "none" /\ x5'[g].work = "none"
             /\ g < x4.gen => x5'[g].leader = "gone"
             /\ x5'[g].leader = "zombie" => x4.at \in T!Attended
             /\ g = x4.gen /\ x4.at \in T!Attended => x5'[g].leader \in {"alive", "zombie"}
             /\ g = x4.gen /\ x4.at \in {"dispatch", "settle"} => x5'[g].leader = "gone"
  <2>1. Fades(g)
    OBVIOUS
  <2>2. /\ g > x4.gen => x5[g].leader = "none" /\ x5[g].work = "none"
        /\ g < x4.gen => x5[g].leader = "gone"
        /\ x5[g].leader = "zombie" => x4.at \in T!Attended
        /\ g = x4.gen /\ x4.at \in T!Attended => x5[g].leader \in {"alive", "zombie"}
        /\ g = x4.gen /\ x4.at \in {"dispatch", "settle"} => x5[g].leader = "gone"
    BY DEF T!HarnessSound
  <2>3. x5[g].leader = "alive" /\ x4.at \notin T!NotAlive => x4.at \in T!Attended
    BY LeaderAlive DEF T!WorkerAlive
  <2>4. x4.at \in T!Attended => x4.at \notin T!NotAlive
    BY DEF T!Attended, T!NotAlive
  <2> QED BY <2>1, <2>2, <2>3, <2>4 DEF Fades
<1>2. x4.at \in {"release", "run"} => x6' = x4.gen
  BY DEF T!HarnessSound, SidecarKept
<1>3. ASSUME NEW g \in T!Run, x5'[g].work = "alive"
      PROVE  x6' = g
  <2>1. T!Working(g)
    BY <1>3 DEF Fades, T!Working
  <2> QED BY <2>1 DEF T!HarnessSound, T!WorkIsOnRecord, SidecarKept
<1>4. T!WorkIsOnRecord'
  BY <1>3 DEF T!WorkIsOnRecord, T!Working
<1> QED BY <1>1, <1>2, <1>4 DEF T!HarnessSound

\* A worker that is gone leaves them sound too.
LEMMA GoneKeeps ==
  ASSUME T!DetachedShape, T!HarnessSound, T!WorkerGone, x6' = x6
  PROVE  T!HarnessSound'
<1>1. /\ x4'.at = "gone" /\ x4'.gen = x4.gen
      /\ \A g \in T!Run : /\ x5'[g].work = x5[g].work
                          /\ x5'[g].leader = (IF x5[g].leader = "zombie" THEN "gone" ELSE x5[g].leader)
  BY GoneStep
<1>2. "gone" \notin T!Attended \cup {"dispatch", "settle", "release", "run"}
  BY DEF T!Attended
<1>3. T!WorkIsOnRecord'
  BY <1>1 DEF T!HarnessSound, T!WorkIsOnRecord, T!Working
<1> QED BY <1>1, <1>2, <1>3 DEF T!HarnessSound

\* nested_harness_group_pending is false only if nobody works.
LEMMA NothingNestedKeeps ==
  ASSUME T!DetachedShape, T!AttachSound, T!HarnessSound, T!NothingNested
  PROVE  SidecarKept /\ x6' = 0 /\ \A g \in T!Run : ~T!Working(g)
<1>1. \A g \in T!Run : ~T!Working(g)
  BY DEF T!NothingNested, T!GroupAlive, T!HarnessSound, T!WorkIsOnRecord, T!Run
<1>2. x6 = 0 \/ (x6 \in T!Run /\ x5[x6].leader \notin {"alive", "zombie"})
  BY DEF T!NothingNested, T!GroupAlive, T!DetachedShape, T!Run
<1>3. CASE x6 = 0
  BY <1>1, <1>3 DEF T!NothingNested, SidecarKept
<1>4. CASE x6 # 0
  <2>1. x4.at \notin {"release", "run"}
    BY <1>2, <1>4 DEF T!HarnessSound, T!Attended
  <2> QED BY <1>1, <2>1 DEF T!NothingNested, SidecarKept
<1> QED BY <1>3, <1>4

\* signal_nested_harness signals the group the sidecar names, or nobody.
LEMMA NestedStep ==
  ASSUME T!ScenariosOK, T!DetachedShape, T!AttachSound, T!HarnessSound, NEW ok \in BOOLEAN, T!SignalNested(ok)
  PROVE  /\ x5' \in [T!Run -> T!HarnessGroup] /\ \A g \in T!Run : Fades(g)
         /\ SidecarKept /\ x6' \in 0 .. MaxLegs /\ x4' = x4 /\ x8' = x8
<1>0. 0 \in 0 .. MaxLegs /\ x6 \in 0 .. MaxLegs
  BY DEF T!DetachedShape, T!ScenariosOK
<1>1. CASE T!NoSignal /\ x6' = x6
  BY <1>0, <1>1 DEF T!NoSignal, SidecarKept, Fades, T!DetachedShape
<1>2. CASE /\ x6 # 0 /\ x5' = [x5 EXCEPT ![x6] = T!Killed(x5[x6], x4.at)]
           /\ UNCHANGED <<x4, x8, x6>>
  <2>1. x6 \in T!Run
    BY <1>0, <1>2 DEF T!Run
  <2> QED BY <1>0, <1>2, <2>1, KillStep DEF SidecarKept
<1>3. CASE /\ x6 # 0 /\ T!Identity(x6) = "dead" /\ ~T!GroupAlive(x6)
           /\ x6' = 0 /\ T!NoSignal
  <2>1. T!NothingNested
    BY <1>3 DEF T!NothingNested
  <2> QED BY <1>0, <1>3, <2>1, NothingNestedKeeps DEF T!NoSignal, Fades, T!DetachedShape
<1> QED BY <1>1, <1>2, <1>3 DEF T!SignalNested

\* The submitting command goes on, or not; it settles only without a worker.
ParentStep ==
  \/ x2' = x2
  \/ /\ x2 # "create" /\ x2' \in {"handoff", "settle", "settled", "done"}
     /\ x2' \in {"settle", "settled"} => ~T!WorkerAlive'
     /\ x2' = "settled" => x1'.state \in T!Terminal

\* The worker stays where it is.
WorkerKept ==
  /\ x4' \in T!WorkerState /\ x4'.at = x4.at /\ x4'.gen = x4.gen
  /\ x4'.outcome = x4.outcome

\* There is a row before there is a worker, whatever the submitting command does.
LEMMA SpawnKept ==
  ASSUME T!SpawnSound, Onward, ParentStep,
         x4'.at # "none" => x4.at # "none" \/ x2 \notin {"create", "spawn"},
         x2 \in {"settle", "settled"} => ~T!WorkerAlive'
  PROVE  T!SpawnSound'
<1>0. x1.state \in T!Active => x1.state # "absent" /\ x1.state \notin T!Terminal
  BY DEF T!Active, T!Terminal
<1>1. x1'.state = "absent" <=> x1.state = "absent"
  BY <1>0 DEF Onward, T!Active, T!Terminal
<1>2. x1.state \in T!Terminal => x1'.state \in T!Terminal
  BY <1>0 DEF Onward
<1> QED BY <1>1, <1>2 DEF T!SpawnSound, ParentStep

\* A row that goes on says no less to the commands.
LEMMA OnwardIsForward ==
  ASSUME Onward, x1.controller # 0 /\ ~T!WorkerAlive => ~T!WorkerAlive',
         \A g \in T!Run : x5'[g].work = "alive" => x5[g].work = "alive"
  PROVE  Forward
<1>0. x1.state \in T!Active => x1.state # "absent" /\ x1.state \notin T!Terminal
  BY DEF T!Active, T!Terminal
<1>1. x1.state \in T!Terminal => x1' = x1
  BY <1>0 DEF Onward
<1>2. x1.state # "absent" => x1'.state # "absent"
  BY DEF Onward, T!Active, T!Terminal
<1>3. x1.controller # 0 => x1'.controller # 0
  BY DEF Onward
<1> QED BY <1>1, <1>2, <1>3 DEF Forward

\* A step that sends at most a signal to a harness.
LEMMA DetachedQuietStep ==
  ASSUME T!DetachedShape, T!SpawnSound, T!AttachSound, T!HarnessSound, T!SignalsAreExact,
         TaskRowShape', Onward, x1' = x1 \/ x1'.failure # "worker_lost" \/ x1.controller # 0,
         UNCHANGED <<x10, x7, x8>>, WorkerKept, ParentStep, x3' \in {"open", "full", "broken"},
         x5' \in [T!Run -> T!HarnessGroup], \A g \in T!Run : Fades(g),
         SidecarKept, x6' \in 0 .. MaxLegs, x9' \in [Cancellers -> T!Command]
  PROVE  /\ T!DetachedShape' /\ T!SpawnSound' /\ T!AttachSound' /\ T!HarnessSound' /\ T!SignalsAreExact'
         /\ Forward
<1>0. T!WorkerAlive' <=> T!WorkerAlive
  BY DEF WorkerKept, T!WorkerAlive
<1>1. T!DetachedShape'
  <2>1. x2' \in {"create", "spawn", "handoff", "settle", "settled", "done"}
    BY DEF T!DetachedShape, ParentStep
  <2> QED BY <2>1 DEF T!DetachedShape, TaskRowShape, WorkerKept
<1>2. T!SpawnSound'
  <2>1. x2 \in {"settle", "settled"} => ~T!WorkerAlive'
    BY <1>0 DEF T!SpawnSound
  <2> QED BY <2>1, SpawnKept DEF WorkerKept
<1>3. T!AttachSound'
  BY <1>0 DEF T!AttachSound, Onward, WorkerKept
<1>4. T!HarnessSound'
  BY FadesKeep DEF WorkerKept
<1>5. Forward
  <2>1. \A g \in T!Run : x5'[g].work = "alive" => x5[g].work = "alive"
    BY DEF Fades
  <2> QED BY <1>0, <2>1, OnwardIsForward
<1> QED BY <1>1, <1>2, <1>3, <1>4, <1>5 DEF T!SignalsAreExact

\* A step in which the worker ends.
LEMMA DeathStep ==
  ASSUME T!DetachedShape, T!SpawnSound, T!AttachSound, T!HarnessSound, T!SignalsAreExact,
         TaskRowShape', Onward, x1' = x1 \/ x1'.failure # "worker_lost",
         UNCHANGED <<x10, x7, x8, x6>>, T!WorkerGone,
         x4.at # "none" \/ x2 \notin {"create", "spawn"}, ParentStep,
         x3' \in {"open", "full", "broken"}, x9' \in [Cancellers -> T!Command]
  PROVE  /\ T!DetachedShape' /\ T!SpawnSound' /\ T!AttachSound' /\ T!HarnessSound' /\ T!SignalsAreExact'
         /\ Forward /\ ~T!WorkerAlive'
<1>0. /\ x4' \in T!WorkerState /\ x4'.at = "gone" /\ x4'.gen = x4.gen
      /\ x5' \in [T!Run -> T!HarnessGroup] /\ \A g \in T!Run : x5'[g].work = x5[g].work
  BY GoneStep
<1>1. ~T!WorkerAlive'
  BY <1>0 DEF T!WorkerAlive, T!NotAlive
<1>2. T!DetachedShape'
  <2>1. x2' \in {"create", "spawn", "handoff", "settle", "settled", "done"}
    BY DEF T!DetachedShape, ParentStep
  <2> QED BY <1>0, <2>1 DEF T!DetachedShape, TaskRowShape
<1>3. T!SpawnSound'
  BY <1>1, SpawnKept
<1>4. T!AttachSound'
  <2>1. "gone" \notin T!Unattached \cup T!Attended \cup {"request", "settle"}
    BY DEF T!Unattached, T!Attended
  <2>2. x1'.controller = x1.controller
    BY DEF Onward
  <2> QED BY <1>0, <1>1, <2>1, <2>2 DEF T!AttachSound
<1>5. T!HarnessSound'
  BY GoneKeeps
<1>6. Forward
  BY <1>0, <1>1, OnwardIsForward
<1> QED BY <1>1, <1>2, <1>3, <1>4, <1>5, <1>6 DEF T!SignalsAreExact

\* A row that is left alone.
LEMMA RowLeft ==
  ASSUME T!DetachedShape, x1' = x1
  PROVE  TaskRowShape' /\ Onward
  BY DEF T!DetachedShape, TaskRowShape, Onward

\* Groups that are left alone.
LEMMA GroupsLeft ==
  ASSUME T!DetachedShape, x5' = x5
  PROVE  x5' \in [T!Run -> T!HarnessGroup] /\ \A g \in T!Run : Fades(g)
  BY DEF T!DetachedShape, Fades

\* The members end, and the sentinel with them.
LEMMA GroupEndsKeeps ==
  ASSUME T!ScenariosOK, T!DetachedInv, NEW g \in T!Run, T!GroupEnds(g)
  PROVE  T!DetachedInv'
<1>0. T!DetachedShape /\ T!SpawnSound /\ T!AttachSound /\ T!HarnessSound /\ T!CommandsSound
      /\ T!LostIsDead /\ T!SignalsAreExact
  BY DEF T!DetachedInv
<1>1. UNCHANGED <<x10, x1, x2, x3, x4, x6, x8, x9, x7>>
  BY DEF T!GroupEnds, T!world
<1>2. x5' \in [T!Run -> T!HarnessGroup] /\ \A h \in T!Run : Fades(h)
  BY <1>0, KillStep DEF T!GroupEnds
<1>3. /\ TaskRowShape' /\ Onward /\ SidecarKept /\ x6' \in 0 .. MaxLegs
      /\ x9' \in [Cancellers -> T!Command] /\ WorkerKept /\ ParentStep /\ x3' \in {"open", "full", "broken"}
  BY <1>0, <1>1, RowLeft DEF SidecarKept, T!DetachedShape, WorkerKept, ParentStep
<1>4. /\ T!DetachedShape' /\ T!SpawnSound' /\ T!AttachSound' /\ T!HarnessSound' /\ T!SignalsAreExact'
      /\ Forward
  BY <1>0, <1>1, <1>2, <1>3, DetachedQuietStep
<1> QED BY <1>0, <1>1, <1>4, CommandsLeft, LostKept DEF T!DetachedInv

\* A sentinel is killed alone.
LEMMA SentinelKilledKeeps ==
  ASSUME T!ScenariosOK, T!DetachedInv, NEW g \in T!Run, T!SentinelKilled(g)
  PROVE  T!DetachedInv'
<1>0. T!DetachedShape /\ T!SpawnSound /\ T!AttachSound /\ T!HarnessSound /\ T!CommandsSound
      /\ T!LostIsDead /\ T!SignalsAreExact
  BY DEF T!DetachedInv
<1>1. UNCHANGED <<x10, x1, x2, x3, x4, x6, x8, x9, x7>>
  BY DEF T!SentinelKilled, T!world
<1>2. x5' \in [T!Run -> T!HarnessGroup] /\ \A h \in T!Run : Fades(h)
  BY <1>0, LeaderStep DEF T!SentinelKilled
<1>3. /\ TaskRowShape' /\ Onward /\ SidecarKept /\ x6' \in 0 .. MaxLegs
      /\ x9' \in [Cancellers -> T!Command] /\ WorkerKept /\ ParentStep /\ x3' \in {"open", "full", "broken"}
  BY <1>0, <1>1, RowLeft DEF SidecarKept, T!DetachedShape, WorkerKept, ParentStep
<1>4. /\ T!DetachedShape' /\ T!SpawnSound' /\ T!AttachSound' /\ T!HarnessSound' /\ T!SignalsAreExact'
      /\ Forward
  BY <1>0, <1>1, <1>2, <1>3, DetachedQuietStep
<1> QED BY <1>0, <1>1, <1>4, CommandsLeft, LostKept DEF T!DetachedInv

\* Members end that have no sentinel.
LEMMA MembersEndKeeps ==
  ASSUME T!ScenariosOK, T!DetachedInv, NEW g \in T!Run, T!MembersEnd(g)
  PROVE  T!DetachedInv'
<1>0. T!DetachedShape /\ T!SpawnSound /\ T!AttachSound /\ T!HarnessSound /\ T!CommandsSound
      /\ T!LostIsDead /\ T!SignalsAreExact
  BY DEF T!DetachedInv
<1>1. UNCHANGED <<x10, x1, x2, x3, x4, x6, x8, x9, x7>>
  BY DEF T!MembersEnd, T!world
<1>2. x5' \in [T!Run -> T!HarnessGroup] /\ \A h \in T!Run : Fades(h)
  <2>1. /\ x5' \in [T!Run -> T!HarnessGroup] /\ x5'[g].work = "dead" /\ x5'[g].leader = x5[g].leader
        /\ \A h \in T!Run \ {g} : x5'[h] = x5[h]
    BY <1>0, WorkSet DEF T!MembersEnd
  <2>2. x5[g].work = "alive"
    BY DEF T!MembersEnd, T!Working
  <2> QED BY <2>1, <2>2 DEF Fades
<1>3. /\ TaskRowShape' /\ Onward /\ SidecarKept /\ x6' \in 0 .. MaxLegs
      /\ x9' \in [Cancellers -> T!Command] /\ WorkerKept /\ ParentStep /\ x3' \in {"open", "full", "broken"}
  BY <1>0, <1>1, RowLeft DEF SidecarKept, T!DetachedShape, WorkerKept, ParentStep
<1>4. /\ T!DetachedShape' /\ T!SpawnSound' /\ T!AttachSound' /\ T!HarnessSound' /\ T!SignalsAreExact'
      /\ Forward
  BY <1>0, <1>1, <1>2, <1>3, DetachedQuietStep
<1> QED BY <1>0, <1>1, <1>4, CommandsLeft, LostKept DEF T!DetachedInv

\* A sentinel whose worker died finds its gate closed.
LEMMA GateClosesKeeps ==
  ASSUME T!ScenariosOK, T!DetachedInv, NEW g \in T!Run, T!GateCloses(g)
  PROVE  T!DetachedInv'
<1>0. T!DetachedShape /\ T!SpawnSound /\ T!AttachSound /\ T!HarnessSound /\ T!CommandsSound
      /\ T!LostIsDead /\ T!SignalsAreExact
  BY DEF T!DetachedInv
<1>1. UNCHANGED <<x10, x1, x2, x3, x4, x6, x8, x9, x7>>
  BY DEF T!GateCloses, T!world
<1>2. x5' \in [T!Run -> T!HarnessGroup] /\ \A h \in T!Run : Fades(h)
  <2>1. /\ x5' \in [T!Run -> T!HarnessGroup] /\ x5'[g].leader = "gone" /\ x5'[g].work = x5[g].work
        /\ \A h \in T!Run \ {g} : x5'[h] = x5[h]
    BY <1>0, LeaderSet DEF T!GateCloses
  <2>2. x5[g].leader = "alive" /\ x4.at \in T!NotAlive
    BY DEF T!GateCloses, T!WorkerAlive
  <2> QED BY <2>1, <2>2 DEF Fades
<1>3. /\ TaskRowShape' /\ Onward /\ SidecarKept /\ x6' \in 0 .. MaxLegs
      /\ x9' \in [Cancellers -> T!Command] /\ WorkerKept /\ ParentStep /\ x3' \in {"open", "full", "broken"}
  BY <1>0, <1>1, RowLeft DEF SidecarKept, T!DetachedShape, WorkerKept, ParentStep
<1>4. /\ T!DetachedShape' /\ T!SpawnSound' /\ T!AttachSound' /\ T!HarnessSound' /\ T!SignalsAreExact'
      /\ Forward
  BY <1>0, <1>1, <1>2, <1>3, DetachedQuietStep
<1> QED BY <1>0, <1>1, <1>4, CommandsLeft, LostKept DEF T!DetachedInv

\* A number is given to somebody else.
LEMMA ReusedKeeps ==
  ASSUME T!ScenariosOK, T!DetachedInv, NEW n \in {0} \cup T!Run, T!Reused(n)
  PROVE  T!DetachedInv'
<1>0. T!DetachedShape /\ T!SpawnSound /\ T!AttachSound /\ T!HarnessSound /\ T!CommandsSound
      /\ T!LostIsDead /\ T!SignalsAreExact
  BY DEF T!DetachedInv
<1>1. UNCHANGED <<x10, x1, x2, x3, x4, x6, x8, x9, x5>>
      /\ x7' \subseteq 0 .. MaxLegs
  BY <1>0 DEF T!Reused, T!world, T!DetachedShape, T!Run, T!ScenariosOK
<1>2. T!DetachedShape'
  BY <1>0, <1>1 DEF T!DetachedShape
<1>3. T!SpawnSound' /\ T!AttachSound' /\ T!HarnessSound' /\ T!SignalsAreExact'
  BY <1>0, <1>1 DEF T!SpawnSound, T!AttachSound, T!HarnessSound, T!SignalsAreExact, T!WorkIsOnRecord, T!Working, T!WorkerAlive
<1>4. Forward
  BY <1>1 DEF Forward, T!WorkerAlive
<1> QED BY <1>0, <1>1, <1>2, <1>3, <1>4, CommandsLeft, LostKept DEF T!DetachedInv

\* The row is created.
LEMMA CreateKeeps ==
  ASSUME T!ScenariosOK, T!DetachedInv, T!Create
  PROVE  T!DetachedInv'
<1>0. T!DetachedShape /\ T!SpawnSound /\ T!AttachSound /\ T!HarnessSound /\ T!CommandsSound
      /\ T!LostIsDead /\ T!SignalsAreExact
  BY DEF T!DetachedInv
<1>1. UNCHANGED <<x10, x3, x4, x5, x6, x7, x8, x9>> /\ x2' = "spawn"
  BY DEF T!Create, T!processes
<1>2. x1.state = "absent" /\ x1.controller = 0 /\ x4.at = "none" /\ x4.gen = 0
  <2>1. x1.state = "absent" /\ x4.at = "none"
    BY <1>0 DEF T!Create, T!SpawnSound
  <2> QED BY <1>0, <2>1, RowKnown DEF T!AttachSound, T!Unattached
<1>3. x1' \in T!TaskRecord(Controllers) /\ T!WellFormed(x1') /\ x1'.state = "queued"
  <2>1. x1' = T!Created(0) /\ 0 \in Controllers /\ 0 \in Nat
    BY DEF T!Create, Controllers
  <2> QED BY <2>1, CreatedRow
<1>4. x1'.controller = 0 /\ x1'.failure = "none"
  BY <1>3 DEF T!WellFormed, T!Active
<1>5. T!DetachedShape'
  BY <1>0, <1>1, <1>3 DEF T!DetachedShape, Controllers
<1>6. T!SpawnSound'
  BY <1>1, <1>2, <1>3 DEF T!SpawnSound
<1>7. T!AttachSound'
  BY <1>0, <1>1, <1>2, <1>4 DEF T!AttachSound, T!WorkerAlive, T!Unattached, T!NotAlive
<1>8. T!HarnessSound' /\ T!SignalsAreExact'
  BY <1>0, <1>1 DEF T!HarnessSound, T!SignalsAreExact, T!WorkIsOnRecord, T!Working
<1>9. Forward
  BY <1>1, <1>2, <1>3 DEF Forward, T!Terminal
<1> QED BY <1>0, <1>1, <1>4, <1>5, <1>6, <1>7, <1>8, <1>9, CommandsLeft, LostKept DEF T!DetachedInv

\* No harness was started yet, and none is.
LEMMA NoHarnessYet ==
  ASSUME T!DetachedShape, T!HarnessSound, x4.gen = 0, x4'.gen = 0, UNCHANGED <<x5, x6>>,
         x4'.at \notin T!Attended
  PROVE  T!HarnessSound'
<1>1. \A g \in T!Run : x5[g].leader = "none" /\ g # 0 /\ g > 0
  BY DEF T!HarnessSound, T!Run
<1>2. T!WorkIsOnRecord'
  BY DEF T!HarnessSound, T!WorkIsOnRecord, T!Working
<1>3. x4'.at \notin {"release", "run"}
  BY DEF T!Attended
<1>4. \A g \in T!Run : g > 0 => x5[g].leader = "none" /\ x5[g].work = "none"
  BY DEF T!HarnessSound
<1> QED BY <1>1, <1>2, <1>3, <1>4 DEF T!HarnessSound

\* A worker is spawned, or not.
LEMMA SpawnKeeps ==
  ASSUME T!ScenariosOK, T!DetachedInv, T!Spawn
  PROVE  T!DetachedInv'
<1>0. T!DetachedShape /\ T!SpawnSound /\ T!AttachSound /\ T!HarnessSound /\ T!CommandsSound
      /\ T!LostIsDead /\ T!SignalsAreExact
  BY DEF T!DetachedInv
<1>1. UNCHANGED <<x10, x1, x3, x5, x6, x7, x8, x9>> /\ x2 = "spawn"
  BY DEF T!Spawn
<1>2. x1.state # "absent" /\ x1.controller = 0 /\ x4.at = "none" /\ x4.gen = 0
  BY <1>0, <1>1 DEF T!SpawnSound, T!AttachSound, T!Unattached
<1>3. CASE x4' = [x4 EXCEPT !.at = "boot"] /\ x2' = "handoff"
  <2>1. T!WorkerGoto("boot")
    BY <1>3 DEF T!WorkerGoto
  <2>2. x4' \in T!WorkerState /\ x4'.at = "boot" /\ x4'.gen = x4.gen
    BY <1>0, <2>1, WorkerMoves DEF T!Unattached
  <2>3. T!DetachedShape'
    BY <1>0, <1>1, <1>3, <2>2 DEF T!DetachedShape
  <2>4. T!SpawnSound'
    BY <1>0, <1>1, <1>2, <1>3 DEF T!SpawnSound
  <2>5. T!AttachSound'
    BY <1>0, <1>1, <1>2, <2>2 DEF T!AttachSound, T!Unattached, T!Attended
  <2>6. T!HarnessSound'
    BY <1>0, <1>1, <1>2, <2>2, NoHarnessYet DEF T!Attended
  <2>7. Forward
    BY <1>1, <1>2 DEF Forward
  <2> QED BY <1>0, <1>1, <2>3, <2>4, <2>5, <2>6, <2>7, CommandsLeft, LostKept DEF T!DetachedInv, T!SignalsAreExact
<1>4. CASE x2' = "settle" /\ UNCHANGED x4
  <2>1. ~T!WorkerAlive'
    BY <1>2, <1>4 DEF T!WorkerAlive, T!NotAlive
  <2>2. /\ TaskRowShape' /\ Onward /\ SidecarKept /\ x6' \in 0 .. MaxLegs
        /\ x9' \in [Cancellers -> T!Command] /\ WorkerKept /\ ParentStep /\ x3' \in {"open", "full", "broken"}
    BY <1>0, <1>1, <1>4, <2>1, RowLeft DEF SidecarKept, T!DetachedShape, WorkerKept, ParentStep
  <2>3. x5' \in [T!Run -> T!HarnessGroup] /\ \A g \in T!Run : Fades(g)
    BY <1>0, <1>1, GroupsLeft
  <2>4. /\ T!DetachedShape' /\ T!SpawnSound' /\ T!AttachSound' /\ T!HarnessSound' /\ T!SignalsAreExact'
        /\ Forward
    BY <1>0, <1>1, <2>2, <2>3, DetachedQuietStep
  <2> QED BY <1>0, <1>1, <2>4, CommandsLeft, LostKept DEF T!DetachedInv
<1> QED BY <1>3, <1>4 DEF T!Spawn

\* The envelope is handed over, or the worker is killed.
LEMMA HandoffKeeps ==
  ASSUME T!ScenariosOK, T!DetachedInv, T!Handoff
  PROVE  T!DetachedInv'
<1>0. T!DetachedShape /\ T!SpawnSound /\ T!AttachSound /\ T!HarnessSound /\ T!CommandsSound
      /\ T!LostIsDead /\ T!SignalsAreExact
  BY DEF T!DetachedInv
<1>1. UNCHANGED <<x10, x1, x6, x7, x8, x9>> /\ x2 = "handoff"
  BY DEF T!Handoff
<1>2. /\ TaskRowShape' /\ Onward /\ SidecarKept /\ x6' \in 0 .. MaxLegs
      /\ x9' \in [Cancellers -> T!Command]
  BY <1>0, <1>1, RowLeft DEF SidecarKept, T!DetachedShape
<1>3. CASE x3' = "full" /\ x2' = "done" /\ UNCHANGED <<x4, x5>>
  <2>1. WorkerKept /\ ParentStep /\ x3' \in {"open", "full", "broken"}
    BY <1>0, <1>1, <1>3 DEF WorkerKept, ParentStep, T!DetachedShape
  <2>2. x5' \in [T!Run -> T!HarnessGroup] /\ \A g \in T!Run : Fades(g)
    BY <1>0, <1>3, GroupsLeft
  <2>3. /\ T!DetachedShape' /\ T!SpawnSound' /\ T!AttachSound' /\ T!HarnessSound' /\ T!SignalsAreExact'
        /\ Forward
    BY <1>0, <1>1, <1>2, <2>1, <2>2, DetachedQuietStep
  <2> QED BY <1>0, <1>1, <2>3, CommandsLeft, LostKept DEF T!DetachedInv
<1>4. CASE x3' = "broken" /\ x2' = "settle" /\ T!WorkerGone
  <2>1. x4'.at = "gone"
    BY <1>0, <1>4, GoneStep
  <2>2. ~T!WorkerAlive'
    BY <2>1 DEF T!WorkerAlive, T!NotAlive
  <2>3. ParentStep /\ x3' \in {"open", "full", "broken"}
    BY <1>1, <1>4, <2>2 DEF ParentStep
  <2>4. /\ T!DetachedShape' /\ T!SpawnSound' /\ T!AttachSound' /\ T!HarnessSound' /\ T!SignalsAreExact'
        /\ Forward
    BY <1>0, <1>1, <1>2, <1>4, <2>3, DeathStep
  <2> QED BY <1>0, <1>1, <2>4, CommandsLeft, LostKept DEF T!DetachedInv
<1> QED BY <1>3, <1>4 DEF T!Handoff

\* settle_spawn_failure settles a row no worker is left for.
LEMMA SettleSpawnFailureKeeps ==
  ASSUME T!ScenariosOK, T!DetachedInv, T!SettleSpawnFailure
  PROVE  T!DetachedInv'
<1>0. T!DetachedShape /\ T!SpawnSound /\ T!AttachSound /\ T!HarnessSound /\ T!CommandsSound
      /\ T!LostIsDead /\ T!SignalsAreExact
  BY DEF T!DetachedInv
<1>1. UNCHANGED <<x10, x3, x4, x5, x6, x7, x8, x9>> /\ x2 = "settle" /\ x2' = "settled"
  BY DEF T!SettleSpawnFailure, T!processes
<1>2. x1.state # "absent" /\ ~T!WorkerAlive'
  BY <1>0, <1>1 DEF T!SpawnSound, T!WorkerAlive
<1>3. TaskRowShape' /\ Onward /\ x1'.state \in T!Terminal /\ (x1' = x1 \/ x1'.failure # "worker_lost")
  <2>1. "failed" \in T!Settlement
    BY DEF T!Settlement, T!Terminal
  <2> QED BY <1>0, <1>2, <2>1, SettleStep DEF T!SettleSpawnFailure
<1>4. /\ SidecarKept /\ x6' \in 0 .. MaxLegs
      /\ x9' \in [Cancellers -> T!Command] /\ WorkerKept /\ x3' \in {"open", "full", "broken"}
  BY <1>0, <1>1 DEF SidecarKept, T!DetachedShape, WorkerKept
<1>5. ParentStep
  BY <1>1, <1>2, <1>3 DEF ParentStep
<1>6. x5' \in [T!Run -> T!HarnessGroup] /\ \A g \in T!Run : Fades(g)
  BY <1>0, <1>1, GroupsLeft
<1>7. /\ T!DetachedShape' /\ T!SpawnSound' /\ T!AttachSound' /\ T!HarnessSound' /\ T!SignalsAreExact'
      /\ Forward
  BY <1>0, <1>1, <1>3, <1>4, <1>5, <1>6, DetachedQuietStep
<1> QED BY <1>0, <1>1, <1>3, <1>7, CommandsLeft, LostKept DEF T!DetachedInv

\* The submitting command dies.
LEMMA ParentDiesKeeps ==
  ASSUME T!ScenariosOK, T!DetachedInv, T!ParentDies
  PROVE  T!DetachedInv'
<1>0. T!DetachedShape /\ T!SpawnSound /\ T!AttachSound /\ T!HarnessSound /\ T!CommandsSound
      /\ T!LostIsDead /\ T!SignalsAreExact
  BY DEF T!DetachedInv
<1>1. UNCHANGED <<x10, x1, x4, x5, x6, x7, x8, x9>> /\ x2 # "create" /\ x2' = "done"
  BY DEF T!ParentDies, T!processes
<1>2. x3' \in {"open", "full", "broken"}
  BY <1>0 DEF T!ParentDies, T!DetachedShape
<1>3. /\ TaskRowShape' /\ Onward /\ SidecarKept /\ x6' \in 0 .. MaxLegs
      /\ x9' \in [Cancellers -> T!Command] /\ WorkerKept /\ ParentStep
  BY <1>0, <1>1, RowLeft DEF SidecarKept, T!DetachedShape, WorkerKept, ParentStep
<1>4. x5' \in [T!Run -> T!HarnessGroup] /\ \A g \in T!Run : Fades(g)
  BY <1>0, <1>1, GroupsLeft
<1>5. /\ T!DetachedShape' /\ T!SpawnSound' /\ T!AttachSound' /\ T!HarnessSound' /\ T!SignalsAreExact'
      /\ Forward
  BY <1>0, <1>1, <1>2, <1>3, <1>4, DetachedQuietStep
<1> QED BY <1>0, <1>1, <1>5, CommandsLeft, LostKept DEF T!DetachedInv

\* A row is as it was, or attached.
Attaches ==
  \/ x1' = x1
  \/ x1.state = "queued" /\ x1'.state = "running" /\ x1'.controller # 0 /\ x1'.failure # "worker_lost"

\* A step of a worker that lives, and where it must leave the parts it moves.
LEMMA WorkerStep ==
  ASSUME T!DetachedInv, T!WorkerAlive, x4' \in T!WorkerState,
         T!OnlyWorker, TaskRowShape', Attaches,
         x5' \in [T!Run -> T!HarnessGroup], x6' \in 0 .. MaxLegs,
         \/ \A g \in T!Run : x5'[g].work = "alive" => x5[g].work = "alive"
         \/ x1.controller # 0,
         T!AttachSound', T!HarnessSound'
  PROVE  T!DetachedInv'
<1>0. T!DetachedShape /\ T!SpawnSound /\ T!AttachSound /\ T!HarnessSound /\ T!CommandsSound
      /\ T!LostIsDead /\ T!SignalsAreExact
  BY DEF T!DetachedInv
<1>1. UNCHANGED <<x10, x2, x3, x7, x8, x9>>
  BY DEF T!OnlyWorker
<1>2. T!DetachedShape'
  BY <1>0, <1>1 DEF T!DetachedShape, TaskRowShape
<1>3. x4.at # "none"
  BY DEF T!WorkerAlive, T!NotAlive
<1>4. T!SpawnSound'
  <2>1. x2 \notin {"create", "spawn", "settle", "settled"}
    BY <1>0, <1>3 DEF T!SpawnSound
  <2>2. x1'.state # "absent"
    BY <1>0, <2>1 DEF T!SpawnSound, Attaches
  <2> QED BY <1>1, <2>1, <2>2 DEF T!SpawnSound
<1>5. Forward
  <2>1. x1.state = "queued" => x1.controller = 0 /\ x1.state \notin T!Terminal
    BY <1>0, RowKnown DEF T!Terminal
  <2>2. (x1.state # "absent" => x1'.state # "absent") /\ (x1.controller # 0 => x1'.controller # 0)
    BY <2>1 DEF Attaches
  <2>3. x1.state \in T!Terminal => x1' = x1
    BY <2>1 DEF Attaches
  <2> QED BY <2>2, <2>3 DEF Forward
<1>6. x1' = x1 \/ x1'.failure # "worker_lost"
  BY DEF Attaches
<1> QED BY <1>0, <1>1, <1>2, <1>4, <1>5, <1>6, CommandsLeft, LostKept DEF T!DetachedInv, T!SignalsAreExact

\* The handler is armed.
LEMMA ArmKeeps ==
  ASSUME T!ScenariosOK, T!DetachedInv, T!Arm
  PROVE  T!DetachedInv'
<1>0. T!DetachedShape /\ T!SpawnSound /\ T!AttachSound /\ T!HarnessSound /\ T!CommandsSound
      /\ T!LostIsDead /\ T!SignalsAreExact
  BY DEF T!DetachedInv
<1>1. UNCHANGED <<x1, x5, x6>> /\ T!OnlyWorker /\ x4.at = "boot" /\ T!WorkerGoto("armed")
  BY DEF T!Arm
<1>2. x4' \in T!WorkerState /\ x4'.at = "armed" /\ x4'.gen = x4.gen
  BY <1>0, <1>1, WorkerMoves DEF T!Unattached
<1>3. T!WorkerAlive /\ x4.gen = 0
  BY <1>0, <1>1 DEF T!WorkerAlive, T!NotAlive, T!AttachSound, T!Unattached
<1>4. /\ TaskRowShape' /\ Attaches /\ x5' \in [T!Run -> T!HarnessGroup] /\ x6' \in 0 .. MaxLegs
  BY <1>0, <1>1, RowLeft DEF Attaches, T!DetachedShape
<1>5. T!AttachSound'
  BY <1>0, <1>1, <1>2 DEF T!AttachSound, T!Unattached, T!Attended
<1>6. T!HarnessSound'
  BY <1>0, <1>1, <1>2, <1>3, NoHarnessYet DEF T!Attended
<1> QED BY <1>1, <1>2, <1>3, <1>4, <1>5, <1>6, WorkerStep

\* The worker attaches to a task that is queued.
LEMMA AttachKeeps ==
  ASSUME T!ScenariosOK, T!DetachedInv, T!Attach
  PROVE  T!DetachedInv'
<1>0. T!DetachedShape /\ T!SpawnSound /\ T!AttachSound /\ T!HarnessSound /\ T!CommandsSound
      /\ T!LostIsDead /\ T!SignalsAreExact
  BY DEF T!DetachedInv
<1>1. UNCHANGED <<x5, x6>> /\ T!OnlyWorker /\ x4.at = "armed"
  BY DEF T!Attach
<1>2. T!WorkerAlive /\ x4.gen = 0
  BY <1>0, <1>1 DEF T!WorkerAlive, T!NotAlive, T!AttachSound, T!Unattached
<1>3. x5' \in [T!Run -> T!HarnessGroup] /\ x6' \in 0 .. MaxLegs
  BY <1>0, <1>1 DEF T!DetachedShape
<1>4. CASE x1.state = "queued" /\ x1' = T!Attached(x1, 1, 0, 0) /\ T!WorkerGoto("request")
  <2>1. x4' \in T!WorkerState /\ x4'.at = "request" /\ x4'.gen = x4.gen
    BY <1>0, <1>4, WorkerMoves
  <2>2. x1 \in T!TaskRecord(Controllers) /\ T!WellFormed(x1) /\ 0 \in Controllers /\ 1 \in Controllers /\ 0 \in Nat
    BY <1>0, RowKnown
  <2>3. x1' \in T!TaskRecord(Controllers) /\ T!WellFormed(x1') /\ x1'.state = "running" /\ x1'.controller = 1
    BY <1>4, <2>2, AttachedRow
  <2>4. x1'.failure = "none"
    BY <2>3 DEF T!WellFormed, T!Active
  <2>5. TaskRowShape' /\ Attaches
    BY <1>4, <2>3, <2>4 DEF TaskRowShape, Attaches, Controllers
  <2>6. T!AttachSound'
    BY <1>2, <2>1, <2>3, <2>4 DEF T!AttachSound, T!Unattached, T!Attended
  <2>7. T!HarnessSound'
    BY <1>0, <1>1, <1>2, <2>1, NoHarnessYet DEF T!Attended
  <2> QED BY <1>1, <1>2, <1>3, <2>1, <2>5, <2>6, <2>7, WorkerStep
<1>5. CASE x1.state # "queued" /\ T!WorkerGoto("gone") /\ UNCHANGED x1
  <2>1. x4' \in T!WorkerState /\ x4'.at = "gone" /\ x4'.gen = x4.gen
    BY <1>0, <1>5, WorkerMoves
  <2>2. TaskRowShape' /\ Attaches
    BY <1>0, <1>5, RowLeft DEF Attaches
  <2>3. T!AttachSound'
    BY <1>0, <1>2, <1>5, <2>1 DEF T!AttachSound, T!Unattached, T!Attended, T!WorkerAlive, T!NotAlive
  <2>4. T!HarnessSound'
    BY <1>0, <1>1, <1>2, <2>1, NoHarnessYet DEF T!Attended
  <2> QED BY <1>1, <1>2, <1>3, <2>1, <2>2, <2>3, <2>4, WorkerStep
<1> QED BY <1>4, <1>5 DEF T!Attach

\* The worker sets where it goes with its outcome.
LEMMA OutcomeSet ==
  ASSUME T!DetachedShape, NEW s \in T!Settlement,
         x4' = [x4 EXCEPT !.at = "settle", !.outcome = s]
  PROVE  x4' \in T!WorkerState /\ x4'.at = "settle" /\ x4'.gen = x4.gen /\ x4'.outcome = s
  BY DEF T!DetachedShape, T!WorkerState

\* What a worker that is attached knows.
LEMMA WorkerAttached ==
  ASSUME T!DetachedShape, T!AttachSound, x4.at \in T!Attended \cup {"request", "dispatch", "settle"}
  PROVE  T!WorkerAlive /\ x1.controller # 0 /\ x4.at \notin T!Unattached /\ x4.at # "gone"
<1>1. x4.at \notin T!Unattached /\ x4.at \notin T!NotAlive /\ x4.at # "gone"
  BY DEF T!Attended, T!Unattached, T!NotAlive
<1> QED BY <1>1 DEF T!AttachSound, T!WorkerAlive

\* The request is read, or not.
LEMMA ReadRequestKeeps ==
  ASSUME T!ScenariosOK, T!DetachedInv, T!ReadRequest
  PROVE  T!DetachedInv'
<1>0. T!DetachedShape /\ T!SpawnSound /\ T!AttachSound /\ T!HarnessSound /\ T!CommandsSound
      /\ T!LostIsDead /\ T!SignalsAreExact
  BY DEF T!DetachedInv
<1>1. UNCHANGED <<x1, x5, x6>> /\ T!OnlyWorker /\ x4.at = "request"
  BY DEF T!ReadRequest
<1>2. T!WorkerAlive /\ x4.gen = 0 /\ x1.controller # 0
  BY <1>0, <1>1, WorkerAttached DEF T!AttachSound
<1>3. TaskRowShape' /\ Attaches /\ x5' \in [T!Run -> T!HarnessGroup] /\ x6' \in 0 .. MaxLegs
  BY <1>0, <1>1, RowLeft DEF Attaches, T!DetachedShape
<1>4. /\ x4' \in T!WorkerState /\ x4'.gen = x4.gen /\ x4'.at \in {"dispatch", "settle"}
      /\ (x4'.at = "settle" => x4'.outcome # "none")
  <2>1. CASE T!WorkerGoto("dispatch")
    BY <1>0, <2>1, WorkerMoves
  <2>2. CASE x4' = [x4 EXCEPT !.at = "settle", !.outcome = "failed"]
    BY <1>0, <2>2, OutcomeSet DEF T!Settlement, T!Terminal
  <2> QED BY <2>1, <2>2 DEF T!ReadRequest
<1>5. T!AttachSound'
  BY <1>0, <1>1, <1>2, <1>4 DEF T!AttachSound, T!Unattached, T!Attended
<1>6. T!HarnessSound'
  BY <1>0, <1>1, <1>2, <1>4, NoHarnessYet DEF T!Attended
<1> QED BY <1>1, <1>2, <1>3, <1>4, <1>5, <1>6, WorkerStep

\* The dispatch ends.
LEMMA EndDispatchKeeps ==
  ASSUME T!ScenariosOK, T!DetachedInv, T!EndDispatch
  PROVE  T!DetachedInv'
<1>0. T!DetachedShape /\ T!SpawnSound /\ T!AttachSound /\ T!HarnessSound /\ T!CommandsSound
      /\ T!LostIsDead /\ T!SignalsAreExact
  BY DEF T!DetachedInv
<1>1. UNCHANGED <<x1, x5, x6>> /\ T!OnlyWorker /\ x4.at = "dispatch"
  BY DEF T!EndDispatch
<1>2. T!WorkerAlive /\ x1.controller # 0
  BY <1>0, <1>1, WorkerAttached
<1>3. TaskRowShape' /\ Attaches /\ x5' \in [T!Run -> T!HarnessGroup] /\ x6' \in 0 .. MaxLegs
  BY <1>0, <1>1, RowLeft DEF Attaches, T!DetachedShape
<1>4. /\ x4' \in T!WorkerState /\ x4'.gen = x4.gen /\ x4'.at = "settle"
      /\ x4'.outcome # "none"
  BY <1>0, OutcomeSet DEF T!EndDispatch, T!Settlement, T!Terminal
<1>5. T!AttachSound'
  BY <1>0, <1>1, <1>2, <1>4 DEF T!AttachSound, T!Unattached, T!Attended
<1>6. T!HarnessSound'
  BY <1>0, <1>1, <1>4 DEF T!HarnessSound, T!Attended, T!WorkIsOnRecord, T!Working
<1> QED BY <1>1, <1>2, <1>3, <1>4, <1>5, <1>6, WorkerStep

\* Another harness is started.
LEMMA StartHarnessKeeps ==
  ASSUME T!ScenariosOK, T!DetachedInv, T!StartHarness
  PROVE  T!DetachedInv'
<1>0. T!DetachedShape /\ T!SpawnSound /\ T!AttachSound /\ T!HarnessSound /\ T!CommandsSound
      /\ T!LostIsDead /\ T!SignalsAreExact
  BY DEF T!DetachedInv
<1>1. UNCHANGED <<x1, x6>> /\ T!OnlyWorker /\ x4.at = "dispatch"
  BY DEF T!StartHarness
<1>2. T!WorkerAlive /\ x1.controller # 0
  BY <1>0, <1>1, WorkerAttached
<1>3. TaskRowShape' /\ Attaches /\ x6' \in 0 .. MaxLegs
  BY <1>0, <1>1, RowLeft DEF Attaches, T!DetachedShape
<1>4. PICK k \in T!Run : k = x4.gen + 1
  <2>1. x4.gen \in 0 .. MaxLegs /\ x10 \in 0 .. MaxLegs /\ x4.gen < x10
    BY <1>0, WorkerFields DEF T!DetachedShape, T!StartHarness, T!Current
  <2> QED BY <2>1 DEF T!ScenariosOK, T!Run
<1>5. x4.gen \in Nat /\ k \in 0 .. MaxLegs
  BY <1>0, <1>4, WorkerFields DEF T!Run, T!ScenariosOK
<1>6. x4' \in T!WorkerState /\ x4'.gen = k /\ x4'.at = "gate"
  <2>1. x4' = [x4 EXCEPT !.at = "gate", !.gen = k, !.active = FALSE]
    BY <1>4 DEF T!StartHarness, T!Current
  <2> QED BY <1>0, <1>5, <2>1 DEF T!DetachedShape, T!WorkerState, T!Attended
<1>7. /\ x5' \in [T!Run -> T!HarnessGroup] /\ x5'[k].leader = "alive" /\ x5'[k].work = x5[k].work
      /\ \A g \in T!Run \ {k} : x5'[g] = x5[g]
  BY <1>0, <1>4, LeaderSet DEF T!StartHarness, T!Current
<1>8. T!AttachSound'
  BY <1>0, <1>1, <1>2, <1>4, <1>5, <1>6 DEF T!AttachSound, T!Unattached, T!Attended
<1>9. T!HarnessSound'
  <2>1. ASSUME NEW g \in T!Run
        PROVE  /\ g > k => x5'[g].leader = "none" /\ x5'[g].work = "none"
               /\ g < k => x5'[g].leader = "gone"
               /\ g = k => x5'[g].leader \in {"alive", "zombie"}
    <3>1. CASE g = k
      BY <1>5, <1>7, <3>1 DEF T!Run
    <3>2. CASE g # k
      <4>1. g \in Nat /\ x5'[g] = x5[g]
        BY <1>7, <3>2 DEF T!Run
      <4>2. g < k => g < x4.gen \/ g = x4.gen
        BY <1>4, <1>5, <4>1
      <4>3. g > k => g > x4.gen
        BY <1>4, <1>5, <4>1
      <4> QED BY <1>0, <1>1, <3>2, <4>1, <4>2, <4>3 DEF T!HarnessSound
    <3> QED BY <3>1, <3>2
  <2>2. \A g \in T!Run : x5'[g].work = x5[g].work
    BY <1>7
  <2>3. T!WorkIsOnRecord'
    BY <1>0, <1>1, <2>2 DEF T!HarnessSound, T!WorkIsOnRecord, T!Working
  <2> QED BY <1>6, <2>1, <2>3 DEF T!HarnessSound, T!Attended
<1> QED BY <1>1, <1>2, <1>3, <1>6, <1>7, <1>8, <1>9, WorkerStep

\* The worker moves on while it attends to its harness.
LEMMA AttendedMoves ==
  ASSUME T!DetachedShape, T!AttachSound, T!HarnessSound, x4.at \in T!Attended, x4'.at \in T!Attended,
         x4'.gen = x4.gen, \A g \in T!Run : Fades(g),
         x6' = x6 \/ \A g \in T!Run : ~T!Working(g),
         x4'.at \in {"release", "run"} => x6' = x4.gen
  PROVE  T!HarnessSound'
<1>0. x4.at \notin T!NotAlive
  BY DEF T!Attended, T!NotAlive
<1>1. ASSUME NEW g \in T!Run
      PROVE  /\ g > x4.gen => x5'[g].leader = "none" /\ x5'[g].work = "none"
             /\ g < x4.gen => x5'[g].leader = "gone"
             /\ g = x4.gen => x5'[g].leader \in {"alive", "zombie"}
  <2>1. Fades(g)
    OBVIOUS
  <2> QED BY <1>0, <2>1 DEF Fades, T!HarnessSound
<1>2. \A g \in T!Run : x5'[g].work = "alive" => x5[g].work = "alive"
  BY DEF Fades
<1>3. T!WorkIsOnRecord'
  BY <1>2 DEF T!HarnessSound, T!WorkIsOnRecord, T!Working
<1>4. x4'.at \notin {"dispatch", "settle"}
  BY DEF T!Attended
<1> QED BY <1>1, <1>3, <1>4 DEF T!HarnessSound

\* The same for all that is known of the task.
LEMMA AttendedStep ==
  ASSUME T!DetachedInv, x4.at \in T!Attended, x4'.at \in T!Attended,
         x4' \in T!WorkerState, x4'.gen = x4.gen, T!OnlyWorker, x1' = x1,
         x5' \in [T!Run -> T!HarnessGroup], \A g \in T!Run : Fades(g), x6' \in 0 .. MaxLegs,
         x6' = x6 \/ \A g \in T!Run : ~T!Working(g),
         x4'.at \in {"release", "run"} => x6' = x4.gen
  PROVE  T!DetachedInv'
<1>0. T!DetachedShape /\ T!SpawnSound /\ T!AttachSound /\ T!HarnessSound /\ T!CommandsSound
      /\ T!LostIsDead /\ T!SignalsAreExact
  BY DEF T!DetachedInv
<1>1. T!WorkerAlive /\ x1.controller # 0
  BY <1>0, WorkerAttached
<1>2. TaskRowShape' /\ Attaches
  BY <1>0, RowLeft DEF Attaches
<1>3. T!AttachSound'
  BY <1>0, <1>1 DEF T!AttachSound, T!Unattached, T!Attended
<1>4. T!HarnessSound'
  BY <1>0, AttendedMoves
<1> QED BY <1>1, <1>2, <1>3, <1>4, WorkerStep

\* The number of the harness the worker attends to.
LEMMA CurrentRun ==
  ASSUME T!DetachedShape, T!AttachSound, x4.at \in T!Attended
  PROVE  T!Current \in T!Run /\ T!Current = x4.gen /\ T!Current \in 0 .. MaxLegs
  BY WorkerFields DEF T!AttachSound, T!Current, T!Run

\* The sidecar is written, or the harness is stopped before it begins.
LEMMA PublishStartedKeeps ==
  ASSUME T!ScenariosOK, T!DetachedInv, T!PublishStarted
  PROVE  T!DetachedInv'
<1>0. T!DetachedShape /\ T!SpawnSound /\ T!AttachSound /\ T!HarnessSound /\ T!CommandsSound
      /\ T!LostIsDead /\ T!SignalsAreExact
  BY DEF T!DetachedInv
<1>1. x1' = x1 /\ T!OnlyWorker /\ x4.at = "gate" /\ x4.at \in T!Attended
  BY DEF T!PublishStarted, T!Attended
<1>2. T!Current \in T!Run /\ T!Current = x4.gen /\ T!Current \in 0 .. MaxLegs
  BY <1>0, <1>1, CurrentRun
<1>3. /\ x6' \in 0 .. MaxLegs
      /\ x6' = x6 \/ (x6' = x4.gen /\ \A g \in T!Run : ~T!Working(g))
  <2>1. CASE x6' = x6
    BY <1>0, <2>1 DEF T!DetachedShape
  <2>2. CASE T!MayWrite /\ x6' = T!Current
    BY <1>0, <1>2, <2>2 DEF T!MayWrite, T!HarnessSound, T!WorkIsOnRecord, T!Run
  <2> QED BY <2>1, <2>2 DEF T!PublishStarted
<1>4. CASE x4' = [x4 EXCEPT !.at = "release", !.active = TRUE] /\ UNCHANGED x5 /\ x6' = T!Current
  <2>1. x4' \in T!WorkerState /\ x4'.at = "release" /\ x4'.gen = x4.gen
    BY <1>0, <1>4 DEF T!DetachedShape, T!WorkerState, T!Attended
  <2>2. x5' \in [T!Run -> T!HarnessGroup] /\ \A g \in T!Run : Fades(g)
    BY <1>0, <1>4, GroupsLeft
  <2> QED BY <1>1, <1>2, <1>3, <1>4, <2>1, <2>2, AttendedStep DEF T!Attended
<1>5. CASE T!WorkerGoto("reap") /\ x5' = [x5 EXCEPT ![T!Current] = T!Killed(x5[T!Current], x4.at)]
  <2>1. x4' \in T!WorkerState /\ x4'.at = "reap" /\ x4'.gen = x4.gen
    BY <1>0, <1>5, WorkerMoves DEF T!Attended
  <2>2. x5' \in [T!Run -> T!HarnessGroup] /\ \A g \in T!Run : Fades(g)
    BY <1>0, <1>2, <1>5, KillStep
  <2> QED BY <1>1, <1>2, <1>3, <2>1, <2>2, AttendedStep DEF T!Attended
<1> QED BY <1>4, <1>5 DEF T!PublishStarted

\* The gate is opened, or the harness is stopped.
LEMMA ReleaseKeeps ==
  ASSUME T!ScenariosOK, T!DetachedInv, T!Release
  PROVE  T!DetachedInv'
<1>0. T!DetachedShape /\ T!SpawnSound /\ T!AttachSound /\ T!HarnessSound /\ T!CommandsSound
      /\ T!LostIsDead /\ T!SignalsAreExact
  BY DEF T!DetachedInv
<1>1. x1' = x1 /\ x6' = x6 /\ T!OnlyWorker /\ x4.at = "release" /\ x4.at \in T!Attended
  BY DEF T!Release, T!Attended
<1>2. T!Current \in T!Run /\ T!Current = x4.gen /\ x6 = x4.gen /\ x6' \in 0 .. MaxLegs
  BY <1>0, <1>1, CurrentRun DEF T!HarnessSound, T!DetachedShape
<1>3. CASE T!WorkerGoto("reap") /\ x5' = [x5 EXCEPT ![T!Current] = T!Killed(x5[T!Current], x4.at)]
  <2>1. x4' \in T!WorkerState /\ x4'.at = "reap" /\ x4'.gen = x4.gen
    BY <1>0, <1>3, WorkerMoves DEF T!Attended
  <2>2. x5' \in [T!Run -> T!HarnessGroup] /\ \A g \in T!Run : Fades(g)
    BY <1>0, <1>2, <1>3, KillStep
  <2> QED BY <1>1, <1>2, <2>1, <2>2, AttendedStep DEF T!Attended
<1>4. CASE /\ T!WorkerGoto("run")
           /\ x5' = [x5 EXCEPT ![T!Current].work = IF x5[T!Current].leader = "alive" THEN "alive"
                                                       ELSE x5[T!Current].work]
  <2>1. x4' \in T!WorkerState /\ x4'.at = "run" /\ x4'.gen = x4.gen
    BY <1>0, <1>4, WorkerMoves DEF T!Attended
  <2>2. PICK v \in {"none", "alive", "dead"} :
          v = IF x5[T!Current].leader = "alive" THEN "alive" ELSE x5[T!Current].work
    BY <1>0, <1>2, GroupFields
  <2>3. x5' = [x5 EXCEPT ![T!Current].work = v]
    BY <1>4, <2>2
  <2>4. /\ x5' \in [T!Run -> T!HarnessGroup] /\ x5'[T!Current].leader = x5[T!Current].leader
        /\ \A g \in T!Run \ {T!Current} : x5'[g] = x5[g]
    BY ONLY <1>0, <1>2, <2>3, WorkSet
  <2>5. T!WorkerAlive /\ x1.controller # 0
    BY <1>0, <1>1, WorkerAttached
  <2>6. TaskRowShape' /\ Attaches
    BY <1>0, <1>1, RowLeft DEF Attaches
  <2>7. T!AttachSound'
    BY <1>0, <1>1, <2>1, <2>5 DEF T!AttachSound, T!Unattached, T!Attended
  <2>8. T!WorkIsOnRecord'
    <3> SUFFICES ASSUME NEW g \in T!Run, x5'[g].work = "alive" PROVE x6' = g
      BY DEF T!WorkIsOnRecord, T!Working
    <3>1. CASE g = T!Current
      BY <1>1, <1>2, <3>1
    <3>2. CASE g # T!Current
      BY <1>0, <1>1, <2>4, <3>2 DEF T!HarnessSound, T!WorkIsOnRecord, T!Working
    <3> QED BY <3>1, <3>2
  <2>9. T!HarnessSound'
    <3>1. ASSUME NEW g \in T!Run
          PROVE  /\ g > x4.gen => x5'[g].leader = "none" /\ x5'[g].work = "none"
                 /\ g < x4.gen => x5'[g].leader = "gone"
                 /\ g = x4.gen => x5'[g].leader \in {"alive", "zombie"}
      <4>1. CASE g = T!Current
        <5>1. ~(g > x4.gen) /\ ~(g < x4.gen)
          BY <1>2, <4>1 DEF T!Run
        <5> QED BY <1>0, <1>1, <1>2, <2>4, <4>1, <5>1 DEF T!HarnessSound
      <4>2. CASE g # T!Current
        BY <1>0, <1>2, <2>4, <4>2 DEF T!HarnessSound
      <4> QED BY <4>1, <4>2
    <3> QED BY <1>1, <1>2, <2>1, <2>8, <3>1 DEF T!HarnessSound, T!Attended
  <2> QED BY <1>1, <1>2, <2>1, <2>4, <2>5, <2>6, <2>7, <2>9, WorkerStep
<1> QED BY <1>3, <1>4 DEF T!Release

\* The harness is stopped, or has ended.
LEMMA StopHarnessKeeps ==
  ASSUME T!ScenariosOK, T!DetachedInv, T!StopHarness
  PROVE  T!DetachedInv'
<1>0. T!DetachedShape /\ T!SpawnSound /\ T!AttachSound /\ T!HarnessSound /\ T!CommandsSound
      /\ T!LostIsDead /\ T!SignalsAreExact
  BY DEF T!DetachedInv
<1>1. x1' = x1 /\ x6' = x6 /\ T!OnlyWorker /\ x4.at = "run" /\ x4.at \in T!Attended
  BY DEF T!StopHarness, T!Attended
<1>2. T!Current \in T!Run /\ T!Current = x4.gen /\ x6' \in 0 .. MaxLegs
  BY <1>0, <1>1, CurrentRun DEF T!DetachedShape
<1>3. x4' \in T!WorkerState /\ x4'.at = "reap" /\ x4'.gen = x4.gen
  BY <1>0, WorkerMoves DEF T!StopHarness, T!Attended
<1>4. x5' \in [T!Run -> T!HarnessGroup] /\ \A g \in T!Run : Fades(g)
  <2>1. CASE x5' = [x5 EXCEPT ![T!Current] = T!Killed(x5[T!Current], x4.at)]
    BY <1>0, <1>2, <2>1, KillStep
  <2>2. CASE x5' = x5
    BY <1>0, <2>2, GroupsLeft
  <2> QED BY <2>1, <2>2 DEF T!StopHarness
<1> QED BY <1>1, <1>2, <1>3, <1>4, AttendedStep DEF T!Attended

\* The leader is reaped.
LEMMA ReapHarnessKeeps ==
  ASSUME T!ScenariosOK, T!DetachedInv, T!ReapHarness
  PROVE  T!DetachedInv'
<1>0. T!DetachedShape /\ T!SpawnSound /\ T!AttachSound /\ T!HarnessSound /\ T!CommandsSound
      /\ T!LostIsDead /\ T!SignalsAreExact
  BY DEF T!DetachedInv
<1>1. x1' = x1 /\ T!OnlyWorker /\ x4.at = "reap" /\ x4.at \in T!Attended
  BY DEF T!ReapHarness, T!Attended
<1>2. T!Current \in T!Run /\ T!Current = x4.gen /\ 0 \in 0 .. MaxLegs /\ x6 \in 0 .. MaxLegs
  BY <1>0, <1>1, CurrentRun DEF T!DetachedShape, T!ScenariosOK
<1>3. /\ x6' \in 0 .. MaxLegs
      /\ x6' = x6 \/ \A g \in T!Run : ~T!Working(g)
  BY <1>0, <1>2 DEF T!ReapHarness, T!RemovesOnStop, T!HarnessSound, T!WorkIsOnRecord
<1>4. x4' \in T!WorkerState /\ x4'.at = "dispatch" /\ x4'.gen = x4.gen
  BY <1>0 DEF T!ReapHarness, T!DetachedShape, T!WorkerState
<1>5. /\ x5' \in [T!Run -> T!HarnessGroup] /\ x5'[T!Current].leader = "gone"
      /\ x5'[T!Current].work = x5[T!Current].work
      /\ \A g \in T!Run \ {T!Current} : x5'[g] = x5[g]
  BY <1>0, <1>2, LeaderSet DEF T!ReapHarness
<1>6. T!WorkerAlive /\ x1.controller # 0
  BY <1>0, <1>1, WorkerAttached
<1>7. TaskRowShape' /\ Attaches
  BY <1>0, <1>1, RowLeft DEF Attaches
<1>8. T!AttachSound'
  BY <1>0, <1>1, <1>4, <1>6 DEF T!AttachSound, T!Unattached, T!Attended
<1>9. T!HarnessSound'
  <2>1. ASSUME NEW g \in T!Run
        PROVE  /\ g > x4.gen => x5'[g].leader = "none" /\ x5'[g].work = "none"
               /\ g < x4.gen => x5'[g].leader = "gone"
               /\ g = x4.gen => x5'[g].leader = "gone"
               /\ x5'[g].leader # "zombie"
    <3>1. CASE g = T!Current
      <4>1. ~(g > x4.gen)
        BY <1>2, <3>1 DEF T!Run
      <4> QED BY <1>2, <1>5, <3>1, <4>1
    <3>2. CASE g # T!Current
      <4>1. g \in Nat /\ x4.gen \in Nat /\ x5'[g] = x5[g]
        BY <1>2, <1>5, <3>2 DEF T!Run
      <4>2. g > x4.gen \/ g < x4.gen
        BY <1>2, <3>2, <4>1
      <4> QED BY <1>0, <1>2, <3>2, <4>1, <4>2 DEF T!HarnessSound
    <3> QED BY <3>1, <3>2
  <2>2. \A g \in T!Run : x5'[g].work = x5[g].work
    BY <1>5
  <2>3. T!WorkIsOnRecord'
    BY <1>0, <1>3, <2>2 DEF T!HarnessSound, T!WorkIsOnRecord, T!Working
  <2> QED BY <1>4, <2>1, <2>3 DEF T!HarnessSound, T!Attended
<1> QED BY <1>1, <1>3, <1>4, <1>5, <1>6, <1>7, <1>8, <1>9, WorkerStep

\* The task is settled and the worker ends.
LEMMA SettleTaskKeeps ==
  ASSUME T!ScenariosOK, T!DetachedInv, T!SettleTask
  PROVE  T!DetachedInv'
<1>0. T!DetachedShape /\ T!SpawnSound /\ T!AttachSound /\ T!HarnessSound /\ T!CommandsSound
      /\ T!LostIsDead /\ T!SignalsAreExact
  BY DEF T!DetachedInv
<1>1. x6' = x6 /\ T!OnlyWorker /\ T!WorkerGone /\ x4.at = "settle"
  BY DEF T!SettleTask
<1>2. UNCHANGED <<x10, x2, x3, x7, x8, x9>>
  BY <1>1 DEF T!OnlyWorker
<1>3. x1.controller # 0 /\ x4.at # "none" /\ x4.outcome \in T!Settlement
  BY <1>0, <1>1, WorkerAttached, WorkerFields DEF T!AttachSound
<1>4. x1.state # "absent" /\ x1.state # "queued"
  BY <1>0, <1>3, RowKnown
<1>5. TaskRowShape' /\ Onward /\ (x1' = x1 \/ x1'.failure # "worker_lost")
  <2>1. PICK s \in {x4.outcome, "failed", "unwritten"} :
          x1' = IF s = "unwritten" \/ x1.state \in T!Terminal THEN x1 ELSE T!Settled(x1, s, 0)
    BY DEF T!SettleTask
  <2>2. CASE s = "unwritten"
    BY <1>0, <2>1, <2>2, RowLeft
  <2>3. CASE s # "unwritten"
    <3>1. s \in T!Settlement
      BY <1>3, <2>1, <2>3 DEF T!Settlement, T!Terminal
    <3>2. x1' = IF x1.state \in T!Terminal THEN x1 ELSE T!Settled(x1, s, 0)
      BY <2>1, <2>3
    <3> QED BY <1>0, <1>4, <3>1, <3>2, SettleStep
  <2> QED BY <2>2, <2>3
<1>6. ParentStep /\ x3' \in {"open", "full", "broken"} /\ x9' \in [Cancellers -> T!Command]
  BY <1>0, <1>2 DEF ParentStep, T!DetachedShape
<1>7. /\ T!DetachedShape' /\ T!SpawnSound' /\ T!AttachSound' /\ T!HarnessSound' /\ T!SignalsAreExact'
      /\ Forward
  BY <1>0, <1>1, <1>2, <1>3, <1>5, <1>6, DeathStep
<1> QED BY <1>0, <1>2, <1>5, <1>7, CommandsLeft, LostKept DEF T!DetachedInv

\* The worker dies.
LEMMA WorkerDiesKeeps ==
  ASSUME T!ScenariosOK, T!DetachedInv, T!WorkerDies
  PROVE  T!DetachedInv'
<1>0. T!DetachedShape /\ T!SpawnSound /\ T!AttachSound /\ T!HarnessSound /\ T!CommandsSound
      /\ T!LostIsDead /\ T!SignalsAreExact
  BY DEF T!DetachedInv
<1>1. UNCHANGED <<x1, x6>> /\ T!OnlyWorker /\ T!WorkerGone /\ x4.at # "none"
  BY DEF T!WorkerDies, T!WorkerAlive, T!NotAlive
<1>2. UNCHANGED <<x10, x2, x3, x7, x8, x9>>
  BY <1>1 DEF T!OnlyWorker
<1>3. TaskRowShape' /\ Onward
  BY <1>0, <1>1, RowLeft
<1>4. ParentStep /\ x3' \in {"open", "full", "broken"} /\ x9' \in [Cancellers -> T!Command]
  BY <1>0, <1>2 DEF ParentStep, T!DetachedShape
<1>5. /\ T!DetachedShape' /\ T!SpawnSound' /\ T!AttachSound' /\ T!HarnessSound' /\ T!SignalsAreExact'
      /\ Forward
  BY <1>0, <1>1, <1>2, <1>3, <1>4, DeathStep
<1> QED BY <1>0, <1>1, <1>2, <1>5, CommandsLeft, LostKept DEF T!DetachedInv

\* The places of a command.
Places == T!Engaged \cup T!Cleaning \cup {"away", "start", "dequeue", "refuse", "report", "clean", "failed"}

\* The commands beside the one that moved.
Beside(c) ==
  x9' \in [Cancellers -> T!Command] /\ \A d \in Cancellers \ {c} : x9'[d] = x9[d]

\* What is around a step of a command that signals at most a harness.
Around ==
  /\ UNCHANGED <<x10, x2, x3, x7, x8>> /\ WorkerKept
  /\ x5' \in [T!Run -> T!HarnessGroup] /\ (\A g \in T!Run : Fades(g))
  /\ SidecarKept /\ x6' \in 0 .. MaxLegs

\* A step of a command in which the worker stays.
LEMMA CommandStep ==
  ASSUME T!DetachedInv, NEW c \in Cancellers, Around, TaskRowShape', Onward,
         \/ x1' = x1
         \/ x1'.failure # "worker_lost"
         \/ x1.controller # 0 /\ ~T!WorkerAlive /\ \A g \in T!Run : ~T!Working(g),
         Beside(c), T!CommandSound(c)'
  PROVE  T!DetachedInv'
<1>0. T!DetachedShape /\ T!SpawnSound /\ T!AttachSound /\ T!HarnessSound /\ T!CommandsSound
      /\ T!LostIsDead /\ T!SignalsAreExact
  BY DEF T!DetachedInv
<1>1. UNCHANGED <<x10, x7, x8>> /\ ParentStep /\ x3' \in {"open", "full", "broken"}
  BY <1>0 DEF Around, ParentStep, T!DetachedShape
<1>2. /\ WorkerKept /\ x5' \in [T!Run -> T!HarnessGroup] /\ \A g \in T!Run : Fades(g)
      /\ SidecarKept /\ x6' \in 0 .. MaxLegs
  BY DEF Around
<1>3. x9' \in [Cancellers -> T!Command] /\ \A d \in Cancellers \ {c} : x9'[d] = x9[d]
  BY DEF Beside
<1>4. /\ T!DetachedShape' /\ T!SpawnSound' /\ T!AttachSound' /\ T!HarnessSound' /\ T!SignalsAreExact'
      /\ Forward
  BY <1>0, <1>1, <1>2, <1>3, DetachedQuietStep
<1>5. T!CommandsSound'
  BY <1>0, <1>3, <1>4, CommandsMoved
<1>6. T!LostIsDead'
  <2>1. CASE x1' = x1 \/ x1'.failure # "worker_lost"
    BY <1>0, <1>4, <2>1, LostKept
  <2>2. CASE x1.controller # 0 /\ ~T!WorkerAlive /\ \A g \in T!Run : ~T!Working(g)
    <3>1. ~T!WorkerAlive'
      BY <1>2, <2>2 DEF WorkerKept, T!WorkerAlive
    <3>2. \A g \in T!Run : x5'[g].work # "alive"
      BY <1>2, <2>2 DEF Fades, T!Working
    <3> QED BY <3>1, <3>2 DEF T!LostIsDead, T!Working
  <2> QED BY <2>1, <2>2
<1> QED BY <1>4, <1>5, <1>6 DEF T!DetachedInv

\* A step of a command in which the worker ends.
LEMMA CommandKills ==
  ASSUME T!DetachedInv, NEW c \in Cancellers, T!Outside, T!WorkerGone, T!WorkerAlive,
         UNCHANGED <<x1, x8, x6>>, Beside(c), T!CommandSound(c)'
  PROVE  T!DetachedInv'
<1>0. T!DetachedShape /\ T!SpawnSound /\ T!AttachSound /\ T!HarnessSound /\ T!CommandsSound
      /\ T!LostIsDead /\ T!SignalsAreExact
  BY DEF T!DetachedInv
<1>1. UNCHANGED <<x10, x7, x8, x6>> /\ ParentStep /\ x3' \in {"open", "full", "broken"}
  BY <1>0 DEF T!Outside, ParentStep, T!DetachedShape
<1>2. TaskRowShape' /\ Onward /\ x4.at # "none"
  BY <1>0, RowLeft DEF T!WorkerAlive, T!NotAlive
<1>3. x9' \in [Cancellers -> T!Command] /\ \A d \in Cancellers \ {c} : x9'[d] = x9[d]
  BY DEF Beside
<1>4. /\ T!DetachedShape' /\ T!SpawnSound' /\ T!AttachSound' /\ T!HarnessSound' /\ T!SignalsAreExact'
      /\ Forward
  BY <1>0, <1>1, <1>2, <1>3, DeathStep
<1> QED BY <1>0, <1>3, <1>4, CommandsMoved, LostKept DEF T!DetachedInv

\* A command goes on.
LEMMA Moves ==
  ASSUME T!DetachedShape, NEW c \in Cancellers, NEW to \in Places, T!CanGoto(c, to)
  PROVE  Beside(c) /\ x9'[c].at = to /\ x9'[c].code = x9[c].code
  BY CommandMoves DEF Places, Beside

\* Nobody is signalled.
LEMMA NoSignalAround ==
  ASSUME T!DetachedShape, T!NoSignal, T!Outside, x6' = x6
  PROVE  Around /\ (T!WorkerAlive' <=> T!WorkerAlive)
<1>1. UNCHANGED <<x10, x2, x3, x7, x8, x4, x5>>
  BY DEF T!NoSignal, T!Outside
<1>2. x5' \in [T!Run -> T!HarnessGroup] /\ \A g \in T!Run : Fades(g)
  BY <1>1, GroupsLeft
<1> QED BY <1>1, <1>2 DEF Around, WorkerKept, SidecarKept, T!DetachedShape, T!WorkerAlive

\* Nobody is signalled, and there is no harness.
LEMMA NothingNestedAround ==
  ASSUME T!ScenariosOK, T!DetachedShape, T!AttachSound, T!HarnessSound, T!NoSignal, T!Outside, T!NothingNested
  PROVE  Around /\ (T!WorkerAlive' <=> T!WorkerAlive) /\ \A g \in T!Run : ~T!Working(g) /\ x5'[g].work # "alive"
<1>1. UNCHANGED <<x10, x2, x3, x7, x8, x4, x5>>
  BY DEF T!NoSignal, T!Outside
<1>2. x5' \in [T!Run -> T!HarnessGroup] /\ \A g \in T!Run : Fades(g)
  BY <1>1, GroupsLeft
<1>3. SidecarKept /\ x6' = 0 /\ \A g \in T!Run : ~T!Working(g)
  BY NothingNestedKeeps
<1>4. x6' \in 0 .. MaxLegs /\ x4 \in T!WorkerState
  BY <1>3 DEF T!ScenariosOK, T!DetachedShape
<1>5. \A g \in T!Run : x5'[g].work # "alive"
  BY <1>1, <1>3 DEF T!Working
<1> QED BY <1>1, <1>2, <1>3, <1>4, <1>5 DEF Around, WorkerKept, T!WorkerAlive

\* The harness is signalled.
LEMMA NestedAround ==
  ASSUME T!ScenariosOK, T!DetachedShape, T!AttachSound, T!HarnessSound, NEW ok \in BOOLEAN, T!SignalNested(ok), T!Outside
  PROVE  Around /\ (T!WorkerAlive' <=> T!WorkerAlive)
<1>1. UNCHANGED <<x10, x2, x3, x7>>
  BY DEF T!Outside
<1>2. /\ x5' \in [T!Run -> T!HarnessGroup] /\ \A g \in T!Run : Fades(g)
      /\ SidecarKept /\ x6' \in 0 .. MaxLegs /\ x4' = x4 /\ x8' = x8
  BY NestedStep
<1> QED BY <1>1, <1>2 DEF Around, WorkerKept, T!WorkerAlive, T!DetachedShape

\* A worker that is not found is not there.
LEMMA NotFound ==
  ASSUME T!Identity(0) # "match"
  PROVE  ~T!WorkerAlive
  BY DEF T!Identity

\* A command that finds its worker lost.
LEMMA LostMoves ==
  ASSUME T!DetachedShape, NEW c \in Cancellers, T!CommandSound(c), x9[c].at \in {"verify", "term"},
         T!Lost(c), x1' = x1, T!WorkerAlive' <=> T!WorkerAlive
  PROVE  Beside(c) /\ T!CommandSound(c)'
<1>0. x1.state # "absent" /\ x1.controller # 0
  BY DEF T!CommandSound, T!Engaged
<1>1. ASSUME NEW code \in {"worker_lost", "control_unavailable"}, T!Identity(0) # "match",
             T!CanGive(c, "orphan", code)
      PROVE  Beside(c) /\ T!CommandSound(c)'
  <2>1. Beside(c) /\ x9'[c].at = "orphan" /\ x9'[c].code = code
    BY <1>1, CommandGives DEF Beside
  <2>2. ~T!WorkerAlive'
    BY <1>1, NotFound
  <2> QED BY <1>0, <2>1, <2>2 DEF T!CommandSound, T!Cleaning
<1>2. CASE T!CanGoto(c, "refuse")
  <2>1. Beside(c) /\ x9'[c].at = "refuse"
    BY <1>2, Moves DEF Places
  <2> QED BY <1>0, <2>1 DEF T!CommandSound, T!Cleaning, T!Engaged
<1>3. CASE T!Identity(0) = "dead" /\ T!CanGive(c, "orphan", "worker_lost")
  BY <1>1, <1>3
<1>4. CASE T!Identity(0) = "mismatch" /\ T!CanGive(c, "orphan", "control_unavailable")
  BY <1>1, <1>4
<1> QED BY <1>2, <1>3, <1>4 DEF T!Lost

\* A command that goes where it need not know more than it did.
LEMMA EngagedOn ==
  ASSUME NEW c \in Cancellers, x1'.state # "absent", x1'.controller # 0,
         x9'[c].at \in (T!Engaged \ {"orphan", "orphaned"}) \cup {"refuse", "failed"}
  PROVE  T!CommandSound(c)'
<1>1. x9'[c].at \notin T!Cleaning \cup {"clean", "report", "ok", "orphan", "orphaned"}
  BY DEF T!Engaged, T!Cleaning
<1> QED BY <1>1 DEF T!CommandSound

\* A command whose task has ended.
LEMMA EndedOn ==
  ASSUME NEW c \in Cancellers, x1'.state \in T!Terminal, x9'[c].at \in {"clean", "report", "failed", "refuse"}
  PROVE  T!CommandSound(c)'
<1>1. x9'[c].at \notin T!Engaged \cup T!Cleaning \cup {"orphan", "orphaned", "ok"} /\ x1'.state # "absent"
  BY DEF T!Engaged, T!Cleaning, T!Terminal
<1> QED BY <1>1 DEF T!CommandSound

\* A command that gives up.
LEMMA FailedOn ==
  ASSUME NEW c \in Cancellers, x1'.state # "absent", x9'[c].at \in {"failed", "refuse", "dequeue"}
  PROVE  T!CommandSound(c)'
  BY DEF T!CommandSound, T!Engaged, T!Cleaning

\* The row is interrupted as not under control, and the command reports it.
LEMMA InterruptReports ==
  ASSUME T!DetachedInv, NEW c \in Cancellers, Around, x1.state # "absent",
         T!Interrupt("control_unavailable"), T!CanGoto(c, "report")
  PROVE  T!DetachedInv'
<1>0. T!DetachedShape /\ T!SpawnSound /\ T!AttachSound /\ T!HarnessSound /\ T!CommandsSound
      /\ T!LostIsDead /\ T!SignalsAreExact
  BY DEF T!DetachedInv
<1>1. TaskRowShape' /\ Onward /\ x1'.state \in T!Terminal /\ (x1' = x1 \/ x1'.failure = "control_unavailable")
  BY <1>0, InterruptStep
<1>2. Beside(c) /\ x9'[c].at = "report"
  BY <1>0, Moves DEF Places
<1>3. T!CommandSound(c)'
  BY <1>1, <1>2, EndedOn
<1>4. x1' = x1 \/ x1'.failure # "worker_lost"
  BY <1>1
<1> QED BY <1>1, <1>2, <1>3, <1>4, CommandStep

\* The row is read.
LEMMA CancelReadsKeeps ==
  ASSUME T!ScenariosOK, T!DetachedInv, NEW c \in Cancellers, T!CancelReads(c)
  PROVE  T!DetachedInv'
<1>0. T!DetachedShape /\ T!SpawnSound /\ T!AttachSound /\ T!HarnessSound /\ T!CommandsSound
      /\ T!LostIsDead /\ T!SignalsAreExact
  BY DEF T!DetachedInv
<1>1. T!NoSignal /\ T!Outside /\ x1' = x1 /\ x6' = x6 /\ x1.state # "absent"
  BY DEF T!CancelReads
<1> DEFINE to == IF x1.state \in T!Terminal THEN "clean"
                 ELSE IF x1.state = "queued" THEN "dequeue"
                 ELSE IF x1.state = "running" THEN "verify" ELSE "term"
<1>2. T!CanGoto(c, to) /\ to \in Places
  BY DEF T!CancelReads, Places, T!Engaged
<1> HIDE DEF to
<1>3. Beside(c) /\ x9'[c].at = to
  BY <1>0, <1>2, Moves
<1>4. Around /\ TaskRowShape' /\ Onward
  BY <1>0, <1>1, NoSignalAround, RowLeft
<1>5. T!CommandSound(c)'
  <2>1. CASE x1.state \in T!Terminal
    BY <1>1, <1>3, <2>1, EndedOn DEF to
  <2>2. CASE x1.state = "queued"
    <3>1. to = "dequeue"
      BY <2>2 DEF to, T!Terminal
    <3> QED BY <1>1, <1>3, <3>1, FailedOn
  <2>3. CASE x1.state \in {"running", "cancelling"}
    <3>1. to \in {"verify", "term"} /\ x1.controller # 0
      BY <1>0, <2>3, RowKnown DEF to, T!Terminal
    <3> QED BY <1>1, <1>3, <3>1, EngagedOn DEF T!Engaged
  <2> QED BY <1>0, <1>1, <2>1, <2>2, <2>3, RowKnown DEF T!Active
<1> QED BY <1>1, <1>3, <1>4, <1>5, CommandStep

\* A queued task is cancelled, if it still is queued.
LEMMA CancelQueuedKeeps ==
  ASSUME T!ScenariosOK, T!DetachedInv, NEW c \in Cancellers, T!CancelQueued(c)
  PROVE  T!DetachedInv'
<1>0. T!DetachedShape /\ T!SpawnSound /\ T!AttachSound /\ T!HarnessSound /\ T!CommandsSound
      /\ T!LostIsDead /\ T!SignalsAreExact
  BY DEF T!DetachedInv
<1>1. T!NoSignal /\ T!Outside /\ x6' = x6 /\ x1.state # "absent"
  BY <1>0 DEF T!CancelQueued, T!CommandsSound, T!CommandSound
<1> DEFINE to == IF x1.state \in T!Terminal \cup {"queued"} THEN "clean"
                 ELSE IF x1.state = "running" THEN "verify" ELSE "term"
<1>2. T!CanGoto(c, to) /\ to \in Places
  BY DEF T!CancelQueued, Places, T!Engaged
<1> HIDE DEF to
<1>3. Beside(c) /\ x9'[c].at = to
  BY <1>0, <1>2, Moves
<1>4. Around
  BY <1>0, <1>1, NoSignalAround
<1>5. CASE x1.state = "queued"
  <2>1. T!CanCancel(x1) /\ x1' = T!CancelRequested(x1, 0)
    BY <1>5 DEF T!CancelQueued, T!CanCancel
  <2>2. TaskRowShape' /\ Onward /\ x1'.failure # "worker_lost" /\ x1'.state = "cancelled"
    BY <1>0, <1>5, <2>1, CancelStep
  <2>3. T!CommandSound(c)'
    BY <1>3, <1>5, <2>2, EndedOn DEF to, T!Terminal
  <2> QED BY <1>3, <1>4, <2>2, <2>3, CommandStep
<1>6. CASE x1.state # "queued"
  <2>1. x1' = x1
    BY <1>6 DEF T!CancelQueued
  <2>2. TaskRowShape' /\ Onward
    BY <1>0, <2>1, RowLeft
  <2>3. T!CommandSound(c)'
    <3>1. CASE x1.state \in T!Terminal
      BY <1>3, <2>1, <3>1, EndedOn DEF to
    <3>2. CASE x1.state \in {"running", "cancelling"}
      <4>1. to \in {"verify", "term"} /\ x1.controller # 0
        BY <1>0, <3>2, RowKnown DEF to, T!Terminal
      <4> QED BY <1>1, <1>3, <2>1, <4>1, EngagedOn DEF T!Engaged
    <3> QED BY <1>0, <1>1, <1>6, <3>1, <3>2, RowKnown DEF T!Active
  <2> QED BY <1>3, <1>4, <2>1, <2>2, <2>3, CommandStep
<1> QED BY <1>5, <1>6

\* What a command that is engaged knows.
LEMMA EngagedKnows ==
  ASSUME T!DetachedInv, NEW c \in Cancellers, x9[c].at \in T!Engaged
  PROVE  x1.state # "absent" /\ x1.controller # 0 /\ T!CommandSound(c)
<1>1. T!CommandSound(c)
  BY DEF T!DetachedInv, T!CommandsSound
<1> QED BY <1>1 DEF T!CommandSound, T!Engaged

\* The first look at the worker.
LEMMA CancelRunningKeeps ==
  ASSUME T!ScenariosOK, T!DetachedInv, NEW c \in Cancellers, T!CancelRunning(c)
  PROVE  T!DetachedInv'
<1>0. T!DetachedShape /\ T!SpawnSound /\ T!AttachSound /\ T!HarnessSound /\ T!CommandsSound
      /\ T!LostIsDead /\ T!SignalsAreExact
  BY DEF T!DetachedInv
<1>1. T!NoSignal /\ T!Outside /\ x1' = x1 /\ x6' = x6 /\ x9[c].at = "verify"
  BY DEF T!CancelRunning
<1>2. x1.state # "absent" /\ x1.controller # 0 /\ T!CommandSound(c)
  BY <1>1, EngagedKnows DEF T!Engaged
<1>3. Around /\ TaskRowShape' /\ Onward /\ (T!WorkerAlive' <=> T!WorkerAlive)
  BY <1>0, <1>1, NoSignalAround, RowLeft
<1>4. Beside(c) /\ T!CommandSound(c)'
  <2>1. CASE T!CanGoto(c, "request")
    <3>1. Beside(c) /\ x9'[c].at = "request"
      BY <1>0, <2>1, Moves DEF Places, T!Engaged
    <3> QED BY <1>1, <1>2, <3>1, EngagedOn DEF T!Engaged
  <2>2. CASE T!Lost(c)
    BY <1>0, <1>1, <1>2, <1>3, <2>2, LostMoves
  <2> QED BY <2>1, <2>2 DEF T!CancelRunning
<1> QED BY <1>1, <1>3, <1>4, CommandStep

\* The cancellation is requested, unless the task has moved on.
LEMMA RequestCancelKeeps ==
  ASSUME T!ScenariosOK, T!DetachedInv, NEW c \in Cancellers, T!RequestCancel(c)
  PROVE  T!DetachedInv'
<1>0. T!DetachedShape /\ T!SpawnSound /\ T!AttachSound /\ T!HarnessSound /\ T!CommandsSound
      /\ T!LostIsDead /\ T!SignalsAreExact
  BY DEF T!DetachedInv
<1>1. T!NoSignal /\ T!Outside /\ x6' = x6 /\ x9[c].at = "request"
  BY DEF T!RequestCancel
<1>2. x1.state # "absent" /\ x1.controller # 0
  BY <1>1, EngagedKnows DEF T!Engaged
<1> DEFINE to == IF x1.state \in T!Terminal THEN "clean" ELSE "term"
<1>3. T!CanGoto(c, to) /\ to \in Places
  BY DEF T!RequestCancel, Places, T!Engaged
<1> HIDE DEF to
<1>4. Beside(c) /\ x9'[c].at = to
  BY <1>0, <1>3, Moves
<1>5. Around
  BY <1>0, <1>1, NoSignalAround
<1>6. CASE x1.state = "running"
  <2>1. T!CanCancel(x1) /\ x1' = T!CancelRequested(x1, 0)
    BY <1>6 DEF T!RequestCancel, T!CanCancel
  <2>2. TaskRowShape' /\ Onward /\ x1'.failure # "worker_lost" /\ x1'.state = "cancelling"
    BY <1>0, <1>6, <2>1, CancelStep
  <2>3. to = "term" /\ x1'.controller # 0
    BY <1>2, <1>6, <2>2 DEF to, T!Terminal, Onward
  <2>4. T!CommandSound(c)'
    BY <1>4, <2>2, <2>3, EngagedOn DEF T!Engaged
  <2> QED BY <1>4, <1>5, <2>2, <2>4, CommandStep
<1>7. CASE x1.state # "running"
  <2>1. x1' = x1
    BY <1>7 DEF T!RequestCancel
  <2>2. TaskRowShape' /\ Onward
    BY <1>0, <2>1, RowLeft
  <2>3. T!CommandSound(c)'
    <3>1. CASE x1.state \in T!Terminal
      BY <1>4, <2>1, <3>1, EndedOn DEF to
    <3>2. CASE x1.state \notin T!Terminal
      <4>1. to = "term"
        BY <3>2 DEF to
      <4> QED BY <1>2, <1>4, <2>1, <4>1, EngagedOn DEF T!Engaged
    <3> QED BY <3>1, <3>2
  <2> QED BY <1>4, <1>5, <2>1, <2>2, <2>3, CommandStep
<1> QED BY <1>6, <1>7

\* SIGTERM, which a worker that is attached handles.
LEMMA TerminateKeeps ==
  ASSUME T!ScenariosOK, T!DetachedInv, NEW c \in Cancellers, T!Terminate(c)
  PROVE  T!DetachedInv'
<1>0. T!DetachedShape /\ T!SpawnSound /\ T!AttachSound /\ T!HarnessSound /\ T!CommandsSound
      /\ T!LostIsDead /\ T!SignalsAreExact
  BY DEF T!DetachedInv
<1>1. T!Outside /\ x1' = x1 /\ x6' = x6 /\ x9[c].at = "term"
  BY DEF T!Terminate
<1>2. x1.state # "absent" /\ x1.controller # 0 /\ T!CommandSound(c)
  BY <1>1, EngagedKnows DEF T!Engaged
<1>3. TaskRowShape' /\ Onward
  BY <1>0, <1>1, RowLeft
<1>4. CASE T!Identity(0) = "match" /\ T!TermWorker /\ T!CanGoto(c, "nested")
  <2>1. T!WorkerAlive /\ x4.at # "boot"
    <3>1. x4.at \notin T!Unattached
      BY <1>0, <1>2 DEF T!AttachSound
    <3>2. T!WorkerAlive
      BY <1>4 DEF T!Identity
    <3> QED BY <3>1, <3>2 DEF T!Unattached
  <2>2. x4' = [x4 EXCEPT !.token = TRUE] /\ UNCHANGED <<x5, x8>>
    BY <1>4, <2>1 DEF T!TermWorker
  <2>3. WorkerKept
    BY <1>0, <2>2 DEF T!DetachedShape, T!WorkerState, WorkerKept
  <2>4. x5' \in [T!Run -> T!HarnessGroup] /\ \A g \in T!Run : Fades(g)
    BY <1>0, <2>2, GroupsLeft
  <2>5. Around
    BY <1>0, <1>1, <2>2, <2>3, <2>4 DEF Around, T!Outside, SidecarKept, T!DetachedShape
  <2>6. Beside(c) /\ x9'[c].at = "nested"
    BY <1>0, <1>4, Moves DEF Places, T!Engaged
  <2>7. T!CommandSound(c)'
    BY <1>1, <1>2, <2>6, EngagedOn DEF T!Engaged
  <2> QED BY <1>1, <1>3, <2>5, <2>6, <2>7, CommandStep
<1>5. CASE T!Lost(c) /\ T!NoSignal
  <2>1. Around /\ (T!WorkerAlive' <=> T!WorkerAlive)
    BY <1>0, <1>1, <1>5, NoSignalAround
  <2>2. Beside(c) /\ T!CommandSound(c)'
    BY <1>0, <1>1, <1>2, <1>5, <2>1, LostMoves
  <2> QED BY <1>1, <1>3, <2>1, <2>2, CommandStep
<1> QED BY <1>4, <1>5 DEF T!Terminate

\* The wait for the harness, and its SIGKILL.
LEMMA AwaitNestedKeeps ==
  ASSUME T!ScenariosOK, T!DetachedInv, NEW c \in Cancellers, T!AwaitNested(c)
  PROVE  T!DetachedInv'
<1>0. T!DetachedShape /\ T!SpawnSound /\ T!AttachSound /\ T!HarnessSound /\ T!CommandsSound
      /\ T!LostIsDead /\ T!SignalsAreExact
  BY DEF T!DetachedInv
<1>1. T!Outside /\ x1' = x1 /\ x9[c].at = "nested"
  BY DEF T!AwaitNested
<1>2. x1.state # "absent" /\ x1.controller # 0
  BY <1>1, EngagedKnows DEF T!Engaged
<1>3. TaskRowShape' /\ Onward
  BY <1>0, <1>1, RowLeft
<1>4. ASSUME NEW to \in {"settlement", "refuse"}, T!CanGoto(c, to), Around
      PROVE  T!DetachedInv'
  <2>1. Beside(c) /\ x9'[c].at = to
    BY <1>0, <1>4, Moves DEF Places, T!Engaged
  <2>2. T!CommandSound(c)'
    BY <1>1, <1>2, <1>4, <2>1, EngagedOn DEF T!Engaged
  <2> QED BY <1>1, <1>3, <1>4, <2>1, <2>2, CommandStep
<1>5. CASE T!NothingNested /\ T!CanGoto(c, "settlement") /\ T!NoSignal
  <2>1. Around
    BY <1>0, <1>1, <1>5, NothingNestedAround
  <2> QED BY <1>4, <1>5, <2>1
<1>6. ASSUME NEW ok \in BOOLEAN, T!SignalNested(ok), T!CanGoto(c, IF ok THEN "settlement" ELSE "refuse")
      PROVE  T!DetachedInv'
  <2>1. Around
    BY <1>0, <1>1, <1>6, NestedAround
  <2>2. T!CanGoto(c, "settlement") \/ T!CanGoto(c, "refuse")
    BY <1>6
  <2> QED BY <1>4, <2>1, <2>2
<1> QED BY <1>5, <1>6 DEF T!AwaitNested

\* The wait for the worker, and its SIGKILL.
LEMMA EscalateKeeps ==
  ASSUME T!ScenariosOK, T!DetachedInv, NEW c \in Cancellers, T!Escalate(c)
  PROVE  T!DetachedInv'
<1>0. T!DetachedShape /\ T!SpawnSound /\ T!AttachSound /\ T!HarnessSound /\ T!CommandsSound
      /\ T!LostIsDead /\ T!SignalsAreExact
  BY DEF T!DetachedInv
<1>1. T!Outside /\ x6' = x6 /\ x9[c].at = "settlement"
  BY DEF T!Escalate
<1>2. x1.state # "absent" /\ x1.controller # 0
  BY <1>1, EngagedKnows DEF T!Engaged
<1>3. ASSUME NEW to \in {"cleanup", "refuse"}, T!CanGoto(c, to), T!NoSignal, x1' = x1
      PROVE  T!DetachedInv'
  <2>1. Beside(c) /\ x9'[c].at = to
    BY <1>0, <1>3, Moves DEF Places, T!Engaged
  <2>2. T!CommandSound(c)'
    BY <1>2, <1>3, <2>1, EngagedOn DEF T!Engaged
  <2>3. Around /\ TaskRowShape' /\ Onward
    BY <1>0, <1>1, <1>3, NoSignalAround, RowLeft
  <2> QED BY <1>3, <2>1, <2>2, <2>3, CommandStep
<1>4. CASE T!Identity(0) = "match" /\ T!KillWorker /\ T!CanGoto(c, "cleanup") /\ UNCHANGED x1
  <2>1. T!WorkerAlive
    BY <1>4 DEF T!Identity
  <2>2. T!WorkerGone /\ UNCHANGED x8
    BY <1>4, <2>1 DEF T!KillWorker
  <2>3. Beside(c) /\ x9'[c].at = "cleanup"
    BY <1>0, <1>4, Moves DEF Places, T!Engaged
  <2>4. T!CommandSound(c)'
    BY <1>2, <1>4, <2>3, EngagedOn DEF T!Engaged
  <2> QED BY <1>1, <1>4, <2>1, <2>2, <2>3, <2>4, CommandKills
<1>5. CASE T!CanGoto(c, "report") /\ T!Interrupt("control_unavailable") /\ T!NoSignal
  <2>1. Around
    BY <1>0, <1>1, <1>5, NoSignalAround
  <2> QED BY <1>2, <1>5, <2>1, InterruptReports
<1> QED BY <1>3, <1>4, <1>5 DEF T!Escalate

\* The wait for both.
LEMMA AwaitCleanupKeeps ==
  ASSUME T!ScenariosOK, T!DetachedInv, NEW c \in Cancellers, T!AwaitCleanup(c)
  PROVE  T!DetachedInv'
<1>0. T!DetachedShape /\ T!SpawnSound /\ T!AttachSound /\ T!HarnessSound /\ T!CommandsSound
      /\ T!LostIsDead /\ T!SignalsAreExact
  BY DEF T!DetachedInv
<1>1. T!Outside /\ T!NoSignal /\ x9[c].at = "cleanup"
  BY DEF T!AwaitCleanup
<1>2. x1.state # "absent" /\ x1.controller # 0
  BY <1>1, EngagedKnows DEF T!Engaged
<1>3. CASE T!NothingNested /\ T!CanGoto(c, "final") /\ UNCHANGED x1
  <2>1. Beside(c) /\ x9'[c].at = "final"
    BY <1>0, <1>3, Moves DEF Places, T!Engaged
  <2>2. T!CommandSound(c)'
    BY <1>2, <1>3, <2>1, EngagedOn DEF T!Engaged
  <2>3. Around /\ TaskRowShape' /\ Onward
    BY <1>0, <1>1, <1>3, NothingNestedAround, RowLeft
  <2> QED BY <1>3, <2>1, <2>2, <2>3, CommandStep
<1>4. CASE T!CanGoto(c, "report") /\ T!Interrupt("control_unavailable") /\ UNCHANGED x6
  <2>1. Around
    BY <1>0, <1>1, <1>4, NoSignalAround
  <2> QED BY <1>2, <1>4, <2>1, InterruptReports
<1> QED BY <1>3, <1>4 DEF T!AwaitCleanup

\* The wait for the row.
LEMMA AwaitFinalKeeps ==
  ASSUME T!ScenariosOK, T!DetachedInv, NEW c \in Cancellers, T!AwaitFinal(c)
  PROVE  T!DetachedInv'
<1>0. T!DetachedShape /\ T!SpawnSound /\ T!AttachSound /\ T!HarnessSound /\ T!CommandsSound
      /\ T!LostIsDead /\ T!SignalsAreExact
  BY DEF T!DetachedInv
<1>1. T!Outside /\ T!NoSignal /\ x6' = x6 /\ x9[c].at = "final"
  BY DEF T!AwaitFinal
<1>2. x1.state # "absent" /\ x1.controller # 0
  BY <1>1, EngagedKnows DEF T!Engaged
<1>3. Around
  BY <1>0, <1>1, NoSignalAround
<1>4. CASE x1.state \in T!Terminal /\ T!CanGoto(c, "clean") /\ UNCHANGED x1
  <2>1. Beside(c) /\ x9'[c].at = "clean"
    BY <1>0, <1>4, Moves DEF Places
  <2>2. T!CommandSound(c)'
    BY <1>4, <2>1, EndedOn
  <2>3. TaskRowShape' /\ Onward
    BY <1>0, <1>4, RowLeft
  <2> QED BY <1>3, <1>4, <2>1, <2>2, <2>3, CommandStep
<1>5. CASE T!CanGoto(c, "report") /\ T!Interrupt("control_unavailable")
  BY <1>2, <1>3, <1>5, InterruptReports
<1> QED BY <1>4, <1>5 DEF T!AwaitFinal

\* The harness of a lost worker is signalled.
LEMMA CleanOrphanKeeps ==
  ASSUME T!ScenariosOK, T!DetachedInv, NEW c \in Cancellers, T!CleanOrphan(c)
  PROVE  T!DetachedInv'
<1>0. T!DetachedShape /\ T!SpawnSound /\ T!AttachSound /\ T!HarnessSound /\ T!CommandsSound
      /\ T!LostIsDead /\ T!SignalsAreExact
  BY DEF T!DetachedInv
<1>1. T!Outside /\ x1' = x1 /\ x9[c].at = "orphan"
  BY DEF T!CleanOrphan
<1>2. x1.state # "absent" /\ x1.controller # 0 /\ T!CommandSound(c)
  BY <1>1, EngagedKnows DEF T!Engaged
<1>3. TaskRowShape' /\ Onward
  BY <1>0, <1>1, RowLeft
<1>4. PICK ok \in BOOLEAN : T!SignalNested(ok) /\ T!CanGoto(c, IF ok THEN "orphaned" ELSE "refuse")
  BY DEF T!CleanOrphan
<1>5. Around /\ (T!WorkerAlive' <=> T!WorkerAlive)
  BY <1>0, <1>1, <1>4, NestedAround
<1>6. PICK to \in {"orphaned", "refuse"} : T!CanGoto(c, to)
  BY <1>4
<1>7. Beside(c) /\ x9'[c].at = to /\ x9'[c].code = x9[c].code
  BY <1>0, <1>6, Moves DEF Places, T!Engaged
<1>8. ~T!WorkerAlive' /\ x9[c].code # "none"
  BY <1>1, <1>2, <1>5 DEF T!CommandSound
<1>9. T!CommandSound(c)'
  BY <1>1, <1>2, <1>7, <1>8 DEF T!CommandSound, T!Cleaning, T!Engaged
<1> QED BY <1>1, <1>3, <1>5, <1>7, <1>9, CommandStep

\* A task whose worker and harness are gone is interrupted.
LEMMA InterruptOrphanKeeps ==
  ASSUME T!ScenariosOK, T!DetachedInv, NEW c \in Cancellers, T!InterruptOrphan(c)
  PROVE  T!DetachedInv'
<1>0. T!DetachedShape /\ T!SpawnSound /\ T!AttachSound /\ T!HarnessSound /\ T!CommandsSound
      /\ T!LostIsDead /\ T!SignalsAreExact
  BY DEF T!DetachedInv
<1>1. T!Outside /\ T!NoSignal /\ x9[c].at = "orphaned"
  BY DEF T!InterruptOrphan
<1>2. x1.state # "absent" /\ x1.controller # 0 /\ T!CommandSound(c)
  BY <1>1, EngagedKnows DEF T!Engaged
<1>3. ~T!WorkerAlive /\ x9[c].code \in {"worker_lost", "control_unavailable"}
  <2>1. x9[c] \in T!Command
    BY <1>0 DEF T!DetachedShape
  <2> QED BY <1>1, <1>2, <2>1 DEF T!CommandSound, T!Command
<1>4. CASE T!NothingNested /\ T!Interrupt(x9[c].code) /\ T!CanGoto(c, "report")
  <2>1. Around /\ \A g \in T!Run : ~T!Working(g)
    BY <1>0, <1>1, <1>4, NothingNestedAround
  <2>2. TaskRowShape' /\ Onward /\ x1'.state \in T!Terminal
    BY <1>0, <1>2, <1>3, <1>4, InterruptStep
  <2>3. Beside(c) /\ x9'[c].at = "report"
    BY <1>0, <1>4, Moves DEF Places
  <2>4. T!CommandSound(c)'
    BY <2>2, <2>3, EndedOn
  <2> QED BY <1>2, <1>3, <2>1, <2>2, <2>3, <2>4, CommandStep
<1>5. CASE T!CanGoto(c, "refuse") /\ UNCHANGED <<x1, x6>>
  <2>1. Around /\ TaskRowShape' /\ Onward
    BY <1>0, <1>1, <1>5, NoSignalAround, RowLeft
  <2>2. Beside(c) /\ x9'[c].at = "refuse"
    BY <1>0, <1>5, Moves DEF Places
  <2>3. T!CommandSound(c)'
    BY <1>2, <1>5, <2>2, FailedOn
  <2> QED BY <1>5, <2>1, <2>2, <2>3, CommandStep
<1> QED BY <1>4, <1>5 DEF T!InterruptOrphan

\* What a command that began knows of the row.
LEMMA BegunKnows ==
  ASSUME T!DetachedInv, NEW c \in Cancellers, x9[c].at \notin {"away", "start"}
  PROVE  x1.state # "absent" /\ T!CommandSound(c)
<1>1. T!CommandSound(c)
  BY DEF T!DetachedInv, T!CommandsSound
<1> QED BY <1>1 DEF T!CommandSound

\* A command refuses.
LEMMA RefuseKeeps ==
  ASSUME T!ScenariosOK, T!DetachedInv, NEW c \in Cancellers, T!Refuse(c)
  PROVE  T!DetachedInv'
<1>0. T!DetachedShape /\ T!SpawnSound /\ T!AttachSound /\ T!HarnessSound /\ T!CommandsSound
      /\ T!LostIsDead /\ T!SignalsAreExact
  BY DEF T!DetachedInv
<1>1. T!NoSignal /\ T!Outside /\ x1' = x1 /\ x6' = x6 /\ x9[c].at = "refuse"
  BY DEF T!Refuse
<1>2. x1.state # "absent"
  BY <1>1, BegunKnows
<1>3. Around /\ TaskRowShape' /\ Onward
  BY <1>0, <1>1, NoSignalAround, RowLeft
<1>4. Beside(c) /\ T!CommandSound(c)'
  <2>1. CASE x1.state \in T!Terminal /\ T!CanGoto(c, "clean")
    <3>1. Beside(c) /\ x9'[c].at = "clean"
      BY <1>0, <2>1, Moves DEF Places
    <3> QED BY <1>1, <2>1, <3>1, EndedOn
  <2>2. CASE T!CanGoto(c, "failed")
    <3>1. Beside(c) /\ x9'[c].at = "failed"
      BY <1>0, <2>2, Moves DEF Places
    <3> QED BY <1>1, <1>2, <3>1, FailedOn
  <2> QED BY <2>1, <2>2 DEF T!Refuse
<1> QED BY <1>1, <1>3, <1>4, CommandStep

\* An interruption is reported.
LEMMA ReportKeeps ==
  ASSUME T!ScenariosOK, T!DetachedInv, NEW c \in Cancellers, T!Report(c)
  PROVE  T!DetachedInv'
<1>0. T!DetachedShape /\ T!SpawnSound /\ T!AttachSound /\ T!HarnessSound /\ T!CommandsSound
      /\ T!LostIsDead /\ T!SignalsAreExact
  BY DEF T!DetachedInv
<1>1. T!NoSignal /\ T!Outside /\ x1' = x1 /\ x6' = x6 /\ x9[c].at = "report"
  BY DEF T!Report
<1>2. x1.state \in T!Terminal
  BY <1>0, <1>1 DEF T!CommandsSound, T!CommandSound
<1>3. Around /\ TaskRowShape' /\ Onward
  BY <1>0, <1>1, NoSignalAround, RowLeft
<1>4. Beside(c) /\ x9'[c].at = "clean"
  <2>1. PICK k \in T!Command : k = x9[c]
    BY <1>0 DEF T!DetachedShape
  <2>2. PICK n \in T!Command : n = [k EXCEPT !.at = "clean", !.via = "report"]
    BY DEF T!Command
  <2>3. n.at = "clean"
    BY <2>2 DEF T!Command
  <2>4. x9' = [x9 EXCEPT ![c] = n]
    BY <2>1, <2>2 DEF T!Report
  <2> QED BY <1>0, <2>3, <2>4 DEF T!DetachedShape, Beside
<1>5. T!CommandSound(c)'
  BY <1>1, <1>2, <1>4, EndedOn
<1> QED BY <1>1, <1>3, <1>4, <1>5, CommandStep

\* The worker of an ended task is killed, or found gone.
LEMMA CleanWorkerKeeps ==
  ASSUME T!ScenariosOK, T!DetachedInv, NEW c \in Cancellers, T!CleanWorker(c)
  PROVE  T!DetachedInv'
<1>0. T!DetachedShape /\ T!SpawnSound /\ T!AttachSound /\ T!HarnessSound /\ T!CommandsSound
      /\ T!LostIsDead /\ T!SignalsAreExact
  BY DEF T!DetachedInv
<1>1. T!Outside /\ x1' = x1 /\ x6' = x6 /\ x9[c].at = "clean"
  BY DEF T!CleanWorker
<1>2. x1.state \in T!Terminal /\ x1.state # "absent"
  BY <1>0, <1>1 DEF T!CommandsSound, T!CommandSound, T!Terminal
<1>3. ASSUME T!CanGoto(c, "cleanNested"), x1.controller = 0 \/ ~T!WorkerAlive'
      PROVE  Beside(c) /\ T!CommandSound(c)'
  <2>1. Beside(c) /\ x9'[c].at = "cleanNested"
    BY <1>0, <1>3, Moves DEF Places, T!Cleaning
  <2> QED BY <1>1, <1>2, <1>3, <2>1 DEF T!CommandSound, T!Engaged
<1>4. CASE T!NoSignal
  <2>1. Around /\ TaskRowShape' /\ Onward /\ (T!WorkerAlive' <=> T!WorkerAlive)
    BY <1>0, <1>1, <1>4, NoSignalAround, RowLeft
  <2>2. CASE T!CanGoto(c, "cleanNested") /\ (x1.controller = 0 \/ T!Identity(0) # "match")
    <3>1. Beside(c) /\ T!CommandSound(c)'
      BY <1>3, <2>1, <2>2, NotFound
    <3> QED BY <1>1, <2>1, <3>1, CommandStep
  <2>3. CASE T!CanGoto(c, "failed")
    <3>1. Beside(c) /\ x9'[c].at = "failed"
      BY <1>0, <2>3, Moves DEF Places
    <3>2. T!CommandSound(c)'
      BY <1>1, <1>2, <3>1, FailedOn
    <3> QED BY <1>1, <2>1, <3>1, <3>2, CommandStep
  <2>4. CASE T!Identity(0) = "match" /\ T!KillWorker /\ T!CanGoto(c, "cleanNested")
    <3>1. T!WorkerAlive
      BY <2>4 DEF T!Identity
    <3>2. T!WorkerGone /\ UNCHANGED x8
      BY <2>4, <3>1 DEF T!KillWorker
    <3>3. ~T!WorkerAlive'
      BY <1>0, <3>2, GoneStep DEF T!WorkerAlive, T!NotAlive
    <3> QED BY <2>1, <3>1, <3>3
  <2> QED BY <2>2, <2>3, <2>4 DEF T!CleanWorker
<1>5. CASE T!Identity(0) = "match" /\ T!KillWorker /\ T!CanGoto(c, "cleanNested")
  <2>1. T!WorkerAlive
    BY <1>5 DEF T!Identity
  <2>2. T!WorkerGone /\ UNCHANGED x8
    BY <1>5, <2>1 DEF T!KillWorker
  <2>3. ~T!WorkerAlive'
    BY <1>0, <2>2, GoneStep DEF T!WorkerAlive, T!NotAlive
  <2>4. Beside(c) /\ T!CommandSound(c)'
    BY <1>3, <1>5, <2>3
  <2> QED BY <1>1, <2>1, <2>2, <2>4, CommandKills
<1> QED BY <1>4, <1>5 DEF T!CleanWorker

\* What a command that cleans knows.
LEMMA CleaningKnows ==
  ASSUME T!DetachedInv, NEW c \in Cancellers, x9[c].at \in T!Cleaning
  PROVE  x1.state \in T!Terminal /\ x1.state # "absent" /\ (x1.controller = 0 \/ ~T!WorkerAlive)
<1>1. T!CommandSound(c)
  BY DEF T!DetachedInv, T!CommandsSound
<1> QED BY <1>1 DEF T!CommandSound, T!Terminal

\* The harness of an ended task is signalled.
LEMMA CleanNestedKeeps ==
  ASSUME T!ScenariosOK, T!DetachedInv, NEW c \in Cancellers, T!CleanNested(c)
  PROVE  T!DetachedInv'
<1>0. T!DetachedShape /\ T!SpawnSound /\ T!AttachSound /\ T!HarnessSound /\ T!CommandsSound
      /\ T!LostIsDead /\ T!SignalsAreExact
  BY DEF T!DetachedInv
<1>1. T!Outside /\ x1' = x1 /\ x9[c].at = "cleanNested"
  BY DEF T!CleanNested
<1>2. x1.state \in T!Terminal /\ x1.state # "absent" /\ (x1.controller = 0 \/ ~T!WorkerAlive)
  BY <1>1, CleaningKnows DEF T!Cleaning
<1>3. TaskRowShape' /\ Onward
  BY <1>0, <1>1, RowLeft
<1>4. PICK ok \in BOOLEAN : T!SignalNested(ok) /\ T!CanGoto(c, IF ok THEN "cleanWait" ELSE "failed")
  BY DEF T!CleanNested
<1>5. Around /\ (T!WorkerAlive' <=> T!WorkerAlive)
  BY <1>0, <1>1, <1>4, NestedAround
<1>6. PICK to \in {"cleanWait", "failed"} : T!CanGoto(c, to)
  BY <1>4
<1>7. Beside(c) /\ x9'[c].at = to
  BY <1>0, <1>6, Moves DEF Places, T!Cleaning
<1>8. T!CommandSound(c)'
  BY <1>1, <1>2, <1>5, <1>7 DEF T!CommandSound, T!Engaged
<1> QED BY <1>1, <1>3, <1>5, <1>7, <1>8, CommandStep

\* The wait for the harness of an ended task.
LEMMA CleanWaitKeeps ==
  ASSUME T!ScenariosOK, T!DetachedInv, NEW c \in Cancellers, T!CleanWait(c)
  PROVE  T!DetachedInv'
<1>0. T!DetachedShape /\ T!SpawnSound /\ T!AttachSound /\ T!HarnessSound /\ T!CommandsSound
      /\ T!LostIsDead /\ T!SignalsAreExact
  BY DEF T!DetachedInv
<1>1. T!Outside /\ T!NoSignal /\ x1' = x1 /\ x9[c].at = "cleanWait"
  BY DEF T!CleanWait
<1>2. x1.state \in T!Terminal /\ x1.state # "absent" /\ (x1.controller = 0 \/ ~T!WorkerAlive)
  BY <1>1, CleaningKnows DEF T!Cleaning
<1>3. TaskRowShape' /\ Onward
  BY <1>0, <1>1, RowLeft
<1>4. ASSUME T!CanGoto(c, "failed"), Around
      PROVE  T!DetachedInv'
  <2>1. Beside(c) /\ x9'[c].at = "failed"
    BY <1>0, <1>4, Moves DEF Places
  <2>2. T!CommandSound(c)'
    BY <1>1, <1>2, <2>1, FailedOn
  <2> QED BY <1>1, <1>3, <1>4, <2>1, <2>2, CommandStep
<1>5. CASE T!NothingNested
  <2>1. Around /\ (T!WorkerAlive' <=> T!WorkerAlive) /\ \A g \in T!Run : x5'[g].work # "alive"
    BY <1>0, <1>1, <1>5, NothingNestedAround
  <2>2. CASE T!CanGoto(c, "ok")
    <3>1. Beside(c) /\ x9'[c].at = "ok"
      BY <1>0, <2>2, Moves DEF Places, T!Cleaning
    <3>2. \A g \in T!Run : ~T!Working(g)'
      BY <2>1 DEF T!Working
    <3>3. T!CommandSound(c)'
      BY <1>1, <1>2, <2>1, <3>1, <3>2 DEF T!CommandSound, T!Engaged
    <3> QED BY <1>1, <1>3, <2>1, <3>1, <3>3, CommandStep
  <2>3. T!CanGoto(c, "ok") \/ T!CanGoto(c, "failed")
    BY DEF T!CleanWait
  <2> QED BY <1>4, <2>1, <2>2, <2>3
<1>6. CASE T!CanGoto(c, "failed") /\ UNCHANGED x6
  <2>1. Around
    BY <1>0, <1>1, <1>6, NoSignalAround
  <2> QED BY <1>4, <1>6, <2>1
<1> QED BY <1>5, <1>6 DEF T!CleanWait

\* A command dies.
LEMMA CancelDiesKeeps ==
  ASSUME T!ScenariosOK, T!DetachedInv, NEW c \in Cancellers, T!CancelDies(c)
  PROVE  T!DetachedInv'
<1>0. T!DetachedShape /\ T!SpawnSound /\ T!AttachSound /\ T!HarnessSound /\ T!CommandsSound
      /\ T!LostIsDead /\ T!SignalsAreExact
  BY DEF T!DetachedInv
<1>1. T!NoSignal /\ T!Outside /\ x1' = x1 /\ x6' = x6 /\ x9[c].at \notin {"away", "start"}
      /\ T!CanGoto(c, "failed")
  BY DEF T!CancelDies
<1>2. x1.state # "absent"
  BY <1>1, BegunKnows
<1>3. Around /\ TaskRowShape' /\ Onward
  BY <1>0, <1>1, NoSignalAround, RowLeft
<1>4. Beside(c) /\ x9'[c].at = "failed"
  BY <1>0, <1>1, Moves DEF Places
<1>5. T!CommandSound(c)'
  BY <1>1, <1>2, <1>4, FailedOn
<1> QED BY <1>1, <1>3, <1>4, <1>5, CommandStep

\* Every step of a command.
LEMMA DetachedCancelKeeps ==
  ASSUME T!ScenariosOK, T!DetachedInv, NEW c \in Cancellers, T!Cancel(c)
  PROVE  T!DetachedInv'
<1>1. CASE \/ T!CancelReads(c) \/ T!CancelQueued(c) \/ T!CancelRunning(c) \/ T!RequestCancel(c)
           \/ T!Terminate(c) \/ T!AwaitNested(c) \/ T!Escalate(c) \/ T!AwaitCleanup(c)
  BY <1>1, CancelReadsKeeps, CancelQueuedKeeps, CancelRunningKeeps, RequestCancelKeeps,
     TerminateKeeps, AwaitNestedKeeps, EscalateKeeps, AwaitCleanupKeeps
<1>2. CASE \/ T!AwaitFinal(c) \/ T!CleanOrphan(c) \/ T!InterruptOrphan(c) \/ T!Refuse(c) \/ T!Report(c)
           \/ T!CleanWorker(c) \/ T!CleanNested(c) \/ T!CleanWait(c) \/ T!CancelDies(c)
  BY <1>2, AwaitFinalKeeps, CleanOrphanKeeps, InterruptOrphanKeeps, RefuseKeeps, ReportKeeps,
     CleanWorkerKeeps, CleanNestedKeeps, CleanWaitKeeps, CancelDiesKeeps
<1> QED BY <1>1, <1>2 DEF T!Cancel

\* Whoever lists the tasks finds a worker lost only when nothing is left of it.
LEMMA ReconcileKeeps ==
  ASSUME T!ScenariosOK, T!DetachedInv, T!Reconcile
  PROVE  T!DetachedInv'
<1>0. T!DetachedShape /\ T!SpawnSound /\ T!AttachSound /\ T!HarnessSound /\ T!CommandsSound
      /\ T!LostIsDead /\ T!SignalsAreExact
  BY DEF T!DetachedInv
<1>1. /\ UNCHANGED <<x10, x2, x3, x4, x5, x7, x8, x9>> /\ T!NothingNested
      /\ x1.state \in {"running", "cancelling"} /\ ~T!WorkerAlive
  BY NotFound DEF T!Reconcile, T!processes
<1>2. T!NoSignal /\ T!Outside
  BY <1>1 DEF T!NoSignal, T!Outside
<1>3. Around /\ \A g \in T!Run : ~T!Working(g)
  BY <1>0, <1>1, <1>2, NothingNestedAround
<1>4. x1.controller # 0 /\ x1.state # "absent"
  BY <1>0, <1>1, RowKnown
<1>5. TaskRowShape' /\ Onward
  BY <1>0, <1>4, InterruptStep DEF T!Reconcile
<1>6. UNCHANGED <<x10, x7, x8>> /\ ParentStep /\ x3' \in {"open", "full", "broken"} /\ x9' \in [Cancellers -> T!Command]
  BY <1>0, <1>1 DEF ParentStep, T!DetachedShape
<1>7. /\ T!DetachedShape' /\ T!SpawnSound' /\ T!AttachSound' /\ T!HarnessSound' /\ T!SignalsAreExact'
      /\ Forward
  <2>1. /\ WorkerKept /\ x5' \in [T!Run -> T!HarnessGroup] /\ \A g \in T!Run : Fades(g)
        /\ SidecarKept /\ x6' \in 0 .. MaxLegs
    BY <1>3 DEF Around
  <2> QED BY <1>0, <1>4, <1>5, <1>6, <2>1, DetachedQuietStep
<1>8. T!LostIsDead'
  BY <1>1, <1>3 DEF T!LostIsDead, T!WorkerAlive, T!Working
<1> QED BY <1>0, <1>1, <1>7, <1>8, CommandsLeft DEF T!DetachedInv

\* Every step of the worker.
LEMMA WorkerKeeps ==
  ASSUME T!ScenariosOK, T!DetachedInv, T!Worker
  PROVE  T!DetachedInv'
  BY ArmKeeps, AttachKeeps, ReadRequestKeeps, StartHarnessKeeps, EndDispatchKeeps, PublishStartedKeeps,
     ReleaseKeeps, StopHarnessKeeps, ReapHarnessKeeps, SettleTaskKeeps, WorkerDiesKeeps DEF T!Worker

\* Every step keeps the invariant.
LEMMA DetachedStep ==
  ASSUME T!ScenariosOK, T!DetachedInv, T!Next
  PROVE  T!DetachedInv'
<1>1. CASE T!Create \/ T!Spawn \/ T!Handoff \/ T!SettleSpawnFailure \/ T!ParentDies
  BY <1>1, CreateKeeps, SpawnKeeps, HandoffKeeps, SettleSpawnFailureKeeps, ParentDiesKeeps
<1>2. CASE T!Worker
  BY <1>2, WorkerKeeps
<1>3. ASSUME NEW g \in T!Run, T!GroupEnds(g) \/ T!SentinelKilled(g) \/ T!MembersEnd(g) \/ T!GateCloses(g)
      PROVE  T!DetachedInv'
  BY <1>3, GroupEndsKeeps, SentinelKilledKeeps, MembersEndKeeps, GateClosesKeeps
<1>4. ASSUME NEW n \in {0} \cup T!Run, T!Reused(n)
      PROVE  T!DetachedInv'
  BY <1>4, ReusedKeeps
<1>5. ASSUME NEW c \in Cancellers, T!Cancel(c)
      PROVE  T!DetachedInv'
  BY <1>5, DetachedCancelKeeps
<1>6. CASE T!Reconcile
  BY <1>6, ReconcileKeeps
<1> QED BY <1>1, <1>2, <1>3, <1>4, <1>5, <1>6 DEF T!Next

\* A step in which nothing of the task moves.
LEMMA DetachedStutter ==
  ASSUME T!DetachedInv, UNCHANGED T!vars
  PROVE  T!DetachedInv'
<1>0. T!DetachedShape /\ T!SpawnSound /\ T!AttachSound /\ T!HarnessSound /\ T!CommandsSound
      /\ T!LostIsDead /\ T!SignalsAreExact
  BY DEF T!DetachedInv
<1>1. UNCHANGED <<x10, x1, x2, x3, x4, x5, x6, x7, x8, x9>>
  BY DEF T!vars
<1>2. T!DetachedShape' /\ T!SpawnSound' /\ T!AttachSound' /\ T!SignalsAreExact'
  BY <1>0, <1>1 DEF T!DetachedShape, T!SpawnSound, T!AttachSound, T!SignalsAreExact, T!WorkerAlive
<1>3. T!HarnessSound' /\ T!LostIsDead'
  BY <1>0, <1>1 DEF T!HarnessSound, T!LostIsDead, T!WorkIsOnRecord, T!Working, T!WorkerAlive
<1>4. Forward
  BY <1>1 DEF Forward, T!WorkerAlive
<1> QED BY <1>0, <1>1, <1>2, <1>3, <1>4, CommandsLeft DEF T!DetachedInv

\* The invariant holds at first.
LEMMA DetachedInit ==
  ASSUME T!ScenariosOK, T!Init
  PROVE  T!DetachedInv
<1>1. /\ x1 = T!NoTask /\ x2 = "create" /\ x3 = "open" /\ x6 = 0 /\ x7 = {} /\ x8 = {}
      /\ x4 = [at |-> "none", token |-> FALSE, gen |-> 0, active |-> FALSE, outcome |-> "none"]
      /\ x5 = [g \in T!Run |-> [leader |-> "none", work |-> "none"]]
  BY DEF T!Init
<1>2. PICK s \in Scenarios :
        /\ x10 = s.legs
        /\ x9 = [c \in Cancellers |-> [at |-> IF c \in s.crew THEN "start" ELSE "away",
                                      code |-> "none", via |-> "finish"]]
  BY DEF T!Init
<1>3. x10 \in 0 .. MaxLegs /\ 0 \in 0 .. MaxLegs
  BY <1>2 DEF T!ScenariosOK
<1>4. x9 \in [Cancellers -> T!Command] /\ \A c \in Cancellers : x9[c].at \in {"away", "start"}
  BY <1>2 DEF T!Command
<1>5. /\ x4 \in T!WorkerState /\ x4.at = "none" /\ x4.gen = 0
      /\ x5 \in [T!Run -> T!HarnessGroup] /\ \A g \in T!Run : x5[g].leader = "none" /\ x5[g].work = "none"
  <2>1. x4 \in T!WorkerState
    BY <1>1, <1>3 DEF T!WorkerState, T!Unattached
  <2>2. x5 \in [T!Run -> T!HarnessGroup]
    BY <1>1 DEF T!HarnessGroup
  <2> QED BY <1>1, <2>1, <2>2
<1>6. /\ x1 \in T!TaskRecord({0, 1}) /\ T!WellFormed(x1)
      /\ x1.state = "absent" /\ x1.controller = 0 /\ x1.failure = "none"
  <2>1. x1 \in T!TaskRecord({0, 1})
    BY <1>1 DEF T!NoTask, T!TaskRecord, T!Failure, T!Active, T!Terminal
  <2>2. /\ x1.state = "absent" /\ x1.controller = 0 /\ x1.failure = "none"
        /\ x1.rev = 0 /\ x1.epoch = 0 /\ x1.lease = 0
    BY <1>1 DEF T!NoTask
  <2> QED BY <2>1, <2>2 DEF T!WellFormed, T!Active
<1>7. T!DetachedShape
  BY <1>1, <1>3, <1>4, <1>5, <1>6 DEF T!DetachedShape
<1>8. ~T!WorkerAlive
  BY <1>5 DEF T!WorkerAlive, T!NotAlive
<1>9. T!SpawnSound
  BY <1>1, <1>5, <1>6 DEF T!SpawnSound
<1>10. T!AttachSound
  BY <1>5, <1>6, <1>8 DEF T!AttachSound, T!Attended
<1>11. T!HarnessSound
  <2>1. T!WorkIsOnRecord
    BY <1>5 DEF T!WorkIsOnRecord, T!Working
  <2>2. \A g \in T!Run : g # 0 /\ ~(g < 0)
    BY DEF T!Run
  <2> QED BY <1>5, <2>1, <2>2 DEF T!HarnessSound, T!Attended
<1>12. T!CommandsSound
  BY <1>4 DEF T!CommandsSound, T!CommandSound, T!Engaged, T!Cleaning
<1>13. T!LostIsDead /\ T!SignalsAreExact
  BY <1>1, <1>6 DEF T!LostIsDead, T!SignalsAreExact
<1> QED BY <1>7, <1>9, <1>10, <1>11, <1>12, <1>13 DEF T!DetachedInv

\* The invariant says all that is promised.
LEMMA DetachedIsSound ==
  ASSUME T!DetachedInv
  PROVE  T!DetachedSound
<1>0. T!DetachedShape /\ T!SpawnSound /\ T!AttachSound /\ T!HarnessSound /\ T!CommandsSound
      /\ T!LostIsDead /\ T!SignalsAreExact
  BY DEF T!DetachedInv
<1>1. T!DetachedTypeOK
  BY <1>0 DEF T!DetachedShape, T!HarnessSound, T!DetachedTypeOK
<1>2. T!WorkIsOnRecord
  BY <1>0 DEF T!HarnessSound
<1>3. T!CancelledIsStopped
  <2>1. ASSUME NEW c \in Cancellers, x9[c].at = "ok"
        PROVE  x1.state \in T!Terminal /\ \A g \in T!Run : ~T!Working(g)
    <3>1. T!CommandSound(c)
      BY <1>0 DEF T!CommandsSound
    <3> QED BY <2>1, <3>1 DEF T!CommandSound, T!Cleaning
  <2>2. x1.controller = 0 => x4.gen = 0
    BY <1>0, WorkerFields DEF T!AttachSound
  <2> QED BY <2>1, <2>2 DEF T!CancelledIsStopped
<1>4. T!FailedSpawnIsSettled
  BY <1>0 DEF T!SpawnSound, T!FailedSpawnIsSettled
<1> QED BY <1>0, <1>1, <1>2, <1>3, <1>4 DEF T!DetachedSound

\* The invariant of the part, and the steps of the other parts.
DetachedPart == part = "detached" => T!DetachedInv

\* A detached task keeps its invariant, whatever becomes of the other parts.
LEMMA DetachedPartInvariant == MCSpec => []DetachedPart
<1>0. T!ScenariosOK
  BY DetachedAssumption
<1>1. MCInit => DetachedPart
  BY <1>0, DetachedInit DEF MCInit, DetachedPart
<1>2. ASSUME DetachedPart, [MCNext]_allVars PROVE DetachedPart'
  <2> SUFFICES ASSUME part' = "detached" PROVE T!DetachedInv'
    BY DEF DetachedPart
  <2>1. CASE MCNext
    <3>1. part = "detached" /\ T!Next
      BY <2>1 DEF MCNext
    <3> QED BY <1>0, <1>2, <3>1, DetachedStep DEF DetachedPart
  <2>2. CASE UNCHANGED allVars
    <3>1. part = "detached" /\ UNCHANGED T!vars
      BY <2>2 DEF allVars, partVars, T!vars
    <3> QED BY <1>2, <3>1, DetachedStutter DEF DetachedPart
  <2> QED BY <1>2, <2>1, <2>2
<1> QED BY <1>1, <1>2, PTL DEF MCSpec

\* A detached task stays sound (DetachedSound), for any commands that cancel it
\* and any length of its chain: whatever works for it is named by the sidecar; a
\* cancellation that reported success left nothing at work; a worker declared
\* lost is dead with its harness; a spawn failure that was settled left no
\* worker; and neither a stranger nor a worker without handler is signalled.
THEOREM DetachedStaysSound == MCSpec => []DetachedSound
<1>1. DetachedPart => DetachedSound
  BY DetachedIsSound DEF DetachedPart, DetachedSound
<1> QED BY <1>1, DetachedPartInvariant, PTL

-----------------------------------------------------------------------------
(* Continuity: the inductive invariant. *)

Approval == [step : Approved, opts : Options, event : Events,
             failed : 0 .. MaxObservations, up : 0 .. MaxApprovals,
             current : BOOLEAN, into : Events \union {NoEvent},
             status : {"pending", "approved", "rejected",
                       "in_flight", "done", "blocked"}]

Begun == {"ready", "in_flight", "done", "blocked"}

\* What the steps st may be when the signals q, f and p are recorded, each
\* step seen against the steps it waits for.  Release keeps this, which is why
\* it speaks of the steps before a release as well.
Sound(st, q, f, p) ==
    /\ st["review_takeover"] \in Begun => st["takeover"] = "done"
    /\ st["wait_review_checks"] = "done" =>
        /\ st["review_takeover"] = "done" /\ p # 0
        /\ f # 0 => st["repair_failed_review"] = "done"
    /\ st["resume_primary"] = "waiting_for_quota_reset" =>
        /\ ~policy.checks
        /\ policy.review => st["review_takeover"] = "done"
    /\ st["resume_primary"] = "waiting_for_review" => q
    /\ st["resume_primary"] \in {"ready", "in_flight", "done"} =>
        /\ q
        /\ policy.review => st["review_takeover"] = "done"
        /\ policy.checks => st["wait_review_checks"] = "done"

\* Checks that count as passed were observed after the latest failure.
PassedIsLatest == passed # 0 => passed > failed

\* An approval still bound to the current revision was queued for this plan.
BoundToPlan ==
    \A a \in AnApproval : approvals[a].current =>
        approvals[a].event = event /\ approvals[a].failed = failed

\* Every approval, run or not, rests on a successful run queued before it.
RestsBelow ==
    \A a \in AnApproval :
        /\ approvals[a].event \in applied
        /\ approvals[a].step \in {"review_takeover", "repair_failed_review"} =>
                approvals[a].up # NoApproval
        /\ approvals[a].up # NoApproval =>
            /\ approvals[a].up < a
            /\ approvals[approvals[a].up].event = approvals[a].event
            /\ approvals[approvals[a].up].status = "done"

\* Only a run that ended has ended in a plan.
EndedInto ==
    \A a \in AnApproval :
        approvals[a].status \notin {"done", "blocked"} => approvals[a].into = NoEvent

\* OneRunPerStep without the cardinality.
Running(a, s) ==
    approvals[a].step = s /\ approvals[a].event = event /\ approvals[a].status = "in_flight"
RunsAlone ==
    (\A a \in AnApproval : approvals[a].into \in {NoEvent, approvals[a].event}) =>
        \A s \in Approved :
            /\ \A a, b \in AnApproval : Running(a, s) /\ Running(b, s) => a = b
            /\ step[s] = "in_flight" <=> \E a \in AnApproval : Running(a, s)

PlanInv ==
    /\ policy \in Policies /\ ContinuityTypeOK /\ NothingLeftWaiting
    /\ Sound(step, quota, failed, passed) /\ PassedIsLatest
ApprovalInv ==
    /\ RepairMatchesFailure /\ BoundToPlan
    /\ RestsBelow /\ EndedInto /\ RunsAlone
IInv == PlanInv /\ ApprovalInv

-----------------------------------------------------------------------------
(* The operators of the model. *)

\* What one pass and the whole release change: waiting steps alone, to ready
\* or, the wait for the checks, to done.
Released(st, r) ==
    /\ r \in [Steps -> StepStatuses]
    /\ \A s \in Steps :
        /\ st[s] \notin Waits => r[s] = st[s]
        /\ st[s] \in Waits => r[s] \in Waits \union {"ready", "done"}
    /\ \A s \in Approved : r[s] = "done" <=> st[s] = "done"

\* One pass of release_ready_dependents releases waiting steps alone and keeps
\* the steps sound.
LEMMA OncePassKeeps ==
    ASSUME ContinuityAssumption, policy \in Policies,
           NEW st \in [Steps -> StepStatuses], NEW q \in BOOLEAN,
           NEW f \in Nat, NEW p \in Nat, Sound(st, q, f, p)
    PROVE  /\ Released(st, ReleaseOnce(st, q, f, p))
           /\ Sound(ReleaseOnce(st, q, f, p), q, f, p)
<1> DEFINE r == ReleaseOnce(st, q, f, p)
<1>1. policy.checks => policy.review
  BY DEF ContinuityAssumption
<1>2. \A s \in Steps : r[s] =
        IF ~(st[s] \in Waits /\ Satisfied(s, st, q, f, p)) THEN st[s]
        ELSE IF s = "wait_review_checks" THEN "done" ELSE "ready"
  BY DEF ReleaseOnce
<1>3. r \in [Steps -> StepStatuses]
  BY DEF ReleaseOnce, StepStatuses
<1>4. Released(st, r)
  <2> HIDE DEF r
  <2> QED BY <1>2, <1>3 DEF Released, Steps, Approved, Waits
<1>5. Sound(r, q, f, p)
  <2> HIDE DEF r
  <2>1. /\ r["takeover"] = "done" <=> st["takeover"] = "done"
        /\ r["review_takeover"] = "done" <=> st["review_takeover"] = "done"
        /\ r["repair_failed_review"] = "done" <=> st["repair_failed_review"] = "done"
        /\ st["wait_review_checks"] = "done" => r["wait_review_checks"] = "done"
    BY <1>4 DEF Released, Approved, Steps, Waits
  <2>2. r["review_takeover"] \in Begun => r["takeover"] = "done"
    BY <1>2, <2>1 DEF Sound, Satisfied, Steps, Approved, Begun, Waits
  <2>3. r["wait_review_checks"] = "done" =>
            /\ r["review_takeover"] = "done" /\ p # 0
            /\ f # 0 => r["repair_failed_review"] = "done"
    BY <1>2, <2>1 DEF Sound, Satisfied, HeldByFailure, Steps, Approved, Waits
  <2>4. /\ r["resume_primary"] = "waiting_for_quota_reset" =>
            /\ ~policy.checks
            /\ policy.review => r["review_takeover"] = "done"
        /\ r["resume_primary"] = "waiting_for_review" => q
    BY <1>2, <2>1 DEF Sound, Steps, Approved
  <2>5. r["resume_primary"] \in {"ready", "in_flight", "done"} =>
            /\ q
            /\ policy.review => r["review_takeover"] = "done"
            /\ policy.checks => r["wait_review_checks"] = "done"
    <3>1. CASE st["resume_primary"] \in Waits /\ Satisfied("resume_primary", st, q, f, p)
      BY <1>1, <2>1, <3>1 DEF Sound, Satisfied
    <3>2. CASE ~(st["resume_primary"] \in Waits /\ Satisfied("resume_primary", st, q, f, p))
      <4>1. r["resume_primary"] = st["resume_primary"]
        BY <1>2, <3>2 DEF Steps, Approved
      <4> QED BY <2>1, <4>1 DEF Sound
    <3> QED BY <3>1, <3>2
  <2> QED BY <2>2, <2>3, <2>4, <2>5 DEF Sound
<1> QED BY <1>4, <1>5

\* release_ready_dependents, stopped after two passes: waiting steps alone
\* are released, the steps stay sound and nothing is left that a further pass
\* would release.
LEMMA PlanReleaseKeeps ==
    ASSUME ContinuityAssumption, policy \in Policies,
           NEW st \in [Steps -> StepStatuses], NEW q \in BOOLEAN,
           NEW f \in Nat, NEW p \in Nat, Sound(st, q, f, p)
    PROVE  LET r == Release(st, q, f, p) IN
           /\ Released(st, r) /\ Sound(r, q, f, p)
           /\ \A s \in Steps : r[s] \in Waits => ~Satisfied(s, r, q, f, p)
<1> DEFINE r1 == ReleaseOnce(st, q, f, p)
           r == ReleaseOnce(r1, q, f, p)
<1>1. Released(st, r1) /\ Sound(r1, q, f, p)
  BY OncePassKeeps
<1>2. r1 \in [Steps -> StepStatuses]
  BY <1>1 DEF Released
<1>3. Released(r1, r) /\ Sound(r, q, f, p)
  <2> HIDE DEF r1
  <2> QED BY <1>1, <1>2, OncePassKeeps
<1>4. /\ \A s \in Steps : st[s] \in Waits /\ Satisfied(s, st, q, f, p) => r1[s] \notin Waits
      /\ \A s \in Steps : r1[s] \in Waits /\ Satisfied(s, r1, q, f, p) => r[s] \notin Waits
  BY DEF ReleaseOnce, Waits
<1> HIDE DEF r1, r
<1>5. Released(st, r)
  BY <1>1, <1>3 DEF Released, Waits, Steps
<1>6. \A s \in Steps : r[s] \in Waits => r1[s] \in Waits /\ st[s] \in Waits
  BY <1>1, <1>3 DEF Released, Waits
<1>7. /\ r["takeover"] = "done" <=> r1["takeover"] = "done"
      /\ r1["takeover"] = "done" <=> st["takeover"] = "done"
      /\ r["review_takeover"] = "done" <=> r1["review_takeover"] = "done"
      /\ r1["review_takeover"] = "done" <=> st["review_takeover"] = "done"
      /\ r["repair_failed_review"] = "done" <=> r1["repair_failed_review"] = "done"
      /\ r1["repair_failed_review"] = "done" <=> st["repair_failed_review"] = "done"
  BY <1>1, <1>3 DEF Released, Approved
<1>8. ASSUME NEW s \in Steps \ {"resume_primary"}
      PROVE  Satisfied(s, r, q, f, p) <=> Satisfied(s, st, q, f, p)
  BY <1>7 DEF Satisfied, HeldByFailure, Steps, Approved
<1>9. r["wait_review_checks"] = "done" <=> r1["wait_review_checks"] = "done"
  <2>1. CASE r1["wait_review_checks"] \in Waits
    <3>1. ~Satisfied("wait_review_checks", st, q, f, p)
      BY <1>4, <1>1, <2>1 DEF Steps, Approved, Released, Waits
    <3>2. ~Satisfied("wait_review_checks", r1, q, f, p)
      BY <1>7, <3>1 DEF Satisfied, HeldByFailure
    <3>3. r["wait_review_checks"] = r1["wait_review_checks"]
      BY <3>2 DEF r, ReleaseOnce, Steps
    <3> QED BY <2>1, <3>3 DEF Waits
  <2>2. CASE r1["wait_review_checks"] \notin Waits
    BY <1>3, <2>2 DEF Released, Steps
  <2> QED BY <2>1, <2>2
<1>10. Satisfied("resume_primary", r, q, f, p) <=> Satisfied("resume_primary", r1, q, f, p)
  BY <1>7, <1>9 DEF Satisfied
<1>11. ASSUME NEW s \in Steps, r[s] \in Waits
       PROVE  ~Satisfied(s, r, q, f, p)
  <2>1. CASE s = "resume_primary"
    BY <1>4, <1>10, <1>11, <2>1, <1>6
  <2>2. CASE s # "resume_primary"
    BY <1>4, <1>6, <1>8, <1>11, <2>2
  <2> QED BY <2>1, <2>2
<1> QED BY <1>3, <1>5, <1>11 DEF Release, r, r1

\* A function on 1 .. n is a sequence of length n.
LEMMA FunctionIsSeq ==
    ASSUME NEW Rows, NEW n \in Nat, NEW rows \in [1 .. n -> Rows]
    PROVE  rows \in Seq(Rows) /\ Len(rows) = n /\ DOMAIN rows = 1 .. n
OBVIOUS

\* mutate_in_transaction keeps every approval but for its being current.
LEMMA MutatedKeeps ==
    ASSUME NEW rows \in Seq(Approval)
    PROVE  /\ Mutated(rows) \in Seq(Approval)
           /\ Len(Mutated(rows)) = Len(rows) /\ DOMAIN Mutated(rows) = DOMAIN rows
           /\ \A a \in DOMAIN rows : Mutated(rows)[a] = [rows[a] EXCEPT !.current = FALSE]
<1>1. DOMAIN rows = 1 .. Len(rows) /\ Len(rows) \in Nat
  BY LenProperties
<1>2. \A a \in DOMAIN rows : rows[a] \in Approval
  BY <1>1, ElementOfSeq
<1>3. \A a \in DOMAIN rows : [rows[a] EXCEPT !.current = FALSE] \in Approval
  BY <1>2 DEF Approval
<1>4. Mutated(rows) \in [1 .. Len(rows) -> Approval]
  BY <1>1, <1>3 DEF Mutated
<1>5. Mutated(rows) \in Seq(Approval) /\ Len(Mutated(rows)) = Len(rows)
      /\ DOMAIN Mutated(rows) = 1 .. Len(rows)
  <2> HIDE DEF Approval
  <2> QED BY <1>1, <1>4, FunctionIsSeq
<1> QED BY <1>1, <1>5 DEF Mutated

\* Replacing one approval keeps the type and the number of the approvals.
LEMMA OneReplaced ==
    ASSUME NEW rows \in Seq(Approval), NEW a \in DOMAIN rows, NEW row \in Approval
    PROVE  /\ [rows EXCEPT ![a] = row] \in Seq(Approval)
           /\ Len([rows EXCEPT ![a] = row]) = Len(rows)
           /\ DOMAIN [rows EXCEPT ![a] = row] = DOMAIN rows
           /\ \A b \in DOMAIN rows :
                [rows EXCEPT ![a] = row][b] = IF b = a THEN row ELSE rows[b]
<1>1. DOMAIN rows = 1 .. Len(rows)
  BY LenProperties
<1> QED BY <1>1, ExceptSeq

\* The set of records ContinuityTypeOK names is Approval.
LEMMA TypeOfApprovals ==
    /\ ContinuityTypeOK => approvals \in Seq(Approval)
    /\ ContinuityTypeOK' => approvals' \in Seq(Approval)
BY DEF ContinuityTypeOK, Approval

-----------------------------------------------------------------------------
(* The plan under the actions. *)

\* An action that releases from a sound set of steps keeps the plan's part of
\* the invariant.
LEMMA PlanStep ==
    ASSUME ContinuityAssumption, PlanInv,
           policy' = policy, event' = event, applied' = applied,
           goal' \in {"in_progress", "paused", "ended"},
           quota' \in BOOLEAN, failed' \in 0 .. MaxObservations,
           passed' \in 0 .. MaxObservations, PassedIsLatest',
           approvals' \in Seq(Approval),
           NEW st \in [Steps -> StepStatuses],
           \A s \in Steps : st[s] = "absent" <=> step[s] = "absent",
           Sound(st, quota', failed', passed'),
           step' = Release(st, quota', failed', passed')
    PROVE  PlanInv' /\ Released(st, step')
<1>1. failed' \in Nat /\ passed' \in Nat
  BY DEF ContinuityAssumption
<1>2. policy \in Policies
  BY DEF PlanInv
<1>3. /\ Released(st, step') /\ Sound(step', quota', failed', passed')
      /\ \A s \in Steps : step'[s] \in Waits => ~Satisfied(s, step', quota', failed', passed')
  BY <1>1, <1>2, PlanReleaseKeeps
<1>4. NothingLeftWaiting'
  BY <1>3 DEF NothingLeftWaiting, Satisfied
<1>5. Sound(step, quota, failed, passed)'
  BY <1>3 DEF Sound
<1>6. \A s \in Steps : step'[s] = "absent" <=> step[s] = "absent"
  BY <1>3 DEF Released, Waits
<1>7. ContinuityTypeOK'
  <2>1. \A s \in Steps : step'[s] # "absent" <=> event' # NoEvent /\ Present(policy', s)
    BY <1>6 DEF PlanInv, ContinuityTypeOK
  <2>2. step' \in [Steps -> StepStatuses]
    BY <1>3 DEF Released
  <2>3. event' \in applied' \union {NoEvent} /\ applied' \subseteq Events
    BY DEF PlanInv, ContinuityTypeOK
  <2> QED BY <2>1, <2>2, <2>3 DEF ContinuityTypeOK, Approval
<1> QED BY <1>2, <1>3, <1>4, <1>5, <1>7 DEF PlanInv

\* record_quota_handoff installs a plan nothing of which is begun but the
\* takeover.
LEMMA HandoffPlan ==
    ASSUME ContinuityAssumption, PlanInv, NEW e \in Events, RecordQuotaHandoff(e)
    PROVE  /\ PlanInv'
           /\ \A s \in Steps : step'[s] \notin {"in_flight", "done"}
<1>1. /\ event' = e /\ applied' = applied \union {e} /\ quota' = FALSE
      /\ failed' = 0 /\ passed' = 0 /\ policy' = policy /\ goal' = goal
      /\ approvals' = Mutated(approvals)
      /\ step' = [s \in Steps |-> FreshStep(policy, s)]
  BY DEF RecordQuotaHandoff
<1>2. policy \in [takeover : BOOLEAN, review : BOOLEAN, checks : BOOLEAN, resume : BOOLEAN]
      /\ (policy.checks => policy.review)
  BY DEF PlanInv, ContinuityAssumption
<1>3. \A s \in Steps : step'[s] \in StepStatuses
  BY <1>1, <1>2 DEF FreshStep, Present, Steps, Approved, StepStatuses, Waits
<1>4. step' \in [Steps -> StepStatuses]
  BY <1>1, <1>3
<1>5. \A s \in Steps : step'[s] # "absent" <=> Present(policy', s)
  <2> TAKE s \in Steps
  <2>1. Present(policy, s) \in BOOLEAN
    BY <1>2 DEF Present
  <2>2. CASE Present(policy, s)
    BY <1>1, <2>2 DEF FreshStep, Steps, Approved
  <2>3. CASE ~Present(policy, s)
    BY <1>1, <2>3 DEF FreshStep
  <2> QED BY <2>1, <2>2, <2>3
<1>6. \A s \in Steps : step'[s] \notin {"in_flight", "done"}
  BY <1>1, <1>2 DEF FreshStep, Steps, Approved
<1>7. ContinuityTypeOK'
  <2>1. Mutated(approvals) \in Seq(Approval)
    BY MutatedKeeps, TypeOfApprovals DEF PlanInv
  <2>2. e # NoEvent
    BY DEF ContinuityAssumption
  <2>3. 0 \in 0 .. MaxObservations
    BY DEF ContinuityAssumption
  <2> QED BY <1>1, <1>4, <1>5, <2>1, <2>2, <2>3 DEF PlanInv, ContinuityTypeOK, Approval
<1>8. NothingLeftWaiting'
  <2>1. \A s \in Steps \ {"takeover"} : ~Satisfied(s, step', quota', failed', passed')
    BY <1>1, <1>6 DEF Satisfied, Steps, Approved
  <2>2. step'["takeover"] \notin Waits
    BY <1>1 DEF FreshStep, Steps, Approved, Waits
  <2> QED BY <1>1, <2>1, <2>2 DEF NothingLeftWaiting, Satisfied
<1>9. Sound(step, quota, failed, passed)'
  <2>1. step'["review_takeover"] \notin Begun
    BY <1>1 DEF FreshStep, Steps, Approved, Begun
  <2>2. step'["resume_primary"] \in
            {"absent", "waiting_for_quota_reset_and_review", "waiting_for_quota_reset"}
    BY <1>1 DEF FreshStep, Steps, Approved
  <2>3. step'["resume_primary"] = "waiting_for_quota_reset" => ~policy.review
    BY <1>1 DEF FreshStep, Steps, Approved
  <2> QED BY <1>1, <1>2, <1>6, <2>1, <2>2, <2>3 DEF Sound, Steps, Approved
<1>10. PassedIsLatest'
  BY <1>1 DEF PassedIsLatest
<1> QED BY <1>1, <1>6, <1>7, <1>8, <1>9, <1>10 DEF PlanInv

\* with_ready_signal, quota_reset: the resume is released by name only when
\* nothing else holds it up.
LEMMA QuotaPlan ==
    ASSUME ContinuityAssumption, PlanInv, RecordQuotaReset
    PROVE  /\ PlanInv'
           /\ \A s \in Approved : /\ step'[s] = "in_flight" <=> step[s] = "in_flight"
                                  /\ step'[s] = "done" <=> step[s] = "done"
<1> DEFINE st == [step EXCEPT !["resume_primary"] =
                    CASE @ = "waiting_for_quota_reset" -> "ready"
                      [] @ = "waiting_for_quota_reset_and_review" -> "waiting_for_review"
                      [] OTHER -> @]
<1>1. /\ quota' = TRUE /\ failed' = failed /\ passed' = passed
      /\ policy' = policy /\ goal' = goal /\ event' = event /\ applied' = applied
      /\ approvals' = Mutated(approvals)
      /\ step' = Release(st, TRUE, failed, passed)
  BY DEF RecordQuotaReset, Signals
<1>2. step \in [Steps -> StepStatuses]
  BY DEF PlanInv, ContinuityTypeOK
<1>3. /\ st \in [Steps -> StepStatuses]
      /\ \A s \in Steps \ {"resume_primary"} : st[s] = step[s]
      /\ st["resume_primary"] =
            CASE step["resume_primary"] = "waiting_for_quota_reset" -> "ready"
              [] step["resume_primary"] = "waiting_for_quota_reset_and_review" ->
                    "waiting_for_review"
              [] OTHER -> step["resume_primary"]
  <2>1. "resume_primary" \in Steps
    BY DEF Steps, Approved
  <2>2. (CASE step["resume_primary"] = "waiting_for_quota_reset" -> "ready"
           [] step["resume_primary"] = "waiting_for_quota_reset_and_review" ->
                    "waiting_for_review"
           [] OTHER -> step["resume_primary"]) \in StepStatuses
    BY <1>2, <2>1 DEF StepStatuses, Waits
  <2> QED BY <1>2, <2>1, <2>2
<1> HIDE DEF st
<1>4. Sound(st, TRUE, failed, passed)
  BY <1>3 DEF Sound, PlanInv, Steps, Approved
<1>5. \A s \in Steps : st[s] = "absent" <=> step[s] = "absent"
  BY <1>3
<1>6. approvals' \in Seq(Approval)
  BY <1>1, MutatedKeeps, TypeOfApprovals DEF PlanInv
<1>7. PlanInv' /\ Released(st, step')
  <2>1. PassedIsLatest'
    BY <1>1 DEF PassedIsLatest, PlanInv
  <2>2. /\ goal' \in {"in_progress", "paused", "ended"} /\ quota' \in BOOLEAN
        /\ failed' \in 0 .. MaxObservations /\ passed' \in 0 .. MaxObservations
    BY <1>1 DEF PlanInv, ContinuityTypeOK
  <2>3. Sound(st, quota', failed', passed') /\ step' = Release(st, quota', failed', passed')
    BY <1>1, <1>4
  <2> QED BY <1>1, <1>3, <1>5, <1>6, <2>1, <2>2, <2>3, PlanStep
<1>8. \A s \in Approved : /\ step'[s] = "in_flight" <=> st[s] = "in_flight"
                          /\ step'[s] = "done" <=> st[s] = "done"
  BY <1>7 DEF Released, Steps, Waits
<1>9. \A s \in Approved : /\ st[s] = "in_flight" <=> step[s] = "in_flight"
                          /\ st[s] = "done" <=> step[s] = "done"
  BY <1>3 DEF Steps
<1> QED BY <1>7, <1>8, <1>9

\* with_ready_signal, review_checks_passed: newer than everything recorded.
LEMMA PassedPlan ==
    ASSUME ContinuityAssumption, PlanInv, NEW n \in Observations, RecordChecksPassed(n)
    PROVE  /\ PlanInv'
           /\ \A s \in Approved : /\ step'[s] = "in_flight" <=> step[s] = "in_flight"
                                  /\ step'[s] = "done" <=> step[s] = "done"
<1>1. /\ quota' = quota /\ failed' = failed /\ passed' = n /\ n > HighWater
      /\ policy' = policy /\ goal' = goal /\ event' = event /\ applied' = applied
      /\ approvals' = Mutated(approvals)
      /\ step' = Release(step, quota, failed, n)
  BY DEF RecordChecksPassed, Signals
<1>2. /\ step \in [Steps -> StepStatuses] /\ goal \in {"in_progress", "paused", "ended"}
      /\ quota \in BOOLEAN /\ failed \in 0 .. MaxObservations
      /\ passed \in 0 .. MaxObservations
  BY DEF PlanInv, ContinuityTypeOK
<1>3. n \in 1 .. MaxObservations /\ MaxObservations \in Nat
  BY DEF Observations, ContinuityAssumption
<1>4. n # 0 /\ n > failed
  BY <1>1, <1>2, <1>3 DEF HighWater
<1>5. Sound(step, quota, failed, n)
  BY <1>4 DEF Sound, PlanInv
<1>6. approvals' \in Seq(Approval)
  BY <1>1, MutatedKeeps, TypeOfApprovals DEF PlanInv
<1>7. PlanInv' /\ Released(step, step')
  <2>1. PassedIsLatest' /\ passed' \in 0 .. MaxObservations
    BY <1>1, <1>3, <1>4 DEF PassedIsLatest
  <2>2. /\ goal' \in {"in_progress", "paused", "ended"} /\ quota' \in BOOLEAN
        /\ failed' \in 0 .. MaxObservations
    BY <1>1, <1>2
  <2>3. Sound(step, quota', failed', passed') /\ step' = Release(step, quota', failed', passed')
    BY <1>1, <1>5
  <2> QED BY <1>1, <1>2, <1>6, <2>1, <2>2, <2>3, PlanStep
<1> QED BY <1>7 DEF Released, Steps, Waits

\* with_ready_signal, review_checks_failed: what the failure takes back leaves
\* the steps sound, and no repair counts as done.
LEMMA FailedPlan ==
    ASSUME ContinuityAssumption, PlanInv, NEW n \in Observations, RecordChecksFailed(n)
    PROVE  /\ PlanInv'
           /\ \A s \in Approved : step'[s] = "in_flight" <=> step[s] = "in_flight"
           /\ step'["repair_failed_review"] # "done"
<1> DEFINE st == TakenBack
<1>1. /\ quota' = quota /\ failed' = n /\ passed' = 0
      /\ step["resume_primary"] \notin {"in_flight", "done"}
      /\ policy' = policy /\ goal' = goal /\ event' = event /\ applied' = applied
      /\ approvals' = Mutated(approvals)
      /\ step' = Release(st, quota, n, 0)
  BY DEF RecordChecksFailed, Signals
<1>2. /\ step \in [Steps -> StepStatuses] /\ goal \in {"in_progress", "paused", "ended"}
      /\ quota \in BOOLEAN
  BY DEF PlanInv, ContinuityTypeOK
<1>3. n \in 1 .. MaxObservations /\ MaxObservations \in Nat
  BY DEF Observations, ContinuityAssumption
<1>4. /\ st \in [Steps -> StepStatuses]
      /\ st["takeover"] = step["takeover"]
      /\ st["review_takeover"] = step["review_takeover"]
      /\ st["wait_review_checks"] = IF step["wait_review_checks"] = "done"
                                    THEN "waiting_for_review" ELSE step["wait_review_checks"]
      /\ st["repair_failed_review"] =
            IF step["repair_failed_review"] # "done" THEN step["repair_failed_review"]
            ELSE IF step["review_takeover"] = "done" THEN "ready"
            ELSE "waiting_for_review_checks"
      /\ st["resume_primary"] =
            IF step["resume_primary"] # "ready" THEN step["resume_primary"]
            ELSE IF quota THEN "waiting_for_review"
            ELSE "waiting_for_quota_reset_and_review"
  <2>1. DOMAIN st = Steps
    BY <1>2 DEF TakenBack
  <2>2. \A s \in Steps : step[s] \in StepStatuses
    BY <1>2
  <2>3. /\ st["takeover"] = step["takeover"]
        /\ st["review_takeover"] = step["review_takeover"]
        /\ st["wait_review_checks"] = IF step["wait_review_checks"] = "done"
                                    THEN "waiting_for_review" ELSE step["wait_review_checks"]
    BY <1>2 DEF TakenBack, Steps, Approved
  <2>4. st["repair_failed_review"] =
            IF step["repair_failed_review"] # "done" THEN step["repair_failed_review"]
            ELSE IF step["review_takeover"] = "done" THEN "ready"
            ELSE "waiting_for_review_checks"
    BY <1>2 DEF TakenBack, Steps, Approved
  <2>5. st["resume_primary"] =
            IF step["resume_primary"] # "ready" THEN step["resume_primary"]
            ELSE IF quota THEN "waiting_for_review"
            ELSE "waiting_for_quota_reset_and_review"
    BY <1>2 DEF TakenBack, Steps, Approved
  <2>6. \A s \in Steps : st[s] \in StepStatuses
    <3> HIDE DEF st
    <3> QED BY <2>2, <2>3, <2>4, <2>5 DEF Steps, Approved, StepStatuses, Waits
  <2>7. st \in [Steps -> StepStatuses]
    <3>1. st = [s \in Steps |-> st[s]]
      BY <1>2, <2>1 DEF TakenBack
    <3> HIDE DEF st
    <3> QED BY <2>6, <3>1
  <2> QED BY <2>3, <2>4, <2>5, <2>7
<1> HIDE DEF st
<1>5. Sound(st, quota, n, 0)
  BY <1>1, <1>4 DEF Sound, PlanInv
<1>6. \A s \in Steps : st[s] = "absent" <=> step[s] = "absent"
  BY <1>4 DEF Steps, Approved
<1>7. approvals' \in Seq(Approval)
  BY <1>1, MutatedKeeps, TypeOfApprovals DEF PlanInv
<1>8. PlanInv' /\ Released(st, step')
  <2>1. /\ PassedIsLatest' /\ passed' \in 0 .. MaxObservations
        /\ failed' \in 0 .. MaxObservations
    BY <1>1, <1>3 DEF PassedIsLatest
  <2>2. goal' \in {"in_progress", "paused", "ended"} /\ quota' \in BOOLEAN
    BY <1>1, <1>2
  <2>3. Sound(st, quota', failed', passed') /\ step' = Release(st, quota', failed', passed')
    BY <1>1, <1>5
  <2> QED BY <1>1, <1>4, <1>6, <1>7, <2>1, <2>2, <2>3, PlanStep
<1>9. \A s \in Approved : /\ step'[s] = "in_flight" <=> st[s] = "in_flight"
                          /\ step'[s] = "done" <=> st[s] = "done"
  BY <1>8 DEF Released, Steps, Waits
<1>10. /\ \A s \in Approved : st[s] = "in_flight" <=> step[s] = "in_flight"
       /\ st["repair_failed_review"] # "done"
  BY <1>4 DEF Approved
<1> QED BY <1>8, <1>9, <1>10 DEF Approved

\* with_step_status on a step that is ready or in flight: a review that ends
\* releases the resume by name only when it may run.
LEMMA StatusPlan ==
    ASSUME ContinuityAssumption, PlanInv, NEW s \in Approved, NEW status,
           \/ step[s] = "ready" /\ status = "in_flight"
           \/ step[s] = "in_flight" /\ status \in {"ready", "done", "blocked"},
           approvals' \in Seq(Approval),
           step' = WithStepStatus(s, status),
           UNCHANGED <<policy, goal, event, applied, quota, failed, passed>>
    PROVE  /\ PlanInv' /\ step'[s] = status
           /\ \A t \in Approved \ {s} : /\ step'[t] = "in_flight" <=> step[t] = "in_flight"
                                        /\ step'[t] = "done" <=> step[t] = "done"
<1> DEFINE set == [step EXCEPT ![s] = status]
           st == IF status = "done" /\ s = "review_takeover" /\ ~policy.checks
                 THEN [set EXCEPT !["resume_primary"] =
                        CASE @ = "waiting_for_quota_reset_and_review" ->
                                IF quota THEN "ready" ELSE "waiting_for_quota_reset"
                          [] @ = "waiting_for_review" -> "ready"
                          [] OTHER -> @]
                 ELSE set
<1>1. step' = Release(st, quota, failed, passed)
  BY DEF WithStepStatus
<1>2. step \in [Steps -> StepStatuses] /\ status \in StepStatuses /\ s \in Steps
  BY DEF PlanInv, ContinuityTypeOK, StepStatuses, Steps
<1>3. /\ set \in [Steps -> StepStatuses] /\ set[s] = status
      /\ \A t \in Steps \ {s} : set[t] = step[t]
  BY <1>2
<1>4. "resume_primary" \in Steps
  BY DEF Steps, Approved
<1> HIDE DEF set
<1>5. /\ st \in [Steps -> StepStatuses] /\ st[s] = status
      /\ \A t \in Steps \ {s, "resume_primary"} : st[t] = step[t]
      /\ s # "resume_primary" =>
            \/ st["resume_primary"] = step["resume_primary"]
            \/ /\ status = "done" /\ s = "review_takeover" /\ ~policy.checks
               /\ \/ /\ step["resume_primary"] = "waiting_for_quota_reset_and_review"
                     /\ st["resume_primary"] =
                            IF quota THEN "ready" ELSE "waiting_for_quota_reset"
                  \/ /\ step["resume_primary"] = "waiting_for_review"
                     /\ st["resume_primary"] = "ready"
  <2>1. CASE status = "done" /\ s = "review_takeover" /\ ~policy.checks
    <3> DEFINE value ==
            CASE set["resume_primary"] = "waiting_for_quota_reset_and_review" ->
                    IF quota THEN "ready" ELSE "waiting_for_quota_reset"
              [] set["resume_primary"] = "waiting_for_review" -> "ready"
              [] OTHER -> set["resume_primary"]
    <3>1. value \in StepStatuses
      BY <1>3, <1>4 DEF StepStatuses, Waits
    <3>2. st = [set EXCEPT !["resume_primary"] = value]
      BY <2>1
    <3>3. /\ st \in [Steps -> StepStatuses] /\ st["resume_primary"] = value
          /\ \A t \in Steps \ {"resume_primary"} : st[t] = set[t]
      <4> HIDE DEF value, st
      <4> QED BY <1>3, <1>4, <3>1, <3>2
    <3>4. set["resume_primary"] = step["resume_primary"]
      BY <1>3, <1>4, <2>1
    <3> HIDE DEF st
    <3> QED BY <1>2, <1>3, <2>1, <3>3, <3>4
  <2>2. CASE ~(status = "done" /\ s = "review_takeover" /\ ~policy.checks)
    <3>1. st = set
      BY <2>2
    <3> HIDE DEF st
    <3> QED BY <1>2, <1>3, <1>4, <3>1
  <2> QED BY <2>1, <2>2
<1> HIDE DEF st
<1>6. Sound(st, quota, failed, passed)
  <2>1. Sound(step, quota, failed, passed)
    BY DEF PlanInv
  <2>2. CASE s = "takeover"
    BY <1>5, <2>1, <2>2 DEF Sound, Steps, Approved, Begun
  <2>3. CASE s = "review_takeover"
    BY <1>5, <2>1, <2>3 DEF Sound, Steps, Approved, Begun
  <2>4. CASE s = "repair_failed_review"
    BY <1>5, <2>1, <2>4 DEF Sound, Steps, Approved, Begun
  <2>5. CASE s = "resume_primary"
    BY <1>5, <2>1, <2>5 DEF Sound, Steps, Approved, Begun
  <2> QED BY <2>2, <2>3, <2>4, <2>5 DEF Approved
<1>7. \A t \in Steps : st[t] = "absent" <=> step[t] = "absent"
  BY <1>5
<1>8. PlanInv' /\ Released(st, step')
  <2>1. PassedIsLatest'
    BY DEF PassedIsLatest, PlanInv
  <2>2. /\ goal' \in {"in_progress", "paused", "ended"} /\ quota' \in BOOLEAN
        /\ failed' \in 0 .. MaxObservations /\ passed' \in 0 .. MaxObservations
    BY DEF PlanInv, ContinuityTypeOK
  <2>3. Sound(st, quota', failed', passed') /\ step' = Release(st, quota', failed', passed')
    BY <1>1, <1>6
  <2> QED BY <1>5, <1>7, <2>1, <2>2, <2>3, PlanStep
<1>9. step'[s] = status
  BY <1>2, <1>5, <1>8 DEF Released, Waits
<1>10. \A t \in Approved : /\ step'[t] = "in_flight" <=> st[t] = "in_flight"
                           /\ step'[t] = "done" <=> st[t] = "done"
  BY <1>8 DEF Released, Steps, Waits
<1>11. \A t \in Approved \ {s} : /\ st[t] = "in_flight" <=> step[t] = "in_flight"
                                 /\ st[t] = "done" <=> step[t] = "done"
  BY <1>5 DEF Steps, Approved
<1> QED BY <1>8, <1>9, <1>10, <1>11

-----------------------------------------------------------------------------
(* The approvals under the actions. *)

\* The rows and their types; what an approval rests on is a row.
LEMMA UpstreamExists ==
    ASSUME PlanInv, ApprovalInv
    PROVE  /\ AnApproval = 1 .. Len(approvals) /\ Len(approvals) \in Nat
           /\ \A a \in AnApproval : approvals[a] \in Approval
           /\ \A a \in AnApproval :
                approvals[a].up # NoApproval => approvals[a].up \in AnApproval
<1>1. /\ AnApproval = 1 .. Len(approvals) /\ Len(approvals) \in Nat
      /\ \A a \in AnApproval : approvals[a] \in Approval
  BY TypeOfApprovals, LenProperties, ElementOfSeq DEF PlanInv, AnApproval
<1>2. ASSUME NEW a \in AnApproval, approvals[a].up # NoApproval
      PROVE  approvals[a].up \in AnApproval
  <2>1. approvals[a].up \in 0 .. MaxApprovals /\ MaxApprovals \in Nat
    BY <1>1, ContinuityAssumption DEF Approval
  <2>2. approvals[a].up < a
    BY <1>2 DEF ApprovalInv, RestsBelow
  <2> QED BY <1>1, <1>2, <2>1, <2>2 DEF NoApproval
<1> QED BY <1>1, <1>2

\* A mutation of the goal that adds no run keeps the approvals' part: either
\* the plan goes on, or it is one no approval was ever queued for.
LEMMA MutationApprovals ==
    ASSUME PlanInv, ApprovalInv,
           approvals' = Mutated(approvals), applied \subseteq applied',
           \/ /\ event' = event
              /\ \A s \in Approved : step'[s] = "in_flight" <=> step[s] = "in_flight"
           \/ event' \notin applied /\ \A s \in Approved : step'[s] # "in_flight",
           step'["repair_failed_review"] = "done" =>
                /\ step["repair_failed_review"] = "done"
                /\ event' = event /\ failed' = failed
    PROVE  ApprovalInv'
<1>1. /\ DOMAIN approvals' = DOMAIN approvals
      /\ \A a \in AnApproval : approvals'[a] = [approvals[a] EXCEPT !.current = FALSE]
  BY MutatedKeeps, TypeOfApprovals DEF PlanInv, AnApproval
<1>2. \A a \in AnApproval : approvals[a] \in Approval
  BY TypeOfApprovals, LenProperties, ElementOfSeq DEF PlanInv, AnApproval
<1>3. \A a \in AnApproval :
        /\ approvals'[a].step = approvals[a].step /\ approvals'[a].up = approvals[a].up
        /\ approvals'[a].event = approvals[a].event
        /\ approvals'[a].failed = approvals[a].failed
        /\ approvals'[a].status = approvals[a].status
        /\ approvals'[a].into = approvals[a].into /\ approvals'[a].current = FALSE
  BY <1>1, <1>2, ZenonT(60) DEF Approval
<1>4. AnApproval' = AnApproval
  BY <1>1 DEF AnApproval
<1>5. RepairMatchesFailure'
  BY <1>3, <1>4 DEF RepairMatchesFailure, ApprovalInv
<1>6. BoundToPlan'
  BY <1>3, <1>4 DEF BoundToPlan
<1>7. RestsBelow'
  <2>1. \A a \in AnApproval : approvals[a].up # NoApproval => approvals[a].up \in AnApproval
    BY UpstreamExists
  <2> QED BY <1>3, <1>4, <2>1 DEF RestsBelow, ApprovalInv
<1>8. EndedInto'
  BY <1>3, <1>4 DEF EndedInto, ApprovalInv
<1>9. RunsAlone'
  <2>1. CASE /\ event' = event
             /\ \A s \in Approved : step'[s] = "in_flight" <=> step[s] = "in_flight"
    <3>1. \A a \in AnApproval, s \in Approved : Running(a, s)' <=> Running(a, s)
      BY <1>3, <2>1 DEF Running
    <3>2. (\A a \in AnApproval' : approvals'[a].into \in {NoEvent, approvals'[a].event})
            => \A a \in AnApproval : approvals[a].into \in {NoEvent, approvals[a].event}
      BY <1>3, <1>4
    <3> QED BY <1>4, <2>1, <3>1, <3>2 DEF RunsAlone, ApprovalInv
  <2>2. CASE event' \notin applied /\ \A s \in Approved : step'[s] # "in_flight"
    <3>1. \A a \in AnApproval, s \in Approved : ~ Running(a, s)'
      BY <1>3, <2>2 DEF Running, RestsBelow, ApprovalInv
    <3> QED BY <1>4, <2>2, <3>1 DEF RunsAlone
  <2> QED BY <2>1, <2>2
<1> QED BY <1>5, <1>6, <1>7, <1>8, <1>9 DEF ApprovalInv

\* What changing the status of approval a keeps whatever the status: a was
\* not yet done, and its status in the plan at hand says whether it runs.
LEMMA StatusApprovals ==
    ASSUME PlanInv, ApprovalInv, NEW a \in AnApproval,
           approvals[a].status \notin {"done", "blocked"},
           AnApproval' = AnApproval,
           \A b \in AnApproval :
                /\ approvals'[b].step = approvals[b].step /\ approvals'[b].up = approvals[b].up
                /\ approvals'[b].event = approvals[b].event
                /\ approvals'[b].failed = approvals[b].failed
                /\ b # a => approvals'[b].status = approvals[b].status
                /\ b # a => approvals'[b].into = approvals[b].into
                /\ approvals'[b].current => approvals[b].current,
           approvals'[a].status \notin {"done", "blocked"} => approvals'[a].into = NoEvent,
           event' = event, failed' = failed, applied' = applied
    PROVE  BoundToPlan' /\ RestsBelow' /\ EndedInto'
<1>1. BoundToPlan'
  BY DEF BoundToPlan, ApprovalInv
<1>2. EndedInto'
  BY DEF EndedInto, ApprovalInv
<1>3. \A b \in AnApproval : approvals[b].up # NoApproval => approvals[b].up \in AnApproval
  BY UpstreamExists
<1>4. RestsBelow'
  <2>1. \A b \in AnApproval : approvals[b].up # NoApproval => approvals[b].up # a
    BY DEF ApprovalInv, RestsBelow
  <2> QED BY <1>3, <2>1 DEF RestsBelow, ApprovalInv
<1> QED BY <1>1, <1>2, <1>4

\* queue_takeover_approval appends an approval that rests on a run below it
\* and is bound to the plan at hand.
LEMMA QueueStep ==
    ASSUME ContinuityAssumption, IInv, NEW s \in Approved, NEW o \in Options,
           NEW up \in 0 .. Len(approvals), Queue(s, o, up)
    PROVE  IInv'
<1> DEFINE row == [step |-> s, opts |-> o, event |-> event, failed |-> failed, up |-> up,
                   current |-> TRUE, status |-> "pending", into |-> NoEvent]
<1>0. PICK n : n = Len(approvals) + 1
  OBVIOUS
<1>1. /\ approvals' = Append(approvals, row)
      /\ UNCHANGED <<policy, goal, event, applied, step, quota, failed, passed>>
      /\ event # NoEvent /\ Len(approvals) < MaxApprovals
      /\ RestsOn(s, event, failed, up)
  BY DEF Queue, plan
<1>2. /\ AnApproval = 1 .. Len(approvals) /\ Len(approvals) \in Nat
      /\ \A a \in AnApproval : approvals[a] \in Approval
      /\ \A a \in AnApproval : approvals[a].up # NoApproval => approvals[a].up \in AnApproval
  BY UpstreamExists DEF IInv
<1>3. row \in Approval
  <2>1. event \in applied /\ applied \subseteq Events /\ failed \in 0 .. MaxObservations
    BY <1>1 DEF IInv, PlanInv, ContinuityTypeOK
  <2>2. up \in 0 .. MaxApprovals
    BY <1>1, <1>2, ContinuityAssumption
  <2> QED BY <2>1, <2>2 DEF Approval
<1>4. /\ row.step = s /\ row.event = event /\ row.failed = failed /\ row.up = up
      /\ row.current = TRUE /\ row.status = "pending" /\ row.into = NoEvent
  OBVIOUS
<1> HIDE DEF row
<1>5. /\ approvals' \in Seq(Approval) /\ AnApproval' = AnApproval \union {n}
      /\ approvals'[n] = row /\ n \notin AnApproval
      /\ \A a \in AnApproval : approvals'[a] = approvals[a]
  <2>1. approvals \in Seq(Approval)
    BY TypeOfApprovals DEF IInv, PlanInv
  <2>2. /\ Append(approvals, row) \in Seq(Approval)
        /\ Len(Append(approvals, row)) = n
        /\ \A a \in 1 .. Len(approvals) : Append(approvals, row)[a] = approvals[a]
        /\ Append(approvals, row)[n] = row
    BY <1>0, <1>3, <2>1, AppendProperties
  <2>3. AnApproval' = 1 .. n
    BY <1>1, <2>2, LenProperties DEF AnApproval
  <2> QED BY <1>0, <1>1, <1>2, <2>2, <2>3
<1>6. PlanInv'
  <2>1. ContinuityTypeOK'
    BY <1>1, <1>5 DEF IInv, PlanInv, ContinuityTypeOK, Approval
  <2>2. NothingLeftWaiting' /\ Sound(step, quota, failed, passed)' /\ PassedIsLatest'
    BY <1>1 DEF IInv, PlanInv, NothingLeftWaiting, Satisfied, Sound, PassedIsLatest
  <2> QED BY <1>1, <2>1, <2>2 DEF IInv, PlanInv
<1>7. RepairMatchesFailure'
  <2>1. step'["repair_failed_review"] = "done" => step["repair_failed_review"] = "done"
    BY <1>1
  <2> QED BY <1>1, <1>5, <2>1 DEF IInv, ApprovalInv, RepairMatchesFailure
<1>8. BoundToPlan'
  BY <1>1, <1>4, <1>5 DEF IInv, ApprovalInv, BoundToPlan
<1>9. EndedInto'
  BY <1>4, <1>5 DEF IInv, ApprovalInv, EndedInto
<1>10. RestsBelow'
  <2>1. ASSUME NEW a \in AnApproval
        PROVE  /\ approvals'[a].event \in applied'
               /\ approvals'[a].step \in {"review_takeover", "repair_failed_review"} =>
                    approvals'[a].up # NoApproval
               /\ approvals'[a].up # NoApproval =>
                    /\ approvals'[a].up < a
                    /\ approvals'[approvals'[a].up].event = approvals'[a].event
                    /\ approvals'[approvals'[a].up].status = "done"
    BY <1>1, <1>2, <1>5, <2>1 DEF IInv, ApprovalInv, RestsBelow
  <2>2. /\ event \in applied
        /\ s \in {"review_takeover", "repair_failed_review"} => up # NoApproval
        /\ up # NoApproval =>
            /\ up \in AnApproval /\ up < n
            /\ approvals[up].event = event /\ approvals[up].status = "done"
    <3>1. event \in applied
      BY <1>1 DEF IInv, PlanInv, ContinuityTypeOK
    <3>2. s \in {"review_takeover", "repair_failed_review"} => up \in AnApproval
      BY <1>1 DEF RestsOn, Predecessor
    <3>3. up # NoApproval =>
            up \in AnApproval /\ approvals[up].event = event /\ approvals[up].status = "done"
      BY <1>1 DEF RestsOn
    <3> QED BY <1>0, <1>2, <3>1, <3>2, <3>3 DEF NoApproval
  <2>3. /\ approvals'[n].event \in applied'
        /\ approvals'[n].step \in {"review_takeover", "repair_failed_review"} =>
                approvals'[n].up # NoApproval
        /\ approvals'[n].up # NoApproval =>
                /\ approvals'[n].up < n
                /\ approvals'[approvals'[n].up].event = approvals'[n].event
                /\ approvals'[approvals'[n].up].status = "done"
    BY <1>1, <1>4, <1>5, <2>2
  <2> QED BY <1>5, <2>1, <2>3 DEF RestsBelow
<1>11. RunsAlone'
  <2>1. \A t \in Approved : /\ ~Running(n, t)'
                            /\ \A a \in AnApproval : Running(a, t)' <=> Running(a, t)
    BY <1>1, <1>4, <1>5 DEF Running
  <2>2. (\A a \in AnApproval' : approvals'[a].into \in {NoEvent, approvals'[a].event})
            => \A a \in AnApproval : approvals[a].into \in {NoEvent, approvals[a].event}
    BY <1>5
  <2> QED BY <1>1, <1>5, <2>1, <2>2, ZenonT(60) DEF IInv, ApprovalInv, RunsAlone
<1> QED BY <1>6, <1>7, <1>8, <1>9, <1>10, <1>11 DEF IInv, ApprovalInv

\* The rows after one of them got the status and the plan it ended in.
LEMMA OneRow ==
    ASSUME NEW rows \in Seq(Approval), NEW a \in DOMAIN rows,
           NEW status \in {"approved", "rejected", "in_flight", "done", "blocked"}
    PROVE  LET next == [rows EXCEPT ![a].status = status] IN
           /\ next \in Seq(Approval) /\ DOMAIN next = DOMAIN rows
           /\ \A b \in DOMAIN rows \ {a} : next[b] = rows[b]
           /\ next[a] = [rows[a] EXCEPT !.status = status]
<1>1. rows[a] \in Approval
  BY LenProperties, ElementOfSeq
<1>2. [rows[a] EXCEPT !.status = status] \in Approval
  BY <1>1 DEF Approval
<1>3. [rows EXCEPT ![a].status = status] = [rows EXCEPT ![a] = [rows[a] EXCEPT !.status = status]]
  OBVIOUS
<1> QED BY <1>2, <1>3, OneReplaced

\* decide_takeover_approval touches one pending approval and no plan.
LEMMA DecideStep ==
    ASSUME IInv, NEW a \in AnApproval, NEW d \in {"approved", "rejected"}, Decide(a, d)
    PROVE  IInv'
<1>1. /\ approvals[a].status = "pending"
      /\ approvals' = [approvals EXCEPT ![a].status = d]
      /\ UNCHANGED <<policy, goal, event, applied, step, quota, failed, passed>>
  BY DEF Decide, plan
<1>2. \A b \in AnApproval : approvals[b] \in Approval
  BY UpstreamExists DEF IInv
<1>3. /\ approvals' \in Seq(Approval) /\ AnApproval' = AnApproval
      /\ \A b \in AnApproval \ {a} : approvals'[b] = approvals[b]
      /\ approvals'[a] = [approvals[a] EXCEPT !.status = d]
  BY <1>1, OneRow, TypeOfApprovals DEF AnApproval, IInv, PlanInv
<1>4. /\ approvals'[a].step = approvals[a].step /\ approvals'[a].up = approvals[a].up
      /\ approvals'[a].event = approvals[a].event
      /\ approvals'[a].failed = approvals[a].failed
      /\ approvals'[a].into = approvals[a].into
      /\ approvals'[a].current = approvals[a].current /\ approvals'[a].status = d
  BY <1>2, <1>3 DEF Approval
<1>5. PlanInv'
  <2>1. ContinuityTypeOK'
    BY <1>1, <1>3 DEF IInv, PlanInv, ContinuityTypeOK, Approval
  <2>2. NothingLeftWaiting' /\ Sound(step, quota, failed, passed)' /\ PassedIsLatest'
    BY <1>1 DEF IInv, PlanInv, NothingLeftWaiting, Satisfied, Sound, PassedIsLatest
  <2> QED BY <1>1, <2>1, <2>2 DEF IInv, PlanInv
<1>6. BoundToPlan' /\ RestsBelow' /\ EndedInto'
  <2>1. approvals[a].into = NoEvent
    BY <1>1 DEF IInv, ApprovalInv, EndedInto
  <2> QED BY <1>1, <1>3, <1>4, <2>1, StatusApprovals DEF IInv
<1>7. RepairMatchesFailure'
  BY <1>1, <1>3, <1>4 DEF IInv, ApprovalInv, RepairMatchesFailure
<1>8. RunsAlone'
  <2>1. \A b \in AnApproval, t \in Approved : Running(b, t)' <=> Running(b, t)
    BY <1>1, <1>3, <1>4 DEF Running
  <2>2. (\A b \in AnApproval' : approvals'[b].into \in {NoEvent, approvals'[b].event})
            => \A b \in AnApproval : approvals[b].into \in {NoEvent, approvals[b].event}
    BY <1>3, <1>4
  <2> QED BY <1>1, <1>3, <2>1, <2>2 DEF IInv, ApprovalInv, RunsAlone
<1> QED BY <1>5, <1>6, <1>7, <1>8 DEF IInv, ApprovalInv

\* consume_takeover_approval starts the one run of a step that is ready.
LEMMA ConsumeStep ==
    ASSUME ContinuityAssumption, IInv, NEW a \in AnApproval, Consume(a)
    PROVE  IInv'
<1>1. /\ approvals[a].status = "approved" /\ approvals[a].event = event
      /\ step[approvals[a].step] = "ready"
      /\ step' = WithStepStatus(approvals[a].step, "in_flight")
      /\ approvals' = [Mutated(approvals) EXCEPT ![a].status = "in_flight"]
      /\ UNCHANGED <<policy, goal, event, applied, quota, failed, passed>>
  BY DEF Consume, Boundary
<1>2. \A b \in AnApproval : approvals[b] \in Approval
  BY UpstreamExists DEF IInv
<1>3. PICK s \in Approved : s = approvals[a].step
  BY <1>2 DEF Approval
<1>4. /\ Mutated(approvals) \in Seq(Approval) /\ DOMAIN Mutated(approvals) = AnApproval
      /\ \A b \in AnApproval : Mutated(approvals)[b] = [approvals[b] EXCEPT !.current = FALSE]
  BY MutatedKeeps, TypeOfApprovals DEF AnApproval, IInv, PlanInv
<1>5. /\ approvals' \in Seq(Approval) /\ AnApproval' = AnApproval
      /\ \A b \in AnApproval \ {a} : approvals'[b] = [approvals[b] EXCEPT !.current = FALSE]
      /\ approvals'[a] = [[approvals[a] EXCEPT !.current = FALSE] EXCEPT !.status = "in_flight"]
  BY <1>1, <1>4, OneRow DEF AnApproval
<1>6. \A b \in AnApproval :
        /\ approvals'[b].step = approvals[b].step /\ approvals'[b].up = approvals[b].up
        /\ approvals'[b].event = approvals[b].event
        /\ approvals'[b].failed = approvals[b].failed
        /\ approvals'[b].into = approvals[b].into /\ approvals'[b].current = FALSE
        /\ approvals'[b].status = IF b = a THEN "in_flight" ELSE approvals[b].status
  <2> TAKE b \in AnApproval
  <2>1. approvals[b] \in Approval
    BY <1>2
  <2>2. CASE b = a
    BY <1>5, <2>1, <2>2 DEF Approval
  <2>3. CASE b # a
    <3>1. approvals'[b] = [approvals[b] EXCEPT !.current = FALSE]
      BY <1>5, <2>3
    <3> QED BY <2>1, <2>3, <3>1 DEF Approval
  <2> QED BY <2>2, <2>3
<1>7. /\ PlanInv' /\ step'[s] = "in_flight"
      /\ \A t \in Approved \ {s} : /\ step'[t] = "in_flight" <=> step[t] = "in_flight"
                                   /\ step'[t] = "done" <=> step[t] = "done"
  BY <1>1, <1>3, <1>5, StatusPlan DEF IInv
<1>8. BoundToPlan' /\ RestsBelow' /\ EndedInto'
  <2>1. approvals[a].into = NoEvent
    BY <1>1 DEF IInv, ApprovalInv, EndedInto
  <2> QED BY <1>1, <1>5, <1>6, <2>1, StatusApprovals DEF IInv
<1>9. RepairMatchesFailure'
  <2>1. step'["repair_failed_review"] = "done" => step["repair_failed_review"] = "done"
    BY <1>3, <1>7 DEF Approved
  <2> QED BY <1>1, <1>5, <1>6, <2>1, SMTT(30) DEF IInv, ApprovalInv, RepairMatchesFailure
<1>10. RunsAlone'
  <2>1. SUFFICES ASSUME \A b \in AnApproval' :
                            approvals'[b].into \in {NoEvent, approvals'[b].event}
                 PROVE  \A t \in Approved :
                            /\ \A b, c \in AnApproval' :
                                    Running(b, t)' /\ Running(c, t)' => b = c
                            /\ step'[t] = "in_flight" <=> \E b \in AnApproval' : Running(b, t)'
    BY DEF RunsAlone
  <2>2. \A t \in Approved :
            /\ \A b, c \in AnApproval : Running(b, t) /\ Running(c, t) => b = c
            /\ step[t] = "in_flight" <=> \E b \in AnApproval : Running(b, t)
    BY <1>5, <1>6, <2>1 DEF IInv, ApprovalInv, RunsAlone
  <2>3. \A b \in AnApproval : ~Running(b, s)
    BY <1>1, <1>3, <2>2
  <2>4. \A b \in AnApproval, t \in Approved :
            Running(b, t)' <=> (Running(b, t) \/ (b = a /\ t = s))
    BY <1>1, <1>3, <1>6 DEF Running
  <2> QED BY <1>5, <1>7, <2>2, <2>3, <2>4
<1> QED BY <1>7, <1>8, <1>9, <1>10 DEF IInv, ApprovalInv

\* finish_takeover_approval ends the one run of a step that is in flight, or
\* is recorded as the end of a run in another event's plan.
LEMMA FinishStep ==
    ASSUME ContinuityAssumption, IInv, NEW a \in AnApproval,
           NEW result \in {"done", "blocked"}, Finish(a, result)
    PROVE  IInv'
<1>1. PICK status : status = IF StaleRepair(a, result) THEN "ready" ELSE result
  OBVIOUS
<1>2. /\ approvals[a].status = "in_flight" /\ step[approvals[a].step] = "in_flight"
      /\ step' = WithStepStatus(approvals[a].step, status)
      /\ approvals' = [Mutated(approvals) EXCEPT ![a].status = result, ![a].into = event]
      /\ UNCHANGED <<policy, goal, event, applied, quota, failed, passed>>
  BY <1>1 DEF Finish
<1>3. \A b \in AnApproval : approvals[b] \in Approval
  BY UpstreamExists DEF IInv
<1>4. PICK s \in Approved : s = approvals[a].step
  BY <1>3 DEF Approval
<1>5. /\ Mutated(approvals) \in Seq(Approval) /\ DOMAIN Mutated(approvals) = AnApproval
      /\ \A b \in AnApproval : Mutated(approvals)[b] = [approvals[b] EXCEPT !.current = FALSE]
  BY MutatedKeeps, TypeOfApprovals DEF AnApproval, IInv, PlanInv
<1>6. /\ approvals' \in Seq(Approval) /\ AnApproval' = AnApproval
      /\ \A b \in AnApproval \ {a} : approvals'[b] = [approvals[b] EXCEPT !.current = FALSE]
      /\ approvals'[a] = [approvals[a] EXCEPT !.current = FALSE, !.status = result,
                                              !.into = event]
  <2> DEFINE row == [approvals[a] EXCEPT !.current = FALSE, !.status = result,
                                         !.into = event]
  <2>1. row \in Approval
    BY <1>3 DEF Approval, IInv, PlanInv, ContinuityTypeOK
  <2>2. approvals' = [Mutated(approvals) EXCEPT ![a] = row]
    BY <1>2, <1>5
  <2> HIDE DEF row
  <2>3. /\ approvals' \in Seq(Approval) /\ AnApproval' = AnApproval
        /\ \A b \in AnApproval : approvals'[b] = IF b = a THEN row ELSE Mutated(approvals)[b]
    BY <1>5, <2>1, <2>2, OneReplaced DEF AnApproval
  <2> QED BY <1>5, <2>3 DEF row
<1>7. \A b \in AnApproval :
        /\ approvals'[b].step = approvals[b].step /\ approvals'[b].up = approvals[b].up
        /\ approvals'[b].event = approvals[b].event
        /\ approvals'[b].failed = approvals[b].failed /\ approvals'[b].current = FALSE
        /\ approvals'[b].into = IF b = a THEN event ELSE approvals[b].into
        /\ approvals'[b].status = IF b = a THEN result ELSE approvals[b].status
  <2> TAKE b \in AnApproval
  <2>1. approvals[b] \in Approval
    BY <1>3
  <2>2. CASE b = a
    BY <1>6, <2>1, <2>2 DEF Approval
  <2>3. CASE b # a
    <3>1. approvals'[b] = [approvals[b] EXCEPT !.current = FALSE]
      BY <1>6, <2>3
    <3> QED BY <2>1, <2>3, <3>1 DEF Approval
  <2> QED BY <2>2, <2>3
<1>8. /\ PlanInv' /\ step'[s] = status
      /\ \A t \in Approved \ {s} : /\ step'[t] = "in_flight" <=> step[t] = "in_flight"
                                   /\ step'[t] = "done" <=> step[t] = "done"
  BY <1>1, <1>2, <1>4, <1>6, StatusPlan DEF IInv
<1>9. BoundToPlan' /\ RestsBelow' /\ EndedInto'
  <2>1. approvals'[a].status \in {"done", "blocked"}
    BY <1>7
  <2>2. \A b \in AnApproval :
            /\ approvals'[b].step = approvals[b].step /\ approvals'[b].up = approvals[b].up
            /\ approvals'[b].event = approvals[b].event
            /\ approvals'[b].failed = approvals[b].failed
            /\ b # a => approvals'[b].status = approvals[b].status
            /\ b # a => approvals'[b].into = approvals[b].into
            /\ approvals'[b].current => approvals[b].current
    BY <1>7
  <2> QED BY <1>2, <1>6, <2>1, <2>2, StatusApprovals DEF IInv
<1>10. RepairMatchesFailure'
  <2>1. CASE s = "repair_failed_review"
    <3>1. SUFFICES ASSUME step'["repair_failed_review"] = "done"
                   PROVE  RepairMatchesFailure'
      BY DEF RepairMatchesFailure
    <3>2. result = "done" /\ approvals[a].event = event /\ approvals[a].failed = failed
      BY <1>1, <1>4, <1>8, <2>1, <3>1 DEF StaleRepair
    <3> QED BY <1>2, <1>4, <1>6, <1>7, <2>1, <3>2 DEF RepairMatchesFailure
  <2>2. CASE s # "repair_failed_review"
    <3>1. step'["repair_failed_review"] = "done" => step["repair_failed_review"] = "done"
      BY <1>8, <2>2 DEF Approved
    <3>2. \A b \in AnApproval : approvals[b].status = "done" =>
                /\ approvals'[b].status = "done" /\ approvals'[b].step = approvals[b].step
                /\ approvals'[b].event = approvals[b].event
                /\ approvals'[b].failed = approvals[b].failed
      BY <1>2, <1>7
    <3>3. SUFFICES ASSUME step["repair_failed_review"] = "done" PROVE RepairMatchesFailure'
      BY <3>1 DEF RepairMatchesFailure
    <3>4. PICK b \in AnApproval :
            /\ approvals[b].step = "repair_failed_review" /\ approvals[b].status = "done"
            /\ approvals[b].event = event /\ approvals[b].failed = failed
      BY <3>3 DEF IInv, ApprovalInv, RepairMatchesFailure
    <3>5. event' = event /\ failed' = failed
      BY <1>2
    <3> QED BY <1>6, <3>2, <3>4, <3>5 DEF RepairMatchesFailure
  <2> QED BY <2>1, <2>2
<1>11. RunsAlone'
  <2>1. SUFFICES ASSUME \A b \in AnApproval' :
                            approvals'[b].into \in {NoEvent, approvals'[b].event}
                 PROVE  \A t \in Approved :
                            /\ \A b, c \in AnApproval' :
                                    Running(b, t)' /\ Running(c, t)' => b = c
                            /\ step'[t] = "in_flight" <=> \E b \in AnApproval' : Running(b, t)'
    BY DEF RunsAlone
  <2>2. approvals[a].into = NoEvent
    BY <1>2 DEF IInv, ApprovalInv, EndedInto
  <2>3. \A t \in Approved :
            /\ \A b, c \in AnApproval : Running(b, t) /\ Running(c, t) => b = c
            /\ step[t] = "in_flight" <=> \E b \in AnApproval : Running(b, t)
    BY <1>6, <1>7, <2>1, <2>2 DEF IInv, ApprovalInv, RunsAlone
  <2>4. event # NoEvent
    BY <1>2, <1>4 DEF IInv, PlanInv, ContinuityTypeOK, Steps
  <2>5. Running(a, s)
    BY <1>2, <1>4, <1>6, <1>7, <2>1, <2>4 DEF Running
  <2>6. \A b \in AnApproval, t \in Approved : Running(b, t)' <=> (Running(b, t) /\ b # a)
    BY <1>2, <1>7 DEF Running
  <2>7. \A b \in AnApproval : ~Running(b, s)'
    BY <2>3, <2>5, <2>6
  <2>8. \A b \in AnApproval, t \in Approved \ {s} : Running(b, t)' <=> Running(b, t)
    BY <1>4, <2>6 DEF Running
  <2> QED BY <1>1, <1>6, <1>8, <2>3, <2>7, <2>8
<1> QED BY <1>8, <1>9, <1>10, <1>11 DEF IInv, ApprovalInv

-----------------------------------------------------------------------------
(* The theorems. *)

\* Every operation on the goal, its plan and its approvals keeps the invariant.
LEMMA NextStep ==
    ASSUME IInv, [Next]_vars
    PROVE  IInv'
<1> USE ContinuityAssumption
<1>1. ASSUME NEW to \in {"in_progress", "paused", "ended"}, GoalMoves(to)
      PROVE  IInv'
  <2>1. /\ UNCHANGED <<policy, event, applied, step, quota, failed, passed>>
        /\ goal' \in {"in_progress", "paused", "ended"}
        /\ approvals' = Mutated(approvals)
    BY <1>1 DEF GoalMoves, plan
  <2>2. PlanInv'
    <3>1. approvals' \in Seq(Approval)
      BY <2>1, MutatedKeeps, TypeOfApprovals DEF IInv, PlanInv
    <3>2. ContinuityTypeOK'
      BY <2>1, <3>1 DEF IInv, PlanInv, ContinuityTypeOK, Approval
    <3>3. NothingLeftWaiting' /\ Sound(step, quota, failed, passed)' /\ PassedIsLatest'
      BY <2>1 DEF IInv, PlanInv, NothingLeftWaiting, Satisfied, Sound, PassedIsLatest
    <3> QED BY <2>1, <3>2, <3>3 DEF IInv, PlanInv
  <2>3. ApprovalInv'
    BY <2>1, MutationApprovals DEF IInv
  <2> QED BY <2>2, <2>3 DEF IInv
<1>2. ASSUME NEW e \in Events, RecordQuotaHandoff(e)
      PROVE  IInv'
  <2>1. PlanInv' /\ \A s \in Steps : step'[s] \notin {"in_flight", "done"}
    BY <1>2, HandoffPlan DEF IInv
  <2>2. /\ approvals' = Mutated(approvals) /\ applied \subseteq applied'
        /\ event' \notin applied
    BY <1>2 DEF RecordQuotaHandoff, Matches
  <2>3. /\ \A s \in Approved : step'[s] # "in_flight"
        /\ step'["repair_failed_review"] # "done"
    BY <2>1 DEF Steps, Approved
  <2>4. ApprovalInv'
    BY <2>2, <2>3, MutationApprovals DEF IInv
  <2> QED BY <2>1, <2>4 DEF IInv
<1>3. ASSUME RecordQuotaReset PROVE IInv'
  <2>1. /\ PlanInv'
        /\ \A s \in Approved : /\ step'[s] = "in_flight" <=> step[s] = "in_flight"
                               /\ step'[s] = "done" <=> step[s] = "done"
    BY <1>3, QuotaPlan DEF IInv
  <2>2. /\ approvals' = Mutated(approvals) /\ applied \subseteq applied'
        /\ event' = event /\ failed' = failed
    BY <1>3 DEF RecordQuotaReset, Signals
  <2>3. ApprovalInv'
    BY <2>1, <2>2, MutationApprovals DEF IInv, Approved
  <2> QED BY <2>1, <2>3 DEF IInv
<1>4. ASSUME NEW n \in Observations, RecordChecksPassed(n) PROVE IInv'
  <2>1. /\ PlanInv'
        /\ \A s \in Approved : /\ step'[s] = "in_flight" <=> step[s] = "in_flight"
                               /\ step'[s] = "done" <=> step[s] = "done"
    BY <1>4, PassedPlan DEF IInv
  <2>2. /\ approvals' = Mutated(approvals) /\ applied \subseteq applied'
        /\ event' = event /\ failed' = failed
    BY <1>4 DEF RecordChecksPassed, Signals
  <2>3. ApprovalInv'
    BY <2>1, <2>2, MutationApprovals DEF IInv, Approved
  <2> QED BY <2>1, <2>3 DEF IInv
<1>5. ASSUME NEW n \in Observations, RecordChecksFailed(n) PROVE IInv'
  <2>1. /\ PlanInv' /\ step'["repair_failed_review"] # "done"
        /\ \A s \in Approved : step'[s] = "in_flight" <=> step[s] = "in_flight"
    BY <1>5, FailedPlan DEF IInv
  <2>2. approvals' = Mutated(approvals) /\ applied \subseteq applied' /\ event' = event
    BY <1>5 DEF RecordChecksFailed, Signals
  <2>3. ApprovalInv'
    BY <2>1, <2>2, MutationApprovals DEF IInv
  <2> QED BY <2>1, <2>3 DEF IInv
<1>6. CASE UNCHANGED vars
  <2>1. UNCHANGED <<policy, goal, event, applied, step, quota, failed, passed, approvals>>
    BY <1>6 DEF vars, plan
  <2>2. PlanInv'
    <3>1. ContinuityTypeOK'
      BY <2>1 DEF IInv, PlanInv, ContinuityTypeOK
    <3>2. NothingLeftWaiting' /\ Sound(step, quota, failed, passed)' /\ PassedIsLatest'
      BY <2>1 DEF IInv, PlanInv, NothingLeftWaiting, Satisfied, Sound, PassedIsLatest
    <3> QED BY <2>1, <3>1, <3>2 DEF IInv, PlanInv
  <2>3. ApprovalInv'
    BY <2>1 DEF IInv, ApprovalInv, RepairMatchesFailure, BoundToPlan, RestsBelow, EndedInto,
                RunsAlone, Running, AnApproval
  <2> QED BY <2>2, <2>3 DEF IInv
<1> QED BY <1>1, <1>2, <1>3, <1>4, <1>5, <1>6, QueueStep, DecideStep, ConsumeStep, FinishStep
        DEF Next

\* The inductive invariant of the plan and its approvals.
THEOREM ContinuityInvariant == Spec => []IInv
<1>1. Init => IInv
  <2>1. SUFFICES ASSUME Init PROVE IInv
    OBVIOUS
  <2>2. PlanInv
    <3>1. ContinuityTypeOK
      <4>1. step \in [Steps -> StepStatuses] /\ \A s \in Steps : step[s] = "absent"
        BY <2>1 DEF Init, StepStatuses
      <4>2. approvals \in Seq(Approval)
        BY <2>1, EmptySeq DEF Init
      <4>3. 0 \in 0 .. MaxObservations
        BY ContinuityAssumption
      <4> QED BY <2>1, <4>1, <4>2, <4>3 DEF Init, ContinuityTypeOK, Approval
    <3>2. NothingLeftWaiting /\ Sound(step, quota, failed, passed) /\ PassedIsLatest
      BY <2>1 DEF Init, NothingLeftWaiting, Sound, PassedIsLatest, Waits, Begun, Steps, Approved
    <3> QED BY <2>1, <3>1, <3>2 DEF Init, PlanInv
  <2>3. AnApproval = {} /\ \A s \in Steps : step[s] = "absent"
    BY <2>1 DEF Init, AnApproval
  <2>4. ApprovalInv
    BY <2>3 DEF ApprovalInv, RepairMatchesFailure, BoundToPlan, RestsBelow, EndedInto,
                RunsAlone, Steps, Approved
  <2> QED BY <2>2, <2>4 DEF IInv
<1>2. IInv /\ [Next]_vars => IInv'
  BY NextStep
<1> QED BY <1>1, <1>2, PTL DEF Spec

\* The primary is resumed only after its quota came back, its takeover was
\* reviewed and the checks passed after the last failure was repaired, and no
\* step is left waiting for what already happened: for every order of signals,
\* late runs and replaced plans.
THEOREM ResumeStaysReviewed == Spec => []ResumeIsReviewed
<1>1. IInv => ResumeIsReviewed
  <2>1. SUFFICES ASSUME IInv PROVE ResumeFollowsReview
    BY DEF IInv, PlanInv, ApprovalInv, ResumeIsReviewed
  <2>2. step["resume_primary"] \in {"ready", "in_flight", "done"} =>
            /\ quota
            /\ policy.review => step["takeover"] = "done" /\ step["review_takeover"] = "done"
    BY <2>1 DEF IInv, PlanInv, Sound, Begun
  <2>3. step["resume_primary"] \in {"ready", "in_flight", "done"} /\ policy.checks =>
            /\ step["wait_review_checks"] = "done" /\ passed > failed
            /\ failed # 0 => step["repair_failed_review"] = "done"
    BY <2>1 DEF IInv, PlanInv, Sound, PassedIsLatest
  <2> QED BY <2>2, <2>3 DEF ResumeFollowsReview
<1> QED BY <1>1, ContinuityInvariant, PTL

\* Every run rests on a chain of successful runs for the same quota event, and
\* as long as no run of an earlier plan ended in this one a step has at most
\* one run at a time: for any number of approvals.
THEOREM RunsStayChained == Spec => []RunsAreChained
<1>1. IInv => RunsAreChained
  <2>1. SUFFICES ASSUME IInv PROVE RunsRestOnRuns /\ OneRunPerStep
    BY DEF RunsAreChained
  <2>2. RunsRestOnRuns
    BY <2>1 DEF IInv, ApprovalInv, RestsBelow, RunsRestOnRuns
  <2>3. ASSUME Intruders = {}, NEW s \in Approved
        PROVE  LET running == {a \in AnApproval : /\ approvals[a].step = s
                                                  /\ approvals[a].event = event
                                                  /\ approvals[a].status = "in_flight"}
               IN /\ Cardinality(running) <= 1
                  /\ step[s] = "in_flight" <=> running # {}
    <3> DEFINE running == {a \in AnApproval : /\ approvals[a].step = s
                                              /\ approvals[a].event = event
                                              /\ approvals[a].status = "in_flight"}
    <3>1. \A a \in AnApproval : approvals[a].into \in {NoEvent, approvals[a].event}
      BY <2>3 DEF Intruders
    <3>2. /\ \A a, b \in running : a = b
          /\ step[s] = "in_flight" <=> running # {}
      BY <2>1, <3>1 DEF IInv, ApprovalInv, RunsAlone, Running
    <3>3. Cardinality(running) <= 1
      <4> HIDE DEF running
      <4>1. CASE running = {}
        BY <4>1, FS_EmptySet
      <4>2. ASSUME NEW a \in running PROVE Cardinality(running) <= 1
        <5>1. running = {a}
          BY <3>2
        <5> QED BY <5>1, FS_Singleton
      <4> QED BY <4>1, <4>2
    <3> QED BY <3>2, <3>3
  <2> QED BY <2>2, <2>3 DEF OneRunPerStep
<1> QED BY <1>1, ContinuityInvariant, PTL

\* A dispatch starts only on the plan its approval was given for, and a
\* decision, a success or a failure of an approval is never revised.
THEOREM DispatchesAreApproved == Spec => DispatchAsApproved
<1> DEFINE Step ==
        \A a \in AnApproval :
            /\ approvals[a].status = "approved" /\ approvals'[a].status = "in_flight" =>
                /\ goal = "in_progress"
                /\ approvals[a].event = event /\ approvals[a].failed = failed
            /\ approvals[a].status \in {"rejected", "done", "blocked"} =>
                approvals'[a].status = approvals[a].status
<1>1. ASSUME IInv, Next PROVE Step
  <2> SUFFICES ASSUME NEW a \in AnApproval
               PROVE  /\ approvals[a].status = "approved" /\ approvals'[a].status = "in_flight" =>
                            /\ goal = "in_progress"
                            /\ approvals[a].event = event /\ approvals[a].failed = failed
                      /\ approvals[a].status \in {"rejected", "done", "blocked"} =>
                            approvals'[a].status = approvals[a].status
    OBVIOUS
  <2>1. /\ AnApproval = 1 .. Len(approvals) /\ approvals \in Seq(Approval)
        /\ approvals[a] \in Approval
    BY <1>1, UpstreamExists, TypeOfApprovals DEF IInv, PlanInv
  <2>2. /\ Mutated(approvals) \in Seq(Approval) /\ DOMAIN Mutated(approvals) = AnApproval
        /\ \A b \in AnApproval : Mutated(approvals)[b] = [approvals[b] EXCEPT !.current = FALSE]
    BY <2>1, MutatedKeeps DEF AnApproval
  <2>3. Mutated(approvals)[a].status = approvals[a].status
    BY <2>1, <2>2 DEF Approval
  <2>4. CASE approvals' = Mutated(approvals)
    BY <2>3, <2>4
  <2>5. ASSUME NEW s \in Approved, NEW o \in Options, NEW up \in 0 .. Len(approvals),
               Queue(s, o, up)
        PROVE  approvals'[a] = approvals[a]
    BY <2>1, <2>5 DEF Queue
  <2>6. ASSUME NEW b \in AnApproval, NEW d \in {"approved", "rejected"}, Decide(b, d)
        PROVE  approvals'[a].status =
                    IF a = b THEN d ELSE approvals[a].status
    <3>1. /\ \A c \in AnApproval \ {b} : approvals'[c] = approvals[c]
          /\ approvals'[b] = [approvals[b] EXCEPT !.status = d]
      BY <2>1, <2>6, OneRow DEF Decide, AnApproval
    <3> QED BY <2>1, <3>1 DEF Approval
  <2>7. ASSUME NEW b \in AnApproval, Consume(b)
        PROVE  approvals'[a].status = IF a = b THEN "in_flight" ELSE approvals[a].status
    <3>1. /\ \A c \in AnApproval \ {b} : approvals'[c] = Mutated(approvals)[c]
          /\ approvals'[b] = [Mutated(approvals)[b] EXCEPT !.status = "in_flight"]
      BY <2>2, <2>7, OneRow DEF Consume
    <3>2. Mutated(approvals)[b] \in Approval
      BY <2>1, <2>2, LenProperties, ElementOfSeq
    <3> QED BY <2>3, <3>1, <3>2 DEF Approval
  <2>8. ASSUME NEW b \in AnApproval, NEW r \in {"done", "blocked"}, Finish(b, r)
        PROVE  approvals'[a].status = IF a = b THEN r ELSE approvals[a].status
    <3>1. approvals' = [Mutated(approvals) EXCEPT ![b].status = r, ![b].into = event]
      BY <2>8 DEF Finish
    <3>2. Mutated(approvals)[b] \in Approval
      BY <2>1, <2>2, LenProperties, ElementOfSeq
    <3>3. CASE a = b
      <4>1. approvals'[a] = [Mutated(approvals)[b] EXCEPT !.status = r, !.into = event]
        BY <2>2, <3>1, <3>3
      <4> QED BY <3>2, <3>3, <4>1 DEF Approval
    <3>4. CASE a # b
      BY <2>2, <2>3, <3>1, <3>4
    <3> QED BY <3>3, <3>4
  <2>9. ASSUME NEW b \in AnApproval, Consume(b)
        PROVE  /\ approvals[b].status = "approved" /\ goal = "in_progress"
               /\ approvals[b].event = event /\ approvals[b].failed = failed
    BY <1>1, <2>9 DEF Consume, Boundary, IInv, ApprovalInv, BoundToPlan
  <2>10. ASSUME NEW b \in AnApproval, NEW d \in {"approved", "rejected"}, Decide(b, d)
         PROVE  approvals[b].status = "pending"
    BY <2>10 DEF Decide
  <2>11. ASSUME NEW b \in AnApproval, NEW r \in {"done", "blocked"}, Finish(b, r)
         PROVE  approvals[b].status = "in_flight"
    BY <2>11 DEF Finish
  <2>12. \/ approvals' = Mutated(approvals)
         \/ \E s \in Approved, o \in Options, up \in 0 .. Len(approvals) : Queue(s, o, up)
         \/ \E b \in AnApproval, d \in {"approved", "rejected"} : Decide(b, d)
         \/ \E b \in AnApproval : Consume(b)
         \/ \E b \in AnApproval, r \in {"done", "blocked"} : Finish(b, r)
    BY <1>1 DEF Next, GoalMoves, RecordQuotaHandoff, RecordQuotaReset, RecordChecksPassed,
                RecordChecksFailed, Signals
  <2> QED BY <2>4, <2>5, <2>6, <2>7, <2>8, <2>9, <2>10, <2>11, <2>12
<1>2. IInv /\ [Next]_vars => [Step]_vars
  BY <1>1
<1> QED BY <1>2, ContinuityInvariant, PTL DEF Spec, DispatchAsApproved
=============================================================================
