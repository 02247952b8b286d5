--------------------------- MODULE HarnessProcess ---------------------------
(***************************************************************************)
(* One subprocess of a harness (vyane-harness/src/spawn.rs): the future    *)
(* that spawns it in a process group of its own, announces it, opens its   *)
(* start gate, waits, terminates and settles the group; the guard that is  *)
(* left when that future is dropped; the /bin/sh sentinel which leads the  *)
(* group of a run with a lifecycle reporter; and the operating system,     *)
(* which gives the number of a group without members to somebody else.     *)
(*                                                                         *)
(* A timer may fire at any moment.  SIGTERM obliges nobody: a member may   *)
(* exit at any time, and the sentinel ignores it.                          *)
(***************************************************************************)
EXTENDS Naturals, Sequences

CONSTANTS
    MaxRetries      \* EXECUTABLE_BUSY_MAX_RETRIES

VARIABLES
    gated,      \* the run has a lifecycle reporter, its leader is the sentinel
    proc,       \* the members of the group; without a gate the leader is the target
    doomed,     \* members with a SIGKILL pending
    holds,      \* the helper inherited the output pipes
    foreign,    \* the number of the group belongs to somebody else
    struck,     \* what signalled that somebody, if anything did
    sentinel,   \* how far the script of the sentinel is
    gate,       \* its standard input
    status,     \* the exit code on the status channel
    fut,        \* the future that runs the subprocess
    reports,    \* what the lifecycle reporter was told
    stop,       \* the token is cancelled, or the deadline over
    murdered    \* somebody else killed the sentinel

os == <<proc, doomed, holds, foreign, struck, sentinel, status, murdered>>
vars == <<gated, os, gate, fut, reports, stop>>

Member == {"leader", "target", "helper"}
Alive == {m \in Member : proc[m] = "alive"}

\* process_group_alive, by the number: a zombie answers, and so does a stranger.
OurGroup == Alive # {} \/ proc["leader"] = "zombie"
NumberAlive == OurGroup \/ foreign

\* Where the future has no child yet, and where it has ended.
Childless == {"authorize", "spawn"}
Gone == {"ended", "crashed"}

\* Nothing is started, and the future stands at a place.
Unstarted(at) ==
    /\ gated \in BOOLEAN
    /\ proc = [m \in Member |-> "none"]
    /\ doomed = {} /\ holds = FALSE /\ foreign = FALSE /\ struck = "nobody"
    /\ sentinel = "none" /\ gate = "closed" /\ status = "none"
    /\ fut = [at |-> at, auth |-> FALSE, why |-> "none", bad |-> FALSE,
              lost |-> FALSE, retries |-> 0]
    /\ reports = <<>>
    /\ stop = "no" /\ murdered = FALSE

Init == Unstarted("authorize")

-----------------------------------------------------------------------------
(* Signals. *)

\* kill(-pgid, SIGKILL)
KillGroup(who) ==
    IF OurGroup THEN doomed' = doomed \cup Alive /\ UNCHANGED struck
    ELSE struck' = (IF foreign THEN who ELSE struck) /\ UNCHANGED doomed

\* kill(-pgid, SIGTERM)
TermGroup(who) ==
    /\ struck' = IF foreign /\ ~OurGroup THEN who ELSE struck
    /\ UNCHANGED doomed

NoSignal == UNCHANGED <<doomed, struck>>

-----------------------------------------------------------------------------
(* The processes. *)

world == <<gated, gate, fut, reports, stop>>

\* A member ends by itself, or of the signal.
Ends(m) ==
    /\ proc[m] = "alive"
    /\ m # "leader" \/ ~gated \/ m \in doomed
    /\ proc' = [proc EXCEPT ![m] = IF m = "leader" THEN "zombie" ELSE "dead"]
    /\ UNCHANGED <<world, doomed, holds, foreign, struck, sentinel, status, murdered>>

\* The target leaves a helper in the group, with or without its pipes.
Forks ==
    /\ (IF gated THEN "target" ELSE "leader") \in Alive \ doomed
    /\ proc["helper"] = "none"
    /\ proc' = [proc EXCEPT !["helper"] = "alive"]
    /\ holds' \in BOOLEAN
    /\ UNCHANGED <<world, doomed, foreign, struck, sentinel, status, murdered>>

\* A leader nobody waits for any more is reaped by the runtime or by init.
Collected ==
    /\ proc["leader"] = "zombie" /\ (fut.at \in Gone \/ fut.lost)
    /\ proc' = [proc EXCEPT !["leader"] = "dead"]
    /\ UNCHANGED <<world, doomed, holds, foreign, struck, sentinel, status, murdered>>

\* The number of an empty group is given away.
Reused ==
    /\ proc["leader"] = "dead" /\ Alive = {} /\ ~foreign
    /\ foreign' = TRUE
    /\ UNCHANGED <<world, proc, doomed, holds, struck, sentinel, status, murdered>>

\* The sentinel is killed from outside.
Murdered ==
    /\ gated /\ proc["leader"] = "alive" /\ ~murdered
    /\ doomed' = doomed \cup {"leader"}
    /\ murdered' = TRUE
    /\ UNCHANGED <<world, proc, holds, foreign, struck, sentinel, status>>

\* START_GATE_SCRIPT: the gate opens and the target starts; or the gate is
\* closed, or the environment unreadable, and the EXIT trap kills the group.
SentinelActs(phase) == gated /\ "leader" \in Alive \ doomed /\ sentinel = phase
SentinelStarts ==
    /\ SentinelActs("gate") /\ gate = "go"
    /\ \/ proc' = [proc EXCEPT !["target"] = "alive"] /\ sentinel' = "wait" /\ UNCHANGED doomed
       \/ sentinel' = "exit" /\ doomed' = doomed \cup Alive /\ UNCHANGED proc
    /\ UNCHANGED <<world, holds, foreign, struck, status, murdered>>
SentinelRefuses ==
    /\ SentinelActs("gate") /\ gate = "eof"
    /\ sentinel' = "exit" /\ doomed' = doomed \cup Alive
    /\ UNCHANGED <<world, proc, holds, foreign, struck, status, murdered>>

\* The target is gone: its status is written, if anybody reads, and then the
\* whole group is killed.
SentinelReports ==
    /\ SentinelActs("wait") /\ proc["target"] = "dead"
    /\ status' = IF fut.at \in Gone THEN status ELSE "code"
    /\ sentinel' = "kill"
    /\ UNCHANGED <<world, proc, doomed, holds, foreign, struck, murdered>>
SentinelKills ==
    /\ SentinelActs("kill")
    /\ sentinel' = "exit" /\ doomed' = doomed \cup Alive
    /\ UNCHANGED <<world, proc, holds, foreign, struck, status, murdered>>

-----------------------------------------------------------------------------
(* The future: from the start to the open gate. *)

Goto(at) == fut' = [fut EXCEPT !.at = at]
Still == UNCHANGED <<gated, stop>>
Quiet == UNCHANGED <<holds, foreign, sentinel, status, murdered>>
Untouched == UNCHANGED os

\* report_stopped; without a reporter nothing is told.
Stopped(empty) ==
    reports' = IF gated THEN Append(reports, IF empty THEN "empty" ELSE "stopped") ELSE reports

\* spawn_harness_child up to the await of the native gate
Authorize ==
    /\ fut.at = "authorize"
    /\ \/ stop = "no" /\ Goto("spawn")
       \/ fut' = [fut EXCEPT !.at = "ended", !.bad = TRUE]
    /\ Untouched /\ Still /\ UNCHANGED <<gate, reports>>

\* The checks after it, and the spawn itself.
Spawn ==
    /\ fut.at = "spawn"
    /\ \/ /\ stop = "no"
          /\ fut' = [fut EXCEPT !.at = "announce", !.auth = TRUE]
          /\ proc' = [proc EXCEPT !["leader"] = "alive"]
          /\ sentinel' = IF gated THEN "gate" ELSE "none"
          /\ UNCHANGED doomed
       \/ /\ stop = "no" /\ fut.retries < MaxRetries
          /\ fut' = [fut EXCEPT !.at = "authorize", !.retries = @ + 1]
          /\ UNCHANGED <<proc, sentinel, doomed>>
       \/ /\ fut' = [fut EXCEPT !.at = "ended", !.bad = TRUE]
          /\ UNCHANGED <<proc, sentinel, doomed>>
    /\ UNCHANGED <<holds, foreign, struck, status, murdered, gate, reports>> /\ Still

\* establish_lifecycle: a report that fails ends the child before it began.
Announce ==
    /\ fut.at = "announce"
    /\ \/ /\ Goto(IF gated THEN "release" ELSE "select")
          /\ reports' = IF gated THEN <<"started">> ELSE reports
          /\ NoSignal
       \/ gated /\ Goto("abort") /\ KillGroup("abort") /\ UNCHANGED reports
    /\ UNCHANGED <<proc, gate>> /\ Quiet /\ Still

\* authorize_and_release_start_gate: token, deadline and authority are read
\* once more, and the line is written or the gate closed.
Release ==
    /\ fut.at = "release"
    /\ \/ stop = "no" /\ Goto("select") /\ gate' = "go" /\ NoSignal
       \/ Goto("abort") /\ gate' = "eof" /\ KillGroup("abort")
    /\ UNCHANGED <<proc, reports>> /\ Quiet /\ Still

\* Mutant: a wait that returned leaves the guard armed.
ReapsArmed(next) ==
    /\ proc["leader"] = "zombie"
    /\ proc' = [proc EXCEPT !["leader"] = "dead"]
    /\ fut' = next

\* leader_wait_returned: the leader is reaped, or nobody knows; either way the
\* number is no longer ours to signal.
Reaps(next) ==
    /\ proc["leader"] = "zombie"
    /\ proc' = [proc EXCEPT !["leader"] = "dead"]
    /\ fut' = [next EXCEPT !.auth = FALSE]
WaitFails(next) ==
    /\ fut' = [next EXCEPT !.auth = FALSE, !.lost = TRUE, !.bad = TRUE]
    /\ UNCHANGED proc

\* force_kill_and_reap: after a wait that fails the guard is dropped.
Abort ==
    /\ fut.at = "abort"
    /\ \/ Reaps([fut EXCEPT !.at = "abortSettle", !.bad = TRUE]) /\ UNCHANGED reports
       \/ WaitFails([fut EXCEPT !.at = "ended"]) /\ Stopped(FALSE)
    /\ NoSignal /\ UNCHANGED gate /\ Quiet /\ Still

\* disarm: what is left is reported.
Disarm(empty) ==
    /\ fut' = [fut EXCEPT !.at = "ended", !.auth = FALSE]
    /\ Stopped(empty)

\* wait_for_group_exit: the group is seen to be empty, or the grace is over.
Settles == Disarm(~NumberAlive)

AbortSettle ==
    /\ fut.at = "abortSettle"
    /\ Settles
    /\ Untouched /\ Still /\ UNCHANGED gate

-----------------------------------------------------------------------------
(* The future: the end of the process. *)

Exited(f) == IF gated /\ status # "code" THEN [f EXCEPT !.why = "exited", !.bad = TRUE]
             ELSE [f EXCEPT !.why = "exited"]

\* The biased select of the run.
Select ==
    /\ fut.at = "select"
    /\ \/ /\ stop # "no"
          /\ fut' = [fut EXCEPT !.at = "termLeader", !.why = stop]
          /\ TermGroup("terminate") /\ UNCHANGED proc
       \/ stop = "no" /\ Reaps(Exited([fut EXCEPT !.at = "drain"])) /\ NoSignal
       \/ stop = "no" /\ WaitFails([fut EXCEPT !.at = "drain"]) /\ NoSignal
    /\ UNCHANGED <<gate, reports>> /\ Quiet /\ Still

\* terminate_and_reap: the leader first, because a zombie answers for a group.
TermLeader ==
    /\ fut.at = "termLeader"
    /\ \/ Reaps([fut EXCEPT !.at = "termGroup"]) /\ NoSignal /\ UNCHANGED reports
       \/ WaitFails([fut EXCEPT !.at = "ended"]) /\ NoSignal /\ Stopped(FALSE)
       \/ Goto("killLeader") /\ KillGroup("terminate") /\ UNCHANGED <<proc, reports>>
    /\ UNCHANGED gate /\ Quiet /\ Still

\* The leader is reaped and others are left: the group of a dead sentinel is
\* not signalled any more.
TermRest ==
    /\ fut.at = "termGroup"
    /\ \/ ~NumberAlive /\ Goto("drain") /\ NoSignal
       \/ gated /\ NumberAlive /\ fut' = [fut EXCEPT !.at = "drain", !.bad = TRUE] /\ NoSignal
       \/ ~gated /\ NumberAlive /\ Goto("settle") /\ KillGroup("terminate")
    /\ UNCHANGED <<proc, gate, reports>> /\ Quiet /\ Still

\* force_kill_direct_and_wait, after the SIGKILL of the group
KillLeader ==
    /\ fut.at = "killLeader"
    /\ \/ Reaps([fut EXCEPT !.at = "settle"]) /\ UNCHANGED reports
       \/ WaitFails([fut EXCEPT !.at = "ended"]) /\ Stopped(FALSE)
    /\ NoSignal /\ UNCHANGED gate /\ Quiet /\ Still

Settle ==
    /\ fut.at = "settle"
    /\ Goto("drain")
    /\ Untouched /\ Still /\ UNCHANGED <<gate, reports>>

\* residual_group_control
MaySignal == ~fut.lost /\ ~gated /\ fut.why = "exited"

PipesClosed == Alive \subseteq (IF holds THEN {} ELSE {"helper"})

\* wait_for_post_exit_drains, then the first step of cleanup_residual_group
Drain ==
    /\ fut.at = "drain"
    /\ \/ /\ PipesClosed
          /\ IF MaySignal /\ NumberAlive
             THEN Goto("residual") /\ TermGroup("residual")
             ELSE Goto("observe") /\ NoSignal
       \/ /\ ~PipesClosed
          /\ Goto("observe")
          /\ IF MaySignal THEN KillGroup("drain") ELSE NoSignal
    /\ UNCHANGED <<proc, gate, reports>> /\ Quiet /\ Still

\* terminate_residual_group after its SIGTERM
Residual ==
    /\ fut.at = "residual"
    /\ \/ ~NumberAlive /\ Disarm(TRUE) /\ NoSignal
       \/ NumberAlive /\ Goto("observe") /\ KillGroup("residual") /\ UNCHANGED reports
    /\ UNCHANGED <<proc, gate>> /\ Quiet /\ Still

Observe ==
    /\ fut.at = "observe"
    /\ Settles
    /\ Untouched /\ Still /\ UNCHANGED gate

Future ==
    \/ Authorize \/ Spawn \/ Announce \/ Release \/ Abort \/ AbortSettle
    \/ Select \/ TermLeader \/ TermRest \/ KillLeader \/ Settle \/ Drain \/ Residual \/ Observe

-----------------------------------------------------------------------------
(* The caller, and the end of the parent. *)

Stops(how) ==
    /\ stop = "no"
    /\ stop' = how
    /\ Untouched /\ UNCHANGED <<gated, gate, fut, reports>>

\* The future is dropped at an await: ProcessGroupDropGuard::drop, then the
\* child with kill_on_drop.
Dropped ==
    /\ fut.at \notin Gone \cup {"announce", "release"}
    /\ fut' = [fut EXCEPT !.at = "ended", !.auth = FALSE,
                          !.why = IF fut.auth \/ fut.at \in Childless THEN "dropped" ELSE "late"]
    /\ IF fut.auth THEN KillGroup("drop") ELSE NoSignal
    /\ IF fut.at \in Childless THEN UNCHANGED reports ELSE Stopped(FALSE)
    /\ gate' = IF gate = "closed" THEN "eof" ELSE gate
    /\ UNCHANGED proc /\ Quiet /\ Still

\* The process of the future dies, without a drop.
Crash ==
    /\ fut.at # "crashed"
    /\ Goto("crashed")
    /\ gate' = IF gate = "closed" THEN "eof" ELSE gate
    /\ Untouched /\ Still /\ UNCHANGED reports

Sentinel == SentinelStarts \/ SentinelRefuses \/ SentinelReports \/ SentinelKills

Next ==
    \/ \E m \in Member : Ends(m)
    \/ Forks \/ Collected \/ Reused \/ Murdered \/ Sentinel
    \/ Future \/ Dropped \/ Crash
    \/ \E how \in {"cancelled", "timed_out"} : Stops(how)

Spec == Init /\ [][Next]_vars

\* Timers fire and waits return; a SIGKILL takes effect in the end; the shell
\* runs on.
Fairness ==
    /\ WF_vars(Future) /\ WF_vars(Sentinel) /\ WF_vars(Collected)
    /\ \A m \in Member : WF_vars(m \in doomed /\ Ends(m))

FairSpec == Spec /\ Fairness
-----------------------------------------------------------------------------
(* Properties. *)

\* The variables have the declared shape.
ProcessTypeOK ==
    /\ proc \in [Member -> {"none", "alive", "zombie", "dead"}]
    /\ doomed \subseteq Member
    /\ gate \in {"closed", "go", "eof"} /\ sentinel \in {"none", "gate", "wait", "kill", "exit"}
    /\ fut.auth => fut.at \notin {"ended"} \cup Childless
    /\ reports \in Seq({"started", "empty", "stopped"})

\* A run with a lifecycle reporter never signals a stranger that was given the
\* number of its group, and a dropped future never does at all.
SignalsStayInside ==
    struck # "nobody" => ~gated /\ struck # "drop"

\* The target runs only after Started was reported, and Stopped is the last
\* report and is made once, however the future ends.
TargetIsAnnounced ==
    /\ gated /\ proc["target"] # "none" => reports # <<>> /\ Head(reports) = "started"
    /\ Len(reports) <= 2
    /\ \A k \in 1 .. Len(reports) : reports[k] # "started" => k = Len(reports)
    /\ fut.at = "ended" /\ reports # <<>> => reports[Len(reports)] # "started"

\* What was reported empty is.
EmptyIsEmpty ==
    reports # <<>> /\ reports[Len(reports)] = "empty" => ~OurGroup

\* Nobody is left who has not been killed, unless the sentinel was killed by
\* somebody else, a wait failed, or the future of an ungated run was dropped
\* after it had reaped the leader.
Excused == murdered \/ fut.lost \/ (~gated /\ fut.why = "late")
NobodyLeft == fut.at = "ended" => Alive \subseteq doomed \/ Excused

\* The exit code of a gated run is that of the target.
CodeIsTheTargets ==
    gated /\ fut.why = "exited" /\ ~fut.bad => proc["target"] = "dead" /\ status = "code"

\* What a harness starts is announced, contained and told the truth about:
\* signals stay in the group, reports are in order and true, nobody is left.
ProcessesContained ==
    /\ ProcessTypeOK /\ SignalsStayInside /\ TargetIsAnnounced /\ EmptyIsEmpty
    /\ NobodyLeft /\ CodeIsTheTargets

\* A run that is cancelled or over time ends, and so does its group; the group
\* of a gated run ends with its target even if the parent died.
ProcessesEnd ==
    /\ stop # "no" ~> fut.at \in Gone
    /\ fut.at = "ended" ~> Alive = {} \/ Excused
    /\ fut.at = "crashed" /\ gated /\ (proc["target"] = "dead" \/ gate = "eof") ~> Alive = {} \/ Excused
-----------------------------------------------------------------------------
(* An inductive invariant: what holds at the places of the future. *)

\* Where the future holds the group with its guard, and where it gave it up.
Holding == {"announce", "release", "select", "abort", "termLeader", "killLeader"}
Resigned == {"abortSettle", "termGroup", "settle", "drain", "residual", "observe"}
Place == Childless \cup Holding \cup Resigned \cup Gone
FutureState ==
    [at : Place, auth : BOOLEAN, bad : BOOLEAN, lost : BOOLEAN, retries : Nat,
     why : {"none", "exited", "cancelled", "timed_out", "dropped", "late"}]

ProcessShape ==
    /\ gated \in BOOLEAN /\ holds \in BOOLEAN /\ foreign \in BOOLEAN /\ murdered \in BOOLEAN
    /\ proc \in [Member -> {"none", "alive", "zombie", "dead"}]
    /\ doomed \subseteq Member
    /\ struck \in {"nobody", "abort", "terminate", "residual", "drain", "drop"}
    /\ sentinel \in {"none", "gate", "wait", "kill", "exit"}
    /\ gate \in {"closed", "go", "eof"} /\ status \in {"none", "code"}
    /\ fut \in FutureState
    /\ stop \in {"no", "cancelled", "timed_out"}

\* Before the leader there is nobody, and a number given away was empty.
GroupSound ==
    /\ proc["leader"] = "none" =>
         /\ \A m \in Member : proc[m] = "none"
         /\ doomed = {} /\ sentinel = "none" /\ status = "none" /\ ~foreign
    /\ foreign => proc["leader"] = "dead" /\ Alive = {}
    /\ proc["target"] # "none" => gated /\ gate = "go" /\ sentinel # "gate"
    /\ status = "code" => proc["target"] = "dead" /\ sentinel \in {"kill", "exit"}
    /\ sentinel # "none" => gated

\* The sentinel dies of a signal, and who signals it signals all.
SentinelSound ==
    gated =>
      /\ proc["leader"] \in {"zombie", "dead"} => "leader" \in doomed
      /\ "leader" \in doomed => murdered \/ Alive \subseteq doomed

\* The guard is armed exactly while the leader can still be reaped.
GuardSound ==
    /\ fut.at \in Childless =>
         proc["leader"] = "none" /\ ~fut.lost /\ fut.why = "none" /\ gate = "closed"
    /\ fut.at \in Holding =>
         fut.auth /\ ~fut.lost /\ proc["leader"] \in {"alive", "zombie"}
    /\ fut.at \in Resigned => ~fut.auth /\ (fut.lost \/ proc["leader"] = "dead")
    /\ fut.auth => fut.at \in Holding \cup {"crashed"}
    /\ fut.at \in {"announce", "release"} => gate = "closed" /\ fut.why = "none"
    /\ fut.at \in {"select", "abort", "abortSettle"} => fut.why = "none"
    /\ fut.at \in {"termLeader", "termGroup", "killLeader", "settle"} =>
         fut.why \in {"cancelled", "timed_out"}
    /\ fut.at \in {"drain", "residual", "observe"} =>
         \/ fut.why \in {"exited", "cancelled", "timed_out"}
         \/ fut.why = "none" /\ fut.lost
    /\ fut.at = "residual" => ~gated
    /\ fut.at \in {"release", "abort", "abortSettle"} => gated

\* Who is left when the future is past its signals.
Contained == Alive \subseteq doomed
LeftSound ==
    /\ fut.at \in {"abort", "abortSettle", "killLeader", "settle"} => Contained
    /\ fut.at = "drain" /\ ~gated /\ fut.why # "exited" => Contained \/ fut.lost
    /\ fut.at \in {"observe", "ended"} => Contained \/ Excused

\* What the reporter was told, by place.
Unsaid == <<>>
Begun == <<"started">>
Refused == {<<"empty">>, <<"stopped">>}
Finished == {<<"started", "empty">>, <<"started", "stopped">>}
SaidEmpty == {<<"empty">>, <<"started", "empty">>}
ReportsSound ==
    /\ ~gated \/ fut.at \in Childless \cup {"announce"} => reports = Unsaid
    /\ gated /\ fut.at \in (Holding \cup Resigned) \ {"announce", "abort", "abortSettle"} =>
         reports = Begun
    /\ fut.at \in {"abort", "abortSettle"} => reports \in {Unsaid, Begun}
    /\ fut.at = "ended" => reports \in {Unsaid} \cup Refused \cup Finished
    /\ fut.at = "crashed" => reports \in {Unsaid, Begun} \cup Refused \cup Finished
    /\ gate = "go" => reports \in {Begun} \cup Finished
    /\ reports \in SaidEmpty => ~OurGroup

ProcessInv ==
    /\ ProcessShape /\ GroupSound /\ SentinelSound /\ GuardSound /\ LeftSound /\ ReportsSound
    /\ SignalsStayInside /\ CodeIsTheTargets
=============================================================================
