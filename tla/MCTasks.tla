------------------------------ MODULE MCTasks ------------------------------
(***************************************************************************)
(* The two supervisors of task rows and the process of a harness, checked  *)
(* side by side: a behaviour belongs to one and leaves the others at rest. *)
(***************************************************************************)
EXTENDS TaskSupervisor

CONSTANTS LeaseTicks, MaxDaemons, MaxTime, MaxRetries

VARIABLES
    part,   \* what this behaviour is about
    wRow, wServer, wInit, wInitToken, wSignalled, wJournal, wLive, wWorker,
    wWatcher, wCompletion, wLate, wClient, wNow, wFaults,
    gated, proc, doomed, holds, foreign, struck, sentinel, gate, status, fut,
    reports, stop, murdered

P == INSTANCE HarnessProcess

W == INSTANCE WorkflowSupervisor WITH
    MaxServers <- MaxDaemons,
    row <- wRow, server <- wServer, init <- wInit, initToken <- wInitToken,
    signalled <- wSignalled, journal <- wJournal, live <- wLive,
    worker <- wWorker, watcher <- wWatcher, completion <- wCompletion,
    late <- wLate, client <- wClient, now <- wNow, faults <- wFaults

\* Daemons are numbered as servers are.
ASSUME DaemonAssumption == W!Bounds

workflowVars == <<wRow, wServer, wInit, wInitToken, wSignalled, wJournal, wLive,
                  wWorker, wWatcher, wCompletion, wLate, wClient, wNow, wFaults>>
processVars == <<gated, proc, doomed, holds, foreign, struck, sentinel, gate,
                 status, fut, reports, stop, murdered>>
allVars == <<part, vars, workflowVars, processVars>>

MCInit ==
    /\ Init /\ W!Init
    /\ \/ part = "process" /\ P!Init
       \/ part \in {"rest", "workflow"} /\ P!Unstarted("ended") /\ gated
MCNext ==
    \/ part = "rest" /\ Next /\ UNCHANGED <<part, workflowVars, processVars>>
    \/ part = "workflow" /\ W!Next /\ UNCHANGED <<part, vars, processVars>>
    \/ part = "process" /\ P!Next /\ UNCHANGED <<part, vars, workflowVars>>

\* At rest no action any of the three fairness conditions speaks of is enabled.
MCSpec == MCInit /\ [][MCNext]_allVars /\ Fairness /\ W!Fairness /\ P!Fairness

\* A workflow row is readable and legal; what runs is wanted and watched, and
\* a released lock leaves nobody who writes.  (See WorkflowSupervisor.)
WorkflowsSupervised == W!WorkflowsSupervised

\* The processes of a harness are announced, contained and reported as they
\* are.  (See HarnessProcess.)
ProcessesContained == P!ProcessesContained

\* What was asked for comes to an end: cancellations reach the work, shutdowns
\* finish within their phases, tasks, workflows and process groups end.
SupervisionEnds == TasksSettle /\ W!WorkflowsSettle /\ P!ProcessesEnd
=============================================================================
