-------------------------- MODULE AgentRunContract --------------------------
(***************************************************************************)
(* What the AgentRun store promises its clients, without leases, tickets,  *)
(* revisions or time: a worker seats at most one of its runs at a time, a  *)
(* seated run ends exactly once, and a run doomed by a cancellation never  *)
(* ends as won.                                                            *)
(***************************************************************************)
CONSTANTS Worker, Run, NoWorker

VARIABLES
    place,   \* where each run is: unborn, waiting, seated, won or lost
    home,    \* the worker a run belongs to
    doomed   \* runs whose cancellation was accepted while they were seated

cvars == <<place, home, doomed>>

CInit ==
    /\ place = [r \in Run |-> "unborn"]
    /\ home = [r \in Run |-> NoWorker]
    /\ doomed = {}

Submit(r, w) ==
    /\ place[r] = "unborn"
    /\ place' = [place EXCEPT ![r] = "waiting"]
    /\ home' = [home EXCEPT ![r] = w]
    /\ UNCHANGED doomed

\* A set of waiting runs is seated, one per worker, where the seat is free.
Seat(S) ==
    /\ \A r \in S : place[r] = "waiting"
    /\ \A r \in S, x \in Run :
         x # r /\ home[x] = home[r] => x \notin S /\ place[x] # "seated"
    /\ place' = [r \in Run |-> IF r \in S THEN "seated" ELSE place[r]]
    /\ UNCHANGED <<home, doomed>>

\* Cancelling drops waiting runs at once and dooms the seated ones.
Cancel(S) ==
    /\ \A r \in S : place[r] \in {"waiting", "seated"}
    /\ place' = [r \in Run |->
         IF r \in S /\ place[r] = "waiting" THEN "lost" ELSE place[r]]
    /\ doomed' = doomed \cup {r \in S : place[r] = "seated"}
    /\ UNCHANGED home

End(r, how) ==
    /\ place[r] = "seated"
    /\ how = "won" => r \notin doomed
    /\ place' = [place EXCEPT ![r] = how]
    /\ UNCHANGED <<home, doomed>>

CNext ==
    \/ \E r \in Run, w \in Worker : Submit(r, w)
    \/ \E S \in SUBSET Run : Seat(S) \/ Cancel(S)
    \/ \E r \in Run, how \in {"won", "lost"} : End(r, how)

CSpec == CInit /\ [][CNext]_cvars
=============================================================================
