------------------------------ MODULE JobBoard ------------------------------
(***************************************************************************)
(* What the server promises those who ask about its syncs, with threads,    *)
(* locks and timers left out: there is one board, and a job's story is told *)
(* on it once.  A job begins on a board that shows none running, and ends   *)
(* there, in the way its sync went; what has ended is wiped off in the end, *)
(* what runs only with the process that ran it.  A job that could not begin *)
(* has failed and is told all the same.  SyncService implements this        *)
(* specification.                                                           *)
(***************************************************************************)
CONSTANTS
    Job,            \* the jobs that are asked for
    Nothing         \* what the board shows when it shows no job

VARIABLES
    board,          \* the job that is shown and its state
    told,           \* the states that were shown of each job
    fate,           \* how each job's sync went
    lost            \* the jobs whose process ended before they were over

vars == <<board, told, fate, lost>>

Init ==
    /\ board = Nothing
    /\ told = [j \in Job |-> {}] /\ fate = [j \in Job |-> "none"]
    /\ lost = {}

Show(j, state) ==
    /\ board' = [job |-> j, state |-> state]
    /\ told' = [told EXCEPT ![j] = @ \cup {state}]

\* A job that was never shown begins; no other is running.
Begin(j) ==
    /\ j \notin lost /\ told[j] = {} /\ board.state # "running"
    /\ Show(j, "running")
    /\ UNCHANGED <<fate, lost>>

\* The sync of the job that is shown as running goes one way or the other; one
\* that has not begun can only fail.
Settle(j, r) ==
    /\ j \notin lost /\ fate[j] = "none"
    /\ board = [job |-> j, state |-> "running"] \/ (told[j] = {} /\ r = "failed")
    /\ fate' = [fate EXCEPT ![j] = r]
    /\ UNCHANGED <<board, told, lost>>

\* The job that runs is shown to end the way its sync went.
End(j) ==
    /\ j \notin lost /\ board = [job |-> j, state |-> "running"]
    /\ fate[j] # "none"
    /\ Show(j, IF fate[j] = "ok" THEN "complete" ELSE "failed")
    /\ UNCHANGED <<fate, lost>>

\* A job that has ended is wiped off.
Forget ==
    /\ board.state # "running"
    /\ board' = Nothing
    /\ UNCHANGED <<told, fate, lost>>

\* The process ends, and with it what runs.
Outage ==
    /\ \E more \in SUBSET Job :
          /\ board.state = "running" => board.job \in more
          /\ lost' = lost \cup more
    /\ board' = Nothing
    /\ UNCHANGED <<told, fate>>

Next ==
    \/ \E j \in Job : \/ Begin(j) \/ End(j)
                      \/ \E r \in {"ok", "failed"} : Settle(j, r)
    \/ Forget \/ Outage

Spec == Init /\ [][Next]_vars

=============================================================================
