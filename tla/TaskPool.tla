------------------------------ MODULE TaskPool ------------------------------
(* What a pool that runs posted tasks promises: each task is posted once,    *)
(* started once, finished once, and a task that is waiting may be given up   *)
(* only after the pool was closed.                                           *)

CONSTANT Tasks

VARIABLES
    status,     \* where each task is in its life
    closed      \* was the pool asked to shut down?

Init ==
    /\ status = [t \in Tasks |-> "new"]
    /\ closed = FALSE

Move(t, from, to) ==
    /\ status[t] = from
    /\ status' = [status EXCEPT ![t] = to]
    /\ UNCHANGED closed

Post(t) == Move(t, "new", "waiting")

\* Once the pool is closed a poster may run the task itself.
RunByPoster(t) == closed /\ Move(t, "new", "running")

Start(t) == Move(t, "waiting", "running")

Finish(t) == Move(t, "running", "done")

Close == ~closed /\ closed' = TRUE /\ UNCHANGED status

\* The pool is destroyed and what still waits goes with it.
GiveUp ==
    /\ closed
    /\ status' = [t \in Tasks |->
                    IF status[t] = "waiting" THEN "dropped" ELSE status[t]]
    /\ UNCHANGED closed

Next ==
    \/ \E t \in Tasks : Post(t) \/ RunByPoster(t) \/ Start(t) \/ Finish(t)
    \/ Close
    \/ GiveUp

Spec == Init /\ [][Next]_<<status, closed>>
=============================================================================
