-------------------------- MODULE MCConcurrentLoop --------------------------
(* Model-checking instance of what runs closures on threads of its own: the  *)
(* concurrent loop or the task executor, chosen in the initial state.        *)
EXTENDS ConcurrentLoop, TaskExecutor

VARIABLE system

mcVars == <<vars, execVars, system>>

MCInit ==
    /\ system \in {"pool", "executor"}
    /\ Init /\ ExecInit

PoolStep == system = "pool" /\ UNCHANGED <<execVars, system>>
ExecStep == system = "executor" /\ UNCHANGED <<vars, system>>

MCNext ==
    \/ PoolStep /\ Next
    \/ ExecStep /\ ExecNext

\* The scheduler runs every thread that can make a step: the threads of the pool,
\* those of an executor, and the main thread in the executor's constructor and
\* destructor.
MCFairness ==
    /\ \A w \in Workers : WF_mcVars(PoolStep /\ WorkerStep(w))
    /\ \A p \in Threads : WF_mcVars(PoolStep /\ PosterStep(p))
    /\ WF_mcVars(ExecStep /\ (MainWorks \/ (epc = "join" /\ JoinThread)))
    /\ \A t \in TypeMask : WF_mcVars(ExecStep /\ ThreadStep(t))

MCSpec == MCInit /\ [][MCNext]_mcVars /\ MCFairness
=============================================================================
