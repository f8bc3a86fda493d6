------------------------------ MODULE MCEvents ------------------------------
(* Model-checking instance of the two waitable events, the latch, the        *)
(* semaphore, the switch and the Qt thread: the object under test is chosen  *)
(* in the initial state and stays the same.                                  *)
EXTENDS AutoResetEvent, CountDownLatch, Semaphore, SyncSwitch, QtThread

mcVars == <<latchVars, semVars, switchVars, qtVars>>

MCInit ==
    /\ \/ /\ AutoInit \/ ManualInit \/ (WaitInit /\ kind \in {"semaphore", "switch", "qt"})
          /\ last_signal_id = [w \in Waiters |-> 0]
          /\ count = 0 /\ cpc = [c \in Counters |-> "idle"]
       \/ LatchInit
    /\ SemInit /\ SwitchInit /\ QtInit
    /\ kind # "semaphore" => valid
    /\ kind # "switch" => value

AutoStep == AutoNext /\ UNCHANGED <<last_signal_id, count, cpc, semVars, switchVars, qtVars>>
ManualStep == ManualNext /\ UNCHANGED <<count, cpc, semVars, switchVars, qtVars>>
LatchStep == LatchNext /\ UNCHANGED <<semVars, switchVars, qtVars>>
SemStep == kind = "semaphore" /\ SemNext /\ UNCHANGED <<latchVars, switchVars, qtVars>>
SwitchStep == kind = "switch" /\ SwitchNext /\ UNCHANGED <<latchVars, semVars, qtVars>>
QtStep == kind = "qt" /\ QtNext /\ UNCHANGED <<latchVars, semVars, switchVars>>

MCNext == AutoStep \/ ManualStep \/ LatchStep \/ SemStep \/ SwitchStep \/ QtStep

\* A thread that can go on does: a waiter that was given the mutex looks at the
\* event, a thread that counts down comes to its end, and the Qt thread runs.
\* Nobody has to signal an event, to begin to wait for one, or to post.
MCFairness ==
    /\ \A w \in Waiters :
        /\ WF_mcVars(AutoStep /\ pc[w] = "awake" /\ AutoCheck(w))
        /\ WF_mcVars(ManualStep /\ WakeUp(w))
        /\ WF_mcVars(LatchStep /\ Await(w))
    /\ \A c \in Counters : WF_mcVars(LatchStep /\ CountDown(c))
    /\ WF_mcVars(QtStep /\ QtThreadStep)

MCSpec == MCInit /\ [][MCNext]_mcVars /\ MCFairness
=============================================================================
