--------------------------- MODULE AutoResetEvent ---------------------------
(* AutoResetWaitableEvent (synchronization/waitable_event.cc): Signal wakes  *)
(* one waiter, and the waiter that sees the flag takes it down.              *)
EXTENDS EventWaiters

AutoInit == kind = "auto" /\ WaitInit

\* Mutant: nobody is notified.
AutoSignalSilently ==
    /\ signal_id < MaxSignals
    /\ signal_id' = signal_id + 1
    /\ signaled' = TRUE
    /\ UNCHANGED <<kind, pc, resets>>

AutoSignal ==
    /\ signal_id < MaxSignals
    /\ signal_id' = signal_id + 1
    /\ signaled' = TRUE
    /\ NotifyOne
    /\ UNCHANGED <<kind, resets>>

\* Mutant: the event is not returned to the unsignaled state.
AutoCheckKeeps(w) ==
    /\ pc[w] \in {"idle", "awake"}
    /\ pc' = [pc EXCEPT ![w] = IF signaled THEN "unblocked" ELSE "asleep"]
    /\ UNCHANGED <<kind, signaled, signal_id, resets>>

\* A waiter holds the mutex and looks at signaled_: it takes the signal and
\* returns, or goes to sleep (again).
AutoCheck(w) ==
    /\ pc[w] \in {"idle", "awake"}
    /\ IF signaled
       THEN pc' = [pc EXCEPT ![w] = "unblocked"] /\ signaled' = FALSE
       ELSE pc' = [pc EXCEPT ![w] = "asleep"] /\ UNCHANGED signaled
    /\ UNCHANGED <<kind, signal_id, resets>>

AutoNext ==
    /\ kind = "auto"
    /\ \/ AutoSignal
       \/ Reset
       \/ \E w \in Waiters : AutoCheck(w) \/ SpuriousWakeUp(w) \/ TimeOut(w)

AutoSpec == AutoInit /\ [][AutoNext]_waitVars

-----------------------------------------------------------------------------
NobodyTimedOut == \A w \in Waiters : pc[w] # "timedout"

\* No waiter is let through without a signal of its own: each Wait() that
\* returned used up one Signal(), and the signal that is still there is not one
\* of them.
OneSignalPerWait ==
    kind = "auto" =>
        Cardinality(Unblocked) + (IF signaled THEN 1 ELSE 0) <= signal_id

\* Nobody is stranded, as long as nobody has timed out: while the event is
\* signaled and a waiter sleeps, some waiter is on its way to the signal.
SignalReachesAWaiter ==
    (kind = "auto" /\ NobodyTimedOut /\ signaled /\ Asleep # {}) => Awake # {}

\* "Exactly one |Wait()| will be unblocked and the event will be returned to the
\* unsignaled state" (waitable_event.h, Signal), timeouts or not.
SignalAlwaysReachesAWaiter ==
    (kind = "auto" /\ signaled /\ Asleep # {}) => Awake # {}

\* A signaled event does not stay signaled while there are waiters, unless one
\* of them has timed out.
SignalIsTaken ==
    (kind = "auto" /\ signaled /\ Asleep \cup Awake # {})
        ~> (~signaled \/ Asleep \cup Awake = {} \/ ~NobodyTimedOut)
=============================================================================
