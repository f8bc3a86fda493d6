-------------------------- MODULE ManualResetEvent --------------------------
(* ManualResetWaitableEvent (synchronization/waitable_event.cc).             *)
(*                                                                           *)
(* Signal sets the flag, counts itself in signal_id_ and notifies everybody. *)
(* A waiter remembers signal_id_ when it starts to wait, so that a Reset     *)
(* between the Signal and its own wake-up does not send it back to sleep.    *)
EXTENDS EventWaiters

VARIABLE last_signal_id     \* the local of Wait and WaitWithTimeout

manualVars == <<waitVars, last_signal_id>>

ManualInit == kind = "manual" /\ WaitInit /\ last_signal_id = [w \in Waiters |-> 0]

\* Mutant: notify_one in place of notify_all.
ManualSignalOne ==
    /\ signal_id < MaxSignals
    /\ signaled' = TRUE
    /\ signal_id' = signal_id + 1
    /\ NotifyOne
    /\ UNCHANGED <<kind, last_signal_id, resets>>

\* MaxSignals stays below the wrap of signal_id_ at 2^32.
ManualSignal ==
    /\ signal_id < MaxSignals
    /\ signaled' = TRUE
    /\ signal_id' = signal_id + 1
    /\ NotifyAll
    /\ UNCHANGED <<kind, last_signal_id, resets>>

BeginWait(w) ==
    /\ pc[w] = "idle"
    /\ last_signal_id' = [last_signal_id EXCEPT ![w] = signal_id]
    /\ pc' = [pc EXCEPT ![w] = IF signaled THEN "unblocked" ELSE "asleep"]
    /\ UNCHANGED <<kind, signaled, signal_id, resets>>

\* Mutant: the waiter looks at signaled_ only.
WakeUpOnFlag(w) ==
    /\ pc[w] = "awake"
    /\ pc' = [pc EXCEPT ![w] = IF signaled THEN "unblocked" ELSE "asleep"]
    /\ UNCHANGED <<kind, signaled, signal_id, last_signal_id, resets>>

\* Wait compares signal_id_ only, WaitWithTimeout looks at signaled_ as well.
WakeUp(w) ==
    /\ pc[w] = "awake"
    /\ pc' = [pc EXCEPT ![w] =
                IF signal_id # last_signal_id[w] \/ (w \in Timed /\ signaled)
                THEN "unblocked" ELSE "asleep"]
    /\ UNCHANGED <<kind, signaled, signal_id, last_signal_id, resets>>

ManualNext ==
    /\ kind = "manual"
    /\ \/ ManualSignal
       \/ Reset /\ UNCHANGED last_signal_id
       \/ \E w \in Waiters :
            \/ BeginWait(w)
            \/ WakeUp(w)
            \/ SpuriousWakeUp(w) /\ UNCHANGED last_signal_id
            \/ TimeOut(w) /\ UNCHANGED last_signal_id

ManualSpec == ManualInit /\ [][ManualNext]_manualVars

-----------------------------------------------------------------------------
\* Whoever sleeps has missed no signal: the event is not signaled and was not
\* signaled since the waiter came, not even for an instant before a Reset.
SleepersMissedNothing ==
    kind = "manual" =>
        \A w \in Asleep : ~signaled /\ signal_id = last_signal_id[w]

\* Every waiter that was there when the event was signaled gets through (or
\* times out), even when the event is reset before it runs again.
SignalUnblocksAll ==
    \A w \in Waiters :
        (/\ kind = "manual"
         /\ pc[w] \in {"asleep", "awake"}
         /\ signal_id # last_signal_id[w])
            ~> pc[w] \in {"unblocked", "timedout"}
=============================================================================
