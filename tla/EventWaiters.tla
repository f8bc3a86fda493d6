---------------------------- MODULE EventWaiters ----------------------------
(* What AutoResetWaitableEvent and ManualResetWaitableEvent                  *)
(* (synchronization/waitable_event.cc) have in common: the flag signaled_    *)
(* under mutex_ and the threads that wait for it on cv_.                     *)
(*                                                                           *)
(* A region under mutex_ is one action.  A waiter inside cv_.wait is         *)
(* "asleep"; notified, or woken spuriously, it is "awake" until it has the   *)
(* mutex again and looks at the event.  wait_for of the library the app      *)
(* links reports a timeout when the deadline has passed by the time the      *)
(* waiter runs again, whether or not it was notified before: an "awake"      *)
(* waiter with a timeout may therefore still time out.                       *)
EXTENDS Integers, FiniteSets

CONSTANTS
    Waiters,        \* threads that call Wait or WaitWithTimeout, each once
    Timed,          \* the ones that call WaitWithTimeout
    MaxSignals,     \* bound on the calls of Signal
    MaxResets       \* bound on the calls of Reset

ASSUME EventAssumption ==
    /\ IsFiniteSet(Waiters)
    /\ Timed \subseteq Waiters
    /\ MaxSignals \in Nat
    /\ MaxResets \in Nat

VARIABLES
    kind,           \* the class of the object under test
    signaled,       \* signaled_
    signal_id,      \* number of calls of Signal; signal_id_ of a manual event
    pc,             \* where each waiter is
    resets          \* number of calls of Reset

waitVars == <<kind, signaled, signal_id, pc, resets>>

Asleep == {w \in Waiters : pc[w] = "asleep"}
Awake == {w \in Waiters : pc[w] = "awake"}
Unblocked == {w \in Waiters : pc[w] = "unblocked"}

WaitInit ==
    /\ signaled = FALSE
    /\ signal_id = 0
    /\ pc = [w \in Waiters |-> "idle"]
    /\ resets = 0

NotifyOne ==
    IF Asleep = {} THEN UNCHANGED pc
    ELSE \E w \in Asleep : pc' = [pc EXCEPT ![w] = "awake"]

NotifyAll == pc' = [w \in Waiters |-> IF pc[w] = "asleep" THEN "awake" ELSE pc[w]]

Reset ==
    /\ resets < MaxResets
    /\ resets' = resets + 1
    /\ signaled' = FALSE
    /\ UNCHANGED <<kind, signal_id, pc>>

SpuriousWakeUp(w) ==
    /\ pc[w] = "asleep"
    /\ pc' = [pc EXCEPT ![w] = "awake"]
    /\ UNCHANGED <<kind, signaled, signal_id, resets>>

\* wait_for reports a timeout, or the wake-up was spurious and came too late.
TimeOut(w) ==
    /\ w \in Timed
    /\ pc[w] \in {"asleep", "awake"}
    /\ pc' = [pc EXCEPT ![w] = "timedout"]
    /\ UNCHANGED <<kind, signaled, signal_id, resets>>
=============================================================================
