--------------------------- MODULE CountDownLatch ---------------------------
(* CountDownLatch (synchronization/count_down_latch.cc): an atomic counter   *)
(* and a ManualResetWaitableEvent.  CountDown decrements and, when it has    *)
(* reached zero, signals in a second step; Wait waits for the event.         *)
EXTENDS ManualResetEvent

CONSTANT Counters       \* threads that call CountDown, each once

ASSUME CountersAssumption == IsFiniteSet(Counters) /\ MaxSignals > 0

VARIABLES
    count,              \* count_
    cpc                 \* where each counter is in CountDown

latchVars == <<manualVars, count, cpc>>

\* The constructor, for as many counts as there are threads to count down.  A
\* latch of zero is signaled at once.
LatchInit ==
    /\ kind = "latch"
    /\ signaled = (Counters = {})
    /\ signal_id = IF Counters = {} THEN 1 ELSE 0
    /\ last_signal_id = [w \in Waiters |-> 0]
    /\ pc = [w \in Waiters |-> "idle"]
    /\ resets = 0
    /\ count = Cardinality(Counters)
    /\ cpc = [c \in Counters |-> "idle"]

\* Mutant: the test is off by one.
DecrementEarly(c) ==
    /\ cpc[c] = "idle"
    /\ count' = count - 1
    /\ cpc' = [cpc EXCEPT ![c] = IF count' = 1 THEN "signal" ELSE "done"]
    /\ UNCHANGED manualVars

\* Mutant: count_-- == 0
DecrementPost(c) ==
    /\ cpc[c] = "idle"
    /\ count' = count - 1
    /\ cpc' = [cpc EXCEPT ![c] = IF count = 0 THEN "signal" ELSE "done"]
    /\ UNCHANGED manualVars

\* --count_ == 0
Decrement(c) ==
    /\ cpc[c] = "idle"
    /\ count' = count - 1
    /\ cpc' = [cpc EXCEPT ![c] = IF count' = 0 THEN "signal" ELSE "done"]
    /\ UNCHANGED manualVars

SignalZero(c) ==
    /\ cpc[c] = "signal"
    /\ ManualSignal
    /\ cpc' = [cpc EXCEPT ![c] = "done"]
    /\ UNCHANGED count

CountDown(c) == Decrement(c) \/ SignalZero(c)

Await(w) == (BeginWait(w) \/ WakeUp(w)) /\ UNCHANGED <<count, cpc>>

LatchNext ==
    /\ kind = "latch"
    /\ \/ \E c \in Counters : CountDown(c)
       \/ \E w \in Waiters :
            \/ Await(w)
            \/ SpuriousWakeUp(w) /\ UNCHANGED <<last_signal_id, count, cpc>>

LatchSpec == LatchInit /\ [][LatchNext]_latchVars

-----------------------------------------------------------------------------
\* Nobody passes the latch before the last thread has counted down.
NobodyPassesEarly ==
    (kind = "latch" /\ Unblocked # {}) =>
        count = 0 /\ \A c \in Counters : cpc[c] = "done"

\* Everybody gets past the latch once all have counted down.
EverybodyPasses ==
    kind = "latch" ~> \A w \in Waiters : pc[w] = "unblocked"
=============================================================================
