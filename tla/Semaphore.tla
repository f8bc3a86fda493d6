----------------------------- MODULE Semaphore ------------------------------
(* Semaphore (synchronization/semaphore.cc), a wrapper of sem_t.  A thread   *)
(* inside sem_wait is "asleep"; woken by sem_post or interrupted by a signal *)
(* handler it is "awake", and sem_wait, called again by                      *)
(* FOREVER_HANDLE_EINTR if it was interrupted, looks at the count.           *)
EXTENDS Naturals, FiniteSets

CONSTANTS
    SemWaiters,         \* threads that call Wait, each once
    SemTriers,          \* threads that call TryWait, each once
    StartCount,         \* the count of the constructor
    MaxPosts            \* bound on the calls of Signal

ASSUME SemaphoreAssumption ==
    /\ IsFiniteSet(SemWaiters) /\ IsFiniteSet(SemTriers)
    /\ SemWaiters \cap SemTriers = {}
    /\ StartCount \in Nat /\ MaxPosts \in Nat

VARIABLES
    valid,              \* valid_: sem_init succeeded
    sem,                \* the count
    posts,              \* number of calls of Signal
    spc                 \* where each thread is

semVars == <<valid, sem, posts, spc>>

At(place) == {t \in SemWaiters \cup SemTriers : spc[t] = place}

SemInit ==
    /\ valid \in BOOLEAN
    /\ sem = StartCount
    /\ posts = 0
    /\ spc = [t \in SemWaiters \cup SemTriers |-> "idle"]

GoTo(t, place) == spc' = [spc EXCEPT ![t] = place] /\ UNCHANGED <<valid, posts>>

Wait(t) ==
    /\ t \in SemWaiters /\ spc[t] \in {"idle", "awake"}
    /\ \/ ~valid /\ GoTo(t, "failed") /\ UNCHANGED sem
       \/ valid /\ sem = 0 /\ GoTo(t, "asleep") /\ UNCHANGED sem
       \/ valid /\ sem > 0 /\ GoTo(t, "passed") /\ sem' = sem - 1

\* Mutant: the interrupted call is not repeated.
InterruptFails(t) == spc[t] = "asleep" /\ GoTo(t, "failed") /\ UNCHANGED sem

\* sem_wait returns EINTR and is called again.
Interrupt(t) == spc[t] = "asleep" /\ GoTo(t, "awake") /\ UNCHANGED sem

TryWait(t) ==
    /\ t \in SemTriers /\ spc[t] = "idle"
    /\ \/ valid /\ sem > 0 /\ GoTo(t, "passed") /\ sem' = sem - 1
       \/ ~(valid /\ sem > 0) /\ GoTo(t, "failed") /\ UNCHANGED sem

Signal ==
    /\ posts < MaxPosts
    /\ posts' = posts + 1
    /\ sem' = IF valid THEN sem + 1 ELSE sem
    /\ IF valid /\ At("asleep") # {}
       THEN \E t \in At("asleep") : spc' = [spc EXCEPT ![t] = "awake"]
       ELSE UNCHANGED spc
    /\ UNCHANGED valid

SemNext ==
    \/ \E t \in SemWaiters : Wait(t) \/ Interrupt(t)
    \/ \E t \in SemTriers : TryWait(t)
    \/ Signal

SemSpec == SemInit /\ [][SemNext]_semVars

-----------------------------------------------------------------------------
\* Of a valid semaphore, no Signal is lost and none is used twice, however often
\* the waits are interrupted; a Wait on it does not fail; and nobody sleeps
\* while the count is more than those who are about to look at it can take.  On
\* an invalid one everybody fails and nobody blocks.
SemaphoreCounts ==
    IF valid
    THEN /\ sem + Cardinality(At("passed")) = StartCount + posts
         /\ At("failed") \subseteq SemTriers
         /\ Cardinality(At("awake")) < sem => At("asleep") = {}
    ELSE At("passed") = {} /\ At("asleep") = {}
=============================================================================
