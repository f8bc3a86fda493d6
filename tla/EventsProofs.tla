---------------------------- MODULE EventsProofs ----------------------------
(* Proofs about the waitable events, the latch, the semaphore, the switch    *)
(* and QtThread, for every number of threads and of calls.                   *)
EXTENDS AutoResetEvent, CountDownLatch, Semaphore, SyncSwitch, QtThread,
        FiniteSetTheorems, TLAPS

-----------------------------------------------------------------------------
(* Threads at a place                                                        *)

\* The threads of S that are at the place p.
Members(S, f, p) == {t \in S : f[t] = p}

\* That set is finite, and its size is a number.
LEMMA MembersFinite ==
    ASSUME NEW S, IsFiniteSet(S), NEW f, NEW p
    PROVE  IsFiniteSet(Members(S, f, p)) /\ Cardinality(Members(S, f, p)) \in Nat
<1>1. Members(S, f, p) \subseteq S
  BY DEF Members
<1>2. IsFiniteSet(Members(S, f, p))
  BY <1>1, FS_Subset
<1> QED  BY <1>2, FS_CardinalityType

-----------------------------------------------------------------------------
(* AutoResetWaitableEvent                                                    *)

\* Where a waiter can be.
WaiterPlaces == {"idle", "asleep", "awake", "unblocked", "timedout"}

\* The types of what all events have.
WaitTypeOK ==
    /\ signaled \in BOOLEAN
    /\ signal_id \in Nat
    /\ resets \in Nat
    /\ pc \in [Waiters -> WaiterPlaces]

\* The inductive invariant of the auto reset event.
AutoInv ==
    /\ kind = "auto"
    /\ WaitTypeOK
    /\ OneSignalPerWait
    /\ SignalReachesAWaiter

\* The sets of EventWaiters, as members at a place.
LEMMA WaiterSets ==
    /\ Unblocked = Members(Waiters, pc, "unblocked")
    /\ Asleep = Members(Waiters, pc, "asleep")
    /\ Awake = Members(Waiters, pc, "awake")
BY DEF Unblocked, Asleep, Awake, Members

\* The same in the next state.
LEMMA WaiterSetsNext ==
    /\ Unblocked' = Members(Waiters, pc', "unblocked")
    /\ Asleep' = Members(Waiters, pc', "asleep")
    /\ Awake' = Members(Waiters, pc', "awake")
BY DEF Unblocked, Asleep, Awake, Members

\* Nobody waits for the event at first.
LEMMA AutoInvInit == AutoInit => AutoInv
<1> SUFFICES ASSUME AutoInit PROVE AutoInv
  OBVIOUS
<1> USE DEF AutoInit, WaitInit
<1>1. WaitTypeOK
  BY DEF WaitTypeOK, WaiterPlaces
<1>2. Unblocked = {}
  BY DEF Unblocked
<1>3. OneSignalPerWait
  BY <1>2, FS_EmptySet DEF OneSignalPerWait
<1>4. SignalReachesAWaiter
  BY DEF SignalReachesAWaiter
<1> QED  BY <1>1, <1>3, <1>4 DEF AutoInv

\* Every step of the event keeps both properties: the one that lets a waiter
\* through takes the flag down, and only a waiter that finds the flag down
\* sleeps.
LEMMA AutoInvNext == AutoInv /\ [AutoNext]_waitVars => AutoInv'
<1> SUFFICES ASSUME AutoInv, [AutoNext]_waitVars PROVE AutoInv'
  OBVIOUS
<1> USE EventAssumption
<1>t. WaitTypeOK /\ kind = "auto" /\ OneSignalPerWait /\ SignalReachesAWaiter
  BY DEF AutoInv
<1>f. /\ IsFiniteSet(Unblocked) /\ Cardinality(Unblocked) \in Nat
  BY MembersFinite, WaiterSets
<1>1. CASE AutoSignal
  <2>1. kind' = "auto" /\ signaled' = TRUE /\ signal_id' = signal_id + 1 /\ resets' = resets
    BY <1>1, <1>t DEF AutoSignal
  <2>2. pc' \in [Waiters -> WaiterPlaces] /\ Unblocked' = Unblocked
        /\ (Asleep' # {} => Awake' # {})
    <3>1. CASE Asleep = {}
      BY <1>1, <1>t, <3>1 DEF AutoSignal, NotifyOne, WaitTypeOK, Unblocked, Asleep, Awake
    <3>2. CASE Asleep # {}
      <4>1. PICK w \in Asleep : pc' = [pc EXCEPT ![w] = "awake"]
        BY <1>1, <3>2 DEF AutoSignal, NotifyOne
      <4>2. w \in Waiters /\ pc[w] = "asleep"
        BY <4>1 DEF Asleep
      <4>3. pc' \in [Waiters -> WaiterPlaces] /\ w \in Awake'
        BY <4>1, <4>2, <1>t DEF WaitTypeOK, Awake, WaiterPlaces
      <4>4. Unblocked' = Unblocked
        BY <4>1, <4>2, <1>t DEF WaitTypeOK, Unblocked
      <4> QED  BY <4>3, <4>4
    <3> QED  BY <3>1, <3>2
  <2>3. WaitTypeOK'
    BY <2>1, <2>2, <1>t DEF WaitTypeOK
  <2>4. OneSignalPerWait'
    BY <2>1, <2>2, <1>t, <1>f DEF OneSignalPerWait, WaitTypeOK
  <2>5. SignalReachesAWaiter'
    BY <2>2 DEF SignalReachesAWaiter
  <2> QED  BY <2>1, <2>3, <2>4, <2>5 DEF AutoInv
<1>2. CASE Reset
  <2>1. Unblocked' = Unblocked
    BY <1>2 DEF Reset, Unblocked
  <2>2. OneSignalPerWait'
    BY <2>1, <1>2, <1>t, <1>f DEF Reset, OneSignalPerWait, WaitTypeOK
  <2>a. signaled' \in BOOLEAN /\ pc' \in [Waiters -> WaiterPlaces] /\ kind' = "auto"
    BY <1>2, <1>t, Zenon DEF Reset, WaitTypeOK
  <2>b. signal_id' \in Nat /\ resets' \in Nat
    BY <1>2, <1>t DEF Reset, WaitTypeOK
  <2>3. WaitTypeOK' /\ kind' = "auto"
    BY <2>a, <2>b DEF WaitTypeOK
  <2>4. SignalReachesAWaiter'
    BY <1>2 DEF Reset, SignalReachesAWaiter
  <2> QED  BY <2>2, <2>3, <2>4 DEF AutoInv
<1>3. ASSUME NEW w \in Waiters, AutoCheck(w) PROVE AutoInv'
  <2>1. CASE signaled
    <3>1. /\ pc' = [pc EXCEPT ![w] = "unblocked"] /\ signaled' = FALSE
          /\ pc[w] # "unblocked"
          /\ kind' = kind /\ signal_id' = signal_id /\ resets' = resets
      BY <1>3, <2>1 DEF AutoCheck
    <3>2. WaitTypeOK'
      BY <3>1, <1>t DEF WaitTypeOK, WaiterPlaces
    <3>3. Cardinality(Unblocked') = Cardinality(Unblocked) + 1
      <4>1. Unblocked' = Unblocked \cup {w} /\ w \notin Unblocked
        BY <3>1, <1>t DEF Unblocked, WaitTypeOK
      <4> QED  BY <4>1, <1>f, FS_AddElement
    <3>4. OneSignalPerWait'
      BY <3>1, <3>3, <2>1, <1>t, <1>f DEF OneSignalPerWait, WaitTypeOK
    <3> QED  BY <3>1, <3>2, <3>4, <1>t DEF AutoInv, SignalReachesAWaiter
  <2>2. CASE ~signaled
    <3>1. /\ pc' = [pc EXCEPT ![w] = "asleep"] /\ signaled' = signaled
          /\ pc[w] # "unblocked"
          /\ kind' = kind /\ signal_id' = signal_id /\ resets' = resets
      BY <1>3, <2>2 DEF AutoCheck
    <3>2. WaitTypeOK'
      BY <3>1, <1>t DEF WaitTypeOK, WaiterPlaces
    <3>3. Unblocked' = Unblocked
      BY <3>1, <1>t DEF WaitTypeOK, Unblocked
    <3> QED
      BY <3>1, <3>2, <3>3, <2>2, <1>t
      DEF AutoInv, SignalReachesAWaiter, OneSignalPerWait
  <2> QED  BY <2>1, <2>2
<1>4. ASSUME NEW w \in Waiters, SpuriousWakeUp(w) PROVE AutoInv'
  <2>1. /\ pc' = [pc EXCEPT ![w] = "awake"] /\ pc[w] = "asleep"
        /\ UNCHANGED <<kind, signaled, signal_id, resets>>
    BY <1>4 DEF SpuriousWakeUp
  <2>2. WaitTypeOK'
    BY <2>1, <1>t DEF WaitTypeOK, WaiterPlaces
  <2>3. Unblocked' = Unblocked /\ Awake' # {}
    BY <2>1, <1>t DEF WaitTypeOK, Unblocked, Awake
  <2> QED
    BY <2>1, <2>2, <2>3, <1>t DEF AutoInv, SignalReachesAWaiter, OneSignalPerWait
<1>5. ASSUME NEW w \in Waiters, TimeOut(w) PROVE AutoInv'
  <2>1. /\ pc' = [pc EXCEPT ![w] = "timedout"] /\ pc[w] \in {"asleep", "awake"}
        /\ UNCHANGED <<kind, signaled, signal_id, resets>>
    BY <1>5 DEF TimeOut
  <2>2. WaitTypeOK'
    BY <2>1, <1>t DEF WaitTypeOK, WaiterPlaces
  <2>3. Unblocked' = Unblocked /\ ~NobodyTimedOut'
    BY <2>1, <1>t DEF WaitTypeOK, Unblocked, NobodyTimedOut
  <2> QED
    BY <2>1, <2>2, <2>3, <1>t DEF AutoInv, SignalReachesAWaiter, OneSignalPerWait
<1>6. CASE UNCHANGED waitVars
  BY <1>6, <1>t
  DEF waitVars, AutoInv, WaitTypeOK, OneSignalPerWait, SignalReachesAWaiter,
      Unblocked, Asleep, Awake, NobodyTimedOut
<1> QED  BY <1>1, <1>2, <1>3, <1>4, <1>5, <1>6 DEF AutoNext

\* The inductive invariant of the auto-reset event.
LEMMA AutoInvariant == AutoSpec => []AutoInv
BY AutoInvInit, AutoInvNext, PTL DEF AutoSpec

\* AutoResetWaitableEvent: however Signal, Reset, spurious wake-ups and timeouts
\* interleave, every Wait that returned used up a Signal of its own.
THEOREM AutoOneSignalPerWait == AutoSpec => []OneSignalPerWait
<1>1. AutoInv => OneSignalPerWait
  BY DEF AutoInv
<1> QED  BY <1>1, AutoInvariant, PTL

\* AutoResetWaitableEvent: until a waiter times out, nobody sleeps on a signaled
\* event without a waiter on its way to the signal.
THEOREM AutoSignalReachesAWaiter == AutoSpec => []SignalReachesAWaiter
<1>1. AutoInv => SignalReachesAWaiter
  BY DEF AutoInv
<1> QED  BY <1>1, AutoInvariant, PTL

-----------------------------------------------------------------------------
(* ManualResetWaitableEvent                                                  *)

\* What makes SleepersMissedNothing inductive: a waiter that has not come
\* through started to wait with the flag down, so the flag it finds up was put up
\* by a signal it has not counted.
ManualInv ==
    /\ kind = "manual"
    /\ WaitTypeOK
    /\ last_signal_id \in [Waiters -> Nat]
    /\ \A w \in Waiters : last_signal_id[w] <= signal_id
    /\ \A w \in Waiters :
        (pc[w] = "awake" /\ last_signal_id[w] = signal_id) => ~signaled
    /\ SleepersMissedNothing

\* Nobody waits for the event at first.
LEMMA ManualInvInit == ManualInit => ManualInv
<1> SUFFICES ASSUME ManualInit PROVE ManualInv
  OBVIOUS
<1>1. WaitTypeOK /\ last_signal_id \in [Waiters -> Nat]
  BY DEF ManualInit, WaitInit, WaitTypeOK, WaiterPlaces
<1>2. \A w \in Waiters : pc[w] = "idle" /\ last_signal_id[w] <= signal_id
  BY DEF ManualInit, WaitInit
<1>3. SleepersMissedNothing
  BY <1>2 DEF SleepersMissedNothing, Asleep
<1> QED  BY <1>1, <1>2, <1>3 DEF ManualInit, ManualInv

\* The invariant is inductive.
LEMMA ManualInvNext == ManualInv /\ [ManualNext]_manualVars => ManualInv'
<1> SUFFICES ASSUME ManualInv, [ManualNext]_manualVars PROVE ManualInv'
  OBVIOUS
<1>t. /\ kind = "manual" /\ signaled \in BOOLEAN /\ signal_id \in Nat /\ resets \in Nat
      /\ pc \in [Waiters -> WaiterPlaces] /\ last_signal_id \in [Waiters -> Nat]
      /\ \A w \in Waiters : last_signal_id[w] <= signal_id
      /\ \A w \in Waiters :
            (pc[w] = "awake" /\ last_signal_id[w] = signal_id) => ~signaled
  BY DEF ManualInv, WaitTypeOK
<1>s. \A w \in Waiters :
        pc[w] = "asleep" => ~signaled /\ signal_id = last_signal_id[w]
  BY DEF ManualInv, SleepersMissedNothing, Asleep
<1>q. ASSUME /\ kind' = "manual" /\ signaled' \in BOOLEAN /\ signal_id' \in Nat
             /\ resets' \in Nat
             /\ pc' \in [Waiters -> WaiterPlaces] /\ last_signal_id' \in [Waiters -> Nat],
             \A w \in Waiters : last_signal_id'[w] <= signal_id',
             \A w \in Waiters :
                (pc'[w] \in {"awake", "asleep"} /\ last_signal_id'[w] = signal_id')
                    => ~signaled',
             \A w \in Waiters : pc'[w] = "asleep" => signal_id' = last_signal_id'[w]
      PROVE  ManualInv'
  BY <1>q DEF ManualInv, WaitTypeOK, SleepersMissedNothing, Asleep
<1>1. CASE ManualSignal
  <2>1. /\ kind' = kind /\ last_signal_id' = last_signal_id /\ resets' = resets
        /\ signaled' = TRUE /\ signal_id' = signal_id + 1
        /\ pc' = [w \in Waiters |-> IF pc[w] = "asleep" THEN "awake" ELSE pc[w]]
    BY <1>1 DEF ManualSignal, NotifyAll
  <2>2. pc' \in [Waiters -> WaiterPlaces] /\ \A w \in Waiters : pc'[w] # "asleep"
    BY <2>1, <1>t DEF WaiterPlaces
  <2>3. \A w \in Waiters : last_signal_id'[w] < signal_id'
    BY <2>1, <1>t
  <2>4. \A w \in Waiters : last_signal_id'[w] # signal_id' /\ last_signal_id'[w] <= signal_id'
    BY <2>1, <2>3, <1>t
  <2>5. signal_id' \in Nat
    BY <2>1, <1>t
  <2> QED  BY <2>1, <2>2, <2>4, <2>5, <1>t, <1>q
<1>2. CASE Reset /\ UNCHANGED last_signal_id
  <2>1. /\ kind' = kind /\ last_signal_id' = last_signal_id /\ pc' = pc
        /\ signaled' = FALSE /\ signal_id' = signal_id /\ resets' = resets + 1
    BY <1>2 DEF Reset
  <2>2. resets' \in Nat
    BY <2>1, <1>t
  <2> QED  BY <2>1, <2>2, <1>t, <1>s, <1>q
<1>3. ASSUME NEW w \in Waiters, BeginWait(w) PROVE ManualInv'
  <2>1. /\ kind' = kind /\ signaled' = signaled /\ signal_id' = signal_id
        /\ resets' = resets
        /\ last_signal_id' = [last_signal_id EXCEPT ![w] = signal_id]
        /\ pc' = [pc EXCEPT ![w] = IF signaled THEN "unblocked" ELSE "asleep"]
    BY <1>3 DEF BeginWait
  <2>2. pc' \in [Waiters -> WaiterPlaces] /\ last_signal_id' \in [Waiters -> Nat]
    BY <2>1, <1>t DEF WaiterPlaces
  <2> QED  BY <2>1, <2>2, <1>t, <1>s, <1>q
<1>4. ASSUME NEW w \in Waiters, WakeUp(w) PROVE ManualInv'
  <2>1. /\ kind' = kind /\ signaled' = signaled /\ signal_id' = signal_id
        /\ resets' = resets /\ last_signal_id' = last_signal_id /\ pc[w] = "awake"
        /\ \/ pc' = [pc EXCEPT ![w] = "unblocked"]
           \/ pc' = [pc EXCEPT ![w] = "asleep"] /\ signal_id = last_signal_id[w]
    BY <1>4 DEF WakeUp
  <2>2. pc' \in [Waiters -> WaiterPlaces]
    BY <2>1, <1>t DEF WaiterPlaces
  <2> QED  BY <2>1, <2>2, <1>t, <1>s, <1>q
<1>5. ASSUME NEW w \in Waiters, SpuriousWakeUp(w), UNCHANGED last_signal_id PROVE ManualInv'
  <2>1. pc' \in [Waiters -> WaiterPlaces]
    BY <1>5, <1>t DEF SpuriousWakeUp, WaiterPlaces
  <2> QED  BY <1>5, <2>1, <1>t, <1>s, <1>q DEF SpuriousWakeUp
<1>6. ASSUME NEW w \in Waiters, TimeOut(w), UNCHANGED last_signal_id PROVE ManualInv'
  <2>1. pc' \in [Waiters -> WaiterPlaces]
    BY <1>6, <1>t DEF TimeOut, WaiterPlaces
  <2> QED  BY <1>6, <2>1, <1>t, <1>s, <1>q DEF TimeOut
<1>7. CASE UNCHANGED manualVars
  BY <1>7, <1>t, <1>s, <1>q DEF manualVars, waitVars
<1> QED  BY <1>1, <1>2, <1>3, <1>4, <1>5, <1>6, <1>7 DEF ManualNext

\* ManualResetWaitableEvent: whoever sleeps has missed no signal, not even one
\* that was taken back by a Reset at once.
THEOREM ManualSleepersMissedNothing == ManualSpec => []SleepersMissedNothing
<1>1. ManualInv => SleepersMissedNothing
  BY DEF ManualInv
<1> QED  BY <1>1, ManualInvInit, ManualInvNext, PTL DEF ManualSpec

-----------------------------------------------------------------------------
(* CountDownLatch                                                            *)

\* What makes NobodyPassesEarly inductive.  count_ is the number of threads that
\* have not decremented it.  One thread at most finds zero, and it has yet to
\* signal; once the event was signaled every thread is done.  A waiter that has
\* not come through began to wait before the signal.
LatchInv ==
    /\ kind = "latch"
    /\ WaitTypeOK
    /\ last_signal_id \in [Waiters -> Nat]
    /\ cpc \in [Counters -> {"idle", "signal", "done"}]
    /\ count = Cardinality(Members(Counters, cpc, "idle"))
    /\ \A c, d \in Counters : cpc[c] = "signal" =>
            /\ d # c => cpc[d] = "done"
            /\ ~signaled
    /\ signaled <=> signal_id # 0
    /\ signaled => \A c \in Counters : cpc[c] = "done"
    /\ \A w \in Waiters :
        /\ pc[w] \in {"asleep", "awake"} => last_signal_id[w] = 0
        /\ pc[w] = "unblocked" => signaled

\* No thread is left to decrement exactly when the count is zero.
LEMMA CountIsZero ==
    ASSUME NEW f
    PROVE  /\ Cardinality(Members(Counters, f, "idle")) \in Nat
           /\ Cardinality(Members(Counters, f, "idle")) = 0
                <=> \A c \in Counters : f[c] # "idle"
<1>1. IsFiniteSet(Members(Counters, f, "idle"))
      /\ Cardinality(Members(Counters, f, "idle")) \in Nat
  BY MembersFinite, CountersAssumption
<1>2. Members(Counters, f, "idle") = {} <=> \A c \in Counters : f[c] # "idle"
  BY DEF Members
<1> QED  BY <1>1, <1>2, FS_EmptySet

\* Nobody waits for the latch at first.
LEMMA LatchInvInit == LatchInit => LatchInv
<1> SUFFICES ASSUME LatchInit PROVE LatchInv
  OBVIOUS
<1>1. WaitTypeOK
  <2>1. signaled \in BOOLEAN /\ signal_id \in Nat /\ resets \in Nat
    BY DEF LatchInit
  <2>2. pc \in [Waiters -> WaiterPlaces]
    BY DEF LatchInit, WaiterPlaces
  <2> QED  BY <2>1, <2>2 DEF WaitTypeOK
<1>2. /\ last_signal_id \in [Waiters -> Nat]
      /\ cpc \in [Counters -> {"idle", "signal", "done"}]
  BY DEF LatchInit
<1>3. Members(Counters, cpc, "idle") = Counters
  BY DEF LatchInit, Members
<1>4. /\ \A c \in Counters : cpc[c] = "idle"
      /\ \A w \in Waiters : pc[w] = "idle"
  BY DEF LatchInit
<1>s. signaled <=> Counters = {}
  BY Zenon DEF LatchInit
<1>i. signaled <=> signal_id # 0
  <2>1. CASE Counters = {}
    BY <1>s, <2>1 DEF LatchInit
  <2>2. CASE Counters # {}
    BY <1>s, <2>2 DEF LatchInit
  <2> QED  BY <2>1, <2>2
<1>5. \A c, d \in Counters : cpc[c] = "signal" => (d # c => cpc[d] = "done") /\ ~signaled
  BY <1>4
<1>6. signaled => \A c \in Counters : cpc[c] = "done"
  BY <1>s
<1>7. \A w \in Waiters :
        /\ pc[w] \in {"asleep", "awake"} => last_signal_id[w] = 0
        /\ pc[w] = "unblocked" => signaled
  BY <1>4
<1>8. kind = "latch" /\ count = Cardinality(Counters)
  BY DEF LatchInit
<1> QED  BY <1>1, <1>2, <1>3, <1>i, <1>5, <1>6, <1>7, <1>8 DEF LatchInv

\* Every step of a latch keeps LatchInv.
LEMMA LatchInvNext == LatchInv /\ [LatchNext]_latchVars => LatchInv'
<1> SUFFICES ASSUME LatchInv, [LatchNext]_latchVars PROVE LatchInv'
  OBVIOUS
<1>t. /\ kind = "latch" /\ WaitTypeOK /\ last_signal_id \in [Waiters -> Nat]
      /\ cpc \in [Counters -> {"idle", "signal", "done"}]
      /\ signal_id \in Nat /\ pc \in [Waiters -> WaiterPlaces]
  BY DEF LatchInv, WaitTypeOK
<1>n. /\ count = Cardinality(Members(Counters, cpc, "idle"))
      /\ count \in Nat /\ (count = 0 <=> \A c \in Counters : cpc[c] # "idle")
  BY CountIsZero DEF LatchInv
<1>c. /\ \A c, d \in Counters : cpc[c] = "signal" =>
            (d # c => cpc[d] = "done") /\ ~signaled
      /\ signaled <=> signal_id # 0
      /\ signaled => \A c \in Counters : cpc[c] = "done"
  BY DEF LatchInv
<1>w. \A w \in Waiters :
        /\ pc[w] \in {"asleep", "awake"} => last_signal_id[w] = 0
        /\ pc[w] = "unblocked" => signaled
  BY DEF LatchInv
<1>a. ASSUME UNCHANGED <<kind, signaled, signal_id, resets, count, cpc>>,
             pc' \in [Waiters -> WaiterPlaces],
             last_signal_id' \in [Waiters -> Nat],
             \A w \in Waiters :
                /\ pc'[w] \in {"asleep", "awake"} => last_signal_id'[w] = 0
                /\ pc'[w] = "unblocked" => signaled
      PROVE  LatchInv'
  <2>1. WaitTypeOK'
    BY <1>a, <1>t DEF WaitTypeOK
  <2> QED  BY <1>a, <2>1, <1>t, <1>n, <1>c DEF LatchInv
<1>1. ASSUME NEW c \in Counters, Decrement(c) PROVE LatchInv'
  <2> DEFINE p == IF count' = 0 THEN "signal" ELSE "done"
  <2>1. /\ cpc[c] = "idle" /\ count' = count - 1 /\ cpc' = [cpc EXCEPT ![c] = p]
        /\ UNCHANGED <<kind, signaled, signal_id, pc, resets, last_signal_id>>
    BY <1>1 DEF Decrement, manualVars, waitVars
  <2>2. p \in {"signal", "done"} /\ DOMAIN cpc = Counters
    BY <1>t
  <2> HIDE DEF p
  <2>3. cpc' \in [Counters -> {"idle", "signal", "done"}]
    BY <2>1, <2>2, <1>t
  <2>4. count' = Cardinality(Members(Counters, cpc', "idle"))
    <3>1. /\ Members(Counters, cpc', "idle") = Members(Counters, cpc, "idle") \ {c}
          /\ c \in Members(Counters, cpc, "idle")
      BY <2>1, <2>2 DEF Members
    <3>2. Cardinality(Members(Counters, cpc', "idle"))
            = Cardinality(Members(Counters, cpc, "idle")) - 1
      BY <3>1, MembersFinite, CountersAssumption, FS_RemoveElement
    <3> QED  BY <3>2, <2>1, <1>n
  <2>5. ~signaled
    BY <2>1, <1>c
  <2>6. \A d \in Counters : cpc[d] # "signal"
    BY <2>1, <1>c
  <2>7. p = "signal" => \A d \in Counters : d # c => cpc'[d] = "done"
    <3>1. SUFFICES ASSUME p = "signal", NEW d \in Counters, d # c PROVE cpc'[d] = "done"
      OBVIOUS
    <3>2. count' = 0
      BY <3>1 DEF p
    <3>3. cpc'[d] # "idle"
      BY <3>2, <2>4, CountIsZero
    <3>4. cpc'[d] = cpc[d] /\ cpc[d] \in {"idle", "signal", "done"}
      BY <3>1, <2>1, <2>2, <1>t
    <3> QED  BY <3>3, <3>4, <2>6
  <2>8. \A d, e \in Counters : cpc'[d] = "signal" =>
            (e # d => cpc'[e] = "done") /\ ~signaled'
    BY <2>1, <2>5, <2>6, <2>7, <1>t
  <2>9. WaitTypeOK'
    BY <2>1, <1>t DEF WaitTypeOK
  <2> QED  BY <2>1, <2>3, <2>4, <2>5, <2>8, <2>9, <1>t, <1>c, <1>w DEF LatchInv
<1>2. ASSUME NEW c \in Counters, SignalZero(c) PROVE LatchInv'
  <2>1. /\ cpc[c] = "signal" /\ cpc' = [cpc EXCEPT ![c] = "done"]
        /\ UNCHANGED <<kind, count, resets, last_signal_id>>
        /\ signaled' = TRUE /\ signal_id' = signal_id + 1
        /\ pc' = [w \in Waiters |-> IF pc[w] = "asleep" THEN "awake" ELSE pc[w]]
    BY <1>2 DEF SignalZero, ManualSignal, NotifyAll
  <2>2. \A d \in Counters : cpc'[d] = "done"
    BY <2>1, <1>c, <1>t
  <2>3. cpc' \in [Counters -> {"idle", "signal", "done"}]
    BY <2>1, <1>t
  <2>4. Members(Counters, cpc', "idle") = Members(Counters, cpc, "idle")
    BY <2>1, <1>t DEF Members
  <2>5. pc' \in [Waiters -> WaiterPlaces] /\ \A w \in Waiters : pc'[w] = "awake" =>
            pc[w] \in {"asleep", "awake"}
    BY <2>1, <1>t DEF WaiterPlaces
  <2>6. \A w \in Waiters : pc'[w] # "asleep"
    BY <2>1, <1>t
  <2>7. WaitTypeOK' /\ signal_id' # 0
    <3>1. signal_id' \in Nat /\ signal_id' # 0
      BY <2>1, <1>t
    <3>2. signaled' \in BOOLEAN /\ resets' \in Nat
      BY <2>1, <1>t DEF WaitTypeOK
    <3> QED  BY <3>1, <3>2, <2>5 DEF WaitTypeOK
  <2>8. \A w \in Waiters : pc'[w] \in {"asleep", "awake"} => last_signal_id'[w] = 0
    BY <2>1, <2>5, <2>6, <1>w
  <2> QED  BY <2>1, <2>2, <2>3, <2>4, <2>7, <2>8, <1>t, <1>n DEF LatchInv
<1>3. ASSUME NEW w \in Waiters, BeginWait(w), UNCHANGED <<count, cpc>> PROVE LatchInv'
  <2>1. /\ pc[w] = "idle"
        /\ last_signal_id' = [last_signal_id EXCEPT ![w] = signal_id]
        /\ pc' = [pc EXCEPT ![w] = IF signaled THEN "unblocked" ELSE "asleep"]
        /\ UNCHANGED <<kind, signaled, signal_id, resets>>
    BY <1>3 DEF BeginWait
  <2>2. pc' \in [Waiters -> WaiterPlaces] /\ last_signal_id' \in [Waiters -> Nat]
    BY <2>1, <1>t DEF WaiterPlaces
  <2>3. \A v \in Waiters :
            /\ pc'[v] \in {"asleep", "awake"} => last_signal_id'[v] = 0
            /\ pc'[v] = "unblocked" => signaled
    BY <2>1, <1>t, <1>c, <1>w
  <2> QED  BY <1>3, <2>1, <2>2, <2>3, <1>a
<1>4. ASSUME NEW w \in Waiters, WakeUp(w), UNCHANGED <<count, cpc>> PROVE LatchInv'
  <2>1. /\ pc[w] = "awake"
        /\ \/ pc' = [pc EXCEPT ![w] = "asleep"]
           \/ /\ pc' = [pc EXCEPT ![w] = "unblocked"]
              /\ signal_id # last_signal_id[w] \/ signaled
        /\ UNCHANGED <<kind, signaled, signal_id, resets, last_signal_id>>
    BY <1>4 DEF WakeUp
  <2>2. pc' \in [Waiters -> WaiterPlaces]
    BY <2>1, <1>t DEF WaiterPlaces
  <2>3. \A v \in Waiters :
            /\ pc'[v] \in {"asleep", "awake"} => last_signal_id'[v] = 0
            /\ pc'[v] = "unblocked" => signaled
    BY <2>1, <1>t, <1>c, <1>w
  <2> QED  BY <1>4, <2>1, <2>2, <2>3, <1>a, <1>t
<1>5. ASSUME NEW w \in Waiters, SpuriousWakeUp(w),
             UNCHANGED <<last_signal_id, count, cpc>>
      PROVE  LatchInv'
  <2>1. /\ pc[w] = "asleep" /\ pc' = [pc EXCEPT ![w] = "awake"]
        /\ UNCHANGED <<kind, signaled, signal_id, resets>>
    BY <1>5 DEF SpuriousWakeUp
  <2>2. pc' \in [Waiters -> WaiterPlaces]
    BY <2>1, <1>t DEF WaiterPlaces
  <2>3. \A v \in Waiters :
            /\ pc'[v] \in {"asleep", "awake"} => last_signal_id'[v] = 0
            /\ pc'[v] = "unblocked" => signaled
    BY <1>5, <2>1, <1>t, <1>c, <1>w
  <2> QED  BY <1>5, <2>1, <2>2, <2>3, <1>a, <1>t
<1>6. CASE UNCHANGED latchVars
  BY <1>6, <1>a, <1>t, <1>w DEF latchVars, manualVars, waitVars
<1> QED  BY <1>1, <1>2, <1>3, <1>4, <1>5, <1>6 DEF LatchNext, CountDown, Await

\* CountDownLatch: nobody passes before the last thread has counted down and
\* signaled, however the decrements and the signal interleave with the waits.
THEOREM LatchNobodyPassesEarly == LatchSpec => []NobodyPassesEarly
<1>1. LatchInv => NobodyPassesEarly
  <2> SUFFICES ASSUME LatchInv, Unblocked # {}
               PROVE  count = 0 /\ \A c \in Counters : cpc[c] = "done"
    BY DEF NobodyPassesEarly
  <2>1. signaled
    BY DEF LatchInv, Unblocked
  <2>2. \A c \in Counters : cpc[c] = "done"
    BY <2>1 DEF LatchInv
  <2> QED  BY <2>2, CountIsZero DEF LatchInv
<1> QED  BY <1>1, LatchInvInit, LatchInvNext, PTL DEF LatchSpec

-----------------------------------------------------------------------------
(* Semaphore                                                                 *)

\* The threads that wait or try, and where they can be.
SemThreads == SemWaiters \cup SemTriers
SemPlaces == {"idle", "asleep", "awake", "passed", "failed"}

\* The inductive invariant of the semaphore.
SemInv ==
    /\ valid \in BOOLEAN
    /\ sem \in Nat
    /\ posts \in Nat
    /\ spc \in [SemThreads -> SemPlaces]
    /\ At("asleep") \cup At("awake") \subseteq SemWaiters
    /\ SemaphoreCounts

\* Nobody waits for the semaphore at first.
LEMMA SemInvInit == SemInit => SemInv
<1> SUFFICES ASSUME SemInit PROVE SemInv
  OBVIOUS
<1>1. /\ sem \in Nat /\ posts \in Nat /\ valid \in BOOLEAN
      /\ sem = StartCount + posts
  BY SemaphoreAssumption DEF SemInit
<1>2. spc \in [SemThreads -> SemPlaces]
  BY DEF SemInit, SemThreads, SemPlaces
<1>3. At("passed") = {} /\ At("asleep") = {} /\ At("awake") = {} /\ At("failed") = {}
  BY DEF SemInit, At
<1>4. SemaphoreCounts
  BY <1>1, <1>3, FS_EmptySet, SemaphoreAssumption DEF SemaphoreCounts
<1> QED  BY <1>1, <1>2, <1>3, <1>4 DEF SemInv

\* A thread goes from one place to another.
SemMoves(t, place) ==
    /\ t \in SemThreads /\ spc[t] # place
    /\ spc' = [spc EXCEPT ![t] = place]

\* What a step of one thread does to the places.
LEMMA SemPlacesChange ==
    ASSUME spc \in [SemThreads -> SemPlaces], NEW t, NEW place \in SemPlaces,
           SemMoves(t, place)
    PROVE  /\ spc' \in [SemThreads -> SemPlaces]
           /\ t \notin At(place) /\ At(place)' = At(place) \cup {t}
           /\ \A q : q = spc[t] => t \in At(q) /\ At(q)' = At(q) \ {t}
           /\ \A q : q # place /\ q # spc[t] => At(q)' = At(q)
<1>1. spc' \in [SemThreads -> SemPlaces]
  BY DEF SemMoves
<1>2. t \notin At(place) /\ At(place)' = At(place) \cup {t}
  BY DEF SemMoves, At, SemThreads
<1>3. \A q : q = spc[t] => t \in At(q) /\ At(q)' = At(q) \ {t}
  BY DEF SemMoves, At, SemThreads
<1>4. \A q : q # place /\ q # spc[t] => At(q)' = At(q)
  BY DEF SemMoves, At, SemThreads
<1> QED  BY <1>1, <1>2, <1>3, <1>4

\* The threads at a place can be counted.
LEMMA AtFinite ==
    ASSUME NEW place
    PROVE  IsFiniteSet(At(place)) /\ Cardinality(At(place)) \in Nat
<1>1. IsFiniteSet(SemWaiters \cup SemTriers)
  BY FS_Union, SemaphoreAssumption
<1>2. IsFiniteSet(At(place))
  BY <1>1, FS_Subset DEF At
<1> QED  BY <1>2, FS_CardinalityType

\* Every step of a thread, and every Signal, keeps the books of the semaphore.
LEMMA SemInvNext == SemInv /\ [SemNext]_semVars => SemInv'
<1> SUFFICES ASSUME SemInv, [SemNext]_semVars PROVE SemInv'
  OBVIOUS
<1>t. /\ valid \in BOOLEAN /\ sem \in Nat /\ posts \in Nat /\ StartCount \in Nat
      /\ spc \in [SemThreads -> SemPlaces]
      /\ At("asleep") \cup At("awake") \subseteq SemWaiters
  BY SemaphoreAssumption DEF SemInv
<1>v. valid => /\ sem + Cardinality(At("passed")) = StartCount + posts
               /\ At("failed") \subseteq SemTriers
               /\ Cardinality(At("awake")) < sem => At("asleep") = {}
  BY DEF SemInv, SemaphoreCounts
<1>i. ~valid => At("passed") = {} /\ At("asleep") = {}
  BY DEF SemInv, SemaphoreCounts
<1>c. /\ IsFiniteSet(At("passed")) /\ Cardinality(At("passed")) \in Nat
      /\ IsFiniteSet(At("awake")) /\ Cardinality(At("awake")) \in Nat
  BY AtFinite
<1>d. SemWaiters \subseteq SemThreads /\ SemTriers \subseteq SemThreads
      /\ SemWaiters \cap SemTriers = {}
  BY SemaphoreAssumption DEF SemThreads
\* A thread passes.
<1>1. ASSUME NEW t \in SemThreads, valid, sem > 0, spc[t] \in {"idle", "awake"},
             GoTo(t, "passed"), sem' = sem - 1
      PROVE  SemInv'
  <2>1. valid' = valid /\ posts' = posts /\ SemMoves(t, "passed")
    BY <1>1 DEF GoTo, SemMoves
  <2>2. /\ spc' \in [SemThreads -> SemPlaces]
        /\ At("passed")' = At("passed") \cup {t} /\ t \notin At("passed")
        /\ At("asleep")' = At("asleep") /\ At("failed")' = At("failed")
    BY <2>1, <1>1, <1>t, SemPlacesChange DEF SemPlaces
  <2>3. Cardinality(At("passed")') = Cardinality(At("passed")) + 1
    BY <2>2, <1>c, FS_AddElement
  <2>4. \/ At("awake")' = At("awake")
        \/ At("awake")' = At("awake") \ {t} /\ t \in At("awake")
    BY <2>1, <1>1, <1>t, SemPlacesChange DEF SemPlaces
  <2>5. Cardinality(At("awake")') \in {Cardinality(At("awake")), Cardinality(At("awake")) - 1}
    BY <2>4, <1>c, FS_RemoveElement
  <2>6. /\ sem' \in Nat /\ sem' + Cardinality(At("passed")') = StartCount + posts'
        /\ Cardinality(At("awake")') < sem' => Cardinality(At("awake")) < sem
    BY <2>1, <2>3, <2>5, <1>1, <1>t, <1>v, <1>c
  <2>7. SemaphoreCounts'
    BY <2>1, <2>2, <2>6, <1>1, <1>v DEF SemaphoreCounts
  <2>8. At("asleep")' \cup At("awake")' \subseteq SemWaiters
    BY <2>2, <2>4, <1>t
  <2> QED  BY <2>1, <2>2, <2>6, <2>7, <2>8, <1>t DEF SemInv
\* A thread fails.
<1>2. ASSUME NEW t \in SemThreads, spc[t] \in {"idle", "awake"},
             valid => t \in SemTriers /\ spc[t] = "idle",
             GoTo(t, "failed"), sem' = sem
      PROVE  SemInv'
  <2>1. valid' = valid /\ posts' = posts /\ SemMoves(t, "failed")
    BY <1>2 DEF GoTo, SemMoves
  <2>2. /\ spc' \in [SemThreads -> SemPlaces]
        /\ At("failed")' = At("failed") \cup {t}
        /\ At("asleep")' = At("asleep") /\ At("passed")' = At("passed")
    BY <2>1, <1>2, <1>t, SemPlacesChange DEF SemPlaces
  <2>3. At("awake")' \subseteq At("awake") /\ (valid => At("awake")' = At("awake"))
    <3>1. "failed" \in SemPlaces /\ spc \in [SemThreads -> SemPlaces]
      BY <1>t DEF SemPlaces
    <3>2. CASE spc[t] = "awake"
      <4>1. At("awake")' = At("awake") \ {t}
        BY <2>1, <3>1, <3>2, SemPlacesChange
      <4>2. QED
        BY <1>2, <3>2, <4>1
    <3>3. CASE spc[t] # "awake"
      <4>1. At("awake")' = At("awake")
        BY <2>1, <3>1, <3>3, SemPlacesChange
      <4>2. QED
        BY <4>1
    <3>4. QED
      BY <3>2, <3>3
  <2>4. SemaphoreCounts'
    BY <2>1, <2>2, <2>3, <1>2, <1>v, <1>i DEF SemaphoreCounts
  <2> QED  BY <2>1, <2>2, <2>3, <2>4, <1>2, <1>t DEF SemInv
\* A waiter sleeps.
<1>3. ASSUME NEW t \in SemWaiters, valid, sem = 0, spc[t] \in {"idle", "awake"},
             GoTo(t, "asleep"), sem' = sem
      PROVE  SemInv'
  <2>1. valid' = valid /\ posts' = posts /\ SemMoves(t, "asleep")
    BY <1>3, <1>d DEF GoTo, SemMoves
  <2>2. /\ spc' \in [SemThreads -> SemPlaces]
        /\ At("asleep")' = At("asleep") \cup {t}
        /\ At("failed")' = At("failed") /\ At("passed")' = At("passed")
    BY <2>1, <1>3, <1>t, SemPlacesChange DEF SemPlaces
  <2>3. At("awake")' \subseteq At("awake")
    <3>1. "asleep" \in SemPlaces /\ spc \in [SemThreads -> SemPlaces]
      BY <1>t DEF SemPlaces
    <3>2. /\ "failed" # "asleep" /\ "failed" # spc[t]
          /\ "passed" # "asleep" /\ "passed" # spc[t]
      BY <1>3
    <3>3. QED
      BY <2>1, <3>1, <3>2, SemPlacesChange, Zenon
  <2>4. ~(Cardinality(At("awake")') < 0)
    <3>1. IsFiniteSet(At("awake")')
      BY <2>3, <1>c, FS_Subset
    <3>2. Cardinality(At("awake")') \in Nat
      BY <3>1, FS_CardinalityType
    <3> QED  BY <3>2
  <2>5. SemaphoreCounts'
    BY <2>1, <2>2, <2>4, <1>3, <1>v DEF SemaphoreCounts
  <2> QED  BY <2>1, <2>2, <2>3, <2>5, <1>3, <1>t DEF SemInv
\* A sleeper is woken, with or without a Signal.
<1>4. ASSUME NEW t, spc[t] = "asleep", t \in SemThreads,
             spc' = [spc EXCEPT ![t] = "awake"], valid' = valid,
             \/ sem' = sem /\ posts' = posts
             \/ valid /\ sem' = sem + 1 /\ posts' = posts + 1
      PROVE  SemInv'
  <2>1. SemMoves(t, "awake")
    BY <1>4 DEF SemMoves
  <2>2. /\ spc' \in [SemThreads -> SemPlaces]
        /\ At("awake")' = At("awake") \cup {t} /\ t \notin At("awake")
        /\ At("failed")' = At("failed") /\ At("passed")' = At("passed")
        /\ At("asleep")' = At("asleep") \ {t} /\ t \in At("asleep")
    BY <2>1, <1>4, <1>t, SemPlacesChange DEF SemPlaces
  <2>3. Cardinality(At("awake")') = Cardinality(At("awake")) + 1
    BY <2>2, <1>c, FS_AddElement
  <2>4. valid
    BY <2>2, <1>i
  <2>5. ~(Cardinality(At("awake")) < sem)
    BY <2>2, <2>4, <1>v
  <2>6. /\ sem' \in Nat /\ posts' \in Nat
        /\ sem' + Cardinality(At("passed")') = StartCount + posts'
        /\ ~(Cardinality(At("awake")') < sem')
    BY <2>2, <2>3, <2>4, <2>5, <1>4, <1>t, <1>v, <1>c
  <2>7. SemaphoreCounts'
    BY <2>2, <2>4, <2>6, <1>4, <1>v DEF SemaphoreCounts
  <2> QED  BY <2>2, <2>6, <2>7, <1>4, <1>t DEF SemInv
\* A Signal finds nobody asleep.
<1>5. ASSUME valid' = valid, posts' = posts + 1, spc' = spc,
             sem' = IF valid THEN sem + 1 ELSE sem, valid => At("asleep") = {}
      PROVE  SemInv'
  <2>1. \A q : At(q)' = At(q)
    BY <1>5 DEF At
  <2>2. sem' \in Nat /\ posts' \in Nat
        /\ (valid => sem' + Cardinality(At("passed")) = StartCount + posts')
    BY <1>5, <1>t, <1>v, <1>c
  <2>3. SemaphoreCounts'
    BY <2>1, <2>2, <1>5, <1>v, <1>i DEF SemaphoreCounts
  <2> QED  BY <2>1, <2>2, <2>3, <1>5, <1>t DEF SemInv
<1>6. ASSUME NEW t \in SemWaiters, Wait(t) PROVE SemInv'
  BY <1>6, <1>1, <1>2, <1>3, <1>d DEF Wait
<1>7. ASSUME NEW t \in SemWaiters, Interrupt(t) PROVE SemInv'
  BY <1>7, <1>4, <1>d DEF Interrupt, GoTo
<1>8. ASSUME NEW t \in SemTriers, TryWait(t) PROVE SemInv'
  BY <1>8, <1>1, <1>2, <1>d DEF TryWait
<1>9. CASE Signal
  <2>1. CASE valid /\ At("asleep") # {}
    <3>1. PICK t \in At("asleep") : spc' = [spc EXCEPT ![t] = "awake"]
      BY <1>9, <2>1 DEF Signal
    <3>2. t \in SemThreads /\ spc[t] = "asleep"
      BY <3>1 DEF At, SemThreads
    <3> QED  BY <3>1, <3>2, <2>1, <1>9, <1>4 DEF Signal
  <2>2. CASE ~(valid /\ At("asleep") # {})
    BY <2>2, <1>9, <1>5 DEF Signal
  <2> QED  BY <2>1, <2>2
<1>10. CASE UNCHANGED semVars
  BY <1>10 DEF semVars, SemInv, SemaphoreCounts, At
<1> QED  BY <1>6, <1>7, <1>8, <1>9, <1>10 DEF SemNext

\* Semaphore: no Signal is lost or used twice, however often a wait is
\* interrupted, and nobody sleeps on a count that is there to be taken.
THEOREM SemaphoreIsCounted == SemSpec => []SemaphoreCounts
<1>1. SemInv => SemaphoreCounts
  BY DEF SemInv
<1> QED  BY <1>1, SemInvInit, SemInvNext, PTL DEF SemSpec

-----------------------------------------------------------------------------
(* SyncSwitch                                                                *)

\* Whoever runs a handler holds the shared lock, and nobody has the exclusive
\* lock while somebody holds the shared one.
SwitchInv ==
    /\ value \in BOOLEAN
    /\ handler \in [Executors -> {"none", "true_handler", "false_handler"}]
    /\ \A t \in Executors : handler[t] # "none" => t \in shared
    /\ shared # {} => exclusive = {}
    /\ SwitchHolds

\* Nobody holds the switch at first.
LEMMA SwitchInvInit == SwitchInit => SwitchInv
BY DEF SwitchInit, SwitchInv, SwitchHolds

\* The invariant is inductive.
LEMMA SwitchInvNext == SwitchInv /\ [SwitchNext]_switchVars => SwitchInv'
<1> SUFFICES ASSUME SwitchInv, [SwitchNext]_switchVars PROVE SwitchInv'
  OBVIOUS
<1> USE DEF SwitchInv, SwitchHolds
<1>1. ASSUME NEW t \in Executors, BeginExecute(t) PROVE SwitchInv'
  BY <1>1 DEF BeginExecute, LockShared
<1>2. ASSUME NEW t \in Executors, ChooseHandler(t) PROVE SwitchInv'
  BY <1>2 DEF ChooseHandler
<1>3. ASSUME NEW t \in Executors, HandlerReturns(t) PROVE SwitchInv'
  BY <1>3 DEF HandlerReturns, UnlockShared
<1>4. ASSUME NEW t \in Setters, BeginSetSwitch(t) PROVE SwitchInv'
  BY <1>4 DEF BeginSetSwitch, LockExclusive
<1>5. ASSUME NEW t \in Setters, NEW v \in BOOLEAN, EndSetSwitch(t, v) PROVE SwitchInv'
  <2>1. shared = {}
    BY <1>5 DEF EndSetSwitch
  <2> QED  BY <2>1, <1>5 DEF EndSetSwitch, Unlock
<1>6. CASE UNCHANGED switchVars
  BY <1>6 DEF switchVars
<1> QED  BY <1>1, <1>2, <1>3, <1>4, <1>5, <1>6 DEF SwitchNext

\* SyncSwitch: while a handler runs, the switch keeps the value the handler was
\* chosen for, and nobody is setting it.
THEOREM SwitchIsHeld == SwitchSpec => []SwitchHolds
<1>1. SwitchInv => SwitchHolds
  BY DEF SwitchInv
<1> QED  BY <1>1, SwitchInvInit, SwitchInvNext, PTL DEF SwitchSpec

-----------------------------------------------------------------------------
(* QtThread                                                                  *)

\* The lists are sequences, and the copy is empty unless the thread runs it.
QtInv ==
    /\ m_pendingRunnables \in Seq(Runnables)
    /\ pendingRunnables \in Seq(Runnables)
    /\ qran \in Seq(Runnables)
    /\ qpc # "run" => pendingRunnables = <<>>
    /\ QtInOrder

\* The clients are well formed.
ClientTypes ==
    client \in [QtClients -> [at : {"idle", "acquire", "exit", "join"},
                              for : Runnables \cup {NoRunnable}]]

\* Only what was added and has run is released, and what is waited for was added.
OnlyAdded ==
    /\ \A r \in released : In(r, qran)
    /\ \A c \in QtClients : client[c].at = "acquire" => In(client[c].for, handed)

\* No two clients wait for the same Runnable.
OneWaiter ==
    \A b, c \in QtClients :
        client[b].at = "acquire" /\ client[c].at = "acquire" /\ client[b].for = client[c].for
            => b = c

\* The inductive invariant.
QtAllInv == QtInv /\ ClientTypes /\ OnlyAdded /\ OneWaiter /\ QtRunWaits

\* The first element of a sequence moves to the end of the one before it.
LEMMA MoveFirst ==
  ASSUME NEW S, NEW a \in Seq(S), NEW b \in Seq(S), b # <<>>
  PROVE  /\ Append(a, Head(b)) \o Tail(b) = a \o b
         /\ Append(a, Head(b)) \in Seq(S) /\ Tail(b) \in Seq(S)
  OBVIOUS

\* The elements of a sequence that grew.
LEMMA InAppend ==
  ASSUME NEW S, NEW s \in Seq(S), NEW x \in S, NEW r
  PROVE  In(r, Append(s, x)) <=> In(r, s) \/ r = x
<1>1. /\ DOMAIN s = 1 .. Len(s) /\ DOMAIN Append(s, x) = 1 .. Len(s) + 1 /\ Len(s) \in Nat
      /\ \A i \in 1 .. Len(s) : Append(s, x)[i] = s[i]
      /\ Append(s, x)[Len(s) + 1] = x
  OBVIOUS
<1>2. QED
  BY <1>1 DEF In

\* The elements of the first of three sequences are elements of them all.
LEMMA InFirst ==
  ASSUME NEW S, NEW a \in Seq(S), NEW b \in Seq(S), NEW c \in Seq(S), NEW r, In(r, a)
  PROVE  In(r, a \o b \o c)
<1>1. PICK i \in DOMAIN a : a[i] = r
  BY DEF In
<1>2. i \in DOMAIN (a \o b \o c) /\ (a \o b \o c)[i] = a[i]
  OBVIOUS
<1>3. QED
  BY <1>1, <1>2 DEF In

\* What was added is what has run and what is pending.
LEMMA QtHanded == QtInv => handed \in Seq(Runnables) /\ \A r : In(r, qran) => In(r, handed)
  BY InFirst DEF QtInv, QtInOrder

\* The order of the Runnables survives every step.
LEMMA QtInvNext == QtInv /\ [QtNext]_qtVars => QtInv'
<1> SUFFICES ASSUME QtInv, [QtNext]_qtVars PROVE QtInv'
  OBVIOUS
<1>1. ASSUME NEW c \in QtClients, NEW r \in Runnables, AddRunnable(c, r) PROVE QtInv'
  <2>1. m_pendingRunnables' \in Seq(Runnables)
    BY <1>1 DEF QtInv, AddRunnable
  <2>2. handed' = qran \o pendingRunnables \o m_pendingRunnables'
    <3> DEFINE a == qran \o pendingRunnables
    <3>1. /\ a \in Seq(Runnables) /\ m_pendingRunnables \in Seq(Runnables)
          /\ handed = a \o m_pendingRunnables
      BY DEF QtInv, QtInOrder
    <3>2. handed' = Append(handed, r) /\ m_pendingRunnables' = Append(m_pendingRunnables, r)
      BY <1>1 DEF AddRunnable
    <3> HIDE DEF a
    <3>3. Append(a \o m_pendingRunnables, r) = a \o Append(m_pendingRunnables, r)
      <4>1. a \in Seq(Runnables) /\ m_pendingRunnables \in Seq(Runnables) /\ r \in Runnables
        BY <1>1, <3>1
      <4>2. QED
        BY <4>1, SMTT(30)
    <3>4. handed' = a \o Append(m_pendingRunnables, r)
      BY <3>1, <3>2, <3>3
    <3>5. handed' = a \o m_pendingRunnables'
      BY <3>2, <3>4
    <3>6. QED
      BY <3>5 DEF a
  <2>3. qpc' = "run" <=> qpc = "run"
    BY <1>1 DEF AddRunnable, NotifyQt
  <2>4. UNCHANGED <<qran, pendingRunnables>>
    BY <1>1 DEF AddRunnable
  <2>5. QED
    BY <2>1, <2>2, <2>3, <2>4 DEF QtInv, QtInOrder
<1>2. CASE TakeRunnables
  <2>1. /\ pendingRunnables = <<>> /\ pendingRunnables' = m_pendingRunnables
        /\ m_pendingRunnables' = <<>> /\ qpc' = "run" /\ UNCHANGED <<qran, handed>>
    BY <1>2 DEF QtInv, TakeRunnables
  <2>2. qran \o <<>> \o m_pendingRunnables = qran \o m_pendingRunnables \o <<>>
    BY DEF QtInv
  <2>3. QED
    BY <2>1, <2>2 DEF QtInv, QtInOrder
<1>3. CASE RunRunnable
  <2>1. /\ pendingRunnables # <<>> /\ qpc = "run" /\ UNCHANGED <<m_pendingRunnables, handed, qpc>>
        /\ qran' = Append(qran, Head(pendingRunnables))
        /\ pendingRunnables' = Tail(pendingRunnables)
    BY <1>3 DEF RunRunnable
  <2>2. /\ qran' \o pendingRunnables' = qran \o pendingRunnables
        /\ qran' \in Seq(Runnables) /\ pendingRunnables' \in Seq(Runnables)
    <3>1. /\ qran \in Seq(Runnables) /\ pendingRunnables \in Seq(Runnables)
          /\ pendingRunnables # <<>>
      BY <2>1 DEF QtInv
    <3>2. /\ Append(qran, Head(pendingRunnables)) \o Tail(pendingRunnables)
                = qran \o pendingRunnables
          /\ Append(qran, Head(pendingRunnables)) \in Seq(Runnables)
          /\ Tail(pendingRunnables) \in Seq(Runnables)
      BY <3>1, MoveFirst
    <3>3. QED
      BY <2>1, <3>2
  <2>3. QED
    BY <2>1, <2>2 DEF QtInv, QtInOrder
<1>4. CASE BatchEnds
  BY <1>4 DEF QtInv, QtInOrder, BatchEnds
<1>5. CASE TestExit \/ WaitForRunnables \/ WakeSpuriously
  BY <1>5 DEF QtInv, QtInOrder, TestExit, WaitForRunnables, WakeSpuriously
<1>6. ASSUME NEW c \in QtClients,
             QtRunReturns(c) \/ QtExit(c) \/ QtExitNotify(c) \/ QtExitReturns(c)
      PROVE  QtInv'
  <2>1. /\ UNCHANGED <<m_pendingRunnables, pendingRunnables, handed, qran>>
        /\ qpc' = "run" <=> qpc = "run"
    BY <1>6 DEF QtRunReturns, QtExit, QtExitNotify, QtExitReturns, NotifyQt
  <2>2. QED
    BY <2>1 DEF QtInv, QtInOrder
<1>7. CASE UNCHANGED qtVars
  BY <1>7 DEF QtInv, QtInOrder, qtVars
<1>8. QED
  BY <1>1, <1>2, <1>3, <1>4, <1>5, <1>6, <1>7 DEF QtNext, QtThreadStep, QtPost, QtRun

\* What is added is new: nobody waits for it, and it is not released.
LEMMA AddedIsNew ==
  ASSUME QtAllInv, NEW c \in QtClients, NEW r \in Runnables, AddRunnable(c, r)
  PROVE  /\ ~In(r, handed) /\ ~In(r, qran) /\ r \notin released
         /\ \A b \in QtClients : client[b].at = "acquire" => client[b].for # r
         /\ \A x : In(x, handed) => In(x, handed')
         /\ In(r, handed')
         /\ UNCHANGED <<qran, released>>
<1>1. ~In(r, handed) /\ handed' = Append(handed, r) /\ UNCHANGED <<qran, released>>
  BY DEF AddRunnable
<1>2. /\ handed \in Seq(Runnables)
      /\ \A x : In(x, qran) => In(x, handed)
  BY QtHanded DEF QtAllInv
<1>3. \A x : In(x, handed') <=> In(x, handed) \/ x = r
  BY <1>1, <1>2, InAppend
<1>4. QED
  BY <1>1, <1>2, <1>3 DEF QtAllInv, OnlyAdded

\* A step that leaves the clients, what was released and what has run alone.
LEMMA ClientsKept ==
  ASSUME QtAllInv, QtInv', UNCHANGED <<client, released, qran>>,
         \A x : In(x, handed) => In(x, handed')
  PROVE  QtAllInv'
<1>1. ClientTypes' /\ OneWaiter' /\ QtRunWaits'
  BY DEF QtAllInv, ClientTypes, OneWaiter, QtRunWaits
<1>2. OnlyAdded'
  BY DEF QtAllInv, OnlyAdded
<1>3. QED
  BY <1>1, <1>2 DEF QtAllInv

\* A client begins to wait.
LEMMA QtRunKeeps ==
  ASSUME QtAllInv, QtInv', NEW c \in QtClients, NEW r \in Runnables, QtRun(c, r)
  PROVE  QtAllInv'
<1>1. /\ ~In(r, handed) /\ ~In(r, qran) /\ r \notin released
      /\ \A b \in QtClients : client[b].at = "acquire" => client[b].for # r
      /\ \A x : In(x, handed) => In(x, handed')
      /\ In(r, handed')
      /\ UNCHANGED <<qran, released>>
  BY AddedIsNew DEF QtRun
<1> DEFINE n == [at |-> "acquire", for |-> r]
<1>2. client' = [client EXCEPT ![c] = n]
  BY DEF QtRun
<1>3. /\ n \in [at : {"idle", "acquire", "exit", "join"}, for : Runnables \cup {NoRunnable}]
      /\ n.at = "acquire" /\ n.for = r
  OBVIOUS
<1> HIDE DEF n
<1>4. ClientTypes'
  BY <1>2, <1>3 DEF QtAllInv, ClientTypes
<1>5. \A b \in QtClients : /\ b # c => client'[b] = client[b]
                           /\ b = c => client'[b].at = "acquire" /\ client'[b].for = r
  BY <1>2, <1>3 DEF QtAllInv, ClientTypes
<1>6. OnlyAdded'
  BY <1>1, <1>5 DEF QtAllInv, OnlyAdded
<1>7. OneWaiter'
  BY <1>1, <1>5 DEF QtAllInv, OneWaiter
<1>8. QtRunWaits'
  BY <1>1, <1>5 DEF QtAllInv, QtRunWaits
<1>9. QED
  BY <1>4, <1>6, <1>7, <1>8 DEF QtAllInv

\* A client that is not waiting afterwards changes its place.
LEMMA QtClientMoves ==
  ASSUME QtAllInv, QtInv', NEW c \in QtClients,
         QtRunReturns(c) \/ QtExit(c) \/ QtExitNotify(c) \/ QtExitReturns(c)
  PROVE  QtAllInv'
<1>1. UNCHANGED <<handed, qran>>
  BY DEF QtRunReturns, QtExit, QtExitNotify, QtExitReturns
<1>2. /\ ClientTypes'
      /\ \A b \in QtClients : /\ b # c => client'[b] = client[b]
                              /\ b = c => client'[b].at # "acquire"
  <2>1. PICK n \in [at : {"idle", "exit", "join"}, for : Runnables \cup {NoRunnable}] :
            client' = [client EXCEPT ![c] = n]
    <3>1. CASE QtRunReturns(c) \/ QtExitReturns(c)
      <4>1. Resting \in [at : {"idle", "exit", "join"}, for : Runnables \cup {NoRunnable}]
        BY DEF Resting
      <4>2. client' = [client EXCEPT ![c] = Resting]
        BY <3>1 DEF QtRunReturns, QtExitReturns
      <4>3. QED
        BY <4>1, <4>2
    <3>2. ASSUME NEW p \in {"exit", "join"}, client' = [client EXCEPT ![c].at = p]
          PROVE  \E n \in [at : {"idle", "exit", "join"}, for : Runnables \cup {NoRunnable}] :
                    client' = [client EXCEPT ![c] = n]
      <4>1. client[c] \in [at : {"idle", "acquire", "exit", "join"},
                           for : Runnables \cup {NoRunnable}]
        BY DEF QtAllInv, ClientTypes
      <4> DEFINE n == [client[c] EXCEPT !.at = p]
      <4>2. n \in [at : {"idle", "exit", "join"}, for : Runnables \cup {NoRunnable}]
        BY <4>1
      <4>3. client' = [client EXCEPT ![c] = n]
        BY <3>2
      <4> HIDE DEF n
      <4>4. QED
        BY <4>2, <4>3
    <3>3. CASE QtExit(c) \/ QtExitNotify(c)
      BY <3>2, <3>3 DEF QtExit, QtExitNotify
    <3>4. QED
      BY <3>1, <3>3
  <2>2. n.at \in {"idle", "exit", "join"}
    BY <2>1
  <2>3. QED
    BY <2>1, <2>2 DEF QtAllInv, ClientTypes
<1>3. /\ released' \subseteq released
      /\ \A b \in QtClients : b # c /\ client[b].at = "acquire" =>
            (client[b].for \in released <=> client[b].for \in released')
  <2>1. CASE QtRunReturns(c)
    <3>1. client[c].at = "acquire" /\ released' \in {released, released \ {client[c].for}}
      BY <2>1 DEF QtRunReturns
    <3>2. QED
      BY <3>1 DEF QtAllInv, OneWaiter
  <2>2. CASE QtExit(c) \/ QtExitNotify(c) \/ QtExitReturns(c)
    BY <2>2 DEF QtExit, QtExitNotify, QtExitReturns
  <2>3. QED
    BY <2>1, <2>2
<1>4. OnlyAdded'
  BY <1>1, <1>2, <1>3 DEF QtAllInv, OnlyAdded
<1>5. OneWaiter'
  BY <1>2 DEF QtAllInv, OneWaiter
<1>6. QtRunWaits'
  BY <1>1, <1>2, <1>3 DEF QtAllInv, QtRunWaits
<1>7. QED
  BY <1>2, <1>4, <1>5, <1>6 DEF QtAllInv

\* A Runnable has run, and who waits for it is released.
LEMMA RunRunnableKeeps ==
  ASSUME QtAllInv, QtInv', RunRunnable
  PROVE  QtAllInv'
<1> DEFINE r == Head(pendingRunnables)
<1>1. r \in Runnables /\ qran \in Seq(Runnables)
  BY DEF RunRunnable, QtAllInv, QtInv
<1>2. /\ qran' = Append(qran, r) /\ UNCHANGED <<client, handed>>
      /\ released' = released \cup {s \in {r} : \E c \in QtClients : client[c].for = s}
  BY DEF RunRunnable
<1> HIDE DEF r
<1>3. \A x : In(x, qran') <=> In(x, qran) \/ x = r
  BY <1>1, <1>2, InAppend
<1>4. ClientTypes' /\ OneWaiter'
  BY <1>2 DEF QtAllInv, ClientTypes, OneWaiter
<1>5. OnlyAdded'
  BY <1>2, <1>3 DEF QtAllInv, OnlyAdded
<1>6. QtRunWaits'
  BY <1>2, <1>3 DEF QtAllInv, QtRunWaits
<1>7. QED
  BY <1>4, <1>5, <1>6 DEF QtAllInv

\* Every step keeps the invariant.
LEMMA QtAllInvNext == QtAllInv /\ [QtNext]_qtVars => QtAllInv'
<1> SUFFICES ASSUME QtAllInv, [QtNext]_qtVars PROVE QtAllInv'
  OBVIOUS
<1>1. QtInv'
  BY QtInvNext DEF QtAllInv
<1>2. ASSUME NEW c \in QtClients, NEW r \in Runnables, QtPost(c, r) PROVE QtAllInv'
  <2>1. UNCHANGED <<client, released, qran>> /\ \A x : In(x, handed) => In(x, handed')
    BY <1>2, AddedIsNew DEF QtPost
  <2>2. QED
    BY <1>1, <2>1, ClientsKept
<1>3. ASSUME NEW c \in QtClients, NEW r \in Runnables, QtRun(c, r) PROVE QtAllInv'
  BY <1>1, <1>3, QtRunKeeps
<1>4. ASSUME NEW c \in QtClients,
             QtRunReturns(c) \/ QtExit(c) \/ QtExitNotify(c) \/ QtExitReturns(c)
      PROVE  QtAllInv'
  BY <1>1, <1>4, QtClientMoves
<1>5. CASE RunRunnable
  BY <1>1, <1>5, RunRunnableKeeps
<1>6. CASE \/ TestExit \/ WaitForRunnables \/ TakeRunnables \/ BatchEnds \/ WakeSpuriously
           \/ UNCHANGED qtVars
  <2>1. UNCHANGED <<client, released, qran, handed>>
    BY <1>6 DEF TestExit, WaitForRunnables, TakeRunnables, BatchEnds, WakeSpuriously, qtVars
  <2>2. QED
    BY <1>1, <2>1, ClientsKept
<1>7. QED
  BY <1>2, <1>3, <1>4, <1>5, <1>6 DEF QtNext, QtThreadStep

\* Runnables run in the order in which the threads added them, none twice and
\* none left out, and a thread in run is released exactly when its Runnable has
\* run, also when others were interrupted meanwhile: QtThread.java.
THEOREM QtThreadRunsInOrder == QtSpec => [](QtInOrder /\ QtRunWaits)
<1>1. QtInit => QtAllInv
  <2> SUFFICES ASSUME QtInit PROVE QtAllInv
    OBVIOUS
  <2>1. QtInv
    BY DEF QtInit, QtInv, QtInOrder
  <2>2. ClientTypes /\ \A c \in QtClients : client[c].at = "idle"
    BY DEF QtInit, ClientTypes, Resting
  <2>3. OnlyAdded /\ OneWaiter /\ QtRunWaits
    BY <2>2 DEF QtInit, OnlyAdded, OneWaiter, QtRunWaits
  <2>4. QED
    BY <2>1, <2>2, <2>3 DEF QtAllInv
<1>2. QtSpec => []QtAllInv
  BY <1>1, QtAllInvNext, PTL DEF QtSpec
<1>3. QtAllInv => QtInOrder /\ QtRunWaits
  BY DEF QtAllInv, QtInv
<1>4. QED
  BY <1>2, <1>3, PTL
=============================================================================
