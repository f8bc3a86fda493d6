------------------------- MODULE MessageLoopProofs --------------------------
(* Proofs about MessageLoop, for every number of loops, tasks, posters,      *)
(* merges and times.                                                         *)
EXTENDS MessageLoop, TaskQueuesProofs

-----------------------------------------------------------------------------
(* The loops use the task queues as TaskQueues specifies                     *)

\* Every step of a loop, a poster or the clock is a step of the task queues or
\* leaves them alone.
LEMMA QueuesStep == MLTypeOK /\ [MLNext]_mlVars => [Next]_vars
<1> SUFFICES ASSUME MLTypeOK, [MLNext]_mlVars PROVE [Next]_vars
  OBVIOUS
<1>1. ASSUME NEW q \in QueueIds, LoopStep(q) PROVE [Next]_vars
  <2>1. from_time[q] \in Times
    BY DEF MLTypeOK
  <2>2. CASE CreateLoop(q) \/ CreateLoopEnd(q)
    BY <2>2 DEF CreateLoop, CreateLoopEnd, Next
  <2>3. CASE OnEventFired(q)
    BY <2>3 DEF OnEventFired, Next
  <2>4. CASE FlushTasks(q)
    BY <2>1, <2>4 DEF FlushTasks, Next
  <2>5. CASE DropPendingTasks(q)
    BY <2>5 DEF DropPendingTasks, Next
  <2>6. CASE DoRun(q) \/ TaskReturns(q) \/ RunReturns(q)
    BY <2>6 DEF DoRun, TaskReturns, RunReturns
  <2> QED
    BY <1>1, <2>2, <2>3, <2>4, <2>5, <2>6 DEF LoopStep
<1>2. ASSUME NEW q \in QueueIds, DestroyLoop(q) PROVE [Next]_vars
  BY <1>2 DEF DestroyLoop, Next
<1>3. ASSUME NEW q \in QueueIds, RegisterMicrotask(q) PROVE [Next]_vars
  BY <1>3 DEF RegisterMicrotask, Next, MLTypeOK
<1>4. ASSUME NEW q \in QueueIds, Pause(q) \/ Resume(q) PROVE [Next]_vars
  BY <1>4 DEF Pause, Resume, Next
<1>5. ASSUME NEW q \in QueueIds, NEW subsumed \in QueueIds,
             MergeLoops(q, subsumed) \/ UnmergeLoops(q, subsumed)
      PROVE  [Next]_vars
  BY <1>5 DEF MergeLoops, UnmergeLoops, Next
<1>6. ASSUME NEW p \in Posters, PostTaskRegister(p) PROVE [Next]_vars
  <2>1. posting[p] \in PostCall
    BY <1>6 DEF MLTypeOK, PostTaskRegister
  <2>2. posting[p].queue \in QueueIds /\ posting[p].time \in Times
    BY <2>1 DEF PostCall
  <2> QED
    BY <1>6, <2>2, LoopAssumption DEF PostTaskRegister, Next
<1>7. ASSUME NEW q \in QueueIds, NEW p \in Posters, NEW delay,
             PollError(q) \/ JoinReturns(q) \/ PostTask(p, q, delay) \/ Join(p, q)
      PROVE  UNCHANGED vars
  BY <1>7 DEF PollError, JoinReturns, PostTask, Join
<1>8. ASSUME NEW q \in QueueIds, PollError(q) \/ JoinReturns(q) PROVE UNCHANGED vars
  BY <1>8 DEF PollError, JoinReturns
<1>9. CASE Tick
  BY <1>9 DEF Tick
<1>10. CASE UNCHANGED mlVars
  BY <1>10 DEF mlVars
<1> QED
  BY <1>1, <1>2, <1>3, <1>4, <1>5, <1>6, <1>7, <1>8, <1>9, <1>10 DEF MLNext

\* Every action keeps the types.
LEMMA MLTypeStep == MLTypeOK /\ [MLNext]_mlVars => MLTypeOK'
<1> SUFFICES ASSUME MLTypeOK, [MLNext]_mlVars PROVE MLTypeOK'
  OBVIOUS
<1>1. TypeOK'
  BY QueuesStep, TypeStep DEF MLTypeOK
<1> USE DEF Goto, loopVars, otherVars
<1>2. ASSUME NEW q \in QueueIds, LoopStep(q) PROVE MLTypeOK'
  <2>1. CASE CreateLoop(q)
    BY <1>1, <2>1 DEF CreateLoop, MLTypeOK
  <2>2. CASE CreateLoopEnd(q)
    BY <1>1, <2>2 DEF CreateLoopEnd, MLTypeOK
  <2>3. CASE DoRun(q)
    BY <1>1, <2>3 DEF DoRun, MLTypeOK
  <2>4. CASE OnEventFired(q)
    BY <1>1, <2>4 DEF OnEventFired, MLTypeOK
  <2>5. CASE FlushTasks(q)
    BY <1>1, <2>5 DEF FlushTasks, MLTypeOK
  <2>6. CASE TaskReturns(q)
    BY <1>1, <2>6 DEF TaskReturns, MLTypeOK
  <2>7. CASE RunReturns(q)
    BY <1>1, <2>7 DEF RunReturns, MLTypeOK
  <2>8. CASE DropPendingTasks(q)
    BY <1>1, <2>8 DEF DropPendingTasks, MLTypeOK
  <2> QED
    BY <1>2, <2>1, <2>2, <2>3, <2>4, <2>5, <2>6, <2>7, <2>8 DEF LoopStep
<1>3. ASSUME NEW q \in QueueIds, PollError(q) PROVE MLTypeOK'
  BY <1>1, <1>3 DEF PollError, MLTypeOK
<1>4. ASSUME NEW q \in QueueIds, DestroyLoop(q) PROVE MLTypeOK'
  BY <1>1, <1>4 DEF DestroyLoop, MLTypeOK
<1>5. ASSUME NEW q \in QueueIds, JoinReturns(q) PROVE MLTypeOK'
  BY <1>1, <1>5 DEF JoinReturns, MLTypeOK
<1>6. ASSUME NEW q \in QueueIds, RegisterMicrotask(q) \/ Pause(q) \/ Resume(q)
      PROVE  MLTypeOK'
  BY <1>1, <1>6 DEF RegisterMicrotask, Pause, Resume, MLTypeOK
<1>7. ASSUME NEW q \in QueueIds, NEW p \in Posters, NEW delay \in Times,
             PostTask(p, q, delay)
      PROVE  MLTypeOK'
  <2>1. now + delay \in Times
    BY <1>7, BoundsAssumption DEF PostTask, MLTypeOK, Times
  <2>2. [queue |-> q, time |-> now + delay, terminate |-> FALSE] \in PostCall
    BY <2>1 DEF PostCall
  <2>3. posting' \in [Posters -> PostCall \cup {NoPost}]
    BY <1>7, <2>2 DEF PostTask, MLTypeOK
  <2> QED
    BY <1>1, <1>7, <2>3 DEF PostTask, MLTypeOK
<1>8. ASSUME NEW q \in QueueIds, NEW p \in Posters, Join(p, q) PROVE MLTypeOK'
  <2>1. [queue |-> q, time |-> now, terminate |-> TRUE] \in PostCall
    BY DEF PostCall, MLTypeOK
  <2>2. posting' \in [Posters -> PostCall \cup {NoPost}]
    BY <1>8, <2>1 DEF Join, MLTypeOK
  <2>3. join' \in [QueueIds -> {"no", "joining", "done"}]
    BY <1>8 DEF Join, MLTypeOK
  <2> QED
    BY <1>1, <1>8, <2>2, <2>3 DEF Join, MLTypeOK
<1>9. ASSUME NEW q \in QueueIds, NEW subsumed \in QueueIds,
             MergeLoops(q, subsumed) \/ UnmergeLoops(q, subsumed)
      PROVE  MLTypeOK'
  <2>1. merges' \in 0 .. MaxMerges
    BY <1>9, LoopAssumption DEF MergeLoops, UnmergeLoops, MLTypeOK
  <2> QED
    BY <1>1, <1>9, <2>1 DEF MergeLoops, UnmergeLoops, MLTypeOK
<1>10. ASSUME NEW p \in Posters, PostTaskRegister(p) PROVE MLTypeOK'
  <2>1. order \in 0 .. MaxTasks - 1
    BY <1>10, BoundsAssumption DEF PostTaskRegister, RegisterTask, MLTypeOK, TypeOK
  <2> QED
    BY <1>1, <1>10, <2>1 DEF PostTaskRegister, MLTypeOK
<1>11. CASE Tick
  BY <1>1, <1>11, BoundsAssumption DEF Tick, MLTypeOK, Times
<1>12. CASE UNCHANGED mlVars
  BY <1>1, <1>12 DEF mlVars, MLTypeOK
<1> QED
  BY <1>2, <1>3, <1>4, <1>5, <1>6, <1>7, <1>8, <1>9, <1>10, <1>11, <1>12 DEF MLNext

\* The variables of the loops keep their types.
THEOREM MLTypeCorrect == MLSpec => []MLTypeOK
<1>1. MLInit => MLTypeOK
  BY TypeInit, BoundsAssumption, LoopAssumption DEF MLInit, MLTypeOK, Times
<1> QED
  BY <1>1, MLTypeStep, PTL DEF MLSpec

\* The loops, their posters and the clock implement the task queues: whatever
\* is proved of TaskQueues holds of the queues of running loops.
THEOREM ImplementsTaskQueues == MLSpec => Spec
<1>1. MLInit => Init
  BY DEF MLInit
<1> QED
  BY <1>1, MLTypeCorrect, QueuesStep, PTL DEF MLSpec, Spec

-----------------------------------------------------------------------------
(* No task runs before its time                                              *)

\* The clock FlushTasks read is not ahead, also between two tasks, and the task
\* that runs was due by it.
FlushInv ==
    \A q \in QueueIds :
        /\ pc[q] \in {"flush", "lflush", "task", "ltask"} => from_time[q] <= now
        /\ pc[q] \in {"task", "ltask"} =>
              /\ invocation[q] # NoTask
              /\ invocation[q].task.time <= from_time[q]

\* Only FlushTasks hands out a task, and only one that is due.
LEMMA FlushInvStep == MLTypeOK /\ FlushInv /\ [MLNext]_mlVars => FlushInv'
<1> SUFFICES ASSUME MLTypeOK, FlushInv, [MLNext]_mlVars PROVE FlushInv'
  OBVIOUS
<1> USE DEF Goto, loopVars, otherVars
<1>1. now \in Int /\ \A q \in QueueIds : from_time[q] \in Int
  BY BoundsAssumption DEF MLTypeOK, Times
<1>2. ASSUME NEW q \in QueueIds, FlushTasks(q) PROVE FlushInv'
  <2>1. /\ UNCHANGED <<from_time, now>>
        /\ \A r \in QueueIds \ {q} : pc'[r] = pc[r] /\ invocation'[r] = invocation[r]
    BY <1>2 DEF FlushTasks, GetNextTaskToRun, MLTypeOK, TypeOK
  <2>2. pc[q] \in {"flush", "lflush"}
    BY <1>2 DEF FlushTasks
  <2>3. pc'[q] \in {"task", "ltask"} => invocation'[q] # NoTask
    BY <1>2, <2>2 DEF FlushTasks, MLTypeOK
  <2>4. CASE HasPendingTasks(q) /\ ~(PeekNextTask(q).task.time > from_time[q])
    <3>1. invocation'[q] = PeekNextTask(q)
      BY <1>2, <2>4 DEF FlushTasks, GetNextTaskToRun, MLTypeOK, TypeOK
    <3>2. PeekNextTask(q).task.time \in Int
      BY <2>4, PeekIsEarliest, BoundsAssumption
         DEF PeekFact, HeapTypes, MLTypeOK, TypeOK, TopTask, DelayedTask, Times
    <3>3. invocation'[q].task.time <= from_time[q]
      BY <1>1, <2>4, <3>1, <3>2
    <3> QED
      BY <2>1, <2>2, <2>3, <3>3 DEF FlushInv
  <2>5. CASE ~(HasPendingTasks(q) /\ ~(PeekNextTask(q).task.time > from_time[q]))
    <3>1. invocation'[q] = NoTask
      BY <1>2, <2>5 DEF FlushTasks, GetNextTaskToRun, MLTypeOK, TypeOK
    <3>2. pc'[q] \notin {"task", "ltask", "flush", "lflush"}
      BY <1>2, <2>2, <3>1 DEF FlushTasks, MLTypeOK
    <3> QED
      BY <2>1, <3>2 DEF FlushInv
  <2> QED
    BY <2>4, <2>5
<1>3. ASSUME NEW q \in QueueIds, OnEventFired(q) \/ RunReturns(q) PROVE FlushInv'
  <2>1. UNCHANGED <<invocation, now>>
    BY <1>3 DEF OnEventFired, RunReturns, WakeableFires, vars, callerVars
  <2>2. /\ \A r \in QueueIds \ {q} : pc'[r] = pc[r] /\ from_time'[r] = from_time[r]
        /\ from_time'[q] = now
        /\ pc'[q] \notin {"task", "ltask"}
    BY <1>3 DEF OnEventFired, RunReturns, MLTypeOK
  <2> QED
    BY <1>1, <2>1, <2>2 DEF FlushInv
<1>4. ASSUME NEW q \in QueueIds, TaskReturns(q) PROVE FlushInv'
  <2>1. UNCHANGED <<invocation, now, from_time>>
    BY <1>4 DEF TaskReturns, vars, callerVars
  <2>2. /\ \A r \in QueueIds \ {q} : pc'[r] = pc[r]
        /\ pc[q] \in {"task", "ltask"} /\ pc'[q] \notin {"task", "ltask"}
    BY <1>4 DEF TaskReturns, MLTypeOK
  <2> QED
    BY <2>1, <2>2 DEF FlushInv
<1>5. ASSUME NEW q \in QueueIds,
             \/ CreateLoop(q) \/ CreateLoopEnd(q) \/ DoRun(q)
             \/ DropPendingTasks(q) \/ DestroyLoop(q)
      PROVE  FlushInv'
  <2>1. UNCHANGED <<invocation, now, from_time>>
    BY <1>5 DEF CreateLoop, CreateTaskQueue, CreateLoopEnd, SetWakeable, DoRun,
                DropPendingTasks, DisposeTasks, DestroyLoop, Dispose, vars, callerVars
  <2>2. /\ \A r \in QueueIds \ {q} : pc'[r] = pc[r]
        /\ pc'[q] \notin {"task", "ltask", "flush", "lflush"}
    BY <1>5 DEF CreateLoop, CreateLoopEnd, DoRun, DropPendingTasks, DestroyLoop, MLTypeOK
  <2> QED
    BY <2>1, <2>2 DEF FlushInv
<1>6. ASSUME UNCHANGED <<invocation, pc, from_time>>, now' \in Int, now <= now'
      PROVE  FlushInv'
  <2>1. ASSUME NEW q \in QueueIds, from_time[q] <= now PROVE from_time[q] <= now'
    BY <1>1, <1>6, <2>1
  <2> QED
    BY <1>6, <2>1 DEF FlushInv
<1>7. ASSUME NEW q \in QueueIds,
             \/ PollError(q) \/ JoinReturns(q) \/ RegisterMicrotask(q)
             \/ Pause(q) \/ Resume(q)
             \/ \E p \in Posters : (\E delay \in Times : PostTask(p, q, delay)) \/ Join(p, q)
             \/ \E subsumed \in QueueIds : MergeLoops(q, subsumed) \/ UnmergeLoops(q, subsumed)
      PROVE  FlushInv'
  <2>1. UNCHANGED <<invocation, pc, from_time, now>>
    <3>1. CASE PollError(q) \/ JoinReturns(q) \/ RegisterMicrotask(q) \/ Pause(q) \/ Resume(q)
      BY <3>1 DEF PollError, JoinReturns, RegisterMicrotask, RegisterTask, Pause,
                  PauseSecondarySource, Resume, ResumeSecondarySource, vars, callerVars
    <3>2. CASE \E p \in Posters : (\E delay \in Times : PostTask(p, q, delay)) \/ Join(p, q)
      BY <3>2 DEF PostTask, Join, vars, callerVars
    <3>3. CASE \E subsumed \in QueueIds : MergeLoops(q, subsumed) \/ UnmergeLoops(q, subsumed)
      BY <3>3 DEF MergeLoops, Merge, UnmergeLoops, Unmerge, callerVars
    <3> QED
      BY <1>7, <3>1, <3>2, <3>3
  <2> QED
    BY <1>1, <1>6, <2>1
<1>8. ASSUME NEW p \in Posters, PostTaskRegister(p) PROVE FlushInv'
  BY <1>1, <1>6, <1>8 DEF PostTaskRegister, RegisterTask, callerVars
<1>9. CASE Tick
  BY <1>1, <1>6, <1>9 DEF Tick, vars, callerVars
<1>10. CASE UNCHANGED mlVars
  BY <1>1, <1>6, <1>10 DEF mlVars, vars, callerVars
<1> QED
  BY <1>2, <1>3, <1>4, <1>5, <1>7, <1>8, <1>9, <1>10 DEF MLNext, LoopStep

\* No task runs before its target time.
THEOREM NotBeforeItsTimeInvariant == MLSpec => []NotBeforeItsTime
<1>1. MLInit => FlushInv
  BY DEF MLInit, FlushInv
<1>2. FlushInv => NotBeforeItsTime
  BY DEF FlushInv, NotBeforeItsTime
<1> QED
  BY <1>1, <1>2, MLTypeCorrect, FlushInvStep, PTL DEF MLSpec

-----------------------------------------------------------------------------
(* No task is left without a wake-up                                         *)

\* The tasks of the source s that the timer of q has to cover.
ToCover(q, s) == IF s = q THEN Visible(s) ELSE primary[s]

\* The timer of q goes off in time for all of them.
Covered(q) == \A s \in Sources(q) : \A t \in ToCover(q, s) : wake[q] <= t.time

\* The timer of q is set for its next task, if it has one.
Armed(q) == HasPendingTasks(q) => wake[q] = GetNextWakeTime(q)

\* What ArmedCovers proves.
ArmedFact ==
    HeapTypes => \A q \in QueueIds : ~IsSubsumed(q) /\ Armed(q) => Covered(q)

\* A timer that is set for the next task covers all of them.
LEMMA ArmedCovers == ArmedFact
<1> SUFFICES ASSUME HeapTypes, NEW q \in QueueIds, ~IsSubsumed(q), Armed(q),
                    NEW s \in Sources(q), NEW t \in ToCover(q, s)
             PROVE  wake[q] <= t.time
  BY DEF ArmedFact, Covered
<1>1. s \in QueueIds
  BY DEF Sources, HeapTypes
<1>2. t \in Visible(s)
  BY DEF ToCover, Visible
<1>3. pauses[s] \in Nat
  BY <1>1, BoundsAssumption DEF HeapTypes
<1>4. ~IsEmpty(s)
  BY <1>2, <1>3 DEF Visible, IsEmpty
<1>5. HasPendingTasks(q)
  BY <1>4 DEF HasPendingTasks
<1>6. /\ PeekNextTask(q) \in TopTask
      /\ ~After(PeekNextTask(q).task, Top(s).task)
  BY <1>4, <1>5, PeekIsEarliest DEF PeekFact
<1>7. Top(s) \in TopTask /\ ~After(Top(s).task, t)
  BY <1>1, <1>2, <1>4, TopIsVisible
<1>8. t \in DelayedTask
  BY <1>1, <1>2 DEF Visible, HeapTypes
<1>9. \A u \in DelayedTask : u.time \in Int /\ u.order \in Int
  BY BoundsAssumption DEF DelayedTask, Times
<1>10. PeekNextTask(q).task \in DelayedTask /\ Top(s).task \in DelayedTask
  BY <1>6, <1>7 DEF TopTask
<1>11. PeekNextTask(q).task.time <= Top(s).task.time
  BY <1>6, <1>9, <1>10 DEF After
<1>12. Top(s).task.time <= t.time
  BY <1>7, <1>8, <1>9, <1>10 DEF After
<1>13. wake[q] = PeekNextTask(q).task.time
  BY <1>5 DEF Armed, GetNextWakeTime
<1> QED
  BY <1>8, <1>9, <1>10, <1>11, <1>12, <1>13

\* A wake-up that is asked for after a change arms the timer for what is there
\* after the change, and leaves the other timers alone.
LEMMA WakeUpCovers ==
    ASSUME TypeOK, TypeOK', NEW Q, WakeUpAsNeeded(Q),
           NEW q \in QueueIds, ~IsSubsumed(q)', q \in Q, wakeable[q]
    PROVE  Covered(q)'
<1>1. ArmedFact'
  BY ArmedCovers, PTL
<1>2. HeapTypes'
  BY DEF HeapTypes, TypeOK
<1>3. HasPendingTasks(q)' => wake'[q] = GetNextWakeTime(q)'
  BY DEF WakeUpAsNeeded
<1>4. Armed(q)'
  BY <1>3 DEF Armed
<1> QED
  BY <1>1, <1>2, <1>4 DEF ArmedFact

\* Fewer tasks and fewer sources need no new wake-up.
LEMMA CoveredShrinks ==
    ASSUME NEW q \in QueueIds, Covered(q), wake'[q] = wake[q],
           Sources(q)' \subseteq Sources(q), Visible(q)' \subseteq Visible(q),
           \A s \in Sources(q)' : primary'[s] \subseteq primary[s]
    PROVE  Covered(q)'
<1> SUFFICES ASSUME NEW s \in Sources(q)', NEW t \in ToCover(q, s)'
             PROVE  wake'[q] <= t.time
  BY DEF Covered
<1>1. t \in ToCover(q, s)
  BY DEF ToCover
<1> QED
  BY <1>1 DEF Covered

\* A loop that is not constructed yet has nothing, and nobody knows it.
Unknown(q) ==
    /\ Pending(q) = {} /\ owner_of[q] = {} /\ ~running[q]
    /\ \A p \in Posters : posting[p].queue # q

\* The timer of a loop that runs covers its tasks.
LoopsCovered ==
    \A q \in QueueIds : (pc[q] \in {"ready", "poll"} /\ ~IsSubsumed(q)) => Covered(q)

\* Every loop whose constructor is done can be woken.
WakeablesSet == \A q \in queue_entries : pc[q] \notin {"absent", "ctor"} => wakeable[q]

\* Nobody knows a loop whose constructor is not done.
UnbornUnknown == \A q \in QueueIds : pc[q] \in {"absent", "ctor"} => Unknown(q)

\* The strengthening of WakeCoversPending: the timer is right from the end of
\* the constructor on, because the Wakeable is there to be told and nothing was
\* posted before it was.
WakeInv == MLTypeOK /\ MergeShape /\ LoopsCovered /\ WakeablesSet /\ UnbornUnknown

\* The constructor sets the Wakeable, and it goes only with the entry.
LEMMA WakeablesSetStep == MLTypeOK /\ WakeablesSet /\ [MLNext]_mlVars => WakeablesSet'
<1> SUFFICES ASSUME MLTypeOK, WakeablesSet, [MLNext]_mlVars PROVE WakeablesSet'
  OBVIOUS
<1> USE DEF Goto, entryVars
<1>1. ASSUME UNCHANGED <<pc, queue_entries, wakeable>> PROVE WakeablesSet'
  BY <1>1 DEF WakeablesSet
<1>2. ASSUME NEW q \in QueueIds, CreateLoop(q) PROVE WakeablesSet'
  BY <1>2 DEF CreateLoop, CreateTaskQueue, WakeablesSet, MLTypeOK, TypeOK
<1>3. ASSUME NEW q \in QueueIds, CreateLoopEnd(q) PROVE WakeablesSet'
  BY <1>3 DEF CreateLoopEnd, SetWakeable, WakeablesSet, MLTypeOK, TypeOK
<1>4. ASSUME NEW q \in QueueIds, DestroyLoop(q) PROVE WakeablesSet'
  <2>1. /\ queue_entries' = queue_entries \ Sources(q)
        /\ \A r \in QueueIds \ Sources(q) : wakeable'[r] = wakeable[r]
        /\ \A r \in QueueIds \ {q} : pc'[r] = pc[r]
    BY <1>4 DEF DestroyLoop, Dispose, MLTypeOK
  <2> QED
    BY <2>1 DEF WakeablesSet, MLTypeOK, TypeOK, Sources
<1>5. ASSUME NEW q \in QueueIds,
             \/ DoRun(q) \/ OnEventFired(q) \/ FlushTasks(q) \/ TaskReturns(q)
             \/ RunReturns(q) \/ DropPendingTasks(q)
      PROVE  WakeablesSet'
  <2>1. UNCHANGED <<queue_entries, wakeable>>
    BY <1>5 DEF DoRun, OnEventFired, WakeableFires, FlushTasks, GetNextTaskToRun,
                TaskReturns, RunReturns, DropPendingTasks, DisposeTasks, vars
  <2>2. /\ \A r \in QueueIds \ {q} : pc'[r] = pc[r]
        /\ pc[q] \notin {"absent", "ctor"}
    BY <1>5 DEF DoRun, OnEventFired, FlushTasks, TaskReturns, RunReturns,
                DropPendingTasks, MLTypeOK
  <2> QED
    BY <2>1, <2>2 DEF WakeablesSet, MLTypeOK, TypeOK
<1>6. ASSUME NEW q \in QueueIds,
             \/ PollError(q) \/ JoinReturns(q) \/ RegisterMicrotask(q)
             \/ Pause(q) \/ Resume(q)
             \/ \E p \in Posters : (\E delay \in Times : PostTask(p, q, delay)) \/ Join(p, q)
             \/ \E subsumed \in QueueIds : MergeLoops(q, subsumed) \/ UnmergeLoops(q, subsumed)
      PROVE  WakeablesSet'
  <2>1. CASE PollError(q) \/ JoinReturns(q) \/ RegisterMicrotask(q) \/ Pause(q) \/ Resume(q)
    BY <1>1, <2>1 DEF PollError, JoinReturns, RegisterMicrotask, RegisterTask, Pause,
                      PauseSecondarySource, Resume, ResumeSecondarySource, vars
  <2>2. CASE \E p \in Posters : (\E delay \in Times : PostTask(p, q, delay)) \/ Join(p, q)
    BY <1>1, <2>2 DEF PostTask, Join, vars
  <2>3. CASE \E subsumed \in QueueIds : MergeLoops(q, subsumed) \/ UnmergeLoops(q, subsumed)
    BY <1>1, <2>3 DEF MergeLoops, Merge, UnmergeLoops, Unmerge
  <2> QED
    BY <1>6, <2>1, <2>2, <2>3
<1>7. CASE Tick \/ (\E p \in Posters : PostTaskRegister(p)) \/ UNCHANGED mlVars
  BY <1>1, <1>7 DEF Tick, PostTaskRegister, RegisterTask, mlVars, vars
<1> QED
  BY <1>2, <1>3, <1>4, <1>5, <1>6, <1>7 DEF MLNext, LoopStep

\* Nobody posts to a loop or merges it before its constructor is through.
LEMMA UnbornUnknownStep == MLTypeOK /\ UnbornUnknown /\ [MLNext]_mlVars => UnbornUnknown'
<1> SUFFICES ASSUME MLTypeOK, UnbornUnknown, [MLNext]_mlVars,
                    NEW r \in QueueIds, pc'[r] \in {"absent", "ctor"}
             PROVE  Unknown(r)'
  BY DEF UnbornUnknown
<1> USE DEF Goto, loopVars, otherVars
<1>1. pc[r] \in {"absent", "ctor"}
  <2>1. ASSUME NEW q \in QueueIds, LoopStep(q) \/ DestroyLoop(q)
        PROVE  pc[r] \in {"absent", "ctor"}
    BY <2>1 DEF LoopStep, CreateLoop, CreateLoopEnd, DoRun, OnEventFired, FlushTasks,
                TaskReturns, RunReturns, DropPendingTasks, DestroyLoop, MLTypeOK
  <2>2. ASSUME pc' = pc PROVE pc[r] \in {"absent", "ctor"}
    BY <2>2
  <2> QED
    BY <2>1, <2>2 DEF MLNext, PollError, JoinReturns, RegisterMicrotask, Pause, Resume,
         PostTask, Join, MergeLoops, UnmergeLoops, PostTaskRegister, Tick, mlVars
<1>2. Unknown(r)
  BY <1>1 DEF UnbornUnknown
<1>3. ASSUME owner_of'[r] \subseteq owner_of[r],
             primary'[r] \subseteq primary[r], secondary'[r] \subseteq secondary[r],
             running'[r] = running[r],
             \A p \in Posters : posting'[p] = posting[p]
      PROVE  Unknown(r)'
  BY <1>2, <1>3 DEF Unknown, Pending
<1>4. ASSUME NEW q \in QueueIds, DoRun(q) PROVE Unknown(r)'
  BY <1>1, <1>3, <1>4 DEF DoRun, vars, linkVars, taskVars, MLTypeOK
<1>5. ASSUME NEW q \in QueueIds, TaskReturns(q) PROVE Unknown(r)'
  <2>1. q # r
    BY <1>1, <1>5 DEF TaskReturns
  <2> QED
    BY <1>3, <1>5, <2>1 DEF TaskReturns, vars, linkVars, taskVars, MLTypeOK
<1>6. ASSUME NEW q \in QueueIds, PollError(q) PROVE Unknown(r)'
  BY <1>1, <1>3, <1>6 DEF PollError, vars, linkVars, taskVars, MLTypeOK
<1>7. ASSUME NEW q \in QueueIds, CreateLoop(q) \/ CreateLoopEnd(q) \/ OnEventFired(q)
                                  \/ RunReturns(q) \/ JoinReturns(q) \/ Pause(q) \/ Resume(q)
      PROVE  Unknown(r)'
  BY <1>3, <1>7 DEF CreateLoop, CreateTaskQueue, CreateLoopEnd, SetWakeable, OnEventFired,
       WakeableFires, RunReturns, JoinReturns, Pause, PauseSecondarySource, Resume,
       ResumeSecondarySource, vars, linkVars, taskVars
<1>8. ASSUME NEW q \in QueueIds, FlushTasks(q) PROVE Unknown(r)'
  <2>1. ASSUME NEW top, PopTask(top)
        PROVE  primary'[r] \subseteq primary[r] /\ secondary'[r] \subseteq secondary[r]
    BY <2>1 DEF PopTask, MLTypeOK, TypeOK
  <2>2. primary'[r] \subseteq primary[r] /\ secondary'[r] \subseteq secondary[r]
    BY <1>8, <2>1 DEF FlushTasks, GetNextTaskToRun
  <2> QED
    BY <1>3, <1>8, <2>2 DEF FlushTasks, GetNextTaskToRun, linkVars
<1>9. ASSUME NEW q \in QueueIds, DropPendingTasks(q) PROVE Unknown(r)'
  BY <1>3, <1>9 DEF DropPendingTasks, DisposeTasks, ShutDown, linkVars
<1>10. ASSUME NEW q \in QueueIds, DestroyLoop(q) PROVE Unknown(r)'
  BY <1>3, <1>10 DEF DestroyLoop, Dispose, ShutDown
<1>11. ASSUME NEW q \in QueueIds, NEW time, NEW grade, RegisterTask(q, time, grade), q # r,
              running' = running, \A p \in Posters : posting'[p] \in {posting[p], NoPost}
       PROVE  Unknown(r)'
  <2>1. primary'[r] = primary[r] /\ secondary'[r] = secondary[r] /\ owner_of' = owner_of
    BY <1>11 DEF RegisterTask, MLTypeOK, TypeOK, linkVars
  <2>2. NoPost.queue # r
    BY BoundsAssumption DEF NoPost, kUnmerged, QueueIds
  <2> QED
    BY <1>2, <1>11, <2>1, <2>2 DEF Unknown, Pending
<1>12. ASSUME NEW q \in QueueIds, RegisterMicrotask(q) PROVE Unknown(r)'
  BY <1>1, <1>11, <1>12 DEF RegisterMicrotask
<1>13. ASSUME NEW p \in Posters, PostTaskRegister(p) PROVE Unknown(r)'
  <2>1. posting[p] \in PostCall
    BY <1>13 DEF MLTypeOK, PostTaskRegister
  <2>2. posting[p].queue \in QueueIds /\ posting[p].queue # r
    BY <1>2, <2>1 DEF PostCall, Unknown
  <2>3. \A x \in Posters : posting'[x] \in {posting[x], NoPost}
    BY <1>13 DEF PostTaskRegister, MLTypeOK
  <2> QED
    BY <1>11, <1>13, <2>2, <2>3 DEF PostTaskRegister
<1>14. ASSUME NEW q \in QueueIds, NEW p \in Posters,
              (\E delay \in Times : PostTask(p, q, delay)) \/ Join(p, q)
       PROVE  Unknown(r)'
  <2>1. UNCHANGED <<vars, running>>
    BY <1>14 DEF PostTask, Join
  <2>2. q # r
    BY <1>1, <1>14 DEF PostTask, Join
  <2>3. \A x \in Posters : posting'[x] = posting[x] \/ posting'[x].queue = q
    BY <1>14 DEF PostTask, Join, MLTypeOK
  <2> QED
    BY <1>2, <2>1, <2>2, <2>3 DEF Unknown, Pending, vars, linkVars, taskVars
<1>15. ASSUME NEW q \in QueueIds, NEW subsumed \in QueueIds,
              MergeLoops(q, subsumed) \/ UnmergeLoops(q, subsumed)
       PROVE  Unknown(r)'
  <2>1. owner_of'[r] \subseteq owner_of[r]
    BY <1>2, <1>15 DEF Unknown, MergeLoops, Merge, UnmergeLoops, Unmerge, MLTypeOK, TypeOK
  <2> QED
    BY <1>3, <1>15, <2>1 DEF MergeLoops, Merge, UnmergeLoops, Unmerge, taskVars
<1>16. CASE Tick \/ UNCHANGED mlVars
  BY <1>3, <1>16 DEF Tick, mlVars, vars, linkVars, taskVars
<1> QED
  BY <1>4, <1>5, <1>6, <1>7, <1>8, <1>9, <1>10, <1>12, <1>13, <1>14, <1>15, <1>16
     DEF MLNext, LoopStep

\* Every step leaves the timers of the loops that may sleep next set for all
\* their tasks: what adds a task or a source asks for a wake-up, and FlushTasks
\* re-arms the timer before it is over.
LEMMA LoopsCoveredStep == WakeInv /\ MLTypeOK' /\ [MLNext]_mlVars => LoopsCovered'
<1> SUFFICES ASSUME WakeInv, MLTypeOK', [MLNext]_mlVars,
                    NEW r \in QueueIds, pc'[r] \in {"ready", "poll"}, ~IsSubsumed(r)'
             PROVE  Covered(r)'
  BY DEF LoopsCovered
<1> USE DEF Goto, loopVars, otherVars, linkVars, entryVars, taskVars
<1>1. TypeOK /\ TypeOK' /\ MergeShape /\ MLTypeOK
  BY DEF WakeInv, MLTypeOK
<1>2. ASSUME pc[r] \in {"ready", "poll"}, ~IsSubsumed(r), wake'[r] = wake[r],
             Sources(r)' \subseteq Sources(r), Visible(r)' \subseteq Visible(r),
             \A s \in Sources(r)' : primary'[s] \subseteq primary[s]
      PROVE  Covered(r)'
  BY <1>2, CoveredShrinks DEF WakeInv, LoopsCovered
<1>3. ASSUME UNCHANGED vars, pc[r] \in {"ready", "poll"} PROVE Covered(r)'
  BY <1>2, <1>3 DEF vars, IsSubsumed, Sources, Visible
<1>4. ASSUME NEW Q, WakeUpAsNeeded(Q), r \in Q, r \in queue_entries,
             pc[r] \in {"ready", "poll"}
      PROVE  Covered(r)'
  <2>1. wakeable[r]
    BY <1>4 DEF WakeInv, WakeablesSet
  <2> QED
    BY <1>1, <1>4, <2>1, WakeUpCovers
<1>5. ASSUME NEW q \in QueueIds, CreateLoop(q) PROVE Covered(r)'
  BY <1>1, <1>2, <1>5 DEF CreateLoop, CreateTaskQueue, MLTypeOK, IsSubsumed, Sources, Visible
<1>6. ASSUME NEW q \in QueueIds, CreateLoopEnd(q) PROVE Covered(r)'
  <2>1. UNCHANGED <<primary, secondary, pauses, owner_of, subsumed_by, wake>>
    BY <1>6 DEF CreateLoopEnd, SetWakeable
  <2>2. CASE r = q
    <3>1. Pending(r) = {} /\ owner_of[r] = {}
      BY <1>6, <2>2 DEF CreateLoopEnd, WakeInv, UnbornUnknown, Unknown
    <3> QED
      BY <2>1, <3>1 DEF Covered, ToCover, Sources, Visible, Pending
  <2>3. CASE r # q
    BY <1>1, <1>2, <1>6, <2>1, <2>3
       DEF CreateLoopEnd, MLTypeOK, IsSubsumed, Sources, Visible
  <2> QED
    BY <2>2, <2>3
<1>7. ASSUME NEW q \in QueueIds, DoRun(q) \/ TaskReturns(q) \/ RunReturns(q)
      PROVE  Covered(r)'
  BY <1>1, <1>3, <1>7 DEF DoRun, TaskReturns, RunReturns, MLTypeOK
<1>8. ASSUME NEW q \in QueueIds, OnEventFired(q) PROVE Covered(r)'
  <2>1. r # q
    BY <1>1, <1>8 DEF OnEventFired, MLTypeOK
  <2> QED
    BY <1>1, <1>2, <1>8, <2>1
       DEF OnEventFired, WakeableFires, MLTypeOK, TypeOK, IsSubsumed, Sources, Visible
<1>9. ASSUME NEW q \in QueueIds, FlushTasks(q) PROVE Covered(r)'
  <2>1. /\ UNCHANGED <<owner_of, subsumed_by, pauses>>
        /\ \A s \in QueueIds : primary'[s] \subseteq primary[s]
        /\ \A s \in QueueIds : secondary'[s] \subseteq secondary[s]
    <3>1. ASSUME NEW top, PopTask(top), NEW s \in QueueIds
          PROVE  primary'[s] \subseteq primary[s] /\ secondary'[s] \subseteq secondary[s]
      BY <1>1, <3>1 DEF PopTask, TypeOK
    <3> QED
      BY <1>9, <3>1 DEF FlushTasks, GetNextTaskToRun
  <2>2. CASE r # q
    <3>1. pc'[r] = pc[r] /\ wake'[r] = wake[r]
      BY <1>1, <1>9, <2>2 DEF FlushTasks, GetNextTaskToRun, MLTypeOK, TypeOK
    <3>2. Sources(r) \subseteq QueueIds
      BY <1>1 DEF TypeOK, Sources
    <3> QED
      BY <1>2, <2>1, <3>1, <3>2 DEF IsSubsumed, Sources, Visible
  <2>3. CASE r = q
    <3>1. invocation'[q] = NoTask
      BY <1>1, <1>9, <2>3 DEF FlushTasks, MLTypeOK
    <3>2. /\ UNCHANGED <<primary, secondary>>
          /\ HasPendingTasks(q) => wake'[q] = GetNextWakeTime(q)
      <4>1. CASE ~HasPendingTasks(q)
        BY <1>9, <4>1 DEF FlushTasks, GetNextTaskToRun
      <4>2. CASE HasPendingTasks(q)
        <5>1. wakeable[q]
          BY <1>9 DEF FlushTasks, GetNextTaskToRun, WakeInv, WakeablesSet
        <5>2. wake'[q] = GetNextWakeTime(q)
          BY <1>1, <1>9, <4>2, <5>1 DEF FlushTasks, GetNextTaskToRun, TypeOK
        <5>3. PeekNextTask(q) # NoTask
          <6>1. PeekNextTask(q) \in TopTask
            BY <1>1, <4>2, PeekIsEarliest DEF PeekFact, HeapTypes, TypeOK
          <6> QED
            BY <6>1, BoundsAssumption DEF TopTask, NoTask, kUnmerged, QueueIds
        <5>4. UNCHANGED <<primary, secondary>>
          BY <1>1, <1>9, <3>1, <4>2, <5>3 DEF FlushTasks, GetNextTaskToRun, TypeOK
        <5> QED
          BY <5>2, <5>4
      <4> QED
        BY <4>1, <4>2
    <3>3. /\ HasPendingTasks(q)' <=> HasPendingTasks(q)
          /\ GetNextWakeTime(q)' = GetNextWakeTime(q)
      BY <2>1, <3>2 DEF HasPendingTasks, IsSubsumed, Sources, IsEmpty, GetNextWakeTime,
                        PeekNextTask, Top
    <3>4. Armed(q)'
      BY <3>2, <3>3 DEF Armed
    <3>5. ArmedFact'
      BY ArmedCovers, PTL
    <3> QED
      BY <1>1, <2>3, <3>4, <3>5 DEF ArmedFact, HeapTypes, TypeOK
  <2> QED
    BY <2>2, <2>3
<1>10. ASSUME NEW q \in QueueIds, DropPendingTasks(q) PROVE Covered(r)'
  <2>1. pc'[r] = pc[r] /\ UNCHANGED <<owner_of, subsumed_by, pauses, wake>>
    BY <1>1, <1>10 DEF DropPendingTasks, DisposeTasks, MLTypeOK
  <2>2. \A s \in QueueIds : primary'[s] \subseteq primary[s] /\ secondary'[s] \subseteq secondary[s]
    BY <1>10 DEF DropPendingTasks, DisposeTasks, ShutDown
  <2>3. Sources(r) \subseteq QueueIds
    BY <1>1 DEF TypeOK, Sources
  <2> QED
    BY <1>2, <2>1, <2>2, <2>3 DEF IsSubsumed, Sources, Visible
<1>11. ASSUME NEW q \in QueueIds, DestroyLoop(q) PROVE Covered(r)'
  <2>1. r # q /\ pc'[r] = pc[r] /\ wake'[r] = wake[r]
    BY <1>1, <1>11 DEF DestroyLoop, Dispose, MLTypeOK, TypeOK
  <2>2. \A s \in QueueIds : primary'[s] \subseteq primary[s] /\ secondary'[s] \subseteq secondary[s]
    BY <1>11 DEF DestroyLoop, Dispose, ShutDown
  <2>3. CASE r \in Sources(q)
    <3>1. primary'[r] = {} /\ secondary'[r] = {} /\ owner_of'[r] = {}
      BY <1>11, <2>3 DEF DestroyLoop, Dispose, ShutDown
    <3> QED
      BY <3>1 DEF Covered, ToCover, Sources, Visible
  <2>4. CASE r \notin Sources(q)
    <3>1. owner_of'[r] = owner_of[r] /\ subsumed_by'[r] = subsumed_by[r] /\ pauses'[r] = pauses[r]
      BY <1>11, <2>4 DEF DestroyLoop, Dispose
    <3>2. Sources(r) \subseteq QueueIds
      BY <1>1 DEF TypeOK, Sources
    <3> QED
      BY <1>2, <2>1, <2>2, <3>1, <3>2 DEF IsSubsumed, Sources, Visible
  <2> QED
    BY <2>3, <2>4
<1>12. ASSUME NEW q \in QueueIds, NEW time, NEW grade, RegisterTask(q, time, grade), pc' = pc
       PROVE  Covered(r)'
  <2> DEFINE woken == IF IsSubsumed(q) THEN subsumed_by[q] ELSE q
  <2>1. /\ UNCHANGED <<owner_of, subsumed_by, pauses>>
        /\ \A s \in QueueIds \ {q} : primary'[s] = primary[s] /\ secondary'[s] = secondary[s]
        /\ WakeUpAsNeeded({woken})
        /\ q \in queue_entries
    BY <1>1, <1>12 DEF RegisterTask, TypeOK
  <2>2. CASE q \in Sources(r)
    <3>1. r # kUnmerged /\ ~IsSubsumed(r)
      BY <2>1, BoundsAssumption DEF kUnmerged, QueueIds, IsSubsumed
    <3>2. CASE r = q
      BY <1>4, <1>12, <2>1, <3>1, <3>2
    <3>3. CASE r # q
      <4>1. q \in owner_of[r]
        BY <2>2, <3>3 DEF Sources
      <4>2. r = woken /\ r \in queue_entries
        BY <1>1, <3>1, <4>1 DEF MergeShape, Sources, IsSubsumed
      <4> QED
        BY <1>4, <1>12, <2>1, <4>2
    <3> QED
      BY <3>2, <3>3
  <2>3. CASE q \notin Sources(r)
    <3>1. r # woken
      BY <1>1, <2>3 DEF MergeShape, Sources, IsSubsumed
    <3>2. wake'[r] = wake[r]
      BY <2>1, <3>1 DEF WakeUpAsNeeded
    <3>3. Sources(r) \subseteq QueueIds
      BY <1>1 DEF TypeOK, Sources
    <3> QED
      BY <1>2, <1>12, <2>1, <2>3, <3>2, <3>3 DEF IsSubsumed, Sources, Visible
  <2> QED
    BY <2>2, <2>3
<1>13. ASSUME NEW q \in QueueIds, RegisterMicrotask(q) PROVE Covered(r)'
  BY <1>12, <1>13 DEF RegisterMicrotask
<1>14. ASSUME NEW p \in Posters, PostTaskRegister(p) PROVE Covered(r)'
  <2>1. posting[p].queue \in QueueIds
    BY <1>1, <1>14 DEF MLTypeOK, PostTaskRegister, PostCall
  <2> QED
    BY <1>12, <1>14, <2>1 DEF PostTaskRegister
<1>15. ASSUME NEW q \in QueueIds, NEW subsumed \in QueueIds, MergeLoops(q, subsumed)
       PROVE  Covered(r)'
  <2>1. Merge(q, subsumed) /\ pc' = pc
    BY <1>15 DEF MergeLoops
  <2>2. UNCHANGED <<primary, secondary, pauses>> /\ q \in queue_entries
    BY <2>1 DEF Merge
  <2>3. CASE r = q
    BY <1>4, <2>1, <2>2, <2>3 DEF Merge
  <2>4. CASE r # q
    <3>1. wake'[r] = wake[r] /\ owner_of'[r] = owner_of[r] /\ ~IsSubsumed(r)
      BY <1>1, <2>1, <2>4 DEF Merge, WakeUpAsNeeded, TypeOK, IsSubsumed
    <3> QED
      BY <1>2, <2>1, <2>2, <3>1 DEF Sources, Visible
  <2> QED
    BY <2>3, <2>4
<1>16. ASSUME NEW q \in QueueIds, NEW subsumed \in QueueIds, UnmergeLoops(q, subsumed)
       PROVE  Covered(r)'
  <2>1. Unmerge(q, subsumed) /\ pc' = pc
    BY <1>16 DEF UnmergeLoops
  <2>2. UNCHANGED <<primary, secondary, pauses>> /\ {q, subsumed} \subseteq queue_entries
    BY <2>1 DEF Unmerge
  <2>3. CASE r \in {q, subsumed}
    BY <1>4, <2>1, <2>2, <2>3 DEF Unmerge
  <2>4. CASE r \notin {q, subsumed}
    <3>1. wake'[r] = wake[r] /\ owner_of'[r] = owner_of[r] /\ ~IsSubsumed(r)
      BY <1>1, <2>1, <2>4 DEF Unmerge, WakeUpAsNeeded, TypeOK, IsSubsumed
    <3> QED
      BY <1>2, <2>1, <2>2, <3>1 DEF Sources, Visible
  <2> QED
    BY <2>3, <2>4
<1>17. ASSUME NEW q \in QueueIds, Pause(q) PROVE Covered(r)'
  <2>1. /\ UNCHANGED <<owner_of, subsumed_by, primary, secondary, wake, pc>>
        /\ pauses'[r] >= pauses[r] /\ pauses[r] \in Int
    BY <1>1, <1>17, BoundsAssumption DEF Pause, PauseSecondarySource, TypeOK
  <2>2. pauses'[r] \in Int
    BY <1>1, BoundsAssumption DEF TypeOK
  <2>3. Visible(r)' \subseteq Visible(r)
    BY <2>1, <2>2 DEF Visible
  <2> QED
    BY <1>2, <2>1, <2>3 DEF IsSubsumed, Sources
<1>18. ASSUME NEW q \in QueueIds, Resume(q) PROVE Covered(r)'
  <2>1. /\ ResumeSecondarySource(q) /\ pc' = pc
        /\ UNCHANGED <<owner_of, subsumed_by, primary, secondary>>
        /\ q \in queue_entries
    BY <1>18 DEF Resume, ResumeSecondarySource
  <2>2. CASE r = q
    BY <1>4, <2>1, <2>2 DEF ResumeSecondarySource
  <2>3. CASE r # q
    <3>1. wake'[r] = wake[r] /\ pauses'[r] = pauses[r]
      BY <1>1, <2>1, <2>3 DEF ResumeSecondarySource, WakeUpAsNeeded, TypeOK
    <3> QED
      BY <1>2, <2>1, <3>1 DEF IsSubsumed, Sources, Visible
  <2> QED
    BY <2>2, <2>3
<1>19. ASSUME NEW q \in QueueIds, NEW p \in Posters,
              \/ PollError(q) \/ JoinReturns(q) \/ Join(p, q)
              \/ \E delay \in Times : PostTask(p, q, delay)
       PROVE  Covered(r)'
  BY <1>3, <1>19 DEF PollError, JoinReturns, Join, PostTask
<1>20. ASSUME NEW q \in QueueIds, PollError(q) \/ JoinReturns(q) PROVE Covered(r)'
  BY <1>3, <1>20 DEF PollError, JoinReturns
<1>21. CASE Tick \/ UNCHANGED mlVars
  BY <1>3, <1>21 DEF Tick, mlVars
<1> QED
  BY <1>5, <1>6, <1>7, <1>8, <1>9, <1>10, <1>11, <1>13, <1>14, <1>15, <1>16, <1>17,
     <1>18, <1>19, <1>20, <1>21 DEF MLNext, LoopStep

\* A loop about to sleep in pollOnce has its timer set for every task it has to
\* run, whatever was posted, merged, un-merged, paused or resumed meanwhile.
THEOREM WakeCoversPendingInvariant == MLSpec => []WakeCoversPending
<1>1. MLInit => WakeInv
  <2>1. MLInit => MLTypeOK
    BY TypeInit, BoundsAssumption, LoopAssumption DEF MLInit, MLTypeOK, Times
  <2>2. MLInit => MergeShape
    BY BoundsAssumption
       DEF MLInit, Init, MergeShape, IsSubsumed, Sources, kUnmerged, QueueIds
  <2>3. MLInit => LoopsCovered /\ WakeablesSet
    BY DEF MLInit, Init, LoopsCovered, WakeablesSet
  <2>4. MLInit => UnbornUnknown
    BY BoundsAssumption
       DEF MLInit, Init, UnbornUnknown, Unknown, Pending, NoPost, kUnmerged, QueueIds
  <2> QED
    BY <2>1, <2>2, <2>3, <2>4 DEF WakeInv
<1>2. WakeInv /\ [MLNext]_mlVars => WakeInv'
  <2> SUFFICES ASSUME WakeInv, [MLNext]_mlVars PROVE WakeInv'
    OBVIOUS
  <2>1. MLTypeOK'
    BY MLTypeStep DEF WakeInv
  <2>2. MergeShape'
    BY QueuesStep, MergeShapeStep DEF WakeInv, MLTypeOK
  <2>3. LoopsCovered'
    BY <2>1, LoopsCoveredStep
  <2>4. WakeablesSet' /\ UnbornUnknown'
    BY WakeablesSetStep, UnbornUnknownStep DEF WakeInv
  <2> QED
    BY <2>1, <2>2, <2>3, <2>4 DEF WakeInv
<1>3. WakeInv => WakeCoversPending
  BY DEF WakeInv, LoopsCovered, Covered, ToCover, WakeCoversPending
<1> QED
  BY <1>1, <1>2, <1>3, PTL DEF MLSpec
=============================================================================
