---------------------------- MODULE MessageLoop -----------------------------
(* The message loops on top of TaskQueues: MessageLoopImpl                   *)
(* (message_loop_impl.cc), its Android implementation on an ALooper and a    *)
(* timerfd (android/message_loop_android.cc), TaskRunner::PostTask and       *)
(* Thread::Join (task_runner.cc, thread.cc).                                 *)
(*                                                                           *)
(* The loop of queue q is a thread; pc[q] says where it is:                  *)
(*   absent  the thread has not constructed its loop                         *)
(*   ctor    between CreateTaskQueue and SetWakeable of the constructor      *)
(*   ready   constructed, DoRun not yet called                               *)
(*   poll    in Run, at the test of running_ before ALooper_pollOnce         *)
(*   flush   in FlushTasks, about to call GetNextTaskToRun                   *)
(*   task    in FlushTasks, inside the invocation or its observers           *)
(*   lflush, ltask   the same in the last flush of DoRun                     *)
(*   dispose in DoRun, about to call DisposeTasks                            *)
(*   exited  DoRun has returned and the thread is over                       *)
(*   gone    the last reference was released and the loop destroyed          *)
(* Other threads post tasks: PostTask tests terminated_ and then calls       *)
(* RegisterTask, with any steps of others in between.                        *)
EXTENDS TaskQueues

CONSTANTS
    Posters,        \* threads that call PostTask or Join
    Joined,         \* the loops whose Thread is joined
    MaxMerges       \* bound on the number of calls of Merge

ASSUME LoopAssumption ==
    /\ MaxMerges \in Nat
    /\ Joined \subseteq QueueIds
    /\ "kUnspecified" \in UsedGrades

VARIABLES
    pc,             \* where the loop's thread is
    running,        \* MessageLoopAndroid::running_
    terminated,     \* MessageLoopImpl::terminated_
    from_time,      \* the local now of FlushTasks
    now,            \* the monotonic clock
    posting,        \* the PostTask call a poster is in the middle of
    terminators,    \* serial numbers of the tasks Thread::Join posted
    join,           \* Thread::Join of the loop's thread
    merges          \* number of merges so far

loopVars == <<running, terminated, from_time>>
otherVars == <<posting, terminators, join, merges>>
mlVars == <<vars, pc, loopVars, now, otherVars>>

NoPost == [queue |-> kUnmerged]
PostCall == [queue : QueueIds, time : Times, terminate : BOOLEAN]

MLInit ==
    /\ Init
    /\ pc = [q \in QueueIds |-> "absent"]
    /\ running = [q \in QueueIds |-> FALSE]
    /\ terminated = [q \in QueueIds |-> FALSE]
    /\ from_time = [q \in QueueIds |-> 0]
    /\ now = 0
    /\ posting = [p \in Posters |-> NoPost]
    /\ terminators = {}
    /\ join = [q \in QueueIds |-> "no"]
    /\ merges = 0

Goto(q, label) == pc' = [pc EXCEPT ![q] = label]

-----------------------------------------------------------------------------
(* The loop's own thread                                                     *)

\* MessageLoopImpl::MessageLoopImpl, the first step.
CreateLoop(q) ==
    /\ pc[q] = "absent" /\ q = task_queue_id_counter
    /\ CreateTaskQueue
    /\ Goto(q, "ctor")
    /\ UNCHANGED <<loopVars, now, otherVars>>

\* ... and the second.
CreateLoopEnd(q) ==
    /\ pc[q] = "ctor"
    /\ SetWakeable(q)
    /\ Goto(q, "ready")
    /\ UNCHANGED <<loopVars, now, otherVars>>

\* DoRun up to the loop of Run.  A second DoRun finds terminated_ set and
\* returns without a step.
DoRun(q) ==
    /\ pc[q] = "ready" /\ ~terminated[q]
    /\ running' = [running EXCEPT ![q] = TRUE]
    /\ Goto(q, "poll")
    /\ UNCHANGED <<vars, terminated, from_time, now, otherVars>>

\* ALooper_pollOnce runs the callback of the timer: TimerDrain, then
\* FlushTasks, which reads the clock once.
OnEventFired(q) ==
    /\ pc[q] = "poll" /\ running[q]
    /\ wake[q] <= now
    /\ \E again \in {t \in Times : t > now} \cup {NoWake} : WakeableFires(q, again)
    /\ from_time' = [from_time EXCEPT ![q] = now]
    /\ Goto(q, "flush")
    /\ UNCHANGED <<running, terminated, now, otherVars>>

\* ALooper_pollOnce fails.  DisposeTasks asserts that the queue of a loop that
\* ends is not subsumed; the failure is assumed to spare subsumed loops.
PollError(q) ==
    /\ pc[q] = "poll" /\ running[q]
    /\ ~IsSubsumed(q)
    /\ running' = [running EXCEPT ![q] = FALSE]
    /\ UNCHANGED <<vars, pc, terminated, from_time, now, otherVars>>

\* Mutant: the flush also runs what is not due yet.
FlushTasksAhead(q) ==
    /\ pc[q] \in {"flush", "lflush"}
    /\ GetNextTaskToRun(q, MaxTime)
    /\ Goto(q, IF invocation'[q] # NoTask
               THEN IF pc[q] = "flush" THEN "task" ELSE "ltask"
               ELSE IF pc[q] = "flush" THEN "poll" ELSE "dispose")
    /\ UNCHANGED <<loopVars, now, otherVars>>

\* One iteration of FlushTasks up to the invocation.  The flush is over when
\* there is nothing to run.
FlushTasks(q) ==
    /\ pc[q] \in {"flush", "lflush"}
    /\ GetNextTaskToRun(q, from_time[q])
    /\ Goto(q, IF invocation'[q] # NoTask
               THEN IF pc[q] = "flush" THEN "task" ELSE "ltask"
               ELSE IF pc[q] = "flush" THEN "poll" ELSE "dispose")
    /\ UNCHANGED <<loopVars, now, otherVars>>

\* Mutant: the loop is told that it was terminated, Run is not.
TaskReturnsRunning(q) ==
    /\ pc[q] \in {"task", "ltask"}
    /\ terminated' = [terminated EXCEPT ![q] =
                        @ \/ invocation[q].task.order \in terminators]
    /\ Goto(q, IF pc[q] = "task" THEN "flush" ELSE "lflush")
    /\ UNCHANGED <<vars, running, from_time, now, otherVars>>

\* The invocation and its observers return.  A task posted by Thread::Join
\* terminates the loop of the thread it runs on (DoTerminate); the ALooper_wake
\* is without effect there, since pollOnce is about to return anyway.
TaskReturns(q) ==
    /\ pc[q] \in {"task", "ltask"}
    /\ IF invocation[q].task.order \in terminators
       THEN /\ terminated' = [terminated EXCEPT ![q] = TRUE]
            /\ running' = [running EXCEPT ![q] = FALSE]
       ELSE UNCHANGED <<terminated, running>>
    /\ Goto(q, IF pc[q] = "task" THEN "flush" ELSE "lflush")
    /\ UNCHANGED <<vars, from_time, now, otherVars>>

\* Run returns to DoRun, which sets terminated_ and flushes a last time.
RunReturns(q) ==
    /\ pc[q] = "poll" /\ ~running[q]
    /\ terminated' = [terminated EXCEPT ![q] = TRUE]
    /\ from_time' = [from_time EXCEPT ![q] = now]
    /\ Goto(q, "lflush")
    /\ UNCHANGED <<vars, running, now, otherVars>>

\* DoRun drops the pending tasks and the thread ends.
DropPendingTasks(q) ==
    /\ pc[q] = "dispose"
    /\ DisposeTasks(q)
    /\ Goto(q, "exited")
    /\ UNCHANGED <<loopVars, now, otherVars>>

\* MessageLoopImpl::~MessageLoopImpl, once neither the thread nor a TaskRunner
\* in the hands of a poster or of a Thread refers to the loop.
DestroyLoop(q) ==
    /\ pc[q] = "exited" /\ join[q] = "done"
    /\ \A p \in Posters : posting[p].queue # q
    /\ Dispose(q)
    /\ Goto(q, "gone")
    /\ UNCHANGED <<loopVars, now, otherVars>>

-----------------------------------------------------------------------------
(* Other threads                                                             *)

\* The bound on the number of tasks leaves room for the calls of RegisterTask
\* that have begun and for the one of each Join.
RoomForATask ==
    order + Cardinality({p \in Posters : posting[p] # NoPost})
          + Cardinality({q \in Joined : join[q] = "no"}) < MaxTasks

\* TaskRunner::PostTask and PostDelayedTask up to the test of terminated_; a
\* task for a terminated loop is dropped without a step.
PostTask(p, q, delay) ==
    /\ posting[p] = NoPost
    /\ pc[q] \notin {"absent", "ctor", "gone"}
    /\ ~terminated[q]
    /\ RoomForATask
    /\ now + delay <= MaxTime
    /\ posting' = [posting EXCEPT ![p] =
                    [queue |-> q, time |-> now + delay, terminate |-> FALSE]]
    /\ UNCHANGED <<vars, pc, loopVars, now, terminators, join, merges>>

\* Thread::Join up to the same test in its PostTask.
Join(p, q) ==
    /\ posting[p] = NoPost
    /\ pc[q] \notin {"absent", "ctor", "gone"}
    /\ q \in Joined /\ join[q] = "no"
    /\ join' = [join EXCEPT ![q] = "joining"]
    /\ posting' = [posting EXCEPT ![p] =
                    IF terminated[q] THEN @
                    ELSE [queue |-> q, time |-> now, terminate |-> TRUE]]
    /\ UNCHANGED <<vars, pc, loopVars, now, terminators, merges>>

\* The rest of PostTask.
PostTaskRegister(p) ==
    /\ posting[p] # NoPost
    /\ RegisterTask(posting[p].queue, posting[p].time, "kUnspecified")
    /\ terminators' = terminators \cup
                        (IF posting[p].terminate THEN {order} ELSE {})
    /\ posting' = [posting EXCEPT ![p] = NoPost]
    /\ UNCHANGED <<pc, loopVars, now, join, merges>>

\* std::thread::join returns to Thread::Join.
JoinReturns(q) ==
    /\ join[q] = "joining" /\ pc[q] = "exited"
    /\ join' = [join EXCEPT ![q] = "done"]
    /\ UNCHANGED <<vars, pc, loopVars, now, posting, terminators, merges>>

\* A microtask is registered with a queue directly, whether its loop runs, ends or
\* has ended.
RegisterMicrotask(q) ==
    /\ pc[q] \notin {"absent", "ctor", "gone"}
    /\ RoomForATask
    /\ "kDartMicroTasks" \in UsedGrades
    /\ RegisterTask(q, now, "kDartMicroTasks")
    /\ UNCHANGED <<pc, loopVars, now, otherVars>>

\* Callers merge only loops that are running, and do not subsume a queue whose
\* loop is inside a task: that task could terminate the loop, and DisposeTasks
\* asserts that the queue of a loop that ends is not subsumed.
MergeLoops(owner, subsumed) ==
    /\ merges < MaxMerges
    /\ running[owner] /\ running[subsumed]
    /\ pc[subsumed] = "poll"
    /\ Merge(owner, subsumed)
    /\ merges' = merges + 1
    /\ UNCHANGED <<pc, loopVars, now, posting, terminators, join>>

UnmergeLoops(owner, subsumed) ==
    /\ Unmerge(owner, subsumed)
    /\ UNCHANGED <<pc, loopVars, now, otherVars>>

Pause(q) == PauseSecondarySource(q) /\ UNCHANGED <<pc, loopVars, now, otherVars>>

Resume(q) == ResumeSecondarySource(q) /\ UNCHANGED <<pc, loopVars, now, otherVars>>

Tick ==
    /\ now < MaxTime
    /\ now' = now + 1
    /\ UNCHANGED <<vars, pc, loopVars, otherVars>>

-----------------------------------------------------------------------------
LoopStep(q) ==
    \/ CreateLoop(q)
    \/ CreateLoopEnd(q)
    \/ DoRun(q)
    \/ OnEventFired(q)
    \/ FlushTasks(q)
    \/ TaskReturns(q)
    \/ RunReturns(q)
    \/ DropPendingTasks(q)

MLNext ==
    \/ \E q \in QueueIds :
        \/ LoopStep(q)
        \/ PollError(q)
        \/ DestroyLoop(q)
        \/ JoinReturns(q)
        \/ RegisterMicrotask(q)
        \/ Pause(q)
        \/ Resume(q)
        \/ \E p \in Posters :
            \/ \E delay \in Times : PostTask(p, q, delay)
            \/ Join(p, q)
        \/ \E subsumed \in QueueIds : MergeLoops(q, subsumed)
        \/ \E subsumed \in QueueIds : UnmergeLoops(q, subsumed)
    \/ \E p \in Posters : PostTaskRegister(p)
    \/ Tick

MLSpec == MLInit /\ [][MLNext]_mlVars

\* The scheduler runs every thread that can make a step, std::thread::join
\* returns once the thread is over, and time passes.
MLFairness ==
    /\ \A q \in QueueIds : WF_mlVars(LoopStep(q)) /\ WF_mlVars(JoinReturns(q))
    /\ \A p \in Posters : WF_mlVars(PostTaskRegister(p))
    /\ WF_mlVars(Tick)

MLFairSpec == MLSpec /\ MLFairness

-----------------------------------------------------------------------------
(* Properties                                                                *)

MLTypeOK ==
    /\ TypeOK
    /\ pc \in [QueueIds -> {"absent", "ctor", "ready", "poll", "flush", "task",
                            "lflush", "ltask", "dispose", "exited", "gone"}]
    /\ running \in [QueueIds -> BOOLEAN]
    /\ terminated \in [QueueIds -> BOOLEAN]
    /\ from_time \in [QueueIds -> Times]
    /\ now \in Times
    /\ posting \in [Posters -> PostCall \cup {NoPost}]
    /\ terminators \subseteq 0 .. MaxTasks - 1
    /\ join \in [QueueIds -> {"no", "joining", "done"}]
    /\ merges \in 0 .. MaxMerges

\* A loop that is about to sleep in pollOnce has its timer set for every task it
\* has to run: no call of RegisterTask, Merge, Unmerge or ResumeSecondarySource
\* and no order of flush, drain and re-arm leaves a task without a wake-up.
\* Left out are the microtasks of subsumed queues, see WakeCoversAll.
WakeCoversPending ==
    \A q \in QueueIds : (pc[q] = "poll" /\ running[q] /\ ~IsSubsumed(q)) =>
        \A s \in Sources(q) :
            \A t \in (IF s = q THEN Visible(s) ELSE primary[s]) : wake[q] <= t.time

\* The same for every visible task.  ResumeSecondarySource says it will
\* "Schedule a wake as needed"; for a subsumed queue it asks whether that queue
\* has pending tasks, which a subsumed queue never has.
WakeCoversAll ==
    \A q \in QueueIds : (pc[q] = "poll" /\ running[q] /\ ~IsSubsumed(q)) =>
        \A s \in Sources(q) : \A t \in Visible(s) : wake[q] <= t.time

\* No task runs before its target time, on whichever loop: the clock is read
\* before the flush and the task may have come from another queue since.
NotBeforeItsTime ==
    \A q \in QueueIds : pc[q] \in {"task", "ltask"} =>
        /\ invocation[q] # NoTask
        /\ invocation[q].task.time <= from_time[q]
        /\ from_time[q] <= now

\* Once DoRun has dropped the pending tasks on the loop's thread, none is left to
\* be destroyed elsewhere (message_loop_impl.cc, comment on DisposeTasks).
NothingLeftBehind ==
    \A q \in QueueIds : pc[q] = "exited" => Pending(q) = {}

Waiting(k) == \E q \in QueueIds : \E t \in primary[q] : t.order = k

\* A task that is registered is eventually run or disposed of, unless some loop
\* ends: its timer fires, and merging its queue away and back does not lose it.
TasksAreRun ==
    \A k \in 0 .. MaxTasks - 1 :
        Waiting(k) ~> (~Waiting(k) \/ \E q \in QueueIds : terminated[q])

\* Thread::Join returns: the task it posts ends the loop of the thread it waits
\* for, or the loop has ended by itself.  Only a merge may send that task to the
\* loop of another thread.
JoinCompletes ==
    \A q \in QueueIds : join[q] = "joining" ~> (join[q] = "done" \/ merges > 0)
=============================================================================
