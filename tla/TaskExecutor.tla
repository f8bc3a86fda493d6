---------------------------- MODULE TaskExecutor ----------------------------
(* ArchTaskExecutor and DefaultTaskExecutor, the threads of their ThreadHost *)
(* (thread_host.cc, thread.cc) and the loops of those threads                *)
(* (message_loop.cc), as MainViewModel uses them: one executor at a time,    *)
(* created, used and destroyed on the main thread, whose own loop is served  *)
(* by the looper of the platform and outlives the executors.                 *)
(*                                                                           *)
(* A loop is a sequence of closures, all posted for the time they are posted *)
(* at; MessageLoop has what this leaves out.                                 *)
EXTENDS Integers, Sequences, FiniteSets

CONSTANTS
    DiskTasks,          \* closures for executeOnDiskIO
    MainTasks,          \* closures for postToMainThread and executeOnMainThread
    MaxExecutors        \* bound on the number of executors created

ASSUME ExecutorAssumption ==
    /\ MaxExecutors \in Nat
    /\ DiskTasks \cap MainTasks = {}

VARIABLES
    epc,                \* where the main thread is
    at,                 \* which thread it creates or joins
    tpc,                \* where each thread of the host is
    runner,             \* the local runner of Thread::Thread, and its latch
    latch,
    task_runner,        \* Thread::task_runner_
    tls_message_loop,   \* the threads that have a loop
    loop_tasks,         \* what is posted to each loop
    executors,          \* number of executors so far
    ran                 \* the closures that have run, each with its thread

execVars == <<epc, at, tpc, runner, latch, task_runner, tls_message_loop,
              loop_tasks, executors, ran>>

Main == "main"
NoRunner == "no runner"
Terminate_ == "terminate"

\* ThreadHost creates the threads its mask names, in this order; the mask of the
\* executor leaves out Profiler.
HostTypes == <<"Platform", "UI", "RASTER", "IO", "Profiler">>
TypeMask == {"IO", "Platform", "UI", "RASTER"}
HostThreads == <<"Platform", "UI", "RASTER", "IO">>
LoopThreads == TypeMask \cup {Main}

ASSUME HostAssumption ==
    HostThreads = SelectSeq(HostTypes, LAMBDA type : type \in TypeMask)

\* Where a thread of the host can be, but for the closure that it runs.
Places == {"none", "started", "ready", "run", "last", "ended"}

ASSUME ClosureAssumption ==
    (DiskTasks \cup MainTasks) \cap (Places \cup {Terminate_}) = {}

ExecInit ==
    /\ epc = "none" /\ at = 0
    /\ tpc = [t \in TypeMask |-> "none"]
    /\ runner = NoRunner /\ latch = FALSE
    /\ task_runner = [t \in TypeMask |-> NoRunner]
    /\ tls_message_loop = {}
    /\ loop_tasks = [t \in LoopThreads |-> <<>>]
    /\ executors = 0
    /\ ran = {}

-----------------------------------------------------------------------------
(* The main thread                                                           *)

\* The next thread of the host: Thread::Thread up to the wait for the latch.
CreateThread ==
    /\ \/ epc = "none" /\ executors < MaxExecutors /\ executors' = executors + 1
       \/ epc = "create" /\ UNCHANGED executors
    /\ at < Len(HostThreads)
    /\ at' = at + 1
    /\ epc' = "wait"
    /\ runner' = NoRunner /\ latch' = FALSE
    /\ tpc' = [tpc EXCEPT ![HostThreads[at + 1]] = "started"]
    /\ UNCHANGED <<task_runner, tls_message_loop, loop_tasks, ran>>

ThreadCreated ==
    /\ epc = "wait" /\ latch
    /\ latch' = FALSE
    /\ task_runner' = [task_runner EXCEPT ![HostThreads[at]] = runner]
    /\ epc' = "create"
    /\ UNCHANGED <<at, tpc, runner, tls_message_loop, loop_tasks, executors, ran>>

\* The rest of the constructor: the main thread gets a loop if it has none.
ExecutorCreated ==
    /\ epc = "create" /\ at = Len(HostThreads)
    /\ tls_message_loop' = tls_message_loop \cup {Main}
    /\ epc' = "use"
    /\ UNCHANGED <<at, tpc, runner, latch, task_runner, loop_tasks, executors, ran>>

\* TaskRunner::PostTask
PostTo(t, task) == loop_tasks' = [loop_tasks EXCEPT ![t] = Append(@, task)]

NotPosted(task) == \A t \in LoopThreads :
    /\ <<task, t>> \notin ran
    /\ \A i \in DOMAIN loop_tasks[t] : loop_tasks[t][i] # task
    /\ t \in TypeMask => tpc[t] # task

ExecuteOnDiskIO(task) ==
    /\ epc = "use" /\ NotPosted(task)
    /\ PostTo(task_runner["IO"], task)
    /\ UNCHANGED <<epc, at, tpc, runner, latch, task_runner, tls_message_loop,
                   executors, ran>>

PostToMainThread(task) ==
    /\ epc = "use" /\ NotPosted(task)
    /\ PostTo(Main, task)
    /\ UNCHANGED <<epc, at, tpc, runner, latch, task_runner, tls_message_loop,
                   executors, ran>>

\* The looper of the main thread gets to the loop between two calls of the app.
MainRunsTask ==
    /\ epc \in {"use", "none"}
    /\ loop_tasks[Main] # <<>>
    /\ ran' = ran \cup {<<Head(loop_tasks[Main]), Main>>}
    /\ loop_tasks' = [loop_tasks EXCEPT ![Main] = Tail(@)]
    /\ UNCHANGED <<epc, at, tpc, runner, latch, task_runner, tls_message_loop, executors>>

\* ~ArchTaskExecutor destroys the members of the host, last one first: ~Thread
\* posts a closure that terminates the loop it runs in, and joins.
JoinThread ==
    /\ epc \in {"use", "join"} /\ at > 0
    /\ PostTo(task_runner[HostThreads[at]], Terminate_)
    /\ epc' = "joining"
    /\ UNCHANGED <<at, tpc, runner, latch, task_runner, tls_message_loop, executors, ran>>

ThreadJoined ==
    /\ epc = "joining" /\ tpc[HostThreads[at]] = "ended"
    /\ tpc' = [tpc EXCEPT ![HostThreads[at]] = "none"]
    /\ task_runner' = [task_runner EXCEPT ![HostThreads[at]] = NoRunner]
    /\ at' = at - 1
    /\ epc' = IF at = 1 THEN "none" ELSE "join"
    /\ UNCHANGED <<runner, latch, tls_message_loop, loop_tasks, executors, ran>>

-----------------------------------------------------------------------------
(* A thread of the host                                                      *)

\* EnsureInitializedForCurrentThread and GetTaskRunner ...
StartLoop(t) ==
    /\ tpc[t] = "started"
    /\ tls_message_loop' = tls_message_loop \cup {t}
    /\ runner' = t
    /\ tpc' = [tpc EXCEPT ![t] = "ready"]
    /\ UNCHANGED <<epc, at, latch, task_runner, loop_tasks, executors, ran>>

\* Mutant: the latch is signalled only after loop.Run().
SignalCreatorLate(t) ==
    /\ tpc[t] = "ready"
    /\ tpc' = [tpc EXCEPT ![t] = "run"]
    /\ UNCHANGED <<epc, at, runner, latch, task_runner, tls_message_loop, loop_tasks,
                   executors, ran>>

\* ... and the signal.
SignalCreator(t) ==
    /\ tpc[t] = "ready"
    /\ latch' = TRUE
    /\ tpc' = [tpc EXCEPT ![t] = "run"]
    /\ UNCHANGED <<epc, at, runner, task_runner, tls_message_loop, loop_tasks,
                   executors, ran>>

\* The loop takes its next closure.
TakeTask(t) ==
    /\ tpc[t] = "run" /\ loop_tasks[t] # <<>>
    /\ tpc' = [tpc EXCEPT ![t] = Head(loop_tasks[t])]
    /\ loop_tasks' = [loop_tasks EXCEPT ![t] = Tail(@)]
    /\ UNCHANGED <<epc, at, runner, latch, task_runner, tls_message_loop, executors, ran>>

TaskEnds(t) ==
    /\ tpc[t] \in DiskTasks \cup MainTasks \cup {Terminate_}
    /\ tpc' = [tpc EXCEPT ![t] = IF tpc[t] = Terminate_ THEN "last" ELSE "run"]
    /\ ran' = ran \cup ({<<tpc[t], t>>} \ {<<Terminate_, t>>})
    /\ UNCHANGED <<epc, at, runner, latch, task_runner, tls_message_loop, loop_tasks,
                   executors>>

\* The flush after RunImpl finds nothing: what terminates a loop was posted last.
LoopEnds(t) ==
    /\ tpc[t] = "last" /\ loop_tasks[t] = <<>>
    /\ tpc' = [tpc EXCEPT ![t] = "ended"]
    /\ tls_message_loop' = tls_message_loop \ {t}
    /\ UNCHANGED <<epc, at, runner, latch, task_runner, loop_tasks, executors, ran>>

-----------------------------------------------------------------------------
MainWorks == CreateThread \/ ThreadCreated \/ ExecutorCreated \/ ThreadJoined

ThreadStep(t) == StartLoop(t) \/ SignalCreator(t) \/ TakeTask(t) \/ TaskEnds(t) \/ LoopEnds(t)

ExecNext ==
    \/ MainWorks \/ JoinThread \/ MainRunsTask
    \/ \E task \in DiskTasks : ExecuteOnDiskIO(task)
    \/ \E task \in MainTasks : PostToMainThread(task)
    \/ \E t \in TypeMask : ThreadStep(t)

ExecSpec == ExecInit /\ [][ExecNext]_execVars

-----------------------------------------------------------------------------
\* The executor that is used has a runner and a loop for every thread; closures
\* run on the thread they are for; and a thread leaves nothing behind in its
\* loop, for what terminates it was posted last.
ExecutorInPlace ==
    /\ epc = "use" => \A t \in TypeMask : task_runner[t] = t /\ t \in tls_message_loop
    /\ ran \subseteq (DiskTasks \X {"IO"}) \cup (MainTasks \X {Main})
    /\ \A t \in TypeMask : tpc[t] \in {"last", "ended", "none"} => loop_tasks[t] = <<>>

\* The constructor comes to its end, and the destructor does: no thread waits for
\* a latch, a runner or a loop that the other side does not provide.  By then
\* the threads are over and have run all they were given, while closures for the
\* main thread wait for it, across executors too.
ExecutorServes ==
    /\ epc = "wait" ~> epc = "use"
    /\ epc = "joining" ~> epc = "none" /\ \A t \in TypeMask : loop_tasks[t] = <<>>
    /\ []ExecutorInPlace
=============================================================================
