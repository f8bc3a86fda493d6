--------------------------- MODULE ConcurrentLoop ---------------------------
(* ConcurrentMessageLoop and ConcurrentTaskRunner                            *)
(* (concurrent_message_loop.cc): a pool of worker threads that share a queue *)
(* of tasks under tasks_mutex_ and sleep on tasks_condition_, with a         *)
(* reference-counted lifetime.                                               *)
(*                                                                           *)
(* A region under tasks_mutex_ is one action.  tasks_condition_ is the set   *)
(* of the workers at "waiting"; a notified worker goes back to "test", where *)
(* wait() evaluates its predicate again with the mutex held.                 *)
EXTENDS Integers, Sequences, FiniteSets, SequencesExt

CONSTANTS
    Workers,        \* the threads of workers_
    Posters,        \* other threads that own a ConcurrentTaskRunner
    Owner,          \* the thread that owns the loop's first shared_ptr
    Tasks,          \* closures given to PostTask, each once
    Broadcasts,     \* closures given to PostTaskToAllWorkers, each once
    WorkersPost     \* do tasks themselves post through a ConcurrentTaskRunner?

ASSUME ThreadsAssumption ==
    /\ Workers # {}
    /\ Workers \cap Posters = {}
    /\ Owner \notin Workers \cup Posters
    /\ Tasks \cap Broadcasts = {}
    /\ WorkersPost \in BOOLEAN

VARIABLES
    tasks,          \* tasks_
    thread_tasks,   \* thread_tasks_: what each worker has to run for itself
    shutdown,       \* shutdown_
    wpc,            \* where each worker is in WorkerMain
    hand,           \* the closures a worker has taken and not finished
    shutdown_now,   \* the worker's local copy of shutdown_
    post,           \* the call of PostTask, or of the destructor, of a thread
    owner,          \* does Owner still hold its reference to the loop?
    posted,         \* the closures handed to the loop so far
    runs,           \* how often each task has run
    dropped         \* the tasks destroyed with the loop, never run

workerVars == <<wpc, hand, shutdown_now>>
vars == <<tasks, thread_tasks, shutdown, workerVars, post, owner, posted, runs,
          dropped>>

Threads == Workers \cup Posters \cup {Owner}
NoTask == "no task"
Idle == [at |-> "idle", task |-> NoTask]

\* The threads that hold a reference to the loop inside PostTask.
Holders == {p \in Threads : post[p].at \in {"locked", "notify", "inline", "return"}}

HasThreadTasks(w) == thread_tasks[w] # <<>>

\* The predicate of the wait in WorkerMain.
CanProceed(w) == tasks # <<>> \/ shutdown \/ HasThreadTasks(w)

Waiting == {w \in Workers : wpc[w] = "waiting"}

NotifyAll == wpc' = [w \in Workers |-> IF wpc[w] = "waiting" THEN "test" ELSE wpc[w]]

Init ==
    /\ tasks = <<>>
    /\ thread_tasks = [w \in Workers |-> <<>>]
    /\ shutdown = FALSE
    /\ wpc = [w \in Workers |-> "test"]
    /\ hand = [w \in Workers |-> <<>>]
    /\ shutdown_now = [w \in Workers |-> FALSE]
    /\ post = [p \in Threads |-> Idle]
    /\ owner = TRUE
    /\ posted = {}
    /\ runs = [t \in Tasks |-> 0]
    /\ dropped = {}

-----------------------------------------------------------------------------
(* WorkerMain                                                                *)

Wait(w) ==
    /\ wpc[w] = "test" /\ ~CanProceed(w)
    /\ wpc' = [wpc EXCEPT ![w] = "waiting"]
    /\ UNCHANGED <<tasks, thread_tasks, shutdown, hand, shutdown_now, post,
                   owner, posted, runs, dropped>>

SpuriousWakeUp(w) ==
    /\ wpc[w] = "waiting"
    /\ wpc' = [wpc EXCEPT ![w] = "test"]
    /\ UNCHANGED <<tasks, thread_tasks, shutdown, hand, shutdown_now, post,
                   owner, posted, runs, dropped>>

\* Mutant: front() without pop().
TakeTasksNoPop(w) ==
    /\ wpc[w] = "test" /\ CanProceed(w)
    /\ shutdown_now' = [shutdown_now EXCEPT ![w] = shutdown]
    /\ hand' = [hand EXCEPT ![w] =
                  (IF tasks = <<>> THEN <<>> ELSE <<Head(tasks)>>) \o thread_tasks[w]]
    /\ thread_tasks' = [thread_tasks EXCEPT ![w] = <<>>]
    /\ wpc' = [wpc EXCEPT ![w] = "run"]
    /\ UNCHANGED <<tasks, shutdown, post, owner, posted, runs, dropped>>

GetThreadTasksLocked(w) == thread_tasks' = [thread_tasks EXCEPT ![w] = <<>>]

\* At most one task of the shared queue, and all of the worker's own.
TakeTasks(w) ==
    /\ wpc[w] = "test" /\ CanProceed(w)
    /\ shutdown_now' = [shutdown_now EXCEPT ![w] = shutdown]
    /\ hand' = [hand EXCEPT ![w] =
                  (IF tasks = <<>> THEN <<>> ELSE <<Head(tasks)>>) \o thread_tasks[w]]
    /\ tasks' = IF tasks = <<>> THEN tasks ELSE Tail(tasks)
    /\ GetThreadTasksLocked(w)
    /\ wpc' = [wpc EXCEPT ![w] = "run"]
    /\ UNCHANGED <<shutdown, post, owner, posted, runs, dropped>>

\* The closure at the head of the worker's hand returns.
ClosureReturns(w) ==
    /\ wpc[w] = "run" /\ hand[w] # <<>> /\ post[w] = Idle
    /\ hand' = [hand EXCEPT ![w] = Tail(@)]
    /\ runs' = IF Head(hand[w]) \in Tasks
               THEN [runs EXCEPT ![Head(hand[w])] = @ + 1] ELSE runs
    /\ UNCHANGED <<tasks, thread_tasks, shutdown, wpc, shutdown_now, post,
                   owner, posted, dropped>>

NextIteration(w) ==
    /\ wpc[w] = "run" /\ hand[w] = <<>>
    /\ wpc' = [wpc EXCEPT ![w] = IF shutdown_now[w] THEN "exited" ELSE "test"]
    /\ UNCHANGED <<tasks, thread_tasks, shutdown, hand, shutdown_now, post,
                   owner, posted, runs, dropped>>

-----------------------------------------------------------------------------
(* ConcurrentTaskRunner::PostTask and ConcurrentMessageLoop::PostTask        *)

\* Tasks that run may post more.
MayPost(p) ==
    \/ p \in Posters
    \/ p \in Workers /\ WorkersPost /\ wpc[p] = "run" /\ hand[p] # <<>>

\* weak_loop_.lock()
LockLoop(p, t) ==
    /\ MayPost(p) /\ post[p] = Idle
    /\ t \notin posted
    /\ posted' = posted \cup {t}
    /\ post' = [post EXCEPT ![p] =
                  [at |-> IF owner \/ Holders # {} THEN "locked" ELSE "alone",
                   task |-> t]]
    /\ UNCHANGED <<tasks, thread_tasks, shutdown, workerVars, owner, runs, dropped>>

PostTask(p) ==
    /\ post[p].at = "locked"
    /\ IF shutdown
       THEN /\ post' = [post EXCEPT ![p].at = "inline"]
            /\ UNCHANGED tasks
       ELSE /\ tasks' = Append(tasks, post[p].task)
            /\ post' = [post EXCEPT ![p] = [at |-> "notify", task |-> NoTask]]
    /\ UNCHANGED <<thread_tasks, shutdown, workerVars, owner, posted, runs, dropped>>

\* Mutant: nobody is notified.
NotifyNobody(p) ==
    /\ post[p].at = "notify"
    /\ post' = [post EXCEPT ![p].at = "return"]
    /\ UNCHANGED <<tasks, thread_tasks, shutdown, workerVars, owner, posted, runs,
                   dropped>>

\* notify_one, after the mutex was released.
NotifyOne(p) ==
    /\ post[p].at = "notify"
    /\ IF Waiting = {} THEN UNCHANGED wpc
       ELSE \E w \in Waiting : wpc' = [wpc EXCEPT ![w] = "test"]
    /\ post' = [post EXCEPT ![p].at = "return"]
    /\ UNCHANGED <<tasks, thread_tasks, shutdown, hand, shutdown_now, owner,
                   posted, runs, dropped>>

\* The loop is shut down, or gone: the task runs on the caller's thread.
RunOnCaller(p) ==
    /\ post[p].at \in {"inline", "alone"}
    /\ runs' = [runs EXCEPT ![post[p].task] = @ + 1]
    /\ post' = [post EXCEPT ![p] = IF post[p].at = "inline"
                                   THEN [at |-> "return", task |-> NoTask]
                                   ELSE Idle]
    /\ UNCHANGED <<tasks, thread_tasks, shutdown, workerVars, owner, posted, dropped>>

-----------------------------------------------------------------------------
(* Lifetime                                                                  *)

\* Mutant: the destructor joins without Terminate.
BeginDestructorOpen(p) ==
    /\ post' = [post EXCEPT ![p] = [at |-> "dtor", task |-> NoTask]]
    /\ UNCHANGED <<shutdown, wpc>>

\* ~ConcurrentMessageLoop on thread p, up to the joins.
BeginDestructor(p) ==
    /\ shutdown' = TRUE
    /\ NotifyAll
    /\ post' = [post EXCEPT ![p] = [at |-> "dtor", task |-> NoTask]]

\* The reference that lock() made goes out of scope; if it is the last one,
\* the loop is destroyed on this thread.
ReleaseLoop(p) ==
    /\ post[p].at = "return"
    /\ IF ~owner /\ Holders = {p}
       THEN BeginDestructor(p)
       ELSE /\ post' = [post EXCEPT ![p] = Idle]
            /\ UNCHANGED <<shutdown, wpc>>
    /\ UNCHANGED <<tasks, thread_tasks, hand, shutdown_now, owner, posted, runs,
                   dropped>>

OwnerReset ==
    /\ owner
    /\ owner' = FALSE
    /\ IF Holders = {} THEN BeginDestructor(Owner)
       ELSE UNCHANGED <<shutdown, wpc, post>>
    /\ UNCHANGED <<tasks, thread_tasks, hand, shutdown_now, posted, runs, dropped>>

\* Mutant: nobody is notified.
TerminateSilently ==
    /\ owner
    /\ shutdown' = TRUE
    /\ UNCHANGED <<tasks, thread_tasks, workerVars, post, owner, posted, runs, dropped>>

Terminate ==
    /\ owner
    /\ shutdown' = TRUE
    /\ NotifyAll
    /\ UNCHANGED <<tasks, thread_tasks, hand, shutdown_now, post, owner, posted,
                   runs, dropped>>

\* Mutant: only one worker is notified.
PostTaskToAllNotifyOne(b) ==
    /\ owner
    /\ b \notin posted
    /\ posted' = posted \cup {b}
    /\ thread_tasks' = [w \in Workers |-> Append(thread_tasks[w], b)]
    /\ IF Waiting = {} THEN UNCHANGED wpc
       ELSE \E w \in Waiting : wpc' = [wpc EXCEPT ![w] = "test"]
    /\ UNCHANGED <<tasks, shutdown, hand, shutdown_now, post, owner, runs, dropped>>

PostTaskToAllWorkers(b) ==
    /\ owner
    /\ b \notin posted
    /\ posted' = posted \cup {b}
    /\ thread_tasks' = [w \in Workers |-> Append(thread_tasks[w], b)]
    /\ NotifyAll
    /\ UNCHANGED <<tasks, shutdown, hand, shutdown_now, post, owner, runs, dropped>>

\* All the joins of the destructor return and the members are destroyed.  A
\* worker that runs the destructor joins itself, and never gets here.
JoinWorkers(p) ==
    /\ post[p].at = "dtor"
    /\ \A w \in Workers : wpc[w] = "exited"
    /\ dropped' = ToSet(tasks)
    /\ tasks' = <<>>
    /\ post' = [post EXCEPT ![p].at = "destroyed"]
    /\ UNCHANGED <<thread_tasks, shutdown, workerVars, owner, posted, runs>>

-----------------------------------------------------------------------------
WorkerStep(w) == Wait(w) \/ TakeTasks(w) \/ ClosureReturns(w) \/ NextIteration(w)

PosterStep(p) ==
    \/ PostTask(p)
    \/ NotifyOne(p)
    \/ RunOnCaller(p)
    \/ ReleaseLoop(p)
    \/ JoinWorkers(p)

Next ==
    \/ \E w \in Workers : WorkerStep(w) \/ SpuriousWakeUp(w)
    \/ \E p \in Threads : PosterStep(p) \/ \E t \in Tasks : LockLoop(p, t)
    \/ \E b \in Broadcasts : PostTaskToAllWorkers(b)
    \/ OwnerReset
    \/ Terminate

Spec == Init /\ [][Next]_vars

\* The scheduler runs every thread that can make a step.
Fairness ==
    /\ \A w \in Workers : WF_vars(WorkerStep(w))
    /\ \A p \in Threads : WF_vars(PosterStep(p))

FairSpec == Spec /\ Fairness

-----------------------------------------------------------------------------
(* Properties                                                                *)

\* No worker sleeps through work that is there for it: once shut down or given a
\* task of its own it is not waiting, and while the shared queue holds a task
\* either some worker is awake to take it or a notify_one is still to come.
NoneSleepsThroughWork ==
    /\ \A w \in Waiting : ~shutdown /\ ~HasThreadTasks(w)
    /\ tasks # <<>> => \/ \E w \in Workers : wpc[w] \in {"test", "run"}
                       \/ \E p \in Threads : post[p].at = "notify"
                       \/ shutdown

\* Where a task is: the abstract view that TaskPool specifies.
Started(t) ==
    \/ \E w \in Workers : t \in ToSet(hand[w])
    \/ \E p \in Threads : post[p].at \in {"inline", "alone"} /\ post[p].task = t

Status == [t \in Tasks |->
    IF runs[t] = 1 /\ ~Started(t) THEN "done"
    ELSE IF runs[t] > 0 THEN "restarted"
    ELSE IF Started(t) THEN "running"
    ELSE IF t \in dropped THEN "dropped"
    ELSE IF t \in posted THEN "waiting"
    ELSE "new"]

\* The loop implements TaskPool: through every interleaving of posts, workers,
\* shutdown and destruction a task is started at most once and finished once,
\* and nothing that waits is given up while the loop is open.
Pool == INSTANCE TaskPool WITH status <- Status, closed <- shutdown
RefinesTaskPool == Pool!Spec

\* While the loop is open, every posted task is eventually run.
PostedTasksRun ==
    \A t \in Tasks : t \in posted ~> (runs[t] = 1 \/ shutdown)

\* A worker gets to run everything that was posted to all workers.
BroadcastsRun ==
    \A w \in Workers : HasThreadTasks(w) ~> (~HasThreadTasks(w) \/ shutdown)

\* The destructor returns when a poster or the owner released the last reference.
\* (A worker that releases it joins itself.)
DestructionCompletes ==
    \A p \in Threads \ Workers : post[p].at = "dtor" ~> post[p].at = "destroyed"

\* "Don't just drop tasks on the floor in case of shutdown"
\* (concurrent_message_loop.cc, PostTask).
NoTaskIsDropped == dropped = {}
=============================================================================
