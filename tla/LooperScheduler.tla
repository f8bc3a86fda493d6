-------------------------- MODULE LooperScheduler ---------------------------
(* ALooperScheduler (android/scheduler.hpp): functions are pushed into a     *)
(* queue by any thread, and a byte in a pipe makes the looper's thread run   *)
(* them.  The scheduler is held by shared_ptrs; who drops the last one runs  *)
(* the destructor, while the looper may be calling back.                     *)
(*                                                                           *)
(* m_initialized and m_message_pipe are read and written without a lock, so  *)
(* the steps of init of several threads interleave.  An exception that leaves *)
(* invoke is the caller's; one that leaves looper_callback ends the process. *)
EXTENDS Integers, FiniteSets

CONSTANTS
    Invokers,           \* threads that hold a shared_ptr to the scheduler
    Functions,          \* what may be invoked, each once
    PipeCapacity,       \* bytes that fit into the pipe
    ReadSize            \* bytes looper_callback reads, 1024 in the code

ASSUME SchedulerAssumption ==
    /\ PipeCapacity \in Nat \ {0}
    /\ ReadSize \in Nat \ {0}

VARIABLES
    m_queue,            \* the functions that wait
    m_initialized,
    m_message_pipe,     \* the pipe that is stored: its number, or NoPipe
    pipes,              \* the pipes the looper watches
    bytes,              \* what is in each pipe
    blocking,           \* did fcntl fail?
    s_live_schedulers,  \* is this scheduler in it?
    holders,            \* who has a shared_ptr
    ipc,                \* where each thread is in invoke or in the destructor
    cb,                 \* where the looper's thread is in looper_callback
    invoked,            \* the functions that have run
    threw               \* the functions whose invoke threw

queueVars == <<m_queue, invoked, threw>>
pipeVars == <<m_initialized, m_message_pipe, pipes, bytes, blocking>>
lifeVars == <<s_live_schedulers, holders>>
schedVars == <<queueVars, pipeVars, lifeVars, ipc, cb>>

Looper == "looper"

\* A call of invoke on the looper's own thread is one of a further invoker.
ASSUME LooperAssumption == Looper \notin Invokers

Callers == Invokers \cup {Looper}
NoPipe == "no pipe"
NoFunction == "no function"
AtRest == [at |-> "idle", fn |-> NoFunction]
CallbackAtRest == [at |-> "idle", fd |-> NoPipe]

SchedInit ==
    /\ m_queue = {} /\ invoked = {} /\ threw = {}
    /\ m_initialized = FALSE /\ m_message_pipe = NoPipe
    /\ pipes = {} /\ bytes = [t \in Invokers |-> 0]
    /\ blocking \in BOOLEAN
    /\ s_live_schedulers = FALSE
    /\ holders = Invokers
    /\ ipc = [t \in Callers |-> AtRest]
    /\ cb = CallbackAtRest

Continue(t, label) == ipc' = [ipc EXCEPT ![t].at = label]

-----------------------------------------------------------------------------
(* invoke; the pipe a thread creates bears the thread's name.                *)

\* invoke, and the test at the head of init.
Invoke(t, fn) ==
    /\ ipc[t] = AtRest /\ t \in holders
    /\ fn \notin m_queue \cup invoked
    /\ \A u \in Invokers : ipc[u].fn # fn
    /\ ipc' = [ipc EXCEPT ![t] =
                [at |-> IF m_initialized THEN "push" ELSE "init", fn |-> fn]]
    /\ UNCHANGED <<queueVars, pipeVars, lifeVars, cb>>

\* init up to the pipe; then pipe or ALooper_addFd fails, or the looper has the
\* descriptor and init goes on to store the pipe.
InitScheduler(t) ==
    /\ ipc[t].at = "init"
    /\ m_initialized' = TRUE
    /\ s_live_schedulers' = TRUE
    /\ \/ Continue(t, "push") /\ UNCHANGED pipes
       \/ Continue(t, "store") /\ pipes' = pipes \cup {t}
    /\ UNCHANGED <<queueVars, m_message_pipe, bytes, blocking, holders, cb>>

StorePipe(t) ==
    /\ ipc[t].at = "store"
    /\ m_message_pipe' = t
    /\ Continue(t, "push")
    /\ UNCHANGED <<queueVars, m_initialized, pipes, bytes, blocking, lifeVars, cb>>

Push(t) ==
    /\ ipc[t].at = "push"
    /\ m_queue' = m_queue \cup {ipc[t].fn}
    /\ Continue(t, "notify")
    /\ UNCHANGED <<invoked, threw, pipeVars, lifeVars, cb>>

\* notify_fd: a pipe that is full has been noticed; in blocking mode the thread
\* waits for room.  Without a pipe the write fails and invoke throws.
Notify(t) ==
    /\ ipc[t].at = "notify"
    /\ IF m_message_pipe = NoPipe THEN UNCHANGED bytes
       ELSE /\ bytes[m_message_pipe] < PipeCapacity \/ ~blocking
            /\ bytes' = [bytes EXCEPT ![m_message_pipe] =
                           IF @ < PipeCapacity THEN @ + 1 ELSE @]
    /\ threw' = IF m_message_pipe = NoPipe THEN threw \cup {ipc[t].fn} ELSE threw
    /\ ipc' = [ipc EXCEPT ![t] = AtRest]
    /\ UNCHANGED <<m_queue, invoked, m_initialized, m_message_pipe, pipes, blocking,
                   lifeVars, cb>>

-----------------------------------------------------------------------------
(* looper_callback, on the looper's thread                                   *)

\* The looper sees a byte.  With the lock held the callback looks for the
\* scheduler and takes a reference; shared_from_this throws when the last one
\* is gone.
LooperCallback(fd) ==
    /\ cb = CallbackAtRest /\ ipc[Looper] = AtRest
    /\ fd \in pipes /\ bytes[fd] > 0
    /\ \/ /\ s_live_schedulers /\ holders # {}
          /\ cb' = [at |-> "read", fd |-> fd]
          /\ holders' = holders \cup {Looper}
       \/ /\ s_live_schedulers /\ holders = {}
          /\ cb' = [cb EXCEPT !.at = "thrown"]
          /\ UNCHANGED holders
       \/ ~s_live_schedulers /\ UNCHANGED <<cb, holders>>
    /\ UNCHANGED <<queueVars, pipeVars, s_live_schedulers, ipc>>

\* read
ReadPipe ==
    /\ cb.at = "read"
    /\ bytes' = [bytes EXCEPT ![cb.fd] = IF @ > ReadSize THEN @ - ReadSize ELSE 0]
    /\ cb' = [cb EXCEPT !.at = "run"]
    /\ UNCHANGED <<queueVars, m_initialized, m_message_pipe, pipes, blocking, lifeVars, ipc>>

\* Mutant: one function for every time the looper calls.
InvokeOne ==
    /\ cb.at = "run"
    /\ LET some == IF m_queue = {} THEN {} ELSE {CHOOSE f \in m_queue : TRUE}
       IN  invoked' = invoked \cup some /\ m_queue' = m_queue \ some
    /\ cb' = [cb EXCEPT !.at = "release"]
    /\ UNCHANGED <<threw, pipeVars, lifeVars, ipc>>

\* m_queue.invoke_all
InvokeAll ==
    /\ cb.at = "run"
    /\ invoked' = invoked \cup m_queue
    /\ m_queue' = {}
    /\ cb' = [cb EXCEPT !.at = "release"]
    /\ UNCHANGED <<threw, pipeVars, lifeVars, ipc>>

\* The callback returns and its reference is dropped.
CallbackReturns ==
    /\ cb.at = "release"
    /\ cb' = CallbackAtRest
    /\ holders' = holders \ {Looper}
    /\ ipc' = IF holders = {Looper} THEN [ipc EXCEPT ![Looper].at = "remove"] ELSE ipc
    /\ UNCHANGED <<queueVars, pipeVars, s_live_schedulers>>

-----------------------------------------------------------------------------
(* The destructor, on the thread that drops the last shared_ptr              *)

DropScheduler(t) ==
    /\ t \in holders /\ ipc[t] = AtRest
    /\ holders' = holders \ {t}
    /\ ipc' = IF holders = {t} THEN [ipc EXCEPT ![t].at = "remove"] ELSE ipc
    /\ UNCHANGED <<queueVars, pipeVars, s_live_schedulers, cb>>

\* ALooper_removeFd and close; the looper forgets the pipe that is stored.
RemovePipe(t) ==
    /\ ipc[t].at = "remove"
    /\ pipes' = pipes \ {m_message_pipe}
    /\ Continue(t, "forget")
    /\ UNCHANGED <<queueVars, m_initialized, m_message_pipe, bytes, blocking, lifeVars, cb>>

\* The address is taken from the list, and the queue destroyed.
ForgetScheduler(t) ==
    /\ ipc[t].at = "forget"
    /\ s_live_schedulers' = FALSE
    /\ m_queue' = {}
    /\ ipc' = [ipc EXCEPT ![t].at = "done"]
    /\ UNCHANGED <<invoked, threw, pipeVars, holders, cb>>

SchedStep ==
    \/ \E t \in Invokers :
        \/ \E fn \in Functions : Invoke(t, fn)
        \/ InitScheduler(t) \/ StorePipe(t) \/ Push(t) \/ Notify(t)
        \/ DropScheduler(t)
    \/ \E t \in Callers : RemovePipe(t) \/ ForgetScheduler(t)
    \/ \E fd \in Invokers : LooperCallback(fd)
    \/ ReadPipe \/ InvokeAll \/ CallbackReturns

\* The process ends with an exception that leaves the callback.
SchedNext == cb.at # "thrown" /\ SchedStep

SchedSpec == SchedInit /\ [][SchedNext]_schedVars

-----------------------------------------------------------------------------
\* A function that was pushed and notified is never left waiting: some pipe has
\* a byte for the looper, or the callback is about to run the queue, however
\* bytes were merged in a full pipe or cleared by one read.  And the callback
\* never works on a scheduler whose destructor has begun.
SchedulerWakes ==
    /\ holders # {} =>
        \A f \in m_queue \ threw :
            \/ \E t \in Invokers : ipc[t].at = "notify" /\ ipc[t].fn = f
            \/ \E fd \in pipes : bytes[fd] > 0
            \/ cb.at = "run"
    /\ cb.at \in {"read", "run", "release"} =>
        /\ s_live_schedulers
        /\ \A t \in Callers : ipc[t].at \notin {"remove", "forget", "done"}
=============================================================================
