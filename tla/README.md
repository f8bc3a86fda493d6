# EnvironmentCheck: a verification project

EnvironmentCheck is an Android app with three libraries around it. Most of its
own state-bearing logic is native code under `src/app/src/main/cpp`: message
loops, task queues, a worker pool, synchronization primitives and smart pointers
(namespace `FOREVER`), and view models that live on both sides of JNI. The
`CheckEnv` library probes the device (root, emulator, hooks, several instances of
the app), `Core` and `KotlinExtensions` hold small helpers. This directory holds
TLA+ models of the native code, TLC runs over small instances, and TLAPS proofs
for every size.

## Inventory

| Component | State | Operations | Interacts with | What is hard, and what makes it right |
|---|---|---|---|---|
| Task queues: `message_loop_task_queues.cc`, `task_source.cc`, `delayed_task.cc` | the entry of each queue (two heaps, pause count, owner and subsumed links, wakeable, observers), the serial number of the next task | create, dispose, register, get next, merge, unmerge, pause, resume, observers | called by every loop and every poster under one mutex; calls the loop's `WakeUp` | any order of merges, pauses and disposals: links agree, each queue is served by one loop, earliest task first, no task twice |
| Message loop: `message_loop_impl.cc`, `android/message_loop_android.cc`, `task_runner.cc`, `thread.cc` | `terminated_`, `running_`, the timer, the thread | construct, run, flush, terminate, post, join, destroy | the task queues, ALooper, timerfd | wake-ups against drains and re-arms; posts against termination; join |
| timerfd, time types: `linux/timerfd.cc`, `timer/` | the kernel timer; signed nanoseconds | arm, drain; convert, add | the message loop | the interval that is called a single expiry; signed times in an unsigned word |
| Concurrent loop: `concurrent_message_loop.cc` | shared queue, queue of each worker, `shutdown_`, references | post, broadcast, work, terminate, destroy | condition variable, weak and shared pointers | lost notifications, shutdown with tasks in the queue, who runs the destructor |
| Waitable events: `synchronization/waitable_event.cc` | flag, signal counter, sleepers | signal, reset, wait, wait with timeout | `Thread`, `CountDownLatch` | timeout against signal, reset against wake-up |
| Latch: `synchronization/count_down_latch.cc` | atomic count, event | count down, wait | manual-reset event | only the last count signals |
| Semaphore, sync switch, shared mutex: `synchronization/` | counts, a flag, holders of the lock | wait, try, signal; execute, set | - | interrupted waits; the flag must stay while a handler runs |
| `RefPtr`, `WeakPtr`, `SharedPtr`, `UniquePtr`, `UniqueObject`: `memory/`, `unique_object.h` | counts, flags, pointers, descriptors | copy, assign, move, release | all native objects | self-assignment, last release against a copy, one owner of each descriptor |
| Thread host, task runners, executors: `thread_host.cc`, `task_runners.cc`, `ArchTaskExecutor.cpp`, `DefaultTaskExecutor.cpp` | threads, their loops and runners | create, post, destroy | message loop, view models | the hand-over of the runner from a new thread; destruction with closures in the loops |
| Looper scheduler: `android/scheduler.hpp` | a pipe and a queue of functions | invoke, callback, destroy | ALooper | a full pipe, a read that takes several bytes, a callback during the destructor |
| JNI bridge: `qjniobject.cpp`, `qjnienvironment.cpp`, `qjnihelpers.cpp`, `android/jni_util.cc`, `scoped_java_ref.cc`, `jni_weak_ref.cc`, `snappy_natvie.cpp` | global, weak and local references, pending exceptions, attached threads | every wrapper | the virtual machine | each call may fail: exceptions left pending, references lost, critical regions left open |
| Native view models: `ViewModel.cpp`, `MainViewModel.cpp`, `QtJniNativeViewModel.cpp` | the Java object they are bound to | create, bind, handle, unbind, release | JNI bridge, executors | a local reference kept across calls |
| Native probes of `CheckEnv` | streams, descriptors, libraries while they run | probe | platform, JNI | early returns between open and close |
| Codecs, trie: `base64.cc`, `base32.cc`, `hex_codec.cc`, `ascii_trie.cc` | - | encode, decode, query | - | boundary lengths, padding |
| `QtThread.java` | list of runnables, `m_exit` | run, post, exit | monitor of the thread | a notification before the wait |
| Finalizer thread, `CheckEnv` checks and shell helpers in Kotlin, `Core`, user interface, vendored `json.hpp`, snappy, `linux_syscall_support.h` | - | - | - | not modelled |

`PROJECT.json` lists the components with their sources, and the hazards, each at
the line where it bites.

## Modules

`TaskQueues` is the core. Every public method of `MessageLoopTaskQueues` holds
`queue_mutex_` for its whole body, so one call is one action, named after it. A
heap is the set of its tasks; `First` is the top under `DelayedTask::operator>`.
`wake[q]` is the time the loop of `q` was last asked to wake at, `NoWake` when its
timer is not armed. A call that would fail a `FOREVER_DCHECK`, name an entry that
is not there, or return `false` without a change has no action: a resume without a
pause, which release builds let through (`task_source.cc:101`), is assumed away, and
no property speaks of a negative pause count. `GradeAfterPop`
is the read through `top.task` after `PopTask`, a reference into the heap that was
popped: it gives the grade of the task that took the front slot or, in an empty
heap, of the task just destroyed.

`MessageLoop` extends `TaskQueues` with the threads that run loops (`pc`), those
that post and join, and the clock. `PostTask` and `PostTaskRegister` are the two
halves of `MessageLoopImpl::PostTask`, with the test of `terminated_` in the
first. A flush is one step per task. The timerfd is armed with an interval equal
to its absolute expiry: after a drain it may fire again at some later time or
never, which is the choice of `again` in `WakeableFires`. Two assumptions about
callers keep the model inside the assertions of the code: queues are subsumed only
while their loop sits in `pollOnce` and runs, and `pollOnce` does not fail in a
loop that is subsumed (`DisposeTasks` asserts that its queue is not).

`ConcurrentLoop` is the pool. A region under `tasks_mutex_` is one action; the
condition variable is the set of workers at `"waiting"`. `post` says where a
thread is inside `PostTask`, which holds a reference to the loop from
`weak_loop_.lock()` to its return, or inside the destructor. `TaskPool` is the
abstract specification: a task is posted, started and finished once, and is given
up only after the pool was closed. `ConcurrentLoop` implements it under the
mapping `Status`. `TaskExecutor` is the other thing that runs closures on threads
of its own: `ArchTaskExecutor` with the threads of its host, created, used and
destroyed by the main thread; a loop there is a plain sequence of closures.

`EventWaiters` is what the two events share: the flag, the threads that wait, and
what a condition variable does (`notify_one`, `notify_all`, spurious wake-ups,
timeouts). `AutoResetEvent` and `ManualResetEvent` extend it; `CountDownLatch`
extends the latter. The variable `kind` says which class the object is of, so that
one run covers the three, and also `Semaphore` (`sem_t`, with waits that a signal
handler interrupts and `FOREVER_HANDLE_EINTR` starts again), `SyncSwitch` (a flag
behind `SharedMutexStd`) and `QtThread`. In `QtThread`, `m_exit` is not volatile:
the write of `exit` is seen by the thread at the latest when it enters the monitor
after `exit` has left it (`written`, `published`, `seen`).

`RefPtr` is intrusive reference counting. A `RefPtr` belongs to one thread at a
time; the atomic count is all that threads share, so a step is one operation on a
count with the thread's own reads and writes around it, or a deletion. `call` says
that a thread is inside `operator=`, between `AddRef` and `Release`, or between
the `Release` that returned true and the end of `delete`. `WeakPtr` extends it:
the objects are the `WeakPtrFlag`s, the pointers are the `flag_` members of
factories (`Factories`) and of weak pointers. `Invalidate`, the release of `flag_`
and the destruction of the object's other members are one step, since only the
thread of the factory, or the one that deletes the flag, reads `is_valid_`. The
task-runner-affine factory may be handed to another thread, with all that belongs
to it.

`SharedPtr` has the control block apart from the object; an assignment is two
steps on counts. Where it uses a block that is null or gone, behaviour is
undefined: a `fault` is recorded and the process starts anew. `UniqueObject` owns
descriptors: what is closed may be opened again with the same number, which is
what makes a second close dangerous. `UniquePtr` differs in two operations only
and is part of the same module.

`LooperScheduler` is the queue, the pipe and the callback; `m_initialized` and
`m_message_pipe` are read and written without a lock, and each `close`, `write`
and `read` is a step. The functions that one `invoke_all` takes from the queue run in
one step.

### Native calls

JNI code is a long list of functions that call into the virtual machine, where
each call may fail. `NativeWorld` is what such code sees: a record of what is held
(references, pinned characters, critical regions, streams, descriptors, libraries,
heap blocks), whether an exception is pending, and which rules have been broken. A
C++ function is an operator from a world to the set of its outcomes, a world and a
result, so that `Then`, `IfGot`, `Finally` and `Loop` spell out a function with all
of its early returns. In straight-line code, `S ++ op` goes on after a failure, and a
null that was the result is recorded as passed on to a call (rule "null", next to
"pending" if the failure was an exception); `S ** op` returns. `QJni`, `JniUtil`,
`Snappy`, `ViewModels` and `Probes` are such operators, named after the functions.
`NativeCalls` is the thread that calls them in any order, on objects that live from
call to call (`QJniObject`s that share a private part, scoped and weak global
references, a view model), and the properties. After each call a step closes its
accounts.

What is assumed of the virtual machine: `NewGlobalRef` and attaching a thread
succeed; locals of a native method are freed at its return; a failed `ASSERT` or
`DCHECK` has no outcome. Numbers, names, signatures and strings are left out: a
`jclass` or `jmethodID` is whether it is null.

Not every function keeps to the rules. `KnownMisuse` and `KnownLeaks` list those
that do not, each with what it breaks; `NoUnsafeCall` and `ResourcesReturned` say
that nothing else is broken by anybody: the faults that are named are documented by
these two lists, not reported by a run. See "Deviations".

`Codecs` and `TimeTypes` are pure: operators on sequences of numbers, checked
against each other on inputs that grow by one element a step.

`MC*` modules are the instances for TLC. Operators whose comment starts with
"Mutant" are plausible slips in the code; each is used in place of the operator
that follows it to show that a property notices the slip.

## Runs

| Run | Bounds | Checks |
|---|---|---|
| `queues` | 3 queues with 1 task or 2 queues with 2 tasks, 2 times, all grades, 1 pause, an observer key | `TypeOK`, `MergeShape`, `ServedByOneLoop`, `EachTaskOnce`, `FifoAtEqualTimes`, `RunsTheEarliest`: three queues are what a chain of merges needs, and two tasks suffice to be in the wrong order, in one heap, two heaps or two queues |
| `queues_grade` | 1 queue, 2 tasks | `GradeOfTheRunningTask` is violated |
| `loop_wake` | 2 loops, 2 tasks, 2 times, 1 poster, 1 merge, 1 pause | `MLTypeOK`, `WakeCoversPending`, `NotBeforeItsTime` |
| `loop_resume` | the same | `WakeCoversAll` is violated |
| `loop_late` | 1 loop, 2 tasks, 1 poster, joined | `NothingLeftBehind` is violated |
| `loop_live` | 2 loops, 2 tasks, 2 times, 1 poster, 2 merges, one loop joined | `TasksAreRun`, `JoinCompletes` |
| `pool` | 2 workers that post, 1 poster, the owner, 2 tasks, 1 broadcast; or 2 executors in turn with 2 closures for the disk thread and 1 for the main thread | `NoneSleepsThroughWork`, `RefinesTaskPool`, `PostedTasksRun`, `BroadcastsRun`, `DestructionCompletes`, `ExecutorServes`: the second executor shows that nothing of the first is left over |
| `pool_drop` | 1 worker, 1 poster, 2 tasks | `NoTaskIsDropped` is violated |
| `events` | 3 waiters, one with a timeout, 2 signals, 1 reset, a latch of 3; or 3 waiters and 1 trier on a semaphore of 1 with 3 posts; or 2 executors and 2 setters of a switch; or 2 clients of a Qt thread with 3 runnables | the safety and liveness of both events and the latch; `SemaphoreCounts`, `SwitchHolds`, `QtThreadServes` |
| `event_stranded` | 2 waiters, 1 signal | `SignalAlwaysReachesAWaiter` is violated |
| `native` | 2 handles, 1 class reference left by name; inputs of up to 6 elements, `Kilo` 10 for 1000, words of 16 bits; 2 invokers, 3 functions, a pipe of 3 bytes and reads of 2; 2 threads, 2 flags, 2 factories, 3 weak pointers; 2 threads, 2 objects, 3 `SharedPtr`s; 3 `UniqueObject`s, 3 descriptors | `NoUnsafeCall`, `ResourcesReturned`, `RefsOwned`, `CodecsInvert`, `SchedulerWakes`, `CountsReferences`, `NoDanglingPtr`, `DeletedByOne`, `WeakPtrsAreSafe`, `SharedCounts`, `OwnedOnce`, `OneRefIsStable`, `FlagsAreFreed`: two handles suffice to share, to assign and to drop last; six elements reach past the groups of 3 bytes and 4 characters and through every partial group of Base32; with a pipe larger than a read, one read need not empty it; with three weak pointers both threads can be inside an assignment while a factory is destroyed |
| `timer_past` | the same | `PastTimersFire` is violated |

Deadlock is not checked: in each of these systems everybody may be idle, done, or
at the bound on the number of calls. What must go on is said by the liveness
properties.

What the violated properties show is under `findings` in `PROJECT.json`: the
thread-local grade of a running task is read from a popped heap slot; resuming
the microtasks of a subsumed queue wakes nobody; a post that races with
termination leaves its task in a queue whose thread is over; shutdown of the pool
drops queued tasks; a waiter whose timeout races with its notification leaves
another one asleep in front of a signaled event; and a timer armed for a time
before the epoch is set for the far future.

Two more are kept out of the properties that hold: `DestructionCompletes` speaks
of threads that are not workers, because a worker that releases the last reference
joins itself, and `JoinCompletes` ends at the first merge, because the terminating
task of `Thread::Join` then runs on the loop of another thread.

### Fairness

Weak fairness on the steps of a thread that can go on: the kernel runs it. For a
worker or a waiter this covers taking the mutex and testing the condition, not
being woken; spurious wake-ups, timeouts, posts, signals, merges and poll errors
are never required. For message loops also: time passes (`Tick`), and
`std::thread::join` returns once the thread is over. For the executor: its threads,
and the main thread inside the constructor and the destructor. For the Qt thread:
its own steps, but not a wake-up that nobody sent, and no step of a client. For
`WeakPtr`: a thread inside an assignment or a deletion comes to its end. No strong
fairness is used.

### Deviations

Where the code does not do what one would expect, the model follows the code, and
the properties that hold leave out exactly these cases:

- `KnownMisuse`, `KnownLeaks` in `NativeCalls`. Among them: `haveMagicMount`
  closes a descriptor that `fclose` has closed (`magisk_detector.cpp:36`);
  `nativeStringToDouble` uses the characters of a string that is gone
  (`jni_double_conversion.cpp:38`); `StringListToVector` goes on with an exception
  pending and passes a method that was not found to the machine
  (`jni_util.cc:123-136`), `GetJavaExceptionInfo`, which `CheckException` calls, does
  so with classes, methods and objects (`jni_util.cc:206-239`), and
  `getSignatureByte` with everything it is given (`check_sign.cpp:119-173`); a thread attached by `QJniEnvironment` is never
  detached, since its thread-local is a plain pointer (`qjnienvironment.cpp:54`).
- `SharedPtr::operator=` drops before it counts and counts without a test
  (`shared_ptr.h:87-93`): assigning an empty pointer, or the last pointer to
  itself, is a fault; `SharedCounts` allows these two and no other.
- `Base64Decode` accepts a single `=` in a text of 4n+3 characters, against the
  comment at `base64.cc:161-162`, and then yields a zero byte too many;
  `Base32Decode` accepts one superfluous `A`. The trie has no node for the last
  character of an entry (`ascii_trie.cc:14-23`), so it is not looked at.
- `ALooperScheduler::init` races with itself (`scheduler.hpp:130`): a thread that
  finds `m_initialized` set may write to a pipe that is not there yet and throws.
  A callback during the destructor throws in `shared_from_this` (line 180) where
  the comment at line 66 says that the attempt fails. The file is not part of the
  CMake build.
- `QtThread.exit` that finds the thread between its test and its wait wakes
  nobody, and its join does not return. Nothing in the repository uses `QtThread`.
- A `MessageLoop` is not destroyed at the end of its thread, because the key of
  the thread-local goes first (`thread_local.cc:16`); `MessageLoop` also has the
  behaviours in which it is.
- An executor that is used while it is destroyed goes through a pointer that was
  reset (`ArchTaskExecutor.cpp:50`); in `TaskExecutor` only the main thread uses
  it, as `MainViewModel` does.

## Proofs

`TaskQueuesProofs`, for every number of queues, tasks, pauses, times and observer
keys, from `BoundsAssumption` (the bounds are naturals) and `GradesAssumption`:

- `NatMin`, `EarliestExists`, `FirstIsEarliest`, `TopIsVisible`, `PeekIsEarliest`:
  a set of tasks has a first one, and `Top` and `PeekNextTask` find it.
- `TypeCorrect`: `TypeOK` is inductive by itself. `GetNextTaskToRun` and the
  wake-ups need the lemmas above, since they assign what `PeekNextTask` returns.
- `MergeShapeInvariant`: inductive together with the types. `ServedInvariant`
  follows from it.
- `EachTaskOnceInvariant`, `FifoInvariant`: from `TaskInv`, which adds
  `HeapDiscipline`: a heap holds only tasks of its grades, so that `PopTask`, which
  goes by the grade, pops the very task that was peeked; and all serial numbers
  are below `order`, so that a new one is new.
- `EarliestFirst`: the action property `RunsTheEarliest`, from `TaskInv` and
  `PeekPrecedesAll`; the uniqueness of serial numbers makes "not after" strict.

`MessageLoopProofs`, with `LoopAssumption`:

- `MLTypeCorrect`, and `ImplementsTaskQueues`: every step of a loop, a poster or
  the clock is a step of `TaskQueues` or leaves the queues alone, so the theorems
  above hold of running loops.
- `NotBeforeItsTimeInvariant`: from `FlushInv`, which adds that the clock a loop
  has read is not ahead during the whole flush, also between two tasks.
- `WakeCoversPendingInvariant`: no lost wake-up, for any number of loops, posters
  and merges. `WakeCoversPending` speaks of loops in `pollOnce`; `WakeInv` adds the
  loops about to enter it (`LoopsCovered`), that every loop with an entry has its
  wakeable set (`WakeablesSet`), that a queue whose loop is under construction is
  known to nobody else (`UnbornUnknown`), and `MergeShape`, by which the loop
  `RegisterTask` wakes is the one that serves the queue. `ArmedCovers` is the core:
  a timer set for what `PeekNextTask` returns covers every visible task.

`ConcurrentLoopProofs`, for any numbers of workers, posters, tasks and broadcasts,
from `ThreadsAssumption`:

- `LoopInvariant`: `Inv` is inductive. `NoneSleepsThroughWork` is part of it and
  needs the rest: `TypeOK`, `HandsEmptied` (between rounds a worker has nothing in
  hand), `ExitsAreOrdered` (workers leave only a loop that was shut down),
  `Lifetime` (one thread destroys the loop, after the last reference is gone) and
  `OnePlace`: a posted task is in exactly one of the queue, a call that holds the
  mutex, a hand, a caller, the tasks that ran and those that were dropped.
  `LoopNoneSleepsThroughWork` follows.
- `LoopImplementsTaskPool`: the property `RefinesTaskPool`. `StatusTellsPlace` says
  that the mapping gives a task the status of its place; each action moves at most
  one task, or drops the queue, along an edge that `TaskPool` has. That `Status`
  never takes the value that stands for a second run is part of the proof.

The same module, for any closures and any number of executors, from
`ExecutorAssumption` and two assumptions on names: `HostAssumption` (the threads
are those of `HostTypes` that the mask names) and `ClosureAssumption` (a closure is
none of the labels of `tpc`):

- `ExecutorStaysInPlace`: `ExecutorInPlace`, the safety part of `ExecutorServes`.
  `ExecInv` follows the main thread: below the thread it is at, all serve; above,
  none is there; the one it is at is starting, serving or ending (`InTurn`). A
  thread that ends leaves nothing in its loop because what terminates it is the
  last closure in it, and nobody posts while the main thread joins (`Ending`).

`EventsProofs`, for any sets of threads, from the assumptions of the modules (the
sets of threads are finite where they are counted):

- `AutoOneSignalPerWait`, `AutoSignalReachesAWaiter`: inductive together with the
  types; a step changes the set of the unblocked by one waiter at most.
- `ManualSleepersMissedNothing`: with the types, since a sleeper took the counter
  under the mutex. `LatchNobodyPassesEarly`: from `LatchInv`, which says that the
  count is the number of threads that have not counted down, and that the event
  is signaled only by the thread that brought it to 0.
- `SemaphoreIsCounted`; `SwitchIsHeld`, from `SwitchInv`: whoever has chosen a
  handler holds the lock shared.
- `QtThreadRunsInOrder`: `QtInOrder` and `QtRunWaits`, the safety part of
  `QtThreadServes`; `QtAllInv` adds that only what was added is released and that a
  runnable has one waiter.

`OwnershipProofs`, for any sets of threads, pointers, objects and descriptors:

- `UniqueOwnedOnce`: from `UniqueInv`, which says it without counting: two objects
  never own the same value (`OneOwner`), what is owned is open and not raw
  (`OwnedIsOpen`), what is open is owned or raw (`OpenIsOwned`).
- `SharedCountsHold`: from `SharedInv`. The pointer that an assignment has
  dropped and not yet counted must be left out of the count, and both pointers of
  an assignment stay with its thread (`AssignsItsOwn`).

The same module, for any sets of threads, objects, pointers and factories, from
`PtrAssumption` (the null pointer is no object) and `FactoryAssumption`:

- `CountsReferencesInvariant`, `NoDanglingPtrInvariant`, `DeletedByOneInvariant`:
  from `RefInv`. A count agrees with the number of references only if a reference
  that an assignment has counted and not stored is one; then `Release` finds 1
  exactly when it drops the last one. `AssignsOwnPtrs` adds that both pointers of an
  assignment stay with its thread and differ. That there are finitely many
  references is part of the invariant, so no bound on pointers is assumed.
- `OneRefStable`: the action property `OneRefIsStable`, from `RefInv`.
- `ImplementsRefPtr` and, from it and `FlagInv` (a valid flag has its factory),
  `WeakPtrsAreSafeInvariant`; the steps that hand a factory to another thread are
  included.

`SchedulerProofs`, for any sets of invokers and functions, any capacity of the pipe
and any number of bytes read at once; `LooperAssumption` says that the looper is
none of the threads that invoke:

- `SchedulerAlwaysWakes`: from `SchedInv`. A function has a byte, a thread about
  to write one or a callback about to run it only if the pipe that is stored is one
  the looper watches (`PipesWatched`), a thread in `invoke` holds the scheduler
  (`InvokersHold`), the callback does too once it has `shared_from_this`
  (`CallbackHolds`), and a destructor runs only when nobody does
  (`DestroyedUnheld`).

The same module, for any `Kilo` above 1 and any width of the word
(`TimeAssumption`):

- `TimesConvert`: `TimeConverts` for every signed duration below the word, from
  lemmas on division towards zero (`QuotientDivides`, `QuotientUnique`,
  `QuotientTwice`, `UnitsDivide`). The run checks the same operator on small
  durations as part of `CodecsInvert`.

`NativeEffects` and `NativeProofs`, for any finite set of `Handles` and any
`MaxClassRefs` (`HandlesAssumption`):

- `NativeEffects` bounds what each function does, in one lemma per function. A
  function is an operator that returns a set of outcomes, so a lemma takes any
  outcome and follows the calls that lead to it. `Frame(w, v, M, K)`: from world
  `w` to `v` only rules in `M` are broken and only what is held of the kinds in `K`
  changes. `Tidy` adds that no exception is pending at the end, `Makes` that the
  references a new `QJniObject` owns are exactly those that were added, `Swaps`
  that one reference was exchanged for another, `Does` is `Frame` for an outcome
  with a Boolean, and `Plain` a function that leaves everything as it was. Frames
  compose (`TidyTrans`, `DoesTrans`), as do the scope of a `QJniEnvironment`
  (`EnvTidy`, `EnvMakes`), the return of a native method (`NativeTidy`) and code
  that goes on after a failure (`ChainForm`).
- `KnownForm` and `CallOk` compare the bounds of a call with `KnownMisuse` and
  `KnownLeaks`; `EnvironmentGood` and its like do so for every call of a step.
- `NativeInductive`: `NativeInv` is `NativeType`, `Settled` and the three
  properties. None of the three is inductive alone: a function keeps to the rules
  only if no exception is pending and no critical region is open when it is called,
  which is `Settled` and is what `Return` re-establishes, and it deletes only what
  it holds, which is `RefsOwned`. `NativeType` adds that only the behaviours about
  `QJniObject`s have any.
- `NativeRefs`, `NativeSafe`, `NativeReturns`: `RefsOwned`, `NoUnsafeCall` and
  `ResourcesReturned`. For the first, a step is a change of the set of private
  parts in use by at most one leaving and one entering (`MakeForm`, `LetGoForm`,
  `CopyForm`, `AssignForm`), counted with the cardinality theorems. `UnusedForm`
  is the pigeonhole argument that a new private part has an index: the other
  handles are fewer than the indices.

Only model-checked:

- all liveness properties, which are out of reach of the prover with the fairness
  they need;
- the codecs and the trie in `CodecsInvert`: what they compute for inputs of any
  length needs induction over sequences;
- the properties that are violated.

## Not modelled

- The Kotlin and Java sides: probes that read the platform and add up scores, the
  view models' lock and `dispose`, the user interface, `Core`. They keep little
  state, and what they call is outside of the repository.
- The finalizer thread: nothing is ever put on its list, since the only call that
  would is commented out.
- The shell helpers: `CommandUtil.kt` waits for a process before it reads its
  output, and both wait for each other when the pipe is full.
- `TaskRunnerChecker`, which answers for the queue of the current loop and not for
  the thread (`task_runner_checker.cc:33-46`), and `RunNowOrPostTask`, which uses
  the same answer; `RunSingleExpiredTaskNow`, `AtomicObject`, `any.hpp`, which have
  no callers.
- UTF conversions, conversions of times to `double`, thread priorities and names,
  logging and tracing: calls of a library, or no effect on the state.
- Vendored code: `json.hpp`, snappy, `linux_syscall_support.h`.
- The wrap of `order_` (an `atomic_int`) and of `signal_id_` is beyond the bounds;
  see the hazards.

## Plan

`TaskRunnerChecker` and `RunNowOrPostTask` on top of merged loops.
