----------------------------- MODULE TaskQueues -----------------------------
(* MessageLoopTaskQueues (message_loop_task_queues.cc) with the TaskSource   *)
(* and the DelayedTask it is built from (task_source.cc, delayed_task.cc):   *)
(* the singleton that keeps the pending tasks of every message loop, decides *)
(* which task a loop runs next, and lets the queue of one loop be merged     *)
(* into the queue of another.                                                *)
(*                                                                           *)
(* Every public method locks queue_mutex_ for its whole body, so one call is *)
(* one action.  Callers are any threads, in any order; what they must        *)
(* respect are the FOREVER_DCHECKs and the presence of the entry they name   *)
(* (queue_entries_.at).  A call that returns false or nullptr without        *)
(* touching the state is a stuttering step and has no action.                *)
EXTENDS Integers, FiniteSets

CONSTANTS
    MaxQueues,      \* bound on task_queue_id_counter_
    MaxTasks,       \* bound on order_, the number of tasks ever registered
    MaxPauses,      \* bound on nested PauseSecondary calls
    MaxTime,        \* target times are 0 .. MaxTime
    UsedGrades,     \* the grades callers register tasks with
    ObserverKeys    \* keys of task observers

ASSUME BoundsAssumption ==
    /\ MaxQueues \in Nat
    /\ MaxTasks \in Nat
    /\ MaxPauses \in Nat
    /\ MaxTime \in Nat

VARIABLES
    task_queue_id_counter,  \* the next queue id
    queue_entries,          \* the ids that have an entry
    owner_of,               \* owner_of[q]: the queues q has subsumed
    subsumed_by,            \* subsumed_by[q]: the queue that subsumed q
    primary, secondary,     \* the two priority queues of q's TaskSource
    pauses,                 \* secondary_pause_requests_ of q's TaskSource
    wakeable,               \* has q's Wakeable been set?
    wake,                   \* the time q's Wakeable was last asked to wake at
    task_observers,         \* keys of q's observers
    order,                  \* order_, the serial number of the next task
    invocation,             \* what GetNextTaskToRun last returned to q's loop
    tls_task_source_grade   \* the thread-local grade of q's loop thread

linkVars == <<owner_of, subsumed_by>>
entryVars == <<task_queue_id_counter, queue_entries, wakeable, task_observers>>
taskVars == <<primary, secondary, order>>
callerVars == <<invocation, tls_task_source_grade>>
vars == <<linkVars, entryVars, taskVars, pauses, wake, callerVars>>

-----------------------------------------------------------------------------
QueueIds == 0 .. MaxQueues - 1
kUnmerged == -1             \* ULONG_MAX in the code: no queue has this id

Times == 0 .. MaxTime
NoWake == MaxTime + 1       \* the wakeable's timer is not armed

PrimaryGrades == {"kUserInteraction", "kUnspecified"}
SecondaryGrades == {"kDartMicroTasks"}
Grades == PrimaryGrades \cup SecondaryGrades
ASSUME GradesAssumption == UsedGrades \subseteq Grades
NoGrade == "none"

DelayedTask == [order : 0 .. MaxTasks - 1, time : Times, grade : Grades]
TopTask == [task_queue_id : QueueIds, task : DelayedTask]
NoTask == [task_queue_id |-> kUnmerged]

\* Mutant: ties are broken the wrong way round.
AfterLifo(a, b) ==
    IF a.time = b.time THEN a.order < b.order ELSE a.time > b.time

\* DelayedTask::operator>: a runs after b.
After(a, b) ==
    IF a.time = b.time THEN a.order > b.order ELSE a.time > b.time

\* top() of a std::priority_queue ordered by std::greater.
First(S) == CHOOSE t \in S : \A u \in S : ~After(t, u)

-----------------------------------------------------------------------------
(* TaskSource                                                                *)

IsEmpty(q) == primary[q] = {} /\ (pauses[q] = 0 => secondary[q] = {})

\* Mutant: the two heaps are not compared.
TopPrimaryFirst(q) ==
    [task_queue_id |-> q,
     task |-> IF primary[q] # {} THEN First(primary[q]) ELSE First(secondary[q])]

Top(q) ==
    LET p == primary[q]
        s == secondary[q]
    IN  [task_queue_id |-> q,
         task |-> IF pauses[q] > 0 \/ s = {} THEN First(p)
                  ELSE IF p = {} THEN First(s)
                  ELSE IF After(First(p), First(s)) THEN First(s)
                  ELSE First(p)]

-----------------------------------------------------------------------------
(* Queries over a queue and the queues it owns                               *)

IsSubsumed(q) == subsumed_by[q] # kUnmerged

Sources(q) == {q} \cup owner_of[q]

HasPendingTasks(q) == ~IsSubsumed(q) /\ \E s \in Sources(q) : ~IsEmpty(s)

PeekNextTask(q) ==
    LET tops == {Top(s) : s \in {x \in Sources(q) : ~IsEmpty(x)}}
    IN  CHOOSE t \in tops : \A u \in tops : ~After(t.task, u.task)

GetNextWakeTime(q) == PeekNextTask(q).task.time

Owns(owner, subsumed) == subsumed \in owner_of[owner]

\* WakeUpUnlocked for each queue of Q that has pending tasks once the change
\* described by the rest of the action is made.
WakeUpAsNeeded(Q) ==
    wake' = [q \in QueueIds |->
                IF q \in Q /\ wakeable[q] /\ HasPendingTasks(q)'
                THEN GetNextWakeTime(q)' ELSE wake[q]]

-----------------------------------------------------------------------------
Init ==
    /\ task_queue_id_counter = 0
    /\ queue_entries = {}
    /\ owner_of = [q \in QueueIds |-> {}]
    /\ subsumed_by = [q \in QueueIds |-> kUnmerged]
    /\ primary = [q \in QueueIds |-> {}]
    /\ secondary = [q \in QueueIds |-> {}]
    /\ pauses = [q \in QueueIds |-> 0]
    /\ wakeable = [q \in QueueIds |-> FALSE]
    /\ wake = [q \in QueueIds |-> NoWake]
    /\ task_observers = [q \in QueueIds |-> {}]
    /\ order = 0
    /\ invocation = [q \in QueueIds |-> NoTask]
    /\ tls_task_source_grade = [q \in QueueIds |-> NoGrade]

CreateTaskQueue ==
    /\ task_queue_id_counter < MaxQueues
    /\ task_queue_id_counter' = task_queue_id_counter + 1
    /\ queue_entries' = queue_entries \cup {task_queue_id_counter}
    /\ UNCHANGED <<linkVars, wakeable, task_observers, taskVars, pauses, wake,
                   callerVars>>

\* Set once, by the constructor of the loop the queue was created for.
SetWakeable(q) ==
    /\ q \in queue_entries /\ ~wakeable[q]
    /\ wakeable' = [wakeable EXCEPT ![q] = TRUE]
    /\ UNCHANGED <<linkVars, task_queue_id_counter, queue_entries,
                   task_observers, taskVars, pauses, wake, callerVars>>

\* The loop of q is woken by its timer and reads it.  The timer was armed with
\* its expiry as its interval too, so it may be armed again for a later time.
WakeableFires(q, again) ==
    /\ wake[q] < NoWake
    /\ again > wake[q]
    /\ wake' = [wake EXCEPT ![q] = again]
    /\ UNCHANGED <<linkVars, entryVars, taskVars, pauses, callerVars>>

\* The tasks of the queues in Q are destroyed (TaskSource::ShutDown).
ShutDown(Q) ==
    /\ primary' = [q \in QueueIds |-> IF q \in Q THEN {} ELSE primary[q]]
    /\ secondary' = [q \in QueueIds |-> IF q \in Q THEN {} ELSE secondary[q]]

\* Mutant: only the entry that is named is erased.
DisposeAlone(q) ==
    /\ q \in queue_entries /\ ~IsSubsumed(q)
    /\ queue_entries' = queue_entries \ {q}
    /\ ShutDown({q})
    /\ owner_of' = [owner_of EXCEPT ![q] = {}]
    /\ pauses' = [pauses EXCEPT ![q] = 0]
    /\ wakeable' = [wakeable EXCEPT ![q] = FALSE]
    /\ wake' = [wake EXCEPT ![q] = NoWake]
    /\ task_observers' = [task_observers EXCEPT ![q] = {}]
    /\ UNCHANGED <<task_queue_id_counter, order, subsumed_by, callerVars>>

\* The entry of q and those of the queues it owns are erased; of their timers
\* only the one of q's own loop goes, with the loop that is being destroyed.
Dispose(q) ==
    /\ q \in queue_entries /\ ~IsSubsumed(q)
    /\ LET erased == Sources(q)
           Cleared(f, v) == [x \in QueueIds |-> IF x \in erased THEN v ELSE f[x]]
       IN  /\ queue_entries' = queue_entries \ erased
           /\ ShutDown(erased)
           /\ owner_of' = Cleared(owner_of, {})
           /\ subsumed_by' = Cleared(subsumed_by, kUnmerged)
           /\ pauses' = Cleared(pauses, 0)
           /\ wakeable' = Cleared(wakeable, FALSE)
           /\ task_observers' = Cleared(task_observers, {})
    /\ wake' = [wake EXCEPT ![q] = NoWake]
    /\ UNCHANGED <<task_queue_id_counter, order, callerVars>>

DisposeTasks(q) ==
    /\ q \in queue_entries /\ ~IsSubsumed(q)
    /\ ShutDown(Sources(q))
    /\ UNCHANGED <<linkVars, entryVars, order, pauses, wake, callerVars>>

\* Mutant: the wake-up goes to the queue that is named, too.
RegisterTaskWakesNamed(q, time, grade) ==
    /\ q \in queue_entries
    /\ order < MaxTasks
    /\ order' = order + 1
    /\ LET task == [order |-> order, time |-> time, grade |-> grade]
       IN  IF grade \in PrimaryGrades
           THEN /\ primary' = [primary EXCEPT ![q] = @ \cup {task}]
                /\ UNCHANGED secondary
           ELSE /\ secondary' = [secondary EXCEPT ![q] = @ \cup {task}]
                /\ UNCHANGED primary
    /\ UNCHANGED <<linkVars, entryVars, pauses, callerVars>>
    /\ WakeUpAsNeeded({q})

\* The task goes to the queue that is named, the wake-up to the loop that
\* will run it.
RegisterTask(q, time, grade) ==
    /\ q \in queue_entries
    /\ order < MaxTasks
    /\ order' = order + 1
    /\ LET task == [order |-> order, time |-> time, grade |-> grade]
       IN  IF grade \in PrimaryGrades
           THEN /\ primary' = [primary EXCEPT ![q] = @ \cup {task}]
                /\ UNCHANGED secondary
           ELSE /\ secondary' = [secondary EXCEPT ![q] = @ \cup {task}]
                /\ UNCHANGED primary
    /\ UNCHANGED <<linkVars, entryVars, pauses, callerVars>>
    /\ WakeUpAsNeeded({IF IsSubsumed(q) THEN subsumed_by[q] ELSE q})

\* Mutant: the microtask heap is never popped.
PopTaskPrimaryOnly(top) ==
    /\ primary' = [primary EXCEPT ![top.task_queue_id] = @ \ {top.task}]
    /\ UNCHANGED secondary

\* PopTask of the source the task came from.
PopTask(top) ==
    LET q == top.task_queue_id
    IN  IF top.task.grade \in PrimaryGrades
        THEN /\ primary' = [primary EXCEPT ![q] = @ \ {First(@)}]
             /\ UNCHANGED secondary
        ELSE /\ secondary' = [secondary EXCEPT ![q] = @ \ {First(@)}]
             /\ UNCHANGED primary

\* The grade the code reads through the reference top.task AFTER PopTask.  The
\* reference is to the front slot of the heap the task was popped from: that
\* slot now holds the next task of the heap or, when the heap is empty, the
\* bytes of the task that was just destroyed.
GradeAfterPop(top) ==
    LET heap == IF top.task.grade \in PrimaryGrades
                THEN primary'[top.task_queue_id]
                ELSE secondary'[top.task_queue_id]
    IN  IF heap = {} THEN top.task.grade ELSE First(heap).grade

\* Nothing has been popped yet when the code asks HasPendingTasksUnlocked for
\* the second time, so the timer is always re-armed at the time of the task
\* that is about to be returned or kept.
GetNextTaskToRun(q, from_time) ==
    /\ q \in queue_entries
    /\ IF ~HasPendingTasks(q)
       THEN /\ invocation' = [invocation EXCEPT ![q] = NoTask]
            /\ UNCHANGED <<primary, secondary, wake, tls_task_source_grade>>
       ELSE LET top == PeekNextTask(q)
            IN  /\ wake' = [wake EXCEPT ![q] =
                              IF wakeable[q] THEN GetNextWakeTime(q) ELSE @]
                /\ IF top.task.time > from_time
                   THEN /\ invocation' = [invocation EXCEPT ![q] = NoTask]
                        /\ UNCHANGED <<primary, secondary, tls_task_source_grade>>
                   ELSE /\ PopTask(top)
                        /\ invocation' = [invocation EXCEPT ![q] = top]
                        /\ tls_task_source_grade' =
                             [tls_task_source_grade EXCEPT ![q] = GradeAfterPop(top)]
    /\ UNCHANGED <<linkVars, entryVars, order, pauses>>

AddTaskObserver(q, key) ==
    /\ q \in queue_entries
    /\ task_observers' = [task_observers EXCEPT ![q] = @ \cup {key}]
    /\ UNCHANGED <<linkVars, task_queue_id_counter, queue_entries, wakeable,
                   taskVars, pauses, wake, callerVars>>

RemoveTaskObserver(q, key) ==
    /\ q \in queue_entries
    /\ task_observers' = [task_observers EXCEPT ![q] = @ \ {key}]
    /\ UNCHANGED <<linkVars, task_queue_id_counter, queue_entries, wakeable,
                   taskVars, pauses, wake, callerVars>>

\* The observers FlushTasks notifies after each task of q's loop.
GetObserversToNotify(q) ==
    IF IsSubsumed(q) THEN {}
    ELSE UNION {{<<s, key>> : key \in task_observers[s]} : s \in Sources(q)}

\* Mutant: the check that the subsumed queue owns nothing is missing.
MergeOfAnOwner(owner, subsumed) ==
    /\ owner # subsumed
    /\ owner \in queue_entries /\ subsumed \in queue_entries
    /\ ~Owns(owner, subsumed)
    /\ ~IsSubsumed(owner)
    /\ ~IsSubsumed(subsumed)
    /\ owner_of' = [owner_of EXCEPT ![owner] = @ \cup {subsumed}]
    /\ subsumed_by' = [subsumed_by EXCEPT ![subsumed] = owner]
    /\ UNCHANGED <<entryVars, taskVars, pauses, callerVars>>
    /\ WakeUpAsNeeded({owner})

\* Merge returns true without a change when the queues are equal or already
\* merged in this way, and false when one of the checks fails.
Merge(owner, subsumed) ==
    /\ owner # subsumed
    /\ owner \in queue_entries /\ subsumed \in queue_entries
    /\ ~Owns(owner, subsumed)
    /\ ~IsSubsumed(owner)
    /\ owner_of[subsumed] = {}
    /\ ~IsSubsumed(subsumed)
    /\ owner_of' = [owner_of EXCEPT ![owner] = @ \cup {subsumed}]
    /\ subsumed_by' = [subsumed_by EXCEPT ![subsumed] = owner]
    /\ UNCHANGED <<entryVars, taskVars, pauses, callerVars>>
    /\ WakeUpAsNeeded({owner})

\* Mutant: only the owner is woken.
UnmergeWakesOwner(owner, subsumed) ==
    /\ owner \in queue_entries /\ subsumed \in queue_entries
    /\ ~IsSubsumed(owner) /\ Owns(owner, subsumed)
    /\ subsumed_by' = [subsumed_by EXCEPT ![subsumed] = kUnmerged]
    /\ owner_of' = [owner_of EXCEPT ![owner] = @ \ {subsumed}]
    /\ UNCHANGED <<entryVars, taskVars, pauses, callerVars>>
    /\ WakeUpAsNeeded({owner})

Unmerge(owner, subsumed) ==
    /\ owner \in queue_entries /\ subsumed \in queue_entries
    /\ owner_of[owner] # {}
    /\ ~IsSubsumed(owner)
    /\ IsSubsumed(subsumed)
    /\ Owns(owner, subsumed)
    /\ subsumed_by' = [subsumed_by EXCEPT ![subsumed] = kUnmerged]
    /\ owner_of' = [owner_of EXCEPT ![owner] = @ \ {subsumed}]
    /\ UNCHANGED <<entryVars, taskVars, pauses, callerVars>>
    /\ WakeUpAsNeeded({owner, subsumed})

PauseSecondarySource(q) ==
    /\ q \in queue_entries
    /\ pauses[q] < MaxPauses
    /\ pauses' = [pauses EXCEPT ![q] = @ + 1]
    /\ UNCHANGED <<linkVars, entryVars, taskVars, wake, callerVars>>

\* Mutant: an unmatched resume is let through.
ResumeUnmatched(q) ==
    /\ q \in queue_entries
    /\ pauses' = [pauses EXCEPT ![q] = @ - 1]
    /\ UNCHANGED <<linkVars, entryVars, taskVars, callerVars>>
    /\ WakeUpAsNeeded({q})

\* The guard is the FOREVER_DCHECK of TaskSource::ResumeSecondary.
ResumeSecondarySource(q) ==
    /\ q \in queue_entries
    /\ pauses[q] - 1 >= 0
    /\ pauses' = [pauses EXCEPT ![q] = @ - 1]
    /\ UNCHANGED <<linkVars, entryVars, taskVars, callerVars>>
    /\ WakeUpAsNeeded({q})

Next ==
    \/ CreateTaskQueue
    \/ \E q \in QueueIds :
        \/ SetWakeable(q)
        \/ \E again \in Times \cup {NoWake} : WakeableFires(q, again)
        \/ Dispose(q)
        \/ DisposeTasks(q)
        \/ \E time \in Times, grade \in UsedGrades : RegisterTask(q, time, grade)
        \/ \E from_time \in Times : GetNextTaskToRun(q, from_time)
        \/ \E key \in ObserverKeys : AddTaskObserver(q, key)
        \/ \E key \in ObserverKeys : RemoveTaskObserver(q, key)
        \/ \E subsumed \in QueueIds : Merge(q, subsumed)
        \/ \E subsumed \in QueueIds : Unmerge(q, subsumed)
        \/ PauseSecondarySource(q)
        \/ ResumeSecondarySource(q)

Spec == Init /\ [][Next]_vars

-----------------------------------------------------------------------------
(* Properties                                                                *)

TypeOK ==
    /\ task_queue_id_counter \in 0 .. MaxQueues
    /\ queue_entries \in SUBSET QueueIds
    /\ owner_of \in [QueueIds -> SUBSET QueueIds]
    /\ subsumed_by \in [QueueIds -> QueueIds \cup {kUnmerged}]
    /\ primary \in [QueueIds -> SUBSET DelayedTask]
    /\ secondary \in [QueueIds -> SUBSET DelayedTask]
    /\ pauses \in [QueueIds -> 0 .. MaxPauses]
    /\ wakeable \in [QueueIds -> BOOLEAN]
    /\ wake \in [QueueIds -> Times \cup {NoWake}]
    /\ task_observers \in [QueueIds -> SUBSET ObserverKeys]
    /\ order \in 0 .. MaxTasks
    /\ invocation \in [QueueIds -> TopTask \cup {NoTask}]
    /\ tls_task_source_grade \in [QueueIds -> Grades \cup {NoGrade}]

\* A queue is an owner, subsumed, or independent, never an owner that is itself
\* subsumed (message_loop_task_queues.h, invariant 3 of merge and un-merge),
\* the two directions of every link agree, and links never dangle: both ends
\* still have their entry, so queue_entries_.at never throws while walking one.
MergeShape ==
    /\ \A o, s \in QueueIds : s \in owner_of[o] <=> subsumed_by[s] = o
    /\ \A q \in QueueIds : owner_of[q] # {} => ~IsSubsumed(q)
    /\ \A q \in QueueIds : owner_of[q] # {} => Sources(q) \subseteq queue_entries

\* Every queue is served by exactly one loop, the only one whose flush looks at
\* its tasks and notifies its observers; merging never orphans a queue.
ServedByOneLoop ==
    \A s \in queue_entries : \E q \in queue_entries :
        /\ ~IsSubsumed(q) /\ s \in Sources(q)
        /\ \A key \in task_observers[s] : <<s, key>> \in GetObserversToNotify(q)
        /\ \A r \in queue_entries \ {q} :
              /\ IsSubsumed(r) \/ s \notin Sources(r)
              /\ \A key \in ObserverKeys : <<s, key>> \notin GetObserversToNotify(r)

Pending(q) == primary[q] \cup secondary[q]

\* Every registered task sits in at most one heap of one queue, and a task that
\* GetNextTaskToRun handed to a loop is gone from all of them and was handed to
\* no other loop: merging, pausing and disposing never run a task twice.
EachTaskOnce ==
    /\ \A q, r \in QueueIds : \A t \in Pending(q), u \in Pending(r) :
          t.order = u.order => q = r /\ t = u
    /\ \A q \in QueueIds : primary[q] \cap secondary[q] = {}
    /\ \A q, r \in QueueIds : invocation[q] # NoTask =>
          /\ \A t \in Pending(r) : t.order # invocation[q].task.order
          /\ (invocation[r] # NoTask /\ q # r) =>
                invocation[r].task.order # invocation[q].task.order

\* Tasks of one heap with the same target time run in the order in which they
\* were registered, whichever loop runs them: nothing that was registered
\* before the task a loop got last is still waiting behind it.
FifoAtEqualTimes ==
    \A q \in QueueIds : invocation[q] # NoTask =>
        LET t == invocation[q].task
            s == invocation[q].task_queue_id
            heap == IF t.grade \in PrimaryGrades THEN primary[s] ELSE secondary[s]
        IN  \A u \in heap : u.time = t.time => u.order > t.order

\* What TaskSource and the queues promise to provide, stated without heaps.
Visible(q) == primary[q] \cup (IF pauses[q] > 0 THEN {} ELSE secondary[q])

\* The step gives a loop a task only if its queue is not subsumed and the task
\* is the earliest of everything visible in its own and its subsumed queues, and
\* leaves its timer armed for the time of that task, so that whatever is behind
\* it is looked at again.
GivenTheEarliest ==
    \A q \in QueueIds :
        (invocation'[q] # invocation[q] /\ invocation'[q] # NoTask) =>
            LET t == invocation'[q].task
                s == invocation'[q].task_queue_id
            IN  /\ ~IsSubsumed(q)
                /\ s \in Sources(q) /\ t \in Visible(s)
                /\ \A x \in Sources(q) : \A u \in Visible(x) : u = t \/ After(u, t)
                /\ wakeable[q] => wake'[q] = t.time

\* No call of GetNextTaskToRun overtakes an earlier task, across the two heaps
\* and across the queues that were merged.
RunsTheEarliest == [][GivenTheEarliest]_vars

\* GetCurrentTaskSourceGrade, called by the task a loop is running, returns the
\* grade that task was registered with.
GradeOfTheRunningTask ==
    \A q \in QueueIds : invocation[q] # NoTask =>
        tls_task_source_grade[q] = invocation[q].task.grade
=============================================================================
