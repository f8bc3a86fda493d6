-------------------------- MODULE TaskQueuesProofs --------------------------
(* Proofs about TaskQueues, for every number of queues, tasks, pauses and    *)
(* target times.                                                             *)
EXTENDS TaskQueues, WellFoundedInduction, TLAPS

-----------------------------------------------------------------------------
(* The order of tasks                                                        *)

\* Every non-empty set of naturals has a least element.
LEMMA NatMin ==
    ASSUME NEW S \in SUBSET Nat, S # {}
    PROVE  \E m \in S : \A n \in S : m <= n
<1>1. PICK m \in S : \A n \in S : ~(<<n, m>> \in OpToRel(<, Nat))
  BY WFMin, NatLessThanWellFounded
<1>2. ASSUME NEW n \in S PROVE m <= n
  <2>1. ~(<<n, m>> \in OpToRel(<, Nat))
    BY <1>1
  <2>2. n \in Nat /\ m \in Nat
    OBVIOUS
  <2>3. ~(n < m)
    BY <2>1, <2>2 DEF OpToRel
  <2> QED
    BY <2>2, <2>3
<1> QED
  BY <1>2

\* A non-empty set of tasks has a first one: target times and serial numbers
\* are naturals, and DelayedTask::operator> compares them in that order.
LEMMA EarliestExists ==
    ASSUME NEW S \in SUBSET DelayedTask, S # {}
    PROVE  \E t \in S : \A u \in S : ~After(t, u)
<1> DEFINE TT == {t.time : t \in S}
<1>1. TT \in SUBSET Nat /\ TT # {}
  BY BoundsAssumption DEF DelayedTask, Times
<1>2. PICK time \in TT : \A n \in TT : time <= n
  BY <1>1, NatMin
<1> DEFINE OO == {t.order : t \in {u \in S : u.time = time}}
<1>3. OO \in SUBSET Nat /\ OO # {}
  BY BoundsAssumption DEF DelayedTask
<1>4. PICK order_ \in OO : \A n \in OO : order_ <= n
  BY <1>3, NatMin
<1>5. PICK t \in S : t.time = time /\ t.order = order_
  OBVIOUS
<1>6. ASSUME NEW u \in S PROVE ~After(t, u)
  <2>1. u.time \in TT /\ (u.time = time => u.order \in OO)
    OBVIOUS
  <2>2. time <= u.time /\ (u.time = time => order_ <= u.order)
    BY <2>1, <1>2, <1>4
  <2>3. time \in Nat /\ u.time \in Nat /\ order_ \in Nat /\ u.order \in Nat
    BY <1>1, <1>3, BoundsAssumption DEF DelayedTask, Times
  <2> QED
    BY <1>5, <2>2, <2>3 DEF After
<1> QED
  BY <1>6

\* First(S) is that task.
LEMMA FirstIsEarliest ==
    ASSUME NEW S \in SUBSET DelayedTask, S # {}
    PROVE  First(S) \in S /\ \A u \in S : ~After(First(S), u)
BY EarliestExists DEF First

-----------------------------------------------------------------------------
(* What Top and PeekNextTask return                                          *)

\* The part of the type invariant that the queries depend on.
HeapTypes ==
    /\ owner_of \in [QueueIds -> SUBSET QueueIds]
    /\ primary \in [QueueIds -> SUBSET DelayedTask]
    /\ secondary \in [QueueIds -> SUBSET DelayedTask]
    /\ pauses \in [QueueIds -> 0 .. MaxPauses]

\* A source that is not empty has a top task, the first of those it shows.
LEMMA TopIsVisible ==
    ASSUME HeapTypes, NEW q \in QueueIds, ~IsEmpty(q)
    PROVE  /\ Top(q) \in TopTask
           /\ Top(q).task_queue_id = q
           /\ Top(q).task \in Visible(q)
           /\ \/ primary[q] # {} /\ Top(q).task = First(primary[q])
              \/ secondary[q] # {} /\ Top(q).task = First(secondary[q])
           /\ \A u \in Visible(q) : ~After(Top(q).task, u)
<1> DEFINE p == primary[q]
           s == secondary[q]
<1>1. p \in SUBSET DelayedTask /\ s \in SUBSET DelayedTask
  BY DEF HeapTypes
<1>2. pauses[q] \in Nat
  BY BoundsAssumption DEF HeapTypes
<1>3. p # {} => First(p) \in p /\ \A u \in p : ~After(First(p), u)
  BY <1>1, FirstIsEarliest
<1>4. s # {} => First(s) \in s /\ \A u \in s : ~After(First(s), u)
  BY <1>1, FirstIsEarliest
<1>5. CASE pauses[q] > 0 \/ s = {}
  <2>1. p # {} /\ Top(q) = [task_queue_id |-> q, task |-> First(p)]
    BY <1>2, <1>5 DEF IsEmpty, Top
  <2>2. Visible(q) = p
    BY <1>2, <1>5 DEF Visible
  <2> QED
    BY <1>1, <1>3, <2>1, <2>2 DEF TopTask
<1>6. CASE ~(pauses[q] > 0 \/ s = {}) /\ p = {}
  <2>1. Top(q) = [task_queue_id |-> q, task |-> First(s)]
    BY <1>6 DEF Top
  <2>2. Visible(q) = s
    BY <1>6 DEF Visible
  <2> QED
    BY <1>1, <1>4, <1>6, <2>1, <2>2 DEF TopTask
<1>7. CASE ~(pauses[q] > 0 \/ s = {}) /\ p # {}
  <2>1. Visible(q) = p \cup s
    BY <1>7 DEF Visible
  <2>2. Top(q) = [task_queue_id |-> q,
                  task |-> IF After(First(p), First(s)) THEN First(s) ELSE First(p)]
    BY <1>7 DEF Top
  <2>3. \A t \in p \cup s : t.time \in Int /\ t.order \in Int
    BY <1>1, BoundsAssumption DEF DelayedTask, Times
  <2>5. CASE After(First(p), First(s))
    <3>1. ASSUME NEW u \in p PROVE ~After(First(s), u)
      BY <1>3, <1>4, <1>7, <2>3, <2>5 DEF After
    <3> QED
      BY <1>1, <1>4, <1>7, <2>1, <2>2, <2>5, <3>1 DEF TopTask
  <2>6. CASE ~After(First(p), First(s))
    <3>1. ASSUME NEW u \in s PROVE ~After(First(p), u)
      BY <1>3, <1>4, <1>7, <2>3, <2>6 DEF After
    <3> QED
      BY <1>1, <1>3, <1>7, <2>1, <2>2, <2>6, <3>1 DEF TopTask
  <2> QED
    BY <2>5, <2>6
<1> QED
  BY <1>5, <1>6, <1>7

\* What a peek at the queue finds: the least of the tasks on top.
PeekFact ==
    HeapTypes => \A q \in QueueIds : HasPendingTasks(q) =>
        \E s \in Sources(q) :
            /\ ~IsEmpty(s)
            /\ PeekNextTask(q) = Top(s)
            /\ PeekNextTask(q) \in TopTask
            /\ \A x \in Sources(q) :
                  ~IsEmpty(x) => ~After(PeekNextTask(q).task, Top(x).task)

\* PeekNextTask finds the first of the tops of the sources that are not empty.
LEMMA PeekIsEarliest == PeekFact
<1> SUFFICES ASSUME HeapTypes, NEW q \in QueueIds, HasPendingTasks(q)
             PROVE  \E s \in Sources(q) :
                      /\ ~IsEmpty(s)
                      /\ PeekNextTask(q) = Top(s)
                      /\ PeekNextTask(q) \in TopTask
                      /\ \A x \in Sources(q) :
                            ~IsEmpty(x) => ~After(PeekNextTask(q).task, Top(x).task)
  BY DEF PeekFact
<1> DEFINE src == {x \in Sources(q) : ~IsEmpty(x)}
           tops == {Top(s) : s \in src}
           tsks == {t.task : t \in tops}
<1>1. src # {} /\ src \subseteq QueueIds
  BY DEF HasPendingTasks, Sources, HeapTypes
<1>2. \A s \in src : Top(s) \in TopTask
  BY <1>1, TopIsVisible
<1>3. tsks \in SUBSET DelayedTask /\ tsks # {}
  BY <1>1, <1>2 DEF TopTask
<1>4. PICK m \in tsks : \A u \in tsks : ~After(m, u)
  BY <1>3, EarliestExists
<1>5. \E t \in tops : \A u \in tops : ~After(t.task, u.task)
  BY <1>4
<1>6. /\ PeekNextTask(q) \in tops
      /\ \A u \in tops : ~After(PeekNextTask(q).task, u.task)
  BY <1>5 DEF PeekNextTask
<1> QED
  BY <1>2, <1>6

-----------------------------------------------------------------------------
(* The type invariant                                                        *)

\* A wake-up leaves the timers well-typed.
LEMMA WakeUpTyped ==
    ASSUME TypeOK, HeapTypes', NEW Q, WakeUpAsNeeded(Q)
    PROVE  wake' \in [QueueIds -> Times \cup {NoWake}]
<1>1. ASSUME NEW q \in QueueIds, HasPendingTasks(q)'
      PROVE  GetNextWakeTime(q)' \in Times
  <2>1. PeekFact'
    BY PeekIsEarliest, PTL
  <2>2. (PeekNextTask(q) \in TopTask)'
    BY <1>1, <2>1 DEF PeekFact
  <2> QED
    BY <2>2 DEF GetNextWakeTime, TopTask, DelayedTask
<1>2. wake \in [QueueIds -> Times \cup {NoWake}]
  BY DEF TypeOK
<1> QED
  BY <1>1, <1>2 DEF WakeUpAsNeeded

\* The first state is well formed.
LEMMA TypeInit == Init => TypeOK
BY BoundsAssumption DEF Init, TypeOK, QueueIds, NoWake

\* GetNextTaskToRun pops from the heaps and hands out a TopTask.
LEMMA GetNextTyped ==
    ASSUME TypeOK, NEW q \in QueueIds, NEW from_time \in Times,
           GetNextTaskToRun(q, from_time)
    PROVE  TypeOK'
<1>1. HeapTypes
  BY DEF TypeOK, HeapTypes
<1>2. CASE ~HasPendingTasks(q)
  BY <1>2 DEF TypeOK, GetNextTaskToRun, linkVars, entryVars
<1>3. CASE HasPendingTasks(q)
  <2> DEFINE top == PeekNextTask(q)
  <2>1. top \in TopTask
    BY <1>1, <1>3, PeekIsEarliest DEF PeekFact
  <2>2. GetNextWakeTime(q) \in Times
    BY <2>1 DEF GetNextWakeTime, TopTask, DelayedTask
  <2>3. wake' \in [QueueIds -> Times \cup {NoWake}]
    BY <1>3, <2>2 DEF TypeOK, GetNextTaskToRun
  <2>4. UNCHANGED <<linkVars, entryVars, order, pauses>>
    BY DEF GetNextTaskToRun
  <2>5. CASE top.task.time > from_time
    BY <1>3, <2>3, <2>4, <2>5 DEF TypeOK, GetNextTaskToRun, linkVars, entryVars
  <2>6. CASE ~(top.task.time > from_time)
    <3> HIDE DEF top
    <3>1. /\ PopTask(top)
          /\ invocation' = [invocation EXCEPT ![q] = top]
          /\ tls_task_source_grade' =
               [tls_task_source_grade EXCEPT ![q] = GradeAfterPop(top)]
      BY <1>3, <2>6 DEF GetNextTaskToRun, top
    <3>2. top.task_queue_id \in QueueIds /\ top.task \in DelayedTask
      BY <2>1 DEF TopTask
    <3>3. /\ primary' \in [QueueIds -> SUBSET DelayedTask]
          /\ secondary' \in [QueueIds -> SUBSET DelayedTask]
      BY <3>1, <3>2 DEF TypeOK, PopTask
    <3>4. invocation' \in [QueueIds -> TopTask \cup {NoTask}]
      BY <2>1, <3>1 DEF TypeOK
    <3>5. GradeAfterPop(top) \in Grades
      <4>1. ASSUME NEW heap \in SUBSET DelayedTask, heap # {}
            PROVE  First(heap).grade \in Grades
        BY <4>1, FirstIsEarliest DEF DelayedTask
      <4>2. top.task.grade \in Grades
        BY <3>2 DEF DelayedTask
      <4>3. primary'[top.task_queue_id] \in SUBSET DelayedTask
        BY <3>2, <3>3
      <4>4. secondary'[top.task_queue_id] \in SUBSET DelayedTask
        BY <3>2, <3>3
      <4> QED
        BY <4>1, <4>2, <4>3, <4>4 DEF GradeAfterPop
    <3>6. tls_task_source_grade' \in [QueueIds -> Grades \cup {NoGrade}]
      BY <3>1, <3>5 DEF TypeOK
    <3> QED
      BY <2>3, <2>4, <3>3, <3>4, <3>6 DEF TypeOK, linkVars, entryVars
  <2> QED
    BY <2>5, <2>6
<1> QED
  BY <1>2, <1>3

\* Every action keeps the types.
LEMMA TypeStep == TypeOK /\ [Next]_vars => TypeOK'
<1> SUFFICES ASSUME TypeOK, [Next]_vars PROVE TypeOK'
  OBVIOUS
<1> USE DEF linkVars, entryVars, taskVars, callerVars
<1>1. CASE CreateTaskQueue
  BY <1>1, BoundsAssumption DEF TypeOK, CreateTaskQueue, QueueIds
<1>2. ASSUME NEW q \in QueueIds, SetWakeable(q) PROVE TypeOK'
  BY <1>2 DEF TypeOK, SetWakeable
<1>3. ASSUME NEW q \in QueueIds, NEW again \in Times \cup {NoWake},
             WakeableFires(q, again)
      PROVE  TypeOK'
  BY <1>3 DEF TypeOK, WakeableFires
<1>4. ASSUME NEW q \in QueueIds, Dispose(q) PROVE TypeOK'
  <2>1. /\ queue_entries' \in SUBSET QueueIds
        /\ owner_of' \in [QueueIds -> SUBSET QueueIds]
        /\ subsumed_by' \in [QueueIds -> QueueIds \cup {kUnmerged}]
        /\ wakeable' \in [QueueIds -> BOOLEAN]
        /\ task_observers' \in [QueueIds -> SUBSET ObserverKeys]
    BY <1>4 DEF TypeOK, Dispose
  <2>2. /\ primary' \in [QueueIds -> SUBSET DelayedTask]
        /\ secondary' \in [QueueIds -> SUBSET DelayedTask]
    BY <1>4 DEF TypeOK, Dispose, ShutDown
  <2>3. pauses' \in [QueueIds -> 0 .. MaxPauses]
    BY <1>4, BoundsAssumption DEF TypeOK, Dispose
  <2>4. wake' \in [QueueIds -> Times \cup {NoWake}]
    BY <1>4 DEF TypeOK, Dispose
  <2> QED
    BY <1>4, <2>1, <2>2, <2>3, <2>4 DEF TypeOK, Dispose
<1>5. ASSUME NEW q \in QueueIds, DisposeTasks(q) PROVE TypeOK'
  BY <1>5 DEF TypeOK, DisposeTasks, ShutDown
<1>6. ASSUME NEW q \in QueueIds, NEW time \in Times, NEW grade \in UsedGrades,
             RegisterTask(q, time, grade)
      PROVE  TypeOK'
  <2>1. [order |-> order, time |-> time, grade |-> grade] \in DelayedTask
    BY <1>6, GradesAssumption, BoundsAssumption DEF TypeOK, RegisterTask, DelayedTask
  <2>2. /\ primary' \in [QueueIds -> SUBSET DelayedTask]
        /\ secondary' \in [QueueIds -> SUBSET DelayedTask]
    BY <1>6, <2>1 DEF TypeOK, RegisterTask
  <2>3. HeapTypes'
    BY <1>6, <2>2 DEF TypeOK, RegisterTask, HeapTypes
  <2>4. wake' \in [QueueIds -> Times \cup {NoWake}]
    BY <1>6, <2>3, WakeUpTyped DEF RegisterTask
  <2>5. order' \in 0 .. MaxTasks
    BY <1>6, BoundsAssumption DEF TypeOK, RegisterTask
  <2> QED
    BY <1>6, <2>2, <2>4, <2>5 DEF TypeOK, RegisterTask
<1>7. ASSUME NEW q \in QueueIds, NEW from_time \in Times,
             GetNextTaskToRun(q, from_time)
      PROVE  TypeOK'
  BY <1>7, GetNextTyped
<1>8. ASSUME NEW q \in QueueIds, NEW key \in ObserverKeys,
             AddTaskObserver(q, key) \/ RemoveTaskObserver(q, key)
      PROVE  TypeOK'
  BY <1>8 DEF TypeOK, AddTaskObserver, RemoveTaskObserver
<1>9. ASSUME NEW q \in QueueIds, NEW subsumed \in QueueIds, Merge(q, subsumed)
      PROVE  TypeOK'
  <2>1. HeapTypes' /\ subsumed_by' \in [QueueIds -> QueueIds \cup {kUnmerged}]
    BY <1>9 DEF TypeOK, HeapTypes, Merge
  <2>2. wake' \in [QueueIds -> Times \cup {NoWake}]
    BY <1>9, <2>1, WakeUpTyped DEF Merge
  <2> QED
    BY <1>9, <2>1, <2>2 DEF TypeOK, HeapTypes, Merge
<1>10. ASSUME NEW q \in QueueIds, NEW subsumed \in QueueIds, Unmerge(q, subsumed)
       PROVE  TypeOK'
  <2>1. HeapTypes' /\ subsumed_by' \in [QueueIds -> QueueIds \cup {kUnmerged}]
    BY <1>10 DEF TypeOK, HeapTypes, Unmerge
  <2>2. wake' \in [QueueIds -> Times \cup {NoWake}]
    BY <1>10, <2>1, WakeUpTyped DEF Unmerge
  <2> QED
    BY <1>10, <2>1, <2>2 DEF TypeOK, HeapTypes, Unmerge
<1>11. ASSUME NEW q \in QueueIds, PauseSecondarySource(q) PROVE TypeOK'
  BY <1>11, BoundsAssumption DEF TypeOK, PauseSecondarySource
<1>12. ASSUME NEW q \in QueueIds, ResumeSecondarySource(q) PROVE TypeOK'
  <2>1. pauses' \in [QueueIds -> 0 .. MaxPauses]
    BY <1>12, BoundsAssumption DEF TypeOK, ResumeSecondarySource
  <2>2. HeapTypes'
    BY <1>12, <2>1 DEF TypeOK, HeapTypes, ResumeSecondarySource
  <2>3. wake' \in [QueueIds -> Times \cup {NoWake}]
    BY <1>12, <2>2, WakeUpTyped DEF ResumeSecondarySource
  <2> QED
    BY <1>12, <2>1, <2>3 DEF TypeOK, ResumeSecondarySource
<1>13. CASE UNCHANGED vars
  BY <1>13 DEF TypeOK, vars
<1> QED
  BY <1>1, <1>2, <1>3, <1>4, <1>5, <1>6, <1>7, <1>8, <1>9, <1>10, <1>11,
     <1>12, <1>13 DEF Next

\* The variables keep their types in every behaviour of the task queues.
THEOREM TypeCorrect == Spec => []TypeOK
BY TypeInit, TypeStep, PTL DEF Spec

-----------------------------------------------------------------------------
(* Merging                                                                   *)

\* The two maps owner_of and subsumed_by change together: MergeShape is
\* inductive given the types.
LEMMA MergeShapeStep ==
    TypeOK /\ MergeShape /\ [Next]_vars => MergeShape'
<1> SUFFICES ASSUME TypeOK, MergeShape, [Next]_vars PROVE MergeShape'
  OBVIOUS
<1> USE DEF linkVars, entryVars, taskVars, callerVars
<1>1. CASE CreateTaskQueue
  BY <1>1 DEF MergeShape, IsSubsumed, Sources, CreateTaskQueue
<1>2. ASSUME NEW q \in QueueIds, SetWakeable(q) PROVE MergeShape'
  BY <1>2 DEF MergeShape, IsSubsumed, Sources, SetWakeable
<1>3. ASSUME NEW q \in QueueIds, NEW again, WakeableFires(q, again) PROVE MergeShape'
  BY <1>3 DEF MergeShape, IsSubsumed, Sources, WakeableFires
<1>4. ASSUME NEW q \in QueueIds, Dispose(q) PROVE MergeShape'
  <2>1. /\ queue_entries' = queue_entries \ Sources(q)
        /\ owner_of' = [x \in QueueIds |-> IF x \in Sources(q) THEN {} ELSE owner_of[x]]
        /\ subsumed_by' =
             [x \in QueueIds |-> IF x \in Sources(q) THEN kUnmerged ELSE subsumed_by[x]]
        /\ ~IsSubsumed(q)
    BY <1>4 DEF Dispose
  <2>2. ASSUME NEW o \in QueueIds, NEW s \in QueueIds
        PROVE  s \in owner_of'[o] <=> subsumed_by'[s] = o
    BY <2>1 DEF MergeShape, IsSubsumed, Sources, kUnmerged, QueueIds, TypeOK
  <2>3. ASSUME NEW x \in QueueIds, owner_of'[x] # {}
        PROVE  ~IsSubsumed(x)' /\ Sources(x)' \subseteq queue_entries'
    <3>1. owner_of'[x] = owner_of[x] /\ x \notin Sources(q)
      BY <2>1, <2>3
    <3>2. \A y \in owner_of[x] : y \notin Sources(q)
      BY <2>1, <3>1 DEF MergeShape, IsSubsumed, Sources, kUnmerged, QueueIds, TypeOK
    <3> QED
      BY <2>1, <2>3, <3>1, <3>2 DEF MergeShape, IsSubsumed, Sources
  <2> QED
    BY <2>2, <2>3 DEF MergeShape
<1>5. ASSUME NEW q \in QueueIds, DisposeTasks(q) PROVE MergeShape'
  BY <1>5 DEF MergeShape, IsSubsumed, Sources, DisposeTasks
<1>6. ASSUME NEW q \in QueueIds, NEW time, NEW grade, RegisterTask(q, time, grade)
      PROVE  MergeShape'
  BY <1>6 DEF MergeShape, IsSubsumed, Sources, RegisterTask
<1>7. ASSUME NEW q \in QueueIds, NEW from_time, GetNextTaskToRun(q, from_time)
      PROVE  MergeShape'
  BY <1>7 DEF MergeShape, IsSubsumed, Sources, GetNextTaskToRun
<1>8. ASSUME NEW q \in QueueIds, NEW key,
             AddTaskObserver(q, key) \/ RemoveTaskObserver(q, key)
      PROVE  MergeShape'
  BY <1>8 DEF MergeShape, IsSubsumed, Sources, AddTaskObserver, RemoveTaskObserver
<1>9. ASSUME NEW q \in QueueIds, NEW subsumed \in QueueIds, Merge(q, subsumed)
      PROVE  MergeShape'
  <2>1. kUnmerged \notin QueueIds
    BY DEF kUnmerged, QueueIds
  <2> QED
    BY <1>9, <2>1 DEF MergeShape, IsSubsumed, Sources, Owns, Merge, TypeOK
<1>10. ASSUME NEW q \in QueueIds, NEW subsumed \in QueueIds, Unmerge(q, subsumed)
       PROVE  MergeShape'
  <2>1. kUnmerged \notin QueueIds
    BY DEF kUnmerged, QueueIds
  <2> QED
    BY <1>10, <2>1 DEF MergeShape, IsSubsumed, Sources, Owns, Unmerge, TypeOK
<1>11. ASSUME NEW q \in QueueIds,
              PauseSecondarySource(q) \/ ResumeSecondarySource(q)
       PROVE  MergeShape'
  BY <1>11 DEF MergeShape, IsSubsumed, Sources, PauseSecondarySource,
               ResumeSecondarySource
<1>12. CASE UNCHANGED vars
  BY <1>12 DEF MergeShape, IsSubsumed, Sources, vars
<1> QED
  BY <1>1, <1>2, <1>3, <1>4, <1>5, <1>6, <1>7, <1>8, <1>9, <1>10, <1>11,
     <1>12 DEF Next

\* In every behaviour a queue is an owner, subsumed or independent, and the
\* links agree and do not dangle, whatever calls of Merge, Unmerge and Dispose
\* are made by whom in which order.
THEOREM MergeShapeInvariant == Spec => []MergeShape
<1>1. Init => MergeShape
  BY DEF Init, MergeShape, IsSubsumed, Sources, kUnmerged, QueueIds
<1> QED
  BY <1>1, TypeCorrect, MergeShapeStep, PTL DEF Spec

\* Every queue is served by exactly one loop: its owner's if it is subsumed,
\* its own otherwise.
THEOREM ServedInvariant == Spec => []ServedByOneLoop
<1>1. ASSUME TypeOK, MergeShape, NEW s \in queue_entries
      PROVE  \E q \in queue_entries :
               /\ ~IsSubsumed(q) /\ s \in Sources(q)
               /\ \A key \in task_observers[s] : <<s, key>> \in GetObserversToNotify(q)
               /\ \A r \in queue_entries \ {q} :
                     /\ IsSubsumed(r) \/ s \notin Sources(r)
                     /\ \A key \in ObserverKeys : <<s, key>> \notin GetObserversToNotify(r)
  <2> DEFINE q == IF IsSubsumed(s) THEN subsumed_by[s] ELSE s
  <2>1. s \in QueueIds /\ queue_entries \subseteq QueueIds /\ kUnmerged \notin QueueIds
    BY <1>1 DEF TypeOK, kUnmerged, QueueIds
  <2>2. q \in QueueIds /\ s \in Sources(q) /\ ~IsSubsumed(q) /\ q \in queue_entries
    BY <1>1, <2>1 DEF TypeOK, MergeShape, IsSubsumed, Sources
  <2>3. ASSUME NEW r \in queue_entries \ {q} PROVE IsSubsumed(r) \/ s \notin Sources(r)
    BY <1>1, <2>1, <2>2 DEF TypeOK, MergeShape, IsSubsumed, Sources
  <2>4. \A key \in task_observers[s] : <<s, key>> \in GetObserversToNotify(q)
    BY <2>2 DEF GetObserversToNotify
  <2>5. ASSUME NEW r \in queue_entries \ {q}, NEW key,
               <<s, key>> \in GetObserversToNotify(r)
        PROVE  FALSE
    <3>1. ~IsSubsumed(r) /\ s \in Sources(r)
      BY <2>5 DEF GetObserversToNotify
    <3> QED
      BY <2>3, <3>1
  <2> QED
    BY <2>2, <2>3, <2>4, <2>5
<1>2. TypeOK /\ MergeShape => ServedByOneLoop
  BY <1>1 DEF ServedByOneLoop
<1> QED
  BY <1>2, TypeCorrect, MergeShapeInvariant, PTL

-----------------------------------------------------------------------------
(* Tasks                                                                     *)

\* What makes EachTaskOnce and FifoAtEqualTimes inductive: a heap holds the
\* tasks of its grades only, and serial numbers given out are below order.
HeapDiscipline ==
    /\ \A q \in QueueIds : \A t \in primary[q] :
          t.grade \in PrimaryGrades /\ t.order < order
    /\ \A q \in QueueIds : \A t \in secondary[q] :
          t.grade \in SecondaryGrades /\ t.order < order
    /\ \A q \in QueueIds : invocation[q] # NoTask => invocation[q].task.order < order

\* The inductive invariant of the queues.
TaskInv == TypeOK /\ HeapDiscipline /\ EachTaskOnce /\ FifoAtEqualTimes

\* What a call of GetNextTaskToRun that returns a task removes: the task it
\* returns, from the heap of its grade, of which it was the first.
LEMMA PopRemovesTop ==
    ASSUME TypeOK, HeapDiscipline, NEW q \in QueueIds, HasPendingTasks(q),
           PopTask(PeekNextTask(q))
    PROVE  LET s == PeekNextTask(q).task_queue_id
               t == PeekNextTask(q).task
           IN  /\ PeekNextTask(q) \in TopTask /\ s \in Sources(q)
               /\ \/ /\ t.grade \in PrimaryGrades /\ t \in primary[s]
                     /\ \A u \in primary[s] : ~After(t, u)
                     /\ primary' = [primary EXCEPT ![s] = @ \ {t}]
                     /\ secondary' = secondary
                  \/ /\ t.grade \in SecondaryGrades /\ t \in secondary[s]
                     /\ \A u \in secondary[s] : ~After(t, u)
                     /\ secondary' = [secondary EXCEPT ![s] = @ \ {t}]
                     /\ primary' = primary
<1> DEFINE top == PeekNextTask(q)
           s == top.task_queue_id
           t == top.task
<1>1. HeapTypes
  BY DEF TypeOK, HeapTypes
<1>2. PICK x \in Sources(q) : ~IsEmpty(x) /\ top = Top(x) /\ top \in TopTask
  BY <1>1, PeekIsEarliest DEF PeekFact
<1>3. x \in QueueIds
  BY <1>1 DEF HeapTypes, Sources
<1>4. s = x /\ \/ primary[x] # {} /\ t = First(primary[x])
               \/ secondary[x] # {} /\ t = First(secondary[x])
  BY <1>1, <1>2, <1>3, TopIsVisible
<1>5. primary[x] \in SUBSET DelayedTask /\ secondary[x] \in SUBSET DelayedTask
  BY <1>1, <1>3 DEF HeapTypes
<1>6. CASE primary[x] # {} /\ t = First(primary[x])
  <2>1. t \in primary[x] /\ \A u \in primary[x] : ~After(t, u)
    BY <1>5, <1>6, FirstIsEarliest
  <2>2. t.grade \in PrimaryGrades
    BY <1>3, <2>1 DEF HeapDiscipline
  <2>3. /\ primary' = [primary EXCEPT ![s] = @ \ {First(@)}]
        /\ secondary' = secondary
    BY <2>2 DEF PopTask
  <2>4. primary' = [primary EXCEPT ![s] = @ \ {t}]
    BY <1>4, <1>6, <2>3
  <2> QED
    BY <1>2, <1>4, <2>1, <2>2, <2>3, <2>4
<1>7. CASE secondary[x] # {} /\ t = First(secondary[x])
  <2>1. t \in secondary[x] /\ \A u \in secondary[x] : ~After(t, u)
    BY <1>5, <1>7, FirstIsEarliest
  <2>2. t.grade \in SecondaryGrades /\ t.grade \notin PrimaryGrades
    BY <1>3, <2>1 DEF HeapDiscipline, SecondaryGrades, PrimaryGrades
  <2>3. /\ secondary' = [secondary EXCEPT ![s] = @ \ {First(@)}]
        /\ primary' = primary
    BY <2>2 DEF PopTask
  <2>4. secondary' = [secondary EXCEPT ![s] = @ \ {t}]
    BY <1>4, <1>7, <2>3
  <2> QED
    BY <1>2, <1>4, <2>1, <2>2, <2>3, <2>4
<1> QED
  BY <1>4, <1>6, <1>7

\* Steps that only take tasks away, or touch no task, keep the invariant.
LEMMA TaskInvShrink ==
    ASSUME TaskInv, TypeOK', order' = order,
           \A q \in QueueIds : /\ primary'[q] \subseteq primary[q]
                               /\ secondary'[q] \subseteq secondary[q]
                               /\ invocation'[q] \in {invocation[q], NoTask}
    PROVE  TaskInv'
<1>1. HeapDiscipline'
  BY DEF TaskInv, HeapDiscipline
<1>2. EachTaskOnce'
  BY DEF TaskInv, EachTaskOnce, Pending
<1>3. FifoAtEqualTimes'
  <2>1. ASSUME NEW q \in QueueIds, invocation'[q] # NoTask
        PROVE  LET t == invocation'[q].task
                   s == invocation'[q].task_queue_id
                   heap == IF t.grade \in PrimaryGrades THEN primary'[s] ELSE secondary'[s]
               IN  \A u \in heap : u.time = t.time => u.order > t.order
    <3>1. invocation'[q] = invocation[q] /\ invocation[q] \in TopTask
      BY <2>1 DEF TaskInv, TypeOK
    <3>2. invocation[q].task_queue_id \in QueueIds
      BY <3>1 DEF TopTask
    <3> QED
      BY <2>1, <3>1, <3>2 DEF TaskInv, FifoAtEqualTimes
  <2> QED
    BY <2>1 DEF FifoAtEqualTimes
<1> QED
  BY <1>1, <1>2, <1>3 DEF TaskInv

\* RegisterTask adds a task whose serial number is new and larger than all.
LEMMA TaskInvRegister ==
    ASSUME TaskInv, TypeOK', NEW q \in QueueIds, NEW time \in Times,
           NEW grade \in UsedGrades, RegisterTask(q, time, grade)
    PROVE  TaskInv'
<1> DEFINE new == [order |-> order, time |-> time, grade |-> grade]
<1>1. /\ order \in Int /\ order' = order + 1
      /\ invocation' = invocation
      /\ grade \in Grades
  BY BoundsAssumption, GradesAssumption DEF TaskInv, TypeOK, RegisterTask, callerVars
<1>2. \/ /\ grade \in PrimaryGrades
         /\ primary' = [primary EXCEPT ![q] = @ \cup {new}]
         /\ secondary' = secondary
      \/ /\ grade \in SecondaryGrades
         /\ secondary' = [secondary EXCEPT ![q] = @ \cup {new}]
         /\ primary' = primary
  BY <1>1 DEF RegisterTask, Grades
<1>3. \A x \in QueueIds : \A t \in primary[x] \cup secondary[x] :
          t.order \in Int /\ t.order < order
  BY BoundsAssumption DEF TaskInv, TypeOK, HeapDiscipline, DelayedTask
<1>4. \A x \in QueueIds : invocation[x] # NoTask =>
          /\ invocation[x] \in TopTask
          /\ invocation[x].task.order \in Int /\ invocation[x].task.order < order
          /\ invocation[x].task_queue_id \in QueueIds
  BY BoundsAssumption DEF TaskInv, TypeOK, HeapDiscipline, TopTask, DelayedTask
<1>5. /\ primary \in [QueueIds -> SUBSET DelayedTask]
      /\ secondary \in [QueueIds -> SUBSET DelayedTask]
  BY DEF TaskInv, TypeOK
<1> HIDE DEF new
<1>6. new.order = order /\ new.time = time /\ new.grade = grade
  BY DEF new
<1>7. HeapDiscipline'
  BY <1>1, <1>2, <1>3, <1>4, <1>5, <1>6 DEF TaskInv, HeapDiscipline
<1>8. \A x \in QueueIds :
        /\ Pending(x)' = Pending(x) \cup (IF x = q THEN {new} ELSE {})
        /\ new \notin Pending(x)
        /\ \A t \in Pending(x) : t.order # new.order
  BY <1>1, <1>2, <1>3, <1>5, <1>6 DEF Pending
<1>9. EachTaskOnce'
  <2>1. \A x, r \in QueueIds : \A t \in Pending(x)', u \in Pending(r)' :
          t.order = u.order => x = r /\ t = u
    BY <1>8 DEF TaskInv, EachTaskOnce
  <2>2. \A x \in QueueIds : primary'[x] \cap secondary'[x] = {}
    BY <1>2, <1>5, <1>8 DEF TaskInv, EachTaskOnce, Pending
  <2>3. \A x, r \in QueueIds : invocation'[x] # NoTask =>
          /\ \A t \in Pending(r)' : t.order # invocation'[x].task.order
          /\ (invocation'[r] # NoTask /\ x # r) =>
                invocation'[r].task.order # invocation'[x].task.order
    BY <1>1, <1>4, <1>6, <1>8 DEF TaskInv, EachTaskOnce
  <2> QED
    BY <2>1, <2>2, <2>3 DEF EachTaskOnce
<1>10. FifoAtEqualTimes'
  BY <1>1, <1>2, <1>4, <1>5, <1>6 DEF TaskInv, FifoAtEqualTimes
<1> QED
  BY <1>7, <1>9, <1>10 DEF TaskInv

\* GetNextTaskToRun moves the first task from its heap to the caller.
LEMMA TaskInvGetNext ==
    ASSUME TaskInv, TypeOK', NEW q \in QueueIds, NEW from_time \in Times,
           GetNextTaskToRun(q, from_time)
    PROVE  TaskInv'
<1> DEFINE top == PeekNextTask(q)
           s == top.task_queue_id
           t == top.task
<1>1. CASE ~HasPendingTasks(q) \/ t.time > from_time
  <2>1. /\ order' = order /\ primary' = primary /\ secondary' = secondary
        /\ invocation' = [invocation EXCEPT ![q] = NoTask]
    BY <1>1 DEF GetNextTaskToRun
  <2> QED
    BY <2>1, TaskInvShrink DEF TaskInv, TypeOK
<1>2. CASE HasPendingTasks(q) /\ ~(t.time > from_time)
  <2>1. /\ PopTask(top) /\ order' = order
        /\ invocation' = [invocation EXCEPT ![q] = top]
    BY <1>2 DEF GetNextTaskToRun
  <2>2. /\ top \in TopTask
        /\ \/ /\ t.grade \in PrimaryGrades /\ t \in primary[s]
              /\ \A u \in primary[s] : ~After(t, u)
              /\ primary' = [primary EXCEPT ![s] = @ \ {t}]
              /\ secondary' = secondary
           \/ /\ t.grade \in SecondaryGrades /\ t \in secondary[s]
              /\ \A u \in secondary[s] : ~After(t, u)
              /\ secondary' = [secondary EXCEPT ![s] = @ \ {t}]
              /\ primary' = primary
    BY <1>2, <2>1, PopRemovesTop DEF TaskInv
  <2> HIDE DEF top
  <2>3. s \in QueueIds /\ t \in DelayedTask
    BY <2>2 DEF TopTask
  <2>4. /\ primary \in [QueueIds -> SUBSET DelayedTask]
        /\ secondary \in [QueueIds -> SUBSET DelayedTask]
        /\ invocation \in [QueueIds -> TopTask \cup {NoTask}]
        /\ order \in Int
    BY BoundsAssumption DEF TaskInv, TypeOK
  <2>5. \A x \in QueueIds : \A u \in primary[x] \cup secondary[x] :
          u.order \in Int /\ u.time \in Int /\ u.order < order
    BY <2>4, BoundsAssumption DEF TaskInv, HeapDiscipline, DelayedTask, Times
  <2>6. t \in Pending(s)
    BY <2>2 DEF Pending
  <2>7. t.order \in Int /\ t.time \in Int /\ t.order < order
    BY <2>3, <2>5, <2>6 DEF Pending
  <2>8. HeapDiscipline'
    BY <2>1, <2>2, <2>3, <2>4, <2>7 DEF TaskInv, HeapDiscipline
  <2>9. \A x \in QueueIds : Pending(x)' \subseteq Pending(x)
    BY <2>2, <2>3, <2>4 DEF Pending
  <2>10. t \notin primary'[s] \cup secondary'[s]
    <3>1. primary[s] \cap secondary[s] = {}
      BY <2>3 DEF TaskInv, EachTaskOnce
    <3> QED
      BY <2>2, <2>3, <2>4, <3>1
  <2>11. \A x \in QueueIds : \A u \in Pending(x)' : u.order # t.order
    <3>1. SUFFICES ASSUME NEW x \in QueueIds, NEW u \in Pending(x)', u.order = t.order
                   PROVE  FALSE
      OBVIOUS
    <3>2. u \in Pending(x)
      BY <2>9
    <3>3. x = s /\ u = t
      BY <2>3, <2>6, <3>1, <3>2 DEF TaskInv, EachTaskOnce
    <3> QED
      BY <2>10, <3>3 DEF Pending
  <2>12. EachTaskOnce'
    <3>1. \A x, r \in QueueIds : \A a \in Pending(x)', b \in Pending(r)' :
            a.order = b.order => x = r /\ a = b
      BY <2>9 DEF TaskInv, EachTaskOnce
    <3>2. \A x \in QueueIds : primary'[x] \cap secondary'[x] = {}
      BY <2>2, <2>3, <2>4 DEF TaskInv, EachTaskOnce
    <3>3. \A x, r \in QueueIds : invocation'[x] # NoTask =>
            /\ \A a \in Pending(r)' : a.order # invocation'[x].task.order
            /\ (invocation'[r] # NoTask /\ x # r) =>
                  invocation'[r].task.order # invocation'[x].task.order
      BY <2>1, <2>3, <2>4, <2>6, <2>9, <2>11 DEF TaskInv, EachTaskOnce
    <3> QED
      BY <3>1, <3>2, <3>3 DEF EachTaskOnce
  <2>13. FifoAtEqualTimes'
    <3>1. ASSUME NEW x \in QueueIds, invocation'[x] # NoTask
          PROVE  LET v == invocation'[x].task
                     r == invocation'[x].task_queue_id
                     heap == IF v.grade \in PrimaryGrades THEN primary'[r] ELSE secondary'[r]
                 IN  \A u \in heap : u.time = v.time => u.order > v.order
      <4>1. CASE x = q
        <5>1. invocation'[x] = top
          BY <2>1, <2>4, <4>1
        <5>2. ASSUME NEW u \in Pending(s), u.time = t.time, u # t, ~After(t, u)
              PROVE  u.order > t.order
          <6>1. u.order # t.order
            BY <2>3, <2>6, <5>2 DEF TaskInv, EachTaskOnce
          <6> QED
            BY <2>3, <2>5, <2>7, <5>2, <6>1 DEF After, Pending
        <5>3. t.grade \in SecondaryGrades => t.grade \notin PrimaryGrades
          BY DEF SecondaryGrades, PrimaryGrades
        <5> QED
          BY <2>2, <2>3, <2>4, <5>1, <5>2, <5>3 DEF Pending
      <4>2. CASE x # q
        <5>1. invocation'[x] = invocation[x] /\ invocation[x].task_queue_id \in QueueIds
          BY <2>1, <2>4, <3>1, <4>2 DEF TopTask
        <5> QED
          BY <2>2, <2>3, <2>4, <3>1, <5>1 DEF TaskInv, FifoAtEqualTimes
      <4> QED
        BY <4>1, <4>2
    <3> QED
      BY <3>1 DEF FifoAtEqualTimes
  <2> QED
    BY <2>8, <2>12, <2>13 DEF TaskInv
<1> QED
  BY <1>1, <1>2

\* Every action keeps the invariant.
LEMMA TaskInvStep == TaskInv /\ [Next]_vars => TaskInv'
<1> SUFFICES ASSUME TaskInv, [Next]_vars PROVE TaskInv'
  OBVIOUS
<1>1. TypeOK /\ TypeOK'
  BY TypeStep DEF TaskInv
<1>2. ASSUME UNCHANGED <<primary, secondary, order, invocation>> PROVE TaskInv'
  BY <1>1, <1>2, TaskInvShrink
<1>3. ASSUME NEW Q, ShutDown(Q), UNCHANGED <<order, invocation>> PROVE TaskInv'
  <2>1. \A x \in QueueIds : primary'[x] \subseteq primary[x]
                            /\ secondary'[x] \subseteq secondary[x]
    BY <1>3 DEF ShutDown
  <2> QED
    BY <1>1, <1>3, <2>1, TaskInvShrink
<1>4. CASE CreateTaskQueue
  BY <1>2, <1>4 DEF CreateTaskQueue, taskVars, callerVars
<1>5. ASSUME NEW q \in QueueIds, NEW again,
             SetWakeable(q) \/ WakeableFires(q, again)
      PROVE  TaskInv'
  BY <1>2, <1>5 DEF SetWakeable, WakeableFires, taskVars, callerVars
<1>6. ASSUME NEW q \in QueueIds, Dispose(q) PROVE TaskInv'
  BY <1>3, <1>6 DEF Dispose, callerVars
<1>7. ASSUME NEW q \in QueueIds, DisposeTasks(q) PROVE TaskInv'
  BY <1>3, <1>7 DEF DisposeTasks, callerVars
<1>8. ASSUME NEW q \in QueueIds, NEW time \in Times, NEW grade \in UsedGrades,
             RegisterTask(q, time, grade)
      PROVE  TaskInv'
  BY <1>1, <1>8, TaskInvRegister
<1>9. ASSUME NEW q \in QueueIds, NEW from_time \in Times,
             GetNextTaskToRun(q, from_time)
      PROVE  TaskInv'
  BY <1>1, <1>9, TaskInvGetNext
<1>10. ASSUME NEW q \in QueueIds, NEW key,
              AddTaskObserver(q, key) \/ RemoveTaskObserver(q, key)
       PROVE  TaskInv'
  BY <1>2, <1>10 DEF AddTaskObserver, RemoveTaskObserver, taskVars, callerVars
<1>11. ASSUME NEW q \in QueueIds, NEW subsumed \in QueueIds,
              Merge(q, subsumed) \/ Unmerge(q, subsumed)
       PROVE  TaskInv'
  BY <1>2, <1>11 DEF Merge, Unmerge, taskVars, callerVars
<1>12. ASSUME NEW q \in QueueIds,
              PauseSecondarySource(q) \/ ResumeSecondarySource(q)
       PROVE  TaskInv'
  BY <1>2, <1>12 DEF PauseSecondarySource, ResumeSecondarySource, taskVars, callerVars
<1>13. CASE UNCHANGED vars
  BY <1>2, <1>13 DEF vars, taskVars, callerVars
<1> QED
  BY <1>4, <1>5, <1>6, <1>7, <1>8, <1>9, <1>10, <1>11, <1>12, <1>13 DEF Next

\* TaskInv holds in every behaviour of the task queues.
LEMMA TaskInvariant == Spec => []TaskInv
<1>1. Init => TaskInv
  <2>1. ASSUME Init PROVE HeapDiscipline /\ EachTaskOnce /\ FifoAtEqualTimes
    BY <2>1 DEF Init, HeapDiscipline, EachTaskOnce, FifoAtEqualTimes, Pending
  <2> QED
    BY <2>1, TypeInit DEF TaskInv
<1> QED
  BY <1>1, TaskInvStep, PTL DEF Spec

\* No task is ever in two places or handed out twice, for any number of queues
\* and tasks and any order of merging, pausing, disposing and flushing.
THEOREM EachTaskOnceInvariant == Spec => []EachTaskOnce
<1>1. TaskInv => EachTaskOnce
  BY DEF TaskInv
<1> QED
  BY <1>1, TaskInvariant, PTL

\* Tasks of one heap with equal target times are handed out in the order of
\* their registration, by whichever loop serves the heap at the time.
THEOREM FifoInvariant == Spec => []FifoAtEqualTimes
<1>1. TaskInv => FifoAtEqualTimes
  BY DEF TaskInv
<1> QED
  BY <1>1, TaskInvariant, PTL

\* The task that a flush is given is the earliest of all that are visible.
LEMMA PeekPrecedesAll ==
    ASSUME TaskInv, NEW q \in QueueIds, HasPendingTasks(q)
    PROVE  LET top == PeekNextTask(q)
           IN  /\ top \in TopTask
               /\ top.task_queue_id \in Sources(q)
               /\ top.task \in Visible(top.task_queue_id)
               /\ \A x \in Sources(q) : \A u \in Visible(x) :
                     u = top.task \/ After(u, top.task)
<1> DEFINE top == PeekNextTask(q)
<1>1. HeapTypes /\ Sources(q) \subseteq QueueIds
  BY DEF TaskInv, TypeOK, HeapTypes, Sources
<1>2. PICK s \in Sources(q) :
        /\ ~IsEmpty(s) /\ top = Top(s) /\ top \in TopTask
        /\ \A x \in Sources(q) : ~IsEmpty(x) => ~After(top.task, Top(x).task)
  BY <1>1, PeekIsEarliest DEF PeekFact
<1>3. top.task_queue_id = s /\ top.task \in Visible(s)
  BY <1>1, <1>2, TopIsVisible
<1> HIDE DEF top
<1>4. ASSUME NEW x \in Sources(q), NEW u \in Visible(x), u # top.task
      PROVE  After(u, top.task)
  <2>1. x \in QueueIds /\ s \in QueueIds
    BY <1>1
  <2>2. ~IsEmpty(x)
    <3>1. pauses[x] \in Nat
      BY <1>1, <2>1, BoundsAssumption DEF HeapTypes
    <3> QED
      BY <1>4, <3>1 DEF IsEmpty, Visible
  <2>3. ~After(Top(x).task, u) /\ Top(x).task \in Visible(x) /\ ~After(top.task, Top(x).task)
    BY <1>1, <1>2, <2>1, <2>2, TopIsVisible
  <2>4. \A y \in QueueIds : Visible(y) \subseteq Pending(y)
    BY DEF Visible, Pending
  <2>5. \A y \in QueueIds : \A v \in Visible(y) : v.time \in Int /\ v.order \in Int
    BY <1>1, <2>4, BoundsAssumption DEF HeapTypes, Pending, DelayedTask, Times
  <2>6. u.order # top.task.order
    BY <1>3, <1>4, <2>1, <2>4 DEF TaskInv, EachTaskOnce
  <2> QED
    BY <1>3, <1>4, <2>1, <2>3, <2>5, <2>6 DEF After
<1>5. /\ top \in TopTask
      /\ top.task_queue_id \in Sources(q)
      /\ top.task \in Visible(top.task_queue_id)
      /\ \A x \in Sources(q) : \A u \in Visible(x) : u = top.task \/ After(u, top.task)
  BY <1>2, <1>3, <1>4
<1> QED
  BY <1>5 DEF top

\* A loop never gets a task while an earlier one is visible to it, whatever
\* was merged or paused before.
THEOREM EarliestFirst == Spec => RunsTheEarliest
<1>1. ASSUME TaskInv, [Next]_vars PROVE [GivenTheEarliest]_vars
  <2>1. ASSUME UNCHANGED invocation PROVE GivenTheEarliest
    BY <2>1 DEF GivenTheEarliest
  <2>2. ASSUME NEW q \in QueueIds, NEW from_time \in Times,
               GetNextTaskToRun(q, from_time)
        PROVE  GivenTheEarliest
    <3> DEFINE top == PeekNextTask(q)
    <3>1. ASSUME NEW x \in QueueIds, invocation'[x] # invocation[x], invocation'[x] # NoTask
          PROVE  /\ x = q /\ invocation'[q] = top /\ HasPendingTasks(q)
                 /\ wake' = [wake EXCEPT ![q] =
                               IF wakeable[q] THEN GetNextWakeTime(q) ELSE @]
      BY <2>2, <3>1, <1>1 DEF GetNextTaskToRun, TaskInv, TypeOK
    <3>2. ASSUME HasPendingTasks(q), invocation'[q] = top,
                 wake' = [wake EXCEPT ![q] = IF wakeable[q] THEN GetNextWakeTime(q) ELSE @]
          PROVE  LET t == invocation'[q].task
                     s == invocation'[q].task_queue_id
                 IN  /\ ~IsSubsumed(q)
                     /\ s \in Sources(q) /\ t \in Visible(s)
                     /\ \A x \in Sources(q) : \A u \in Visible(x) : u = t \/ After(u, t)
                     /\ wakeable[q] => wake'[q] = t.time
      <4>1. ~IsSubsumed(q)
        BY <3>2 DEF HasPendingTasks
      <4>2. wakeable[q] => wake'[q] = top.task.time
        BY <1>1, <3>2 DEF TaskInv, TypeOK, GetNextWakeTime
      <4>3. /\ top.task_queue_id \in Sources(q)
            /\ top.task \in Visible(top.task_queue_id)
            /\ \A x \in Sources(q) : \A u \in Visible(x) :
                  u = top.task \/ After(u, top.task)
        BY <1>1, <3>2, PeekPrecedesAll
      <4> HIDE DEF top
      <4> QED
        BY <3>2, <4>1, <4>2, <4>3
    <3> HIDE DEF top
    <3> QED
      BY <3>1, <3>2 DEF GivenTheEarliest
  <2>3. CASE UNCHANGED vars
    BY <2>3
  <2>4. CASE CreateTaskQueue
    BY <2>1, <2>4 DEF CreateTaskQueue, callerVars
  <2>5. ASSUME NEW q \in QueueIds, NEW again, NEW key, NEW subsumed, NEW time, NEW grade,
               \/ SetWakeable(q) \/ WakeableFires(q, again)
               \/ Dispose(q) \/ DisposeTasks(q) \/ RegisterTask(q, time, grade)
               \/ AddTaskObserver(q, key) \/ RemoveTaskObserver(q, key)
               \/ Merge(q, subsumed) \/ Unmerge(q, subsumed)
               \/ PauseSecondarySource(q) \/ ResumeSecondarySource(q)
        PROVE  GivenTheEarliest
    BY <2>1, <2>5 DEF SetWakeable, WakeableFires, Dispose, DisposeTasks, RegisterTask,
       AddTaskObserver, RemoveTaskObserver, Merge, Unmerge, PauseSecondarySource,
       ResumeSecondarySource, callerVars
  <2> QED
    BY <1>1, <2>2, <2>3, <2>4, <2>5 DEF Next
<1> QED
  BY <1>1, TaskInvariant, PTL DEF Spec, RunsTheEarliest
=============================================================================
