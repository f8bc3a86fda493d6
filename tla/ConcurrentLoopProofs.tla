------------------------ MODULE ConcurrentLoopProofs ------------------------
(* Proofs about ConcurrentLoop, for every number of workers, posters and     *)
(* tasks: no worker sleeps through work, and the loop implements TaskPool;   *)
(* and about TaskExecutor, for every set of closures: what is posted runs    *)
(* on the thread it is for, and a thread that ends leaves nothing behind.    *)
EXTENDS ConcurrentLoop, TaskExecutor, TLAPS

-----------------------------------------------------------------------------
(* The types                                                                 *)

\* A call carries its task until the task is queued or has run.
PostStates ==
    [at : {"idle", "notify", "return", "dtor", "destroyed"}, task : {NoTask}]
        \cup [at : {"locked", "inline", "alone"}, task : Tasks]

\* What a worker has taken: at most one task, ahead of its own closures.
Hands == {s \in Seq(Tasks \cup Broadcasts) :
            \A i \in 1..Len(s) : i > 1 => s[i] \in Broadcasts}

\* The state is well formed.
TypeOK ==
    /\ tasks \in Seq(Tasks)
    /\ thread_tasks \in [Workers -> Seq(Broadcasts)]
    /\ shutdown \in BOOLEAN
    /\ wpc \in [Workers -> {"test", "waiting", "run", "exited"}]
    /\ hand \in [Workers -> Hands]
    /\ shutdown_now \in [Workers -> BOOLEAN]
    /\ post \in [Threads -> PostStates]
    /\ owner \in BOOLEAN
    /\ posted \subseteq Tasks \cup Broadcasts
    /\ runs \in [Tasks -> Nat]
    /\ dropped \subseteq Tasks

-----------------------------------------------------------------------------
(* The inductive invariant                                                   *)

\* A worker has nothing in hand between two rounds.
HandsEmptied == \A w \in Workers : wpc[w] # "run" => hand[w] = <<>>

\* Workers leave only a loop that was shut down.
ExitsAreOrdered ==
    \A w \in Workers : shutdown_now[w] \/ wpc[w] = "exited" => shutdown

\* The loop is destroyed once, by the thread that gave up the last reference; the
\* owner posts nothing; and only what was destroyed dropped tasks.
Ends == {p \in Threads : post[p].at \in {"dtor", "destroyed"}}
Lifetime ==
    /\ ~owner /\ Holders = {} => shutdown
    /\ Ends # {} => ~owner /\ Holders = {}
    /\ \A p, q \in Ends : p = q
    /\ dropped # {} => \E p \in Threads : post[p].at = "destroyed"
    /\ post[Owner].at \in {"idle", "dtor", "destroyed"}

\* No task is queued twice.
NoRepeats == \A i, j \in 1..Len(tasks) : i # j => tasks[i] # tasks[j]

\* The places where a task can be: a kind of place and the thread that has it.
Kinds == {"queue", "locked", "hand", "caller", "ran", "dropped"}
Hosts == Threads \cup {"loop"}

\* A worker has t in hand, and a thread carries t in its call.
Held(w, t) == hand[w] # <<>> /\ hand[w][1] = t
Carried(p, t, places) == post[p].at \in places /\ post[p].task = t

\* The task is in that place.
IsAt(t, kind, host) ==
    \/ kind = "queue" /\ host = "loop" /\ t \in ToSet(tasks)
    \/ kind = "locked" /\ host \in Threads /\ Carried(host, t, {"locked"})
    \/ kind = "hand" /\ host \in Workers /\ Held(host, t)
    \/ kind = "caller" /\ host \in Threads /\ Carried(host, t, {"inline", "alone"})
    \/ kind = "ran" /\ host = "loop" /\ runs[t] > 0
    \/ kind = "dropped" /\ host = "loop" /\ t \in dropped

\* A task that was posted is in exactly one place, one that was not is nowhere.
OnlyAt(t, kind, host) ==
    \A k \in Kinds, h \in Hosts : IsAt(t, k, h) <=> k = kind /\ h = host
Nowhere(t) == \A k \in Kinds, h \in Hosts : ~IsAt(t, k, h)

InOnePlace(t) ==
    IF t \in posted
    THEN \E kind \in Kinds, host \in Hosts : OnlyAt(t, kind, host)
    ELSE Nowhere(t)

\* No task runs twice, and every one of them is where it should be.
OnePlace == \A t \in Tasks : runs[t] \in {0, 1} /\ InOnePlace(t)

\* The inductive invariant of the loop.
Inv ==
    /\ TypeOK
    /\ HandsEmptied
    /\ ExitsAreOrdered
    /\ Lifetime
    /\ NoRepeats
    /\ OnePlace
    /\ NoneSleepsThroughWork

-----------------------------------------------------------------------------
(* Sequences                                                                 *)

\* The front of a queue without repetitions leaves it.
LEMMA PopFront ==
    ASSUME NEW S, NEW s \in Seq(S), s # <<>>,
           \A i, j \in 1..Len(s) : i # j => s[i] # s[j]
    PROVE  /\ Head(s) \in S /\ Tail(s) \in Seq(S)
           /\ Head(s) \in ToSet(s) /\ ToSet(Tail(s)) = ToSet(s) \ {Head(s)}
           /\ \A i, j \in 1..Len(Tail(s)) : i # j => Tail(s)[i] # Tail(s)[j]
<1>1. /\ Len(s) \in Nat \ {0} /\ DOMAIN s = 1..Len(s) /\ Head(s) = s[1]
      /\ Tail(s) \in Seq(S) /\ Len(Tail(s)) = Len(s) - 1
      /\ DOMAIN Tail(s) = 1..(Len(s) - 1)
      /\ \A i \in 1..(Len(s) - 1) : Tail(s)[i] = s[i + 1]
  OBVIOUS
<1>2. Head(s) \in S /\ Head(s) \in ToSet(s)
  BY <1>1 DEF ToSet
<1>3. ASSUME NEW x PROVE x \in ToSet(Tail(s)) <=> x \in ToSet(s) /\ x # Head(s)
  <2>1. ASSUME x \in ToSet(Tail(s)) PROVE x \in ToSet(s) /\ x # Head(s)
    <3>1. PICK i \in 1..(Len(s) - 1) : x = s[i + 1]
      BY <2>1, <1>1 DEF ToSet
    <3>2. i + 1 \in 1..Len(s) /\ i + 1 # 1 /\ 1 \in 1..Len(s)
      BY <1>1
    <3> QED  BY <3>1, <3>2, <1>1 DEF ToSet
  <2>2. ASSUME x \in ToSet(s), x # Head(s) PROVE x \in ToSet(Tail(s))
    <3>1. PICK i \in 1..Len(s) : x = s[i]
      BY <2>2, <1>1 DEF ToSet
    <3>2. i - 1 \in 1..(Len(s) - 1) /\ Tail(s)[i - 1] = x
      BY <3>1, <2>2, <1>1
    <3> QED  BY <3>2, <1>1 DEF ToSet
  <2> QED  BY <2>1, <2>2
<1>4. \A i, j \in 1..Len(Tail(s)) : i # j => Tail(s)[i] # Tail(s)[j]
  BY <1>1
<1> QED  BY <1>1, <1>2, <1>3, <1>4

\* A task joins a queue it is not in.
LEMMA PushBack ==
    ASSUME NEW S, NEW s \in Seq(S), NEW x \in S, x \notin ToSet(s),
           \A i, j \in 1..Len(s) : i # j => s[i] # s[j]
    PROVE  /\ Append(s, x) \in Seq(S) /\ ToSet(Append(s, x)) = ToSet(s) \cup {x}
           /\ \A i, j \in 1..Len(Append(s, x)) :
                i # j => Append(s, x)[i] # Append(s, x)[j]
<1>1. /\ Len(s) \in Nat /\ DOMAIN s = 1..Len(s) /\ Append(s, x) \in Seq(S)
      /\ Len(Append(s, x)) = Len(s) + 1 /\ DOMAIN Append(s, x) = 1..(Len(s) + 1)
      /\ Append(s, x)[Len(s) + 1] = x
      /\ \A i \in 1..Len(s) : Append(s, x)[i] = s[i]
  OBVIOUS
<1>2. \A i \in 1..Len(s) : s[i] # x
  BY <1>1 DEF ToSet
<1>3. \A i \in 1..(Len(s) + 1) : i \in 1..Len(s) \/ i = Len(s) + 1
  BY <1>1
<1>4. ToSet(Append(s, x)) = ToSet(s) \cup {x}
  <2>1. Len(s) + 1 \in 1..(Len(s) + 1) /\ \A i \in 1..Len(s) : i \in 1..(Len(s) + 1)
    BY <1>1
  <2> QED  BY <1>1, <1>3, <2>1 DEF ToSet
<1>5. ASSUME NEW i \in 1..(Len(s) + 1), NEW j \in 1..(Len(s) + 1), i # j
      PROVE  Append(s, x)[i] # Append(s, x)[j]
  BY <1>1, <1>2, <1>3, <1>5
<1> QED  BY <1>1, <1>4, <1>5

\* What a worker takes in one round.
Taken(s, b) == (IF s = <<>> THEN <<>> ELSE <<Head(s)>>) \o b

\* It is a hand: the front of the shared queue, if any, before its own closures.
LEMMA TakenHand ==
    ASSUME NEW s \in Seq(Tasks), NEW b \in Seq(Broadcasts)
    PROVE  /\ Taken(s, b) \in Hands
           /\ s # <<>> => Taken(s, b) # <<>> /\ Taken(s, b)[1] = Head(s)
           /\ s = <<>> /\ Taken(s, b) # <<>> => Taken(s, b)[1] \in Broadcasts
<1>1. CASE s = <<>>
  <2>1. Taken(s, b) = b
    BY <1>1 DEF Taken
  <2>2. b \in Hands
    BY DEF Hands
  <2>3. b # <<>> => b[1] \in Broadcasts
    OBVIOUS
  <2> QED  BY <1>1, <2>1, <2>2, <2>3
<1>2. CASE s # <<>>
  <2> DEFINE h == <<Head(s)>> \o b
  <2>1. Taken(s, b) = h /\ Head(s) \in Tasks
    BY <1>2 DEF Taken
  <2>2. /\ h \in Seq(Tasks \cup Broadcasts) /\ Len(h) = Len(b) + 1 /\ h[1] = Head(s)
        /\ \A i \in 2..Len(h) : h[i] = b[i - 1]
    <3>1. <<Head(s)>> \in Seq(Tasks \cup Broadcasts) /\ b \in Seq(Tasks \cup Broadcasts)
          /\ Len(<<Head(s)>>) = 1 /\ <<Head(s)>>[1] = Head(s)
      BY <2>1
    <3> QED  BY <3>1
  <2>3. h # <<>>
    BY <2>2
  <2>4. ASSUME NEW i \in 1..Len(h), i > 1 PROVE h[i] \in Broadcasts
    <3>1. i \in 2..Len(h) /\ i - 1 \in 1..Len(b)
      BY <2>4, <2>2
    <3> QED  BY <3>1, <2>2
  <2>5. h \in Hands
    BY <2>2, <2>4 DEF Hands
  <2> QED  BY <1>2, <2>1, <2>2, <2>3, <2>5
<1> QED  BY <1>1, <1>2

\* What is left when the closure at the head has returned.
LEMMA RestOfHand ==
    ASSUME NEW h \in Hands, h # <<>>
    PROVE  /\ Tail(h) \in Hands /\ Head(h) = h[1] /\ h[1] \in Tasks \cup Broadcasts
           /\ Tail(h) # <<>> => Tail(h)[1] \in Broadcasts
<1>1. /\ h \in Seq(Tasks \cup Broadcasts) /\ Len(h) \in Nat \ {0} /\ Head(h) = h[1]
      /\ Tail(h) \in Seq(Tasks \cup Broadcasts) /\ Len(Tail(h)) = Len(h) - 1
      /\ \A i \in 1..(Len(h) - 1) : Tail(h)[i] = h[i + 1]
  BY DEF Hands
<1>2. \A i \in 1..(Len(h) - 1) : Tail(h)[i] \in Broadcasts
  <2>1. SUFFICES ASSUME NEW i \in 1..(Len(h) - 1) PROVE h[i + 1] \in Broadcasts
    BY <1>1
  <2>2. i + 1 \in 1..Len(h) /\ i + 1 > 1
    BY <1>1
  <2> QED  BY <2>2 DEF Hands
<1>3. Tail(h) \in Hands
  BY <1>1, <1>2 DEF Hands
<1>4. Tail(h) # <<>> => Tail(h)[1] \in Broadcasts
  <2>1. SUFFICES ASSUME Tail(h) # <<>> PROVE 1 \in 1..(Len(h) - 1)
    BY <1>2
  <2> QED  BY <1>1, <2>1
<1>5. h[1] \in Tasks \cup Broadcasts
  BY <1>1
<1> QED  BY <1>1, <1>3, <1>4, <1>5

\* A task can only be at the head of a hand.
LEMMA TaskLeadsHand ==
    ASSUME NEW h \in Hands, NEW t \in Tasks
    PROVE  t \in ToSet(h) <=> h # <<>> /\ h[1] = t
<1>1. h \in Seq(Tasks \cup Broadcasts) /\ Len(h) \in Nat /\ DOMAIN h = 1..Len(h)
      /\ \A i \in 1..Len(h) : i > 1 => h[i] \in Broadcasts
  BY DEF Hands
<1>2. t \notin Broadcasts
  BY ThreadsAssumption
<1>3. h # <<>> <=> 1 \in 1..Len(h)
  BY <1>1
<1>4. \A i \in 1..Len(h) : i = 1 \/ i > 1
  BY <1>1
<1> QED  BY <1>1, <1>2, <1>3, <1>4 DEF ToSet

-----------------------------------------------------------------------------
(* Type correctness                                                          *)

\* Nothing is queued, taken or called at the start.
LEMMA TypeInit == Init => TypeOK
<1> SUFFICES ASSUME Init PROVE TypeOK
  OBVIOUS
<1>1. <<>> \in Hands /\ <<>> \in Seq(Broadcasts) /\ <<>> \in Seq(Tasks)
  BY DEF Hands
<1>2. Idle \in PostStates
  BY DEF Idle, PostStates
<1> QED  BY <1>1, <1>2 DEF Init, TypeOK

\* NotifyAll moves workers between the places of WorkerMain.
LEMMA NotifyAllType ==
    ASSUME TypeOK, NotifyAll
    PROVE  /\ wpc' \in [Workers -> {"test", "waiting", "run", "exited"}]
           /\ \A w \in Workers : wpc'[w] = IF wpc[w] = "waiting" THEN "test" ELSE wpc[w]
BY DEF TypeOK, NotifyAll

\* A call that carries a task carries one of Tasks.
LEMMA CallTypes ==
    ASSUME TypeOK, NEW p \in Threads
    PROVE  /\ post[p] \in PostStates
           /\ post[p].at \in {"locked", "inline", "alone"} =>
                /\ post[p].task \in Tasks
                /\ post[p] = [at |-> post[p].at, task |-> post[p].task]
           /\ post[p].at \in {"idle", "notify", "return", "dtor", "destroyed"} =>
                post[p] = [at |-> post[p].at, task |-> NoTask]
BY DEF TypeOK, PostStates

\* The step of a call that leaves p at another place is a PostState.
LEMMA PostStateIntro ==
    /\ \A a \in {"idle", "notify", "return", "dtor", "destroyed"} :
            [at |-> a, task |-> NoTask] \in PostStates
    /\ \A a \in {"locked", "inline", "alone"}, t \in Tasks :
            [at |-> a, task |-> t] \in PostStates
BY DEF PostStates

\* The calls of p after a step that only changes where p is.
LEMMA PostMoves ==
    ASSUME TypeOK, NEW p \in Threads, NEW r \in PostStates,
           post' = [post EXCEPT ![p] = r]
    PROVE  /\ post' \in [Threads -> PostStates] /\ post'[p] = r
           /\ \A q \in Threads : q # p => post'[q] = post[q]
BY DEF TypeOK

\* Every action, with the record its thread's call becomes.
LEMMA PostTaskForm ==
    ASSUME TypeOK, NEW p \in Threads, PostTask(p)
    PROVE  /\ post[p].task \in Tasks /\ post[p].at = "locked"
           /\ \/ /\ shutdown /\ tasks' = tasks
                 /\ post' = [post EXCEPT ![p] = [at |-> "inline", task |-> post[p].task]]
              \/ /\ ~shutdown /\ tasks' = Append(tasks, post[p].task)
                 /\ post' = [post EXCEPT ![p] = [at |-> "notify", task |-> NoTask]]
           /\ UNCHANGED <<thread_tasks, shutdown, wpc, hand, shutdown_now, owner,
                          posted, runs, dropped>>
<1>1. post[p].at = "locked" /\ post[p].task \in Tasks
      /\ post[p] = [at |-> post[p].at, task |-> post[p].task]
  BY CallTypes DEF PostTask
<1>2. [post EXCEPT ![p].at = "inline"]
        = [post EXCEPT ![p] = [at |-> "inline", task |-> post[p].task]]
  <2>1. [post[p] EXCEPT !.at = "inline"] = [at |-> "inline", task |-> post[p].task]
    BY <1>1
  <2> QED  BY <2>1 DEF TypeOK
<1> QED  BY <1>1, <1>2 DEF PostTask, workerVars

\* NotifyOne, the same way.
LEMMA NotifyOneForm ==
    ASSUME TypeOK, NEW p \in Threads, NotifyOne(p)
    PROVE  /\ post[p].at = "notify"
           /\ post' = [post EXCEPT ![p] = [at |-> "return", task |-> NoTask]]
           /\ \/ Waiting = {} /\ wpc' = wpc
              \/ \E w \in Waiting : wpc' = [wpc EXCEPT ![w] = "test"]
           /\ UNCHANGED <<tasks, thread_tasks, shutdown, hand, shutdown_now, owner,
                          posted, runs, dropped>>
<1>1. post[p].at = "notify" /\ post[p] = [at |-> "notify", task |-> NoTask]
  BY CallTypes DEF NotifyOne
<1>2. [post EXCEPT ![p].at = "return"]
        = [post EXCEPT ![p] = [at |-> "return", task |-> NoTask]]
  <2>1. [post[p] EXCEPT !.at = "return"] = [at |-> "return", task |-> NoTask]
    BY <1>1
  <2> QED  BY <2>1 DEF TypeOK
<1> QED  BY <1>1, <1>2 DEF NotifyOne

\* JoinWorkers, the same way.
LEMMA JoinWorkersForm ==
    ASSUME TypeOK, NEW p \in Threads, JoinWorkers(p)
    PROVE  /\ post[p].at = "dtor"
           /\ post' = [post EXCEPT ![p] = [at |-> "destroyed", task |-> NoTask]]
           /\ dropped' = ToSet(tasks) /\ tasks' = <<>>
           /\ UNCHANGED <<thread_tasks, shutdown, wpc, hand, shutdown_now, owner,
                          posted, runs>>
<1>1. post[p].at = "dtor" /\ post[p] = [at |-> "dtor", task |-> NoTask]
  BY CallTypes DEF JoinWorkers
<1>2. [post EXCEPT ![p].at = "destroyed"]
        = [post EXCEPT ![p] = [at |-> "destroyed", task |-> NoTask]]
  <2>1. [post[p] EXCEPT !.at = "destroyed"] = [at |-> "destroyed", task |-> NoTask]
    BY <1>1
  <2> QED  BY <2>1 DEF TypeOK
<1> QED  BY <1>1, <1>2 DEF JoinWorkers, workerVars

\* Every step keeps the types.
LEMMA TypeNext == TypeOK /\ [Next]_vars => TypeOK'
<1> SUFFICES ASSUME TypeOK, [Next]_vars PROVE TypeOK'
  OBVIOUS
<1> USE DEF TypeOK
<1>1. ASSUME NEW w \in Workers, Wait(w) PROVE TypeOK'
  BY <1>1 DEF Wait
<1>2. ASSUME NEW w \in Workers, TakeTasks(w) PROVE TypeOK'
  <2>1. hand' = [hand EXCEPT ![w] = Taken(tasks, thread_tasks[w])]
    BY <1>2 DEF TakeTasks, Taken
  <2>2. hand' \in [Workers -> Hands]
    BY <2>1, TakenHand
  <2>3. tasks' \in Seq(Tasks)
    BY <1>2 DEF TakeTasks
  <2>4. thread_tasks' \in [Workers -> Seq(Broadcasts)]
    BY <1>2 DEF TakeTasks, GetThreadTasksLocked
  <2> QED  BY <1>2, <2>2, <2>3, <2>4 DEF TakeTasks
<1>3. ASSUME NEW w \in Workers, ClosureReturns(w) PROVE TypeOK'
  <2>1. hand' \in [Workers -> Hands]
    BY <1>3, RestOfHand DEF ClosureReturns
  <2>2. runs' \in [Tasks -> Nat]
    BY <1>3 DEF ClosureReturns
  <2> QED  BY <1>3, <2>1, <2>2 DEF ClosureReturns
<1>4. ASSUME NEW w \in Workers, NextIteration(w) PROVE TypeOK'
  BY <1>4 DEF NextIteration
<1>5. ASSUME NEW w \in Workers, SpuriousWakeUp(w) PROVE TypeOK'
  BY <1>5 DEF SpuriousWakeUp
<1>6. ASSUME NEW p \in Threads, PostTask(p) PROVE TypeOK'
  <2>1. post' \in [Threads -> PostStates]
    BY <1>6, PostTaskForm, PostStateIntro, PostMoves
  <2>2. tasks' \in Seq(Tasks)
    <3>1. post[p].task \in Tasks
          /\ (tasks' = tasks \/ tasks' = Append(tasks, post[p].task))
      BY <1>6, PostTaskForm
    <3>2. Append(tasks, post[p].task) \in Seq(Tasks)
      BY <3>1
    <3> QED  BY <3>1, <3>2
  <2> QED  BY <1>6, <2>1, <2>2, PostTaskForm
<1>7. ASSUME NEW p \in Threads, NotifyOne(p) PROVE TypeOK'
  <2>1. post' \in [Threads -> PostStates]
    BY <1>7, NotifyOneForm, PostStateIntro, PostMoves
  <2>2. wpc' \in [Workers -> {"test", "waiting", "run", "exited"}]
    BY <1>7, NotifyOneForm DEF Waiting
  <2> QED  BY <1>7, <2>1, <2>2, NotifyOneForm
<1>8. ASSUME NEW p \in Threads, RunOnCaller(p) PROVE TypeOK'
  <2>1. post' \in [Threads -> PostStates]
    <3>1. Idle \in PostStates /\ [at |-> "return", task |-> NoTask] \in PostStates
      BY PostStateIntro DEF Idle
    <3> QED  BY <1>8, <3>1 DEF RunOnCaller
  <2>2. runs' \in [Tasks -> Nat]
    BY <1>8, CallTypes DEF RunOnCaller
  <2> QED  BY <1>8, <2>1, <2>2 DEF RunOnCaller, workerVars
<1>9. ASSUME NEW p \in Threads, ReleaseLoop(p) PROVE TypeOK'
  <2>1. Idle \in PostStates /\ [at |-> "dtor", task |-> NoTask] \in PostStates
    BY PostStateIntro DEF Idle
  <2>2. CASE ~owner /\ Holders = {p}
    BY <1>9, <2>1, <2>2, NotifyAllType DEF ReleaseLoop, BeginDestructor
  <2>3. CASE ~(~owner /\ Holders = {p})
    BY <1>9, <2>1, <2>3 DEF ReleaseLoop
  <2> QED  BY <2>2, <2>3
<1>10. ASSUME NEW p \in Threads, JoinWorkers(p) PROVE TypeOK'
  <2>1. post' \in [Threads -> PostStates]
    BY <1>10, JoinWorkersForm, PostStateIntro, PostMoves
  <2>2. dropped' \subseteq Tasks /\ tasks' \in Seq(Tasks)
    <3>1. dropped' = ToSet(tasks) /\ tasks' = <<>>
      BY <1>10, JoinWorkersForm
    <3>2. ToSet(tasks) \subseteq Tasks
      BY DEF ToSet
    <3> QED  BY <3>1, <3>2
  <2> QED  BY <1>10, <2>1, <2>2, JoinWorkersForm
<1>11. ASSUME NEW p \in Threads, NEW t \in Tasks, LockLoop(p, t) PROVE TypeOK'
  <2>1. post' \in [Threads -> PostStates]
    <3>1. /\ [at |-> "locked", task |-> t] \in PostStates
          /\ [at |-> "alone", task |-> t] \in PostStates
      BY PostStateIntro
    <3>2. [at |-> IF owner \/ Holders # {} THEN "locked" ELSE "alone", task |-> t]
            \in PostStates
      BY <3>1
    <3> QED  BY <1>11, <3>2 DEF LockLoop
  <2> QED  BY <1>11, <2>1 DEF LockLoop, workerVars
<1>12. ASSUME NEW b \in Broadcasts, PostTaskToAllWorkers(b) PROVE TypeOK'
  <2>1. thread_tasks' \in [Workers -> Seq(Broadcasts)]
    BY <1>12 DEF PostTaskToAllWorkers
  <2> QED  BY <1>12, <2>1, NotifyAllType DEF PostTaskToAllWorkers
<1>13. CASE OwnerReset
  <2>1. Owner \in Threads /\ [at |-> "dtor", task |-> NoTask] \in PostStates
    BY PostStateIntro DEF Threads
  <2>2. CASE Holders = {}
    BY <1>13, <2>1, <2>2, NotifyAllType DEF OwnerReset, BeginDestructor
  <2>3. CASE Holders # {}
    BY <1>13, <2>3 DEF OwnerReset
  <2> QED  BY <2>2, <2>3
<1>14. CASE Terminate
  BY <1>14, NotifyAllType DEF Terminate
<1>15. CASE UNCHANGED vars
  BY <1>15 DEF vars, workerVars
<1> QED
  BY <1>1, <1>2, <1>3, <1>4, <1>5, <1>6, <1>7, <1>8, <1>9, <1>10, <1>11, <1>12,
     <1>13, <1>14, <1>15
  DEF Next, WorkerStep, PosterStep

\* ConcurrentMessageLoop: the types, with what a hand and a call can hold.
THEOREM LoopTypeCorrect == Spec => []TypeOK
BY TypeInit, TypeNext, PTL DEF Spec

-----------------------------------------------------------------------------
(* Workers                                                                   *)

\* What every step of Next does to the workers: one of them moves on, or some of
\* those that wait are notified, or nothing.
WorkersKeep ==
    /\ \A w \in Workers : wpc'[w] = wpc[w] \/ (wpc[w] = "waiting" /\ wpc'[w] = "test")
    /\ UNCHANGED <<hand, shutdown_now>>
    /\ shutdown => shutdown'

\* The calls of other threads keep what the workers have.
LEMMA OtherStepsKeepWorkers ==
    ASSUME TypeOK,
           \/ \E w \in Workers : SpuriousWakeUp(w)
           \/ \E p \in Threads : PosterStep(p) \/ \E t \in Tasks : LockLoop(p, t)
           \/ \E b \in Broadcasts : PostTaskToAllWorkers(b)
           \/ OwnerReset \/ Terminate \/ UNCHANGED vars
    PROVE  WorkersKeep
<1>1. ASSUME NEW w \in Workers, SpuriousWakeUp(w) PROVE WorkersKeep
  BY <1>1 DEF SpuriousWakeUp, WorkersKeep, TypeOK
<1>2. ASSUME NEW p \in Threads, PostTask(p) PROVE WorkersKeep
  BY <1>2 DEF PostTask, WorkersKeep, workerVars
<1>3. ASSUME NEW p \in Threads, NotifyOne(p) PROVE WorkersKeep
  BY <1>3 DEF NotifyOne, WorkersKeep, Waiting, TypeOK
<1>4. ASSUME NEW p \in Threads, RunOnCaller(p) PROVE WorkersKeep
  BY <1>4 DEF RunOnCaller, WorkersKeep, workerVars
<1>5. ASSUME NEW p \in Threads, ReleaseLoop(p) PROVE WorkersKeep
  BY <1>5, NotifyAllType DEF ReleaseLoop, BeginDestructor, WorkersKeep
<1>6. ASSUME NEW p \in Threads, JoinWorkers(p) PROVE WorkersKeep
  BY <1>6 DEF JoinWorkers, WorkersKeep, workerVars
<1>7. ASSUME NEW p \in Threads, NEW t \in Tasks, LockLoop(p, t) PROVE WorkersKeep
  BY <1>7 DEF LockLoop, WorkersKeep, workerVars
<1>8. ASSUME NEW b \in Broadcasts, PostTaskToAllWorkers(b) PROVE WorkersKeep
  BY <1>8, NotifyAllType DEF PostTaskToAllWorkers, WorkersKeep
<1>9. CASE OwnerReset
  BY <1>9, NotifyAllType DEF OwnerReset, BeginDestructor, WorkersKeep
<1>10. CASE Terminate
  BY <1>10, NotifyAllType DEF Terminate, WorkersKeep
<1>11. CASE UNCHANGED vars
  BY <1>11 DEF vars, workerVars, WorkersKeep
<1> QED
  BY <1>1, <1>2, <1>3, <1>4, <1>5, <1>6, <1>7, <1>8, <1>9, <1>10, <1>11 DEF PosterStep

\* A hand is filled when a round starts and is empty when it ends; who leaves has
\* seen shutdown_, which is never taken back.
LEMMA WorkersNext ==
    ASSUME TypeOK, HandsEmptied, ExitsAreOrdered, [Next]_vars
    PROVE  HandsEmptied' /\ ExitsAreOrdered'
<1> USE DEF TypeOK, HandsEmptied, ExitsAreOrdered
<1>1. ASSUME NEW w \in Workers, Wait(w) PROVE HandsEmptied' /\ ExitsAreOrdered'
  BY <1>1 DEF Wait
<1>2. ASSUME NEW w \in Workers, TakeTasks(w) PROVE HandsEmptied' /\ ExitsAreOrdered'
  <2>1. HandsEmptied'
    BY <1>2 DEF TakeTasks
  <2>2. ExitsAreOrdered'
    BY <1>2 DEF TakeTasks
  <2> QED  BY <2>1, <2>2
<1>3. ASSUME NEW w \in Workers, ClosureReturns(w) PROVE HandsEmptied' /\ ExitsAreOrdered'
  BY <1>3 DEF ClosureReturns
<1>4. ASSUME NEW w \in Workers, NextIteration(w) PROVE HandsEmptied' /\ ExitsAreOrdered'
  BY <1>4 DEF NextIteration
<1>5. CASE WorkersKeep
  BY <1>5 DEF WorkersKeep
<1> QED
  BY <1>1, <1>2, <1>3, <1>4, <1>5, OtherStepsKeepWorkers DEF Next, WorkerStep

-----------------------------------------------------------------------------
(* Notification                                                              *)

\* The two parts of NoneSleepsThroughWork.
SleepersHaveNothing == \A w \in Waiting : ~shutdown /\ ~HasThreadTasks(w)
SomeoneComes ==
    tasks # <<>> => \/ \E w \in Workers : wpc[w] \in {"test", "run"}
                    \/ \E p \in Threads : post[p].at = "notify"
                    \/ shutdown

\* NoneSleepsThroughWork is those two parts.
LEMMA SleepForm == NoneSleepsThroughWork <=> SleepersHaveNothing /\ SomeoneComes
BY DEF NoneSleepsThroughWork, SleepersHaveNothing, SomeoneComes

\* A worker goes to sleep with the mutex held, on a predicate it found false, and
\* whoever makes the predicate true for all notifies all.
LEMMA SleepersNext ==
    ASSUME TypeOK, SleepersHaveNothing, [Next]_vars
    PROVE  SleepersHaveNothing'
<1> USE DEF TypeOK, SleepersHaveNothing, Waiting, HasThreadTasks
<1>1. ASSUME NEW w \in Workers, Wait(w) PROVE SleepersHaveNothing'
  BY <1>1 DEF Wait, CanProceed
<1>2. ASSUME NEW w \in Workers, TakeTasks(w) PROVE SleepersHaveNothing'
  BY <1>2 DEF TakeTasks, GetThreadTasksLocked
<1>3. ASSUME NEW w \in Workers, ClosureReturns(w) PROVE SleepersHaveNothing'
  BY <1>3 DEF ClosureReturns
<1>4. ASSUME NEW w \in Workers, NextIteration(w) PROVE SleepersHaveNothing'
  BY <1>4 DEF NextIteration
<1>5. ASSUME NotifyAll PROVE SleepersHaveNothing'
  BY <1>5, NotifyAllType
<1>6. ASSUME WorkersKeep, UNCHANGED <<shutdown, thread_tasks>> PROVE SleepersHaveNothing'
  BY <1>6 DEF WorkersKeep
<1>7. ASSUME NEW w \in Workers, SpuriousWakeUp(w) PROVE SleepersHaveNothing'
  BY <1>7, <1>6, OtherStepsKeepWorkers DEF SpuriousWakeUp
<1>8. ASSUME NEW p \in Threads, PosterStep(p) \/ \E t \in Tasks : LockLoop(p, t)
      PROVE  SleepersHaveNothing'
  <2>1. NotifyAll \/ UNCHANGED <<shutdown, thread_tasks>>
    BY <1>8 DEF PosterStep, PostTask, NotifyOne, RunOnCaller, ReleaseLoop,
                BeginDestructor, JoinWorkers, LockLoop
  <2> QED  BY <2>1, <1>5, <1>6, <1>8, OtherStepsKeepWorkers
<1>9. ASSUME NEW b \in Broadcasts, PostTaskToAllWorkers(b) PROVE SleepersHaveNothing'
  BY <1>9, <1>5 DEF PostTaskToAllWorkers
<1>10. CASE OwnerReset
  <2>1. NotifyAll \/ UNCHANGED <<shutdown, thread_tasks>>
    BY <1>10 DEF OwnerReset, BeginDestructor
  <2> QED  BY <2>1, <1>5, <1>6, <1>10, OtherStepsKeepWorkers
<1>11. CASE Terminate
  BY <1>11, <1>5 DEF Terminate
<1>12. CASE UNCHANGED vars
  BY <1>12 DEF vars, workerVars
<1> QED
  BY <1>1, <1>2, <1>3, <1>4, <1>7, <1>8, <1>9, <1>10, <1>11, <1>12
  DEF Next, WorkerStep

\* notify_one comes after the mutex was released, so between the two somebody
\* else may take the task; but while it is there, a worker is awake, or somebody
\* is about to notify one, or the loop was shut down.
LEMMA SomeoneNext ==
    ASSUME TypeOK, ExitsAreOrdered, SomeoneComes, [Next]_vars
    PROVE  SomeoneComes'
<1> USE DEF TypeOK, SomeoneComes
<1>1. ASSUME NEW w \in Workers, Wait(w) PROVE SomeoneComes'
  BY <1>1 DEF Wait, CanProceed
<1>2. ASSUME NEW w \in Workers, TakeTasks(w) PROVE SomeoneComes'
  BY <1>2 DEF TakeTasks
<1>3. ASSUME NEW w \in Workers, ClosureReturns(w) PROVE SomeoneComes'
  BY <1>3 DEF ClosureReturns
<1>4. ASSUME NEW w \in Workers, NextIteration(w) PROVE SomeoneComes'
  BY <1>4 DEF NextIteration, ExitsAreOrdered
\* Steps that queue nothing and take no notification away.
<1>5. ASSUME WorkersKeep, tasks' \in {tasks, <<>>},
             \A p \in Threads : post[p].at = "notify" => post'[p].at = "notify" \/ shutdown'
      PROVE  SomeoneComes'
  BY <1>5 DEF WorkersKeep
<1>6. ASSUME NEW w \in Workers, SpuriousWakeUp(w) PROVE SomeoneComes'
  BY <1>6 DEF SpuriousWakeUp
<1>7. ASSUME NEW p \in Threads, PostTask(p) PROVE SomeoneComes'
  BY <1>7, PostTaskForm
<1>8. ASSUME NEW p \in Threads, NotifyOne(p) PROVE SomeoneComes'
  <2>1. CASE Waiting = {}
    <3>1. PICK w \in Workers : TRUE
      BY ThreadsAssumption
    <3>2. wpc[w] \in {"test", "run", "exited"}
      BY <2>1 DEF Waiting
    <3> QED  BY <3>1, <3>2, <2>1, <1>8 DEF NotifyOne, ExitsAreOrdered
  <2>2. CASE Waiting # {}
    <3>1. PICK w \in Waiting : wpc' = [wpc EXCEPT ![w] = "test"]
      BY <2>2, <1>8 DEF NotifyOne
    <3>2. w \in Workers /\ wpc'[w] = "test"
      BY <3>1 DEF Waiting
    <3> QED  BY <3>2
  <2> QED  BY <2>1, <2>2
<1>9. ASSUME NEW p \in Threads, RunOnCaller(p) PROVE SomeoneComes'
  <2>1. \A q \in Threads : post[q].at = "notify" => post'[q] = post[q]
    BY <1>9 DEF RunOnCaller
  <2> QED  BY <1>9, <2>1 DEF RunOnCaller, workerVars
<1>10. ASSUME NEW p \in Threads, ReleaseLoop(p) PROVE SomeoneComes'
  <2>1. \A q \in Threads : post[q].at = "notify" => post'[q] = post[q]
    BY <1>10 DEF ReleaseLoop, BeginDestructor
  <2>2. WorkersKeep /\ tasks' = tasks
    BY <1>10, OtherStepsKeepWorkers DEF PosterStep, ReleaseLoop
  <2> QED  BY <2>1, <2>2, <1>5
<1>11. ASSUME NEW p \in Threads, JoinWorkers(p) PROVE SomeoneComes'
  BY <1>11 DEF JoinWorkers
<1>12. ASSUME NEW p \in Threads, NEW t \in Tasks, LockLoop(p, t) PROVE SomeoneComes'
  <2>1. \A q \in Threads : post[q].at = "notify" => post'[q] = post[q]
    BY <1>12 DEF LockLoop, Idle
  <2>2. WorkersKeep /\ tasks' = tasks
    BY <1>12, OtherStepsKeepWorkers DEF LockLoop
  <2> QED  BY <2>1, <2>2, <1>5
<1>13. ASSUME NEW b \in Broadcasts, PostTaskToAllWorkers(b) PROVE SomeoneComes'
  <2>1. WorkersKeep /\ tasks' = tasks /\ post' = post
    BY <1>13, OtherStepsKeepWorkers DEF PostTaskToAllWorkers
  <2> QED  BY <2>1, <1>5
<1>14. CASE OwnerReset
  <2>1. WorkersKeep /\ tasks' = tasks /\ (shutdown' \/ post' = post)
    BY <1>14, OtherStepsKeepWorkers DEF OwnerReset, BeginDestructor
  <2> QED  BY <2>1, <1>5
<1>15. CASE Terminate
  BY <1>15 DEF Terminate
<1>16. CASE UNCHANGED vars
  BY <1>16 DEF vars, workerVars
<1> QED
  BY <1>1, <1>2, <1>3, <1>4, <1>6, <1>7, <1>8, <1>9, <1>10, <1>11, <1>12, <1>13,
     <1>14, <1>15, <1>16
  DEF Next, WorkerStep, PosterStep

-----------------------------------------------------------------------------
(* Lifetime                                                                  *)

\* Where a call holds a reference to the loop, and where it destroys the loop.
HolderStates == {"locked", "notify", "inline", "return"}
EndStates == {"dtor", "destroyed"}

\* A step of p that keeps p's reference, if it has one, and ends nothing.
LEMMA LifetimeKept ==
    ASSUME TypeOK, Lifetime, NEW p \in Threads, NEW r \in PostStates,
           post' = [post EXCEPT ![p] = r],
           r.at \in HolderStates <=> post[p].at \in HolderStates,
           r.at \notin EndStates, post[p].at \notin EndStates, p # Owner,
           UNCHANGED <<owner, shutdown, dropped>>
    PROVE  Lifetime'
<1>1. /\ post'[p] = r /\ \A q \in Threads : q # p => post'[q] = post[q]
  BY PostMoves
<1>2. Owner \in Threads
  BY DEF Threads
<1>3. Holders' = Holders /\ Ends' = Ends
  BY <1>1 DEF Holders, HolderStates, Ends, EndStates
<1>4. \A q \in Threads : post[q].at = "destroyed" => post'[q].at = "destroyed"
  BY <1>1 DEF EndStates
<1> QED  BY <1>1, <1>2, <1>3, <1>4 DEF Lifetime

\* The last reference goes and thread p runs the destructor.
LEMMA LifetimeEnds ==
    ASSUME TypeOK, Lifetime, NEW p \in Threads, Ends = {},
           Holders \subseteq {p}, ~owner', BeginDestructor(p), dropped' = dropped,
           p = Owner \/ p \in Holders
    PROVE  Lifetime'
<1>1. [at |-> "dtor", task |-> NoTask] \in PostStates
  BY PostStateIntro
<1>2. /\ post'[p] = [at |-> "dtor", task |-> NoTask]
      /\ \A q \in Threads : q # p => post'[q] = post[q]
  BY <1>1, PostMoves DEF BeginDestructor
<1>3. Holders' = {} /\ Ends' = {p}
  BY <1>2 DEF Holders, Ends
<1>4. dropped = {}
  BY DEF Lifetime, Ends
<1>5. post'[Owner].at \in {"idle", "dtor", "destroyed"}
  BY <1>2 DEF Lifetime, Threads
<1> QED  BY <1>3, <1>4, <1>5 DEF Lifetime, BeginDestructor

\* The owner's thread and the threads that own task runners are different ones.
LEMMA OwnerPostsNothing ==
    ASSUME Lifetime, NEW p \in Threads,
           post[p].at \in {"locked", "notify", "inline", "alone", "return"}
    PROVE  p # Owner
BY DEF Lifetime

\* The loop lives as long as somebody has a reference to it, and ends once.
LEMMA LifetimeNext ==
    ASSUME TypeOK, Lifetime, [Next]_vars
    PROVE  Lifetime'
<1>1. ASSUME post' = post, owner' = owner, shutdown => shutdown', dropped' = dropped
      PROVE  Lifetime'
  BY <1>1 DEF Lifetime, Holders, Ends
<1>2. ASSUME NEW w \in Workers, WorkerStep(w) \/ SpuriousWakeUp(w) PROVE Lifetime'
  BY <1>1, <1>2 DEF WorkerStep, Wait, TakeTasks, ClosureReturns, NextIteration, SpuriousWakeUp
<1>3. ASSUME NEW p \in Threads, PostTask(p) PROVE Lifetime'
  <2>1. p # Owner
    BY <1>3, PostTaskForm, OwnerPostsNothing
  <2>2. PICK r \in PostStates : r.at \in {"inline", "notify"} /\ post' = [post EXCEPT ![p] = r]
    BY <1>3, PostTaskForm, PostStateIntro
  <2> QED
    BY <2>1, <2>2, <1>3, PostTaskForm, LifetimeKept DEF HolderStates, EndStates
<1>4. ASSUME NEW p \in Threads, NotifyOne(p) PROVE Lifetime'
  <2>1. p # Owner
    BY <1>4, NotifyOneForm, OwnerPostsNothing
  <2>2. [at |-> "return", task |-> NoTask] \in PostStates
    BY PostStateIntro
  <2> QED
    BY <2>1, <2>2, <1>4, NotifyOneForm, LifetimeKept DEF HolderStates, EndStates
<1>5. ASSUME NEW p \in Threads, RunOnCaller(p) PROVE Lifetime'
  <2>1. p # Owner
    BY <1>5, OwnerPostsNothing DEF RunOnCaller
  <2>2. PICK r \in PostStates : /\ post' = [post EXCEPT ![p] = r]
                                /\ \/ r.at = "return" /\ post[p].at = "inline"
                                   \/ r.at = "idle" /\ post[p].at = "alone"
    <3>1. [at |-> "return", task |-> NoTask] \in PostStates /\ Idle \in PostStates
          /\ Idle.at = "idle"
      BY PostStateIntro DEF Idle
    <3> QED  BY <3>1, <1>5 DEF RunOnCaller
  <2> QED
    BY <2>1, <2>2, <1>5, LifetimeKept DEF RunOnCaller, HolderStates, EndStates
<1>6. ASSUME NEW p \in Threads, ReleaseLoop(p) PROVE Lifetime'
  <2>1. /\ post[p].at = "return" /\ p # Owner /\ p \in Holders
        /\ owner' = owner /\ dropped' = dropped
    BY <1>6, OwnerPostsNothing DEF ReleaseLoop, Holders
  <2>2. Ends = {}
    BY <2>1 DEF Lifetime
  <2>3. CASE ~owner /\ Holders = {p}
    <3>1. BeginDestructor(p)
      BY <1>6, <2>3 DEF ReleaseLoop
    <3> QED  BY <3>1, <2>1, <2>2, <2>3, LifetimeEnds
  <2>4. CASE ~(~owner /\ Holders = {p})
    <3>1. post' = [post EXCEPT ![p] = Idle] /\ shutdown' = shutdown
      BY <1>6, <2>4 DEF ReleaseLoop
    <3>2. Idle \in PostStates /\ Idle.at = "idle"
      BY PostStateIntro DEF Idle
    <3>3. post'[p] = Idle /\ \A q \in Threads : q # p => post'[q] = post[q]
      BY <3>1, <3>2, PostMoves
    <3>4. Holders' = Holders \ {p} /\ Ends' = {}
      BY <3>2, <3>3, <2>2 DEF Holders, Ends
    <3>5. ~owner' => Holders' # {}
      BY <3>4, <2>1, <2>4
    <3>6. post'[Owner].at \in {"idle", "dtor", "destroyed"} /\ dropped = {}
      BY <3>3, <2>1, <2>2 DEF Lifetime, Threads, Ends
    <3> QED  BY <3>4, <3>5, <3>6, <2>1 DEF Lifetime
  <2> QED  BY <2>3, <2>4
<1>7. ASSUME NEW p \in Threads, JoinWorkers(p) PROVE Lifetime'
  <2>1. /\ post[p].at = "dtor" /\ owner' = owner /\ shutdown' = shutdown
        /\ post' = [post EXCEPT ![p] = [at |-> "destroyed", task |-> NoTask]]
    BY <1>7, JoinWorkersForm
  <2>2. [at |-> "destroyed", task |-> NoTask] \in PostStates
    BY PostStateIntro
  <2>3. /\ post'[p].at = "destroyed" /\ \A q \in Threads : q # p => post'[q] = post[q]
    BY <2>1, <2>2, PostMoves
  <2>4. Ends' = Ends /\ Holders' = Holders
    BY <2>1, <2>3 DEF Ends, Holders
  <2>5. post'[Owner].at \in {"idle", "dtor", "destroyed"}
    BY <2>3 DEF Lifetime, Threads
  <2> QED  BY <2>1, <2>3, <2>4, <2>5 DEF Lifetime
<1>8. ASSUME NEW p \in Threads, NEW t \in Tasks, LockLoop(p, t) PROVE Lifetime'
  <2>1. /\ p # Owner /\ post[p].at = "idle"
        /\ UNCHANGED <<owner, shutdown, dropped>>
    BY <1>8, ThreadsAssumption DEF LockLoop, MayPost, Idle
  <2>2. CASE owner \/ Holders # {}
    <3>1. post' = [post EXCEPT ![p] = [at |-> "locked", task |-> t]]
      BY <1>8, <2>2 DEF LockLoop
    <3>2. [at |-> "locked", task |-> t] \in PostStates
      BY PostStateIntro
    <3>3. /\ post'[p].at = "locked" /\ \A q \in Threads : q # p => post'[q] = post[q]
      BY <3>1, <3>2, PostMoves
    <3>4. Ends' = Ends /\ Holders' = Holders \cup {p}
      BY <3>3, <2>1 DEF Ends, Holders
    <3>5. Ends = {}
      BY <2>2 DEF Lifetime
    <3>6. post'[Owner].at \in {"idle", "dtor", "destroyed"} /\ dropped = {}
      BY <3>3, <3>5, <2>1 DEF Lifetime, Threads, Ends
    <3> QED  BY <3>4, <3>5, <3>6, <2>1 DEF Lifetime
  <2>3. CASE ~(owner \/ Holders # {})
    <3>1. post' = [post EXCEPT ![p] = [at |-> "alone", task |-> t]]
      BY <1>8, <2>3 DEF LockLoop
    <3>2. [at |-> "alone", task |-> t] \in PostStates
      BY PostStateIntro
    <3> QED  BY <3>1, <3>2, <2>1, LifetimeKept DEF HolderStates, EndStates
  <2> QED  BY <2>2, <2>3
<1>9. ASSUME NEW b \in Broadcasts, PostTaskToAllWorkers(b) PROVE Lifetime'
  BY <1>1, <1>9 DEF PostTaskToAllWorkers
<1>10. CASE OwnerReset
  <2>1. owner /\ ~owner' /\ dropped' = dropped /\ Owner \in Threads /\ Ends = {}
    BY <1>10 DEF OwnerReset, Threads, Lifetime
  <2>2. CASE Holders = {}
    BY <1>10, <2>1, <2>2, LifetimeEnds DEF OwnerReset
  <2>3. CASE Holders # {}
    BY <1>10, <2>1, <2>3 DEF OwnerReset, Lifetime, Holders, Ends
  <2> QED  BY <2>2, <2>3
<1>11. CASE Terminate
  BY <1>1, <1>11 DEF Terminate
<1>12. CASE UNCHANGED vars
  BY <1>1, <1>12 DEF vars
<1> QED
  BY <1>2, <1>3, <1>4, <1>5, <1>6, <1>7, <1>8, <1>9, <1>10, <1>11, <1>12
  DEF Next, PosterStep

-----------------------------------------------------------------------------
(* Places                                                                    *)

\* No task changes its place.
Stay ==
    \A u \in Tasks, k \in Kinds, h \in Hosts : IsAt(u, k, h)' <=> IsAt(u, k, h)

\* One task changes its place.
MovesTo(t, kind, host) ==
    \A u \in Tasks, k \in Kinds, h \in Hosts :
        IsAt(u, k, h)' <=> IF u = t THEN k = kind /\ h = host ELSE IsAt(u, k, h)

\* The kinds of place and who can have a task there.
IsPlace(kind, host) ==
    \/ kind \in {"queue", "ran", "dropped"} /\ host = "loop"
    \/ kind = "hand" /\ host \in Workers
    \/ kind \in {"locked", "caller"} /\ host \in Threads

\* Where a call runs its task itself.
Calling == {"inline", "alone"}

\* A place is one of the pairs that OnePlace ranges over.
LEMMA PlaceBounds ==
    ASSUME NEW kind, NEW host, IsPlace(kind, host)
    PROVE  kind \in Kinds /\ host \in Hosts
BY DEF IsPlace, Kinds, Hosts, Threads

\* Where a task is not, part by part of the state.
LEMMA OnlyAtParts ==
    ASSUME NEW t \in Tasks, NEW kind, NEW host, OnlyAt(t, kind, host)
    PROVE  /\ t \in ToSet(tasks) <=> kind = "queue" /\ host = "loop"
           /\ runs[t] > 0 <=> kind = "ran" /\ host = "loop"
           /\ t \in dropped <=> kind = "dropped" /\ host = "loop"
           /\ \A w \in Workers : Held(w, t) <=> kind = "hand" /\ host = w
           /\ \A p \in Threads : Carried(p, t, {"locked"}) <=> kind = "locked" /\ host = p
           /\ \A p \in Threads : Carried(p, t, Calling) <=> kind = "caller" /\ host = p
<1>1. "loop" \in Hosts /\ Workers \subseteq Hosts /\ Threads \subseteq Hosts
  BY DEF Hosts, Threads
<1>2. Kinds = {"queue", "locked", "hand", "caller", "ran", "dropped"}
  BY DEF Kinds
<1>3. t \in ToSet(tasks) <=> kind = "queue" /\ host = "loop"
  BY <1>1, <1>2 DEF OnlyAt, IsAt
<1>4. runs[t] > 0 <=> kind = "ran" /\ host = "loop"
  BY <1>1, <1>2 DEF OnlyAt, IsAt
<1>5. t \in dropped <=> kind = "dropped" /\ host = "loop"
  BY <1>1, <1>2 DEF OnlyAt, IsAt
<1>6. ASSUME NEW w \in Workers PROVE Held(w, t) <=> kind = "hand" /\ host = w
  BY <1>1, <1>2 DEF OnlyAt, IsAt
<1>7. ASSUME NEW p \in Threads
      PROVE  Carried(p, t, {"locked"}) <=> kind = "locked" /\ host = p
  BY <1>1, <1>2 DEF OnlyAt, IsAt
<1>8. ASSUME NEW p \in Threads
      PROVE  Carried(p, t, Calling) <=> kind = "caller" /\ host = p
  BY <1>1, <1>2 DEF OnlyAt, IsAt, Calling
<1> QED  BY <1>3, <1>4, <1>5, <1>6, <1>7, <1>8

\* A task that is somewhere is only there.
LEMMA FoundOnlyThere ==
    ASSUME OnePlace, NEW t \in Tasks, NEW kind, NEW host, IsPlace(kind, host),
           IsAt(t, kind, host)
    PROVE  OnlyAt(t, kind, host) /\ t \in posted
BY PlaceBounds DEF OnePlace, InOnePlace, OnlyAt, Nowhere

\* A move, told part by part of the state.
LEMMA MoveByParts ==
    ASSUME NEW t \in Tasks, NEW kind, NEW host, IsPlace(kind, host),
           \A u \in Tasks : u \in ToSet(tasks)' <=>
                IF u = t THEN kind = "queue" ELSE u \in ToSet(tasks),
           \A u \in Tasks : runs'[u] > 0 <=> IF u = t THEN kind = "ran" ELSE runs[u] > 0,
           kind # "dropped", t \notin dropped, dropped' = dropped,
           \A u \in Tasks, w \in Workers : Held(w, u)' <=>
                IF u = t THEN kind = "hand" /\ host = w ELSE Held(w, u),
           \A u \in Tasks, p \in Threads : Carried(p, u, {"locked"})' <=>
                IF u = t THEN kind = "locked" /\ host = p ELSE Carried(p, u, {"locked"}),
           \A u \in Tasks, p \in Threads : Carried(p, u, Calling)' <=>
                IF u = t THEN kind = "caller" /\ host = p ELSE Carried(p, u, Calling)
    PROVE  MovesTo(t, kind, host)
<1> SUFFICES ASSUME NEW u \in Tasks, NEW k \in Kinds, NEW h \in Hosts
             PROVE  IsAt(u, k, h)' <=>
                        IF u = t THEN k = kind /\ h = host ELSE IsAt(u, k, h)
  BY DEF MovesTo
<1>1. CASE k = "queue"
  BY <1>1 DEF IsAt, IsPlace
<1>2. CASE k = "ran"
  BY <1>2 DEF IsAt, IsPlace
<1>3. CASE k = "dropped"
  BY <1>3 DEF IsAt, IsPlace
<1>4. CASE k = "hand"
  BY <1>4 DEF IsAt, IsPlace
<1>5. CASE k = "locked"
  BY <1>5 DEF IsAt, IsPlace
<1>6. CASE k = "caller"
  BY <1>6 DEF IsAt, IsPlace, Calling
<1> QED  BY <1>1, <1>2, <1>3, <1>4, <1>5, <1>6 DEF Kinds

\* No move, told part by part of the state.
LEMMA StayByParts ==
    ASSUME UNCHANGED <<tasks, runs, dropped>>,
           \A u \in Tasks, w \in Workers : Held(w, u)' <=> Held(w, u),
           \A u \in Tasks, p \in Threads :
                /\ Carried(p, u, {"locked"})' <=> Carried(p, u, {"locked"})
                /\ Carried(p, u, Calling)' <=> Carried(p, u, Calling)
    PROVE  Stay
<1> SUFFICES ASSUME NEW u \in Tasks, NEW k \in Kinds, NEW h \in Hosts
             PROVE  IsAt(u, k, h)' <=> IsAt(u, k, h)
  BY DEF Stay
<1>1. CASE k \in {"queue", "ran", "dropped"}
  BY <1>1 DEF IsAt
<1>4. CASE k = "hand"
  BY <1>4 DEF IsAt
<1>5. CASE k = "locked"
  BY <1>5 DEF IsAt
<1>6. CASE k = "caller"
  BY <1>6 DEF IsAt, Calling
<1> QED  BY <1>1, <1>4, <1>5, <1>6 DEF Kinds

\* Without a move every task is still in its one place.
LEMMA OnePlaceStays ==
    ASSUME OnePlace, Stay, runs' = runs, \A u \in Tasks : u \in posted' <=> u \in posted
    PROVE  OnePlace'
<1> SUFFICES ASSUME NEW u \in Tasks PROVE runs'[u] \in {0, 1} /\ InOnePlace(u)'
  BY DEF OnePlace
<1>1. runs[u] \in {0, 1} /\ InOnePlace(u)
  BY DEF OnePlace
<1>2. \A k \in Kinds, h \in Hosts : IsAt(u, k, h)' <=> IsAt(u, k, h)
  BY DEF Stay
<1>3. CASE u \in posted
  <2>1. PICK kind \in Kinds, host \in Hosts : OnlyAt(u, kind, host)
    BY <1>1, <1>3 DEF InOnePlace
  <2>2. OnlyAt(u, kind, host)'
    BY <2>1, <1>2 DEF OnlyAt
  <2> QED  BY <2>2, <1>1, <1>3 DEF InOnePlace
<1>4. CASE u \notin posted
  <2>1. Nowhere(u)'
    BY <1>1, <1>2, <1>4 DEF InOnePlace, Nowhere
  <2> QED  BY <2>1, <1>1, <1>4 DEF InOnePlace
<1> QED  BY <1>3, <1>4

\* After a move too.
LEMMA OnePlaceMoves ==
    ASSUME OnePlace, NEW t \in Tasks, NEW kind, NEW host, IsPlace(kind, host),
           MovesTo(t, kind, host), \A u \in Tasks : runs'[u] \in {0, 1}, t \in posted',
           \A u \in Tasks : u # t => (u \in posted' <=> u \in posted)
    PROVE  OnePlace'
<1> SUFFICES ASSUME NEW u \in Tasks PROVE InOnePlace(u)'
  BY DEF OnePlace
<1>1. kind \in Kinds /\ host \in Hosts
  BY PlaceBounds
<1>2. CASE u = t
  <2>1. OnlyAt(u, kind, host)'
    BY <1>2 DEF OnlyAt, MovesTo
  <2> QED  BY <2>1, <1>1, <1>2 DEF InOnePlace
<1>3. CASE u # t
  <2>1. \A k \in Kinds, h \in Hosts : IsAt(u, k, h)' <=> IsAt(u, k, h)
    BY <1>3 DEF MovesTo
  <2>2. InOnePlace(u) /\ (u \in posted' <=> u \in posted)
    BY <1>3 DEF OnePlace
  <2>3. CASE u \in posted
    <3>1. PICK k \in Kinds, h \in Hosts : OnlyAt(u, k, h)
      BY <2>2, <2>3 DEF InOnePlace
    <3>2. OnlyAt(u, k, h)'
      BY <3>1, <2>1 DEF OnlyAt
    <3> QED  BY <3>2, <2>2, <2>3 DEF InOnePlace
  <2>4. CASE u \notin posted
    <3>1. Nowhere(u)'
      BY <2>1, <2>2, <2>4 DEF InOnePlace, Nowhere
    <3> QED  BY <3>1, <2>2, <2>4 DEF InOnePlace
  <2> QED  BY <2>3, <2>4
<1> QED  BY <1>2, <1>3

-----------------------------------------------------------------------------
(* What the abstract pool sees of a place                                    *)

\* The status of a task in a place of that kind.
StatusOf(kind) ==
    IF kind \in {"queue", "locked"} THEN "waiting"
    ELSE IF kind \in {"hand", "caller"} THEN "running"
    ELSE IF kind = "ran" THEN "done"
    ELSE "dropped"

\* The refinement mapping gives a task the status of its place.
StatusTellsPlace ==
    \A t \in Tasks :
        /\ t \notin posted => Status[t] = "new"
        /\ \A k \in Kinds, h \in Hosts : IsAt(t, k, h) => Status[t] = StatusOf(k)

\* Status tells where a task is.
LEMMA StatusAtPlace ==
    TypeOK /\ OnePlace => StatusTellsPlace
<1> SUFFICES ASSUME TypeOK, OnePlace, NEW t \in Tasks
             PROVE  /\ t \notin posted => Status[t] = "new"
                    /\ \A k \in Kinds, h \in Hosts : IsAt(t, k, h) => Status[t] = StatusOf(k)
  BY DEF StatusTellsPlace
<1>1. Started(t) <=> \/ \E w \in Workers : Held(w, t)
                     \/ \E p \in Threads : Carried(p, t, Calling)
  <2>1. \A w \in Workers : t \in ToSet(hand[w]) <=> Held(w, t)
    BY TaskLeadsHand DEF TypeOK, Held
  <2> QED  BY <2>1 DEF Started, Carried, Calling
<1>2. Status[t] = IF runs[t] = 1 /\ ~Started(t) THEN "done"
                  ELSE IF runs[t] > 0 THEN "restarted"
                  ELSE IF Started(t) THEN "running"
                  ELSE IF t \in dropped THEN "dropped"
                  ELSE IF t \in posted THEN "waiting"
                  ELSE "new"
  BY DEF Status
<1>3. runs[t] \in {0, 1} /\ InOnePlace(t)
  BY DEF OnePlace
<1>4. ASSUME t \notin posted PROVE Status[t] = "new"
  <2>1. Nowhere(t)
    BY <1>3, <1>4 DEF InOnePlace
  <2>2. "loop" \in Hosts /\ Workers \subseteq Hosts /\ Threads \subseteq Hosts
        /\ Kinds = {"queue", "locked", "hand", "caller", "ran", "dropped"}
    BY DEF Hosts, Threads, Kinds
  <2>3. ~Started(t)
    BY <1>1, <2>1, <2>2 DEF Nowhere, IsAt, Calling
  <2>4. ~(runs[t] > 0) /\ t \notin dropped
    BY <2>1, <2>2 DEF Nowhere, IsAt
  <2> QED  BY <2>3, <2>4, <1>2, <1>3, <1>4
<1>5. ASSUME NEW k \in Kinds, NEW h \in Hosts, IsAt(t, k, h) PROVE Status[t] = StatusOf(k)
  <2>1. IsPlace(k, h)
    BY <1>5 DEF IsAt, IsPlace
  <2>2. OnlyAt(t, k, h) /\ t \in posted
    BY <2>1, <1>5, FoundOnlyThere
  <2>3. Started(t) <=> k \in {"hand", "caller"}
    BY <2>1, <2>2, <1>1, OnlyAtParts DEF IsPlace
  <2>4. (runs[t] > 0 <=> k = "ran") /\ (t \in dropped <=> k = "dropped")
    BY <2>1, <2>2, OnlyAtParts DEF IsPlace
  <2>5. CASE k = "ran"
    <3>1. runs[t] = 1 /\ ~Started(t)
      BY <2>3, <2>4, <2>5, <1>3
    <3>2. Status[t] = "done"
      BY <3>1, <1>2
    <3> QED  BY <3>2, <2>5 DEF StatusOf
  <2>6. CASE k \in {"hand", "caller"}
    <3>1. runs[t] = 0 /\ Started(t)
      BY <2>3, <2>4, <2>6, <1>3
    <3>2. Status[t] = "running"
      BY <3>1, <1>2
    <3> QED  BY <3>2, <2>6 DEF StatusOf
  <2>7. CASE k \in {"queue", "locked", "dropped"}
    <3>1. runs[t] = 0 /\ ~Started(t)
      BY <2>3, <2>4, <2>7, <1>3
    <3>2. Status[t] = IF t \in dropped THEN "dropped" ELSE "waiting"
      BY <3>1, <2>2, <1>2
    <3> QED  BY <3>2, <2>4, <2>7 DEF StatusOf
  <2> QED  BY <2>5, <2>6, <2>7 DEF Kinds
<1> QED  BY <1>4, <1>5

\* The same in the next state.
LEMMA StatusAtNextPlace ==
    TypeOK' /\ OnePlace' =>
        \A t \in Tasks :
            /\ t \notin posted' => Status'[t] = "new"
            /\ \A k \in Kinds, h \in Hosts : IsAt(t, k, h)' => Status'[t] = StatusOf(k)
<1>1. TypeOK' /\ OnePlace' => StatusTellsPlace'
  BY StatusAtPlace, PTL
<1> QED  BY <1>1 DEF StatusTellsPlace

\* A step without a move is no step of the pool.
LEMMA StatusStays ==
    ASSUME TypeOK, OnePlace, TypeOK', OnePlace', Stay,
           \A u \in Tasks : u \in posted' <=> u \in posted
    PROVE  Status' = Status
<1>1. ASSUME NEW u \in Tasks PROVE Status'[u] = Status[u]
  <2>1. CASE u \notin posted
    BY <2>1, StatusAtPlace, StatusAtNextPlace DEF StatusTellsPlace
  <2>2. CASE u \in posted
    <3>1. PICK k \in Kinds, h \in Hosts : OnlyAt(u, k, h)
      BY <2>2 DEF OnePlace, InOnePlace
    <3>2. IsAt(u, k, h) /\ IsAt(u, k, h)'
      BY <3>1 DEF OnlyAt, Stay
    <3> QED  BY <3>2, StatusAtPlace, StatusAtNextPlace DEF StatusTellsPlace
  <2> QED  BY <2>1, <2>2
<1>2. Status = [u \in Tasks |-> Status[u]] /\ Status' = [u \in Tasks |-> Status'[u]]
  BY DEF Status
<1> QED  BY <1>1, <1>2, Zenon

\* A move of one task is a change of that task's status.
LEMMA StatusMoves ==
    ASSUME TypeOK, OnePlace, TypeOK', OnePlace',
           NEW t \in Tasks, NEW kind, NEW host, IsPlace(kind, host),
           MovesTo(t, kind, host),
           \A u \in Tasks : u # t => (u \in posted' <=> u \in posted)
    PROVE  Status' = [Status EXCEPT ![t] = StatusOf(kind)]
<1>1. ASSUME NEW u \in Tasks, u # t PROVE Status'[u] = Status[u]
  <2>1. CASE u \notin posted
    BY <1>1, <2>1, StatusAtPlace, StatusAtNextPlace DEF StatusTellsPlace
  <2>2. CASE u \in posted
    <3>1. PICK k \in Kinds, h \in Hosts : OnlyAt(u, k, h)
      BY <2>2 DEF OnePlace, InOnePlace
    <3>2. IsAt(u, k, h) /\ IsAt(u, k, h)'
      BY <1>1, <3>1 DEF OnlyAt, MovesTo
    <3> QED  BY <3>2, StatusAtPlace, StatusAtNextPlace DEF StatusTellsPlace
  <2> QED  BY <2>1, <2>2
<1>2. Status'[t] = StatusOf(kind)
  <2>1. kind \in Kinds /\ host \in Hosts
    BY PlaceBounds
  <2>2. IsAt(t, kind, host)'
    BY <2>1 DEF MovesTo
  <2> QED  BY <2>1, <2>2, StatusAtNextPlace
<1>3. Status = [u \in Tasks |-> Status[u]] /\ Status' = [u \in Tasks |-> Status'[u]]
  BY DEF Status
<1>4. [Status EXCEPT ![t] = StatusOf(kind)]
        = [u \in Tasks |-> IF u = t THEN StatusOf(kind) ELSE Status[u]]
  BY <1>3
<1> QED  BY <1>1, <1>2, <1>3, <1>4

\* A step of the pool, or none.
PoolSteps == [Pool!Next]_<<Status, shutdown>>

\* What has to be shown of every step.
Moved == OnePlace' /\ PoolSteps

\* A step that moves no task closes the pool or is none of its steps.
LEMMA StayingStep ==
    ASSUME TypeOK, OnePlace, TypeOK', Stay, runs' = runs,
           \A u \in Tasks : u \in posted' <=> u \in posted,
           shutdown' \in {shutdown, TRUE}
    PROVE  Moved
<1>1. OnePlace'
  BY OnePlaceStays
<1>2. Status' = Status
  BY <1>1, StatusStays
<1>3. PoolSteps
  <2>1. CASE shutdown' = shutdown
    BY <2>1, <1>2 DEF PoolSteps
  <2>2. CASE shutdown' # shutdown
    <3>1. ~shutdown /\ shutdown' = TRUE
      BY <2>2 DEF TypeOK
    <3>2. Pool!Close
      BY <3>1, <1>2 DEF Pool!Close
    <3> QED  BY <3>2 DEF PoolSteps, Pool!Next
  <2> QED  BY <2>1, <2>2
<1> QED  BY <1>1, <1>3 DEF Moved

\* A step that moves one posted task from a place to another one.
LEMMA MovingStep ==
    ASSUME TypeOK, OnePlace, TypeOK', NEW t \in Tasks,
           NEW k0, NEW h0, IsPlace(k0, h0), IsAt(t, k0, h0),
           NEW kind, NEW host, IsPlace(kind, host), MovesTo(t, kind, host),
           \A u \in Tasks : runs'[u] \in {0, 1}, UNCHANGED <<posted, shutdown>>,
           \/ StatusOf(kind) = StatusOf(k0)
           \/ StatusOf(k0) = "waiting" /\ StatusOf(kind) = "running"
           \/ StatusOf(k0) = "running" /\ StatusOf(kind) = "done"
    PROVE  Moved
<1>1. t \in posted
  BY FoundOnlyThere
<1>2. OnePlace'
  BY <1>1, OnePlaceMoves
<1>3. Status' = [Status EXCEPT ![t] = StatusOf(kind)]
  BY <1>2, StatusMoves
<1>4. Status[t] = StatusOf(k0)
  BY StatusAtPlace, PlaceBounds DEF StatusTellsPlace
<1>5. CASE StatusOf(kind) = StatusOf(k0)
  <2>1. Status' = Status
    BY <1>3, <1>4, <1>5 DEF Status
  <2> QED  BY <2>1, <1>2 DEF Moved, PoolSteps
<1>6. CASE StatusOf(k0) = "waiting" /\ StatusOf(kind) = "running"
  <2>1. Pool!Start(t)
    BY <1>3, <1>4, <1>6 DEF Pool!Start, Pool!Move
  <2> QED  BY <2>1, <1>2 DEF Moved, PoolSteps, Pool!Next
<1>7. CASE StatusOf(k0) = "running" /\ StatusOf(kind) = "done"
  <2>1. Pool!Finish(t)
    BY <1>3, <1>4, <1>7 DEF Pool!Finish, Pool!Move
  <2> QED  BY <2>1, <1>2 DEF Moved, PoolSteps, Pool!Next
<1> QED  BY <1>5, <1>6, <1>7

-----------------------------------------------------------------------------
(* Every step keeps each task in one place and is a step of the pool, or none *)

\* Nothing that IsAt looks at has changed.
LEMMA QuietStay ==
    ASSUME UNCHANGED <<tasks, hand, post, runs, dropped>>
    PROVE  Stay
BY DEF Stay, IsAt, Held, Carried

\* The call of p carries no task, neither before nor after.
LEMMA QuietPostStay ==
    ASSUME TypeOK, NEW p \in Threads, NEW r \in PostStates,
           post' = [post EXCEPT ![p] = r],
           r.at \notin {"locked", "inline", "alone"},
           post[p].at \notin {"locked", "inline", "alone"},
           UNCHANGED <<tasks, hand, runs, dropped>>
    PROVE  Stay
<1>1. post'[p] = r /\ \A q \in Threads : q # p => post'[q] = post[q]
  BY PostMoves
<1>2. ASSUME NEW u \in Tasks, NEW q \in Threads
      PROVE  /\ Carried(q, u, {"locked"})' <=> Carried(q, u, {"locked"})
             /\ Carried(q, u, Calling)' <=> Carried(q, u, Calling)
  BY <1>1 DEF Carried, Calling
<1>3. \A u \in Tasks, w \in Workers : Held(w, u)' <=> Held(w, u)
  BY DEF Held
<1> QED  BY <1>2, <1>3, StayByParts

\* The task a call carries changes, everything else is as it was.
LEMMA CarriedParts ==
    ASSUME NEW p \in Threads, NEW t \in Tasks,
           \A q \in Threads : q # p => post'[q] = post[q],
           post[p].at \in {"locked", "inline", "alone"} => post[p].task = t,
           post'[p].at \in {"locked", "inline", "alone"} => post'[p].task = t
    PROVE  /\ \A u \in Tasks, q \in Threads : u # t \/ q # p =>
                /\ Carried(q, u, {"locked"})' <=> Carried(q, u, {"locked"})
                /\ Carried(q, u, Calling)' <=> Carried(q, u, Calling)
           /\ Carried(p, t, {"locked"})' <=> post'[p].at = "locked"
           /\ Carried(p, t, Calling)' <=> post'[p].at \in Calling
<1>1. ASSUME NEW u \in Tasks, NEW q \in Threads, u # t \/ q # p
      PROVE  /\ Carried(q, u, {"locked"})' <=> Carried(q, u, {"locked"})
             /\ Carried(q, u, Calling)' <=> Carried(q, u, Calling)
  <2>1. CASE q # p
    BY <2>1 DEF Carried
  <2>2. CASE q = p
    BY <1>1, <2>2 DEF Carried, Calling
  <2> QED  BY <2>1, <2>2
<1>2. Carried(p, t, {"locked"})' <=> post'[p].at = "locked"
  BY DEF Carried
<1>3. Carried(p, t, Calling)' <=> post'[p].at \in Calling
  BY DEF Carried, Calling
<1> QED  BY <1>1, <1>2, <1>3

\* A posted task is taken by the call that locked the loop, or by the caller when
\* the loop is gone: nobody else has a reference then, so it was shut down.
LEMMA LockLoopMoves ==
    ASSUME TypeOK, OnePlace, TypeOK', Lifetime,
           NEW p \in Threads, NEW t \in Tasks, LockLoop(p, t)
    PROVE  Moved
<1> DEFINE a == IF owner \/ Holders # {} THEN "locked" ELSE "alone"
           kind == IF owner \/ Holders # {} THEN "locked" ELSE "caller"
<1>1. /\ post[p].at = "idle" /\ t \notin posted /\ posted' = posted \cup {t}
      /\ post' = [post EXCEPT ![p] = [at |-> a, task |-> t]]
      /\ UNCHANGED <<tasks, hand, shutdown, runs, dropped>>
  BY DEF LockLoop, Idle, workerVars
<1>2. /\ a \in {"locked", "alone"} /\ [at |-> a, task |-> t] \in PostStates
      /\ kind = "locked" <=> a = "locked"
      /\ kind = "caller" <=> a = "alone"
      /\ kind \in {"locked", "caller"}
      /\ kind = "caller" => ~owner /\ Holders = {}
  BY PostStateIntro
<1> HIDE DEF a, kind
<1>3. Nowhere(t)
  BY <1>1 DEF OnePlace, InOnePlace
<1>4. /\ t \notin ToSet(tasks) /\ ~(runs[t] > 0) /\ t \notin dropped
      /\ \A w \in Workers : ~Held(w, t)
      /\ \A q \in Threads : ~Carried(q, t, {"locked"}) /\ ~Carried(q, t, Calling)
  <2>1. "loop" \in Hosts /\ Workers \subseteq Hosts /\ Threads \subseteq Hosts
        /\ Kinds = {"queue", "locked", "hand", "caller", "ran", "dropped"}
    BY DEF Hosts, Threads, Kinds
  <2> QED  BY <1>3, <2>1 DEF Nowhere, IsAt, Calling
<1>c. /\ \A u \in Tasks, q \in Threads : u # t \/ q # p =>
            /\ Carried(q, u, {"locked"})' <=> Carried(q, u, {"locked"})
            /\ Carried(q, u, Calling)' <=> Carried(q, u, Calling)
      /\ Carried(p, t, {"locked"})' <=> a = "locked"
      /\ Carried(p, t, Calling)' <=> a \in Calling
  <2>1. /\ post'[p].at = a /\ post'[p].task = t
        /\ \A q \in Threads : q # p => post'[q] = post[q]
    BY <1>1, <1>2, PostMoves
  <2> QED  BY <2>1, <1>1, CarriedParts
<1>5. IsPlace(kind, p)
  BY <1>2 DEF IsPlace
<1>6. MovesTo(t, kind, p)
  <2>1. \A u \in Tasks : u \in ToSet(tasks)' <=>
            IF u = t THEN kind = "queue" ELSE u \in ToSet(tasks)
    BY <1>1, <1>2, <1>4
  <2>2. \A u \in Tasks : runs'[u] > 0 <=> IF u = t THEN kind = "ran" ELSE runs[u] > 0
    BY <1>1, <1>2, <1>4
  <2>3. \A u \in Tasks, w \in Workers : Held(w, u)' <=>
            IF u = t THEN kind = "hand" /\ p = w ELSE Held(w, u)
    BY <1>1, <1>2, <1>4 DEF Held
  <2>4. \A u \in Tasks, q \in Threads : Carried(q, u, {"locked"})' <=>
            IF u = t THEN kind = "locked" /\ p = q ELSE Carried(q, u, {"locked"})
    BY <1>c, <1>2, <1>4
  <2>5. \A u \in Tasks, q \in Threads : Carried(q, u, Calling)' <=>
            IF u = t THEN kind = "caller" /\ p = q ELSE Carried(q, u, Calling)
    BY <1>c, <1>2, <1>4 DEF Calling
  <2> QED  BY <2>1, <2>2, <2>3, <2>4, <2>5, <1>1, <1>2, <1>4, <1>5, MoveByParts
<1>7. OnePlace'
  <2>1. \A u \in Tasks : runs'[u] \in {0, 1}
    BY <1>1 DEF OnePlace
  <2> QED  BY <1>1, <1>5, <1>6, <2>1, OnePlaceMoves
<1>8. Status' = [Status EXCEPT ![t] = StatusOf(kind)]
  BY <1>1, <1>5, <1>6, <1>7, StatusMoves
<1>9. Status[t] = "new"
  BY <1>1, StatusAtPlace DEF StatusTellsPlace
<1>10. CASE kind = "locked"
  <2>1. Pool!Post(t)
    BY <1>1, <1>8, <1>9, <1>10 DEF Pool!Post, Pool!Move, StatusOf
  <2> QED  BY <2>1, <1>7 DEF Moved, PoolSteps, Pool!Next
<1>11. CASE kind = "caller"
  <2>1. shutdown
    BY <1>2, <1>11 DEF Lifetime
  <2>2. Pool!RunByPoster(t)
    BY <2>1, <1>1, <1>8, <1>9, <1>11 DEF Pool!RunByPoster, Pool!Move, StatusOf
  <2> QED  BY <2>2, <1>7 DEF Moved, PoolSteps, Pool!Next
<1> QED  BY <1>2, <1>10, <1>11

\* The task a call carries is nowhere else.
LEMMA CallersTask ==
    ASSUME TypeOK, OnePlace, NEW p \in Threads,
           NEW k0, k0 = (IF post[p].at = "locked" THEN "locked" ELSE "caller"),
           post[p].at \in {"locked", "inline", "alone"}
    PROVE  /\ post[p].task \in Tasks /\ IsPlace(k0, p) /\ IsAt(post[p].task, k0, p)
           /\ OnlyAt(post[p].task, k0, p)
<1>1. post[p].task \in Tasks /\ IsPlace(k0, p)
  BY CallTypes DEF IsPlace
<1>2. IsAt(post[p].task, k0, p)
  BY DEF IsAt, Carried
<1> QED  BY <1>1, <1>2, FoundOnlyThere

\* The task that the call of p carries goes to another place; nothing else moves.
LEMMA CallMoves ==
    ASSUME TypeOK, OnePlace, NEW p \in Threads, NEW t, t = post[p].task,
           post[p].at \in {"locked", "inline", "alone"},
           NEW r \in PostStates, post' = [post EXCEPT ![p] = r],
           NEW kind, NEW host, IsPlace(kind, host),
           r.at \in {"locked", "alone"} => FALSE,
           r.at = "inline" => r.task = t,
           kind = "caller" <=> r.at = "inline", kind = "caller" => host = p,
           kind \in {"queue", "caller", "ran"},
           UNCHANGED <<hand, dropped>>,
           \A u \in Tasks : u \in ToSet(tasks)' <=>
                IF u = t THEN kind = "queue" ELSE u \in ToSet(tasks),
           \A u \in Tasks : runs'[u] > 0 <=> IF u = t THEN kind = "ran" ELSE runs[u] > 0
    PROVE  MovesTo(t, kind, host)
<1> DEFINE k0 == IF post[p].at = "locked" THEN "locked" ELSE "caller"
<1>1. t \in Tasks /\ OnlyAt(t, k0, p)
  BY CallersTask
<1>2. k0 \in {"locked", "caller"}
  OBVIOUS
<1> HIDE DEF k0
<1>3. /\ t \notin dropped /\ \A w \in Workers : ~Held(w, t)
      /\ \A q \in Threads : q # p => ~Carried(q, t, {"locked"}) /\ ~Carried(q, t, Calling)
  BY <1>1, <1>2, OnlyAtParts
<1>4. post'[p] = r /\ \A q \in Threads : q # p => post'[q] = post[q]
  BY PostMoves
<1>5. /\ \A u \in Tasks, q \in Threads : u # t \/ q # p =>
            /\ Carried(q, u, {"locked"})' <=> Carried(q, u, {"locked"})
            /\ Carried(q, u, Calling)' <=> Carried(q, u, Calling)
      /\ Carried(p, t, {"locked"})' <=> post'[p].at = "locked"
      /\ Carried(p, t, Calling)' <=> post'[p].at \in Calling
  BY <1>1, <1>4, CarriedParts
<1>6. ASSUME NEW u \in Tasks, NEW q \in Threads
      PROVE  Carried(q, u, {"locked"})' <=>
                IF u = t THEN kind = "locked" /\ host = q ELSE Carried(q, u, {"locked"})
  BY <1>3, <1>4, <1>5
<1>7. ASSUME NEW u \in Tasks, NEW q \in Threads
      PROVE  Carried(q, u, Calling)' <=>
                IF u = t THEN kind = "caller" /\ host = q ELSE Carried(q, u, Calling)
  <2>1. Carried(p, t, Calling)' <=> kind = "caller"
    BY <1>4, <1>5 DEF Calling
  <2> QED  BY <2>1, <1>3, <1>5
<1>8. \A u \in Tasks, w \in Workers : Held(w, u)' <=>
            IF u = t THEN kind = "hand" /\ host = w ELSE Held(w, u)
  BY <1>3 DEF Held
<1> QED  BY <1>1, <1>3, <1>6, <1>7, <1>8, MoveByParts

\* PostTask queues the task, or keeps it to run it on the caller's thread.
LEMMA PostTaskMoves ==
    ASSUME TypeOK, OnePlace, NoRepeats, TypeOK', NEW p \in Threads, PostTask(p)
    PROVE  Moved /\ NoRepeats'
<1> DEFINE t == post[p].task
<1>1. /\ t \in Tasks /\ post[p].at = "locked"
      /\ \/ /\ shutdown /\ tasks' = tasks
            /\ post' = [post EXCEPT ![p] = [at |-> "inline", task |-> t]]
         \/ /\ ~shutdown /\ tasks' = Append(tasks, t)
            /\ post' = [post EXCEPT ![p] = [at |-> "notify", task |-> NoTask]]
      /\ UNCHANGED <<shutdown, hand, posted, runs, dropped>>
  BY PostTaskForm
<1>2. IsPlace("locked", p) /\ IsAt(t, "locked", p) /\ OnlyAt(t, "locked", p)
  BY <1>1, CallersTask
<1>3. t \notin ToSet(tasks) /\ ~(runs[t] > 0)
  BY <1>1, <1>2, OnlyAtParts
<1>4. \A u \in Tasks : runs'[u] \in {0, 1}
  BY <1>1 DEF OnePlace
<1>5. /\ [at |-> "inline", task |-> t] \in PostStates
      /\ [at |-> "notify", task |-> NoTask] \in PostStates
  BY <1>1, PostStateIntro
<1>6. CASE shutdown
  <2>1. tasks' = tasks /\ post' = [post EXCEPT ![p] = [at |-> "inline", task |-> t]]
    BY <1>1, <1>6
  <2>2. IsPlace("caller", p)
    BY DEF IsPlace
  <2>3. \A u \in Tasks : u \in ToSet(tasks)' <=>
            IF u = t THEN "caller" = "queue" ELSE u \in ToSet(tasks)
    BY <2>1, <1>3
  <2>4. \A u \in Tasks : runs'[u] > 0 <=> IF u = t THEN "caller" = "ran" ELSE runs[u] > 0
    BY <1>1, <1>3
  <2>5. PICK r \in PostStates : r.at = "inline" /\ r.task = t /\ post' = [post EXCEPT ![p] = r]
    BY <2>1, <1>5
  <2>6. MovesTo(t, "caller", p)
    BY <2>2, <2>3, <2>4, <2>5, <1>1, CallMoves
  <2>7. StatusOf("locked") = "waiting" /\ StatusOf("caller") = "running"
    BY DEF StatusOf
  <2>8. Moved
    BY <2>2, <2>6, <2>7, <1>1, <1>2, <1>4, MovingStep
  <2> QED  BY <2>1, <2>8 DEF NoRepeats
<1>7. CASE ~shutdown
  <2>1. /\ tasks' = Append(tasks, t)
        /\ post' = [post EXCEPT ![p] = [at |-> "notify", task |-> NoTask]]
    BY <1>1, <1>7
  <2>2. IsPlace("queue", "loop")
    BY DEF IsPlace
  <2>3. /\ ToSet(Append(tasks, t)) = ToSet(tasks) \cup {t}
        /\ \A i, j \in 1..Len(Append(tasks, t)) :
                i # j => Append(tasks, t)[i] # Append(tasks, t)[j]
    BY <1>1, <1>3, PushBack DEF TypeOK, NoRepeats
  <2>a. ToSet(tasks)' = ToSet(tasks) \cup {t}
    <3>1. ToSet(tasks)' = ToSet(tasks')
      BY DEF ToSet
    <3> QED  BY <3>1, <2>1, <2>3
  <2>b. \A u \in Tasks : u \in ToSet(tasks)' <=>
            IF u = t THEN "queue" = "queue" ELSE u \in ToSet(tasks)
    BY <2>a
  <2>4. \A u \in Tasks : runs'[u] > 0 <=> IF u = t THEN "queue" = "ran" ELSE runs[u] > 0
    BY <1>1, <1>3
  <2>5. PICK r \in PostStates : r.at = "notify" /\ post' = [post EXCEPT ![p] = r]
    BY <2>1, <1>5
  <2>6. MovesTo(t, "queue", "loop")
    BY <2>2, <2>b, <2>4, <2>5, <1>1, CallMoves
  <2>7. StatusOf("locked") = StatusOf("queue")
    BY DEF StatusOf
  <2>8. Moved
    BY <2>2, <2>6, <2>7, <1>1, <1>2, <1>4, MovingStep
  <2> QED  BY <2>1, <2>3, <2>8 DEF NoRepeats
<1> QED  BY <1>6, <1>7

\* The caller runs the task itself.
LEMMA RunOnCallerMoves ==
    ASSUME TypeOK, OnePlace, TypeOK', NEW p \in Threads, RunOnCaller(p)
    PROVE  Moved
<1> DEFINE t == post[p].task
<1>1. /\ post[p].at \in {"inline", "alone"} /\ runs' = [runs EXCEPT ![t] = @ + 1]
      /\ UNCHANGED <<tasks, hand, shutdown, posted, dropped>>
  BY DEF RunOnCaller, workerVars
<1>2. t \in Tasks /\ IsPlace("caller", p) /\ IsAt(t, "caller", p) /\ OnlyAt(t, "caller", p)
  BY <1>1, CallersTask
<1>3. t \notin ToSet(tasks) /\ ~(runs[t] > 0)
  BY <1>2, OnlyAtParts
<1>4. \A u \in Tasks : runs'[u] = IF u = t THEN 1 ELSE runs[u]
  BY <1>1, <1>2, <1>3 DEF OnePlace, TypeOK
<1>5. \A u \in Tasks : runs'[u] \in {0, 1}
  BY <1>4 DEF OnePlace
<1>6. PICK r \in PostStates : /\ r.at \in {"idle", "return"}
                              /\ post' = [post EXCEPT ![p] = r]
  <2>1. /\ Idle \in PostStates /\ Idle.at = "idle"
        /\ [at |-> "return", task |-> NoTask] \in PostStates
    BY PostStateIntro DEF Idle
  <2> QED  BY <2>1 DEF RunOnCaller
<1>7. IsPlace("ran", "loop")
  BY DEF IsPlace
<1>8. \A u \in Tasks : u \in ToSet(tasks)' <=>
            IF u = t THEN "ran" = "queue" ELSE u \in ToSet(tasks)
  BY <1>1, <1>3
<1>9. \A u \in Tasks : runs'[u] > 0 <=> IF u = t THEN "ran" = "ran" ELSE runs[u] > 0
  BY <1>4
<1>10. MovesTo(t, "ran", "loop")
  BY <1>1, <1>6, <1>7, <1>8, <1>9, CallMoves
<1>11. StatusOf("caller") = "running" /\ StatusOf("ran") = "done"
  BY DEF StatusOf
<1> QED  BY <1>1, <1>2, <1>5, <1>7, <1>10, <1>11, MovingStep

\* A worker takes the front of the shared queue, if there is one.
LEMMA TakeTasksMoves ==
    ASSUME TypeOK, OnePlace, NoRepeats, HandsEmptied, TypeOK',
           NEW w \in Workers, TakeTasks(w)
    PROVE  Moved /\ NoRepeats'
<1>1. /\ hand' = [hand EXCEPT ![w] = Taken(tasks, thread_tasks[w])]
      /\ hand[w] = <<>>
      /\ tasks' = (IF tasks = <<>> THEN tasks ELSE Tail(tasks))
      /\ UNCHANGED <<shutdown, post, posted, runs, dropped>>
  BY DEF TakeTasks, Taken, HandsEmptied
<1>2. /\ hand'[w] = Taken(tasks, thread_tasks[w])
      /\ \A v \in Workers : v # w => hand'[v] = hand[v]
  BY <1>1 DEF TypeOK
<1>3. /\ tasks # <<>> => hand'[w] # <<>> /\ hand'[w][1] = Head(tasks)
      /\ tasks = <<>> /\ hand'[w] # <<>> => hand'[w][1] \in Broadcasts
  BY <1>2, TakenHand DEF TypeOK
<1>4. \A u \in Tasks : u \notin Broadcasts
  BY ThreadsAssumption
<1>5. \A u \in Tasks, q \in Threads :
            /\ Carried(q, u, {"locked"})' <=> Carried(q, u, {"locked"})
            /\ Carried(q, u, Calling)' <=> Carried(q, u, Calling)
  BY <1>1 DEF Carried
<1>6. CASE tasks = <<>>
  <2>1. \A u \in Tasks, v \in Workers : Held(v, u)' <=> Held(v, u)
    BY <1>1, <1>2, <1>3, <1>4, <1>6 DEF Held
  <2>2. Stay
    BY <1>1, <1>5, <1>6, <2>1, StayByParts
  <2> QED  BY <2>2, <1>1, <1>6, StayingStep DEF NoRepeats
<1>7. CASE tasks # <<>>
  <2> DEFINE t == Head(tasks)
  <2>1. /\ t \in Tasks /\ t \in ToSet(tasks) /\ ToSet(Tail(tasks)) = ToSet(tasks) \ {t}
        /\ \A i, j \in 1..Len(Tail(tasks)) : i # j => Tail(tasks)[i] # Tail(tasks)[j]
    BY <1>7, PopFront DEF TypeOK, NoRepeats
  <2>2. IsPlace("queue", "loop") /\ IsPlace("hand", w) /\ IsAt(t, "queue", "loop")
    BY <2>1 DEF IsPlace, IsAt
  <2> HIDE DEF t
  <2>3. OnlyAt(t, "queue", "loop")
    BY <2>1, <2>2, FoundOnlyThere
  <2>4. /\ ~(runs[t] > 0) /\ t \notin dropped /\ \A v \in Workers : ~Held(v, t)
        /\ \A q \in Threads : ~Carried(q, t, {"locked"}) /\ ~Carried(q, t, Calling)
    BY <2>1, <2>3, OnlyAtParts
  <2>5. ToSet(tasks)' = ToSet(tasks) \ {t}
    <3>1. ToSet(tasks)' = ToSet(tasks')
      BY DEF ToSet
    <3> QED  BY <3>1, <2>1, <1>1, <1>7
  <2>6. \A u \in Tasks : u \in ToSet(tasks)' <=>
            IF u = t THEN "hand" = "queue" ELSE u \in ToSet(tasks)
    BY <2>5
  <2>7. \A u \in Tasks : runs'[u] > 0 <=> IF u = t THEN "hand" = "ran" ELSE runs[u] > 0
    BY <1>1, <2>4
  <2>8. ASSUME NEW u \in Tasks, NEW v \in Workers
        PROVE  Held(v, u)' <=> IF u = t THEN "hand" = "hand" /\ w = v ELSE Held(v, u)
    <3>1. CASE v = w
      BY <1>1, <1>3, <1>7, <3>1 DEF Held, t
    <3>2. CASE v # w
      BY <1>2, <2>4, <3>2 DEF Held
    <3> QED  BY <3>1, <3>2
  <2>9. MovesTo(t, "hand", w)
    <3>1. \A u \in Tasks, q \in Threads : Carried(q, u, {"locked"})' <=>
            IF u = t THEN "hand" = "locked" /\ w = q ELSE Carried(q, u, {"locked"})
      BY <1>5, <2>4
    <3>2. \A u \in Tasks, q \in Threads : Carried(q, u, Calling)' <=>
            IF u = t THEN "hand" = "caller" /\ w = q ELSE Carried(q, u, Calling)
      BY <1>5, <2>4
    <3> QED  BY <3>1, <3>2, <2>1, <2>2, <2>4, <2>6, <2>7, <2>8, <1>1, MoveByParts
  <2>10. StatusOf("queue") = "waiting" /\ StatusOf("hand") = "running"
    BY DEF StatusOf
  <2>11. \A u \in Tasks : runs'[u] \in {0, 1}
    BY <1>1 DEF OnePlace
  <2>12. Moved
    BY <2>1, <2>2, <2>9, <2>10, <2>11, <1>1, MovingStep
  <2> QED  BY <2>1, <2>12, <1>1, <1>7 DEF NoRepeats
<1> QED  BY <1>6, <1>7

\* A closure returns: a task has run now, a broadcast is not counted.
LEMMA ClosureReturnsMoves ==
    ASSUME TypeOK, OnePlace, TypeOK', NEW w \in Workers, ClosureReturns(w)
    PROVE  Moved
<1> DEFINE t == hand[w][1]
<1>1. /\ hand[w] \in Hands /\ hand[w] # <<>> /\ hand' = [hand EXCEPT ![w] = Tail(@)]
      /\ UNCHANGED <<tasks, shutdown, post, posted, dropped>>
  BY DEF ClosureReturns, TypeOK
<1>2. /\ hand'[w] = Tail(hand[w]) /\ \A v \in Workers : v # w => hand'[v] = hand[v]
  BY <1>1 DEF TypeOK
<1>3. /\ Head(hand[w]) = t /\ t \in Tasks \cup Broadcasts
      /\ hand'[w] # <<>> => hand'[w][1] \in Broadcasts
  BY <1>1, <1>2, RestOfHand
<1>4. runs' = IF t \in Tasks THEN [runs EXCEPT ![t] = @ + 1] ELSE runs
  BY <1>3 DEF ClosureReturns
<1>5. \A u \in Tasks : u \notin Broadcasts /\ ~(Held(w, u))'
  BY <1>3, ThreadsAssumption DEF Held
<1>6. \A u \in Tasks, q \in Threads :
            /\ Carried(q, u, {"locked"})' <=> Carried(q, u, {"locked"})
            /\ Carried(q, u, Calling)' <=> Carried(q, u, Calling)
  BY <1>1 DEF Carried
<1>7. \A u \in Tasks, v \in Workers : v # w => (Held(v, u)' <=> Held(v, u))
  BY <1>2 DEF Held
<1>8. \A u \in Tasks : Held(w, u) <=> u = t
  BY <1>1 DEF Held
<1> HIDE DEF t
<1>9. CASE t \notin Tasks
  <2>1. Stay
    BY <1>1, <1>4, <1>5, <1>6, <1>7, <1>8, <1>9, StayByParts
  <2> QED  BY <2>1, <1>1, <1>4, <1>9, StayingStep
<1>10. CASE t \in Tasks
  <2>1. IsPlace("hand", w) /\ IsPlace("ran", "loop") /\ IsAt(t, "hand", w)
    BY <1>8, <1>10 DEF IsPlace, IsAt
  <2>2. OnlyAt(t, "hand", w)
    BY <2>1, <1>10, FoundOnlyThere
  <2>3. /\ t \notin ToSet(tasks) /\ ~(runs[t] > 0) /\ t \notin dropped
        /\ \A v \in Workers : v # w => ~Held(v, t)
        /\ \A q \in Threads : ~Carried(q, t, {"locked"}) /\ ~Carried(q, t, Calling)
    BY <2>2, <1>10, OnlyAtParts
  <2>4. \A u \in Tasks : runs'[u] = IF u = t THEN 1 ELSE runs[u]
    BY <1>4, <1>10, <2>3 DEF OnePlace, TypeOK
  <2>5. \A u \in Tasks : runs'[u] \in {0, 1}
    BY <2>4 DEF OnePlace
  <2>6. \A u \in Tasks : u \in ToSet(tasks)' <=>
            IF u = t THEN "ran" = "queue" ELSE u \in ToSet(tasks)
    BY <1>1, <2>3
  <2>7. \A u \in Tasks : runs'[u] > 0 <=> IF u = t THEN "ran" = "ran" ELSE runs[u] > 0
    BY <2>4
  <2>8. ASSUME NEW u \in Tasks, NEW v \in Workers
        PROVE  Held(v, u)' <=> IF u = t THEN "ran" = "hand" /\ "loop" = v ELSE Held(v, u)
    BY <1>5, <1>7, <1>8, <2>3
  <2>9. \A u \in Tasks, q \in Threads : Carried(q, u, {"locked"})' <=>
            IF u = t THEN "ran" = "locked" /\ "loop" = q ELSE Carried(q, u, {"locked"})
    BY <1>6, <2>3
  <2>10. \A u \in Tasks, q \in Threads : Carried(q, u, Calling)' <=>
            IF u = t THEN "ran" = "caller" /\ "loop" = q ELSE Carried(q, u, Calling)
    BY <1>6, <2>3
  <2>11. MovesTo(t, "ran", "loop")
    BY <2>1, <2>3, <2>6, <2>7, <2>8, <2>9, <2>10, <1>1, <1>10, MoveByParts
  <2>12. StatusOf("hand") = "running" /\ StatusOf("ran") = "done"
    BY DEF StatusOf
  <2> QED  BY <2>1, <2>5, <2>11, <2>12, <1>1, <1>10, MovingStep
<1> QED  BY <1>9, <1>10

\* The destructor has joined: what is still queued is dropped.  Nobody has a
\* reference any more, so no call is on its way to the queue with a task.
LEMMA JoinWorkersMoves ==
    ASSUME TypeOK, OnePlace, Lifetime, TypeOK', NEW p \in Threads, JoinWorkers(p)
    PROVE  Moved /\ NoRepeats'
<1>1. /\ post[p].at = "dtor"
      /\ post' = [post EXCEPT ![p] = [at |-> "destroyed", task |-> NoTask]]
      /\ dropped' = ToSet(tasks) /\ tasks' = <<>>
      /\ UNCHANGED <<shutdown, hand, posted, runs>>
  BY JoinWorkersForm
<1>2. p \in Ends
  BY <1>1 DEF Ends
<1>3. shutdown /\ Holders = {} /\ dropped = {}
  <2>1. Holders = {} /\ ~owner
    BY <1>2 DEF Lifetime
  <2>2. \A q \in Threads : post[q].at # "destroyed"
    <3>1. SUFFICES ASSUME NEW q \in Threads, post[q].at = "destroyed" PROVE FALSE
      OBVIOUS
    <3>2. q \in Ends
      BY <3>1 DEF Ends
    <3>3. q = p
      BY <3>2, <1>2 DEF Lifetime
    <3> QED  BY <3>1, <3>3, <1>1
  <2> QED  BY <2>1, <2>2 DEF Lifetime
<1>4. [at |-> "destroyed", task |-> NoTask] \in PostStates
  BY PostStateIntro
<1>5. post'[p].at = "destroyed" /\ \A q \in Threads : q # p => post'[q] = post[q]
  BY <1>1, <1>4, PostMoves
<1>6. ASSUME NEW u \in Tasks, NEW k \in Kinds, NEW h \in Hosts
      PROVE  IsAt(u, k, h)' <=> CASE k = "queue" -> FALSE
                                  [] k = "dropped" -> IsAt(u, "queue", h)
                                  [] OTHER -> IsAt(u, k, h)
  <2>1. CASE k = "queue"
    <3>1. ToSet(tasks)' = {}
      BY <1>1 DEF ToSet
    <3> QED  BY <3>1, <2>1 DEF IsAt
  <2>2. CASE k = "dropped"
    BY <1>1, <2>2 DEF IsAt
  <2>3. CASE k = "ran"
    BY <1>1, <2>3 DEF IsAt
  <2>4. CASE k = "hand"
    BY <1>1, <2>4 DEF IsAt, Held
  <2>5. CASE k \in {"locked", "caller"}
    BY <1>1, <1>5, <2>5 DEF IsAt, Carried
  <2> QED  BY <2>1, <2>2, <2>3, <2>4, <2>5 DEF Kinds
<1>7. ASSUME NEW u \in Tasks, NEW k \in Kinds, NEW h \in Hosts, OnlyAt(u, k, h)
      PROVE  OnlyAt(u, IF k = "queue" THEN "dropped" ELSE k, h)' /\ k # "dropped"
  <2>1. IsAt(u, k, h)
    BY <1>7 DEF OnlyAt
  <2>2. k # "dropped"
    BY <2>1, <1>3 DEF IsAt
  <2>3. \A i \in Kinds, j \in Hosts : IsAt(u, i, j) <=> i = k /\ j = h
    BY <1>7 DEF OnlyAt
  <2>4. "queue" \in Kinds
    BY DEF Kinds
  <2>5. CASE k = "queue"
    <3>1. \A i \in Kinds, j \in Hosts : IsAt(u, i, j)' <=> i = "dropped" /\ j = h
      BY <2>3, <2>4, <2>5, <1>6
    <3> QED  BY <3>1, <2>2, <2>5 DEF OnlyAt
  <2>6. CASE k # "queue"
    <3>1. \A i \in Kinds, j \in Hosts : IsAt(u, i, j)' <=> i = k /\ j = h
      BY <2>2, <2>3, <2>4, <2>6, <1>6
    <3> QED  BY <3>1, <2>2, <2>6 DEF OnlyAt
  <2> QED  BY <2>5, <2>6
<1>8. OnePlace'
  <2>1. SUFFICES ASSUME NEW u \in Tasks PROVE runs'[u] \in {0, 1} /\ InOnePlace(u)'
    BY DEF OnePlace
  <2>2. runs'[u] \in {0, 1} /\ InOnePlace(u)
    BY <1>1 DEF OnePlace
  <2>3. CASE u \in posted
    <3>1. PICK k \in Kinds, h \in Hosts : OnlyAt(u, k, h)
      BY <2>2, <2>3 DEF InOnePlace
    <3>2. "dropped" \in Kinds
      BY DEF Kinds
    <3> QED  BY <3>1, <3>2, <2>2, <2>3, <1>1, <1>7 DEF InOnePlace
  <2>4. CASE u \notin posted
    <3>1. Nowhere(u)
      BY <2>2, <2>4 DEF InOnePlace
    <3>2. "queue" \in Kinds
      BY DEF Kinds
    <3>3. Nowhere(u)'
      BY <3>1, <3>2, <1>6 DEF Nowhere
    <3> QED  BY <3>3, <2>2, <2>4, <1>1 DEF InOnePlace
  <2> QED  BY <2>3, <2>4
<1>9. ASSUME NEW u \in Tasks
      PROVE  Status'[u] = IF Status[u] = "waiting" THEN "dropped" ELSE Status[u]
  <2>1. CASE u \notin posted
    BY <2>1, <1>1, <1>8, StatusAtPlace, StatusAtNextPlace DEF StatusTellsPlace
  <2>2. CASE u \in posted
    <3>1. PICK k \in Kinds, h \in Hosts : OnlyAt(u, k, h)
      BY <2>2 DEF OnePlace, InOnePlace
    <3>2. IsAt(u, k, h) /\ k # "dropped"
      BY <3>1, <1>7 DEF OnlyAt
    <3>3. k # "locked"
      BY <3>2, <1>3 DEF IsAt, Carried, Holders
    <3>4. Status[u] = StatusOf(k)
      BY <3>2, StatusAtPlace DEF StatusTellsPlace
    <3>5. CASE k = "queue"
      <4>1. "dropped" \in Kinds /\ IsAt(u, "dropped", h)'
        BY <3>2, <3>5, <1>6 DEF Kinds
      <4>2. Status'[u] = StatusOf("dropped")
        BY <4>1, <1>8, StatusAtNextPlace
      <4> QED  BY <4>2, <3>4, <3>5 DEF StatusOf
    <3>6. CASE k \in {"hand", "caller", "ran"}
      <4>1. IsAt(u, k, h)'
        BY <3>2, <3>6, <1>6
      <4>2. Status'[u] = StatusOf(k)
        BY <4>1, <1>8, StatusAtNextPlace
      <4> QED  BY <4>2, <3>4, <3>6 DEF StatusOf
    <3> QED  BY <3>2, <3>3, <3>5, <3>6 DEF Kinds
  <2> QED  BY <2>1, <2>2
<1>10. Status' = [u \in Tasks |-> Status'[u]]
  BY DEF Status
<1>11. Pool!GiveUp
  BY <1>1, <1>3, <1>9, <1>10 DEF Pool!GiveUp
<1>12. NoRepeats'
  BY <1>1 DEF NoRepeats
<1> QED  BY <1>8, <1>11, <1>12 DEF Moved, PoolSteps, Pool!Next

\* The steps that move no task.
LEMMA QuietMoves ==
    ASSUME TypeOK, OnePlace, NoRepeats, TypeOK',
           UNCHANGED <<tasks, hand, post, runs, dropped>>,
           shutdown' \in {shutdown, TRUE},
           \A u \in Tasks : u \in posted' <=> u \in posted
    PROVE  Moved /\ NoRepeats'
BY QuietStay, StayingStep DEF NoRepeats

\* A call that carries no task, before or after its step, moves none.
LEMMA QuietPostMoves ==
    ASSUME TypeOK, OnePlace, NoRepeats, TypeOK', NEW p \in Threads, NEW r \in PostStates,
           post' = [post EXCEPT ![p] = r],
           r.at \notin {"locked", "inline", "alone"},
           post[p].at \notin {"locked", "inline", "alone"},
           UNCHANGED <<tasks, hand, runs, dropped, posted>>,
           shutdown' \in {shutdown, TRUE}
    PROVE  Moved /\ NoRepeats'
BY QuietPostStay, StayingStep DEF NoRepeats

\* Every step.
LEMMA PlacesNext ==
    ASSUME Inv, TypeOK', [Next]_vars
    PROVE  Moved /\ NoRepeats'
<1> USE DEF Inv
<1>1. ASSUME NEW w \in Workers, Wait(w) \/ NextIteration(w) \/ SpuriousWakeUp(w)
      PROVE  Moved /\ NoRepeats'
  BY <1>1, QuietMoves DEF Wait, NextIteration, SpuriousWakeUp
<1>2. ASSUME NEW w \in Workers, TakeTasks(w) PROVE Moved /\ NoRepeats'
  BY <1>2, TakeTasksMoves
<1>3. ASSUME NEW w \in Workers, ClosureReturns(w) PROVE Moved /\ NoRepeats'
  BY <1>3, ClosureReturnsMoves DEF ClosureReturns, NoRepeats
<1>4. ASSUME NEW p \in Threads, PostTask(p) PROVE Moved /\ NoRepeats'
  BY <1>4, PostTaskMoves
<1>5. ASSUME NEW p \in Threads, NotifyOne(p) PROVE Moved /\ NoRepeats'
  <2>1. PICK r \in PostStates : r.at = "return" /\ post' = [post EXCEPT ![p] = r]
    BY <1>5, NotifyOneForm, PostStateIntro
  <2> QED  BY <2>1, <1>5, NotifyOneForm, QuietPostMoves
<1>6. ASSUME NEW p \in Threads, RunOnCaller(p) PROVE Moved /\ NoRepeats'
  BY <1>6, RunOnCallerMoves DEF RunOnCaller, NoRepeats
<1>7. ASSUME NEW p \in Threads, ReleaseLoop(p) PROVE Moved /\ NoRepeats'
  <2>1. /\ Idle \in PostStates /\ Idle.at = "idle"
        /\ [at |-> "dtor", task |-> NoTask] \in PostStates
    BY PostStateIntro DEF Idle
  <2>2. PICK r \in PostStates : r.at \in {"idle", "dtor"} /\ post' = [post EXCEPT ![p] = r]
    BY <1>7, <2>1 DEF ReleaseLoop, BeginDestructor
  <2>3. /\ post[p].at = "return" /\ shutdown' \in {shutdown, TRUE}
        /\ UNCHANGED <<tasks, hand, runs, dropped, posted>>
    BY <1>7 DEF ReleaseLoop, BeginDestructor
  <2> QED  BY <2>2, <2>3, QuietPostMoves
<1>8. ASSUME NEW p \in Threads, JoinWorkers(p) PROVE Moved /\ NoRepeats'
  BY <1>8, JoinWorkersMoves
<1>9. ASSUME NEW p \in Threads, NEW t \in Tasks, LockLoop(p, t) PROVE Moved /\ NoRepeats'
  BY <1>9, LockLoopMoves DEF LockLoop, NoRepeats
<1>10. ASSUME NEW b \in Broadcasts, PostTaskToAllWorkers(b) PROVE Moved /\ NoRepeats'
  <2>1. \A u \in Tasks : u \in posted' <=> u \in posted
    BY <1>10, ThreadsAssumption DEF PostTaskToAllWorkers
  <2> QED  BY <2>1, <1>10, QuietMoves DEF PostTaskToAllWorkers
<1>11. CASE OwnerReset
  <2>1. CASE Holders = {}
    <3>1. PICK r \in PostStates : r.at = "dtor" /\ post' = [post EXCEPT ![Owner] = r]
      BY <1>11, <2>1, PostStateIntro DEF OwnerReset, BeginDestructor
    <3>2. Owner \in Threads /\ post[Owner].at \in {"idle", "dtor", "destroyed"}
      BY DEF Threads, Lifetime
    <3> QED
      BY <3>1, <3>2, <2>1, <1>11, QuietPostMoves DEF OwnerReset, BeginDestructor
  <2>2. CASE Holders # {}
    BY <2>2, <1>11, QuietMoves DEF OwnerReset
  <2> QED  BY <2>1, <2>2
<1>12. CASE Terminate
  BY <1>12, QuietMoves DEF Terminate
<1>13. CASE UNCHANGED vars
  BY <1>13, QuietMoves DEF vars, workerVars
<1> QED
  BY <1>1, <1>2, <1>3, <1>4, <1>5, <1>6, <1>7, <1>8, <1>9, <1>10, <1>11, <1>12, <1>13
  DEF Next, WorkerStep, PosterStep

-----------------------------------------------------------------------------
(* The theorems                                                              *)

\* At the start every worker is about to look for work and there is none.
LEMMA InvInit == Init => Inv
<1> SUFFICES ASSUME Init PROVE Inv
  OBVIOUS
<1>1. TypeOK
  BY TypeInit
<1>2. HandsEmptied /\ ExitsAreOrdered
  BY DEF Init, HandsEmptied, ExitsAreOrdered
<1>3. \A p \in Threads : post[p].at = "idle"
  BY DEF Init, Idle
<1>4. Lifetime
  <2>1. Holders = {} /\ Ends = {} /\ Owner \in Threads
    BY <1>3 DEF Holders, Ends, Threads
  <2> QED  BY <1>3, <2>1 DEF Init, Lifetime
<1>5. NoRepeats
  BY DEF Init, NoRepeats
<1>6. OnePlace
  <2>1. SUFFICES ASSUME NEW t \in Tasks PROVE runs[t] \in {0, 1} /\ InOnePlace(t)
    BY DEF OnePlace
  <2>2. ToSet(tasks) = {} /\ runs[t] = 0 /\ \A w \in Workers : hand[w] = <<>>
    BY DEF Init, ToSet
  <2>3. Nowhere(t)
    BY <1>3, <2>2 DEF Nowhere, IsAt, Held, Carried, Init
  <2> QED  BY <2>2, <2>3 DEF InOnePlace, Init
<1>7. NoneSleepsThroughWork
  BY DEF Init, NoneSleepsThroughWork, Waiting
<1> QED  BY <1>1, <1>2, <1>4, <1>5, <1>6, <1>7 DEF Inv

\* The invariant is inductive, and a step is one of the pool or a stutter.
LEMMA InvNext == Inv /\ [Next]_vars => Inv' /\ PoolSteps
<1> SUFFICES ASSUME Inv, [Next]_vars PROVE Inv' /\ PoolSteps
  OBVIOUS
<1>1. TypeOK'
  BY TypeNext DEF Inv
<1>2. HandsEmptied' /\ ExitsAreOrdered'
  BY WorkersNext DEF Inv
<1>3. Lifetime'
  BY LifetimeNext DEF Inv
<1>4. NoneSleepsThroughWork'
  <2>1. SleepersHaveNothing /\ SomeoneComes
    BY SleepForm DEF Inv
  <2>2. SleepersHaveNothing' /\ SomeoneComes'
    BY <2>1, SleepersNext, SomeoneNext DEF Inv
  <2>3. SleepersHaveNothing' /\ SomeoneComes' => NoneSleepsThroughWork'
    BY SleepForm, PTL
  <2> QED  BY <2>2, <2>3
<1>5. OnePlace' /\ PoolSteps /\ NoRepeats'
  BY <1>1, PlacesNext DEF Moved
<1> QED  BY <1>1, <1>2, <1>3, <1>4, <1>5 DEF Inv

\* The inductive invariant of the loop.
THEOREM LoopInvariant == Spec => []Inv
BY InvInit, InvNext, PTL DEF Spec

\* ConcurrentMessageLoop: no worker sleeps through a shutdown, a closure of its
\* own or the last chance to take a task of the shared queue.
THEOREM LoopNoneSleepsThroughWork == Spec => []NoneSleepsThroughWork
<1>1. Inv => NoneSleepsThroughWork
  BY DEF Inv
<1> QED  BY <1>1, LoopInvariant, PTL

\* ConcurrentMessageLoop implements TaskPool: a task is started at most once and
\* finished once, wherever it runs, and what waits is given up only when the
\* loop is destroyed.
THEOREM LoopImplementsTaskPool == Spec => RefinesTaskPool
<1>1. Init => Pool!Init
  <2> SUFFICES ASSUME Init PROVE Pool!Init
    OBVIOUS
  <2>1. StatusTellsPlace
    BY InvInit, StatusAtPlace DEF Inv
  <2>2. \A t \in Tasks : Status[t] = "new"
    BY <2>1 DEF StatusTellsPlace, Init
  <2>3. Status = [t \in Tasks |-> Status[t]]
    BY DEF Status
  <2>4. Status = [t \in Tasks |-> "new"]
    BY <2>2, <2>3
  <2> QED  BY <2>4 DEF Pool!Init, Init
<1>2. Inv /\ [Next]_vars => [Pool!Next]_<<Status, shutdown>>
  BY InvNext DEF PoolSteps
<1> QED  BY <1>1, <1>2, LoopInvariant, PTL DEF Spec, RefinesTaskPool, Pool!Spec

-----------------------------------------------------------------------------
(* The task executor                                                         *)

\* What can be in a loop.
Closures == DiskTasks \cup MainTasks \cup {Terminate_}

\* The threads of the host, by their number.
LEMMA HostForm ==
  /\ Len(HostThreads) = 4
  /\ \A i \in 1 .. 4 : HostThreads[i] \in TypeMask
  /\ \A i, j \in 1 .. 4 : HostThreads[i] = HostThreads[j] => i = j
  /\ \A t \in TypeMask : \E i \in 1 .. 4 : HostThreads[i] = t
  /\ Main \notin TypeMask /\ "IO" \in TypeMask
<1>1. /\ HostThreads[1] = "Platform" /\ HostThreads[2] = "UI" /\ HostThreads[3] = "RASTER"
      /\ HostThreads[4] = "IO" /\ Len(HostThreads) = 4
  BY DEF HostThreads
<1>2. \A i \in 1 .. 4 : i = 1 \/ i = 2 \/ i = 3 \/ i = 4
  OBVIOUS
<1>3. QED
  BY <1>1, <1>2 DEF TypeMask, Main

\* The state is well formed.
ExecTypes ==
    /\ at \in 0 .. 4
    /\ epc \in {"none", "create", "wait", "use", "join", "joining"}
    /\ tpc \in [TypeMask -> Places \cup DiskTasks \cup {Terminate_}]
    /\ task_runner \in [TypeMask -> TypeMask \cup {NoRunner}]
    /\ loop_tasks \in [LoopThreads -> Seq(Closures)]

\* How many threads there are, as far as the main thread is.
MainInStep ==
    /\ epc = "none" <=> at = 0
    /\ epc = "use" => at = 4

\* Every loop is given what it is for, and every thread runs what its loop was given.
Contents ==
    /\ \A t \in TypeMask : \A j \in DOMAIN loop_tasks[t] :
          loop_tasks[t][j] # Terminate_ => t = "IO" /\ loop_tasks[t][j] \in DiskTasks
    /\ \A t \in TypeMask : tpc[t] \in DiskTasks => t = "IO"
    /\ \A j \in DOMAIN loop_tasks[Main] : loop_tasks[Main][j] \in MainTasks

\* The places of a thread: not there, starting, serving and ending.
Absent(t) == tpc[t] = "none" /\ loop_tasks[t] = <<>>
Starting(t) ==
    /\ loop_tasks[t] = <<>>
    /\ tpc[t] \in {"started", "ready", "run"}
    /\ tpc[t] # "started" => runner = t /\ t \in tls_message_loop
    /\ latch => tpc[t] = "run"
Serving(t) ==
    /\ task_runner[t] = t /\ t \in tls_message_loop
    /\ tpc[t] \in {"run"} \cup DiskTasks
    /\ \A j \in DOMAIN loop_tasks[t] : loop_tasks[t][j] # Terminate_
Ending(t) ==
    \/ /\ tpc[t] \in {"run"} \cup DiskTasks
       /\ loop_tasks[t] # <<>>
       /\ \A j \in DOMAIN loop_tasks[t] :
             loop_tasks[t][j] = Terminate_ <=> j = Len(loop_tasks[t])
    \/ tpc[t] \in {Terminate_, "last", "ended"} /\ loop_tasks[t] = <<>>

\* Threads are created one by one and joined one by one, the last one first.
InTurn(i) ==
    /\ i > at => Absent(HostThreads[i])
    /\ i < at => Serving(HostThreads[i])
    /\ i = at => /\ epc = "wait" => Starting(HostThreads[i])
                 /\ epc = "joining" => Ending(HostThreads[i])
                 /\ epc \in {"create", "use", "join"} => Serving(HostThreads[i])
AllInTurn == \A i \in 1 .. 4 : InTurn(i)

\* What has run ran where it should.
RanInPlace == ran \subseteq (DiskTasks \X {"IO"}) \cup (MainTasks \X {Main})

\* The inductive invariant of the executor.
ExecInv == ExecTypes /\ MainInStep /\ Contents /\ AllInTurn /\ RanInPlace

\* The labels are no closures.
LEMMA LabelsDiffer ==
  /\ \A x \in DiskTasks \cup MainTasks : x \notin Places /\ x # Terminate_
  /\ Terminate_ \notin Places
  BY ClosureAssumption DEF Terminate_, Places

\* Before the first executor no thread of a host is there.
LEMMA ExecInvInit == ExecInit => ExecInv
<1> SUFFICES ASSUME ExecInit PROVE ExecInv
  OBVIOUS
<1>1. ExecTypes
  BY HostForm DEF ExecInit, ExecTypes, Places, LoopThreads
<1>2. \A t \in TypeMask : Absent(t) /\ tpc[t] \notin DiskTasks
  BY ClosureAssumption DEF ExecInit, Absent, LoopThreads, Places
<1>3. AllInTurn
  BY <1>2, HostForm DEF ExecInit, AllInTurn, InTurn
<1>4. Contents
  BY <1>2 DEF ExecInit, Contents, Absent, LoopThreads
<1>5. MainInStep /\ RanInPlace
  BY DEF ExecInit, MainInStep, RanInPlace
<1>6. QED
  BY <1>1, <1>3, <1>4, <1>5 DEF ExecInv

\* What the steps do not touch stays as it is.
Untouched(u) ==
    /\ tpc'[u] = tpc[u] /\ loop_tasks'[u] = loop_tasks[u] /\ task_runner'[u] = task_runner[u]
    /\ u \in tls_message_loop => u \in tls_message_loop'

\* A thread that a step does not touch stays in its place.
LEMMA UntouchedKept ==
  ASSUME NEW u, Untouched(u)
  PROVE  /\ Absent(u) => Absent(u)'
         /\ Serving(u) => Serving(u)'
         /\ Ending(u) => Ending(u)'
         /\ UNCHANGED <<runner, latch>> /\ Starting(u) => Starting(u)'
  BY DEF Untouched, Absent, Serving, Ending, Starting

\* The next thread is started.
LEMMA CreateThreadKeeps == ExecInv /\ CreateThread => ExecInv'
<1> SUFFICES ASSUME ExecInv, CreateThread PROVE ExecInv'
  OBVIOUS
<1>0. at \in 0 .. 3 /\ at + 1 \in 1 .. 4 /\ epc \in {"none", "create"}
  BY HostForm DEF ExecInv, ExecTypes, CreateThread
<1>k. PICK k \in 1 .. 4 : k = at + 1
  BY <1>0
<1>t. PICK t \in TypeMask : t = HostThreads[k]
  BY HostForm
<1>1. /\ at' = k /\ epc' = "wait" /\ latch' = FALSE
      /\ tpc' = [tpc EXCEPT ![t] = "started"]
      /\ UNCHANGED <<task_runner, tls_message_loop, loop_tasks, ran>>
  BY <1>k, <1>t DEF CreateThread
<1>2. k \in 1 .. 4 /\ k = at + 1 /\ t \in TypeMask /\ HostThreads[k] = t
  BY <1>k, <1>t
<1>3. Absent(t)
  BY <1>0, <1>2 DEF ExecInv, AllInTurn, InTurn
<1>4. ExecTypes'
  BY <1>1, <1>2 DEF ExecInv, ExecTypes, Places
<1>5. \A u \in TypeMask : tpc'[u] = IF u = t THEN "started" ELSE tpc[u]
  BY <1>1, <1>2 DEF ExecInv, ExecTypes
<1>6. \A u \in TypeMask : u # t => Untouched(u)
  BY <1>1, <1>5 DEF Untouched
<1>7. MainInStep' /\ RanInPlace'
  BY <1>0, <1>1, <1>2 DEF ExecInv, MainInStep, RanInPlace
<1>8. Contents'
  BY <1>1, <1>5, LabelsDiffer DEF ExecInv, Contents, Places
<1>9. Starting(t)'
  BY <1>1, <1>2, <1>3, <1>5 DEF Absent, Starting
<1>10. ASSUME NEW i \in 1 .. 4 PROVE InTurn(i)'
  <2>1. i = k \/ HostThreads[i] # t
    BY <1>2, HostForm
  <2>2. HostThreads[i] \in TypeMask
    BY HostForm
  <2>3. CASE i = k
    BY <1>1, <1>2, <1>9, <2>3 DEF InTurn
  <2>4. CASE i # k
    <3>1. Untouched(HostThreads[i])
      BY <1>6, <2>1, <2>2, <2>4
    <3>2. InTurn(i)
      BY DEF ExecInv, AllInTurn
    <3>3. QED
      BY <1>0, <1>1, <1>2, <2>4, <3>1, <3>2, UntouchedKept DEF InTurn, ExecInv, MainInStep
  <2>5. QED
    BY <2>3, <2>4
<1>11. QED
  BY <1>4, <1>7, <1>8, <1>10 DEF ExecInv, AllInTurn

\* A step of one thread, or of the main thread about one, disturbs no other.
LEMMA OneAtATime ==
  ASSUME ExecInv, NEW k \in 1 .. 4, UNCHANGED at,
         k = at \/ UNCHANGED <<epc, runner, latch>>,
         \A u \in TypeMask : u # HostThreads[k] => Untouched(u),
         InTurn(k)'
  PROVE  AllInTurn'
<1> SUFFICES ASSUME NEW i \in 1 .. 4, i # k PROVE InTurn(i)'
  BY DEF AllInTurn
<1>1. Untouched(HostThreads[i])
  BY HostForm
<1>2. InTurn(i)
  BY DEF ExecInv, AllInTurn
<1>3. QED
  BY <1>1, <1>2, UntouchedKept DEF InTurn

\* The latch is open: the runner is the one of the thread that started.
LEMMA ThreadCreatedKeeps == ExecInv /\ ThreadCreated => ExecInv'
<1> SUFFICES ASSUME ExecInv, ThreadCreated PROVE ExecInv'
  OBVIOUS
<1>0. at \in 1 .. 4
  BY DEF ExecInv, ExecTypes, MainInStep, ThreadCreated
<1>k. PICK k \in 1 .. 4 : k = at
  BY <1>0
<1>t. PICK t \in TypeMask : t = HostThreads[k]
  BY HostForm
<1>1. /\ epc = "wait" /\ latch /\ epc' = "create"
      /\ task_runner' = [task_runner EXCEPT ![t] = runner]
      /\ UNCHANGED <<at, tpc, runner, tls_message_loop, loop_tasks, ran>>
  BY <1>k, <1>t DEF ThreadCreated
<1>2. Starting(t)
  BY <1>k, <1>t, <1>1 DEF ExecInv, AllInTurn, InTurn
<1>3. tpc[t] = "run" /\ runner = t /\ t \in tls_message_loop /\ loop_tasks[t] = <<>>
  BY <1>1, <1>2 DEF Starting
<1>4. ExecTypes' /\ \A u \in TypeMask : task_runner'[u] = IF u = t THEN t ELSE task_runner[u]
  BY <1>1, <1>3 DEF ExecInv, ExecTypes
<1>5. MainInStep' /\ Contents' /\ RanInPlace'
  BY <1>0, <1>1 DEF ExecInv, MainInStep, Contents, RanInPlace
<1>6. Serving(t)'
  BY <1>1, <1>3, <1>4 DEF Serving
<1>7. InTurn(k)'
  BY <1>k, <1>t, <1>1, <1>6 DEF InTurn
<1>8. \A u \in TypeMask : u # HostThreads[k] => Untouched(u)
  BY <1>t, <1>1, <1>4 DEF Untouched
<1>9. AllInTurn'
  BY <1>k, <1>1, <1>7, <1>8, OneAtATime
<1>10. QED
  BY <1>4, <1>5, <1>9 DEF ExecInv

\* The last thread is created, and the main thread has a loop.
LEMMA ExecutorCreatedKeeps == ExecInv /\ ExecutorCreated => ExecInv'
<1> SUFFICES ASSUME ExecInv, ExecutorCreated PROVE ExecInv'
  OBVIOUS
<1>1. /\ epc = "create" /\ at = 4 /\ epc' = "use"
      /\ tls_message_loop' = tls_message_loop \cup {Main}
      /\ UNCHANGED <<at, tpc, runner, latch, task_runner, loop_tasks, ran>>
  BY HostForm DEF ExecutorCreated
<1>2. ExecTypes' /\ MainInStep' /\ Contents' /\ RanInPlace'
  BY <1>1 DEF ExecInv, ExecTypes, MainInStep, Contents, RanInPlace
<1>3. \A u \in TypeMask : Untouched(u)
  BY <1>1 DEF Untouched
<1>4. Serving(HostThreads[4])'
  <2>1. Serving(HostThreads[4])
    BY <1>1 DEF ExecInv, AllInTurn, InTurn
  <2>2. Untouched(HostThreads[4])
    BY <1>3, HostForm
  <2>3. QED
    BY <2>1, <2>2, UntouchedKept
<1>5. InTurn(4)'
  BY <1>1, <1>4 DEF InTurn
<1>6. AllInTurn'
  BY <1>1, <1>3, <1>5, OneAtATime
<1>7. QED
  BY <1>2, <1>6 DEF ExecInv

\* A closure of the main thread is posted or run: the other loops have no part.
LEMMA MainLoopKeeps ==
  ASSUME ExecInv, MainRunsTask \/ \E task \in MainTasks : PostToMainThread(task)
  PROVE  ExecInv'
<1>0. loop_tasks[Main] \in Seq(Closures) /\ Main \in LoopThreads
  BY DEF ExecInv, ExecTypes, LoopThreads
<1>1. UNCHANGED <<epc, at, tpc, runner, latch, task_runner, tls_message_loop>>
  BY DEF MainRunsTask, PostToMainThread
<1>2. PICK s \in Seq(Closures) :
        /\ loop_tasks' = [loop_tasks EXCEPT ![Main] = s]
        /\ \A j \in DOMAIN s : s[j] \in MainTasks
  <2>1. CASE MainRunsTask
    <3>1. loop_tasks' = [loop_tasks EXCEPT ![Main] = Tail(loop_tasks[Main])]
      BY <2>1 DEF MainRunsTask
    <3>2. loop_tasks[Main] # <<>>
      BY <2>1 DEF MainRunsTask
    <3>3. \A j \in DOMAIN loop_tasks[Main] : loop_tasks[Main][j] \in MainTasks
      BY DEF ExecInv, Contents
    <3>4. /\ Tail(loop_tasks[Main]) \in Seq(Closures)
          /\ \A j \in DOMAIN Tail(loop_tasks[Main]) : Tail(loop_tasks[Main])[j] \in MainTasks
      BY <1>0, <3>2, <3>3
    <3>5. QED
      BY <3>1, <3>4
  <2>2. ASSUME NEW task \in MainTasks, PostToMainThread(task)
        PROVE  \E s \in Seq(Closures) :
                  /\ loop_tasks' = [loop_tasks EXCEPT ![Main] = s]
                  /\ \A j \in DOMAIN s : s[j] \in MainTasks
    <3>1. loop_tasks' = [loop_tasks EXCEPT ![Main] = Append(loop_tasks[Main], task)]
      BY <2>2 DEF PostToMainThread, PostTo
    <3>2. \A j \in DOMAIN loop_tasks[Main] : loop_tasks[Main][j] \in MainTasks
      BY DEF ExecInv, Contents
    <3>3. task \in Closures
      BY DEF Closures
    <3>4. /\ Append(loop_tasks[Main], task) \in Seq(Closures)
          /\ \A j \in DOMAIN Append(loop_tasks[Main], task) :
                Append(loop_tasks[Main], task)[j] \in MainTasks
      BY <1>0, <3>2, <3>3
    <3>5. QED
      BY <3>1, <3>4
  <2>3. QED
    BY <2>1, <2>2
<1>3. /\ ExecTypes' /\ loop_tasks'[Main] = s
      /\ \A u \in TypeMask : loop_tasks'[u] = loop_tasks[u]
  BY <1>0, <1>1, <1>2, HostForm DEF ExecInv, ExecTypes, LoopThreads
<1>4. MainInStep' /\ Contents'
  BY <1>1, <1>2, <1>3 DEF ExecInv, MainInStep, Contents
<1>5. RanInPlace'
  <2>1. CASE MainRunsTask
    <3>1. loop_tasks[Main] # <<>> /\ ran' = ran \cup {<<Head(loop_tasks[Main]), Main>>}
      BY <2>1 DEF MainRunsTask
    <3>2. Head(loop_tasks[Main]) \in MainTasks
      BY <1>0, <3>1 DEF ExecInv, Contents
    <3>3. QED
      BY <3>1, <3>2 DEF ExecInv, RanInPlace
  <2>2. CASE \E task \in MainTasks : PostToMainThread(task)
    BY <2>2 DEF PostToMainThread, ExecInv, RanInPlace
  <2>3. QED
    BY <2>1, <2>2
<1>6. \A u \in TypeMask : Untouched(u)
  BY <1>1, <1>3 DEF Untouched
<1>7. ASSUME NEW i \in 1 .. 4 PROVE InTurn(i)'
  <2>1. Untouched(HostThreads[i]) /\ InTurn(i)
    BY <1>6, HostForm DEF ExecInv, AllInTurn
  <2>2. QED
    BY <1>1, <2>1, UntouchedKept DEF InTurn
<1>8. QED
  BY <1>3, <1>4, <1>5, <1>7 DEF ExecInv, AllInTurn

\* A closure is at the end of its loop.
LEMMA PostToForm ==
  ASSUME ExecInv, NEW t \in TypeMask, NEW x \in Closures, PostTo(t, x)
  PROVE  /\ loop_tasks' \in [LoopThreads -> Seq(Closures)]
         /\ \A u \in LoopThreads : u # t => loop_tasks'[u] = loop_tasks[u]
         /\ loop_tasks'[t] # <<>>
         /\ Len(loop_tasks'[t]) = Len(loop_tasks[t]) + 1 /\ Len(loop_tasks[t]) \in Nat
         /\ \A j \in DOMAIN loop_tasks'[t] :
              \/ j \in DOMAIN loop_tasks[t] /\ j # Len(loop_tasks'[t])
                 /\ loop_tasks'[t][j] = loop_tasks[t][j]
              \/ j = Len(loop_tasks'[t]) /\ loop_tasks'[t][j] = x
<1>1. loop_tasks[t] \in Seq(Closures) /\ t \in LoopThreads
  BY DEF ExecInv, ExecTypes, LoopThreads
<1> DEFINE s == Append(loop_tasks[t], x)
<1>2. loop_tasks' = [loop_tasks EXCEPT ![t] = s]
  BY DEF PostTo
<1>3. /\ s \in Seq(Closures) /\ s # <<>> /\ Len(s) = Len(loop_tasks[t]) + 1
      /\ Len(loop_tasks[t]) \in Nat
      /\ \A j \in DOMAIN s : \/ j \in DOMAIN loop_tasks[t] /\ j # Len(s) /\ s[j] = loop_tasks[t][j]
                             \/ j = Len(s) /\ s[j] = x
  BY <1>1
<1> HIDE DEF s
<1>4. loop_tasks'[t] = s
  BY <1>1, <1>2 DEF ExecInv, ExecTypes
<1>5. /\ loop_tasks' \in [LoopThreads -> Seq(Closures)]
      /\ \A u \in LoopThreads : u # t => loop_tasks'[u] = loop_tasks[u]
  BY <1>2, <1>3 DEF ExecInv, ExecTypes
<1>6. QED
  BY <1>3, <1>4, <1>5

\* The executor that is used has a runner for the disk.
LEMMA ExecuteOnDiskIOKeeps ==
  ASSUME ExecInv, NEW task \in DiskTasks, ExecuteOnDiskIO(task)
  PROVE  ExecInv'
<1>1. /\ epc = "use" /\ at = 4
      /\ UNCHANGED <<epc, at, tpc, runner, latch, task_runner, tls_message_loop, ran>>
  BY DEF ExecuteOnDiskIO, ExecInv, MainInStep
<1>2. HostThreads[4] = "IO" /\ "IO" \in TypeMask
  BY DEF HostThreads, TypeMask
<1>3. Serving("IO")
  BY <1>1, <1>2 DEF ExecInv, AllInTurn, InTurn
<1>4. PICK t \in TypeMask : t = "IO"
  BY <1>2
<1>5. PostTo(t, task) /\ task \in Closures /\ task # Terminate_
  BY <1>3, <1>4, LabelsDiffer DEF ExecuteOnDiskIO, Serving, Closures
<1>6. /\ loop_tasks' \in [LoopThreads -> Seq(Closures)]
      /\ \A u \in LoopThreads : u # t => loop_tasks'[u] = loop_tasks[u]
      /\ \A j \in DOMAIN loop_tasks'[t] :
            \/ j \in DOMAIN loop_tasks[t] /\ loop_tasks'[t][j] = loop_tasks[t][j]
            \/ loop_tasks'[t][j] = task
  BY <1>5, PostToForm
<1>7. ExecTypes' /\ MainInStep' /\ RanInPlace'
  BY <1>1, <1>6 DEF ExecInv, ExecTypes, MainInStep, RanInPlace
<1>8. Contents'
  <2>1. loop_tasks'[Main] = loop_tasks[Main]
    BY <1>6, HostForm DEF LoopThreads
  <2>2. \A u \in TypeMask : u # t => loop_tasks'[u] = loop_tasks[u]
    BY <1>6 DEF LoopThreads
  <2>3. ASSUME NEW j \in DOMAIN loop_tasks'[t], loop_tasks'[t][j] # Terminate_
        PROVE  t = "IO" /\ loop_tasks'[t][j] \in DiskTasks
    BY <1>4, <1>6, <2>3 DEF ExecInv, Contents
  <2>4. QED
    BY <1>1, <2>1, <2>2, <2>3 DEF ExecInv, Contents
<1>9. Serving(t)'
  BY <1>1, <1>3, <1>4, <1>5, <1>6 DEF Serving
<1>10. InTurn(4)'
  BY <1>1, <1>2, <1>4, <1>9 DEF InTurn
<1>11. \A u \in TypeMask : u # HostThreads[4] => Untouched(u)
  BY <1>1, <1>2, <1>4, <1>6 DEF Untouched, LoopThreads
<1>12. AllInTurn'
  BY <1>1, <1>10, <1>11, OneAtATime
<1>13. QED
  BY <1>7, <1>8, <1>12 DEF ExecInv

\* The closure that terminates a loop is the last one in it.
LEMMA JoinThreadKeeps == ExecInv /\ JoinThread => ExecInv'
<1> SUFFICES ASSUME ExecInv, JoinThread PROVE ExecInv'
  OBVIOUS
<1>0. at \in 1 .. 4
  BY DEF ExecInv, ExecTypes, JoinThread
<1>k. PICK k \in 1 .. 4 : k = at
  BY <1>0
<1>t. PICK t \in TypeMask : t = HostThreads[k]
  BY HostForm
<1>1. /\ epc \in {"use", "join"} /\ epc' = "joining"
      /\ UNCHANGED <<at, tpc, runner, latch, task_runner, tls_message_loop, ran>>
  BY DEF JoinThread
<1>2. Serving(t)
  BY <1>k, <1>t, <1>1 DEF ExecInv, AllInTurn, InTurn
<1>3. PostTo(t, Terminate_) /\ Terminate_ \in Closures
  BY <1>k, <1>t, <1>2 DEF JoinThread, Serving, Closures
<1>4. /\ loop_tasks' \in [LoopThreads -> Seq(Closures)]
      /\ \A u \in LoopThreads : u # t => loop_tasks'[u] = loop_tasks[u]
      /\ loop_tasks'[t] # <<>>
      /\ \A j \in DOMAIN loop_tasks'[t] :
            \/ j \in DOMAIN loop_tasks[t] /\ j # Len(loop_tasks'[t])
               /\ loop_tasks'[t][j] = loop_tasks[t][j]
            \/ j = Len(loop_tasks'[t]) /\ loop_tasks'[t][j] = Terminate_
  BY <1>3, PostToForm
<1>5. ExecTypes' /\ MainInStep' /\ RanInPlace'
  BY <1>0, <1>1, <1>4 DEF ExecInv, ExecTypes, MainInStep, RanInPlace
<1>6. Contents'
  <2>1. loop_tasks'[Main] = loop_tasks[Main]
    BY <1>4, HostForm DEF LoopThreads
  <2>2. \A u \in TypeMask : u # t => loop_tasks'[u] = loop_tasks[u]
    BY <1>4 DEF LoopThreads
  <2>3. ASSUME NEW j \in DOMAIN loop_tasks'[t], loop_tasks'[t][j] # Terminate_
        PROVE  t = "IO" /\ loop_tasks'[t][j] \in DiskTasks
    BY <1>4, <2>3 DEF ExecInv, Contents
  <2>4. QED
    BY <1>1, <2>1, <2>2, <2>3 DEF ExecInv, Contents
<1>7. Ending(t)'
  BY <1>1, <1>2, <1>4 DEF Serving, Ending
<1>8. InTurn(k)'
  BY <1>k, <1>t, <1>1, <1>7 DEF InTurn
<1>9. \A u \in TypeMask : u # HostThreads[k] => Untouched(u)
  BY <1>t, <1>1, <1>4 DEF Untouched, LoopThreads
<1>10. AllInTurn'
  BY <1>k, <1>1, <1>8, <1>9, OneAtATime
<1>11. QED
  BY <1>5, <1>6, <1>10 DEF ExecInv

\* The thread that ended has an empty loop; the one before it is the next.
LEMMA ThreadJoinedKeeps == ExecInv /\ ThreadJoined => ExecInv'
<1> SUFFICES ASSUME ExecInv, ThreadJoined PROVE ExecInv'
  OBVIOUS
<1>0. at \in 1 .. 4
  BY DEF ExecInv, ExecTypes, MainInStep, ThreadJoined
<1>k. PICK k \in 1 .. 4 : k = at
  BY <1>0
<1>t. PICK t \in TypeMask : t = HostThreads[k]
  BY HostForm
<1>1. /\ epc = "joining" /\ tpc[t] = "ended" /\ at' = k - 1
      /\ epc' = IF k = 1 THEN "none" ELSE "join"
      /\ tpc' = [tpc EXCEPT ![t] = "none"]
      /\ task_runner' = [task_runner EXCEPT ![t] = NoRunner]
      /\ UNCHANGED <<runner, latch, tls_message_loop, loop_tasks, ran>>
  BY <1>k, <1>t DEF ThreadJoined
<1>2. Ending(t)
  BY <1>k, <1>t, <1>1 DEF ExecInv, AllInTurn, InTurn
<1>3. loop_tasks[t] = <<>>
  BY <1>1, <1>2, LabelsDiffer DEF Ending, Places
<1>4. /\ ExecTypes'
      /\ \A u \in TypeMask : /\ tpc'[u] = IF u = t THEN "none" ELSE tpc[u]
                             /\ u # t => task_runner'[u] = task_runner[u]
  BY <1>k, <1>1 DEF ExecInv, ExecTypes, Places
<1>5. MainInStep' /\ RanInPlace'
  BY <1>k, <1>1 DEF ExecInv, MainInStep, RanInPlace
<1>6. Contents'
  BY <1>1, <1>4, LabelsDiffer DEF ExecInv, Contents, Places
<1>7. Absent(t)'
  BY <1>1, <1>3, <1>4 DEF Absent
<1>8. \A u \in TypeMask : u # t => Untouched(u)
  BY <1>1, <1>4 DEF Untouched
<1>9. ASSUME NEW i \in 1 .. 4 PROVE InTurn(i)'
  <2>1. CASE i = k
    BY <1>k, <1>t, <1>1, <1>7, <2>1 DEF InTurn
  <2>2. CASE i # k
    <3>1. Untouched(HostThreads[i]) /\ InTurn(i)
      BY <1>t, <1>8, <2>2, HostForm DEF ExecInv, AllInTurn
    <3>2. QED
      BY <1>k, <1>1, <2>2, <3>1, UntouchedKept DEF InTurn
  <2>3. QED
    BY <2>1, <2>2
<1>10. QED
  BY <1>4, <1>5, <1>6, <1>9 DEF ExecInv, AllInTurn

\* A thread starts its loop and opens the latch: the main thread waits for it.
LEMMA StartKeeps ==
  ASSUME ExecInv, NEW t \in TypeMask, StartLoop(t) \/ SignalCreator(t)
  PROVE  ExecInv'
<1>k. PICK k \in 1 .. 4 : t = HostThreads[k]
  BY HostForm
<1>1. tpc[t] \in {"started", "ready"}
  BY DEF StartLoop, SignalCreator
<1>2. InTurn(k)
  BY DEF ExecInv, AllInTurn
<1>3. ~Absent(t) /\ ~Serving(t) /\ ~Ending(t)
  BY <1>1, LabelsDiffer DEF Absent, Serving, Ending, Places
<1>4. k = at /\ epc = "wait" /\ Starting(t)
  BY <1>k, <1>2, <1>3 DEF ExecInv, ExecTypes, MainInStep, InTurn
<1>5. PICK p \in {"ready", "run"} :
        /\ tpc' = [tpc EXCEPT ![t] = p]
        /\ runner' = t /\ t \in tls_message_loop' /\ (latch' => p = "run")
  <2>1. CASE StartLoop(t)
    <3>1. tpc' = [tpc EXCEPT ![t] = "ready"] /\ runner' = t /\ t \in tls_message_loop'
      BY <2>1 DEF StartLoop
    <3>2. ~latch /\ latch' = latch
      BY <1>4, <2>1 DEF Starting, StartLoop
    <3>3. QED
      BY <3>1, <3>2
  <2>2. CASE SignalCreator(t)
    BY <1>4, <2>2 DEF Starting, SignalCreator
  <2>3. QED
    BY <2>1, <2>2
<1>6. /\ UNCHANGED <<epc, at, task_runner, loop_tasks, ran>>
      /\ tls_message_loop \subseteq tls_message_loop'
  BY DEF StartLoop, SignalCreator
<1>7. /\ ExecTypes'
      /\ \A u \in TypeMask : tpc'[u] = IF u = t THEN p ELSE tpc[u]
  BY <1>5, <1>6 DEF ExecInv, ExecTypes, Places
<1>8. MainInStep' /\ RanInPlace'
  BY <1>6 DEF ExecInv, MainInStep, RanInPlace
<1>9. Contents'
  BY <1>6, <1>7, LabelsDiffer DEF ExecInv, Contents, Places
<1>10. Starting(t)'
  BY <1>4, <1>5, <1>6, <1>7 DEF Starting
<1>11. InTurn(k)'
  BY <1>k, <1>4, <1>6, <1>10 DEF InTurn
<1>12. \A u \in TypeMask : u # HostThreads[k] => Untouched(u)
  BY <1>k, <1>6, <1>7 DEF Untouched
<1>13. AllInTurn'
  BY <1>4, <1>6, <1>11, <1>12, OneAtATime
<1>14. QED
  BY <1>7, <1>8, <1>9, <1>13 DEF ExecInv

\* A loop takes its first closure.
LEMMA TakeTaskKeeps ==
  ASSUME ExecInv, NEW t \in TypeMask, TakeTask(t)
  PROVE  ExecInv'
<1>k. PICK k \in 1 .. 4 : t = HostThreads[k]
  BY HostForm
<1> DEFINE s == loop_tasks[t]
<1>1. /\ tpc[t] = "run" /\ s # <<>>
      /\ tpc' = [tpc EXCEPT ![t] = Head(s)]
      /\ loop_tasks' = [loop_tasks EXCEPT ![t] = Tail(s)]
      /\ UNCHANGED <<epc, at, runner, latch, task_runner, tls_message_loop, ran>>
  BY DEF TakeTask
<1>2. s \in Seq(Closures) /\ t \in LoopThreads
  BY DEF ExecInv, ExecTypes, LoopThreads
<1> DEFINE x == Head(s)
           r == Tail(s)
<1>3. /\ x = s[1] /\ 1 \in DOMAIN s /\ r \in Seq(Closures)
      /\ \A j \in DOMAIN r : j + 1 \in DOMAIN s /\ r[j] = s[j + 1]
      /\ Len(s) = Len(r) + 1 /\ Len(r) \in Nat /\ DOMAIN r = 1 .. Len(r)
      /\ r # <<>> <=> Len(r) # 0
  <2> HIDE DEF s
  <2>1. x = s[1] /\ 1 \in DOMAIN s /\ r \in Seq(Closures)
    BY <1>1, <1>2
  <2>2. Len(s) = Len(r) + 1 /\ Len(r) \in Nat /\ DOMAIN r = 1 .. Len(r)
    BY <1>1, <1>2
  <2>3. \A j \in DOMAIN r : j + 1 \in DOMAIN s /\ r[j] = s[j + 1]
    BY <1>1, <1>2
  <2>4. r # <<>> <=> Len(r) # 0
    <3> HIDE DEF r
    <3>1. QED
      BY <2>1
  <2>5. QED
    BY <2>1, <2>2, <2>3, <2>4
<1>4. \A j \in DOMAIN s : s[j] # Terminate_ => t = "IO" /\ s[j] \in DiskTasks
  BY DEF ExecInv, Contents
<1> HIDE DEF s, x, r
<1>5. x \in DiskTasks \cup {Terminate_} /\ (x \in DiskTasks => t = "IO")
  BY <1>3, <1>4, LabelsDiffer
<1>6. /\ ExecTypes'
      /\ \A u \in TypeMask : /\ tpc'[u] = IF u = t THEN x ELSE tpc[u]
                             /\ loop_tasks'[u] = IF u = t THEN r ELSE loop_tasks[u]
      /\ loop_tasks'[Main] = loop_tasks[Main]
  BY <1>1, <1>2, <1>3, <1>5, HostForm DEF ExecInv, ExecTypes, LoopThreads, x, r
<1>7. MainInStep' /\ RanInPlace'
  BY <1>1 DEF ExecInv, MainInStep, RanInPlace
<1>8. Contents'
  BY <1>1, <1>3, <1>4, <1>5, <1>6 DEF ExecInv, Contents
<1>9. InTurn(k)
  BY DEF ExecInv, AllInTurn
<1>10. ~Absent(t) /\ ~Starting(t)
  BY <1>1 DEF Absent, Starting, s
<1>11. Serving(t) => Serving(t)'
  <2> SUFFICES ASSUME Serving(t) PROVE Serving(t)'
    OBVIOUS
  <2>1. \A j \in DOMAIN s : s[j] # Terminate_
    BY DEF Serving, s
  <2>2. x \in DiskTasks /\ \A j \in DOMAIN r : r[j] # Terminate_
    BY <1>3, <1>5, <2>1
  <2>3. QED
    BY <1>1, <1>6, <2>2 DEF Serving
<1>12. Ending(t) => Ending(t)'
  <2> SUFFICES ASSUME Ending(t) PROVE Ending(t)'
    OBVIOUS
  <2>1. \A j \in DOMAIN s : s[j] = Terminate_ <=> j = Len(s)
    BY <1>1 DEF Ending, s
  <2>2. CASE Len(r) = 0
    <3>1. x = Terminate_ /\ r = <<>>
      BY <1>3, <2>1, <2>2
    <3>2. QED
      BY <1>6, <3>1 DEF Ending
  <2>3. CASE Len(r) # 0
    <3>1. x # Terminate_
      BY <1>3, <2>1, <2>3
    <3>2. x \in DiskTasks /\ r # <<>>
      BY <1>3, <1>5, <2>3, <3>1
    <3>3. \A j \in DOMAIN r : r[j] = Terminate_ <=> j = Len(r)
      BY <1>3, <2>1
    <3>4. QED
      BY <1>6, <3>2, <3>3 DEF Ending
  <2>4. QED
    BY <2>2, <2>3
<1>13. InTurn(k)'
  BY <1>k, <1>1, <1>9, <1>10, <1>11, <1>12 DEF InTurn, ExecInv, ExecTypes, MainInStep
<1>14. \A u \in TypeMask : u # HostThreads[k] => Untouched(u)
  BY <1>k, <1>1, <1>6 DEF Untouched
<1>15. AllInTurn'
  BY <1>1, <1>13, <1>14, OneAtATime
<1>16. QED
  BY <1>6, <1>7, <1>8, <1>15 DEF ExecInv

\* A closure has run: a loop goes on, unless it was told to terminate.
LEMMA TaskEndsKeeps ==
  ASSUME ExecInv, NEW t \in TypeMask, TaskEnds(t)
  PROVE  ExecInv'
<1>k. PICK k \in 1 .. 4 : t = HostThreads[k]
  BY HostForm
<1>1. /\ tpc' = [tpc EXCEPT ![t] = IF tpc[t] = Terminate_ THEN "last" ELSE "run"]
      /\ ran' = ran \cup ({<<tpc[t], t>>} \ {<<Terminate_, t>>})
      /\ UNCHANGED <<epc, at, runner, latch, task_runner, tls_message_loop, loop_tasks>>
  BY DEF TaskEnds
<1>2. tpc[t] \in DiskTasks \cup {Terminate_}
  <2>1. tpc[t] \in DiskTasks \cup MainTasks \cup {Terminate_}
    BY DEF TaskEnds
  <2>2. tpc[t] \in Places \cup DiskTasks \cup {Terminate_}
    BY DEF ExecInv, ExecTypes
  <2>3. QED
    BY <2>1, <2>2, LabelsDiffer
<1>3. PICK p \in {"last", "run"} :
        /\ tpc' = [tpc EXCEPT ![t] = p]
        /\ p = "last" <=> tpc[t] = Terminate_
  BY <1>1
<1>4. /\ ExecTypes'
      /\ \A u \in TypeMask : tpc'[u] = IF u = t THEN p ELSE tpc[u]
  BY <1>1, <1>3 DEF ExecInv, ExecTypes, Places
<1>5. MainInStep'
  BY <1>1 DEF ExecInv, MainInStep
<1>6. RanInPlace'
  <2>1. CASE tpc[t] = Terminate_
    BY <1>1, <2>1 DEF ExecInv, RanInPlace
  <2>2. CASE tpc[t] \in DiskTasks
    <3>1. t = "IO"
      BY <2>2 DEF ExecInv, Contents
    <3>2. QED
      BY <1>1, <2>2, <3>1 DEF ExecInv, RanInPlace
  <2>3. QED
    BY <1>2, <2>1, <2>2
<1>7. Contents'
  BY <1>1, <1>3, <1>4, LabelsDiffer DEF ExecInv, Contents, Places
<1>8. tpc[t] \notin Places
  BY <1>2, LabelsDiffer
<1>9. InTurn(k) /\ ~Absent(t) /\ ~Starting(t)
  BY <1>8 DEF ExecInv, AllInTurn, Absent, Starting, Places
<1>10. Serving(t) => Serving(t)'
  BY <1>1, <1>3, <1>4, LabelsDiffer DEF Serving, Places
<1>11. Ending(t) => Ending(t)'
  BY <1>1, <1>2, <1>3, <1>4, <1>8, LabelsDiffer DEF Ending, Places
<1>12. InTurn(k)'
  BY <1>k, <1>1, <1>9, <1>10, <1>11 DEF InTurn, ExecInv, ExecTypes, MainInStep
<1>13. \A u \in TypeMask : u # HostThreads[k] => Untouched(u)
  BY <1>k, <1>1, <1>4 DEF Untouched
<1>14. AllInTurn'
  BY <1>1, <1>12, <1>13, OneAtATime
<1>15. QED
  BY <1>4, <1>5, <1>6, <1>7, <1>14 DEF ExecInv

\* A loop that was told to terminate is empty, and the main thread joins it.
LEMMA LoopEndsKeeps ==
  ASSUME ExecInv, NEW t \in TypeMask, LoopEnds(t)
  PROVE  ExecInv'
<1>k. PICK k \in 1 .. 4 : t = HostThreads[k]
  BY HostForm
<1>1. /\ tpc[t] = "last" /\ loop_tasks[t] = <<>>
      /\ tpc' = [tpc EXCEPT ![t] = "ended"]
      /\ tls_message_loop' = tls_message_loop \ {t}
      /\ UNCHANGED <<epc, at, runner, latch, task_runner, loop_tasks, ran>>
  BY DEF LoopEnds
<1>2. InTurn(k)
  BY DEF ExecInv, AllInTurn
<1>3. ~Absent(t) /\ ~Serving(t) /\ ~Starting(t)
  BY <1>1, LabelsDiffer DEF Absent, Serving, Starting, Places
<1>4. k = at /\ epc = "joining"
  BY <1>k, <1>2, <1>3 DEF ExecInv, ExecTypes, MainInStep, InTurn
<1>5. /\ ExecTypes'
      /\ \A u \in TypeMask : tpc'[u] = IF u = t THEN "ended" ELSE tpc[u]
  BY <1>1 DEF ExecInv, ExecTypes, Places
<1>6. MainInStep' /\ RanInPlace'
  BY <1>1 DEF ExecInv, MainInStep, RanInPlace
<1>7. Contents'
  BY <1>1, <1>5, LabelsDiffer DEF ExecInv, Contents, Places
<1>8. Ending(t)'
  BY <1>1, <1>5 DEF Ending
<1>9. InTurn(k)'
  BY <1>k, <1>1, <1>4, <1>8 DEF InTurn
<1>10. \A u \in TypeMask : u # HostThreads[k] => Untouched(u)
  BY <1>k, <1>1, <1>5 DEF Untouched
<1>11. AllInTurn'
  BY <1>1, <1>4, <1>9, <1>10, OneAtATime
<1>12. QED
  BY <1>5, <1>6, <1>7, <1>11 DEF ExecInv

\* The invariant is inductive.
LEMMA ExecInvNext == ExecInv /\ [ExecNext]_execVars => ExecInv'
<1> SUFFICES ASSUME ExecInv, [ExecNext]_execVars PROVE ExecInv'
  OBVIOUS
<1>1. CASE UNCHANGED execVars
  BY <1>1 DEF execVars, ExecInv, ExecTypes, MainInStep, Contents, AllInTurn, InTurn,
       Absent, Starting, Serving, Ending, RanInPlace
<1>2. CASE MainWorks
  BY <1>2, CreateThreadKeeps, ThreadCreatedKeeps, ExecutorCreatedKeeps, ThreadJoinedKeeps
     DEF MainWorks
<1>3. CASE JoinThread
  BY <1>3, JoinThreadKeeps
<1>4. CASE MainRunsTask \/ \E task \in MainTasks : PostToMainThread(task)
  BY <1>4, MainLoopKeeps
<1>5. CASE \E task \in DiskTasks : ExecuteOnDiskIO(task)
  BY <1>5, ExecuteOnDiskIOKeeps
<1>6. ASSUME NEW t \in TypeMask, ThreadStep(t) PROVE ExecInv'
  BY <1>6, StartKeeps, TakeTaskKeeps, TaskEndsKeeps, LoopEndsKeeps DEF ThreadStep
<1>7. QED
  BY <1>1, <1>2, <1>3, <1>4, <1>5, <1>6 DEF ExecNext

\* What the invariant says of an executor.
LEMMA InvInPlace == ExecInv => ExecutorInPlace
<1> SUFFICES ASSUME ExecInv PROVE ExecutorInPlace
  OBVIOUS
<1>1. ASSUME epc = "use", NEW t \in TypeMask
      PROVE  task_runner[t] = t /\ t \in tls_message_loop
  <2>1. PICK i \in 1 .. 4 : HostThreads[i] = t
    BY HostForm
  <2>2. at = 4 /\ InTurn(i)
    BY <1>1 DEF ExecInv, MainInStep, AllInTurn
  <2>3. Serving(t)
    BY <1>1, <2>1, <2>2 DEF InTurn
  <2>4. QED
    BY <2>3 DEF Serving
<1>2. ASSUME NEW t \in TypeMask, tpc[t] \in {"last", "ended", "none"}
      PROVE  loop_tasks[t] = <<>>
  <2>1. PICK i \in 1 .. 4 : HostThreads[i] = t
    BY HostForm
  <2>2. InTurn(i)
    BY DEF ExecInv, AllInTurn
  <2>3. tpc[t] \notin {"run"} \cup DiskTasks
    BY <1>2, LabelsDiffer DEF Places
  <2>4. Absent(t) \/ Starting(t) \/ Serving(t) \/ Ending(t)
    BY <2>1, <2>2 DEF InTurn, ExecInv, ExecTypes, MainInStep
  <2>5. QED
    BY <2>3, <2>4 DEF Absent, Starting, Serving, Ending
<1>3. RanInPlace
  BY DEF ExecInv
<1>4. QED
  BY <1>1, <1>2, <1>3 DEF ExecutorInPlace, RanInPlace

\* For any closures and any number of executors: the executor that is used has a
\* runner and a loop for every thread of its host, closures run on the thread they
\* are for, and a thread that ends leaves nothing in its loop, for ~Thread posts
\* what terminates it after all the rest.
THEOREM ExecutorStaysInPlace == ExecSpec => []ExecutorInPlace
<1>1. ExecSpec => []ExecInv
  BY ExecInvInit, ExecInvNext, PTL DEF ExecSpec
<1>2. QED
  BY <1>1, InvInPlace, PTL
=============================================================================
