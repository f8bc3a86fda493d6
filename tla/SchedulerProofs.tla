-------------------------- MODULE SchedulerProofs ---------------------------
(* No function pushed into ALooperScheduler is forgotten, and no callback    *)
(* runs into its destructor, for any number of threads and functions, any    *)
(* capacity of the pipe and any number of bytes read at once; and the        *)
(* conversions of TimeDelta, TimePoint and the timer, for every duration and *)
(* every ratio of the units.                                                 *)
EXTENDS LooperScheduler, TimeTypes, TLAPS

\* Where a thread is in invoke, in the destructor and in the callback.
Invoking == {"init", "store", "push", "notify"}
Destroying == {"remove", "forget", "done"}
CallingBack == {"read", "run", "release"}

\* The state is well formed.
QueueTypes ==
    /\ pipes \in SUBSET Invokers
    /\ bytes \in [Invokers -> Nat]
    /\ m_message_pipe \in Invokers \cup {NoPipe}

\* So are the threads.
ThreadTypes ==
    /\ ipc \in [Callers -> [at : {"idle"} \cup Invoking \cup Destroying,
                            fn : Functions \cup {NoFunction}]]
    /\ cb \in [at : {"idle", "thrown"} \cup CallingBack, fd : Invokers \cup {NoPipe}]

\* Who invokes is one of the invokers and keeps its reference meanwhile.
InvokersHold ==
    \A t \in Callers : ipc[t].at \in Invoking => t \in Invokers /\ t \in holders

\* The destructor runs when nobody holds the scheduler.
DestroyedUnheld ==
    \A t \in Callers : ipc[t].at \in Destroying => holders = {}

\* The callback holds the scheduler while it works, and has found it in the list.
CallbackHolds ==
    cb.at \in CallingBack => Looper \in holders /\ s_live_schedulers = TRUE

\* As long as somebody holds the scheduler, the looper watches the pipe that is
\* stored and the pipe that is about to be.
PipesWatched ==
    /\ holders # {} /\ m_message_pipe # NoPipe => m_message_pipe \in pipes
    /\ \A t \in Invokers : ipc[t].at = "store" => t \in pipes

\* Something will have f run: its thread is about to notify, a pipe has a byte,
\* or the callback is about to run the queue.
Awaited(f) ==
    \/ \E t \in Invokers : ipc[t].at = "notify" /\ ipc[t].fn = f
    \/ \E fd \in pipes : bytes[fd] > 0
    \/ cb.at = "run"

\* No function is forgotten.
NoneForgotten == holders # {} => \A f \in m_queue : f \notin threw => Awaited(f)

\* The inductive invariant.
SchedInv ==
    /\ QueueTypes /\ ThreadTypes
    /\ InvokersHold /\ DestroyedUnheld /\ CallbackHolds /\ PipesWatched
    /\ NoneForgotten

-----------------------------------------------------------------------------
\* Thread t goes to label, and nothing else changes about the threads.
Goes(t, label) ==
    /\ ThreadTypes'
    /\ \A u \in Callers : /\ u # t => ipc'[u] = ipc[u]
                          /\ u = t => ipc'[u].at = label

\* What Continue does to each thread.
LEMMA ContinueForm ==
  ASSUME ThreadTypes, UNCHANGED cb, NEW t \in Callers,
         NEW label \in {"idle"} \cup Invoking \cup Destroying, Continue(t, label)
  PROVE  Goes(t, label) /\ ipc'[t].fn = ipc[t].fn
<1>1. ipc' = [ipc EXCEPT ![t] = [ipc[t] EXCEPT !.at = label]]
  BY DEF Continue
<1>2. ipc[t] \in [at : {"idle"} \cup Invoking \cup Destroying, fn : Functions \cup {NoFunction}]
  BY DEF ThreadTypes
<1> DEFINE r == [ipc[t] EXCEPT !.at = label]
<1>3. /\ r \in [at : {"idle"} \cup Invoking \cup Destroying, fn : Functions \cup {NoFunction}]
      /\ r.at = label /\ r.fn = ipc[t].fn
  BY <1>2
<1> HIDE DEF r
<1>4. ipc' = [ipc EXCEPT ![t] = r]
  BY <1>1 DEF r
<1>5. QED
  BY <1>3, <1>4 DEF Goes, ThreadTypes

\* The scheduler as created.
LEMMA SchedInvInit == SchedInit => SchedInv
<1> SUFFICES ASSUME SchedInit PROVE SchedInv
  OBVIOUS
<1>1. \A t \in Callers : ipc[t] = AtRest
  BY DEF SchedInit
<1>2. QueueTypes /\ ThreadTypes
  BY DEF SchedInit, QueueTypes, ThreadTypes, AtRest, CallbackAtRest
<1>3. \A t \in Callers : ipc[t].at = "idle"
  BY <1>1 DEF AtRest
<1>4. InvokersHold /\ DestroyedUnheld /\ PipesWatched
  BY <1>3 DEF SchedInit, InvokersHold, DestroyedUnheld, PipesWatched, Invoking, Destroying,
              Callers
<1>5. CallbackHolds /\ NoneForgotten
  BY DEF SchedInit, CallbackHolds, NoneForgotten, CallbackAtRest, CallingBack
<1>6. QED
  BY <1>2, <1>4, <1>5 DEF SchedInv

\* invoke begins: the thread holds the scheduler.
LEMMA InvokeKeeps ==
  ASSUME SchedInv, NEW t \in Invokers, NEW fn \in Functions, Invoke(t, fn)
  PROVE  SchedInv'
<1> DEFINE r == [at |-> IF m_initialized THEN "push" ELSE "init", fn |-> fn]
<1>0. ipc' = [ipc EXCEPT ![t] = r]
  BY DEF Invoke
<1>1. /\ r \in [at : {"init", "push"}, fn : Functions] /\ r.at \in {"init", "push"}
      /\ ipc' = [ipc EXCEPT ![t] = r]
  BY <1>0
<1> HIDE DEF r
<1>2. ThreadTypes'
  BY <1>1 DEF SchedInv, ThreadTypes, Invoke, Invoking, Destroying, Callers
<1>3. t \in Callers /\ ipc[t].at = "idle" /\ t \in holders /\ t \in Invokers
  BY DEF Invoke, AtRest, Callers
<1>4. \A u \in Callers : /\ u # t => ipc'[u] = ipc[u]
                         /\ u = t => ipc'[u].at \in {"init", "push"}
  BY <1>1 DEF SchedInv, ThreadTypes
<1>5. UNCHANGED <<m_queue, threw, pipes, bytes, m_message_pipe, holders, s_live_schedulers, cb>>
  BY DEF Invoke, queueVars, pipeVars, lifeVars
<1>6. QueueTypes' /\ CallbackHolds'
  BY <1>5 DEF SchedInv, QueueTypes, CallbackHolds
<1>7. InvokersHold' /\ DestroyedUnheld'
  BY <1>3, <1>4, <1>5 DEF SchedInv, InvokersHold, DestroyedUnheld, Invoking, Destroying
<1>8. PipesWatched'
  BY <1>3, <1>4, <1>5 DEF SchedInv, PipesWatched, Callers
<1>9. NoneForgotten'
  BY <1>3, <1>4, <1>5 DEF SchedInv, NoneForgotten, Awaited, Callers
<1>10. QED
  BY <1>2, <1>6, <1>7, <1>8, <1>9 DEF SchedInv

\* init: the pipe is watched before it is stored.
LEMMA InitKeeps ==
  ASSUME SchedInv, NEW t \in Invokers, InitScheduler(t)
  PROVE  SchedInv'
<1>1. PICK label \in {"push", "store"} : /\ Continue(t, label)
                                         /\ label = "store" => t \in pipes'
                                         /\ pipes' \in {pipes, pipes \cup {t}}
  BY DEF InitScheduler
<1>2. /\ UNCHANGED <<m_queue, threw, bytes, m_message_pipe, holders, cb>>
      /\ s_live_schedulers' = TRUE
  BY DEF InitScheduler, queueVars
<1>3. t \in Callers /\ ipc[t].at = "init"
  BY DEF InitScheduler, Callers
<1>4. Goes(t, label)
  BY <1>1, <1>2, <1>3, ContinueForm DEF SchedInv, Invoking
<1>5. QueueTypes' /\ CallbackHolds'
  BY <1>1, <1>2 DEF SchedInv, QueueTypes, CallbackHolds
<1>6. InvokersHold' /\ DestroyedUnheld'
  BY <1>1, <1>2, <1>3, <1>4
     DEF SchedInv, InvokersHold, DestroyedUnheld, Invoking, Destroying, Goes
<1>7. PipesWatched'
  BY <1>1, <1>2, <1>3, <1>4 DEF SchedInv, PipesWatched, Callers, Goes
<1>8. NoneForgotten'
  BY <1>1, <1>2, <1>3, <1>4 DEF SchedInv, NoneForgotten, Awaited, Callers, Goes
<1>9. QED
  BY <1>4, <1>5, <1>6, <1>7, <1>8 DEF SchedInv, Goes

\* The end of init: the stored pipe is one that is watched.
LEMMA StorePipeKeeps ==
  ASSUME SchedInv, NEW t \in Invokers, StorePipe(t)
  PROVE  SchedInv'
<1>1. /\ UNCHANGED <<m_queue, threw, pipes, bytes, holders, s_live_schedulers, cb>>
      /\ m_message_pipe' = t /\ Continue(t, "push")
  BY DEF StorePipe, queueVars, lifeVars
<1>2. t \in Callers /\ ipc[t].at = "store"
  BY DEF StorePipe, Callers
<1>3. Goes(t, "push")
  BY <1>1, <1>2, ContinueForm DEF SchedInv, Invoking
<1>4. QueueTypes' /\ CallbackHolds'
  BY <1>1 DEF SchedInv, QueueTypes, CallbackHolds
<1>5. InvokersHold' /\ DestroyedUnheld'
  BY <1>1, <1>2, <1>3
     DEF SchedInv, InvokersHold, DestroyedUnheld, Invoking, Destroying, Goes
<1>6. PipesWatched'
  BY <1>1, <1>2, <1>3 DEF SchedInv, PipesWatched, Callers, Goes
<1>7. NoneForgotten'
  BY <1>1, <1>2, <1>3 DEF SchedInv, NoneForgotten, Awaited, Callers, Goes
<1>8. QED
  BY <1>3, <1>4, <1>5, <1>6, <1>7 DEF SchedInv, Goes

\* The function is in the queue, and its thread is about to notify.
LEMMA PushKeeps ==
  ASSUME SchedInv, NEW t \in Invokers, Push(t)
  PROVE  SchedInv'
<1>1. /\ UNCHANGED <<threw, pipes, bytes, m_message_pipe, holders, s_live_schedulers, cb>>
      /\ m_queue' = m_queue \cup {ipc[t].fn} /\ Continue(t, "notify")
  BY DEF Push, pipeVars, lifeVars
<1>2. t \in Callers /\ ipc[t].at = "push"
  BY DEF Push, Callers
<1>3. Goes(t, "notify") /\ ipc'[t].fn = ipc[t].fn
  BY <1>1, <1>2, ContinueForm DEF SchedInv, Invoking
<1>4. QueueTypes' /\ CallbackHolds'
  BY <1>1 DEF SchedInv, QueueTypes, CallbackHolds
<1>5. InvokersHold' /\ DestroyedUnheld'
  BY <1>1, <1>2, <1>3
     DEF SchedInv, InvokersHold, DestroyedUnheld, Invoking, Destroying, Goes
<1>6. PipesWatched'
  BY <1>1, <1>2, <1>3 DEF SchedInv, PipesWatched, Callers, Goes
<1>7. NoneForgotten'
  <2>1. ASSUME NEW f, Awaited(f) PROVE Awaited(f)'
    BY <1>1, <1>2, <1>3, <2>1 DEF Awaited, Callers, Goes
  <2>2. ASSUME NEW f, f = ipc[t].fn PROVE Awaited(f)'
    <3>1. ipc'[t].at = "notify" /\ ipc'[t].fn = f
      BY <1>2, <1>3, <2>2 DEF Goes
    <3>2. QED
      BY <3>1 DEF Awaited
  <2>3. QED
    BY <1>1, <2>1, <2>2 DEF SchedInv, NoneForgotten
<1>8. QED
  BY <1>3, <1>4, <1>5, <1>6, <1>7 DEF SchedInv, Goes

\* notify_fd: a byte is in the stored pipe afterwards, even in a full one; with
\* no pipe invoke has thrown.
LEMMA NotifyKeeps ==
  ASSUME SchedInv, NEW t \in Invokers, Notify(t)
  PROVE  SchedInv'
<1>1. /\ UNCHANGED <<m_queue, pipes, m_message_pipe, holders, s_live_schedulers, cb>>
      /\ ipc' = [ipc EXCEPT ![t] = AtRest]
  BY DEF Notify, lifeVars
<1>2. t \in Callers /\ ipc[t].at = "notify" /\ t \in holders
  BY DEF Notify, Callers, SchedInv, InvokersHold, Invoking
<1>3. AtRest \in [at : {"idle"}, fn : {NoFunction}] /\ AtRest.at = "idle"
  BY DEF AtRest
<1>4. Goes(t, "idle")
  BY <1>1, <1>2, <1>3 DEF SchedInv, ThreadTypes, Goes
<1>5. ASSUME m_message_pipe = NoPipe PROVE QueueTypes' /\ NoneForgotten'
  <2>1. bytes' = bytes /\ threw' = threw \cup {ipc[t].fn}
    BY <1>5 DEF Notify
  <2>2. QueueTypes'
    BY <1>1, <2>1 DEF SchedInv, QueueTypes
  <2>3. ASSUME NEW f, f # ipc[t].fn, Awaited(f) PROVE Awaited(f)'
    BY <1>1, <1>2, <1>4, <2>1, <2>3 DEF Awaited, Callers, Goes
  <2>4. NoneForgotten'
    BY <1>1, <2>1, <2>3 DEF SchedInv, NoneForgotten
  <2>5. QED
    BY <2>2, <2>4
<1>6. ASSUME m_message_pipe # NoPipe PROVE QueueTypes' /\ NoneForgotten'
  <2>1. /\ m_message_pipe \in pipes /\ m_message_pipe \in Invokers
        /\ bytes[m_message_pipe] \in Nat
    BY <1>2, <1>6 DEF SchedInv, PipesWatched, QueueTypes
  <2>2. PICK n \in Nat : n > 0 /\ bytes' = [bytes EXCEPT ![m_message_pipe] = n]
    BY <1>6, <2>1, SchedulerAssumption DEF Notify
  <2>3. QueueTypes'
    BY <1>1, <2>2 DEF SchedInv, QueueTypes
  <2>4. \E fd \in pipes' : bytes'[fd] > 0
    BY <1>1, <2>1, <2>2 DEF SchedInv, QueueTypes
  <2>5. ASSUME NEW f PROVE Awaited(f)'
    BY <2>4 DEF Awaited
  <2>6. NoneForgotten'
    BY <2>5 DEF NoneForgotten
  <2>7. QED
    BY <2>3, <2>6
<1>7. QueueTypes' /\ NoneForgotten'
  BY <1>5, <1>6
<1>8. InvokersHold' /\ DestroyedUnheld'
  BY <1>1, <1>2, <1>4
     DEF SchedInv, InvokersHold, DestroyedUnheld, Invoking, Destroying, Goes
<1>9. PipesWatched' /\ CallbackHolds'
  BY <1>1, <1>2, <1>4 DEF SchedInv, PipesWatched, CallbackHolds, Callers, Goes
<1>10. QED
  BY <1>4, <1>7, <1>8, <1>9 DEF SchedInv, Goes

\* The looper calls back: the reference is taken from somebody who holds one.
LEMMA LooperCallbackKeeps ==
  ASSUME SchedInv, NEW fd \in Invokers, LooperCallback(fd)
  PROVE  SchedInv'
<1>1. UNCHANGED <<m_queue, threw, pipes, bytes, m_message_pipe, s_live_schedulers, ipc>>
  BY DEF LooperCallback, queueVars, pipeVars
<1>2. cb.at = "idle"
  BY DEF LooperCallback, CallbackAtRest
<1>3. CASE s_live_schedulers /\ holders # {} /\ holders' = holders \cup {Looper}
           /\ cb' = [at |-> "read", fd |-> fd]
  <2>1. /\ cb' \in [at : {"idle", "thrown"} \cup CallingBack, fd : Invokers \cup {NoPipe}]
        /\ cb'.at = "read"
    BY <1>3 DEF CallingBack
  <2>2. s_live_schedulers' = TRUE
    BY <1>3 DEF LooperCallback
  <2>3. QueueTypes' /\ ThreadTypes'
    BY <1>1, <2>1 DEF SchedInv, QueueTypes, ThreadTypes
  <2>4. InvokersHold' /\ DestroyedUnheld' /\ PipesWatched'
    BY <1>1, <1>3 DEF SchedInv, InvokersHold, DestroyedUnheld, PipesWatched
  <2>5. CallbackHolds'
    BY <1>3, <2>2 DEF CallbackHolds
  <2>6. NoneForgotten'
    BY <1>1, <1>2, <1>3, <2>1 DEF SchedInv, NoneForgotten, Awaited
  <2>7. QED
    BY <2>3, <2>4, <2>5, <2>6 DEF SchedInv
<1>4. CASE holders' = holders /\ (cb' = cb \/ cb' = [cb EXCEPT !.at = "thrown"])
  <2>1. /\ cb' \in [at : {"idle", "thrown"} \cup CallingBack, fd : Invokers \cup {NoPipe}]
        /\ cb'.at \in {"idle", "thrown"}
    BY <1>2, <1>4 DEF SchedInv, ThreadTypes
  <2>2. QueueTypes' /\ ThreadTypes'
    BY <1>1, <2>1 DEF SchedInv, QueueTypes, ThreadTypes
  <2>3. InvokersHold' /\ DestroyedUnheld' /\ PipesWatched'
    BY <1>1, <1>4 DEF SchedInv, InvokersHold, DestroyedUnheld, PipesWatched
  <2>4. CallbackHolds'
    BY <2>1 DEF CallbackHolds, CallingBack
  <2>5. NoneForgotten'
    BY <1>1, <1>2, <1>4, <2>1 DEF SchedInv, NoneForgotten, Awaited
  <2>6. QED
    BY <2>2, <2>3, <2>4, <2>5 DEF SchedInv
<1>5. QED
  BY <1>3, <1>4 DEF LooperCallback

\* The callback clears bytes, and is about to run the queue.
LEMMA ReadPipeKeeps == SchedInv /\ ReadPipe => SchedInv'
<1> SUFFICES ASSUME SchedInv, ReadPipe PROVE SchedInv'
  OBVIOUS
<1>1. /\ UNCHANGED <<m_queue, threw, pipes, m_message_pipe, holders, s_live_schedulers, ipc>>
      /\ cb' = [cb EXCEPT !.at = "run"] /\ cb.at = "read"
  BY DEF ReadPipe, queueVars, lifeVars
<1>2. ThreadTypes' /\ cb'.at = "run"
  BY <1>1 DEF SchedInv, ThreadTypes, CallingBack
<1>3. QueueTypes'
  <2>1. bytes' = [bytes EXCEPT ![cb.fd] =
                    IF bytes[cb.fd] > ReadSize THEN bytes[cb.fd] - ReadSize ELSE 0]
    BY DEF ReadPipe
  <2>2. ASSUME NEW u \in Invokers PROVE bytes'[u] \in Nat
    <3>1. bytes[u] \in Nat /\ ReadSize \in Nat
      BY SchedulerAssumption DEF SchedInv, QueueTypes
    <3>2. bytes'[u] \in {bytes[u], 0} \/ (bytes[u] > ReadSize /\ bytes'[u] = bytes[u] - ReadSize)
      BY <2>1 DEF SchedInv, QueueTypes
    <3>3. QED
      BY <3>1, <3>2
  <2>3. bytes' = [u \in Invokers |-> bytes'[u]]
    BY <2>1 DEF SchedInv, QueueTypes
  <2>4. QED
    BY <1>1, <2>2, <2>3 DEF SchedInv, QueueTypes
<1>4. InvokersHold' /\ DestroyedUnheld' /\ PipesWatched'
  BY <1>1 DEF SchedInv, InvokersHold, DestroyedUnheld, PipesWatched
<1>5. CallbackHolds'
  BY <1>1 DEF SchedInv, CallbackHolds, CallingBack
<1>6. NoneForgotten'
  BY <1>2 DEF NoneForgotten, Awaited
<1>7. QED
  BY <1>2, <1>3, <1>4, <1>5, <1>6 DEF SchedInv

\* The queue is run, and empty.
LEMMA InvokeAllKeeps == SchedInv /\ InvokeAll => SchedInv'
<1> SUFFICES ASSUME SchedInv, InvokeAll PROVE SchedInv'
  OBVIOUS
<1>1. /\ UNCHANGED <<threw, pipes, bytes, m_message_pipe, holders, s_live_schedulers, ipc>>
      /\ cb' = [cb EXCEPT !.at = "release"] /\ cb.at = "run" /\ m_queue' = {}
  BY DEF InvokeAll, pipeVars, lifeVars
<1>2. QueueTypes' /\ ThreadTypes'
  BY <1>1 DEF SchedInv, QueueTypes, ThreadTypes, CallingBack
<1>3. InvokersHold' /\ DestroyedUnheld' /\ PipesWatched'
  BY <1>1 DEF SchedInv, InvokersHold, DestroyedUnheld, PipesWatched
<1>4. CallbackHolds'
  BY <1>1 DEF SchedInv, CallbackHolds, CallingBack
<1>5. NoneForgotten'
  BY <1>1 DEF NoneForgotten
<1>6. QED
  BY <1>2, <1>3, <1>4, <1>5 DEF SchedInv

\* Thread t drops its reference: it is not invoking, and begins the destructor
\* only when its reference was the last one.
LEMMA LastReference ==
  ASSUME SchedInv, NEW t \in Callers, t \in holders, ipc[t].at \notin Invoking,
         holders' = holders \ {t},
         ipc' = IF holders = {t} THEN [ipc EXCEPT ![t].at = "remove"] ELSE ipc,
         cb' \in [at : {"idle", "thrown"} \cup CallingBack, fd : Invokers \cup {NoPipe}],
         cb.at = "run" => cb'.at = "run", cb'.at \in CallingBack => CallbackHolds',
         UNCHANGED <<m_queue, threw, pipes, bytes, m_message_pipe, s_live_schedulers>>
  PROVE  SchedInv'
<1>0. CallbackHolds'
  BY DEF CallbackHolds
<1>1. QueueTypes'
  BY DEF SchedInv, QueueTypes
<1>2. CASE holders = {t}
  <2>1. holders' = {}
    BY <1>2
  <2>2. ipc' = [ipc EXCEPT ![t] = [ipc[t] EXCEPT !.at = "remove"]]
    BY <1>2
  <2> DEFINE r == [ipc[t] EXCEPT !.at = "remove"]
  <2>3. /\ r \in [at : {"idle"} \cup Invoking \cup Destroying, fn : Functions \cup {NoFunction}]
        /\ r.at = "remove"
    BY DEF SchedInv, ThreadTypes, Destroying
  <2> HIDE DEF r
  <2>4. ipc' = [ipc EXCEPT ![t] = r]
    BY <2>2 DEF r
  <2>5. ThreadTypes'
    BY <2>3, <2>4 DEF SchedInv, ThreadTypes
  <2>6. \A u \in Callers : ipc'[u].at = IF u = t THEN "remove" ELSE ipc[u].at
    BY <2>3, <2>4 DEF SchedInv, ThreadTypes
  <2>7. InvokersHold'
    BY <1>2, <2>6 DEF SchedInv, InvokersHold, Invoking
  <2>8. DestroyedUnheld' /\ NoneForgotten'
    BY <2>1 DEF DestroyedUnheld, NoneForgotten
  <2>9. PipesWatched'
    BY <2>1, <2>6 DEF SchedInv, PipesWatched, Callers
  <2>10. QED
    BY <1>0, <1>1, <2>5, <2>7, <2>8, <2>9 DEF SchedInv
<1>3. CASE holders # {t}
  <2>1. ipc' = ipc
    BY <1>3
  <2>2. ThreadTypes'
    BY <2>1 DEF SchedInv, ThreadTypes
  <2>3. InvokersHold'
    BY <2>1 DEF SchedInv, InvokersHold
  <2>4. DestroyedUnheld'
    BY <2>1 DEF SchedInv, DestroyedUnheld
  <2>5. PipesWatched' /\ NoneForgotten'
    BY <2>1 DEF SchedInv, PipesWatched, NoneForgotten, Awaited
  <2>6. QED
    BY <1>0, <1>1, <2>2, <2>3, <2>4, <2>5 DEF SchedInv
<1>4. QED
  BY <1>2, <1>3

\* The callback returns.
LEMMA CallbackReturnsKeeps == SchedInv /\ CallbackReturns => SchedInv'
<1> SUFFICES ASSUME SchedInv, CallbackReturns PROVE SchedInv'
  OBVIOUS
<1>1. /\ UNCHANGED <<m_queue, threw, pipes, bytes, m_message_pipe, s_live_schedulers>>
      /\ cb.at = "release" /\ cb' = CallbackAtRest /\ holders' = holders \ {Looper}
      /\ ipc' = IF holders = {Looper} THEN [ipc EXCEPT ![Looper].at = "remove"] ELSE ipc
  BY DEF CallbackReturns, queueVars, pipeVars
<1>2. /\ cb' \in [at : {"idle", "thrown"} \cup CallingBack, fd : Invokers \cup {NoPipe}]
      /\ cb'.at = "idle"
  BY <1>1 DEF CallbackAtRest
<1>3. Looper \in Callers /\ Looper \in holders /\ ipc[Looper].at \notin Invoking
  BY <1>1, LooperAssumption DEF SchedInv, CallbackHolds, InvokersHold, CallingBack, Callers
<1>4. cb'.at \notin CallingBack
  BY <1>2 DEF CallingBack
<1>5. QED
  BY <1>1, <1>2, <1>3, <1>4, LastReference

\* An invoker drops its reference.
LEMMA DropSchedulerKeeps ==
  ASSUME SchedInv, NEW t \in Invokers, DropScheduler(t)
  PROVE  SchedInv'
<1>1. /\ UNCHANGED <<m_queue, threw, pipes, bytes, m_message_pipe, s_live_schedulers, cb>>
      /\ t \in holders /\ holders' = holders \ {t}
      /\ ipc' = IF holders = {t} THEN [ipc EXCEPT ![t].at = "remove"] ELSE ipc
  BY DEF DropScheduler, queueVars, pipeVars
<1>2. t \in Callers /\ t # Looper /\ ipc[t].at \notin Invoking
  BY LooperAssumption DEF DropScheduler, AtRest, Invoking, Callers
<1>3. CallbackHolds'
  BY <1>1, <1>2 DEF SchedInv, CallbackHolds
<1>4. cb' \in [at : {"idle", "thrown"} \cup CallingBack, fd : Invokers \cup {NoPipe}]
  BY <1>1 DEF SchedInv, ThreadTypes
<1>5. QED
  BY <1>1, <1>2, <1>3, <1>4, LastReference

\* The steps of the destructor: nobody holds the scheduler, nobody calls back.
LEMMA DestructorKeeps ==
  ASSUME SchedInv, NEW t \in Callers, RemovePipe(t) \/ ForgetScheduler(t)
  PROVE  SchedInv'
<1>1. PICK label \in Destroying : Continue(t, label)
  BY DEF RemovePipe, ForgetScheduler, Continue, Destroying
<1>2. /\ UNCHANGED <<bytes, m_message_pipe, holders, cb>>
      /\ pipes' \in SUBSET pipes
  BY DEF RemovePipe, ForgetScheduler, queueVars, pipeVars, lifeVars
<1>3. ipc[t].at \in Destroying
  BY DEF RemovePipe, ForgetScheduler, Destroying
<1>4. holders = {} /\ holders' = {}
  BY <1>2, <1>3 DEF SchedInv, DestroyedUnheld
<1>5. cb.at \notin CallingBack /\ \A u \in Callers : ipc[u].at \notin Invoking
  BY <1>4 DEF SchedInv, CallbackHolds, InvokersHold
<1>6. Goes(t, label)
  BY <1>1, <1>2, ContinueForm DEF SchedInv
<1>7. QueueTypes'
  BY <1>2 DEF SchedInv, QueueTypes
<1>8. \A u \in Callers : ipc'[u].at \notin Invoking
  BY <1>5, <1>6 DEF Goes, Invoking, Destroying
<1>9. InvokersHold' /\ DestroyedUnheld' /\ NoneForgotten' /\ PipesWatched' /\ CallbackHolds'
  BY <1>2, <1>4, <1>5, <1>8
     DEF InvokersHold, DestroyedUnheld, NoneForgotten, PipesWatched, CallbackHolds, Invoking,
         Callers
<1>10. QED
  BY <1>6, <1>7, <1>9 DEF SchedInv, Goes

\* Every step keeps the invariant.
LEMMA SchedInvNext == SchedInv /\ [SchedNext]_schedVars => SchedInv'
<1> SUFFICES ASSUME SchedInv, [SchedNext]_schedVars PROVE SchedInv'
  OBVIOUS
<1>1. ASSUME NEW t \in Invokers,
             \/ \E fn \in Functions : Invoke(t, fn)
             \/ InitScheduler(t) \/ StorePipe(t) \/ Push(t) \/ Notify(t)
             \/ DropScheduler(t)
      PROVE  SchedInv'
  BY <1>1, InvokeKeeps, InitKeeps, StorePipeKeeps, PushKeeps, NotifyKeeps, DropSchedulerKeeps
<1>2. CASE UNCHANGED schedVars
  BY <1>2 DEF SchedInv, QueueTypes, ThreadTypes, InvokersHold, DestroyedUnheld, CallbackHolds,
              PipesWatched, NoneForgotten, Awaited, schedVars, queueVars, pipeVars, lifeVars
<1>3. QED
  BY <1>1, <1>2, DestructorKeeps, LooperCallbackKeeps, ReadPipeKeeps, InvokeAllKeeps,
     CallbackReturnsKeeps
     DEF SchedNext, SchedStep

\* A function that was pushed and notified is never forgotten, however the calls
\* of init race and bytes merge in the pipe, and no callback works on a scheduler
\* whose destructor has begun: scheduler.hpp.
THEOREM SchedulerAlwaysWakes == SchedSpec => []SchedulerWakes
<1>1. SchedSpec => []SchedInv
  BY SchedInvInit, SchedInvNext, PTL DEF SchedSpec
<1>2. SchedInv => SchedulerWakes
  <2> SUFFICES ASSUME SchedInv PROVE SchedulerWakes
    OBVIOUS
  <2>1. holders # {} =>
          \A f \in m_queue \ threw :
            \/ \E t \in Invokers : ipc[t].at = "notify" /\ ipc[t].fn = f
            \/ \E fd \in pipes : bytes[fd] > 0
            \/ cb.at = "run"
    BY DEF SchedInv, NoneForgotten, Awaited
  <2>2. cb.at \in CallingBack =>
          /\ s_live_schedulers
          /\ \A t \in Callers : ipc[t].at \notin Destroying
    BY DEF SchedInv, CallbackHolds, DestroyedUnheld
  <2>3. QED
    BY <2>1, <2>2 DEF SchedulerWakes, CallingBack, Destroying
<1>3. QED
  BY <1>1, <1>2, PTL

-----------------------------------------------------------------------------
(* Arithmetic                                                                *)

\* Multiplication by a factor that is not negative is monotonic.
LEMMA TimesMonotonic ==
  ASSUME NEW k \in Nat, NEW a \in Int, NEW b \in Int, a <= b
  PROVE  k * a <= k * b
<1>1. k * (b - a) >= 0
  OBVIOUS
<1>2. k * (b - a) = k * b - k * a
  OBVIOUS
<1>3. k * a \in Int /\ k * b \in Int
  OBVIOUS
<1>4. QED
  BY <1>1, <1>2, <1>3

\* Division with remainder.
LEMMA DivMod ==
  ASSUME NEW a \in Int, NEW b \in Nat, b > 0
  PROVE  /\ a \div b \in Int /\ a % b \in 0 .. b - 1
         /\ a = (b * (a \div b)) + (a % b)
  OBVIOUS

\* q is a divided by b, rounded towards zero: what of the multiple of b is left
\* is less than b and has the sign of a.
Divides(a, b, q) ==
    IF a >= 0 THEN b * q <= a /\ a < (b * q) + b
              ELSE b * q >= a /\ a > (b * q) - b

\* The division of C++ rounds towards zero.
LEMMA QuotientDivides ==
  ASSUME NEW a \in Int, NEW b \in Nat, b > 0
  PROVE  /\ Quotient(a, b) \in Int
         /\ Divides(a, b, Quotient(a, b))
         /\ a >= 0 => Quotient(a, b) >= 0
         /\ a < 0 => Quotient(a, b) <= 0
<1>1. CASE a >= 0
  <2> DEFINE q == a \div b
  <2>1. q \in Int /\ b * q <= a /\ a < (b * q) + b
    BY DivMod
  <2>2. q >= 0
    BY <1>1
  <2>3. Quotient(a, b) = q
    BY <1>1 DEF Quotient
  <2> HIDE DEF q
  <2>4. QED
    BY <1>1, <2>1, <2>2, <2>3 DEF Divides
<1>2. CASE a < 0
  <2> DEFINE q == (-a) \div b
  <2>1. q \in Int /\ b * q <= -a /\ -a < (b * q) + b
    BY DivMod
  <2>2. q >= 0
    BY <1>2
  <2>3. Quotient(a, b) = -q
    BY <1>2 DEF Quotient
  <2> HIDE DEF q
  <2>4. b * (-q) = -(b * q) /\ b * q \in Int
    BY <2>1
  <2>5. QED
    BY <1>2, <2>1, <2>2, <2>3, <2>4 DEF Divides
<1>3. QED
  BY <1>1, <1>2

\* There is one such number.
LEMMA QuotientUnique ==
  ASSUME NEW a \in Int, NEW b \in Nat, b > 0, NEW q \in Int, NEW r \in Int,
         Divides(a, b, q), Divides(a, b, r)
  PROVE  q = r
<1>1. ASSUME NEW x \in Int, NEW y \in Int, Divides(a, b, x), Divides(a, b, y), x < y
      PROVE  FALSE
  <2>1. b * (x + 1) <= b * y
    BY <1>1, TimesMonotonic
  <2>2. b * (x + 1) = (b * x) + b
    BY <1>1
  <2>3. b * x \in Int /\ b * y \in Int
    BY <1>1
  <2>4. QED
    BY <1>1, <2>1, <2>2, <2>3 DEF Divides
<1>2. QED
  BY <1>1

\* Dividing twice is dividing by the product: the units of TimeDelta are
\* computed from one another.
LEMMA QuotientTwice ==
  ASSUME NEW a \in Int, NEW b \in Nat, b > 0, NEW c \in Nat, c > 0,
         NEW q \in Int, Divides(a, b, q), a >= 0 => q >= 0, a < 0 => q <= 0,
         NEW r \in Int, Divides(q, c, r)
  PROVE  Divides(a, b * c, r)
<1>0. b * c \in Nat /\ c * r \in Int /\ b * (c * r) = (b * c) * r /\ b * q \in Int
      /\ (b * c) * r \in Int
  OBVIOUS
<1>1. CASE a >= 0
  <2>1. c * r <= q /\ q + 1 <= (c * r) + c
    BY <1>0, <1>1 DEF Divides
  <2>2. b * (c * r) <= b * q
    BY <1>0, <2>1, TimesMonotonic
  <2>3. b * (q + 1) <= b * ((c * r) + c)
    BY <1>0, <2>1, TimesMonotonic
  <2>4. b * (q + 1) = (b * q) + b /\ b * ((c * r) + c) = (b * (c * r)) + (b * c)
    BY <1>0
  <2>5. b * q <= a /\ a < (b * q) + b
    BY <1>1 DEF Divides
  <2>6. (b * c) * r <= a /\ a < ((b * c) * r) + (b * c)
    BY <1>0, <2>2, <2>3, <2>4, <2>5
  <2>7. QED
    BY <1>1, <2>6 DEF Divides
<1>2. CASE a < 0
  <2>1. c * r >= q /\ q - 1 >= (c * r) - c
    <3>1. CASE q = 0
      <4>1. r = 0
        <5>1. Divides(q, c, 0)
          BY <3>1 DEF Divides
        <5>2. QED
          BY <5>1, QuotientUnique
      <4>2. QED
        BY <3>1, <4>1
    <3>2. CASE q < 0
      BY <1>0, <3>2 DEF Divides
    <3>3. QED
      BY <1>2, <3>1, <3>2
  <2>2. b * q <= b * (c * r)
    BY <1>0, <2>1, TimesMonotonic
  <2>3. b * ((c * r) - c) <= b * (q - 1)
    BY <1>0, <2>1, TimesMonotonic
  <2>4. b * (q - 1) = (b * q) - b /\ b * ((c * r) - c) = (b * (c * r)) - (b * c)
    BY <1>0
  <2>5. b * q >= a /\ a > (b * q) - b
    BY <1>2 DEF Divides
  <2>6. (b * c) * r >= a /\ a > ((b * c) * r) - (b * c)
    BY <1>0, <2>2, <2>3, <2>4, <2>5
  <2>7. QED
    BY <1>2, <2>6 DEF Divides
<1>3. QED
  BY <1>1, <1>2

-----------------------------------------------------------------------------
(* Units of time                                                             *)

\* The units, as numbers of nanoseconds.
LEMMA UnitTypes ==
  /\ Kilo \in Nat /\ Kilo > 1
  /\ Kilo * Kilo \in Nat /\ Kilo * Kilo > 1
  /\ NSEC_PER_SEC \in Nat /\ NSEC_PER_SEC > 1
<1>1. Kilo \in Nat /\ Kilo > 1
  BY TimeAssumption
<1>2. Kilo * Kilo \in Nat /\ Kilo * Kilo > 1
  BY <1>1
<1>3. NSEC_PER_SEC \in Nat /\ NSEC_PER_SEC > 1
  <2>1. (Kilo * Kilo) * 1 <= (Kilo * Kilo) * Kilo
    BY <1>1, <1>2, TimesMonotonic
  <2>2. (Kilo * Kilo) * Kilo \in Nat
    BY <1>1, <1>2
  <2>3. QED
    BY <1>2, <2>1, <2>2 DEF NSEC_PER_SEC
<1>4. QED
  BY <1>1, <1>2, <1>3

\* Microseconds, milliseconds and seconds, each computed from the one before,
\* are the duration divided by their unit.
LEMMA UnitsDivide ==
  ASSUME NEW delta \in Int
  PROVE  /\ ToMicroseconds(delta) \in Int /\ ToMilliseconds(delta) \in Int
         /\ ToSeconds(delta) \in Int
         /\ Divides(delta, Kilo, ToMicroseconds(delta))
         /\ Divides(delta, Kilo * Kilo, ToMilliseconds(delta))
         /\ Divides(delta, NSEC_PER_SEC, ToSeconds(delta))
<1> DEFINE m1 == ToMicroseconds(delta)
           m2 == ToMilliseconds(delta)
           m3 == ToSeconds(delta)
<1>0. m1 = Quotient(delta, Kilo) /\ m2 = Quotient(m1, Kilo) /\ m3 = Quotient(m2, Kilo)
  BY DEF ToMicroseconds, ToMilliseconds, ToSeconds
<1> HIDE DEF m1, m2, m3
<1>1. /\ m1 \in Int /\ Divides(delta, Kilo, m1)
      /\ delta >= 0 => m1 >= 0
      /\ delta < 0 => m1 <= 0
  BY <1>0, UnitTypes, QuotientDivides
<1>2. /\ m2 \in Int /\ Divides(m1, Kilo, m2)
      /\ m1 >= 0 => m2 >= 0
      /\ m1 < 0 => m2 <= 0
  BY <1>0, <1>1, UnitTypes, QuotientDivides
<1>3. m3 \in Int /\ Divides(m2, Kilo, m3)
  BY <1>0, <1>2, UnitTypes, QuotientDivides
<1>4. Divides(delta, Kilo * Kilo, m2)
  BY <1>1, <1>2, UnitTypes, QuotientTwice
<1>5. (delta >= 0 => m2 >= 0) /\ (delta < 0 => m2 <= 0)
  <2>1. CASE delta < 0 /\ m1 = 0
    <3>1. Divides(m1, Kilo, 0)
      BY <2>1, UnitTypes DEF Divides
    <3>2. m2 = 0
      BY <1>1, <1>2, <3>1, UnitTypes, QuotientUnique
    <3>3. QED
      BY <2>1, <3>2
  <2>2. CASE delta >= 0 \/ m1 # 0
    BY <1>1, <1>2, <2>2
  <2>3. QED
    BY <2>1, <2>2
<1>6. Divides(delta, (Kilo * Kilo) * Kilo, m3)
  BY <1>2, <1>3, <1>4, <1>5, UnitTypes, QuotientTwice
<1>7. QED
  BY <1>1, <1>2, <1>3, <1>4, <1>6 DEF NSEC_PER_SEC, m1, m2, m3

\* Back from a unit is a product.
LEMMA UnitsMultiply ==
  ASSUME NEW n \in Int
  PROVE  /\ FromMicroseconds(n) = Kilo * n
         /\ FromMilliseconds(n) = (Kilo * Kilo) * n
         /\ FromSeconds(n) = NSEC_PER_SEC * n
<1>1. Kilo \in Int
  BY UnitTypes
<1>2. n * Kilo = Kilo * n
  BY <1>1
<1>3. (n * Kilo) * Kilo = (Kilo * Kilo) * n
  BY <1>1
<1>4. ((n * Kilo) * Kilo) * Kilo = ((Kilo * Kilo) * Kilo) * n
  <2>1. ((Kilo * Kilo) * n) * Kilo = (Kilo * Kilo) * (n * Kilo)
    BY <1>1
  <2>2. (Kilo * Kilo) * (Kilo * n) = ((Kilo * Kilo) * Kilo) * n
    BY <1>1
  <2>3. QED
    BY <1>2, <1>3, <2>1, <2>2
<1>5. QED
  BY <1>2, <1>3, <1>4 DEF FromMicroseconds, FromMilliseconds, FromSeconds, NSEC_PER_SEC

\* Nothing is lost between a duration and its timespec, of either sign.
LEMMA TimespecInverts ==
  ASSUME NEW delta \in Int
  PROVE  /\ FromTimespec(ToTimespec(delta)) = delta
         /\ delta >= 0 => ToTimespec(delta).tv_nsec \in 0 .. NSEC_PER_SEC - 1
<1> DEFINE s == ToSeconds(delta)
           q == Quotient(delta, NSEC_PER_SEC)
<1>1. s \in Int /\ Divides(delta, NSEC_PER_SEC, s)
  BY UnitsDivide
<1>2. q \in Int /\ Divides(delta, NSEC_PER_SEC, q)
  BY UnitTypes, QuotientDivides
<1>3. /\ ToTimespec(delta).tv_sec = s
      /\ ToTimespec(delta).tv_nsec = delta - NSEC_PER_SEC * q
  BY DEF ToTimespec, Remainder
<1> HIDE DEF s, q
<1>4. s = q
  BY <1>1, <1>2, UnitTypes, QuotientUnique
<1>5. NSEC_PER_SEC * q \in Int
  BY <1>2, UnitTypes
<1>6. FromTimespec(ToTimespec(delta)) = (NSEC_PER_SEC * s) + (delta - NSEC_PER_SEC * q)
  BY <1>1, <1>3, UnitsMultiply DEF FromTimespec, Plus
<1>7. delta >= 0 => delta - NSEC_PER_SEC * q \in 0 .. NSEC_PER_SEC - 1
  BY <1>2, <1>5, UnitTypes DEF Divides
<1>8. QED
  BY <1>3, <1>4, <1>5, <1>6, <1>7

\* A time that fits into the word and is not before the epoch is what the timer
\* is armed with; the epoch itself becomes the next nanosecond.
LEMMA RearmInverts ==
  ASSUME NEW delta \in Nat, delta < 2^WordBits
  PROVE  FromTimespec(TimerRearm(delta)) = IF delta = 0 THEN 1 ELSE delta
<1> DEFINE word == delta % 2^WordBits
           n == IF word < 1 THEN 1 ELSE word
<1>1. 2^WordBits \in Int
  BY TimeAssumption
<1>2. word = delta
  BY <1>1
<1>3. n = IF delta = 0 THEN 1 ELSE delta
  BY <1>2
<1>4. /\ TimerRearm(delta).tv_sec = n \div NSEC_PER_SEC
      /\ TimerRearm(delta).tv_nsec = n % NSEC_PER_SEC
  BY DEF TimerRearm
<1> HIDE DEF n, word
<1>5. n \in Int
  BY <1>3
<1>6. /\ n \div NSEC_PER_SEC \in Int
      /\ n = (NSEC_PER_SEC * (n \div NSEC_PER_SEC)) + (n % NSEC_PER_SEC)
  BY <1>5, UnitTypes, DivMod
<1>7. FromTimespec(TimerRearm(delta)) =
        (NSEC_PER_SEC * (n \div NSEC_PER_SEC)) + (n % NSEC_PER_SEC)
  BY <1>4, <1>6, UnitsMultiply DEF FromTimespec, Plus
<1>8. QED
  BY <1>3, <1>6, <1>7

\* Every duration survives its conversions: it comes back from a timespec as it
\* was, loses less than a unit in coarser ones, towards zero, and arms the timer
\* for the point it stands for as long as it fits into the word (time_delta.h,
\* time_point.h, timerfd.cc).
THEOREM TimesConvert ==
  \A delta \in Int : delta < 2^WordBits => TimeConverts(delta)
<1> SUFFICES ASSUME NEW delta \in Int, delta < 2^WordBits
             PROVE  TimeConverts(delta)
  OBVIOUS
<1>1. /\ FromTimespec(ToTimespec(delta)) = delta
      /\ delta >= 0 => ToTimespec(delta).tv_nsec \in 0 .. NSEC_PER_SEC - 1
  BY TimespecInverts
<1>2. ASSUME NEW unit \in Nat, NEW q \in Int, Divides(delta, unit, q), NEW units,
             units = <<unit * q, unit>>
      PROVE  IF delta >= 0 THEN units[1] <= delta /\ delta < units[1] + units[2]
                           ELSE units[1] >= delta /\ delta > units[1] - units[2]
  <2>1. units[1] = unit * q /\ units[2] = unit
    BY <1>2
  <2>2. QED
    BY <1>2, <2>1 DEF Divides
<1>3. ASSUME NEW units \in {<<FromMicroseconds(ToMicroseconds(delta)), Kilo>>,
                            <<FromMilliseconds(ToMilliseconds(delta)), Kilo * Kilo>>,
                            <<FromSeconds(ToSeconds(delta)), NSEC_PER_SEC>>}
      PROVE  IF delta >= 0 THEN units[1] <= delta /\ delta < units[1] + units[2]
                           ELSE units[1] >= delta /\ delta > units[1] - units[2]
  <2>1. CASE units = <<FromMicroseconds(ToMicroseconds(delta)), Kilo>>
    BY <1>2, <2>1, UnitsDivide, UnitsMultiply, UnitTypes
  <2>2. CASE units = <<FromMilliseconds(ToMilliseconds(delta)), Kilo * Kilo>>
    BY <1>2, <2>2, UnitsDivide, UnitsMultiply, UnitTypes
  <2>3. CASE units = <<FromSeconds(ToSeconds(delta)), NSEC_PER_SEC>>
    BY <1>2, <2>3, UnitsDivide, UnitsMultiply, UnitTypes
  <2>4. QED
    BY <1>3, <2>1, <2>2, <2>3
<1>4. ASSUME NEW unit \in {Kilo, Kilo * Kilo, NSEC_PER_SEC}
      PROVE  Minus(delta, Remainder(delta, unit)) = Times(unit, Quotient(delta, unit))
  <2>1. unit \in Nat /\ unit > 0
    BY <1>4, UnitTypes
  <2>2. Quotient(delta, unit) \in Int
    BY <2>1, QuotientDivides
  <2>3. unit * Quotient(delta, unit) \in Int
    BY <2>1, <2>2
  <2>4. QED
    BY <2>3 DEF Minus, Remainder, Times
<1>5. TimeAfter(TimeSince(delta, 1), 1) = delta
  BY DEF TimeAfter, TimeSince
<1>6. delta >= 0 => FromTimespec(TimerRearm(delta)) = IF delta = 0 THEN 1 ELSE delta
  BY RearmInverts
<1>7. QED
  BY <1>1, <1>3, <1>4, <1>5, <1>6 DEF TimeConverts
=============================================================================
