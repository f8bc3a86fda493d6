------------------------------ MODULE QtThread ------------------------------
(* QtThread (QtThread.java): a thread that runs the Runnables other threads  *)
(* post, or run and wait for, until one of them calls exit.  All of them     *)
(* synchronize on m_qtThread, whose wait() is guarded by a test of the list  *)
(* and not of m_exit.  Nobody has a reference with which to interrupt it.    *)
(*                                                                           *)
(* m_exit is not volatile: the thread has to see the write of exit only      *)
(* after it entered the monitor that exit has left.                          *)
EXTENDS Sequences

CONSTANTS
    QtClients,          \* the threads that use it
    Runnables           \* what they post or run, each once

VARIABLES
    m_pendingRunnables,
    pendingRunnables,   \* the copy the thread works on
    m_exit,             \* no, written, published (the monitor was left) or seen
    qpc,                \* where the thread is
    client,             \* where each client is, and what it waits for
    released,           \* the Runnables whose semaphore was released
    handed,             \* the Runnables in the order they were added
    qran                \* the Runnables in the order they have run

qtVars == <<m_pendingRunnables, pendingRunnables, m_exit, qpc, client, released, handed, qran>>

NoRunnable == "no runnable"
Resting == [at |-> "idle", for |-> NoRunnable]

QtInit ==
    /\ m_pendingRunnables = <<>> /\ pendingRunnables = <<>>
    /\ m_exit = "no"
    /\ qpc = "test"
    /\ client = [c \in QtClients |-> Resting]
    /\ released = {}
    /\ handed = <<>> /\ qran = <<>>

In(r, s) == \E i \in DOMAIN s : s[i] = r

-----------------------------------------------------------------------------
(* The clients                                                               *)

\* m_qtThread.notify(); the thread goes on when it gets the monitor back.
NotifyQt == qpc' = IF qpc = "wait" THEN "notified" ELSE qpc

AddRunnable(c, r) ==
    /\ client[c] = Resting /\ ~In(r, handed)
    /\ m_pendingRunnables' = Append(m_pendingRunnables, r)
    /\ handed' = Append(handed, r)
    /\ NotifyQt
    /\ UNCHANGED <<pendingRunnables, m_exit, released, qran>>

QtPost(c, r) == AddRunnable(c, r) /\ UNCHANGED client

\* run, up to sem.acquire()
QtRun(c, r) ==
    /\ AddRunnable(c, r)
    /\ client' = [client EXCEPT ![c] = [at |-> "acquire", for |-> r]]

\* The semaphore is released, or the client is interrupted; run returns.
QtRunReturns(c) ==
    /\ client[c].at = "acquire"
    /\ \/ client[c].for \in released /\ released' = released \ {client[c].for}
       \/ UNCHANGED released
    /\ client' = [client EXCEPT ![c] = Resting]
    /\ UNCHANGED <<m_pendingRunnables, pendingRunnables, m_exit, qpc, handed, qran>>

QtExit(c) ==
    /\ client[c] = Resting
    /\ m_exit' = IF m_exit = "no" THEN "written" ELSE m_exit
    /\ client' = [client EXCEPT ![c].at = "exit"]
    /\ UNCHANGED <<m_pendingRunnables, pendingRunnables, qpc, released, handed, qran>>

QtExitNotify(c) ==
    /\ client[c].at = "exit"
    /\ m_exit' = IF m_exit = "written" THEN "published" ELSE m_exit
    /\ NotifyQt
    /\ client' = [client EXCEPT ![c].at = "join"]
    /\ UNCHANGED <<m_pendingRunnables, pendingRunnables, released, handed, qran>>

\* join returns, or is interrupted.
QtExitReturns(c) ==
    /\ client[c].at = "join"
    /\ client' = [client EXCEPT ![c] = Resting]
    /\ UNCHANGED <<m_pendingRunnables, pendingRunnables, m_exit, qpc, released, handed, qran>>

-----------------------------------------------------------------------------
(* The thread                                                                *)

\* while (!m_exit): what was not seen yet may be seen or not.
TestExit ==
    /\ qpc = "test"
    /\ \/ m_exit # "seen" /\ qpc' = "enter"
       \/ m_exit # "no" /\ qpc' = "ended"
    /\ UNCHANGED <<m_pendingRunnables, pendingRunnables, m_exit, client, released, handed, qran>>

SeeExit == m_exit' = IF m_exit = "published" THEN "seen" ELSE m_exit

\* Mutant: the thread waits without looking at the list.
WaitForRunnablesAlways ==
    /\ qpc = "enter"
    /\ SeeExit
    /\ qpc' = "wait"
    /\ UNCHANGED <<m_pendingRunnables, pendingRunnables, client, released, handed, qran>>

\* The thread enters the monitor and finds the list empty.
WaitForRunnables ==
    /\ qpc = "enter" /\ m_pendingRunnables = <<>>
    /\ SeeExit
    /\ qpc' = "wait"
    /\ UNCHANGED <<m_pendingRunnables, pendingRunnables, client, released, handed, qran>>

\* wait() may return without a notify.
WakeSpuriously ==
    /\ qpc = "wait" /\ qpc' = "notified"
    /\ UNCHANGED <<m_pendingRunnables, pendingRunnables, m_exit, client, released, handed, qran>>

\* The list is copied and cleared, empty or not.
TakeRunnables ==
    /\ \/ qpc = "enter" /\ m_pendingRunnables # <<>>
       \/ qpc = "notified"
    /\ SeeExit
    /\ pendingRunnables' = m_pendingRunnables
    /\ m_pendingRunnables' = <<>>
    /\ qpc' = "run"
    /\ UNCHANGED <<client, released, handed, qran>>

\* The next Runnable of the copy, and the release of its semaphore if it has one.
RunRunnable ==
    /\ qpc = "run" /\ pendingRunnables # <<>>
    /\ LET r == Head(pendingRunnables)
       IN  /\ qran' = Append(qran, r)
           /\ released' = released \cup {s \in {r} : \E c \in QtClients : client[c].for = s}
    /\ pendingRunnables' = Tail(pendingRunnables)
    /\ UNCHANGED <<m_pendingRunnables, m_exit, qpc, client, handed>>

BatchEnds ==
    /\ qpc = "run" /\ pendingRunnables = <<>>
    /\ qpc' = "test"
    /\ UNCHANGED <<m_pendingRunnables, pendingRunnables, m_exit, client, released, handed, qran>>

QtThreadStep == TestExit \/ WaitForRunnables \/ TakeRunnables \/ RunRunnable \/ BatchEnds

QtNext ==
    \/ QtThreadStep \/ WakeSpuriously
    \/ \E c \in QtClients :
        \/ \E r \in Runnables : QtPost(c, r) \/ QtRun(c, r)
        \/ QtRunReturns(c) \/ QtExit(c) \/ QtExitNotify(c) \/ QtExitReturns(c)

QtSpec == QtInit /\ [][QtNext]_qtVars

-----------------------------------------------------------------------------
\* Runnables run in the order they were added, none twice and none left out.
QtInOrder == handed = qran \o pendingRunnables \o m_pendingRunnables

\* A thread in run waits as long as its Runnable has not run, and no longer.
QtRunWaits ==
    \A c \in QtClients : client[c].at = "acquire" =>
        (client[c].for \in released <=> In(client[c].for, qran))

\* Until somebody calls exit, a Runnable that was added is run, whatever the
\* thread was doing when it was notified; Runnables run once and in the order
\* they were added, also around exit, and release whoever waits for them, not
\* somebody else; and a thread that exit has woken ends.
\* (An exit that finds the thread between its test and its wait wakes nobody.)
QtThreadServes ==
    /\ \A r \in Runnables : In(r, handed) ~> (In(r, qran) \/ m_exit # "no")
    /\ [](QtInOrder /\ QtRunWaits)
    /\ (m_exit = "published" /\ qpc = "notified") ~> qpc = "ended"
=============================================================================
