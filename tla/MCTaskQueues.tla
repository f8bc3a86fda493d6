---------------------------- MODULE MCTaskQueues ----------------------------
(* Model-checking instance of TaskQueues.  The mutants are plausible slips    *)
(* in message_loop_task_queues.cc, task_source.cc and delayed_task.cc.        *)
EXTENDS TaskQueues

\* What one run explores: two tasks of any time and grade in at most two
\* queues, which is what ordering needs, or one task that is due and has no
\* grade of its own among all the queues, which is what merging needs (there
\* pauses, which say nothing to observers, come without them).
FewQueues ==
    /\ task_queue_id_counter <= 2
    /\ \A q \in QueueIds : task_observers[q] = {}
FewTasks ==
    /\ order <= 1
    /\ \A q \in QueueIds :
          /\ wake[q] \in {0, NoWake}
          /\ \A t \in primary[q] \cup secondary[q] :
                t.time = 0 /\ t.grade # "kUserInteraction"
          /\ tls_task_source_grade[q] # "kUserInteraction"
          /\ task_observers[q] # {} => \A r \in QueueIds : pauses[r] = 0
MCNext == Next /\ (FewQueues \/ FewTasks)'
MCSpec == Init /\ [][MCNext]_vars
=============================================================================
