----------------------------- MODULE SyncSwitch -----------------------------
(* SyncSwitch (synchronization/sync_switch.cc) over a SharedMutexStd: Execute *)
(* runs a handler under the shared lock, SetSwitch stores under the           *)
(* exclusive one.                                                             *)
EXTENDS FiniteSets

CONSTANTS
    Executors,          \* threads that call Execute, again and again
    Setters             \* threads that call SetSwitch, again and again

ASSUME SwitchAssumption == Executors \cap Setters = {}

VARIABLES
    value,              \* value_
    shared,             \* holders of the shared lock
    exclusive,          \* holders of the exclusive lock
    handler             \* the handler an executor runs, or "none"

switchVars == <<value, shared, exclusive, handler>>

SwitchInit ==
    /\ value \in BOOLEAN
    /\ shared = {}
    /\ exclusive = {}
    /\ handler = [t \in Executors |-> "none"]

LockShared(t) == exclusive = {} /\ shared' = shared \cup {t} /\ UNCHANGED exclusive
UnlockShared(t) == shared' = shared \ {t} /\ UNCHANGED exclusive
LockExclusive(t) == shared = {} /\ exclusive = {} /\ exclusive' = {t} /\ UNCHANGED shared
Unlock(t) == exclusive' = {} /\ UNCHANGED shared

\* Execute: the lock, the choice of the handler, and the return of the handler
\* with the end of the lock's scope.
BeginExecute(t) ==
    /\ t \notin shared
    /\ LockShared(t)
    /\ UNCHANGED <<value, handler>>

\* Mutant: the lock is held for the choice of the handler only.
ChooseHandlerAndUnlock(t) ==
    /\ t \in shared /\ handler[t] = "none"
    /\ handler' = [handler EXCEPT ![t] = IF value THEN "true_handler" ELSE "false_handler"]
    /\ UnlockShared(t)
    /\ UNCHANGED value

ChooseHandler(t) ==
    /\ t \in shared /\ handler[t] = "none"
    /\ handler' = [handler EXCEPT ![t] = IF value THEN "true_handler" ELSE "false_handler"]
    /\ UNCHANGED <<value, shared, exclusive>>

HandlerReturns(t) ==
    /\ handler[t] # "none"
    /\ handler' = [handler EXCEPT ![t] = "none"]
    /\ UnlockShared(t)
    /\ UNCHANGED value

BeginSetSwitch(t) == LockExclusive(t) /\ UNCHANGED <<value, handler>>
EndSetSwitch(t, v) ==
    /\ t \in exclusive
    /\ value' = v
    /\ Unlock(t)
    /\ UNCHANGED handler

SwitchNext ==
    \/ \E t \in Executors : BeginExecute(t) \/ ChooseHandler(t) \/ HandlerReturns(t)
    \/ \E t \in Setters : BeginSetSwitch(t) \/ \E v \in BOOLEAN : EndSetSwitch(t, v)

SwitchSpec == SwitchInit /\ [][SwitchNext]_switchVars

-----------------------------------------------------------------------------
\* While a handler runs the switch keeps the value it was chosen for, and nobody
\* is setting it ("Execution and setting the switch is exclusive").
SwitchHolds ==
    \A t \in Executors :
        handler[t] # "none" =>
            /\ handler[t] = IF value THEN "true_handler" ELSE "false_handler"
            /\ exclusive = {}
=============================================================================
