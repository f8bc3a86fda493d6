------------------------------ MODULE WeakPtr -------------------------------
(* WeakPtr and WeakPtrFactory (memory/weak_ptr.h) on a reference-counted     *)
(* WeakPtrFlag (memory/weak_ptr_internal.cc).  The objects of RefPtr are the *)
(* flags; the RefPtrs are the flag_ members of the factories and of the weak *)
(* pointers.  Each flag stands for the object its factory is a member of:    *)
(* the plain pointer next to flag_ never changes for a given flag.           *)
(*                                                                           *)
(* A factory belongs to one thread at a time, and only that thread asks a    *)
(* weak pointer whether it is valid; the factories of task-runner-affine     *)
(* pointers change their thread with the runner.  Weak pointers may be       *)
(* passed to, assigned, reset and destroyed on any thread.                   *)
EXTENDS RefPtr

CONSTANT Factories      \* the flag_ members of the factories

ASSUME FactoryAssumption == Factories \subseteq Ptrs

VARIABLES
    is_valid,           \* WeakPtrFlag::is_valid_
    target              \* none, alive or destroyed: what the weak pointers point to

weakVars == <<refVars, is_valid, target>>

WeakPtrs == Ptrs \ Factories

WeakInit ==
    /\ RefInit
    /\ is_valid = [o \in Objects |-> FALSE]
    /\ target = [o \in Objects |-> "none"]

\* The object, with the factory as its last member, is constructed.
WeakPtrFactory(t, f, o) ==
    /\ MakeRefCounted(t, f, o)
    /\ is_valid' = [is_valid EXCEPT ![o] = TRUE]
    /\ target' = [target EXCEPT ![o] = "alive"]

GetWeakPtr(t, f, p) ==
    /\ ptr[f] # NoObj
    /\ CopyConstruct(t, p, f)
    /\ UNCHANGED <<is_valid, target>>

\* Mutant: the flag is dropped without being invalidated.
DestroyFactoryValid(t, f) ==
    /\ Destroy(t, f)
    /\ target' = [target EXCEPT ![ptr[f]] = "destroyed"]
    /\ UNCHANGED is_valid

\* The object is destroyed on the thread of its factory: Invalidate, the release
\* of flag_, and the other members.  The flag is read by this thread only, or by
\* the one that deletes it, so nobody can tell the three apart.
DestroyFactory(t, f) ==
    /\ Destroy(t, f)
    /\ is_valid' = [is_valid EXCEPT ![ptr[f]] = FALSE]
    /\ target' = [target EXCEPT ![ptr[f]] = "destroyed"]

\* The copies, moves, assignments, reset and destruction of a WeakPtr are those of
\* its flag_; the plain pointer goes along.
WeakPtrStep(t) == PtrStep(t, WeakPtrs) /\ UNCHANGED <<is_valid, target>>

\* operator bool, and whether get returns the pointer
IsValid(p) == ptr[p] # NoObj /\ is_valid[ptr[p]]

\* A TaskRunnerAffineWeakPtrFactory, and the object it is in, are used on the
\* thread its task runner runs on at the time.
HandOverFactory(t, f, to) ==
    /\ ptr[f] # NoObj
    /\ Send(t, f, to)
    /\ UNCHANGED <<is_valid, target>>

WeakNext ==
    \E t \in Threads :
        \/ WeakPtrStep(t)
        \/ \E f \in Factories :
            \/ \E o \in Objects : WeakPtrFactory(t, f, o)
            \/ \E p \in WeakPtrs : GetWeakPtr(t, f, p)
            \/ DestroyFactory(t, f)
            \/ \E to \in Threads : HandOverFactory(t, f, to)

WeakSpec == WeakInit /\ [][WeakNext]_weakVars

\* A thread that has dropped the last reference goes on to delete the flag, and
\* one in the middle of an assignment comes to its end.
WeakFairness ==
    \A t \in Threads :
        WF_weakVars((Delete(t) \/ CopyAssignEnd(t)) /\ UNCHANGED <<is_valid, target>>)

WeakFairSpec == WeakSpec /\ WeakFairness

-----------------------------------------------------------------------------
(* Properties                                                                *)

\* A weak pointer that says it is valid points to an object that is alive, and a
\* flag is invalidated before it is deleted (the DCHECK of ~WeakPtrFlag), even
\* when the last weak pointer is dropped on another thread.
WeakPtrsAreSafe ==
    /\ \A p \in WeakPtrs : ptr[p] # NoObj => (IsValid(p) <=> target[ptr[p]] = "alive")
    /\ \A o \in Objects : state[o] \in {"dying", "freed"} => ~is_valid[o]

\* A flag is deleted once its object is destroyed and no weak pointer is left,
\* on whichever thread that happens.
FlagsAreFreed ==
    \A o \in Objects :
        (target[o] = "destroyed" /\ References(o) = {}) ~> state[o] = "freed"
=============================================================================
