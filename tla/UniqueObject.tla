---------------------------- MODULE UniqueObject ----------------------------
(* UniqueObject (unique_object.h), which owns a descriptor or a directory    *)
(* stream (unique_fd.h, unique_fd.cc), and UniquePtr (memory/unique_ptr.h),  *)
(* which has no CHECK in reset and no swap.  What is closed may be opened    *)
(* again with the same value.                                                *)
EXTENDS FiniteSets

CONSTANTS
    Uniques,            \* the UniqueObject variables
    Values,             \* descriptors
    InvalidValue        \* Traits::InvalidValue()

ASSUME UniqueAssumption == InvalidValue \notin Values

VARIABLES
    generic,            \* data_.generic
    open,               \* the descriptors that are open
    raw,                \* the open ones the program holds outside of any object
    misfreed            \* was something closed that was not open?

uniqueVars == <<generic, open, raw, misfreed>>

UniqueInit ==
    /\ generic = [u \in Uniques |-> InvalidValue]
    /\ open = {} /\ raw = {} /\ misfreed = FALSE

\* open: the program gets a descriptor.
OpenValue(v) ==
    /\ v \notin open
    /\ open' = open \cup {v} /\ raw' = raw \cup {v}
    /\ UNCHANGED <<generic, misfreed>>

\* close or closedir
FreeValue(v) ==
    /\ open' = open \ {v}
    /\ misfreed' = (misfreed \/ v \notin open)

FreeIfNecessary(v) ==
    IF v = InvalidValue THEN UNCHANGED <<open, misfreed>> ELSE FreeValue(v)

\* UniquePtr: reset, the assignment of a pointer, the constructor that takes one
\* and the destructor.  The program gives up a value it holds, or passes none.
ResetPtr(u, v) ==
    /\ v \in raw \cup {InvalidValue}
    /\ FreeIfNecessary(generic[u])
    /\ generic' = [generic EXCEPT ![u] = v]
    /\ raw' = raw \ {v}

\* UniqueObject: the same after a CHECK.
Reset(u, v) ==
    /\ generic[u] = InvalidValue \/ generic[u] # v
    /\ ResetPtr(u, v)

\* release: the caller has the value.
ReleaseValue(u) ==
    /\ raw' = raw \cup ({generic[u]} \ {InvalidValue})
    /\ generic' = [generic EXCEPT ![u] = InvalidValue]
    /\ UNCHANGED <<open, misfreed>>

\* Mutant: the value of the other object is taken, but not from it.
MoveAssignKeeps(u, v) ==
    /\ FreeIfNecessary(generic[u])
    /\ generic' = [generic EXCEPT ![u] = generic[v]]
    /\ UNCHANGED raw

\* reset(other.release()): the assignments and the move of a UniquePtr, which
\* also stand for its copy.  With u and v the same, release has emptied it
\* before reset looks.
MoveAssignPtr(u, v) ==
    /\ FreeIfNecessary(IF u = v THEN InvalidValue ELSE generic[u])
    /\ generic' = [generic EXCEPT ![v] = InvalidValue, ![u] = generic[v]]
    /\ UNCHANGED raw

\* operator=(UniqueObject&&) and the move constructor; what the CHECK compares
\* are the values of u and v, after v was released.
MoveAssignValue(u, v) ==
    /\ u = v \/ generic[u] = InvalidValue \/ generic[u] # generic[v]
    /\ MoveAssignPtr(u, v)

Swap(u, v) ==
    /\ generic' = [generic EXCEPT ![u] = generic[v], ![v] = generic[u]]
    /\ UNCHANGED <<open, raw, misfreed>>

UniqueNext ==
    \/ \E v \in Values : OpenValue(v)
    \/ \E u \in Uniques :
        \/ \E v \in Values \cup {InvalidValue} : Reset(u, v) \/ ResetPtr(u, v)
        \/ ReleaseValue(u)
        \/ \E w \in Uniques : MoveAssignValue(u, w) \/ MoveAssignPtr(u, w) \/ Swap(u, w)

UniqueSpec == UniqueInit /\ [][UniqueNext]_uniqueVars

-----------------------------------------------------------------------------
\* Whatever is moved, swapped, released and reset, what is open is owned by one
\* object or held by the program, never both and never two; an object owns
\* nothing that is closed, so that no descriptor of somebody else that got the
\* same number is ever closed.
OwnedOnce ==
    /\ ~misfreed
    /\ \A v \in open :
        Cardinality({u \in Uniques : generic[u] = v}) = IF v \in raw THEN 0 ELSE 1
    /\ \A u \in Uniques : generic[u] \in open \cup {InvalidValue}
=============================================================================
