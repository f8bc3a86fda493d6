----------------------------- MODULE SharedPtr ------------------------------
(* SharedPtr and its ControlBlock (memory/shared_ptr.h).  The count is       *)
(* atomic; a SharedPtr belongs to one thread at a time.  An assignment is    *)
(* two steps, one per operation on a count.                                  *)
(*                                                                           *)
(* Code that touches a block that is not there has no defined behaviour: it  *)
(* is recorded as a fault, and the process starts anew.                      *)
EXTENDS Integers, FiniteSets

CONSTANTS
    SharedThreads,
    SharedObjects,      \* the objects that may be created
    SharedPtrs,         \* the SharedPtr variables
    NoShared            \* nullptr

ASSUME SharedAssumption == NoShared \notin SharedObjects

VARIABLES
    ref_count_of,       \* ControlBlock::ref_count_
    block,              \* none, live or deleted: an object and its ControlBlock
    sptr,               \* ptr_ and ctrl_
    owner,              \* the thread a SharedPtr belongs to
    assigning,          \* the assignment a thread is in the middle of
    fault               \* what went wrong

sharedVars == <<ref_count_of, block, sptr, owner, assigning, fault>>

NotAssigning == <<>>
NoFault == "none"

SharedInit ==
    /\ ref_count_of = [o \in SharedObjects |-> 0]
    /\ block = [o \in SharedObjects |-> "none"]
    /\ sptr = [p \in SharedPtrs |-> NoShared]
    /\ owner \in [SharedPtrs -> SharedThreads]
    /\ assigning = [t \in SharedThreads |-> NotAssigning]
    /\ fault = NoFault

Owns(t, P) ==
    fault = NoFault /\ assigning[t] = NotAssigning /\ \A p \in P : owner[p] = t

-----------------------------------------------------------------------------
\* Atomic: fetch_add, and fetch_sub as its inverse
FetchAdd(o, arg) == ref_count_of' = [ref_count_of EXCEPT ![o] = @ + arg]

Ref(o) == IF o = NoShared THEN UNCHANGED ref_count_of ELSE FetchAdd(o, 1)

\* Who drops the last reference deletes the object and the block; nobody else
\* can tell the two steps apart.
MaybeDestroy(o) ==
    IF o = NoShared THEN UNCHANGED <<ref_count_of, block>>
    ELSE /\ FetchAdd(o, -1)
         /\ block' = [block EXCEPT ![o] = IF ref_count_of[o] = 1 THEN "deleted" ELSE @]

\* The constructor that takes ownership of a pointer.
MakeShared(t, p, o) ==
    /\ Owns(t, {p}) /\ sptr[p] = NoShared
    /\ block[o] = "none"
    /\ block' = [block EXCEPT ![o] = "live"]
    /\ ref_count_of' = [ref_count_of EXCEPT ![o] = 1]
    /\ sptr' = [sptr EXCEPT ![p] = o]
    /\ UNCHANGED <<owner, assigning, fault>>

\* Mutant: the copy constructor does not count.
CopySharedUncounted(t, dst, src) ==
    /\ Owns(t, {dst, src}) /\ sptr[dst] = NoShared
    /\ sptr' = [sptr EXCEPT ![dst] = sptr[src]]
    /\ UNCHANGED <<ref_count_of, block, owner, assigning, fault>>

\* The copy constructors.
CopyShared(t, dst, src) ==
    /\ Owns(t, {dst, src}) /\ sptr[dst] = NoShared
    /\ Ref(sptr[src])
    /\ sptr' = [sptr EXCEPT ![dst] = sptr[src]]
    /\ UNCHANGED <<block, owner, assigning, fault>>

\* The move constructors.
MoveShared(t, dst, src) ==
    /\ dst # src
    /\ Owns(t, {dst, src}) /\ sptr[dst] = NoShared
    /\ sptr' = [sptr EXCEPT ![dst] = sptr[src], ![src] = NoShared]
    /\ UNCHANGED <<ref_count_of, block, owner, assigning, fault>>

\* operator=(const SharedPtr&): the old reference is dropped ...
AssignShared(t, dst, src) ==
    /\ Owns(t, {dst, src})
    /\ MaybeDestroy(sptr[dst])
    /\ assigning' = [assigning EXCEPT ![t] = <<dst, src>>]
    /\ UNCHANGED <<sptr, owner, fault>>

\* ... and the new one counted, in a block that may be null or deleted.
AssignSharedEnd(t) ==
    /\ fault = NoFault /\ assigning[t] # NotAssigning
    /\ LET dst == assigning[t][1]
           src == assigning[t][2]
           o == sptr[src]
       IN  IF o # NoShared /\ block[o] = "live"
           THEN /\ Ref(o)
                /\ sptr' = [sptr EXCEPT ![dst] = o]
                /\ assigning' = [assigning EXCEPT ![t] = NotAssigning]
                /\ UNCHANGED fault
           ELSE /\ fault' = CASE o = NoShared -> "assigned from an empty pointer"
                              [] o # NoShared /\ dst = src -> "assigned to itself"
                              [] OTHER -> "assigned from a dangling pointer"
                /\ UNCHANGED <<ref_count_of, sptr, assigning>>
    /\ UNCHANGED <<block, owner>>

\* operator=(SharedPtr&&); with dst and src the same the pointer ends empty.
MoveAssignShared(t, dst, src) ==
    /\ Owns(t, {dst, src})
    /\ MaybeDestroy(sptr[dst])
    /\ sptr' = [sptr EXCEPT ![dst] = sptr[src], ![src] = NoShared]
    /\ UNCHANGED <<owner, assigning, fault>>

\* reset and the destructor.
ResetShared(t, p) ==
    /\ Owns(t, {p})
    /\ MaybeDestroy(sptr[p])
    /\ sptr' = [sptr EXCEPT ![p] = NoShared]
    /\ UNCHANGED <<owner, assigning, fault>>

\* A pointer is handed to another thread.
SendShared(t, p, to) ==
    /\ Owns(t, {p}) /\ to # t
    /\ owner' = [owner EXCEPT ![p] = to]
    /\ UNCHANGED <<ref_count_of, block, sptr, assigning, fault>>

Restart ==
    /\ fault # NoFault
    /\ ref_count_of' = [o \in SharedObjects |-> 0]
    /\ block' = [o \in SharedObjects |-> "none"]
    /\ sptr' = [p \in SharedPtrs |-> NoShared]
    /\ assigning' = [t \in SharedThreads |-> NotAssigning]
    /\ fault' = NoFault
    /\ UNCHANGED owner

SharedNext ==
    \/ \E t \in SharedThreads :
        \/ AssignSharedEnd(t)
        \/ \E p \in SharedPtrs :
            \/ \E o \in SharedObjects : MakeShared(t, p, o)
            \/ \E q \in SharedPtrs : \/ CopyShared(t, p, q) \/ MoveShared(t, p, q)
                                     \/ AssignShared(t, p, q) \/ MoveAssignShared(t, p, q)
            \/ ResetShared(t, p)
            \/ \E to \in SharedThreads : SendShared(t, p, to)
    \/ Restart

SharedSpec == SharedInit /\ [][SharedNext]_sharedVars

-----------------------------------------------------------------------------
\* The pointers that count for o: not the one that is being assigned to, which
\* has dropped its reference and not got the new one.
Counted(o) ==
    {p \in SharedPtrs : sptr[p] = o}
        \ {assigning[t][1] : t \in {t \in SharedThreads : assigning[t] # NotAssigning}}

use_count(p) == IF sptr[p] = NoShared THEN 0 ELSE ref_count_of[sptr[p]]

\* Whatever the threads do with their SharedPtrs, the count of a live object is
\* the number of its pointers, an object without pointers is deleted, and one
\* with pointers is not.  Nothing but the assignment of an empty pointer, or of
\* the last pointer to itself, touches a block that is not there.
SharedCounts ==
    /\ fault # "assigned from a dangling pointer"
    /\ \A o \in SharedObjects :
        /\ block[o] = "live" => Counted(o) # {}
        /\ \A p \in Counted(o) : use_count(p) = Cardinality(Counted(o))
        /\ block[o] # "live" => Counted(o) = {}
=============================================================================
