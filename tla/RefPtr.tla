------------------------------- MODULE RefPtr -------------------------------
(* Intrusive reference counting: RefCountedThreadSafe                        *)
(* (memory/ref_counted.h, ref_counted_internal.h) and RefPtr                 *)
(* (memory/ref_ptr.h).                                                       *)
(*                                                                           *)
(* The count is atomic and is all that threads share; a RefPtr belongs to    *)
(* one thread at a time.  A step is one atomic operation on a count together *)
(* with the thread's own reads and writes around it, or the deletion of an   *)
(* object: an assignment adds the new reference in one step, drops the old   *)
(* one in the next and deletes the object in a third.                        *)
EXTENDS Integers, FiniteSets

CONSTANTS
    Threads,
    Objects,        \* the reference-counted objects that may be created
    Ptrs,           \* the RefPtr variables
    NoObj           \* nullptr

ASSUME PtrAssumption == NoObj \notin Objects

VARIABLES
    ref_count,      \* RefCountedThreadSafeBase::ref_count_
    state,          \* none, live, dying (Release returned true) or freed
    ptr,            \* RefPtr::ptr_
    holder,         \* the thread a RefPtr belongs to
    call            \* what a thread is in the middle of

refVars == <<ref_count, state, ptr, holder, call>>

Idle == [op |-> "idle"]
Calls == {Idle} \cup [op : {"assign"}, dst : Ptrs, src : Ptrs]
                \cup [op : {"delete"}, object : Objects]

RefInit ==
    /\ ref_count = [o \in Objects |-> 0]
    /\ state = [o \in Objects |-> "none"]
    /\ ptr = [p \in Ptrs |-> NoObj]
    /\ holder \in [Ptrs -> Threads]
    /\ call = [t \in Threads |-> Idle]

\* The thread is between two operations and has the pointers of P.
Mine(t, P) == call[t] = Idle /\ \A p \in P : holder[p] = t

-----------------------------------------------------------------------------
\* ptr_->AddRef(), if there is one.
AddRef(o) ==
    ref_count' = IF o = NoObj THEN ref_count ELSE [ref_count EXCEPT ![o] = @ + 1]

\* Mutant: the test is made with the new value of the count.
ReleaseOffByOne(t, o) ==
    IF o = NoObj
    THEN /\ call' = [call EXCEPT ![t] = Idle]
         /\ UNCHANGED <<ref_count, state>>
    ELSE LET last == ref_count[o] = 0
         IN  /\ ref_count' = [ref_count EXCEPT ![o] = @ - 1]
             /\ call' = [call EXCEPT ![t] =
                           IF last THEN [op |-> "delete", object |-> o] ELSE Idle]
             /\ state' = [state EXCEPT ![o] = IF last THEN "dying" ELSE @]

\* ptr_->Release(), if there is one: the thread that drops the last reference
\* goes on to delete the object.
Release(t, o) ==
    IF o = NoObj
    THEN /\ call' = [call EXCEPT ![t] = Idle]
         /\ UNCHANGED <<ref_count, state>>
    ELSE LET last == ref_count[o] = 1
         IN  /\ ref_count' = [ref_count EXCEPT ![o] = @ - 1]
             /\ call' = [call EXCEPT ![t] =
                           IF last THEN [op |-> "delete", object |-> o] ELSE Idle]
             /\ state' = [state EXCEPT ![o] = IF last THEN "dying" ELSE @]

\* delete static_cast<const T*>(this)
Delete(t) ==
    /\ call[t].op = "delete"
    /\ state' = [state EXCEPT ![call[t].object] = "freed"]
    /\ call' = [call EXCEPT ![t] = Idle]
    /\ UNCHANGED <<ref_count, ptr, holder>>

\* MakeRefCounted: the object is constructed with one reference, which AdoptRef
\* gives to the pointer.
MakeRefCounted(t, p, o) ==
    /\ Mine(t, {p}) /\ ptr[p] = NoObj
    /\ state[o] = "none"
    /\ state' = [state EXCEPT ![o] = "live"]
    /\ ref_count' = [ref_count EXCEPT ![o] = 1]
    /\ ptr' = [ptr EXCEPT ![p] = o]
    /\ UNCHANGED <<holder, call>>

\* Mutant: the copy does not count.
CopyConstructUncounted(t, dst, src) ==
    /\ Mine(t, {dst, src}) /\ ptr[dst] = NoObj
    /\ ptr' = [ptr EXCEPT ![dst] = ptr[src]]
    /\ UNCHANGED <<ref_count, state, holder, call>>

\* The copy constructor and Clone; dst is a new variable.
CopyConstruct(t, dst, src) ==
    /\ Mine(t, {dst, src}) /\ ptr[dst] = NoObj
    /\ AddRef(ptr[src])
    /\ ptr' = [ptr EXCEPT ![dst] = ptr[src]]
    /\ UNCHANGED <<state, holder, call>>

\* Mutant: the source keeps its pointer.
MoveConstructKeeps(t, dst, src) ==
    /\ dst # src
    /\ Mine(t, {dst, src}) /\ ptr[dst] = NoObj
    /\ ptr' = [ptr EXCEPT ![dst] = ptr[src]]
    /\ UNCHANGED <<ref_count, state, holder, call>>

\* The move constructor.
MoveConstruct(t, dst, src) ==
    /\ dst # src
    /\ Mine(t, {dst, src}) /\ ptr[dst] = NoObj
    /\ ptr' = [ptr EXCEPT ![dst] = ptr[src], ![src] = NoObj]
    /\ UNCHANGED <<ref_count, state, holder, call>>

\* Mutant: the new reference is not counted.
CopyAssignUncounted(t, dst, src) ==
    /\ Mine(t, {dst, src}) /\ ptr[src] # ptr[dst]
    /\ call' = [call EXCEPT ![t] = [op |-> "assign", dst |-> dst, src |-> src]]
    /\ UNCHANGED <<ref_count, state, ptr, holder>>

\* operator=(const RefPtr&) up to AddRef; equal pointers are left alone.
CopyAssign(t, dst, src) ==
    /\ Mine(t, {dst, src}) /\ ptr[src] # ptr[dst]
    /\ AddRef(ptr[src])
    /\ call' = [call EXCEPT ![t] = [op |-> "assign", dst |-> dst, src |-> src]]
    /\ UNCHANGED <<state, ptr, holder>>

\* ... and its rest.
CopyAssignEnd(t) ==
    /\ call[t].op = "assign"
    /\ ptr' = [ptr EXCEPT ![call[t].dst] = ptr[call[t].src]]
    /\ Release(t, ptr[call[t].dst])
    /\ UNCHANGED holder

\* operator=(RefPtr&&): a temporary takes src, swaps with dst and is destroyed.
\* With src and dst the same it gives back what it took.
MoveAssign(t, dst, src) ==
    /\ Mine(t, {dst, src})
    /\ ptr' = [ptr EXCEPT ![src] = NoObj, ![dst] = ptr[src]]
    /\ Release(t, IF dst = src THEN NoObj ELSE ptr[dst])
    /\ UNCHANGED holder

\* ~RefPtr, or the assignment of nullptr.
Destroy(t, p) ==
    /\ Mine(t, {p}) /\ ptr[p] # NoObj
    /\ ptr' = [ptr EXCEPT ![p] = NoObj]
    /\ Release(t, ptr[p])
    /\ UNCHANGED holder

\* A pointer is handed to another thread, in a closure for example.
Send(t, p, to) ==
    /\ Mine(t, {p}) /\ to # t
    /\ holder' = [holder EXCEPT ![p] = to]
    /\ UNCHANGED <<ref_count, state, ptr, call>>

\* The operations on the pointers of P.
PtrStep(t, P) ==
    \/ Delete(t)
    \/ CopyAssignEnd(t)
    \/ \E p \in P :
        \/ Destroy(t, p)
        \/ \E to \in Threads : Send(t, p, to)
        \/ \E src \in P :
            \/ CopyConstruct(t, p, src)
            \/ MoveConstruct(t, p, src)
            \/ CopyAssign(t, p, src)
            \/ MoveAssign(t, p, src)

RefNext ==
    \E t \in Threads :
        \/ PtrStep(t, Ptrs)
        \/ \E p \in Ptrs, o \in Objects : MakeRefCounted(t, p, o)

RefSpec == RefInit /\ [][RefNext]_refVars

-----------------------------------------------------------------------------
(* Properties                                                                *)

RefTypeOK ==
    /\ ref_count \in [Objects -> Nat]
    /\ state \in [Objects -> {"none", "live", "dying", "freed"}]
    /\ ptr \in [Ptrs -> Objects \cup {NoObj}]
    /\ holder \in [Ptrs -> Threads]
    /\ call \in [Threads -> Calls]

\* The references to o: a pointer, or an assignment that has counted its new
\* reference and not stored it yet.
References(o) ==
    {<<"stored", p>> : p \in {p \in Ptrs : ptr[p] = o}} \cup
    {<<"counted", t>> : t \in {t \in Threads :
                                 call[t].op = "assign" /\ ptr[call[t].src] = o}}

\* The count is the number of references, in the middle of the operations of
\* other threads too.
CountsReferences == \A o \in Objects : ref_count[o] = Cardinality(References(o))

\* Nobody has a reference to an object that is being deleted, so AddRef and
\* Release never touch freed memory (the DCHECKs on destruction_started_).
NoDanglingPtr == \A o \in Objects : References(o) # {} => state[o] = "live"

\* An object loses its last reference only to a thread that goes on to delete it,
\* and only to one: Release returns true exactly once.
DeletedByOne ==
    \A o \in Objects :
        LET deleting == {t \in Threads : call[t] = [op |-> "delete", object |-> o]}
        IN  /\ state[o] = "live" => References(o) # {}
            /\ state[o] = "dying" <=> deleting # {}
            /\ \A t, u \in deleting : t = u

\* "foo is the only reference and no other thread can get another reference"
\* (ref_counted.h, comment on HasOneRef): when the thread that has a pointer
\* finds the count at 1, the count stays at 1 until that thread makes a step.
OthersLeaveItAlone ==
    \A p \in Ptrs :
        (ptr[p] # NoObj /\ ref_count[ptr[p]] = 1 /\ ref_count'[ptr[p]] # 1) =>
            \/ call'[holder[p]] # call[holder[p]]
            \/ \E r \in Ptrs : holder[r] = holder[p] /\ ptr'[r] # ptr[r]

OneRefIsStable == [][OthersLeaveItAlone]_refVars
=============================================================================
