-------------------------- MODULE OwnershipProofs ---------------------------
(* What the owners of memory and descriptors promise, for any number of      *)
(* threads, objects, pointers and descriptors: UniqueObject and SharedPtr,   *)
(* then RefPtr and WeakPtr.                                                  *)
EXTENDS WeakPtr, SharedPtr, UniqueObject, FiniteSetTheorems, TLAPS

-----------------------------------------------------------------------------
(* UniqueObject and UniquePtr                                                *)

\* The state is well formed and nothing was closed that was not open.
UniqueTypes ==
    /\ generic \in [Uniques -> Values \cup {InvalidValue}]
    /\ open \in SUBSET Values
    /\ raw \in SUBSET open
    /\ misfreed = FALSE

\* No two objects own the same descriptor.
OneOwner ==
    \A u, w \in Uniques : generic[u] = generic[w] => u = w \/ generic[u] = InvalidValue

\* What an object owns is open and not held by the program.
OwnedIsOpen ==
    \A u \in Uniques : generic[u] # InvalidValue => generic[u] \in open /\ generic[u] \notin raw

\* What is open and not held by the program has an owner: nothing is leaked.
OpenIsOwned ==
    \A v \in open : v \notin raw => \E u \in Uniques : generic[u] = v

\* The inductive invariant: ownership stated object by object.
UniqueInv == UniqueTypes /\ OneOwner /\ OwnedIsOpen /\ OpenIsOwned

\* Nothing is open and no object owns anything at first.
LEMMA UniqueInvInit == UniqueInit => UniqueInv
  BY DEF UniqueInit, UniqueInv, UniqueTypes, OneOwner, OwnedIsOpen, OpenIsOwned

\* A reset closes what the object owned, which was open, and takes a value that
\* nobody else owns.
LEMMA ResetPtrKeeps ==
  ASSUME UniqueInv, NEW u \in Uniques, NEW v \in Values \cup {InvalidValue}, ResetPtr(u, v)
  PROVE  UniqueInv'
<1> USE UniqueAssumption
<1>1. CASE generic[u] = InvalidValue
  BY <1>1 DEF UniqueInv, UniqueTypes, OneOwner, OwnedIsOpen, OpenIsOwned, ResetPtr,
              FreeIfNecessary
<1>2. CASE generic[u] # InvalidValue
  <2>1. misfreed' = FALSE
    BY <1>2 DEF UniqueInv, UniqueTypes, OwnedIsOpen, ResetPtr, FreeIfNecessary, FreeValue
  <2>2. QED
    BY <1>2, <2>1 DEF UniqueInv, UniqueTypes, OneOwner, OwnedIsOpen, OpenIsOwned, ResetPtr,
                      FreeIfNecessary, FreeValue
<1>3. QED
  BY <1>1, <1>2

\* A move closes what the target owned and empties the source, also when the two
\* are the same.
LEMMA MoveAssignPtrKeeps ==
  ASSUME UniqueInv, NEW u \in Uniques, NEW v \in Uniques, MoveAssignPtr(u, v)
  PROVE  UniqueInv'
<1> USE UniqueAssumption
<1>1. CASE u = v \/ generic[u] = InvalidValue
  <2>1. UNCHANGED <<open, misfreed, raw>>
    BY <1>1 DEF MoveAssignPtr, FreeIfNecessary
  <2>2. QED
    BY <1>1, <2>1 DEF UniqueInv, UniqueTypes, OneOwner, OwnedIsOpen, OpenIsOwned, MoveAssignPtr
<1>2. CASE u # v /\ generic[u] # InvalidValue
  <2>1. /\ misfreed' = FALSE
        /\ open' = open \ {generic[u]}
        /\ raw' = raw
    BY <1>2 DEF UniqueInv, UniqueTypes, OwnedIsOpen, MoveAssignPtr, FreeIfNecessary, FreeValue
  <2>2. QED
    BY <1>2, <2>1 DEF UniqueInv, UniqueTypes, OneOwner, OwnedIsOpen, OpenIsOwned, MoveAssignPtr
<1>3. QED
  BY <1>1, <1>2

\* Every operation keeps the invariant.
LEMMA UniqueInvNext == UniqueInv /\ [UniqueNext]_uniqueVars => UniqueInv'
<1> SUFFICES ASSUME UniqueInv, [UniqueNext]_uniqueVars PROVE UniqueInv'
  OBVIOUS
<1> USE UniqueAssumption
<1>1. ASSUME NEW v \in Values, OpenValue(v) PROVE UniqueInv'
  BY <1>1 DEF UniqueInv, UniqueTypes, OneOwner, OwnedIsOpen, OpenIsOwned, OpenValue
<1>2. ASSUME NEW u \in Uniques, NEW v \in Values \cup {InvalidValue},
             Reset(u, v) \/ ResetPtr(u, v)
      PROVE  UniqueInv'
  BY <1>2, ResetPtrKeeps DEF Reset
<1>3. ASSUME NEW u \in Uniques, ReleaseValue(u) PROVE UniqueInv'
  BY <1>3 DEF UniqueInv, UniqueTypes, OneOwner, OwnedIsOpen, OpenIsOwned, ReleaseValue
<1>4. ASSUME NEW u \in Uniques, NEW w \in Uniques,
             MoveAssignValue(u, w) \/ MoveAssignPtr(u, w)
      PROVE  UniqueInv'
  BY <1>4, MoveAssignPtrKeeps DEF MoveAssignValue
<1>5. ASSUME NEW u \in Uniques, NEW w \in Uniques, Swap(u, w) PROVE UniqueInv'
  BY <1>5 DEF UniqueInv, UniqueTypes, OneOwner, OwnedIsOpen, OpenIsOwned, Swap
<1>6. CASE UNCHANGED uniqueVars
  BY <1>6 DEF UniqueInv, UniqueTypes, OneOwner, OwnedIsOpen, OpenIsOwned, uniqueVars
<1>7. QED
  BY <1>1, <1>2, <1>3, <1>4, <1>5, <1>6 DEF UniqueNext

\* Counting owners: at most one, and none for what the program holds.
LEMMA UniqueInvCounts == UniqueInv => OwnedOnce
<1> SUFFICES ASSUME UniqueInv PROVE OwnedOnce
  OBVIOUS
<1> USE UniqueAssumption
<1>1. ~misfreed
  BY DEF UniqueInv, UniqueTypes
<1>2. ASSUME NEW v \in open
      PROVE  Cardinality({u \in Uniques : generic[u] = v}) = IF v \in raw THEN 0 ELSE 1
  <2>1. CASE v \in raw
    <3>1. {u \in Uniques : generic[u] = v} = {}
      BY <2>1 DEF UniqueInv, UniqueTypes, OwnedIsOpen
    <3>2. QED
      BY <2>1, <3>1, FS_EmptySet
  <2>2. CASE v \notin raw
    <3>1. PICK u \in Uniques : generic[u] = v
      BY <2>2 DEF UniqueInv, OpenIsOwned
    <3>2. {w \in Uniques : generic[w] = v} = {u}
      BY <3>1 DEF UniqueInv, UniqueTypes, OneOwner
    <3>3. QED
      BY <2>2, <3>2, FS_Singleton
  <2>3. QED
    BY <2>1, <2>2
<1>3. \A u \in Uniques : generic[u] \in open \cup {InvalidValue}
  BY DEF UniqueInv, OwnedIsOpen
<1>4. QED
  BY <1>1, <1>2, <1>3 DEF OwnedOnce

\* Whatever is moved, swapped, released and reset, an open descriptor has one
\* owner or is held by the program, and none is closed twice: unique_object.h
\* and unique_ptr.h.
THEOREM UniqueOwnedOnce == UniqueSpec => []OwnedOnce
<1>1. UniqueSpec => []UniqueInv
  BY UniqueInvInit, UniqueInvNext, PTL DEF UniqueSpec
<1>2. QED
  BY <1>1, UniqueInvCounts, PTL

-----------------------------------------------------------------------------
(* SharedPtr                                                                 *)

\* A pointer that has dropped its reference and not got the new one.
Halfway(p) == \E t \in SharedThreads : assigning[t] # NotAssigning /\ assigning[t][1] = p

\* The blocks are well formed.
BlockTypes ==
    /\ ref_count_of \in [SharedObjects -> Int]
    /\ block \in [SharedObjects -> {"none", "live", "deleted"}]

\* The pointers are well formed, and no assignment met a dangling one.
PointerTypes ==
    /\ sptr \in [SharedPtrs -> SharedObjects \cup {NoShared}]
    /\ owner \in [SharedPtrs -> SharedThreads]
    /\ fault \in {NoFault, "assigned from an empty pointer", "assigned to itself"}

\* The assignments are well formed.
AssignTypes == assigning \in [SharedThreads -> {NotAssigning} \cup (SharedPtrs \X SharedPtrs)]

\* The state is well formed.
SharedTypes == BlockTypes /\ PointerTypes /\ AssignTypes

\* Who assigns owns both pointers until the end.
AssignsItsOwn ==
    \A t \in SharedThreads : assigning[t] # NotAssigning =>
        /\ assigning[t] \in SharedPtrs \X SharedPtrs
        /\ owner[assigning[t][1]] = t
        /\ owner[assigning[t][2]] = t

\* The count of o is right, and o is there as long as somebody counts.
CountRight(o) ==
    /\ IsFiniteSet(Counted(o))
    /\ ref_count_of[o] = Cardinality(Counted(o))
    /\ block[o] = "live" <=> Counted(o) # {}

\* Every count is right.
CountsRight == \A o \in SharedObjects : CountRight(o)

\* The inductive invariant.
SharedInv == SharedTypes /\ AssignsItsOwn /\ CountsRight

\* Counted, pointer by pointer.
LEMMA CountedForm ==
  \A o : Counted(o) = {p \in SharedPtrs : sptr[p] = o /\ ~Halfway(p)}
  BY DEF Counted, Halfway

\* A pointer whose owner is not in an assignment is not halfway.
LEMMA OwnedIsWhole ==
  ASSUME AssignsItsOwn, NEW t \in SharedThreads, NEW P, Owns(t, P), NEW p \in P
  PROVE  ~Halfway(p)
  BY DEF AssignsItsOwn, Owns, Halfway

\* A step that leaves the pointers of o and its count alone.
LEMMA CountKept ==
  ASSUME NEW o \in SharedObjects, CountRight(o), Counted(o)' = Counted(o),
         ref_count_of'[o] = ref_count_of[o], block'[o] = block[o]
  PROVE  CountRight(o)'
  BY DEF CountRight

\* A step that adds a pointer and counts it.
LEMMA CountGained ==
  ASSUME NEW o \in SharedObjects, CountRight(o), NEW p, p \notin Counted(o),
         Counted(o)' = Counted(o) \cup {p},
         ref_count_of'[o] = ref_count_of[o] + 1, block'[o] = "live"
  PROVE  CountRight(o)'
<1>1. /\ IsFiniteSet(Counted(o) \cup {p})
      /\ Cardinality(Counted(o) \cup {p}) = Cardinality(Counted(o)) + 1
  BY FS_AddElement DEF CountRight
<1>2. p \in Counted(o)'
  OBVIOUS
<1>3. QED
  BY <1>1, <1>2 DEF CountRight

\* A step that takes a pointer away and its reference back.
LEMMA CountLost ==
  ASSUME NEW o \in SharedObjects, CountRight(o), NEW p, p \in Counted(o),
         Counted(o)' = Counted(o) \ {p},
         ref_count_of'[o] = ref_count_of[o] - 1,
         block'[o] = IF ref_count_of[o] = 1 THEN "deleted" ELSE block[o]
  PROVE  CountRight(o)'
<1> DEFINE C == Counted(o)
           D == Counted(o)'
<1>1. /\ IsFiniteSet(C) /\ Cardinality(C) \in Nat /\ ref_count_of[o] = Cardinality(C)
      /\ C # {} /\ D = C \ {p} /\ p \in C /\ block[o] = "live"
  BY FS_CardinalityType DEF CountRight
<1> HIDE DEF C, D
<1>2. IsFiniteSet(D) /\ Cardinality(D) = Cardinality(C) - 1
  BY <1>1, FS_RemoveElement
<1>3. D = {} <=> Cardinality(D) = 0
  BY <1>2, FS_EmptySet
<1>4. D = {} <=> ref_count_of[o] = 1
  BY <1>1, <1>2, <1>3
<1>5. block'[o] = "live" <=> D # {}
  BY <1>1, <1>4
<1>6. ref_count_of'[o] = Cardinality(D)
  BY <1>1, <1>2
<1>7. QED
  BY <1>2, <1>5, <1>6 DEF CountRight, D

\* A step that replaces a pointer by another.
LEMMA CountMoved ==
  ASSUME NEW o \in SharedObjects, CountRight(o), NEW p, p \in Counted(o),
         NEW q, q \notin Counted(o), Counted(o)' = (Counted(o) \ {p}) \cup {q},
         ref_count_of'[o] = ref_count_of[o], block'[o] = block[o]
  PROVE  CountRight(o)'
<1> DEFINE C == Counted(o)
           D == Counted(o)'
<1>1. /\ IsFiniteSet(C) /\ Cardinality(C) \in Nat /\ ref_count_of[o] = Cardinality(C)
      /\ D = (C \ {p}) \cup {q} /\ p \in C /\ q \notin C /\ block[o] = "live"
  BY FS_CardinalityType DEF CountRight
<1> HIDE DEF C, D
<1>2. IsFiniteSet(C \ {p}) /\ Cardinality(C \ {p}) = Cardinality(C) - 1
  BY <1>1, FS_RemoveElement
<1>3. IsFiniteSet(D) /\ Cardinality(D) = Cardinality(C \ {p}) + 1
  BY <1>1, <1>2, FS_AddElement
<1>4. Cardinality(D) = Cardinality(C)
  BY <1>1, <1>2, <1>3
<1>5. D # {}
  BY <1>1
<1>6. QED
  BY <1>1, <1>3, <1>4, <1>5 DEF CountRight, D

\* What MaybeDestroy does to each object.
LEMMA MaybeDestroyForm ==
  ASSUME BlockTypes, NEW a \in SharedObjects \cup {NoShared}, MaybeDestroy(a)
  PROVE  /\ ref_count_of' \in [SharedObjects -> Int]
         /\ block' \in [SharedObjects -> {"none", "live", "deleted"}]
         /\ \A o \in SharedObjects :
              IF o = a
              THEN /\ ref_count_of'[o] = ref_count_of[o] - 1
                   /\ block'[o] = IF ref_count_of[o] = 1 THEN "deleted" ELSE block[o]
              ELSE ref_count_of'[o] = ref_count_of[o] /\ block'[o] = block[o]
<1>1. CASE a = NoShared
  BY <1>1, SharedAssumption DEF BlockTypes, MaybeDestroy
<1>2. CASE a # NoShared
  <2>1. /\ ref_count_of' = [ref_count_of EXCEPT ![a] = ref_count_of[a] + (-1)]
        /\ block' = [block EXCEPT ![a] =
                       IF ref_count_of[a] = 1 THEN "deleted" ELSE block[a]]
    BY <1>2 DEF MaybeDestroy, FetchAdd
  <2>2. QED
    BY <1>2, <2>1 DEF BlockTypes
<1>3. QED
  BY <1>1, <1>2

\* What Ref does to each object.
LEMMA RefForm ==
  ASSUME BlockTypes, NEW a \in SharedObjects \cup {NoShared}, Ref(a)
  PROVE  /\ ref_count_of' \in [SharedObjects -> Int]
         /\ \A o \in SharedObjects :
              ref_count_of'[o] = IF o = a THEN ref_count_of[o] + 1 ELSE ref_count_of[o]
<1>1. CASE a = NoShared
  BY <1>1, SharedAssumption DEF BlockTypes, Ref
<1>2. CASE a # NoShared
  <2>1. ref_count_of' = [ref_count_of EXCEPT ![a] = ref_count_of[a] + 1]
    BY <1>2 DEF Ref, FetchAdd
  <2>2. QED
    BY <1>2, <2>1 DEF BlockTypes
<1>3. QED
  BY <1>1, <1>2

\* As long as the assignments stand still, so do the pointers that are halfway.
LEMMA HalfwayKept ==
  ASSUME NEW p, UNCHANGED assigning
  PROVE  Halfway(p)' <=> Halfway(p)
  BY DEF Halfway

\* Counted after a step in which no assignment begins or ends.
LEMMA CountedNext ==
  ASSUME NEW o, UNCHANGED assigning
  PROVE  Counted(o)' = {p \in SharedPtrs : sptr'[p] = o /\ ~Halfway(p)}
  BY HalfwayKept DEF Counted, Halfway

\* No object, no pointer and no assignment at first.
LEMMA SharedInvInit == SharedInit => SharedInv
<1> SUFFICES ASSUME SharedInit PROVE SharedInv
  OBVIOUS
<1>1. SharedTypes
  BY DEF SharedInit, SharedTypes, BlockTypes, PointerTypes, AssignTypes, NoFault
<1>2. AssignsItsOwn
  BY DEF SharedInit, AssignsItsOwn
<1>3. ASSUME NEW o \in SharedObjects PROVE CountRight(o)
  <2>1. Counted(o) = {}
    BY SharedAssumption DEF SharedInit, Counted
  <2>2. ref_count_of[o] = 0 /\ block[o] # "live"
    BY DEF SharedInit
  <2>3. QED
    BY <2>1, <2>2, FS_EmptySet DEF CountRight
<1>4. QED
  BY <1>1, <1>2, <1>3 DEF SharedInv, CountsRight

\* The constructor: the object had no pointer and has one.
LEMMA MakeSharedKeeps ==
  ASSUME SharedInv, NEW t \in SharedThreads, NEW p \in SharedPtrs,
         NEW a \in SharedObjects, MakeShared(t, p, a)
  PROVE  SharedInv'
<1> USE SharedAssumption
<1>1. SharedTypes'
  <2>1. BlockTypes'
    BY DEF SharedInv, SharedTypes, BlockTypes, MakeShared
  <2>2. PointerTypes'
    BY DEF SharedInv, SharedTypes, PointerTypes, MakeShared
  <2>3. AssignTypes'
    BY DEF SharedInv, SharedTypes, AssignTypes, MakeShared
  <2>4. QED
    BY <2>1, <2>2, <2>3 DEF SharedTypes
<1>2. AssignsItsOwn'
  BY DEF SharedInv, AssignsItsOwn, MakeShared
<1>3. ASSUME NEW o \in SharedObjects PROVE CountRight(o)'
  <2>1. CountRight(o) /\ sptr[p] = NoShared
    BY DEF SharedInv, CountsRight, MakeShared
  <2>2. ~Halfway(p)
    BY OwnedIsWhole DEF SharedInv, MakeShared
  <2>4. Counted(o) = {q \in SharedPtrs : sptr[q] = o /\ ~Halfway(q)}
    BY CountedForm
  <2>5. Counted(o)' = {q \in SharedPtrs : sptr'[q] = o /\ ~Halfway(q)}
    BY CountedNext DEF MakeShared
  <2>6. CASE o = a
    <3>1. p \notin Counted(o)
      BY <2>1, <2>4, SharedAssumption
    <3>2. Counted(o)' = Counted(o) \cup {p}
      BY <2>2, <2>4, <2>5, <2>6 DEF SharedInv, SharedTypes, PointerTypes, MakeShared
    <3>3. Counted(o) = {}
      BY <2>1, <2>6 DEF CountRight, MakeShared
    <3>4. ref_count_of[o] = 0
      BY <2>1, <3>3, FS_EmptySet DEF CountRight
    <3>5. ref_count_of'[o] = ref_count_of[o] + 1 /\ block'[o] = "live"
      BY <2>6, <3>4 DEF SharedInv, SharedTypes, BlockTypes, MakeShared
    <3>6. QED
      BY <2>1, <3>1, <3>2, <3>5, CountGained
  <2>7. CASE o # a
    <3>1. Counted(o)' = Counted(o)
      BY <2>1, <2>4, <2>5, <2>7, SharedAssumption
         DEF SharedInv, SharedTypes, PointerTypes, MakeShared
    <3>2. ref_count_of'[o] = ref_count_of[o] /\ block'[o] = block[o]
      BY <2>7 DEF SharedInv, SharedTypes, BlockTypes, MakeShared
    <3>3. QED
      BY <2>1, <3>1, <3>2, CountKept
  <2>8. QED
    BY <2>6, <2>7
<1>4. QED
  BY <1>1, <1>2, <1>3 DEF SharedInv, CountsRight

\* The types survive a step that leaves the assignments alone.
LEMMA TypesKept ==
  ASSUME SharedInv, BlockTypes', PointerTypes', UNCHANGED <<owner, assigning>>
  PROVE  SharedTypes' /\ AssignsItsOwn'
  BY DEF SharedInv, SharedTypes, AssignTypes, AssignsItsOwn

\* The copy constructor: the source's object gains a pointer.
LEMMA CopySharedKeeps ==
  ASSUME SharedInv, NEW t \in SharedThreads, NEW dst \in SharedPtrs, NEW src \in SharedPtrs,
         CopyShared(t, dst, src)
  PROVE  SharedInv'
<1>0. BlockTypes /\ PointerTypes /\ sptr[src] \in SharedObjects \cup {NoShared}
  BY DEF SharedInv, SharedTypes, PointerTypes
<1>1. /\ ref_count_of' \in [SharedObjects -> Int]
      /\ \A o \in SharedObjects :
            ref_count_of'[o] = IF o = sptr[src] THEN ref_count_of[o] + 1 ELSE ref_count_of[o]
  BY <1>0, RefForm DEF CopyShared
<1>2. BlockTypes' /\ PointerTypes'
  BY <1>0, <1>1 DEF BlockTypes, PointerTypes, CopyShared
<1>3. SharedTypes' /\ AssignsItsOwn'
  BY <1>2, TypesKept DEF CopyShared
<1>4. ~Halfway(dst) /\ ~Halfway(src) /\ sptr[dst] = NoShared
  BY OwnedIsWhole DEF SharedInv, CopyShared
<1>5. ASSUME NEW o \in SharedObjects PROVE CountRight(o)'
  <2>1. CountRight(o)
    BY DEF SharedInv, CountsRight
  <2>2. Counted(o) = {q \in SharedPtrs : sptr[q] = o /\ ~Halfway(q)}
    BY CountedForm
  <2>3. Counted(o)' = {q \in SharedPtrs : sptr'[q] = o /\ ~Halfway(q)}
    BY CountedNext DEF CopyShared
  <2>4. \A q \in SharedPtrs : sptr'[q] = IF q = dst THEN sptr[src] ELSE sptr[q]
    BY <1>0 DEF PointerTypes, CopyShared
  <2>5. block'[o] = block[o]
    BY DEF CopyShared
  <2>6. CASE o = sptr[src]
    <3>1. dst \notin Counted(o) /\ src \in Counted(o)
      BY <1>4, <2>2, <2>6, SharedAssumption
    <3>2. Counted(o)' = Counted(o) \cup {dst}
      BY <1>4, <2>2, <2>3, <2>4, <2>6
    <3>3. block'[o] = "live"
      BY <2>1, <2>5, <3>1 DEF CountRight
    <3>4. QED
      BY <1>1, <2>1, <2>6, <3>1, <3>2, <3>3, CountGained
  <2>7. CASE o # sptr[src]
    <3>1. Counted(o)' = Counted(o)
      BY <1>4, <2>2, <2>3, <2>4, <2>7, SharedAssumption
    <3>2. QED
      BY <1>1, <2>1, <2>5, <2>7, <3>1, CountKept
  <2>8. QED
    BY <2>6, <2>7
<1>6. QED
  BY <1>3, <1>5 DEF SharedInv, CountsRight

\* The move constructor: the object exchanges a pointer for another.
LEMMA MoveSharedKeeps ==
  ASSUME SharedInv, NEW t \in SharedThreads, NEW dst \in SharedPtrs, NEW src \in SharedPtrs,
         MoveShared(t, dst, src)
  PROVE  SharedInv'
<1>0. BlockTypes /\ PointerTypes
  BY DEF SharedInv, SharedTypes
<1>2. BlockTypes' /\ PointerTypes'
  BY <1>0 DEF BlockTypes, PointerTypes, MoveShared
<1>3. SharedTypes' /\ AssignsItsOwn'
  BY <1>2, TypesKept DEF MoveShared
<1>4. ~Halfway(dst) /\ ~Halfway(src) /\ sptr[dst] = NoShared /\ dst # src
  BY OwnedIsWhole DEF SharedInv, MoveShared
<1>5. ASSUME NEW o \in SharedObjects PROVE CountRight(o)'
  <2>1. CountRight(o)
    BY DEF SharedInv, CountsRight
  <2>2. Counted(o) = {q \in SharedPtrs : sptr[q] = o /\ ~Halfway(q)}
    BY CountedForm
  <2>3. Counted(o)' = {q \in SharedPtrs : sptr'[q] = o /\ ~Halfway(q)}
    BY CountedNext DEF MoveShared
  <2>4. \A q \in SharedPtrs : sptr'[q] =
            IF q = src THEN NoShared ELSE IF q = dst THEN sptr[src] ELSE sptr[q]
    BY <1>0, <1>4 DEF PointerTypes, MoveShared
  <2>5. ref_count_of'[o] = ref_count_of[o] /\ block'[o] = block[o]
    BY DEF MoveShared
  <2>6. CASE o = sptr[src]
    <3>1. dst \notin Counted(o) /\ src \in Counted(o)
      BY <1>4, <2>2, <2>6, SharedAssumption
    <3>2. Counted(o)' = (Counted(o) \ {src}) \cup {dst}
      BY <1>4, <2>2, <2>3, <2>4, <2>6, SharedAssumption
    <3>3. QED
      BY <2>1, <2>5, <3>1, <3>2, CountMoved
  <2>7. CASE o # sptr[src]
    <3>1. Counted(o)' = Counted(o)
      BY <1>4, <2>2, <2>3, <2>4, <2>7, SharedAssumption
    <3>2. QED
      BY <2>1, <2>5, <3>1, CountKept
  <2>8. QED
    BY <2>6, <2>7
<1>6. QED
  BY <1>3, <1>5 DEF SharedInv, CountsRight

\* reset and the destructor: the object loses the pointer.
LEMMA ResetSharedKeeps ==
  ASSUME SharedInv, NEW t \in SharedThreads, NEW p \in SharedPtrs, ResetShared(t, p)
  PROVE  SharedInv'
<1>0. BlockTypes /\ PointerTypes /\ sptr[p] \in SharedObjects \cup {NoShared}
  BY DEF SharedInv, SharedTypes, PointerTypes
<1>1. /\ ref_count_of' \in [SharedObjects -> Int]
      /\ block' \in [SharedObjects -> {"none", "live", "deleted"}]
      /\ \A o \in SharedObjects :
            IF o = sptr[p]
            THEN /\ ref_count_of'[o] = ref_count_of[o] - 1
                 /\ block'[o] = IF ref_count_of[o] = 1 THEN "deleted" ELSE block[o]
            ELSE ref_count_of'[o] = ref_count_of[o] /\ block'[o] = block[o]
  BY <1>0, MaybeDestroyForm DEF ResetShared
<1>2. BlockTypes' /\ PointerTypes'
  BY <1>0, <1>1 DEF BlockTypes, PointerTypes, ResetShared
<1>3. SharedTypes' /\ AssignsItsOwn'
  BY <1>2, TypesKept DEF ResetShared
<1>4. ~Halfway(p)
  BY OwnedIsWhole DEF SharedInv, ResetShared
<1>5. ASSUME NEW o \in SharedObjects PROVE CountRight(o)'
  <2>1. CountRight(o)
    BY DEF SharedInv, CountsRight
  <2>2. Counted(o) = {q \in SharedPtrs : sptr[q] = o /\ ~Halfway(q)}
    BY CountedForm
  <2>3. Counted(o)' = {q \in SharedPtrs : sptr'[q] = o /\ ~Halfway(q)}
    BY CountedNext DEF ResetShared
  <2>4. \A q \in SharedPtrs : sptr'[q] = IF q = p THEN NoShared ELSE sptr[q]
    BY <1>0 DEF PointerTypes, ResetShared
  <2>6. CASE o = sptr[p]
    <3>1. p \in Counted(o)
      BY <1>4, <2>2, <2>6
    <3>2. Counted(o)' = Counted(o) \ {p}
      BY <2>2, <2>3, <2>4, SharedAssumption
    <3>3. QED
      BY <1>1, <2>1, <2>6, <3>1, <3>2, CountLost
  <2>7. CASE o # sptr[p]
    <3>1. Counted(o)' = Counted(o)
      BY <2>2, <2>3, <2>4, <2>7, SharedAssumption
    <3>2. QED
      BY <1>1, <2>1, <2>7, <3>1, CountKept
  <2>8. QED
    BY <2>6, <2>7
<1>6. QED
  BY <1>3, <1>5 DEF SharedInv, CountsRight

\* operator=(SharedPtr&&): the target's object loses a pointer, the source's
\* exchanges one; they may be the same object, and the same pointer.
LEMMA MoveAssignSharedKeeps ==
  ASSUME SharedInv, NEW t \in SharedThreads, NEW dst \in SharedPtrs, NEW src \in SharedPtrs,
         MoveAssignShared(t, dst, src)
  PROVE  SharedInv'
<1>0. BlockTypes /\ PointerTypes /\ sptr[dst] \in SharedObjects \cup {NoShared}
  BY DEF SharedInv, SharedTypes, PointerTypes
<1>1. /\ ref_count_of' \in [SharedObjects -> Int]
      /\ block' \in [SharedObjects -> {"none", "live", "deleted"}]
      /\ \A o \in SharedObjects :
            IF o = sptr[dst]
            THEN /\ ref_count_of'[o] = ref_count_of[o] - 1
                 /\ block'[o] = IF ref_count_of[o] = 1 THEN "deleted" ELSE block[o]
            ELSE ref_count_of'[o] = ref_count_of[o] /\ block'[o] = block[o]
  BY <1>0, MaybeDestroyForm DEF MoveAssignShared
<1>2. BlockTypes' /\ PointerTypes'
  BY <1>0, <1>1 DEF BlockTypes, PointerTypes, MoveAssignShared
<1>3. SharedTypes' /\ AssignsItsOwn'
  BY <1>2, TypesKept DEF MoveAssignShared
<1>4. ~Halfway(dst) /\ ~Halfway(src)
  BY OwnedIsWhole DEF SharedInv, MoveAssignShared
<1>5. ASSUME NEW o \in SharedObjects PROVE CountRight(o)'
  <2>1. CountRight(o)
    BY DEF SharedInv, CountsRight
  <2>2. Counted(o) = {q \in SharedPtrs : sptr[q] = o /\ ~Halfway(q)}
    BY CountedForm
  <2>3. Counted(o)' = {q \in SharedPtrs : sptr'[q] = o /\ ~Halfway(q)}
    BY CountedNext DEF MoveAssignShared
  <2>4. \A q \in SharedPtrs : sptr'[q] =
            IF q = src THEN NoShared ELSE IF q = dst THEN sptr[src] ELSE sptr[q]
    BY <1>0 DEF PointerTypes, MoveAssignShared
  <2>5. CASE o = sptr[dst] /\ o = sptr[src]
    <3>1. src \in Counted(o)
      BY <1>4, <2>2, <2>5
    <3>2. Counted(o)' = Counted(o) \ {src}
      BY <2>2, <2>3, <2>4, <2>5, SharedAssumption
    <3>3. QED
      BY <1>1, <2>1, <2>5, <3>1, <3>2, CountLost
  <2>6. CASE o = sptr[dst] /\ o # sptr[src]
    <3>1. dst \in Counted(o)
      BY <1>4, <2>2, <2>6
    <3>2. Counted(o)' = Counted(o) \ {dst}
      BY <2>2, <2>3, <2>4, <2>6, SharedAssumption
    <3>3. QED
      BY <1>1, <2>1, <2>6, <3>1, <3>2, CountLost
  <2>7. CASE o # sptr[dst] /\ o = sptr[src]
    <3>1. src \in Counted(o) /\ dst \notin Counted(o)
      BY <1>4, <2>2, <2>7
    <3>2. Counted(o)' = (Counted(o) \ {src}) \cup {dst}
      BY <1>4, <2>2, <2>3, <2>4, <2>7, SharedAssumption
    <3>3. QED
      BY <1>1, <2>1, <2>7, <3>1, <3>2, CountMoved
  <2>8. CASE o # sptr[dst] /\ o # sptr[src]
    <3>1. Counted(o)' = Counted(o)
      BY <2>2, <2>3, <2>4, <2>8, SharedAssumption
    <3>2. QED
      BY <1>1, <2>1, <2>8, <3>1, CountKept
  <2>9. QED
    BY <2>5, <2>6, <2>7, <2>8
<1>6. QED
  BY <1>3, <1>5 DEF SharedInv, CountsRight

\* The first half of operator=(const SharedPtr&): the target is halfway, and its
\* object loses it.
LEMMA AssignSharedKeeps ==
  ASSUME SharedInv, NEW t \in SharedThreads, NEW dst \in SharedPtrs, NEW src \in SharedPtrs,
         AssignShared(t, dst, src)
  PROVE  SharedInv'
<1>0. /\ BlockTypes /\ PointerTypes /\ AssignTypes /\ AssignsItsOwn
      /\ sptr[dst] \in SharedObjects \cup {NoShared}
  BY DEF SharedInv, SharedTypes, PointerTypes
<1>1. /\ ref_count_of' \in [SharedObjects -> Int]
      /\ block' \in [SharedObjects -> {"none", "live", "deleted"}]
      /\ \A o \in SharedObjects :
            IF o = sptr[dst]
            THEN /\ ref_count_of'[o] = ref_count_of[o] - 1
                 /\ block'[o] = IF ref_count_of[o] = 1 THEN "deleted" ELSE block[o]
            ELSE ref_count_of'[o] = ref_count_of[o] /\ block'[o] = block[o]
  BY <1>0, MaybeDestroyForm DEF AssignShared
<1>2. BlockTypes' /\ PointerTypes'
  BY <1>0, <1>1 DEF BlockTypes, PointerTypes, AssignShared
<1>3. /\ \A u \in SharedThreads : u # t => assigning'[u] = assigning[u]
      /\ assigning[t] = NotAssigning
      /\ assigning'[t] # NotAssigning
      /\ assigning'[t] \in SharedPtrs \X SharedPtrs
      /\ assigning'[t][1] = dst /\ assigning'[t][2] = src
  BY <1>0 DEF AssignTypes, AssignShared, NotAssigning, Owns
<1>4. AssignTypes'
  BY <1>0 DEF AssignTypes, AssignShared
<1>5. owner' = owner /\ owner[dst] = t /\ owner[src] = t /\ sptr' = sptr
  BY DEF AssignShared, Owns
<1>6. AssignsItsOwn'
  BY <1>0, <1>3, <1>5 DEF AssignsItsOwn
<1>7. ~Halfway(dst)
  BY <1>0, OwnedIsWhole DEF AssignShared
<1>8. \A q : Halfway(q)' <=> Halfway(q) \/ q = dst
  BY <1>3 DEF Halfway
<1>9. ASSUME NEW o \in SharedObjects PROVE CountRight(o)'
  <2>1. CountRight(o)
    BY DEF SharedInv, CountsRight
  <2>2. Counted(o) = {q \in SharedPtrs : sptr[q] = o /\ ~Halfway(q)}
    BY CountedForm
  <2>3. Counted(o)' = {q \in SharedPtrs : sptr[q] = o /\ ~Halfway(q)'}
    BY <1>5 DEF Counted, Halfway
  <2>4. Counted(o)' = Counted(o) \ {dst}
    BY <1>8, <2>2, <2>3
  <2>5. CASE o = sptr[dst]
    <3>1. dst \in Counted(o)
      BY <1>7, <2>2, <2>5
    <3>2. QED
      BY <1>1, <2>1, <2>4, <2>5, <3>1, CountLost
  <2>6. CASE o # sptr[dst]
    <3>1. Counted(o)' = Counted(o)
      BY <2>2, <2>4, <2>6
    <3>2. QED
      BY <1>1, <2>1, <2>6, <3>1, CountKept
  <2>7. QED
    BY <2>5, <2>6
<1>10. QED
  BY <1>2, <1>4, <1>6, <1>9 DEF SharedInv, SharedTypes, CountsRight

\* The second half: the source's object gains the target, unless there is none,
\* or the two pointers are one and the first half deleted what it pointed to.  A
\* source of its own still counts, so its object is there.
LEMMA AssignSharedEndKeeps ==
  ASSUME SharedInv, NEW t \in SharedThreads, AssignSharedEnd(t)
  PROVE  SharedInv'
<1>0. BlockTypes /\ PointerTypes /\ AssignTypes /\ AssignsItsOwn
  BY DEF SharedInv, SharedTypes
<1> DEFINE dst == assigning[t][1]
           src == assigning[t][2]
           a == sptr[src]
<1>1. /\ assigning[t] # NotAssigning
      /\ dst \in SharedPtrs /\ src \in SharedPtrs
      /\ owner[dst] = t /\ owner[src] = t
      /\ a \in SharedObjects \cup {NoShared}
  <2>1. assigning[t] # NotAssigning
    BY DEF AssignSharedEnd
  <2>2. dst \in SharedPtrs /\ src \in SharedPtrs /\ owner[dst] = t /\ owner[src] = t
    BY <1>0, <2>1 DEF AssignsItsOwn
  <2>3. QED
    BY <1>0, <2>1, <2>2 DEF PointerTypes
<1>2. Halfway(dst) /\ (src # dst => ~Halfway(src))
  BY <1>0, <1>1 DEF Halfway, AssignsItsOwn
<1>3. CASE a # NoShared /\ block[a] = "live"
  <2>0. a \in SharedObjects
    BY <1>1, <1>3
  <2>1. /\ Ref(a)
        /\ sptr' = [sptr EXCEPT ![dst] = a]
        /\ assigning' = [assigning EXCEPT ![t] = NotAssigning]
        /\ UNCHANGED <<fault, block, owner>>
    BY <1>3 DEF AssignSharedEnd
  <2>2. /\ ref_count_of' \in [SharedObjects -> Int]
        /\ \A o \in SharedObjects :
              ref_count_of'[o] = IF o = a THEN ref_count_of[o] + 1 ELSE ref_count_of[o]
    BY <1>0, <1>1, <2>1, RefForm
  <2> HIDE DEF a, dst, src
  <2>3. BlockTypes' /\ PointerTypes'
    BY <1>0, <1>1, <2>1, <2>2 DEF BlockTypes, PointerTypes
  <2>4. AssignTypes'
    BY <1>0, <2>1 DEF AssignTypes
  <2>5. /\ \A u \in SharedThreads : u # t => assigning'[u] = assigning[u]
        /\ assigning'[t] = NotAssigning
    BY <1>0, <2>1 DEF AssignTypes
  <2>6. AssignsItsOwn'
    BY <1>0, <2>1, <2>5 DEF AssignsItsOwn
  <2>7. \A q : Halfway(q)' <=> Halfway(q) /\ q # dst
    BY <1>0, <1>1, <2>5 DEF Halfway, AssignsItsOwn, dst
  <2>8. \A q \in SharedPtrs : sptr'[q] = IF q = dst THEN a ELSE sptr[q]
    BY <1>0, <2>1 DEF PointerTypes
  <2>9. ASSUME NEW o \in SharedObjects PROVE CountRight(o)'
    <3>1. CountRight(o)
      BY DEF SharedInv, CountsRight
    <3>2. Counted(o) = {q \in SharedPtrs : sptr[q] = o /\ ~Halfway(q)}
      BY CountedForm
    <3>3. Counted(o)' = {q \in SharedPtrs : sptr'[q] = o /\ ~Halfway(q)'}
      BY DEF Counted, Halfway
    <3>4. CASE o = a
      <4>1. dst \notin Counted(o)
        BY <1>2, <3>2
      <4>2. Counted(o)' = Counted(o) \cup {dst}
        BY <1>1, <2>7, <2>8, <3>2, <3>3, <3>4
      <4>3. block'[o] = "live"
        BY <1>3, <2>1, <3>4
      <4>4. QED
        BY <2>2, <3>1, <3>4, <4>1, <4>2, <4>3, CountGained
    <3>5. CASE o # a
      <4>1. Counted(o)' = Counted(o)
        BY <1>2, <2>7, <2>8, <3>2, <3>3, <3>5
      <4>2. QED
        BY <2>1, <2>2, <3>1, <3>5, <4>1, CountKept
    <3>6. QED
      BY <3>4, <3>5
  <2>10. QED
    BY <2>3, <2>4, <2>6, <2>9 DEF SharedInv, SharedTypes, CountsRight
<1>4. CASE ~(a # NoShared /\ block[a] = "live")
  <2>1. /\ UNCHANGED <<ref_count_of, sptr, assigning, block, owner>>
        /\ fault' = CASE a = NoShared -> "assigned from an empty pointer"
                      [] a # NoShared /\ dst = src -> "assigned to itself"
                      [] OTHER -> "assigned from a dangling pointer"
    BY <1>4 DEF AssignSharedEnd
  <2>2. ASSUME a # NoShared, dst # src PROVE FALSE
    <3>1. a \in SharedObjects
      BY <1>1, <2>2
    <3>2. src \in Counted(a)
      BY <1>1, <1>2, <2>2, CountedForm
    <3>3. CountRight(a)
      BY <3>1 DEF SharedInv, CountsRight
    <3>4. block[a] = "live"
      BY <3>2, <3>3 DEF CountRight
    <3>5. QED
      BY <1>4, <2>2, <3>4
  <2> HIDE DEF a, dst, src
  <2>3. fault' \in {"assigned from an empty pointer", "assigned to itself"}
    BY <2>1, <2>2
  <2>4. BlockTypes' /\ PointerTypes'
    BY <1>0, <2>1, <2>3 DEF BlockTypes, PointerTypes
  <2>5. SharedTypes' /\ AssignsItsOwn'
    BY <2>1, <2>4, TypesKept
  <2>6. ASSUME NEW o \in SharedObjects PROVE CountRight(o)'
    <3>1. Counted(o)' = Counted(o) /\ CountRight(o)
      BY <2>1 DEF Counted, SharedInv, CountsRight
    <3>2. QED
      BY <2>1, <3>1, CountKept
  <2>7. QED
    BY <2>5, <2>6 DEF SharedInv, CountsRight
<1>5. QED
  BY <1>3, <1>4

\* A pointer changes hands: nobody is in the middle of assigning to it.
LEMMA SendSharedKeeps ==
  ASSUME SharedInv, NEW t \in SharedThreads, NEW p \in SharedPtrs, NEW to \in SharedThreads,
         SendShared(t, p, to)
  PROVE  SharedInv'
<1>1. BlockTypes' /\ PointerTypes' /\ AssignTypes'
  BY DEF SharedInv, SharedTypes, BlockTypes, PointerTypes, AssignTypes, SendShared
<1>2. AssignsItsOwn'
  <2>1. /\ assigning' = assigning /\ assigning[t] = NotAssigning /\ owner[p] = t
        /\ \A q \in SharedPtrs : q # p => owner'[q] = owner[q]
    BY DEF SharedInv, SharedTypes, PointerTypes, SendShared, Owns
  <2>2. ASSUME NEW u \in SharedThreads, assigning[u] # NotAssigning
        PROVE  /\ assigning[u] \in SharedPtrs \X SharedPtrs
               /\ owner'[assigning[u][1]] = u /\ owner'[assigning[u][2]] = u
    <3>1. /\ assigning[u] \in SharedPtrs \X SharedPtrs
          /\ owner[assigning[u][1]] = u /\ owner[assigning[u][2]] = u
      BY <2>2 DEF SharedInv, AssignsItsOwn
    <3>2. assigning[u][1] # p /\ assigning[u][2] # p
      BY <2>1, <2>2, <3>1
    <3>3. assigning[u][1] \in SharedPtrs /\ assigning[u][2] \in SharedPtrs
      BY <3>1
    <3>4. QED
      BY <2>1, <3>1, <3>2, <3>3
  <2>3. QED
    BY <2>1, <2>2 DEF AssignsItsOwn
<1>3. ASSUME NEW o \in SharedObjects PROVE CountRight(o)'
  <2>1. Counted(o)' = Counted(o) /\ CountRight(o)
    BY DEF Counted, SharedInv, CountsRight, SendShared
  <2>2. QED
    BY <2>1, CountKept DEF SendShared
<1>4. QED
  BY <1>1, <1>2, <1>3 DEF SharedInv, SharedTypes, CountsRight

\* A new process begins as the first did.
LEMMA RestartKeeps == SharedInv /\ Restart => SharedInv'
<1> SUFFICES ASSUME SharedInv, Restart PROVE SharedInv'
  OBVIOUS
<1>1. BlockTypes' /\ AssignTypes'
  BY DEF BlockTypes, AssignTypes, Restart
<1>2. PointerTypes'
  BY DEF SharedInv, SharedTypes, PointerTypes, Restart
<1>3. AssignsItsOwn'
  BY DEF AssignsItsOwn, Restart
<1>4. ASSUME NEW o \in SharedObjects PROVE CountRight(o)'
  <2>1. Counted(o)' = {}
    BY SharedAssumption DEF Restart, Counted
  <2>2. ref_count_of'[o] = 0 /\ block'[o] # "live"
    BY DEF Restart
  <2>3. QED
    BY <2>1, <2>2, FS_EmptySet DEF CountRight
<1>5. QED
  BY <1>1, <1>2, <1>3, <1>4 DEF SharedInv, SharedTypes, CountsRight

\* Every step of every thread keeps the invariant.
LEMMA SharedInvNext == SharedInv /\ [SharedNext]_sharedVars => SharedInv'
<1> SUFFICES ASSUME SharedInv, [SharedNext]_sharedVars PROVE SharedInv'
  OBVIOUS
<1>1. ASSUME NEW t \in SharedThreads, AssignSharedEnd(t) PROVE SharedInv'
  BY <1>1, AssignSharedEndKeeps
<1>2. ASSUME NEW t \in SharedThreads, NEW p \in SharedPtrs, NEW o \in SharedObjects,
             MakeShared(t, p, o)
      PROVE  SharedInv'
  BY <1>2, MakeSharedKeeps
<1>3. ASSUME NEW t \in SharedThreads, NEW p \in SharedPtrs, NEW q \in SharedPtrs,
             \/ CopyShared(t, p, q) \/ MoveShared(t, p, q)
             \/ AssignShared(t, p, q) \/ MoveAssignShared(t, p, q)
      PROVE  SharedInv'
  BY <1>3, CopySharedKeeps, MoveSharedKeeps, AssignSharedKeeps, MoveAssignSharedKeeps
<1>4. ASSUME NEW t \in SharedThreads, NEW p \in SharedPtrs, ResetShared(t, p)
      PROVE  SharedInv'
  BY <1>4, ResetSharedKeeps
<1>5. ASSUME NEW t \in SharedThreads, NEW p \in SharedPtrs, NEW to \in SharedThreads,
             SendShared(t, p, to)
      PROVE  SharedInv'
  BY <1>5, SendSharedKeeps
<1>6. CASE UNCHANGED sharedVars
  <2>1. SharedTypes' /\ AssignsItsOwn'
    BY <1>6 DEF SharedInv, SharedTypes, BlockTypes, PointerTypes, AssignTypes, AssignsItsOwn,
                sharedVars
  <2>2. ASSUME NEW o \in SharedObjects PROVE CountRight(o)'
    <3>1. Counted(o)' = Counted(o) /\ CountRight(o)
      BY <1>6 DEF Counted, SharedInv, CountsRight, sharedVars
    <3>2. QED
      BY <1>6, <3>1, CountKept DEF sharedVars
  <2>3. QED
    BY <2>1, <2>2 DEF SharedInv, CountsRight
<1>7. QED
  BY <1>1, <1>2, <1>3, <1>4, <1>5, <1>6, RestartKeeps DEF SharedNext

\* Whatever the threads do with their SharedPtrs, counts are right, objects live
\* exactly as long as they are counted, and no assignment meets a block that
\* another thread deleted: shared_ptr.h.
THEOREM SharedCountsHold == SharedSpec => []SharedCounts
<1>1. SharedSpec => []SharedInv
  BY SharedInvInit, SharedInvNext, PTL DEF SharedSpec
<1>2. SharedInv => SharedCounts
  <2> SUFFICES ASSUME SharedInv PROVE SharedCounts
    OBVIOUS
  <2>1. fault # "assigned from a dangling pointer"
    BY DEF SharedInv, SharedTypes, PointerTypes, NoFault
  <2>2. ASSUME NEW o \in SharedObjects
        PROVE  /\ block[o] = "live" => Counted(o) # {}
               /\ \A p \in Counted(o) : use_count(p) = Cardinality(Counted(o))
               /\ block[o] # "live" => Counted(o) = {}
    <3>1. CountRight(o)
      BY DEF SharedInv, CountsRight
    <3>2. ASSUME NEW p \in Counted(o) PROVE use_count(p) = Cardinality(Counted(o))
      <4>1. sptr[p] = o
        BY CountedForm
      <4>2. use_count(p) = ref_count_of[o]
        BY <4>1, SharedAssumption DEF use_count
      <4>3. QED
        BY <3>1, <4>2 DEF CountRight
    <3>3. QED
      BY <3>1, <3>2 DEF CountRight
  <2>3. QED
    BY <2>1, <2>2 DEF SharedCounts
<1>3. QED
  BY <1>1, <1>2, PTL

-----------------------------------------------------------------------------
(* RefPtr                                                                    *)

\* No pointer is set and no thread is in a call at the start.
LEMMA RefTypeInit == RefInit => RefTypeOK
BY PtrAssumption DEF RefInit, RefTypeOK, Calls

\* In the middle of an assignment a thread has both pointers, and they differ.
AssignsOwnPtrs ==
    \A t \in Threads : call[t].op = "assign" =>
        /\ holder[call[t].dst] = t /\ holder[call[t].src] = t
        /\ ptr[call[t].src] # ptr[call[t].dst]

\* The inductive invariant.  That the set of references to an object is finite
\* needs no assumption: they come and go one by one.
RefInv ==
    /\ RefTypeOK
    /\ AssignsOwnPtrs
    /\ \A o \in Objects : IsFiniteSet(References(o))
    /\ CountsReferences
    /\ NoDanglingPtr
    /\ DeletedByOne

\* The parts of RefInv that speak of references.
Bookkeeping ==
    /\ \A o \in Objects : IsFiniteSet(References(o))
    /\ CountsReferences
    /\ NoDanglingPtr
    /\ DeletedByOne

\* The thread t is in the destructor of o.
Deleting(t, o) == call[t] = [op |-> "delete", object |-> o]

\* A live object has references; one thread deletes a dying one.
DeletedWell(o) ==
    /\ state[o] = "live" => References(o) # {}
    /\ state[o] = "dying" <=> \E t \in Threads : Deleting(t, o)
    /\ \A t, u \in Threads : Deleting(t, o) /\ Deleting(u, o) => t = u

\* All objects are deleted that way.
DeletionsWell == \A o \in Objects : DeletedWell(o)

\* DeletedByOne, object by object.
LEMMA DeletedForm == DeletedByOne <=> DeletionsWell
BY DEF DeletedByOne, DeletionsWell, DeletedWell, Deleting

\* A reference that changes its place.
LEMMA MoveOne ==
    ASSUME NEW S, IsFiniteSet(S), NEW x \in S, NEW y, y \notin S
    PROVE  /\ IsFiniteSet((S \ {x}) \cup {y})
           /\ Cardinality((S \ {x}) \cup {y}) = Cardinality(S)
<1>1. IsFiniteSet(S \ {x}) /\ Cardinality(S \ {x}) = Cardinality(S) - 1
  BY FS_RemoveElement
<1>2. /\ IsFiniteSet((S \ {x}) \cup {y})
      /\ Cardinality((S \ {x}) \cup {y}) = Cardinality(S \ {x}) + 1
  BY <1>1, FS_AddElement
<1>3. Cardinality(S) \in Nat
  BY FS_CardinalityType
<1> QED
  BY <1>1, <1>2, <1>3

\* A step that keeps the number of references to every object and deletes none.
LEMMA KeepStep ==
    ASSUME RefTypeOK, Bookkeeping, UNCHANGED <<ref_count, state>>,
           \A t \in Threads : \A o \in Objects : Deleting(t, o)' <=> Deleting(t, o),
           \A o \in Objects : /\ IsFiniteSet(References(o)')
                              /\ Cardinality(References(o)') = Cardinality(References(o))
    PROVE  Bookkeeping'
<1>1. \A o \in Objects : References(o)' = {} <=> References(o) = {}
  BY FS_EmptySet DEF Bookkeeping
<1>2. CountsReferences'
  BY DEF Bookkeeping, CountsReferences
<1>3. NoDanglingPtr'
  BY <1>1 DEF Bookkeeping, NoDanglingPtr
<1>4. DeletedByOne'
  <2>1. \A o \in Objects : DeletedWell(o)
    BY DeletedForm DEF Bookkeeping, DeletionsWell
  <2>2. \A o \in Objects : DeletedWell(o)'
    BY <1>1, <2>1 DEF DeletedWell
  <2>3. DeletionsWell'
    BY <2>2 DEF DeletionsWell
  <2> QED
    BY <2>3, DeletedForm, PTL
<1> QED
  BY <1>2, <1>3, <1>4 DEF Bookkeeping

\* A step that adds a counted reference to an object that is alive.
LEMMA GainStep ==
    ASSUME RefTypeOK, Bookkeeping, UNCHANGED state,
           NEW n \in Objects, state[n] = "live", NEW x, x \notin References(n),
           ref_count' = [ref_count EXCEPT ![n] = @ + 1],
           \A t \in Threads : \A o \in Objects : Deleting(t, o)' <=> Deleting(t, o),
           References(n)' = References(n) \cup {x},
           \A o \in Objects \ {n} : References(o)' = References(o)
    PROVE  Bookkeeping'
<1>1. /\ IsFiniteSet(References(n)')
      /\ Cardinality(References(n)') = Cardinality(References(n)) + 1
  BY FS_AddElement DEF Bookkeeping
<1>2. \A o \in Objects : IsFiniteSet(References(o)')
  BY <1>1 DEF Bookkeeping
<1>3. CountsReferences'
  BY <1>1 DEF Bookkeeping, CountsReferences, RefTypeOK
<1>4. NoDanglingPtr'
  BY DEF Bookkeeping, NoDanglingPtr
<1>5. References(n)' # {}
  OBVIOUS
<1>6. DeletedByOne'
  <2>1. \A o \in Objects : DeletedWell(o)
    BY DeletedForm DEF Bookkeeping, DeletionsWell
  <2>2. \A o \in Objects : DeletedWell(o)'
    BY <1>5, <2>1 DEF DeletedWell
  <2>3. DeletionsWell'
    BY <2>2 DEF DeletionsWell
  <2> QED
    BY <2>3, DeletedForm, PTL
<1> QED
  BY <1>2, <1>3, <1>4, <1>6 DEF Bookkeeping

\* Release takes one reference away and leaves the others as many as they were.
LEMMA ReleaseStep ==
    ASSUME RefTypeOK, Bookkeeping, NEW t \in Threads, call[t].op # "delete",
           NEW n \in Objects \cup {NoObj}, Release(t, n),
           n \in Objects =>
              /\ References(n) # {}
              /\ IsFiniteSet(References(n)')
              /\ Cardinality(References(n)') = Cardinality(References(n)) - 1,
           \A o \in Objects \ {n} :
              /\ IsFiniteSet(References(o)')
              /\ Cardinality(References(o)') = Cardinality(References(o))
    PROVE  /\ Bookkeeping'
           /\ ref_count' \in [Objects -> Nat]
           /\ state' \in [Objects -> {"none", "live", "dying", "freed"}]
           /\ call' \in [Threads -> Calls]
           /\ call'[t].op # "assign"
           /\ \A u \in Threads \ {t} : call'[u] = call[u]
<1>1. CASE n = NoObj
  <2>1. /\ UNCHANGED <<ref_count, state>>
        /\ call' = [call EXCEPT ![t] = Idle]
    BY <1>1 DEF Release
  <2>2. \A u \in Threads : \A o \in Objects : Deleting(u, o)' <=> Deleting(u, o)
    BY <2>1 DEF Deleting, Idle, RefTypeOK
  <2>3. Bookkeeping'
    BY <1>1, <2>1, <2>2, PtrAssumption, KeepStep
  <2> QED
    BY <2>1, <2>3 DEF RefTypeOK, Calls, Idle
<1>2. CASE n \in Objects
  <2> DEFINE last == ref_count[n] = 1
  <2>1. /\ ref_count' = [ref_count EXCEPT ![n] = @ - 1]
        /\ call' = [call EXCEPT ![t] =
                      IF last THEN [op |-> "delete", object |-> n] ELSE Idle]
        /\ state' = [state EXCEPT ![n] = IF last THEN "dying" ELSE @]
    BY <1>2, PtrAssumption DEF Release
  <2>2. ref_count[n] = Cardinality(References(n)) /\ ref_count[n] \in Nat /\ state[n] = "live"
    BY <1>2 DEF Bookkeeping, CountsReferences, NoDanglingPtr, RefTypeOK
  <2>3. ref_count[n] # 0
    BY <1>2, <2>2, FS_EmptySet DEF Bookkeeping
  <2>4. /\ ref_count' \in [Objects -> Nat]
        /\ state' \in [Objects -> {"none", "live", "dying", "freed"}]
        /\ call' \in [Threads -> Calls]
        /\ call'[t].op # "assign"
        /\ \A u \in Threads \ {t} : call'[u] = call[u]
    BY <1>2, <2>1, <2>2, <2>3 DEF RefTypeOK, Calls, Idle
  <2>5. \A o \in Objects : IsFiniteSet(References(o)')
    BY <1>2
  <2>6. CountsReferences'
    BY <1>2, <2>1 DEF Bookkeeping, CountsReferences, RefTypeOK
  <2>7. \A o \in Objects \ {n} : References(o)' = {} <=> References(o) = {}
    BY FS_EmptySet DEF Bookkeeping
  <2>8. References(n)' = {} <=> last
    BY <1>2, <2>2, FS_EmptySet
  <2>9. NoDanglingPtr'
    BY <1>2, <2>1, <2>2, <2>7, <2>8 DEF Bookkeeping, NoDanglingPtr, RefTypeOK
  <2>10. \A u \in Threads : ~Deleting(u, n)
    BY <1>2, <2>2 DEF Bookkeeping, DeletedByOne, Deleting
  <2>11. \A u \in Threads : \A o \in Objects :
            Deleting(u, o)' <=> (Deleting(u, o) \/ (last /\ u = t /\ o = n))
    BY <1>2, <2>1, <2>10 DEF Deleting, Idle, RefTypeOK
  <2>12. DeletedByOne'
    <3> SUFFICES DeletionsWell'
      BY DeletedForm, PTL
    <3> SUFFICES ASSUME NEW o \in Objects PROVE DeletedWell(o)'
      BY DEF DeletionsWell
    <3>1. DeletedWell(o)
      BY DeletedForm DEF Bookkeeping, DeletionsWell
    <3>2. CASE o # n
      <4>1. state'[o] = state[o]
        BY <2>1, <3>2 DEF RefTypeOK
      <4> QED
        BY <2>7, <2>11, <3>1, <3>2, <4>1 DEF DeletedWell
    <3>3. CASE o = n
      <4>1. state'[o] = IF last THEN "dying" ELSE "live"
        BY <2>1, <2>2, <3>3 DEF RefTypeOK
      <4> QED
        BY <2>8, <2>10, <2>11, <3>3, <4>1 DEF DeletedWell
    <3> QED
      BY <3>2, <3>3
  <2> QED
    BY <2>4, <2>5, <2>6, <2>9, <2>12 DEF Bookkeeping
<1> QED
  BY <1>1, <1>2

\* A thread has counted a reference to o that it has not stored yet.
Counts(u, o) == call[u].op = "assign" /\ ptr[call[u].src] = o

\* What the references to an object are after a step: as they were, with one
\* pointer more, one less, one in place of another, or one counted.
LEMMA RefsMember ==
    ASSUME NEW o
    PROVE  /\ \A x : x \in References(o) <=>
                 \/ \E p \in Ptrs : x = <<"stored", p>> /\ ptr[p] = o
                 \/ \E u \in Threads : x = <<"counted", u>> /\ Counts(u, o)
           /\ \A x : x \in References(o)' <=>
                 \/ \E p \in Ptrs : x = <<"stored", p>> /\ ptr'[p] = o
                 \/ \E u \in Threads : x = <<"counted", u>> /\ Counts(u, o)'
BY DEF References, Counts

\* No pointer to o comes or goes.
LEMMA RefsSame ==
    ASSUME NEW o, \A u \in Threads : Counts(u, o)' <=> Counts(u, o),
           \A r \in Ptrs : ptr'[r] = o <=> ptr[r] = o
    PROVE  References(o)' = References(o)
BY RefsMember

\* p is a pointer to o from now on.
LEMMA RefsStoreMore ==
    ASSUME NEW o, NEW p \in Ptrs, \A u \in Threads : Counts(u, o)' <=> Counts(u, o),
           \A r \in Ptrs : ptr'[r] = o <=> ptr[r] = o \/ r = p
    PROVE  References(o)' = References(o) \cup {<<"stored", p>>}
BY RefsMember

\* p is no pointer to o any more.
LEMMA RefsStoreLess ==
    ASSUME NEW o, NEW p \in Ptrs, \A u \in Threads : Counts(u, o)' <=> Counts(u, o),
           \A r \in Ptrs : ptr'[r] = o <=> ptr[r] = o /\ r # p
    PROVE  References(o)' = References(o) \ {<<"stored", p>>}
BY RefsMember

\* q hands its pointer to o over to p.
LEMMA RefsStoreOther ==
    ASSUME NEW o, NEW p \in Ptrs, NEW q \in Ptrs,
           \A u \in Threads : Counts(u, o)' <=> Counts(u, o),
           \A r \in Ptrs : ptr'[r] = o <=> (ptr[r] = o /\ r # q) \/ r = p
    PROVE  References(o)' = (References(o) \ {<<"stored", q>>}) \cup {<<"stored", p>>}
BY RefsMember

\* t has called AddRef in an assignment.
LEMMA RefsCountMore ==
    ASSUME NEW o, NEW t \in Threads, \A r \in Ptrs : ptr'[r] = o <=> ptr[r] = o,
           \A u \in Threads : Counts(u, o)' <=> Counts(u, o) \/ u = t
    PROVE  References(o)' = References(o) \cup {<<"counted", t>>}
BY RefsMember

\* Every operation on pointers keeps the books.
LEMMA RefInvStep == RefInv /\ [RefNext]_refVars => RefInv'
<1> SUFFICES ASSUME RefInv, [RefNext]_refVars PROVE RefInv'
  OBVIOUS
<1>1. RefTypeOK /\ AssignsOwnPtrs /\ Bookkeeping
  BY DEF RefInv, Bookkeeping
<1>2. ASSUME RefTypeOK', AssignsOwnPtrs', Bookkeeping' PROVE RefInv'
  BY <1>2 DEF RefInv, Bookkeeping
<1>3. \A p \in Ptrs : ptr[p] # NoObj =>
        ptr[p] \in Objects /\ <<"stored", p>> \in References(ptr[p]) /\ state[ptr[p]] = "live"
  <2> SUFFICES ASSUME NEW p \in Ptrs, ptr[p] # NoObj
               PROVE  /\ ptr[p] \in Objects /\ <<"stored", p>> \in References(ptr[p])
                      /\ state[ptr[p]] = "live"
    OBVIOUS
  <2>1. ptr[p] \in Objects
    BY <1>1 DEF RefTypeOK
  <2>2. <<"stored", p>> \in References(ptr[p])
    BY RefsMember
  <2>3. state[ptr[p]] = "live"
    BY <1>1, <2>1, <2>2 DEF Bookkeeping, NoDanglingPtr
  <2> QED
    BY <2>1, <2>2, <2>3
<1>4. ASSUME NEW t \in Threads, Delete(t) PROVE RefInv'
  <2>1. PICK o \in Objects : Deleting(t, o) /\ call[t].object = o
    BY <1>1, <1>4 DEF Delete, RefTypeOK, Calls, Idle, Deleting
  <2>2. /\ state' = [state EXCEPT ![o] = "freed"]
        /\ call' = [call EXCEPT ![t] = Idle]
        /\ UNCHANGED <<ref_count, ptr, holder>>
    BY <1>4, <2>1 DEF Delete
  <2>3. RefTypeOK' /\ AssignsOwnPtrs'
    BY <1>1, <2>2 DEF RefTypeOK, AssignsOwnPtrs, Calls, Idle
  <2>4. \A n : References(n)' = References(n)
    BY <1>1, <1>4, <2>2 DEF References, Delete, Idle, RefTypeOK
  <2>5. DeletionsWell /\ state[o] = "dying"
    BY <1>1, <2>1, DeletedForm DEF Bookkeeping, DeletionsWell, DeletedWell
  <2>6. \A u \in Threads : \A n \in Objects : Deleting(u, n)' <=> (Deleting(u, n) /\ u # t)
    BY <1>1, <2>2 DEF Deleting, Idle, RefTypeOK
  <2>7. \A u \in Threads : Deleting(u, o) => u = t
    BY <2>1, <2>5 DEF DeletionsWell, DeletedWell
  <2>8. \A n \in Objects \ {o} : ~Deleting(t, n)
    BY <2>1 DEF Deleting
  <2>9. DeletionsWell'
    <3> SUFFICES ASSUME NEW n \in Objects PROVE DeletedWell(n)'
      BY DEF DeletionsWell
    <3>1. CASE n = o
      BY <1>1, <2>2, <2>6, <2>7, <3>1 DEF DeletedWell, RefTypeOK
    <3>2. CASE n # o
      <4>1. state'[n] = state[n] /\ \A u \in Threads : Deleting(u, n)' <=> Deleting(u, n)
        BY <1>1, <2>2, <2>6, <2>8, <3>2 DEF RefTypeOK
      <4> QED
        BY <2>4, <2>5, <4>1 DEF DeletionsWell, DeletedWell
    <3> QED
      BY <3>1, <3>2
  <2>10. DeletedByOne'
    BY <2>9, DeletedForm, PTL
  <2>11. NoDanglingPtr'
    BY <1>1, <2>2, <2>4, <2>5 DEF Bookkeeping, NoDanglingPtr, RefTypeOK
  <2>12. CountsReferences' /\ \A n \in Objects : IsFiniteSet(References(n)')
    BY <1>1, <2>2, <2>4 DEF Bookkeeping, CountsReferences
  <2> QED
    BY <1>2, <2>3, <2>10, <2>11, <2>12 DEF Bookkeeping
<1>5. ASSUME NEW t \in Threads, NEW p \in Ptrs, NEW to \in Threads, Send(t, p, to)
      PROVE  RefInv'
  <2>1. UNCHANGED <<ref_count, state, ptr, call>> /\ call[t] = Idle /\ holder[p] = t
    BY <1>5 DEF Send, Mine
  <2>2. RefTypeOK'
    BY <1>1, <1>5, <2>1 DEF RefTypeOK, Send
  <2>3. AssignsOwnPtrs'
    BY <1>1, <1>5, <2>1 DEF AssignsOwnPtrs, RefTypeOK, Send, Idle, Calls
  <2>4. \A o : References(o)' = References(o)
    BY <2>1 DEF References
  <2>5. Bookkeeping'
    BY <1>1, <2>1, <2>4, KeepStep DEF Bookkeeping, Deleting
  <2> QED
    BY <1>2, <2>2, <2>3, <2>5
<1>6. ASSUME NEW t \in Threads, NEW p \in Ptrs, NEW o \in Objects, MakeRefCounted(t, p, o)
      PROVE  RefInv'
  <2>1. /\ ptr[p] = NoObj /\ state[o] = "none" /\ call[t] = Idle /\ holder[p] = t
        /\ state' = [state EXCEPT ![o] = "live"]
        /\ ref_count' = [ref_count EXCEPT ![o] = 1]
        /\ ptr' = [ptr EXCEPT ![p] = o]
        /\ UNCHANGED <<holder, call>>
    BY <1>6 DEF MakeRefCounted, Mine
  <2>2. RefTypeOK'
    BY <1>1, <2>1 DEF RefTypeOK
  <2>3. AssignsOwnPtrs' /\ \A u \in Threads : call[u].op = "assign" => call[u].src # p
    BY <1>1, <2>1 DEF AssignsOwnPtrs, RefTypeOK, Idle, Calls
  <2>4. References(o) = {}
    BY <1>1, <2>1 DEF Bookkeeping, NoDanglingPtr
  <2>5. ASSUME NEW n \in Objects, NEW u \in Threads PROVE Counts(u, n)' <=> Counts(u, n)
    BY <1>1, <2>1, <2>3 DEF Counts, RefTypeOK, Calls, Idle
  <2>only. References(o)' = {<<"stored", p>>}
    <3>1. \A r \in Ptrs : ptr'[r] = o <=> ptr[r] = o \/ r = p
      BY <1>1, <2>1 DEF RefTypeOK
    <3>2. References(o)' = References(o) \cup {<<"stored", p>>}
      BY <2>5, <3>1, RefsStoreMore
    <3> QED
      BY <2>4, <3>2
  <2>6. ASSUME NEW n \in Objects \ {o} PROVE References(n)' = References(n)
    <3>1. \A r \in Ptrs : ptr'[r] = n <=> ptr[r] = n
      BY <1>1, <2>1, PtrAssumption DEF RefTypeOK
    <3> QED
      BY <2>5, <3>1, RefsSame
  <2>7. CountsReferences' /\ \A n \in Objects : IsFiniteSet(References(n)')
    <3> SUFFICES ASSUME NEW n \in Objects
                 PROVE  /\ IsFiniteSet(References(n)')
                        /\ ref_count'[n] = Cardinality(References(n)')
      BY DEF CountsReferences
    <3>1. CASE n = o
      BY <1>1, <2>1, <2>only, <3>1, FS_Singleton DEF RefTypeOK
    <3>2. CASE n # o
      BY <1>1, <2>1, <2>6, <3>2 DEF Bookkeeping, CountsReferences, RefTypeOK
    <3> QED
      BY <3>1, <3>2
  <2>8. NoDanglingPtr'
    BY <1>1, <2>1, <2>6 DEF Bookkeeping, NoDanglingPtr, RefTypeOK
  <2>9. DeletionsWell'
    <3> SUFFICES ASSUME NEW n \in Objects PROVE DeletedWell(n)'
      BY DEF DeletionsWell
    <3>1. DeletedWell(n)
      BY <1>1, DeletedForm DEF Bookkeeping, DeletionsWell
    <3>2. \A u \in Threads : Deleting(u, n)' <=> Deleting(u, n)
      BY <2>1 DEF Deleting
    <3>3. CASE n = o
      BY <1>1, <2>1, <2>only, <3>1, <3>2, <3>3 DEF DeletedWell, RefTypeOK
    <3>4. CASE n # o
      BY <1>1, <2>1, <2>6, <3>1, <3>2, <3>4 DEF DeletedWell, RefTypeOK
    <3> QED
      BY <3>3, <3>4
  <2>10. DeletedByOne'
    BY <2>9, DeletedForm, PTL
  <2> QED
    BY <1>2, <2>2, <2>3, <2>7, <2>8, <2>10 DEF Bookkeeping
<1>7. ASSUME NEW t \in Threads, NEW dst \in Ptrs, NEW src \in Ptrs, CopyConstruct(t, dst, src)
      PROVE  RefInv'
  <2>1. /\ ptr[dst] = NoObj /\ call[t] = Idle /\ holder[dst] = t
        /\ AddRef(ptr[src])
        /\ ptr' = [ptr EXCEPT ![dst] = ptr[src]]
        /\ UNCHANGED <<state, holder, call>>
    BY <1>7 DEF CopyConstruct, Mine
  <2>2. RefTypeOK'
    BY <1>1, <2>1 DEF RefTypeOK, AddRef
  <2>3. AssignsOwnPtrs' /\ \A u \in Threads : call[u].op = "assign" => call[u].src # dst
    BY <1>1, <2>1 DEF AssignsOwnPtrs, RefTypeOK, Idle, Calls
  <2>4. \A u \in Threads : \A o \in Objects : Deleting(u, o)' <=> Deleting(u, o)
    BY <2>1 DEF Deleting
  <2>counts. ASSUME NEW o \in Objects, NEW u \in Threads PROVE Counts(u, o)' <=> Counts(u, o)
    BY <1>1, <2>1, <2>3 DEF Counts, RefTypeOK, Calls, Idle
  <2>others. ASSUME NEW o \in Objects, o # ptr[src] PROVE References(o)' = References(o)
    <3>1. \A r \in Ptrs : ptr'[r] = o <=> ptr[r] = o
      BY <1>1, <2>1, <2>others, PtrAssumption DEF RefTypeOK
    <3> QED
      BY <2>counts, <3>1, RefsSame
  <2>5. CASE ptr[src] = NoObj
    <3>1. \A o \in Objects : References(o)' = References(o)
      BY <2>5, <2>others, PtrAssumption
    <3>2. UNCHANGED <<ref_count, state>>
      BY <2>1, <2>5 DEF AddRef
    <3>3. Bookkeeping'
      BY <1>1, <2>4, <3>1, <3>2, KeepStep DEF Bookkeeping
    <3> QED
      BY <1>2, <2>2, <2>3, <3>3
  <2>6. CASE ptr[src] # NoObj
    <3>1. PICK n \in Objects : n = ptr[src] /\ state[n] = "live"
      BY <1>3, <2>6
    <3>2. <<"stored", dst>> \notin References(n)
      BY <2>1, <2>6, <3>1, RefsMember
    <3>3. References(n)' = References(n) \cup {<<"stored", dst>>}
      <4>1. \A r \in Ptrs : ptr'[r] = n <=> ptr[r] = n \/ r = dst
        BY <1>1, <2>1, <3>1 DEF RefTypeOK
      <4> QED
        BY <2>counts, <4>1, RefsStoreMore
    <3>4. \A o \in Objects \ {n} : References(o)' = References(o)
      BY <2>others, <3>1
    <3>5. ref_count' = [ref_count EXCEPT ![n] = @ + 1]
      BY <2>1, <2>6, <3>1 DEF AddRef
    <3>6. Bookkeeping'
      BY <1>1, <2>1, <2>4, <3>1, <3>2, <3>3, <3>4, <3>5, GainStep
    <3> QED
      BY <1>2, <2>2, <2>3, <3>6
  <2> QED
    BY <2>5, <2>6
<1>8. ASSUME NEW t \in Threads, NEW dst \in Ptrs, NEW src \in Ptrs, MoveConstruct(t, dst, src)
      PROVE  RefInv'
  <2>1. /\ dst # src /\ ptr[dst] = NoObj /\ call[t] = Idle
        /\ holder[dst] = t /\ holder[src] = t
        /\ ptr' = [ptr EXCEPT ![dst] = ptr[src], ![src] = NoObj]
        /\ UNCHANGED <<ref_count, state, holder, call>>
    BY <1>8 DEF MoveConstruct, Mine
  <2>2. RefTypeOK'
    BY <1>1, <2>1 DEF RefTypeOK
  <2>3. /\ AssignsOwnPtrs'
        /\ \A u \in Threads : call[u].op = "assign" => call[u].src \notin {dst, src}
    BY <1>1, <2>1 DEF AssignsOwnPtrs, RefTypeOK, Idle, Calls
  <2>4. \A u \in Threads : \A o \in Objects : Deleting(u, o)' <=> Deleting(u, o)
    BY <2>1 DEF Deleting
  <2>5. ASSUME NEW o \in Objects
        PROVE  /\ IsFiniteSet(References(o)')
               /\ Cardinality(References(o)') = Cardinality(References(o))
    <3>0. ASSUME NEW u \in Threads PROVE Counts(u, o)' <=> Counts(u, o)
      BY <1>1, <2>1, <2>3 DEF Counts, RefTypeOK, Calls, Idle
    <3>1. CASE o # ptr[src]
      <4>1. References(o)' = References(o)
        <5>1. \A r \in Ptrs : ptr'[r] = o <=> ptr[r] = o
          BY <1>1, <2>1, <3>1, PtrAssumption DEF RefTypeOK
        <5> QED
          BY <3>0, <5>1, RefsSame
      <4> QED
        BY <1>1, <4>1 DEF Bookkeeping
    <3>2. CASE o = ptr[src]
      <4>1. References(o)' = (References(o) \ {<<"stored", src>>}) \cup {<<"stored", dst>>}
        <5>1. \A r \in Ptrs : ptr'[r] = o <=> (ptr[r] = o /\ r # src) \/ r = dst
          BY <1>1, <2>1, <3>2, PtrAssumption DEF RefTypeOK
        <5> QED
          BY <3>0, <5>1, RefsStoreOther
      <4>2. <<"stored", src>> \in References(o) /\ <<"stored", dst>> \notin References(o)
        BY <2>1, <3>2, PtrAssumption, RefsMember
      <4> QED
        BY <1>1, <4>1, <4>2, MoveOne DEF Bookkeeping
    <3> QED
      BY <3>1, <3>2
  <2>6. Bookkeeping'
    BY <1>1, <2>1, <2>4, <2>5, KeepStep
  <2> QED
    BY <1>2, <2>2, <2>3, <2>6
<1>9. ASSUME NEW t \in Threads, NEW dst \in Ptrs, NEW src \in Ptrs, CopyAssign(t, dst, src)
      PROVE  RefInv'
  <2>1. /\ call[t] = Idle /\ holder[dst] = t /\ holder[src] = t /\ ptr[src] # ptr[dst]
        /\ AddRef(ptr[src])
        /\ call' = [call EXCEPT ![t] = [op |-> "assign", dst |-> dst, src |-> src]]
        /\ UNCHANGED <<state, ptr, holder>>
    BY <1>9 DEF CopyAssign, Mine
  <2>2. RefTypeOK'
    BY <1>1, <2>1 DEF RefTypeOK, AddRef, Calls
  <2>3. AssignsOwnPtrs'
    BY <1>1, <2>1 DEF AssignsOwnPtrs, RefTypeOK
  <2>4. \A u \in Threads : \A o \in Objects : Deleting(u, o)' <=> Deleting(u, o)
    BY <1>1, <2>1 DEF Deleting, Idle, RefTypeOK
  <2>stored. \A o \in Objects : \A r \in Ptrs : ptr'[r] = o <=> ptr[r] = o
    BY <2>1
  <2>others. ASSUME NEW o \in Objects, o # ptr[src] PROVE References(o)' = References(o)
    <3>1. ASSUME NEW u \in Threads PROVE Counts(u, o)' <=> Counts(u, o)
      BY <1>1, <2>1, <2>others DEF Counts, RefTypeOK, Idle
    <3> QED
      BY <2>stored, <3>1, RefsSame
  <2>5. CASE ptr[src] = NoObj
    <3>1. \A o \in Objects : References(o)' = References(o)
      BY <2>5, <2>others, PtrAssumption
    <3>2. UNCHANGED <<ref_count, state>>
      BY <2>1, <2>5 DEF AddRef
    <3>3. Bookkeeping'
      BY <1>1, <2>4, <3>1, <3>2, KeepStep DEF Bookkeeping
    <3> QED
      BY <1>2, <2>2, <2>3, <3>3
  <2>6. CASE ptr[src] # NoObj
    <3>1. PICK n \in Objects : n = ptr[src] /\ state[n] = "live"
      BY <1>3, <2>6
    <3>2. <<"counted", t>> \notin References(n)
      BY <2>1, RefsMember DEF Counts, Idle
    <3>3. References(n)' = References(n) \cup {<<"counted", t>>}
      <4>1. ASSUME NEW u \in Threads PROVE Counts(u, n)' <=> Counts(u, n) \/ u = t
        BY <1>1, <2>1, <3>1 DEF Counts, RefTypeOK, Idle
      <4> QED
        BY <2>stored, <4>1, RefsCountMore
    <3>4. \A o \in Objects \ {n} : References(o)' = References(o)
      BY <2>others, <3>1
    <3>5. ref_count' = [ref_count EXCEPT ![n] = @ + 1]
      BY <2>1, <2>6, <3>1 DEF AddRef
    <3>6. Bookkeeping'
      BY <1>1, <2>1, <2>4, <3>1, <3>2, <3>3, <3>4, <3>5, GainStep
    <3> QED
      BY <1>2, <2>2, <2>3, <3>6
  <2> QED
    BY <2>5, <2>6
<1>10. ASSUME NEW t \in Threads, NEW n \in Objects \cup {NoObj}, Release(t, n),
              call[t].op # "delete", UNCHANGED holder,
              ptr' \in [Ptrs -> Objects \cup {NoObj}],
              \A p \in Ptrs : holder[p] # t => ptr'[p] = ptr[p],
              n \in Objects => References(n) # {},
              n \in Objects =>
                 /\ IsFiniteSet(References(n)')
                 /\ Cardinality(References(n)') = Cardinality(References(n)) - 1,
              \A o \in Objects \ {n} :
                 /\ IsFiniteSet(References(o)')
                 /\ Cardinality(References(o)') = Cardinality(References(o))
       PROVE  RefInv'
  <2>1. /\ Bookkeeping'
        /\ ref_count' \in [Objects -> Nat]
        /\ state' \in [Objects -> {"none", "live", "dying", "freed"}]
        /\ call' \in [Threads -> Calls]
        /\ call'[t].op # "assign"
        /\ \A u \in Threads \ {t} : call'[u] = call[u]
    BY <1>1, <1>10, ReleaseStep
  <2>2. RefTypeOK'
    BY <1>1, <1>10, <2>1 DEF RefTypeOK
  <2>3. AssignsOwnPtrs'
    <3> SUFFICES ASSUME NEW u \in Threads, call'[u].op = "assign"
                 PROVE  /\ holder[call[u].dst] = u /\ holder[call[u].src] = u
                        /\ ptr'[call[u].src] # ptr'[call[u].dst]
                        /\ call'[u] = call[u]
      BY <1>10 DEF AssignsOwnPtrs
    <3>1. u # t /\ call'[u] = call[u]
      BY <2>1
    <3>2. /\ holder[call[u].dst] = u /\ holder[call[u].src] = u
          /\ ptr[call[u].src] # ptr[call[u].dst]
      BY <1>1, <3>1 DEF AssignsOwnPtrs
    <3>3. call[u].dst \in Ptrs /\ call[u].src \in Ptrs
      BY <1>1, <3>1 DEF RefTypeOK, Calls, Idle
    <3> QED
      BY <1>10, <3>1, <3>2, <3>3
  <2> QED
    BY <1>2, <2>1, <2>2, <2>3
<1>11. ASSUME NEW t \in Threads, NEW p \in Ptrs, Destroy(t, p) PROVE RefInv'
  <2>1. /\ ptr[p] # NoObj /\ call[t] = Idle /\ holder[p] = t
        /\ ptr' = [ptr EXCEPT ![p] = NoObj]
        /\ Release(t, ptr[p])
        /\ UNCHANGED holder
    BY <1>11 DEF Destroy, Mine
  <2>2. PICK n \in Objects : n = ptr[p] /\ <<"stored", p>> \in References(n)
    BY <1>3, <2>1
  <2>3. \A u \in Threads : call[u].op = "assign" => call[u].src # p /\ u # t
    BY <1>1, <2>1 DEF AssignsOwnPtrs, Idle
  <2>4. \A u \in Threads : /\ call'[u].op = "assign" <=> call[u].op = "assign"
                           /\ call[u].op = "assign" => call'[u] = call[u]
    BY <1>1, <2>1, <2>3 DEF Release, Idle, RefTypeOK
  <2>counts. ASSUME NEW o \in Objects, NEW u \in Threads PROVE Counts(u, o)' <=> Counts(u, o)
    BY <1>1, <2>1, <2>3, <2>4 DEF Counts, RefTypeOK, Calls, Idle
  <2>5. References(n)' = References(n) \ {<<"stored", p>>}
    <3>1. \A r \in Ptrs : ptr'[r] = n <=> ptr[r] = n /\ r # p
      BY <1>1, <2>1, <2>2, PtrAssumption DEF RefTypeOK
    <3> QED
      BY <2>counts, <3>1, RefsStoreLess
  <2>6. ASSUME NEW o \in Objects \ {n} PROVE References(o)' = References(o)
    <3>1. \A r \in Ptrs : ptr'[r] = o <=> ptr[r] = o
      BY <1>1, <2>1, <2>2, PtrAssumption DEF RefTypeOK
    <3> QED
      BY <2>counts, <3>1, RefsSame
  <2>7. /\ IsFiniteSet(References(n)')
        /\ Cardinality(References(n)') = Cardinality(References(n)) - 1
    BY <1>1, <2>2, <2>5, FS_RemoveElement DEF Bookkeeping
  <2>8. call[t].op # "delete"
    BY <2>1 DEF Idle
  <2>9. /\ ptr' \in [Ptrs -> Objects \cup {NoObj}]
        /\ \A r \in Ptrs : holder[r] # t => ptr'[r] = ptr[r]
    BY <1>1, <2>1 DEF RefTypeOK
  <2>10. Release(t, n) /\ UNCHANGED holder /\ References(n) # {}
    BY <2>1, <2>2
  <2>11. \A o \in Objects \ {n} :
            /\ IsFiniteSet(References(o)')
            /\ Cardinality(References(o)') = Cardinality(References(o))
    BY <1>1, <2>6 DEF Bookkeeping
  <2> QED
    BY <1>10, <2>7, <2>8, <2>9, <2>10, <2>11
<1>12. ASSUME NEW t \in Threads, NEW dst \in Ptrs, NEW src \in Ptrs, MoveAssign(t, dst, src)
       PROVE  RefInv'
  <2>0. PICK m, n : m = ptr[src] /\ n = IF dst = src THEN NoObj ELSE ptr[dst]
    OBVIOUS
  <2>1. /\ call[t] = Idle /\ holder[dst] = t /\ holder[src] = t
        /\ ptr' = [ptr EXCEPT ![src] = NoObj, ![dst] = m]
        /\ Release(t, n)
        /\ UNCHANGED holder
    BY <1>12, <2>0 DEF MoveAssign, Mine
  <2>2. n \in Objects \cup {NoObj} /\ (n \in Objects => n = ptr[dst] /\ dst # src)
    BY <1>1, <2>0, PtrAssumption DEF RefTypeOK
  <2>3. \A u \in Threads : call[u].op = "assign" => call[u].src \notin {dst, src} /\ u # t
    BY <1>1, <2>1 DEF AssignsOwnPtrs, Idle
  <2>4. \A u \in Threads : /\ call'[u].op = "assign" <=> call[u].op = "assign"
                           /\ call[u].op = "assign" => call'[u] = call[u]
    BY <1>1, <2>1, <2>3 DEF Release, Idle, RefTypeOK
  <2>5. /\ ptr' \in [Ptrs -> Objects \cup {NoObj}]
        /\ \A r \in Ptrs : holder[r] # t => ptr'[r] = ptr[r]
    BY <1>1, <2>0, <2>1 DEF RefTypeOK
  <2>counts. ASSUME NEW o \in Objects, NEW u \in Threads PROVE Counts(u, o)' <=> Counts(u, o)
    BY <1>1, <2>1, <2>3, <2>4 DEF Counts, RefTypeOK, Calls, Idle
  <2>6. call[t].op # "delete"
    BY <2>1 DEF Idle
  <2>7. n \in Objects =>
           /\ References(n) # {}
           /\ IsFiniteSet(References(n)')
           /\ Cardinality(References(n)') = Cardinality(References(n)) - 1
    <3> SUFFICES ASSUME n \in Objects
                 PROVE  /\ References(n) # {}
                        /\ IsFiniteSet(References(n)')
                        /\ Cardinality(References(n)') = Cardinality(References(n)) - 1
      OBVIOUS
    <3>1. <<"stored", dst>> \in References(n) /\ dst # src
      BY <2>2, RefsMember
    <3>2. PICK x \in References(n) : References(n)' = References(n) \ {x}
      <4>1. CASE m = n
        <5>1. <<"stored", src>> \in References(n)
          BY <2>0, <4>1, RefsMember
        <5>2. \A r \in Ptrs : ptr'[r] = n <=> ptr[r] = n /\ r # src
          BY <1>1, <2>0, <2>1, <2>2, <4>1, PtrAssumption DEF RefTypeOK
        <5>3. References(n)' = References(n) \ {<<"stored", src>>}
          BY <2>counts, <5>2, RefsStoreLess
        <5> QED
          BY <5>1, <5>3
      <4>2. CASE m # n
        <5>1. References(n)' = References(n) \ {<<"stored", dst>>}
          <6>1. \A r \in Ptrs : ptr'[r] = n <=> ptr[r] = n /\ r # dst
            BY <1>1, <2>0, <2>1, <2>2, <4>2, PtrAssumption DEF RefTypeOK
          <6> QED
            BY <2>counts, <6>1, RefsStoreLess
        <5> QED
          BY <3>1, <5>1
      <4> QED
        BY <4>1, <4>2
    <3>3. IsFiniteSet(References(n))
      BY <1>1 DEF Bookkeeping
    <3> QED
      BY <3>2, <3>3, FS_RemoveElement
  <2>8. ASSUME NEW o \in Objects \ {n}
        PROVE  /\ IsFiniteSet(References(o)')
               /\ Cardinality(References(o)') = Cardinality(References(o))
    <3>1. CASE o # m \/ dst = src
      <4>1. References(o)' = References(o)
        <5>1. \A r \in Ptrs : ptr'[r] = o <=> ptr[r] = o
          BY <1>1, <2>0, <2>1, <2>2, <2>8, <3>1, PtrAssumption DEF RefTypeOK
        <5> QED
          BY <2>counts, <5>1, RefsSame
      <4> QED
        BY <1>1, <4>1 DEF Bookkeeping
    <3>2. CASE o = m /\ dst # src
      <4>1. References(o)' = (References(o) \ {<<"stored", src>>}) \cup {<<"stored", dst>>}
        <5>1. \A r \in Ptrs : ptr'[r] = o <=> ((ptr[r] = o /\ r # src) \/ r = dst)
          BY <1>1, <2>0, <2>1, <3>2, PtrAssumption DEF RefTypeOK
        <5> QED
          BY <2>counts, <5>1, RefsStoreOther
      <4>2. <<"stored", src>> \in References(o) /\ <<"stored", dst>> \notin References(o)
        BY <2>0, <2>8, <3>2, RefsMember
      <4> QED
        BY <1>1, <4>1, <4>2, MoveOne DEF Bookkeeping
    <3> QED
      BY <3>1, <3>2
  <2> QED
    BY <1>10, <2>1, <2>2, <2>5, <2>6, <2>7, <2>8
<1>13. ASSUME NEW t \in Threads, CopyAssignEnd(t) PROVE RefInv'
  <2>0. PICK dst, src, m, n :
           dst = call[t].dst /\ src = call[t].src /\ m = ptr[src] /\ n = ptr[dst]
    OBVIOUS
  <2>1. /\ dst \in Ptrs /\ src \in Ptrs
        /\ call[t].op = "assign" /\ holder[dst] = t /\ holder[src] = t /\ m # n
    BY <1>1, <1>13, <2>0 DEF CopyAssignEnd, RefTypeOK, Calls, Idle, AssignsOwnPtrs
  <2>2. ptr' = [ptr EXCEPT ![dst] = m] /\ Release(t, n) /\ UNCHANGED holder
    BY <1>13, <2>0 DEF CopyAssignEnd
  <2>3. /\ n \in Objects \cup {NoObj} /\ m \in Objects \cup {NoObj}
        /\ ptr' \in [Ptrs -> Objects \cup {NoObj}]
        /\ \A r \in Ptrs : holder[r] # t => ptr'[r] = ptr[r]
    BY <1>1, <2>0, <2>1, <2>2 DEF RefTypeOK
  <2>4. /\ call'[t].op # "assign"
        /\ \A u \in Threads \ {t} : call'[u] = call[u]
    BY <1>1, <2>2 DEF Release, Idle, RefTypeOK
  <2>5. \A u \in Threads \ {t} :
           call[u].op = "assign" => ptr'[call[u].src] = ptr[call[u].src]
    BY <1>1, <2>1, <2>2 DEF RefTypeOK, AssignsOwnPtrs, Calls, Idle
  <2>6. \A r \in Ptrs : ptr'[r] = IF r = dst THEN m ELSE ptr[r]
    BY <1>1, <2>2 DEF RefTypeOK
  <2>7. ASSUME NEW o \in Objects
        PROVE  References(o)' =
                 IF o = m THEN (References(o) \ {<<"counted", t>>}) \cup {<<"stored", dst>>}
                 ELSE References(o) \ {<<"stored", dst>>}
    <3>1. \A u \in Threads : Counts(u, o)' <=> (Counts(u, o) /\ u # t)
      BY <2>4, <2>5 DEF Counts
    <3>2. Counts(t, o) => o = m
      BY <2>0 DEF Counts
    <3>3. CASE o = m
      BY <2>1, <2>6, <3>1, <3>3, RefsMember
    <3>4. CASE o # m
      BY <2>1, <2>6, <3>1, <3>2, <3>4, RefsMember
    <3> QED
      BY <3>3, <3>4
  <2>8. ASSUME NEW o \in Objects
        PROVE  /\ <<"stored", dst>> \in References(o) <=> o = n
               /\ <<"counted", t>> \in References(o) <=> o = m
    BY <2>0, <2>1, RefsMember DEF Counts
  <2>9. ASSUME n \in Objects
        PROVE  /\ References(n) # {}
               /\ IsFiniteSet(References(n)')
               /\ Cardinality(References(n)') = Cardinality(References(n)) - 1
    <3>1. References(n)' = References(n) \ {<<"stored", dst>>}
      BY <2>1, <2>7, <2>9
    <3>2. <<"stored", dst>> \in References(n) /\ IsFiniteSet(References(n))
      BY <1>1, <2>8, <2>9 DEF Bookkeeping
    <3> QED
      BY <3>1, <3>2, FS_RemoveElement
  <2>10. ASSUME NEW o \in Objects \ {n}
         PROVE  /\ IsFiniteSet(References(o)')
                /\ Cardinality(References(o)') = Cardinality(References(o))
    <3>1. CASE o = m
      BY <1>1, <2>7, <2>8, <2>10, <3>1, MoveOne DEF Bookkeeping
    <3>2. CASE o # m
      <4>1. /\ References(o)' = References(o) \ {<<"stored", dst>>}
            /\ <<"stored", dst>> \notin References(o)
        BY <2>7, <2>8, <2>10, <3>2
      <4>2. References(o)' = References(o)
        BY <4>1
      <4> QED
        BY <1>1, <4>2 DEF Bookkeeping
    <3> QED
      BY <3>1, <3>2
  <2>11. call[t].op # "delete"
    BY <2>1
  <2> QED
    BY <1>10, <2>2, <2>3, <2>9, <2>10, <2>11
<1>14. CASE UNCHANGED refVars
  BY <1>14 DEF refVars, RefInv, RefTypeOK, AssignsOwnPtrs, References, CountsReferences,
               NoDanglingPtr, DeletedByOne
<1> QED
  BY <1>4, <1>5, <1>6, <1>7, <1>8, <1>9, <1>11, <1>12, <1>13, <1>14 DEF RefNext, PtrStep

\* At the start there are no objects and no references.
LEMMA RefInvInit == RefInit => RefInv
<1> SUFFICES ASSUME RefInit PROVE RefInv
  OBVIOUS
<1>1. \A o \in Objects : References(o) = {}
  BY PtrAssumption DEF RefInit, References, Idle
<1>2. CountsReferences /\ \A o \in Objects : IsFiniteSet(References(o))
  BY <1>1, FS_EmptySet DEF RefInit, CountsReferences
<1>3. AssignsOwnPtrs /\ NoDanglingPtr
  BY <1>1 DEF RefInit, AssignsOwnPtrs, NoDanglingPtr, Idle
<1>4. DeletedByOne
  BY <1>1 DEF RefInit, DeletedByOne, Idle
<1> QED
  BY <1>2, <1>3, <1>4, RefTypeInit DEF RefInv

\* The invariant holds of every sequence of operations on RefPtrs.
THEOREM RefInvariant == RefSpec => []RefInv
BY RefInvInit, RefInvStep, PTL DEF RefSpec

\* RefCountedThreadSafe: the count is the number of references, whatever other
\* threads are in the middle of.
THEOREM CountsReferencesInvariant == RefSpec => []CountsReferences
BY RefInvariant, PTL DEF RefInv

\* AddRef and Release are never called on an object that is being deleted or is
\* gone (the DCHECKs on destruction_started_).
THEOREM NoDanglingPtrInvariant == RefSpec => []NoDanglingPtr
BY RefInvariant, PTL DEF RefInv

\* Release returns true once per object, to the thread that drops the last
\* reference.
THEOREM DeletedByOneInvariant == RefSpec => []DeletedByOne
BY RefInvariant, PTL DEF RefInv

-----------------------------------------------------------------------------
(* HasOneRef                                                                 *)

\* A pointer to an object whose count is 1 is the only one.
LEMMA OnlyReference ==
    ASSUME RefInv, NEW p \in Ptrs, ptr[p] # NoObj, ref_count[ptr[p]] = 1,
           NEW r \in Ptrs, ptr[r] = ptr[p]
    PROVE  r = p /\ \A u \in Threads : ~Counts(u, ptr[p])
<1>1. PICK o \in Objects : o = ptr[p]
  BY DEF RefInv, RefTypeOK
<1>2. PICK x : References(o) = {x}
  BY <1>1, FS_Singleton DEF RefInv, CountsReferences
<1>3. <<"stored", p>> \in References(o) /\ <<"stored", r>> \in References(o)
  BY <1>1, RefsMember
<1>4. \A u \in Threads : Counts(u, o) => <<"counted", u>> \in References(o)
  BY RefsMember
<1> QED
  BY <1>1, <1>2, <1>3, <1>4

\* Only the thread that has the only pointer can change a count of 1.
LEMMA OneRefStep == RefInv /\ [RefNext]_refVars => OthersLeaveItAlone
<1> SUFFICES ASSUME RefInv, [RefNext]_refVars,
                    NEW p \in Ptrs, ptr[p] # NoObj, ref_count[ptr[p]] = 1,
                    ref_count'[ptr[p]] # 1
             PROVE  \/ call'[holder[p]] # call[holder[p]]
                    \/ \E r \in Ptrs : holder[r] = holder[p] /\ ptr'[r] # ptr[r]
  BY DEF OthersLeaveItAlone
<1>1. RefTypeOK
  BY DEF RefInv
<1>2. ptr[p] \in Objects /\ state[ptr[p]] = "live"
  <2>1. PICK o \in Objects : o = ptr[p]
    BY <1>1 DEF RefTypeOK
  <2>2. <<"stored", p>> \in References(o)
    BY <2>1, RefsMember
  <2> QED
    BY <2>1, <2>2 DEF RefInv, NoDanglingPtr
<1>3. \A r \in Ptrs : ptr[r] = ptr[p] => r = p
  BY OnlyReference
<1>4. ASSUME NEW t \in Threads, NEW dst \in Ptrs, NEW src \in Ptrs, CopyConstruct(t, dst, src)
      PROVE  holder[dst] = holder[p] /\ ptr'[dst] # ptr[dst]
  <2>1. AddRef(ptr[src]) /\ ptr[dst] = NoObj /\ holder[dst] = t /\ holder[src] = t
    BY <1>4 DEF CopyConstruct, Mine
  <2>2. ptr[src] = ptr[p]
    BY <1>1, <1>2, <2>1 DEF AddRef, RefTypeOK
  <2> QED
    BY <1>1, <1>3, <1>4, <2>1, <2>2 DEF CopyConstruct, RefTypeOK
<1>5. ASSUME NEW t \in Threads, NEW dst \in Ptrs, NEW src \in Ptrs, CopyAssign(t, dst, src)
      PROVE  call'[holder[p]] # call[holder[p]]
  <2>1. /\ AddRef(ptr[src]) /\ call[t] = Idle /\ holder[src] = t
        /\ call' = [call EXCEPT ![t] = [op |-> "assign", dst |-> dst, src |-> src]]
    BY <1>5 DEF CopyAssign, Mine
  <2>2. ptr[src] = ptr[p]
    BY <1>1, <1>2, <2>1 DEF AddRef, RefTypeOK
  <2>3. holder[p] = t
    BY <1>3, <2>1, <2>2
  <2>4. call'[t].op = "assign"
    BY <1>1, <2>1 DEF RefTypeOK
  <2> QED
    BY <2>1, <2>3, <2>4 DEF Idle
<1>6. ASSUME NEW t \in Threads, NEW n, Release(t, n) PROVE n = ptr[p]
  BY <1>1, <1>2, <1>6 DEF Release, RefTypeOK
<1>7. ASSUME NEW t \in Threads, NEW q \in Ptrs, Destroy(t, q)
      PROVE  holder[q] = holder[p] /\ ptr'[q] # ptr[q]
  BY <1>1, <1>3, <1>6, <1>7 DEF Destroy, Mine, RefTypeOK
<1>8. ASSUME NEW t \in Threads, NEW dst \in Ptrs, NEW src \in Ptrs, MoveAssign(t, dst, src)
      PROVE  holder[dst] = holder[p] /\ ptr'[dst] # ptr[dst]
  <2>1. /\ holder[dst] = t /\ Release(t, IF dst = src THEN NoObj ELSE ptr[dst])
        /\ ptr' = [ptr EXCEPT ![src] = NoObj, ![dst] = ptr[src]]
    BY <1>8 DEF MoveAssign, Mine
  <2>2. dst # src /\ ptr[dst] = ptr[p]
    BY <1>6, <2>1
  <2> QED
    BY <1>1, <1>3, <2>1, <2>2 DEF RefTypeOK
<1>9. ASSUME NEW t \in Threads, CopyAssignEnd(t)
      PROVE  call'[holder[p]] # call[holder[p]]
  <2>1. /\ call[t].op = "assign" /\ call[t].dst \in Ptrs /\ holder[call[t].dst] = t
        /\ Release(t, ptr[call[t].dst])
    BY <1>1, <1>9 DEF CopyAssignEnd, RefInv, AssignsOwnPtrs, RefTypeOK, Calls, Idle
  <2>2. call[t].dst = p
    BY <1>3, <1>6, <2>1
  <2>3. call'[t].op # "assign"
    BY <1>1, <2>1 DEF Release, RefTypeOK, Idle
  <2> QED
    BY <2>1, <2>2, <2>3
<1>10. ASSUME NEW t \in Threads, NEW q \in Ptrs, NEW o \in Objects, MakeRefCounted(t, q, o)
       PROVE  FALSE
  BY <1>1, <1>2, <1>10 DEF MakeRefCounted, RefTypeOK
<1>11. CASE UNCHANGED ref_count
  BY <1>11
<1>12. CASE \E t \in Threads : \E q \in Ptrs : Destroy(t, q) \/ \E src \in Ptrs :
              CopyConstruct(t, q, src) \/ MoveAssign(t, q, src)
  BY <1>4, <1>7, <1>8, <1>12
<1>13. CASE \E t \in Threads : CopyAssignEnd(t) \/ \E q, src \in Ptrs : CopyAssign(t, q, src)
  BY <1>5, <1>9, <1>13
<1> QED
  BY <1>10, <1>11, <1>12, <1>13
     DEF RefNext, PtrStep, refVars, Delete, Send, MoveConstruct

\* What the comment on HasOneRef says: a thread that has a pointer to an object
\* and finds its count at 1 finds it at 1 until that thread itself makes a step.
THEOREM OneRefStable == RefSpec => OneRefIsStable
BY RefInvariant, OneRefStep, PTL DEF RefSpec, OneRefIsStable

-----------------------------------------------------------------------------
(* Weak pointers                                                             *)

\* Factories and weak pointers only do what RefPtrs may do.
LEMMA WeakStepIsRefStep == [WeakNext]_weakVars => [RefNext]_refVars
BY FactoryAssumption DEF WeakNext, weakVars, WeakPtrFactory, GetWeakPtr, DestroyFactory,
   HandOverFactory, WeakPtrStep, RefNext, PtrStep, WeakPtrs

\* The flags of weak pointers are counted as any other object.
THEOREM ImplementsRefPtr == WeakSpec => RefSpec
BY WeakStepIsRefStep, PTL DEF WeakSpec, WeakInit, RefSpec

\* A flag that is valid has its factory, whose flag_ no other operation changes.
FlagInv ==
    /\ is_valid \in [Objects -> BOOLEAN]
    /\ target \in [Objects -> {"none", "alive", "destroyed"}]
    /\ \A o \in Objects : is_valid[o] <=> target[o] = "alive"
    /\ \A o \in Objects : is_valid[o] => \E f \in Factories : ptr[f] = o
    /\ \A t \in Threads : call[t].op = "assign" => call[t].dst \in WeakPtrs

\* No flag is valid at the start.
LEMMA FlagInvInit == WeakInit => FlagInv
BY DEF WeakInit, RefInit, FlagInv, Idle

\* A flag is valid from the construction of its factory to its destruction.
LEMMA FlagInvStep == RefTypeOK /\ FlagInv /\ [WeakNext]_weakVars => FlagInv'
<1> SUFFICES ASSUME RefTypeOK, FlagInv, [WeakNext]_weakVars PROVE FlagInv'
  OBVIOUS
<1>1. ASSUME UNCHANGED <<is_valid, target>>, \A f \in Factories : ptr'[f] = ptr[f],
             \A t \in Threads : call'[t].op = "assign" => call'[t].dst \in WeakPtrs
      PROVE  FlagInv'
  BY <1>1 DEF FlagInv
<1>2. ASSUME NEW t \in Threads, NEW n, Release(t, n), NEW u \in Threads,
             call'[u].op = "assign"
      PROVE  call'[u].dst \in WeakPtrs
  <2>1. u # t
    BY <1>2 DEF Release, RefTypeOK, Idle
  <2> QED
    BY <1>2, <2>1 DEF Release, RefTypeOK, FlagInv
<1>3. ASSUME NEW t \in Threads, Delete(t) \/ CopyAssignEnd(t), UNCHANGED <<is_valid, target>>
      PROVE  FlagInv'
  <2>1. CASE Delete(t)
    BY <1>1, <1>3, <2>1 DEF Delete, FlagInv, RefTypeOK, Idle
  <2>2. CASE CopyAssignEnd(t)
    <3>1. \A f \in Factories : ptr'[f] = ptr[f]
      BY <2>2, FactoryAssumption DEF CopyAssignEnd, FlagInv, RefTypeOK, WeakPtrs
    <3> QED
      BY <1>1, <1>2, <1>3, <2>2, <3>1 DEF CopyAssignEnd
  <2> QED
    BY <1>3, <2>1, <2>2
<1>4. ASSUME NEW t \in Threads, NEW p \in WeakPtrs, UNCHANGED <<is_valid, target>>,
             Destroy(t, p) \/ (\E to \in Threads : Send(t, p, to))
      PROVE  FlagInv'
  <2>1. \A f \in Factories : ptr'[f] = ptr[f]
    BY <1>4, FactoryAssumption DEF Destroy, Send, RefTypeOK, WeakPtrs
  <2>2. \A u \in Threads : call'[u].op = "assign" => call'[u].dst \in WeakPtrs
    BY <1>2, <1>4 DEF Destroy, Send, FlagInv
  <2> QED
    BY <1>1, <1>4, <2>1, <2>2
<1>5. ASSUME NEW t \in Threads, NEW p \in WeakPtrs, NEW src \in Ptrs,
             UNCHANGED <<is_valid, target>>,
             \/ CopyConstruct(t, p, src) \/ CopyAssign(t, p, src)
             \/ src \in WeakPtrs /\ (MoveConstruct(t, p, src) \/ MoveAssign(t, p, src))
      PROVE  FlagInv'
  <2>1. \A f \in Factories : ptr'[f] = ptr[f]
    BY <1>5, FactoryAssumption
       DEF CopyConstruct, CopyAssign, MoveConstruct, MoveAssign, RefTypeOK, WeakPtrs
  <2>2. \A u \in Threads : call'[u].op = "assign" => call'[u].dst \in WeakPtrs
    <3>1. CASE CopyAssign(t, p, src)
      BY <1>5, <3>1 DEF CopyAssign, FlagInv, RefTypeOK
    <3>2. CASE MoveAssign(t, p, src)
      BY <1>2, <3>2 DEF MoveAssign
    <3>3. CASE CopyConstruct(t, p, src) \/ MoveConstruct(t, p, src)
      BY <3>3 DEF CopyConstruct, MoveConstruct, FlagInv
    <3> QED
      BY <1>5, <3>1, <3>2, <3>3
  <2> QED
    BY <1>1, <1>5, <2>1, <2>2
<1>6. ASSUME NEW t \in Threads, NEW f \in Factories, NEW o \in Objects, WeakPtrFactory(t, f, o)
      PROVE  FlagInv'
  <2>1. /\ ptr[f] = NoObj /\ ptr' = [ptr EXCEPT ![f] = o] /\ UNCHANGED call
        /\ is_valid' = [is_valid EXCEPT ![o] = TRUE]
        /\ target' = [target EXCEPT ![o] = "alive"]
    BY <1>6 DEF WeakPtrFactory, MakeRefCounted, Mine
  <2>2. ASSUME NEW n \in Objects, is_valid'[n] PROVE \E g \in Factories : ptr'[g] = n
    <3>1. CASE n = o
      BY <2>1, <3>1, FactoryAssumption DEF RefTypeOK
    <3>2. CASE n # o
      <4>1. PICK g \in Factories : ptr[g] = n
        BY <2>1, <2>2, <3>2 DEF FlagInv
      <4>2. ptr'[g] = n
        BY <2>1, <4>1, PtrAssumption, FactoryAssumption DEF RefTypeOK
      <4> QED
        BY <4>2
    <3> QED
      BY <3>1, <3>2
  <2> QED
    BY <2>1, <2>2 DEF FlagInv
<1>7. ASSUME NEW t \in Threads, NEW f \in Factories, DestroyFactory(t, f) PROVE FlagInv'
  <2>1. /\ ptr[f] # NoObj /\ ptr' = [ptr EXCEPT ![f] = NoObj] /\ Release(t, ptr[f])
        /\ is_valid' = [is_valid EXCEPT ![ptr[f]] = FALSE]
        /\ target' = [target EXCEPT ![ptr[f]] = "destroyed"]
    BY <1>7 DEF DestroyFactory, Destroy
  <2>2. ASSUME NEW n \in Objects, is_valid'[n] PROVE \E g \in Factories : ptr'[g] = n
    <3>1. n # ptr[f] /\ is_valid[n]
      BY <2>1, <2>2 DEF FlagInv
    <3>2. PICK g \in Factories : ptr[g] = n
      BY <3>1 DEF FlagInv
    <3>3. ptr'[g] = n
      BY <2>1, <3>1, <3>2, FactoryAssumption DEF RefTypeOK
    <3> QED
      BY <3>3
  <2>3. \A u \in Threads : call'[u].op = "assign" => call'[u].dst \in WeakPtrs
    BY <1>2, <2>1
  <2> QED
    BY <2>1, <2>2, <2>3 DEF FlagInv
<1>8. ASSUME NEW t \in Threads, NEW f \in Factories, NEW to \in Threads, HandOverFactory(t, f, to)
      PROVE  FlagInv'
  BY <1>1, <1>8 DEF HandOverFactory, Send, FlagInv
<1>9. CASE UNCHANGED weakVars
  BY <1>9 DEF FlagInv, weakVars, refVars
<1> QED
  BY <1>3, <1>4, <1>5, <1>6, <1>7, <1>8, <1>9, FactoryAssumption
     DEF WeakNext, WeakPtrStep, PtrStep, GetWeakPtr, WeakPtrs

\* A weak pointer that says it is valid points to an object that is alive, and no
\* valid flag is deleted, on any number of threads.
THEOREM WeakPtrsAreSafeInvariant == WeakSpec => []WeakPtrsAreSafe
<1>1. RefInv /\ FlagInv => WeakPtrsAreSafe
  <2> SUFFICES ASSUME RefInv, FlagInv PROVE WeakPtrsAreSafe
    OBVIOUS
  <2>1. ASSUME NEW p \in WeakPtrs, ptr[p] # NoObj
        PROVE  is_valid[ptr[p]] <=> target[ptr[p]] = "alive"
    BY <2>1 DEF RefInv, RefTypeOK, FlagInv, WeakPtrs
  <2>2. ASSUME NEW o \in Objects, is_valid[o] PROVE state[o] = "live"
    <3>1. PICK f \in Factories : ptr[f] = o
      BY <2>2 DEF FlagInv
    <3>2. <<"stored", f>> \in References(o)
      BY <3>1, RefsMember, FactoryAssumption
    <3> QED
      BY <3>2 DEF RefInv, NoDanglingPtr
  <2> QED
    BY <2>1, <2>2 DEF WeakPtrsAreSafe, IsValid
<1>2. WeakSpec => []RefInv
  BY ImplementsRefPtr, RefInvariant, PTL
<1>3. RefInv => RefTypeOK
  BY DEF RefInv
<1> QED
  BY <1>1, <1>2, <1>3, FlagInvInit, FlagInvStep, PTL DEF WeakSpec
=============================================================================
