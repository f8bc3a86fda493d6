--------------------------- MODULE NativeEffects ----------------------------
(* What the functions of the JNI bridge, the native methods and the probes   *)
(* may do to the virtual machine and to the operating system, function by    *)
(* function: which kinds of references and resources the world holds more or *)
(* less of at the return, and which rules may have been broken on the way.   *)
EXTENDS NativeCalls, FiniteSetTheorems, TLAPS

\* What a function may return: a world and a result in R.
Outcomes(R) == [w : World, r : R]

\* v differs from w at most in the references and resources of the kinds in K, in
\* breaking rules in M, in a pending exception and in who attached the thread.
Frame(w, v, M, K) ==
    /\ v \in World
    /\ v.bad \subseteq w.bad \cup M
    /\ \A k \in Kinds \ K : v.held[k] = w.held[k]

\* The same without a pending exception.
Tidy(w, v, M, K) == Frame(w, v, M, K) /\ ~v.exc

\* A world in which native code may call the machine.
Calm(w) == w \in World /\ ~w.exc /\ w.held["crit"] = 0

-----------------------------------------------------------------------------
(* The primitives                                                            *)

\* The fields of a world.
LEMMA WorldForm ==
  ASSUME NEW w \in World
  PROVE  /\ w.exc \in BOOLEAN /\ w.bad \subseteq Misuses
         /\ w.held \in [Kinds -> Nat] /\ w.loader \in BOOLEAN /\ w.mount \in BOOLEAN
         /\ \A k \in Kinds : w.held[k] \in Nat
BY DEF World

\* ExceptionClear.
LEMMA ClearForm ==
  ASSUME NEW w \in World
  PROVE  Clear(w) \in World /\ ~Clear(w).exc /\ Clear(w).bad = w.bad /\ Clear(w).held = w.held
BY DEF World, Clear

\* An exception is thrown.
LEMMA ThrowForm ==
  ASSUME NEW w \in World
  PROVE  Throw(w) \in World /\ Throw(w).exc /\ Throw(w).bad = w.bad /\ Throw(w).held = w.held
BY DEF World, Throw

\* A rule is broken, and nothing else happens.
LEMMA MisuseForm ==
  ASSUME NEW w \in World, NEW M \in SUBSET Misuses
  PROVE  /\ Misuse(w, M) \in World /\ Misuse(w, M).exc = w.exc
         /\ Misuse(w, M).bad = w.bad \cup M /\ Misuse(w, M).held = w.held
BY DEF World, Misuse

\* One more of a kind is held.
LEMMA TakeForm ==
  ASSUME NEW w \in World, NEW k \in Kinds
  PROVE  /\ Take(w, k) \in World /\ Take(w, k).exc = w.exc /\ Take(w, k).bad = w.bad
         /\ Take(w, k).held[k] = w.held[k] + 1
         /\ \A j \in Kinds : j # k => Take(w, k).held[j] = w.held[j]
<1>1. [w.held EXCEPT ![k] = @ + 1] \in [Kinds -> Nat]
  BY DEF World
<1>2. Take(w, k) = [w EXCEPT !.held = [w.held EXCEPT ![k] = @ + 1]]
  BY DEF Take, World
<1>3. QED
  BY <1>1, <1>2 DEF World

\* One of a kind that is held is given back.
LEMMA GiveForm ==
  ASSUME NEW w \in World, NEW k \in Kinds, w.held[k] > 0
  PROVE  /\ Give(w, k) \in World /\ Give(w, k).exc = w.exc /\ Give(w, k).bad = w.bad
         /\ Give(w, k).held[k] = w.held[k] - 1
         /\ \A j \in Kinds : j # k => Give(w, k).held[j] = w.held[j]
<1>1. [w.held EXCEPT ![k] = @ - 1] \in [Kinds -> Nat]
  BY DEF World
<1>2. Give(w, k) = [w EXCEPT !.held = [w.held EXCEPT ![k] = @ - 1]]
  BY DEF Give, World
<1>3. QED
  BY <1>1, <1>2 DEF World

\* QJniEnvironment attaches the thread, and changes nothing else.
LEMMA AttachForm ==
  ASSUME NEW w \in World
  PROVE  /\ Attach(w) \in World /\ Attach(w).exc = w.exc /\ Attach(w).bad = w.bad
         /\ Attach(w).held = w.held
BY DEF World, Attach

\* A call from a calm world breaks no rule.
LEMMA CalmUse ==
  ASSUME NEW w \in World, Calm(w)
  PROVE  Use(w) = w
BY DEF World, Calm, Use, Misuse

\* A call that may throw returns a null exactly when it did.
LEMMA JniForm ==
  ASSUME NEW w \in World, Calm(w), NEW o \in Jni(w)
  PROVE  /\ o \in Outcomes(BOOLEAN) /\ o.w.bad = w.bad /\ o.w.held = w.held
         /\ (o.r <=> ~o.w.exc)
<1>1. o = [w |-> w, r |-> TRUE] \/ o = [w |-> Throw(w), r |-> FALSE]
  BY CalmUse DEF Jni, Got, None, Res
<1>2. CASE o = [w |-> w, r |-> TRUE]
  BY <1>2 DEF Outcomes, Calm
<1>3. CASE o = [w |-> Throw(w), r |-> FALSE]
  BY <1>3, ThrowForm DEF Outcomes
<1>4. QED
  BY <1>1, <1>2, <1>3

\* A call that returns a reference: a local one more, or a null, which tells a thrown
\* exception for JniNew and never for JniGet.
LEMMA JniCallForm ==
  ASSUME NEW w \in World, Calm(w), NEW o \in JniCall(w)
  PROVE  /\ o \in Outcomes(BOOLEAN) /\ o.w.bad = w.bad
         /\ o.w.held["local"] = w.held["local"] + (IF o.r THEN 1 ELSE 0)
         /\ \A j \in Kinds : j # "local" => o.w.held[j] = w.held[j]
         /\ o.r => ~o.w.exc
         /\ o \in JniNew(w) => (o.r <=> ~o.w.exc)
         /\ o \in JniGet(w) => ~o.w.exc
<1>1. "local" \in Kinds
  BY DEF Kinds, Transient
<1>2. /\ o = [w |-> Take(w, "local"), r |-> TRUE] \/ o = [w |-> Throw(w), r |-> FALSE]
         \/ o = [w |-> w, r |-> FALSE]
      /\ o \in JniNew(w) =>
            o = [w |-> Take(w, "local"), r |-> TRUE] \/ o = [w |-> Throw(w), r |-> FALSE]
      /\ o \in JniGet(w) =>
            o = [w |-> Take(w, "local"), r |-> TRUE] \/ o = [w |-> w, r |-> FALSE]
  BY CalmUse DEF JniCall, JniNew, JniGet, Got, None, Res
<1>3. CASE o = [w |-> Take(w, "local"), r |-> TRUE]
  BY <1>1, <1>3, TakeForm DEF Outcomes, Calm
<1>4. CASE o = [w |-> Throw(w), r |-> FALSE]
  <2>1. o.w = Throw(w) /\ o.r = FALSE
    BY <1>4
  <2>2. ~(o \in JniGet(w))
    BY <1>2, <2>1, ThrowForm DEF Calm
  <2>3. QED
    BY <1>1, <1>4, <2>1, <2>2, ThrowForm, WorldForm DEF Outcomes
<1>5. CASE o = [w |-> w, r |-> FALSE]
  <2>1. o.w = w /\ o.r = FALSE
    BY <1>5
  <2>2. ~(o \in JniNew(w))
    BY <1>2, <2>1, ThrowForm DEF Calm
  <2>3. QED
    BY <1>1, <1>5, <2>1, <2>2, WorldForm DEF Outcomes, Calm
<1>6. QED
  BY <1>2, <1>3, <1>4, <1>5

\* An outcome, and one whose world is changed by a clean-up.
LEMMA OutcomeForm ==
  ASSUME NEW R, NEW p \in Outcomes(R), NEW v \in World
  PROVE  /\ p.w \in World /\ p.r \in R
         /\ After(p, v) \in Outcomes(R)
         /\ After(p, v).w = v /\ After(p, v).r = p.r
BY DEF Outcomes, After

\* An outcome that is the only one.
LEMMA ResForm ==
  ASSUME NEW R, NEW v \in World, NEW x \in R, NEW o \in Res(v, x)
  PROVE  o \in Outcomes(R) /\ o.w = v /\ o.r = x
BY DEF Res, Outcomes

\* The same, with a result.
LEMMA GotForm ==
  ASSUME NEW v \in World, NEW o \in Got(v)
  PROVE  o \in Outcomes(BOOLEAN) /\ o.w = v /\ o.r
<1>1. o = [w |-> v, r |-> TRUE]
  BY DEF Got, Res
<1>2. QED
  BY <1>1 DEF Outcomes

\* The same, with a null.
LEMMA NoneForm ==
  ASSUME NEW v \in World, NEW o \in None(v)
  PROVE  o \in Outcomes(BOOLEAN) /\ o.w = v /\ ~o.r
<1>1. o = [w |-> v, r |-> FALSE]
  BY DEF None, Res
<1>2. QED
  BY <1>1 DEF Outcomes

-----------------------------------------------------------------------------
(* QJniObject                                                                *)

\* The private parts there are: one with an object has its class too.
Objects == {q \in QPrivates : q.obj => q.cls}

\* Nothing has happened, but that an exception was cleared.
Quiet(w, v) == v \in World /\ ~v.exc /\ v.bad = w.bad /\ v.held = w.held

\* The global references a private part owns.
Owned(q) == (IF q.obj THEN 1 ELSE 0) + (IF q.cls /\ q.own THEN 1 ELSE 0)

\* The function returns a QJniObject, takes the references that it owns, and
\* keeps nothing but those and a class it has looked up.
Yields(w, o, M) ==
    /\ o \in Outcomes(Objects)
    /\ Frame(w, o.w, M, {"global", "class"})
    /\ o.w.held["global"] = w.held["global"] + Owned(o.r)

\* It leaves no exception either.
Makes(w, o, M) == Yields(w, o, M) /\ ~o.w.exc

\* After a quiet call native code may call the machine.
LEMMA QuietCalm ==
  ASSUME NEW w, NEW v, Quiet(w, v), w.held["crit"] = 0
  PROVE  Calm(v)
BY DEF Quiet, Calm

\* The use of an argument that may be null.
LEMMA OnForm ==
  ASSUME NEW w \in World, NEW b \in BOOLEAN
  PROVE  /\ On(w, b) \in World /\ On(w, b).exc = w.exc /\ On(w, b).held = w.held
         /\ On(w, b).bad = w.bad \cup (IF b THEN {} ELSE {"null"})
         /\ Calm(w) => Calm(On(w, b))
BY MisuseForm DEF On, Misuses, Calm

\* The kinds, one by one.
LEMMA KindsForm ==
  /\ {"global", "class", "weak", "local", "chars", "crit", "file", "fd", "dl", "heap"} = Kinds
  /\ {"local", "chars", "crit", "file", "fd", "dl", "heap"} = Transient
BY DEF Kinds, Transient, Refs

\* getMethodID and getFieldID clear what the machine threw.
LEMMA GetIDForm ==
  ASSUME NEW w \in World, Calm(w), NEW o \in getMethodID(w) \cup getFieldID(w)
  PROVE  o \in Outcomes(BOOLEAN) /\ Quiet(w, o.w)
<1>1. PICK p \in Jni(w) : o \in Res(Clear(p.w), p.r /\ ~p.w.exc)
  BY DEF getMethodID, getFieldID, Then
<1>2. p \in Outcomes(BOOLEAN) /\ p.w \in World /\ p.w.bad = w.bad /\ p.w.held = w.held
  BY JniForm DEF Outcomes
<1>3. o \in Res(Clear(p.w), TRUE) \/ o \in Res(Clear(p.w), FALSE)
  BY <1>1 DEF Res
<1>4. ASSUME NEW b \in BOOLEAN, o \in Res(Clear(p.w), b)
      PROVE  o \in Outcomes(BOOLEAN) /\ o.w = Clear(p.w)
  BY <1>2, <1>4, ClearForm, ResForm
<1>5. o \in Outcomes(BOOLEAN) /\ o.w = Clear(p.w)
  BY <1>3, <1>4
<1>6. QED
  BY <1>2, <1>5, ClearForm DEF Quiet

\* The empty object and the object with both references.
LEMMA QForm == /\ NoQ \in Objects /\ Owned(NoQ) = 0 /\ ~NoQ.obj /\ ~NoQ.cls /\ NoQ.own
               /\ FullQ \in Objects /\ Owned(FullQ) = 2 /\ FullQ.obj /\ FullQ.cls /\ FullQ.own
BY DEF NoQ, FullQ, Objects, QPrivates, Owned

\* A new reference: one more of its kind.
LEMMA NewRefForm ==
  ASSUME NEW w \in World, Calm(w), NEW k \in Kinds \ {"crit"}
  PROVE  /\ NewRef(w, k) \in World /\ Calm(NewRef(w, k)) /\ NewRef(w, k).bad = w.bad
         /\ NewRef(w, k).held[k] = w.held[k] + 1
         /\ \A j \in Kinds : j # k => NewRef(w, k).held[j] = w.held[j]
<1>1. NewRef(w, k) = Take(w, k)
  BY CalmUse DEF NewRef
<1>2. "crit" \in Kinds
  BY KindsForm
<1>3. QED
  BY <1>1, <1>2, TakeForm DEF Calm

\* The only outcome is a private part.
LEMMA QResForm ==
  ASSUME NEW v \in World, NEW q \in Objects, NEW o \in Res(v, q)
  PROVE  o \in Outcomes(Objects) /\ o.w = v /\ o.r = q
BY DEF Res, Outcomes

\* QJniObject(jobject) owns references to the object and its class, or nothing if it is
\* null.
LEMMA FromObjectForm ==
  ASSUME NEW w \in World, Calm(w), NEW b \in BOOLEAN, NEW o \in FromObject(w, b)
  PROVE  /\ Makes(w, o, {}) /\ o.r = (IF b THEN FullQ ELSE NoQ)
         /\ o.w.held["class"] = w.held["class"]
<1> DEFINE v == Attach(w)
           g == NewRef(v, "global")
           h == NewRef(g, "global")
<1>1. v \in World /\ Calm(v) /\ v.bad = w.bad /\ v.held = w.held
  BY AttachForm DEF Calm
<1>2. /\ g \in World /\ Calm(g) /\ g.bad = w.bad /\ g.held["global"] = w.held["global"] + 1
      /\ \A j \in Kinds : j # "global" => g.held[j] = w.held[j]
  BY <1>1, NewRefForm, KindsForm
<1> HIDE DEF v, g
<1>3. /\ h \in World /\ Calm(h) /\ h.bad = w.bad /\ h.held["global"] = w.held["global"] + 1 + 1
      /\ \A j \in Kinds : j # "global" => h.held[j] = w.held[j]
  BY <1>2, NewRefForm, KindsForm
<1> HIDE DEF h
<1>4. CASE b
  <2>1. o \in Res(Clear(h), FullQ)
    BY <1>4 DEF FromObject, h, g, v
  <2>2. o \in Outcomes(Objects) /\ o.w = Clear(h) /\ o.r = FullQ
    BY <1>3, <2>1, ResForm, ClearForm, QForm
  <2>3. /\ o.w \in World /\ ~o.w.exc /\ o.w.bad = w.bad
        /\ o.w.held["global"] = w.held["global"] + 1 + 1
        /\ \A j \in Kinds : j # "global" => o.w.held[j] = w.held[j]
    BY <1>3, <2>2, ClearForm
  <2>4. w.held["global"] \in Nat
    BY WorldForm, KindsForm
  <2>5. QED
    BY <1>4, <2>2, <2>3, <2>4, QForm, KindsForm DEF Makes, Yields, Frame
<1>5. CASE ~b
  <2>1. o \in Res(w, NoQ)
    BY <1>5 DEF FromObject
  <2>2. o \in Outcomes(Objects) /\ o.w = w /\ o.r = NoQ
    BY <2>1, ResForm, QForm
  <2>3. w.held["global"] \in Nat
    BY WorldForm, KindsForm
  <2>5. QED
    BY <1>5, <2>2, <2>3, QForm DEF Makes, Yields, Frame, Calm
<1>6. QED
  BY <1>4, <1>5

\* The end of a scope with a QJniEnvironment.
LEMMA WithEnvForm ==
  ASSUME NEW R, NEW p \in Outcomes(R)
  PROVE  /\ After(p, checkAndClearExceptions(p.w)) \in Outcomes(R)
         /\ After(p, checkAndClearExceptions(p.w)).w = Clear(p.w)
         /\ After(p, checkAndClearExceptions(p.w)).r = p.r
         /\ Quiet(p.w, Clear(p.w))
<1>1. Clear(p.w) \in World /\ p.w \in World
  BY OutcomeForm, ClearForm DEF Outcomes
<1>2. QED
  BY <1>1, OutcomeForm, ClearForm DEF checkAndClearExceptions, Quiet

\* What a QJniEnvironment does to an object that is made in its scope: the thread is
\* attached before, and what was thrown is cleared after.
LEMMA EnvMakes ==
  ASSUME NEW w \in World, NEW M, NEW p, Yields(Attach(w), p, M),
         NEW o, o = After(p, checkAndClearExceptions(p.w))
  PROVE  Makes(w, o, M)
<1>1. p \in Outcomes(Objects)
  BY DEF Yields
<1>2. o \in Outcomes(Objects) /\ o.w = Clear(p.w) /\ o.r = p.r /\ Quiet(p.w, Clear(p.w))
  BY <1>1, WithEnvForm
<1>3. QED
  BY <1>2, AttachForm DEF Makes, Yields, Frame, Quiet

\* A local reference becomes an object, and is deleted.
LEMMA LocalRefForm ==
  ASSUME NEW v \in World, NEW b \in BOOLEAN, v.held["crit"] = 0,
         b => ~v.exc /\ v.held["local"] > 0,
         NEW o \in getCleanJniObject(v, b) \cup fromLocalRef(v, b)
  PROVE  /\ o \in Outcomes(Objects) /\ o.w.bad \subseteq v.bad
         /\ o.w.held["global"] = v.held["global"] + Owned(o.r)
         /\ o.w.held["local"] = v.held["local"] - (IF b THEN 1 ELSE 0)
         /\ \A k \in Kinds \ {"global", "local"} : o.w.held[k] = v.held[k]
<1>0. v.held["local"] \in Nat /\ v.held["global"] \in Nat /\ "local" \in Kinds /\ "global" \in Kinds
  BY WorldForm, KindsForm
<1>1. CASE ~b
  <2>1. o \in Res(v, NoQ) \/ \E p \in Res(v, NoQ) : o = After(p, Clear(p.w))
    BY <1>1 DEF getCleanJniObject, fromLocalRef, FromObject, Finally, GiveIf
  <2>2. o \in Outcomes(Objects) /\ o.r = NoQ /\ (o.w = v \/ o.w = Clear(v))
    <3>1. CASE o \in Res(v, NoQ)
      BY <3>1, ResForm, QForm
    <3>2. ASSUME NEW p \in Res(v, NoQ), o = After(p, Clear(p.w))
          PROVE  o \in Outcomes(Objects) /\ o.r = NoQ /\ o.w = Clear(v)
      <4>1. p \in Outcomes(Objects) /\ p.w = v /\ p.r = NoQ
        BY ResForm, QForm
      <4>2. QED
        BY <3>2, <4>1, OutcomeForm, ClearForm
    <3>3. QED
      BY <2>1, <3>1, <3>2
  <2>3. QED
    BY <1>0, <1>1, <2>2, QForm, ClearForm
<1>2. CASE b
  <2>1. Calm(v)
    BY <1>2 DEF Calm
  <2>2. PICK u \in {v, Attach(v)}, t \in World,
               p \in FromObject(v, TRUE) \cup FromObject(Attach(v), TRUE) :
          /\ p \in FromObject(u, TRUE)
          /\ t.held = p.w.held /\ t.bad = p.w.bad
          /\ \/ o = After(p, Give(t, "local"))
             \/ \E q : /\ q = After(p, Give(t, "local"))
                       /\ o = After(q, checkAndClearExceptions(q.w))
    <3>1. CASE o \in fromLocalRef(v, b)
      <4>1. PICK p \in FromObject(v, TRUE) : o = After(p, Give(Clear(p.w), "local"))
        BY <1>2, <3>1 DEF fromLocalRef, Finally, GiveIf
      <4>2. p.w \in World
        BY <2>1, FromObjectForm DEF Makes, Yields, Frame
      <4>3. QED
        BY <4>1, <4>2, ClearForm
    <3>2. CASE o \in getCleanJniObject(v, b)
      <4>1. ~Attach(v).exc
        BY <2>1, AttachForm DEF Calm
      <4>2. PICK p, q :
              /\ p \in FromObject(Attach(v), TRUE)
              /\ q = After(p, Give(p.w, "local"))
              /\ o = After(q, checkAndClearExceptions(q.w))
        BY <1>2, <3>2, <4>1 DEF getCleanJniObject, WithEnv, Finally
      <4>3. Calm(Attach(v)) /\ Attach(v) \in World
        BY <2>1, AttachForm DEF Calm
      <4>4. p.w \in World
        BY <4>2, <4>3, FromObjectForm DEF Makes, Yields, Frame
      <4>5. QED
        BY <4>2, <4>4
    <3>3. QED
      BY <3>1, <3>2
  <2>3. Calm(u) /\ u \in World /\ u.bad = v.bad /\ u.held = v.held
    BY <2>1, AttachForm DEF Calm
  <2>4. /\ Makes(u, p, {}) /\ p \in Outcomes(Objects)
        /\ p.w.held["class"] = u.held["class"]
    <3>1. TRUE \in BOOLEAN /\ p \in FromObject(u, TRUE)
      BY <2>2
    <3>2. QED
      BY <2>3, <3>1, FromObjectForm DEF Makes, Yields
  <2>5. /\ t.bad \subseteq v.bad /\ t.held["global"] = v.held["global"] + Owned(p.r)
        /\ t.held["local"] = v.held["local"]
        /\ \A k \in Kinds \ {"global", "local", "class"} : t.held[k] = v.held[k]
        /\ t.held["class"] = v.held["class"]
    BY <1>0, <2>2, <2>3, <2>4 DEF Makes, Yields, Frame
  <2> DEFINE g == Give(t, "local")
  <2>6. /\ g \in World /\ g.bad = t.bad /\ g.held["local"] = t.held["local"] - 1
        /\ \A j \in Kinds : j # "local" => g.held[j] = t.held[j]
    BY <1>0, <1>2, <2>5, GiveForm
  <2>7. /\ o \in Outcomes(Objects) /\ o.r = p.r
        /\ o.w = g \/ o.w = Clear(g)
    <3> HIDE DEF g
    <3>1. CASE o = After(p, g)
      BY <2>4, <2>6, <3>1, OutcomeForm
    <3>2. ASSUME NEW q, q = After(p, g), o = After(q, checkAndClearExceptions(q.w))
          PROVE  o \in Outcomes(Objects) /\ o.r = p.r /\ o.w = Clear(g)
      <4>1. q \in Outcomes(Objects) /\ q.w = g /\ q.r = p.r
        BY <2>4, <2>6, <3>2, OutcomeForm
      <4>2. QED
        BY <3>2, <4>1, WithEnvForm
    <3>3. QED
      BY <2>2, <3>1, <3>2 DEF g
  <2> HIDE DEF g
  <2>8. o.w.bad = g.bad /\ o.w.held = g.held
    BY <2>6, <2>7, ClearForm
  <2>9. QED
    BY <1>0, <1>2, <2>5, <2>6, <2>7, <2>8
<1>3. QED
  BY <1>1, <1>2

\* The same for the result of a call.
LEMMA CallResultForm ==
  ASSUME NEW w \in World, Calm(w), NEW p \in JniCall(w),
         NEW o \in getCleanJniObject(p.w, p.r) \cup fromLocalRef(p.w, p.r)
                   \cup fromLocalRef(Clear(p.w), p.r)
  PROVE  Yields(w, o, {})
<1>1. /\ p \in Outcomes(BOOLEAN) /\ p.w \in World /\ p.r \in BOOLEAN /\ p.w.bad = w.bad
      /\ p.w.held["local"] = w.held["local"] + (IF p.r THEN 1 ELSE 0)
      /\ \A j \in Kinds : j # "local" => p.w.held[j] = w.held[j]
      /\ p.r => ~p.w.exc
  BY JniCallForm DEF Outcomes
<1>2. PICK v \in World : /\ v.held = p.w.held /\ v.bad = p.w.bad /\ (p.r => ~v.exc)
                         /\ o \in getCleanJniObject(v, p.r) \cup fromLocalRef(v, p.r)
  BY <1>1, ClearForm
<1>3. w.held["local"] \in Nat /\ v.held["crit"] = 0 /\ "crit" \in Kinds
  BY <1>1, <1>2, WorldForm, KindsForm DEF Calm
<1>4. p.r => ~v.exc /\ v.held["local"] > 0
  BY <1>1, <1>2, <1>3
<1>5. /\ o \in Outcomes(Objects) /\ o.w.bad \subseteq v.bad
      /\ o.w.held["global"] = v.held["global"] + Owned(o.r)
      /\ o.w.held["local"] = v.held["local"] - (IF p.r THEN 1 ELSE 0)
      /\ \A k \in Kinds \ {"global", "local"} : o.w.held[k] = v.held[k]
  BY <1>1, <1>2, <1>3, <1>4, LocalRefForm
<1>6. o.w.held["local"] = w.held["local"]
  BY <1>1, <1>2, <1>3, <1>5
<1>7. \A k \in Kinds \ {"global", "class"} : o.w.held[k] = w.held[k]
  BY <1>1, <1>2, <1>5, <1>6
<1>8. o.w \in World /\ "global" \in Kinds
  BY <1>5, KindsForm DEF Outcomes
<1>9. QED
  BY <1>1, <1>2, <1>5, <1>7, <1>8 DEF Yields, Frame

-----------------------------------------------------------------------------

\* One call after another.
LEMMA FrameTrans ==
  ASSUME NEW w, NEW v, NEW u, NEW M, NEW K, NEW N \in SUBSET M, NEW L \in SUBSET K,
         NEW J \in SUBSET K, Frame(w, v, M, J), Frame(v, u, N, L)
  PROVE  Frame(w, u, M, K)
BY DEF Frame

\* A frame and then a tidy one.
LEMMA TidyTrans ==
  ASSUME NEW w, NEW v, NEW u, NEW M, NEW K, NEW N \in SUBSET M, NEW L \in SUBSET K,
         NEW J \in SUBSET K, Frame(w, v, M, J), Tidy(v, u, N, L)
  PROVE  Tidy(w, u, M, K)
BY DEF Tidy, Frame

\* After a tidy function native code may call the machine.
LEMMA TidyCalm ==
  ASSUME NEW w, NEW v, NEW M, NEW K, Tidy(w, v, M, K), "crit" \notin K, w.held["crit"] = 0
  PROVE  Calm(v) /\ v \in World /\ Frame(w, v, M, K)
BY KindsForm DEF Tidy, Frame, Calm

\* A quiet call is tidy.
LEMMA QuietTidy ==
  ASSUME NEW w, NEW v, Quiet(w, v)
  PROVE  Tidy(w, v, {}, {})
BY DEF Tidy, Frame, Quiet

\* The scope of a QJniEnvironment, around anything in a frame.
LEMMA EnvTidy ==
  ASSUME NEW w \in World, NEW M, NEW K, NEW R, NEW p \in Outcomes(R),
         Frame(Attach(w), p.w, M, K),
         NEW o, o = After(p, checkAndClearExceptions(p.w))
  PROVE  o \in Outcomes(R) /\ o.r = p.r /\ Tidy(w, o.w, M, K)
<1>1. o \in Outcomes(R) /\ o.w = Clear(p.w) /\ o.r = p.r /\ Quiet(p.w, Clear(p.w))
  BY WithEnvForm
<1>2. QED
  BY <1>1, AttachForm DEF Tidy, Frame, Quiet

\* What a read or a creation may do, a call of a method may do.
LEMMA GetIsCall ==
  ASSUME NEW w, NEW o \in JniGet(w) \cup JniNew(w)
  PROVE  o \in JniCall(w)
BY DEF JniCall, JniGet, JniNew

\* A method or field is looked up in a class, and used of an object.
Looks(v, c, b, o) ==
    \E p \in getMethodID(v) \cup getFieldID(v) \cup getMethodID(On(v, c)) \cup getFieldID(On(v, c)) :
        \/ o \in Res(p.w, NoQ)
        \/ \E s \in JniCall(p.w) \cup JniCall(On(p.w, b)) :
              o \in getCleanJniObject(s.w, s.r) \cup fromLocalRef(s.w, s.r)
                    \cup fromLocalRef(Clear(s.w), s.r)

\* A lookup of an id, then the use of it: a null class or id is a broken rule.
LEMMA LookupForm ==
  ASSUME NEW v \in World, Calm(v), NEW c \in BOOLEAN, NEW b \in BOOLEAN, NEW M,
         ~c \/ ~b => "null" \in M, NEW o, Looks(v, c, b, o)
  PROVE  Yields(v, o, M)
<1>0. PICK e \in {v, On(v, c)}, p \in getMethodID(v) \cup getFieldID(v)
                                   \cup getMethodID(On(v, c)) \cup getFieldID(On(v, c)) :
        /\ p \in getMethodID(e) \cup getFieldID(e)
        /\ \/ o \in Res(p.w, NoQ)
           \/ \E s \in JniCall(p.w) \cup JniCall(On(p.w, b)) :
                 o \in getCleanJniObject(s.w, s.r) \cup fromLocalRef(s.w, s.r)
                       \cup fromLocalRef(Clear(s.w), s.r)
  BY DEF Looks
<1>1. e \in World /\ Calm(e) /\ e.held = v.held /\ e.bad \subseteq v.bad \cup M
  BY OnForm
<1>2. p.w \in World /\ ~p.w.exc /\ p.w.held = v.held /\ p.w.bad \subseteq v.bad \cup M
  BY <1>0, <1>1, GetIDForm DEF Quiet
<1>3. Calm(p.w)
  BY <1>2 DEF Calm
<1>4. "global" \in Kinds /\ v.held["global"] \in Nat
  BY WorldForm, KindsForm
<1>5. CASE o \in Res(p.w, NoQ)
  <2>1. o \in Outcomes(Objects) /\ o.w = p.w /\ o.r = NoQ
    BY <1>2, <1>5, ResForm, QForm
  <2>2. QED
    BY <1>2, <1>4, <2>1, QForm DEF Yields, Frame
<1>6. ASSUME NEW x \in {p.w, On(p.w, b)}, NEW s \in JniCall(x),
             o \in getCleanJniObject(s.w, s.r) \cup fromLocalRef(s.w, s.r)
                   \cup fromLocalRef(Clear(s.w), s.r)
      PROVE  Yields(v, o, M)
  <2>1. x \in World /\ Calm(x) /\ x.held = v.held /\ x.bad \subseteq v.bad \cup M
    BY <1>2, <1>3, OnForm
  <2>2. Yields(x, o, {})
    BY <1>6, <2>1, CallResultForm
  <2>3. QED
    BY <2>1, <2>2 DEF Yields, Frame
<1>7. QED
  BY <1>0, <1>5, <1>6

\* The attached thread may call the machine.
LEMMA AttachCalm ==
  ASSUME NEW w \in World, Calm(w)
  PROVE  Attach(w) \in World /\ Calm(Attach(w)) /\ On(Attach(w), TRUE) = Attach(w)
BY AttachForm DEF Calm, On

\* Calls of methods and reads of fields that return an object.
LEMMA ObjectMethodForm ==
  ASSUME NEW w \in World, Calm(w), NEW q \in Objects, NEW M, ~q.obj \/ ~q.cls => "null" \in M,
         NEW o \in callObjectMethod(w, q) \cup callObjectMethodV(w, q) \cup getObjectField(w, q)
  PROVE  Makes(w, o, M)
<1> DEFINE v == Attach(w)
<1>1. v \in World /\ Calm(v)
  BY AttachCalm
<1>2. q.cls \in BOOLEAN /\ q.obj \in BOOLEAN
  BY DEF Objects, QPrivates
<1>3. PICK t : o = After(t, checkAndClearExceptions(t.w)) /\ Looks(v, q.cls, q.obj, t)
  BY GetIsCall DEF callObjectMethod, callObjectMethodV, getObjectField, WithEnv, Finally,
                   Then, Looks
<1>4. Yields(v, t, M)
  BY <1>1, <1>2, <1>3, LookupForm
<1>5. QED
  BY <1>3, <1>4, EnvMakes

\* The static methods and fields that return an object, on a class that is given.
LEMMA StaticObjectForm ==
  ASSUME NEW w \in World, Calm(w), NEW c \in BOOLEAN, NEW M,
         NEW o,
         \/ o \in callStaticObjectMethod(w, c)
         \/ o \in callStaticObjectMethodById(w, c, TRUE)
         \/ /\ ~c => "null" \in M
            /\ o \in callStaticObjectMethodV(w, c) \cup getStaticObjectField(w, c)
  PROVE  Makes(w, o, M)
<1> DEFINE v == Attach(w)
<1>1. v \in World /\ Calm(v) /\ On(v, TRUE) = v
  BY AttachCalm
<1>2. PICK t : /\ o = After(t, checkAndClearExceptions(t.w))
               /\ \/ t \in Res(v, NoQ)
                  \/ Looks(v, TRUE, TRUE, t)
                  \/ (~c => "null" \in M) /\ Looks(v, c, TRUE, t)
                  \/ \E s \in JniCall(v) : t \in getCleanJniObject(s.w, s.r)
  <2>1. CASE ~c /\ o \in callStaticObjectMethod(w, c)
    BY <2>1 DEF callStaticObjectMethod, WithEnv, Finally
  <2>2. CASE c /\ o \in callStaticObjectMethod(w, c)
    <3>1. PICK t : /\ o = After(t, checkAndClearExceptions(t.w))
                   /\ \E p \in getMethodID(v) :
                         IF p.r THEN \E s \in JniCall(p.w) : t \in getCleanJniObject(s.w, s.r)
                         ELSE t \in Res(p.w, NoQ)
      BY <2>2 DEF callStaticObjectMethod, WithEnv, Finally, Then
    <3>2. Looks(v, TRUE, TRUE, t)
      BY <3>1, GetIsCall DEF Looks
    <3>3. QED
      BY <2>2, <3>1, <3>2
  <2>3. CASE o \in callStaticObjectMethodById(w, c, TRUE)
    BY <2>3 DEF callStaticObjectMethodById, WithEnv, Finally, Then
  <2>4. CASE (~c => "null" \in M) /\ o \in callStaticObjectMethodV(w, c)
    <3>1. PICK t : /\ o = After(t, checkAndClearExceptions(t.w))
                   /\ \E p \in getMethodID(On(v, c)) :
                         IF p.r THEN \E s \in JniCall(p.w) : t \in getCleanJniObject(s.w, s.r)
                         ELSE t \in Res(p.w, NoQ)
      BY <2>4 DEF callStaticObjectMethodV, WithEnv, Finally, Then
    <3>2. Looks(v, c, TRUE, t)
      BY <3>1, GetIsCall DEF Looks
    <3>3. QED
      BY <2>4, <3>1, <3>2
  <2>5. CASE (~c => "null" \in M) /\ o \in getStaticObjectField(w, c)
    <3>1. PICK t : /\ o = After(t, checkAndClearExceptions(t.w))
                   /\ \E p \in getFieldID(On(v, c)) :
                         IF p.r THEN \E s \in JniGet(p.w) : t \in getCleanJniObject(s.w, s.r)
                         ELSE t \in Res(p.w, NoQ)
      BY <2>5 DEF getStaticObjectField, WithEnv, Finally, Then
    <3>2. Looks(v, c, TRUE, t)
      BY <3>1, GetIsCall DEF Looks
    <3>3. QED
      BY <2>5, <3>1, <3>2
  <2>6. QED
    BY <2>1, <2>2, <2>3, <2>4, <2>5
<1>3. CASE t \in Res(v, NoQ)
  <2>1. t \in Outcomes(Objects) /\ t.w = v /\ t.r = NoQ
    BY <1>1, <1>3, ResForm, QForm
  <2>2. "global" \in Kinds /\ v.held["global"] \in Nat
    BY <1>1, WorldForm, KindsForm
  <2>3. Yields(v, t, M)
    BY <1>1, <2>1, <2>2, QForm DEF Yields, Frame
  <2>4. QED
    BY <1>2, <2>3, EnvMakes
<1>4. CASE Looks(v, TRUE, TRUE, t) \/ ((~c => "null" \in M) /\ Looks(v, c, TRUE, t))
  <2>1. Yields(v, t, M)
    BY <1>1, <1>4, LookupForm
  <2>2. QED
    BY <1>2, <2>1, EnvMakes
<1>5. CASE \E s \in JniCall(v) : t \in getCleanJniObject(s.w, s.r)
  <2>1. Yields(v, t, {})
    BY <1>1, <1>5, CallResultForm
  <2>2. Yields(v, t, M)
    BY <2>1 DEF Yields, Frame
  <2>3. QED
    BY <1>2, <2>2, EnvMakes
<1>6. QED
  BY <1>2, <1>3, <1>4, <1>5

\* fromString.
LEMMA FromStringForm ==
  ASSUME NEW w \in World, Calm(w), NEW o \in fromString(w)
  PROVE  Makes(w, o, {})
<1> DEFINE v == Attach(w)
<1>1. v \in World /\ Calm(v)
  BY AttachCalm
<1>2. PICK t : /\ o = After(t, checkAndClearExceptions(t.w))
               /\ \E s \in JniCall(v) : t \in fromLocalRef(s.w, s.r)
  BY GetIsCall DEF fromString, WithEnv, Finally, Then
<1>3. Yields(v, t, {})
  BY <1>1, <1>2, CallResultForm
<1>4. QED
  BY <1>2, <1>3, EnvMakes

\* The constructor of a QJniObject from a local reference.
LEMMA FromLocalForm ==
  ASSUME NEW w \in World, Calm(w), NEW o \in Then(JniGet(w), fromLocalRef)
  PROVE  Makes(w, o, {})
<1>1. PICK s \in JniGet(w) : o \in fromLocalRef(s.w, s.r)
  BY DEF Then
<1>2. Yields(w, o, {})
  BY <1>1, GetIsCall, CallResultForm
<1>3. ~o.w.exc
  <2>1. s.w \in World /\ Calm(s.w) /\ s.r \in BOOLEAN
    BY GetIsCall, JniCallForm, KindsForm DEF Calm, Outcomes
  <2>2. PICK p \in FromObject(s.w, s.r) : o = After(p, GiveIf(Clear(p.w), "local", s.r))
    BY <1>1 DEF fromLocalRef, Finally
  <2>3. p \in Outcomes(Objects) /\ p.w \in World
    BY <2>1, FromObjectForm DEF Makes, Yields, Outcomes
  <2>4. o.w = GiveIf(Clear(p.w), "local", s.r)
    BY <2>2, <2>3 DEF Outcomes, After
  <2>5. QED
    BY <2>3, <2>4 DEF GiveIf, Give, Misuse, Clear, World
<1>4. QED
  BY <1>2, <1>3 DEF Makes

\* ~QJniObjectPrivate gives back what the private part owns.
LEMMA DestroyForm ==
  ASSUME NEW w \in World, NEW q \in Objects, w.held["global"] >= Owned(q)
  PROVE  /\ DestroyPrivate(w, q) \in World /\ ~DestroyPrivate(w, q).exc
         /\ DestroyPrivate(w, q).bad = w.bad
         /\ DestroyPrivate(w, q).held["global"] = w.held["global"] - Owned(q)
         /\ \A k \in Kinds \ {"global"} : DestroyPrivate(w, q).held[k] = w.held[k]
<1> DEFINE a == Attach(w)
           b == GiveIf(a, "global", q.obj)
           c == GiveIf(b, "global", q.cls /\ q.own)
<1>1. q.obj \in BOOLEAN /\ "global" \in Kinds /\ w.held["global"] \in Nat
  BY WorldForm, KindsForm DEF Objects, QPrivates
<1>2. a \in World /\ a.bad = w.bad /\ a.held = w.held
  BY AttachForm
<1>3. /\ b \in World /\ b.bad = w.bad /\ b.held["global"] = w.held["global"] - (IF q.obj THEN 1 ELSE 0)
      /\ \A k \in Kinds \ {"global"} : b.held[k] = w.held[k]
  <2>1. CASE q.obj
    <3>1. a.held["global"] > 0
      BY <1>1, <1>2, <2>1 DEF Owned
    <3>2. b = Give(a, "global")
      BY <2>1 DEF GiveIf
    <3> HIDE DEF a, b
    <3>3. QED
      BY <1>1, <1>2, <2>1, <3>1, <3>2, GiveForm
  <2>2. CASE ~q.obj
    BY <1>1, <1>2, <2>2 DEF GiveIf
  <2>3. QED
    BY <1>1, <2>1, <2>2
<1> HIDE DEF a, b
<1>4. /\ c \in World /\ c.bad = w.bad /\ c.held["global"] = w.held["global"] - Owned(q)
      /\ \A k \in Kinds \ {"global"} : c.held[k] = w.held[k]
  <2>1. CASE q.cls /\ q.own
    <3>1. b.held["global"] > 0
      BY <1>1, <1>3, <2>1 DEF Owned
    <3>2. c = Give(b, "global")
      BY <2>1 DEF GiveIf
    <3>3. QED
      BY <1>1, <1>3, <2>1, <3>1, <3>2, GiveForm DEF Owned
  <2>2. CASE ~(q.cls /\ q.own)
    BY <1>1, <1>3, <2>2 DEF GiveIf, Owned
  <2>3. QED
    BY <2>1, <2>2
<1>5. DestroyPrivate(w, q) = Clear(c)
  BY DEF DestroyPrivate, a, b
<1> HIDE DEF c
<1>6. QED
  BY <1>4, <1>5, ClearForm

\* loadClass gives back the three objects it works with; the class stays.
LEMMA LoadClassForm ==
  ASSUME NEW w \in World, Calm(w), NEW o \in loadClass(w)
  PROVE  o \in Outcomes(BOOLEAN) /\ Tidy(w, o.w, {}, {"class"})
<1>1. CASE ~w.loader
  <2>1. o \in Res(w, FALSE)
    BY <1>1 DEF loadClass, None
  <2>2. o \in Outcomes(BOOLEAN) /\ o.w = w
    BY <2>1, ResForm
  <2>3. QED
    BY <2>2 DEF Tidy, Frame, Calm
<1>2. CASE w.loader
  <2>0. o \in UNION {UNION {UNION {keepClass(c.w, c.r, b.r, a.r) :
                                   c \in callObjectMethod(b.w, a.r)} :
                            b \in fromString(a.w)} :
                     a \in FromObject(w, TRUE)}
    BY <1>2 DEF loadClass, Then
  <2>1. PICK a \in FromObject(w, TRUE) :
           o \in UNION {UNION {keepClass(c.w, c.r, b.r, a.r) :
                               c \in callObjectMethod(b.w, a.r)} :
                        b \in fromString(a.w)}
    BY <2>0
  <2>2. PICK b \in fromString(a.w) :
           o \in UNION {keepClass(c.w, c.r, b.r, a.r) : c \in callObjectMethod(b.w, a.r)}
    BY <2>1
  <2>3. PICK c \in callObjectMethod(b.w, a.r) : o \in keepClass(c.w, c.r, b.r, a.r)
    BY <2>2
  <2>4. PICK got \in BOOLEAN, e \in {NewRef(c.w, "class"), Clear(c.w)} :
              o \in Res(DestroyPrivate(DestroyPrivate(DestroyPrivate(e, c.r), b.r), a.r), got)
    <3>1. CASE ~c.w.exc /\ c.r.obj
      <4>1. o \in Res(DestroyPrivate(DestroyPrivate(DestroyPrivate(NewRef(c.w, "class"),
                              c.r), b.r), a.r), TRUE)
        BY <2>3, <3>1 DEF keepClass
      <4>2. QED
        BY <4>1
    <3>2. CASE ~(~c.w.exc /\ c.r.obj)
      <4>1. o \in Res(DestroyPrivate(DestroyPrivate(DestroyPrivate(Clear(c.w),
                              c.r), b.r), a.r), FALSE)
        BY <2>3, <3>2 DEF keepClass
      <4>2. QED
        BY <4>1
    <3>3. QED
      BY <3>1, <3>2
  <2>5. /\ Makes(w, a, {}) /\ a.r = FullQ /\ a.w \in World /\ a.r \in Objects /\ ~a.w.exc
        /\ a.w.bad \subseteq w.bad /\ a.w.held["global"] = w.held["global"] + Owned(a.r)
        /\ \A k \in Kinds \ {"global", "class"} : a.w.held[k] = w.held[k]
    BY FromObjectForm DEF Makes, Yields, Frame, Outcomes
  <2>6. Calm(a.w) /\ "crit" \in Kinds /\ "global" \in Kinds /\ "class" \in Kinds \ {"crit"}
    BY <2>5, KindsForm DEF Calm
  <2>7. /\ b.w \in World /\ b.r \in Objects /\ ~b.w.exc
        /\ b.w.bad \subseteq w.bad /\ b.w.held["global"] = a.w.held["global"] + Owned(b.r)
        /\ \A k \in Kinds \ {"global", "class"} : b.w.held[k] = w.held[k]
    BY <2>5, <2>6, FromStringForm DEF Makes, Yields, Frame, Outcomes
  <2>8. Calm(b.w)
    BY <2>6, <2>7 DEF Calm
  <2>9. /\ c.w \in World /\ c.r \in Objects /\ ~c.w.exc
        /\ c.w.bad \subseteq w.bad /\ c.w.held["global"] = b.w.held["global"] + Owned(c.r)
        /\ \A k \in Kinds \ {"global", "class"} : c.w.held[k] = w.held[k]
    <3>1. Makes(b.w, c, {})
      BY <2>5, <2>7, <2>8, QForm, ObjectMethodForm
    <3>2. QED
      BY <2>7, <3>1 DEF Makes, Yields, Frame, Outcomes
  <2>10. Calm(c.w)
    BY <2>6, <2>9 DEF Calm
  <2>11. /\ e \in World /\ e.bad \subseteq w.bad /\ e.held["global"] = c.w.held["global"]
         /\ \A k \in Kinds \ {"global", "class"} : e.held[k] = w.held[k]
    <3>1. CASE e = NewRef(c.w, "class")
      <4>1. "class" \in Kinds \ {"crit"} /\ "global" \in Kinds
        BY KindsForm
      <4>2. c.w \in World /\ c.w.bad \subseteq w.bad
        BY <2>9
      <4>3. /\ NewRef(c.w, "class") \in World /\ NewRef(c.w, "class").bad = c.w.bad
            /\ \A j \in Kinds : j # "class" => NewRef(c.w, "class").held[j] = c.w.held[j]
        BY <2>10, <4>1, <4>2, NewRefForm
      <4>4. QED
        BY <2>9, <3>1, <4>1, <4>2, <4>3
    <3>2. CASE e = Clear(c.w)
      BY <2>9, <3>2, ClearForm
    <3>3. QED
      BY <3>1, <3>2
  <2>12. /\ Owned(a.r) \in Nat /\ Owned(b.r) \in Nat /\ Owned(c.r) \in Nat
         /\ w.held["global"] \in Nat
    BY <2>6, WorldForm DEF Owned
  <2> DEFINE x == DestroyPrivate(e, c.r)
             y == DestroyPrivate(x, b.r)
             z == DestroyPrivate(y, a.r)
  <2>13. /\ x \in World /\ x.bad \subseteq w.bad
         /\ x.held["global"] = w.held["global"] + Owned(a.r) + Owned(b.r)
         /\ \A k \in Kinds \ {"global", "class"} : x.held[k] = w.held[k]
    BY <2>5, <2>7, <2>9, <2>11, <2>12, DestroyForm
  <2> HIDE DEF x
  <2>14. /\ y \in World /\ y.bad \subseteq w.bad
         /\ y.held["global"] = w.held["global"] + Owned(a.r)
         /\ \A k \in Kinds \ {"global", "class"} : y.held[k] = w.held[k]
    BY <2>7, <2>12, <2>13, DestroyForm
  <2> HIDE DEF y
  <2>15. /\ z \in World /\ z.bad \subseteq w.bad /\ ~z.exc
         /\ z.held["global"] = w.held["global"]
         /\ \A k \in Kinds \ {"global", "class"} : z.held[k] = w.held[k]
    BY <2>5, <2>12, <2>14, DestroyForm
  <2>16. o \in Res(z, got)
    BY <2>4 DEF x, y
  <2> HIDE DEF z
  <2>17. o \in Outcomes(BOOLEAN) /\ o.w = z
    BY <2>15, <2>16, ResForm
  <2>18. QED
    BY <2>15, <2>17 DEF Tidy, Frame
<1>3. QED
  BY <1>1, <1>2 DEF World

\* QtAndroidPrivate::findClass
LEMMA FindClassForm ==
  ASSUME NEW w \in World, Calm(w), NEW o \in findClass(w)
  PROVE  o \in Outcomes(BOOLEAN) /\ Tidy(w, o.w, {}, {"class"})
<1>1. PICK v \in JniNew(w) :
         o \in IF ~v.w.exc THEN Got(Give(NewRef(v.w, "class"), "local"))
               ELSE WithEnv(Clear(v.w), loadClass)
  BY DEF findClass, Then
<1>2. /\ v \in Outcomes(BOOLEAN) /\ v.w \in World /\ v.w.bad = w.bad /\ (v.r <=> ~v.w.exc)
      /\ v.w.held["local"] = w.held["local"] + (IF v.r THEN 1 ELSE 0)
      /\ \A j \in Kinds : j # "local" => v.w.held[j] = w.held[j]
  BY GetIsCall, JniCallForm DEF Outcomes
<1>3. /\ "crit" \in Kinds /\ "local" \in Kinds /\ "class" \in Kinds \ {"crit"}
      /\ w.held["local"] \in Nat
  BY KindsForm, WorldForm
<1>4. CASE ~v.w.exc
  <2>1. o \in Got(Give(NewRef(v.w, "class"), "local"))
    BY <1>1, <1>4
  <2>2. Calm(v.w)
    BY <1>2, <1>3, <1>4 DEF Calm
  <2> DEFINE n == NewRef(v.w, "class")
             g == Give(n, "local")
  <2>3. /\ n \in World /\ Calm(n) /\ n.bad = w.bad
        /\ \A j \in Kinds : j # "class" => n.held[j] = v.w.held[j]
    BY <1>2, <1>3, <2>2, NewRefForm
  <2> HIDE DEF n
  <2>4. n.held["local"] > 0 /\ n.held["local"] - 1 = w.held["local"]
    BY <1>2, <1>3, <1>4, <2>3
  <2>5. /\ g \in World /\ ~g.exc /\ g.bad = w.bad
        /\ \A j \in Kinds : j # "class" => g.held[j] = w.held[j]
    BY <1>2, <1>3, <2>3, <2>4, GiveForm DEF Calm
  <2>6. o \in Got(g)
    BY <2>1 DEF n
  <2> HIDE DEF g
  <2>7. o \in Outcomes(BOOLEAN) /\ o.w = g
    BY <2>5, <2>6, GotForm
  <2>8. QED
    BY <2>5, <2>7 DEF Tidy, Frame
<1>5. CASE v.w.exc
  <2> DEFINE c == Clear(v.w)
  <2>1. c \in World /\ ~c.exc /\ c.bad = w.bad /\ \A j \in Kinds : c.held[j] = w.held[j]
    BY <1>2, <1>3, <1>5, ClearForm
  <2>2. PICK t \in loadClass(Attach(c)) : o = After(t, checkAndClearExceptions(t.w))
    BY <1>1, <1>5 DEF WithEnv, Finally
  <2> HIDE DEF c
  <2>3. Calm(c)
    BY <1>3, <2>1 DEF Calm
  <2>4. t \in Outcomes(BOOLEAN) /\ Frame(Attach(c), t.w, {}, {"class"})
    BY <2>1, <2>3, AttachCalm, LoadClassForm DEF Tidy
  <2>5. o \in Outcomes(BOOLEAN) /\ Tidy(c, o.w, {}, {"class"})
    BY <2>1, <2>2, <2>4, EnvTidy
  <2>6. QED
    BY <2>1, <2>5 DEF Tidy, Frame
<1>6. QED
  BY <1>4, <1>5

\* An object is constructed of a class that q holds.
LEMMA NewObjectForm ==
  ASSUME NEW w \in World, Calm(w), NEW q \in Objects, q.cls, ~q.obj, NEW o \in NewObject(w, q)
  PROVE  /\ o \in Outcomes(Objects) /\ Frame(w, o.w, {}, {"global"})
         /\ o.r.cls /\ o.r.own = q.own
         /\ o.w.held["global"] = w.held["global"] + (IF o.r.obj THEN 1 ELSE 0)
<1>0. /\ "crit" \in Kinds /\ "local" \in Kinds /\ "global" \in Kinds \ {"crit"}
      /\ w.held["local"] \in Nat /\ w.held["global"] \in Nat
  BY KindsForm, WorldForm
<1>1. PICK p \in getMethodID(w) :
         o \in IF ~p.r THEN Res(p.w, q)
               ELSE UNION {IF u.r THEN Res(Give(NewRef(u.w, "global"), "local"),
                                           [q EXCEPT !.obj = TRUE])
                           ELSE Res(u.w, q) : u \in JniNew(p.w)}
  BY DEF NewObject, Then
<1>2. p.w \in World /\ Calm(p.w) /\ p.w.bad = w.bad /\ p.w.held = w.held
  BY GetIDForm, QuietCalm DEF Quiet, Calm
<1>3. CASE o \in Res(p.w, q)
  <2>1. o \in Outcomes(Objects) /\ o.w = p.w /\ o.r = q
    BY <1>2, <1>3, ResForm
  <2>2. QED
    BY <1>0, <1>2, <2>1 DEF Frame
<1>4. ASSUME NEW u \in JniNew(p.w),
             o \in IF u.r THEN Res(Give(NewRef(u.w, "global"), "local"), [q EXCEPT !.obj = TRUE])
                   ELSE Res(u.w, q)
      PROVE  /\ o \in Outcomes(Objects) /\ Frame(w, o.w, {}, {"global"})
             /\ o.r.cls /\ o.r.own = q.own
             /\ o.w.held["global"] = w.held["global"] + (IF o.r.obj THEN 1 ELSE 0)
  <2>1. /\ u \in Outcomes(BOOLEAN) /\ u.w \in World /\ u.w.bad = w.bad /\ (u.r <=> ~u.w.exc)
        /\ u.w.held["local"] = w.held["local"] + (IF u.r THEN 1 ELSE 0)
        /\ \A j \in Kinds : j # "local" => u.w.held[j] = w.held[j]
    BY <1>2, GetIsCall, JniCallForm DEF Outcomes
  <2>2. CASE ~u.r
    <3>1. o \in Outcomes(Objects) /\ o.w = u.w /\ o.r = q
      BY <1>4, <2>1, <2>2, ResForm
    <3>2. \A j \in Kinds : u.w.held[j] = w.held[j]
      BY <1>0, <2>1, <2>2
    <3>3. QED
      BY <1>0, <2>1, <3>1, <3>2 DEF Frame
  <2>3. CASE u.r
    <3> DEFINE n == NewRef(u.w, "global")
               g == Give(n, "local")
               r == [q EXCEPT !.obj = TRUE]
    <3>1. o \in Res(g, r)
      BY <1>4, <2>3
    <3>2. r \in Objects /\ r.cls /\ r.own = q.own /\ r.obj
      BY DEF Objects, QPrivates
    <3>3. Calm(u.w)
      BY <1>0, <2>1, <2>3, <1>2 DEF Calm
    <3>4. /\ n \in World /\ Calm(n) /\ n.bad = w.bad /\ n.held["global"] = w.held["global"] + 1
          /\ n.held["local"] = w.held["local"] + 1
          /\ \A j \in Kinds : j \notin {"local", "global"} => n.held[j] = w.held[j]
      <4>1. /\ n \in World /\ Calm(n) /\ n.bad = u.w.bad
            /\ n.held["global"] = u.w.held["global"] + 1
            /\ \A j \in Kinds : j # "global" => n.held[j] = u.w.held[j]
        BY <1>0, <2>1, <3>3, NewRefForm
      <4> HIDE DEF n
      <4>2. QED
        BY <1>0, <2>1, <2>3, <4>1
    <3> HIDE DEF n
    <3>5. /\ g \in World /\ g.bad = w.bad /\ g.held["global"] = w.held["global"] + 1
          /\ \A j \in Kinds : j # "global" => g.held[j] = w.held[j]
      BY <1>0, <3>4, GiveForm
    <3> HIDE DEF g, r
    <3>6. o \in Outcomes(Objects) /\ o.w = g /\ o.r = r
      BY <3>1, <3>2, <3>5, QResForm
    <3>7. QED
      BY <3>2, <3>5, <3>6 DEF Frame
  <2>4. QED
    BY <2>1, <2>2, <2>3
<1>5. QED
  BY <1>1, <1>3, <1>4

\* QJniObject(clazz)
LEMMA ConstructByClassForm ==
  ASSUME NEW w \in World, Calm(w), NEW c \in BOOLEAN, NEW o \in ConstructByClass(w, c)
  PROVE  Makes(w, o, {})
<1> DEFINE v == Attach(w)
           n == NewRef(v, "global")
           q == [NoQ EXCEPT !.cls = TRUE]
<1>0. "global" \in Kinds \ {"crit"} /\ v.held["global"] \in Nat
  BY AttachForm, KindsForm, WorldForm
<1>1. v \in World /\ Calm(v)
  BY AttachCalm
<1>2. PICK t \in IF c THEN NewObject(n, q) ELSE Res(v, NoQ) :
         o = After(t, checkAndClearExceptions(t.w))
  BY DEF ConstructByClass, WithEnv, Finally
<1>3. CASE c
  <2>1. q \in Objects /\ q.cls /\ ~q.obj /\ q.own
    BY DEF NoQ, Objects, QPrivates
  <2>2. /\ n \in World /\ Calm(n) /\ n.bad = v.bad /\ n.held["global"] = v.held["global"] + 1
        /\ \A j \in Kinds : j # "global" => n.held[j] = v.held[j]
    BY <1>0, <1>1, NewRefForm
  <2>3. t \in NewObject(n, q)
    BY <1>2, <1>3
  <2> HIDE DEF v, n, q
  <2>4. /\ t \in Outcomes(Objects) /\ Frame(n, t.w, {}, {"global"}) /\ t.r.cls /\ t.r.own
        /\ t.w.held["global"] = n.held["global"] + (IF t.r.obj THEN 1 ELSE 0)
    BY <2>1, <2>2, <2>3, NewObjectForm
  <2>5. Yields(v, t, {})
    BY <1>0, <2>2, <2>4 DEF Yields, Frame, Owned
  <2>6. QED
    BY <1>2, <2>5, EnvMakes DEF v
<1>4. CASE ~c
  <2>1. t \in Res(v, NoQ)
    BY <1>2, <1>4
  <2> HIDE DEF v
  <2>2. t \in Outcomes(Objects) /\ t.w = v /\ t.r = NoQ
    BY <1>1, <2>1, QResForm, QForm
  <2>3. Yields(v, t, {})
    BY <1>0, <1>1, <2>2, QForm DEF Yields, Frame
  <2>4. QED
    BY <1>2, <2>3, EnvMakes DEF v
<1>5. QED
  BY <1>3, <1>4

\* QJniObject(className)
LEMMA ConstructByNameForm ==
  ASSUME NEW w \in World, Calm(w), NEW o \in ConstructByName(w)
  PROVE  Makes(w, o, {})
<1> DEFINE v == Attach(w)
           q(b) == [NoQ EXCEPT !.cls = b, !.own = FALSE]
<1>1. v \in World /\ Calm(v) /\ "global" \in Kinds
  BY AttachCalm, KindsForm
<1>2. PICK t \in UNION {IF u.r THEN NewObject(u.w, q(u.r)) ELSE Res(u.w, q(u.r)) : u \in loadClass(v)} :
         o = After(t, checkAndClearExceptions(t.w))
  BY DEF ConstructByName, WithEnv, Finally, Then
<1>3. PICK u \in loadClass(v) : t \in IF u.r THEN NewObject(u.w, q(u.r)) ELSE Res(u.w, q(u.r))
  BY <1>2
<1> HIDE DEF v
<1>4. /\ u \in Outcomes(BOOLEAN) /\ Tidy(v, u.w, {}, {"class"}) /\ Calm(u.w)
      /\ u.w \in World /\ u.r \in BOOLEAN
      /\ u.w.held["global"] = v.held["global"] /\ u.w.held["global"] \in Nat
  <2>1. u \in Outcomes(BOOLEAN) /\ Tidy(v, u.w, {}, {"class"})
    BY <1>1, LoadClassForm
  <2>2. Calm(u.w) /\ u.w \in World
    BY <1>1, <2>1, TidyCalm DEF Calm
  <2>3. QED
    BY <1>1, <2>1, <2>2, WorldForm DEF Tidy, Frame, Outcomes
<1>5. q(u.r) \in Objects /\ (q(u.r).cls <=> u.r) /\ ~q(u.r).obj /\ ~q(u.r).own
  BY <1>4 DEF NoQ, Objects, QPrivates
<1> DEFINE x == q(u.r)
<1>6. x \in Objects /\ (x.cls <=> u.r) /\ ~x.obj /\ ~x.own
      /\ t \in IF u.r THEN NewObject(u.w, x) ELSE Res(u.w, x)
  BY <1>3, <1>5
<1> HIDE DEF q, x
<1>7. CASE u.r
  <2>1. /\ t \in Outcomes(Objects) /\ Frame(u.w, t.w, {}, {"global"}) /\ t.r.cls /\ t.r.own = x.own
        /\ t.w.held["global"] = u.w.held["global"] + (IF t.r.obj THEN 1 ELSE 0)
    BY <1>4, <1>6, <1>7, NewObjectForm
  <2>2. ~t.r.own
    BY <1>6, <2>1
  <2>3. Owned(t.r) = (IF t.r.obj THEN 1 ELSE 0)
    BY <2>2 DEF Owned
  <2>4. Yields(v, t, {})
    BY <1>4, <2>1, <2>3 DEF Yields, Frame, Tidy
  <2>5. QED
    BY <1>2, <2>4, EnvMakes DEF v
<1>8. CASE ~u.r
  <2>1. t \in Outcomes(Objects) /\ t.w = u.w /\ t.r = x
    BY <1>4, <1>6, <1>8, ResForm
  <2>2. Owned(x) = 0
    BY <1>6, <1>8 DEF Owned
  <2>3. Yields(v, t, {})
    BY <1>4, <2>1, <2>2 DEF Yields, Frame, Tidy
  <2>4. QED
    BY <1>2, <2>3, EnvMakes DEF v
<1>9. QED
  BY <1>4, <1>7, <1>8

\* An object function of a class that was loaded.
LEMMA LoadedForm ==
  ASSUME NEW v \in World, Calm(v), NEW u \in loadClass(v), NEW t,
         t \in Res(u.w, NoQ) \/ Looks(u.w, TRUE, TRUE, t)
  PROVE  Yields(v, t, {})
<1>1. u \in Outcomes(BOOLEAN) /\ Tidy(v, u.w, {}, {"class"})
  BY LoadClassForm
<1>2. Calm(u.w) /\ u.w \in World
  BY <1>1, TidyCalm DEF Calm
<1>3. Yields(u.w, t, {})
  <2>1. CASE t \in Res(u.w, NoQ)
    <3>1. t \in Outcomes(Objects) /\ t.w = u.w /\ t.r = NoQ
      BY <1>2, <2>1, QResForm, QForm
    <3>2. "global" \in Kinds /\ u.w.held["global"] \in Nat
      BY <1>2, WorldForm, KindsForm
    <3>3. QED
      BY <1>2, <3>1, <3>2, QForm DEF Yields, Frame
  <2>2. CASE Looks(u.w, TRUE, TRUE, t)
    BY <1>2, <2>2, LookupForm
  <2>3. QED
    BY <2>1, <2>2
<1>4. "global" \in Kinds
  BY KindsForm
<1>5. QED
  BY <1>1, <1>3, <1>4 DEF Yields, Frame, Tidy

\* The static methods and fields that return an object, on a class that is looked up.
LEMMA ByNameObjectForm ==
  ASSUME NEW w \in World, Calm(w),
         NEW o \in callStaticObjectMethodByName(w) \cup callStaticObjectMethodVByName(w)
                   \cup getStaticObjectFieldByName(w)
  PROVE  Makes(w, o, {})
<1> DEFINE v == Attach(w)
<1>1. v \in World /\ Calm(v)
  BY AttachCalm
<1>2. CASE o \in callStaticObjectMethodByName(w)
  <2>1. PICK t : /\ o = After(t, checkAndClearExceptions(t.w))
                 /\ t \in UNION {IF ~u.r THEN Res(u.w, NoQ)
                                 ELSE UNION {IF p.r THEN UNION {getCleanJniObject(s.w, s.r) :
                                                                 s \in JniCall(p.w)}
                                              ELSE Res(p.w, NoQ) : p \in getMethodID(u.w)} :
                                 u \in loadClass(v)}
    BY <1>2 DEF callStaticObjectMethodByName, WithEnv, Finally, Then
  <2>2. PICK u \in loadClass(v) :
           t \in IF ~u.r THEN Res(u.w, NoQ)
                 ELSE UNION {IF p.r THEN UNION {getCleanJniObject(s.w, s.r) : s \in JniCall(p.w)}
                             ELSE Res(p.w, NoQ) : p \in getMethodID(u.w)}
    BY <2>1
  <2>3. t \in Res(u.w, NoQ) \/ Looks(u.w, TRUE, TRUE, t)
    <3>1. CASE ~u.r
      BY <2>2, <3>1
    <3>2. CASE u.r
      <4>1. PICK p \in getMethodID(u.w) :
               t \in IF p.r THEN UNION {getCleanJniObject(s.w, s.r) : s \in JniCall(p.w)}
                     ELSE Res(p.w, NoQ)
        BY <2>2, <3>2
      <4>2. t \in Res(p.w, NoQ) \/ \E s \in JniCall(p.w) : t \in getCleanJniObject(s.w, s.r)
        BY <4>1
      <4>3. QED
        BY <4>2, GetIsCall DEF Looks
    <3>3. QED
      BY <3>1, <3>2
  <2>4. QED
    BY <1>1, <2>1, <2>2, <2>3, LoadedForm, EnvMakes
<1>3. CASE o \in callStaticObjectMethodVByName(w)
  <2>1. PICK t : /\ o = After(t, checkAndClearExceptions(t.w))
                 /\ t \in UNION {IF ~u.r THEN Res(u.w, NoQ)
                                 ELSE UNION {IF p.r THEN UNION {fromLocalRef(Clear(s.w), s.r) :
                                                                 s \in JniCall(p.w)}
                                              ELSE Res(p.w, NoQ) : p \in getMethodID(u.w)} :
                                 u \in loadClass(v)}
    BY <1>3 DEF callStaticObjectMethodVByName, WithEnv, Finally, Then
  <2>2. PICK u \in loadClass(v) :
           t \in IF ~u.r THEN Res(u.w, NoQ)
                 ELSE UNION {IF p.r THEN UNION {fromLocalRef(Clear(s.w), s.r) : s \in JniCall(p.w)}
                             ELSE Res(p.w, NoQ) : p \in getMethodID(u.w)}
    BY <2>1
  <2>3. t \in Res(u.w, NoQ) \/ Looks(u.w, TRUE, TRUE, t)
    <3>1. CASE ~u.r
      BY <2>2, <3>1
    <3>2. CASE u.r
      <4>1. PICK p \in getMethodID(u.w) :
               t \in IF p.r THEN UNION {fromLocalRef(Clear(s.w), s.r) : s \in JniCall(p.w)}
                     ELSE Res(p.w, NoQ)
        BY <2>2, <3>2
      <4>2. t \in Res(p.w, NoQ) \/ \E s \in JniCall(p.w) : t \in fromLocalRef(Clear(s.w), s.r)
        BY <4>1
      <4>3. QED
        BY <4>2, GetIsCall DEF Looks
    <3>3. QED
      BY <3>1, <3>2
  <2>4. QED
    BY <1>1, <2>1, <2>2, <2>3, LoadedForm, EnvMakes
<1>4. CASE o \in getStaticObjectFieldByName(w)
  <2>1. PICK t : /\ o = After(t, checkAndClearExceptions(t.w))
                 /\ t \in UNION {IF ~u.r THEN Res(u.w, NoQ)
                                 ELSE UNION {IF p.r THEN UNION {getCleanJniObject(s.w, s.r) :
                                                                 s \in JniGet(p.w)}
                                              ELSE Res(p.w, NoQ) : p \in getFieldID(u.w)} :
                                 u \in loadClass(v)}
    BY <1>4 DEF getStaticObjectFieldByName, WithEnv, Finally, Then
  <2>2. PICK u \in loadClass(v) :
           t \in IF ~u.r THEN Res(u.w, NoQ)
                 ELSE UNION {IF p.r THEN UNION {getCleanJniObject(s.w, s.r) : s \in JniGet(p.w)}
                             ELSE Res(p.w, NoQ) : p \in getFieldID(u.w)}
    BY <2>1
  <2>3. t \in Res(u.w, NoQ) \/ Looks(u.w, TRUE, TRUE, t)
    <3>1. CASE ~u.r
      BY <2>2, <3>1
    <3>2. CASE u.r
      <4>1. PICK p \in getFieldID(u.w) :
               t \in IF p.r THEN UNION {getCleanJniObject(s.w, s.r) : s \in JniGet(p.w)}
                     ELSE Res(p.w, NoQ)
        BY <2>2, <3>2
      <4>2. t \in Res(p.w, NoQ) \/ \E s \in JniGet(p.w) : t \in getCleanJniObject(s.w, s.r)
        BY <4>1
      <4>3. QED
        BY <4>2, GetIsCall DEF Looks
    <3>3. QED
      BY <3>1, <3>2
  <2>4. QED
    BY <1>1, <2>1, <2>2, <2>3, LoadedForm, EnvMakes
<1>5. QED
  BY <1>2, <1>3, <1>4

\* A method is called, or a field read or written, that is no reference.
Reads(v, c, b, o) ==
    \E p \in getMethodID(v) \cup getFieldID(v) \cup getMethodID(On(v, c)) \cup getFieldID(On(v, c)) :
        \/ o = p
        \/ \E x \in {p.w, On(p.w, b)} : o \in Jni(x) \cup Got(Use(x))

\* A lookup of an id, then a read or a write of a value: no reference is made.
LEMMA ReadsForm ==
  ASSUME NEW v \in World, Calm(v), NEW c \in BOOLEAN, NEW b \in BOOLEAN, NEW M,
         ~c \/ ~b => "null" \in M, NEW o, Reads(v, c, b, o)
  PROVE  o \in Outcomes(BOOLEAN) /\ Frame(v, o.w, M, {})
<1>1. PICK e \in {v, On(v, c)}, p \in getMethodID(v) \cup getFieldID(v)
                                   \cup getMethodID(On(v, c)) \cup getFieldID(On(v, c)) :
        /\ p \in getMethodID(e) \cup getFieldID(e)
        /\ o = p \/ \E x \in {p.w, On(p.w, b)} : o \in Jni(x) \cup Got(Use(x))
  BY DEF Reads
<1>2. e \in World /\ Calm(e) /\ e.held = v.held /\ e.bad \subseteq v.bad \cup M
  BY OnForm
<1>3. /\ p \in Outcomes(BOOLEAN) /\ p.w \in World /\ ~p.w.exc /\ p.w.held = v.held
      /\ p.w.bad \subseteq v.bad \cup M
  BY <1>1, <1>2, GetIDForm DEF Quiet
<1>4. Calm(p.w)
  BY <1>3 DEF Calm
<1>5. CASE o = p
  BY <1>3, <1>5 DEF Frame
<1>6. ASSUME NEW x \in {p.w, On(p.w, b)}, o \in Jni(x) \cup Got(Use(x))
      PROVE  o \in Outcomes(BOOLEAN) /\ Frame(v, o.w, M, {})
  <2>1. x \in World /\ Calm(x) /\ x.held = v.held /\ x.bad \subseteq v.bad \cup M
    BY <1>3, <1>4, OnForm
  <2>2. o \in Jni(x) \cup Got(x)
    BY <1>6, <2>1, CalmUse
  <2>3. o \in Outcomes(BOOLEAN) /\ o.w \in World /\ o.w.bad = x.bad /\ o.w.held = x.held
    BY <2>1, <2>2, JniForm, GotForm DEF Outcomes
  <2>4. QED
    BY <2>1, <2>3 DEF Frame
<1>7. QED
  BY <1>1, <1>5, <1>6

\* Methods and fields of an object.
LEMMA MethodForm ==
  ASSUME NEW w \in World, Calm(w), NEW q \in Objects, NEW M, ~q.obj \/ ~q.cls => "null" \in M,
         NEW o \in callMethod(w, q) \cup getField(w, q) \cup setField(w, q)
  PROVE  o \in Outcomes(BOOLEAN) /\ Tidy(w, o.w, M, {})
<1> DEFINE v == Attach(w)
<1>1. v \in World /\ Calm(v)
  BY AttachCalm
<1>2. q.cls \in BOOLEAN /\ q.obj \in BOOLEAN
  BY DEF Objects, QPrivates
<1>3. CASE o \in callMethod(w, q)
  <2>1. PICK p, t :
          /\ p \in getMethodID(On(v, q.cls))
          /\ o = After(t, checkAndClearExceptions(t.w))
          /\ t \in IF p.r THEN Jni(On(p.w, q.obj)) ELSE {p}
    BY <1>3 DEF callMethod, callMethodForType, WithEnv, Finally, IfGot
  <2>2. Reads(v, q.cls, q.obj, t)
    BY <2>1 DEF Reads
  <2>3. t \in Outcomes(BOOLEAN) /\ Frame(v, t.w, M, {})
    BY <1>1, <1>2, <1>3, <2>2, ReadsForm
  <2>4. QED
    BY <2>1, <2>3, EnvTidy
<1>4. CASE o \in getField(w, q)
  <2>1. PICK p, t :
          /\ p \in getFieldID(On(v, q.cls))
          /\ o = After(t, checkAndClearExceptions(t.w))
          /\ t \in IF p.r THEN Got(Use(On(p.w, q.obj))) ELSE {p}
    BY <1>4 DEF getField, getFieldForType, WithEnv, Finally, IfGot
  <2>2. Reads(v, q.cls, q.obj, t)
    BY <2>1 DEF Reads
  <2>3. t \in Outcomes(BOOLEAN) /\ Frame(v, t.w, M, {})
    BY <1>1, <1>2, <1>4, <2>2, ReadsForm
  <2>4. QED
    BY <2>1, <2>3, EnvTidy
<1>5. CASE o \in setField(w, q)
  <2>1. PICK p, t :
          /\ p \in getFieldID(On(v, q.cls))
          /\ o = After(t, checkAndClearExceptions(t.w))
          /\ t \in IF p.r THEN Got(Use(On(p.w, q.obj))) ELSE {p}
    BY <1>5 DEF setField, setFieldForType, WithEnv, Finally, IfGot
  <2>2. Reads(v, q.cls, q.obj, t)
    BY <2>1 DEF Reads
  <2>3. t \in Outcomes(BOOLEAN) /\ Frame(v, t.w, M, {})
    BY <1>1, <1>2, <1>5, <2>2, ReadsForm
  <2>4. QED
    BY <2>1, <2>3, EnvTidy
<1>6. QED
  BY <1>3, <1>4, <1>5

\* Static methods and fields of a class.
LEMMA StaticForm ==
  ASSUME NEW w \in World, Calm(w), NEW c \in BOOLEAN, NEW b \in BOOLEAN, NEW M, NEW o,
         \/ o \in callStaticMethod(w, c) \cup callStaticMethodById(w, c, b)
         \/ (~c => "null" \in M) /\ o \in getStaticField(w, c) \cup setStaticField(w, c)
  PROVE  o \in Outcomes(BOOLEAN) /\ Tidy(w, o.w, M, {})
<1> DEFINE v == Attach(w)
<1>1. v \in World /\ Calm(v)
  BY AttachCalm
<1>2. TRUE \in BOOLEAN
  OBVIOUS
<1>3. CASE c /\ o \in callStaticMethod(w, c)
  <2>1. PICK p, t :
          /\ p \in getMethodID(v)
          /\ o = After(t, checkAndClearExceptions(t.w))
          /\ t \in IF p.r THEN Jni(p.w) ELSE {p}
    BY <1>3 DEF callStaticMethod, callStaticMethodForType, WithEnv, Finally, IfGot
  <2>2. Reads(v, TRUE, TRUE, t)
    BY <2>1 DEF Reads
  <2>3. t \in Outcomes(BOOLEAN) /\ Frame(v, t.w, M, {})
    BY <1>1, <1>2, <1>3, <2>2, ReadsForm
  <2>4. QED
    BY <2>1, <2>3, EnvTidy
<1>4. CASE (~c => "null" \in M) /\ o \in getStaticField(w, c)
  <2>1. PICK p, t :
          /\ p \in getFieldID(On(v, c))
          /\ o = After(t, checkAndClearExceptions(t.w))
          /\ t \in IF p.r THEN Got(Use(p.w)) ELSE {p}
    BY <1>4 DEF getStaticField, getStaticFieldForType, WithEnv, Finally, IfGot
  <2>2. Reads(v, c, TRUE, t)
    BY <2>1 DEF Reads
  <2>3. t \in Outcomes(BOOLEAN) /\ Frame(v, t.w, M, {})
    BY <1>1, <1>2, <1>4, <2>2, ReadsForm
  <2>4. QED
    BY <2>1, <2>3, EnvTidy
<1>5. CASE (~c => "null" \in M) /\ o \in setStaticField(w, c)
  <2>1. PICK p, t :
          /\ p \in getFieldID(On(v, c))
          /\ o = After(t, checkAndClearExceptions(t.w))
          /\ t \in IF p.r THEN Got(Use(p.w)) ELSE {p}
    BY <1>5 DEF setStaticField, setStaticFieldForType, WithEnv, Finally, IfGot
  <2>2. Reads(v, c, TRUE, t)
    BY <2>1 DEF Reads
  <2>3. t \in Outcomes(BOOLEAN) /\ Frame(v, t.w, M, {})
    BY <1>1, <1>2, <1>5, <2>2, ReadsForm
  <2>4. QED
    BY <2>1, <2>3, EnvTidy
<1>6. CASE (~c /\ o \in callStaticMethod(w, c)) \/ o \in callStaticMethodById(w, c, b)
  <2>1. PICK t \in Jni(v) \cup None(v) : o = After(t, checkAndClearExceptions(t.w))
    BY <1>6 DEF callStaticMethod, callStaticMethodById, callStaticMethodForType, WithEnv, Finally
  <2>2. t \in Outcomes(BOOLEAN) /\ Frame(v, t.w, M, {})
    BY <1>1, JniForm, NoneForm DEF Frame, Outcomes
  <2>3. QED
    BY <2>1, <2>2, EnvTidy
<1>7. QED
  BY <1>3, <1>4, <1>5, <1>6

\* The same, after loadClass, which may fail.
LEMMA LoadedReadForm ==
  ASSUME NEW v \in World, Calm(v), NEW u \in loadClass(v), NEW t,
         t = u \/ Reads(u.w, TRUE, TRUE, t)
  PROVE  t \in Outcomes(BOOLEAN) /\ Frame(v, t.w, {}, {"class"})
<1>1. u \in Outcomes(BOOLEAN) /\ Tidy(v, u.w, {}, {"class"})
  BY LoadClassForm
<1>2. Calm(u.w) /\ u.w \in World
  BY <1>1, TidyCalm DEF Calm
<1>3. CASE t = u
  BY <1>1, <1>3 DEF Tidy
<1>4. CASE Reads(u.w, TRUE, TRUE, t)
  <2>1. t \in Outcomes(BOOLEAN) /\ Frame(u.w, t.w, {}, {})
    BY <1>2, <1>4, ReadsForm
  <2>2. QED
    BY <1>1, <2>1 DEF Tidy, Frame
<1>5. QED
  BY <1>3, <1>4

\* Static methods and fields of a class that is given by name.
LEMMA ByNameForm ==
  ASSUME NEW w \in World, Calm(w),
         NEW o \in callStaticMethodByName(w) \cup getStaticFieldByName(w)
                   \cup setStaticFieldByName(w) \cup isClassAvailable(w)
  PROVE  o \in Outcomes(BOOLEAN) /\ Tidy(w, o.w, {}, {"class"})
<1> DEFINE v == Attach(w)
<1>1. v \in World /\ Calm(v)
  BY AttachCalm
<1>2. CASE o \in callStaticMethodByName(w)
  <2>1. PICK u, t :
          /\ u \in loadClass(v)
          /\ o = After(t, checkAndClearExceptions(t.w))
          /\ t \in IF u.r THEN UNION {IF p.r THEN Jni(p.w) ELSE {p} : p \in getMethodID(u.w)} ELSE {u}
    BY <1>2 DEF callStaticMethodByName, callStaticMethodForType, WithEnv, Finally, IfGot
  <2>2. t = u \/ Reads(u.w, TRUE, TRUE, t)
    <3>1. CASE ~u.r
      BY <2>1, <3>1
    <3>2. CASE u.r
      <4>1. PICK p \in getMethodID(u.w) : t \in IF p.r THEN Jni(p.w) ELSE {p}
        BY <2>1, <3>2
      <4>2. QED
        BY <4>1 DEF Reads
    <3>3. QED
      BY <3>1, <3>2
  <2>3. t \in Outcomes(BOOLEAN) /\ Frame(v, t.w, {}, {"class"})
    BY <1>1, <2>1, <2>2, LoadedReadForm
  <2>4. QED
    BY <2>1, <2>3, EnvTidy
<1>3. CASE o \in getStaticFieldByName(w)
  <2>1. PICK u, t :
          /\ u \in loadClass(v)
          /\ o = After(t, checkAndClearExceptions(t.w))
          /\ t \in IF u.r THEN UNION {IF p.r THEN Got(Use(p.w)) ELSE {p} : p \in getFieldID(u.w)} ELSE {u}
    BY <1>3 DEF getStaticFieldByName, getStaticFieldForType, WithEnv, Finally, IfGot
  <2>2. t = u \/ Reads(u.w, TRUE, TRUE, t)
    <3>1. CASE ~u.r
      BY <2>1, <3>1
    <3>2. CASE u.r
      <4>1. PICK p \in getFieldID(u.w) : t \in IF p.r THEN Got(Use(p.w)) ELSE {p}
        BY <2>1, <3>2
      <4>2. QED
        BY <4>1 DEF Reads
    <3>3. QED
      BY <3>1, <3>2
  <2>3. t \in Outcomes(BOOLEAN) /\ Frame(v, t.w, {}, {"class"})
    BY <1>1, <2>1, <2>2, LoadedReadForm
  <2>4. QED
    BY <2>1, <2>3, EnvTidy
<1>4. CASE o \in setStaticFieldByName(w)
  <2>1. PICK u, t :
          /\ u \in loadClass(v)
          /\ o = After(t, checkAndClearExceptions(t.w))
          /\ t \in IF u.r THEN UNION {IF p.r THEN Got(Use(p.w)) ELSE {p} : p \in getFieldID(u.w)} ELSE {u}
    BY <1>4 DEF setStaticFieldByName, setStaticFieldForType, WithEnv, Finally, IfGot
  <2>2. t = u \/ Reads(u.w, TRUE, TRUE, t)
    <3>1. CASE ~u.r
      BY <2>1, <3>1
    <3>2. CASE u.r
      <4>1. PICK p \in getFieldID(u.w) : t \in IF p.r THEN Got(Use(p.w)) ELSE {p}
        BY <2>1, <3>2
      <4>2. QED
        BY <4>1 DEF Reads
    <3>3. QED
      BY <3>1, <3>2
  <2>3. t \in Outcomes(BOOLEAN) /\ Frame(v, t.w, {}, {"class"})
    BY <1>1, <2>1, <2>2, LoadedReadForm
  <2>4. QED
    BY <2>1, <2>3, EnvTidy
<1>5. CASE o \in isClassAvailable(w)
  <2>1. PICK t \in loadClass(v) : o = After(t, checkAndClearExceptions(t.w))
    BY <1>5 DEF isClassAvailable, WithEnv, Finally
  <2>2. t \in Outcomes(BOOLEAN) /\ Frame(v, t.w, {}, {"class"})
    BY <1>1, LoadedReadForm
  <2>3. QED
    BY <2>1, <2>2, EnvTidy
<1>6. QED
  BY <1>2, <1>3, <1>4, <1>5

\* fopen, dlopen, GetStringUTFChars and their like.
LEMMA OpenForm ==
  ASSUME NEW w \in World, NEW k \in Kinds, NEW o \in Open(w, k)
  PROVE  /\ o \in Outcomes(BOOLEAN) /\ o.w \in World /\ o.r \in BOOLEAN
         /\ o.w.bad = w.bad /\ o.w.exc = w.exc
         /\ o.w.held[k] = w.held[k] + (IF o.r THEN 1 ELSE 0)
         /\ \A j \in Kinds : j # k => o.w.held[j] = w.held[j]
<1>1. CASE o \in Got(Take(w, k))
  BY <1>1, TakeForm, GotForm DEF Outcomes
<1>2. CASE o \in None(w)
  BY <1>2, NoneForm, WorldForm DEF Outcomes
<1>3. QED
  BY <1>1, <1>2 DEF Open

\* isSameObject
LEMMA SameForm ==
  ASSUME NEW w \in World, Calm(w), NEW q, NEW b, NEW o \in isSameObject(w, q, b)
  PROVE  o.w \in World /\ Quiet(w, o.w)
<1>1. o.w = Clear(Use(Attach(w)))
  BY DEF isSameObject
<1>2. o.w = Clear(Attach(w))
  BY <1>1, AttachCalm, CalmUse
<1>3. QED
  BY <1>2, AttachForm, ClearForm DEF Quiet

\* qt_convertJString
LEMMA ConvertForm ==
  ASSUME NEW w \in World, Calm(w), NEW b \in BOOLEAN, NEW o \in qt_convertJString(w, b)
  PROVE  o \in Outcomes(BOOLEAN) /\ Tidy(w, o.w, {"null"}, {"chars"})
<1> DEFINE v == Attach(w)
           x == On(v, b)
<1>0. "chars" \in Kinds
  BY KindsForm
<1>1. v \in World /\ Calm(v)
  BY AttachCalm
<1>2. x \in World /\ Calm(x) /\ x.held = v.held /\ x.bad \subseteq v.bad \cup {"null"}
  BY <1>1, OnForm
<1>3. PICK u, t :
        /\ u \in Open(x, "chars")
        /\ o = After(t, checkAndClearExceptions(t.w))
        /\ t \in Got(On(u.w, u.r))
  <2>1. Pin(x, "chars") = Open(x, "chars")
    BY <1>2, CalmUse DEF Pin
  <2>2. PICK u, t :
          /\ u \in Pin(x, "chars")
          /\ o = After(t, checkAndClearExceptions(t.w))
          /\ t \in Got(On(u.w, u.r))
    BY DEF qt_convertJString, WithEnv, Finally, Then
  <2>3. QED
    BY <2>1, <2>2
<1> HIDE DEF v, x
<1>4. /\ u.w \in World /\ u.r \in BOOLEAN /\ u.w.bad = x.bad
      /\ \A j \in Kinds : j # "chars" => u.w.held[j] = x.held[j]
  BY <1>0, <1>2, <1>3, OpenForm
<1>5. On(u.w, u.r) \in World /\ On(u.w, u.r).held = u.w.held /\ On(u.w, u.r).bad \subseteq x.bad \cup {"null"}
  BY <1>4, OnForm
<1>6. t \in Outcomes(BOOLEAN) /\ t.w = On(u.w, u.r)
  BY <1>3, <1>5, GotForm
<1>7. Frame(v, t.w, {"null"}, {"chars"})
  BY <1>2, <1>4, <1>5, <1>6 DEF Frame
<1>8. QED
  BY <1>3, <1>6, <1>7, EnvTidy DEF v

\* toString keeps the characters of the string.
LEMMA ToStringForm ==
  ASSUME NEW w \in World, Calm(w), NEW q \in Objects, q.obj, NEW o \in toString(w, q)
  PROVE  Tidy(w, o.w, {"null"}, {"chars", "class"})
<1>1. q.cls /\ "global" \in Kinds /\ w.held["global"] \in Nat
  BY KindsForm, WorldForm DEF Objects
<1>2. PICK p \in callObjectMethod(w, q) :
         \E t \in qt_convertJString(p.w, p.r.obj) : o = After(t, DestroyPrivate(t.w, p.r))
  BY DEF toString, Then, Finally
<1>3. PICK t \in qt_convertJString(p.w, p.r.obj) : o = After(t, DestroyPrivate(t.w, p.r))
  BY <1>2
<1>4. Makes(w, p, {})
  BY <1>1, ObjectMethodForm
<1>5. p.w \in World /\ p.r \in Objects /\ p.r.obj \in BOOLEAN /\ Calm(p.w) /\ Owned(p.r) \in Nat
  <2>1. "crit" \in Kinds
    BY KindsForm
  <2>2. QED
    BY <1>4, <2>1 DEF Makes, Yields, Frame, Outcomes, Objects, QPrivates, Calm, Owned
<1>6. t \in Outcomes(BOOLEAN) /\ Tidy(p.w, t.w, {"null"}, {"chars"})
  BY <1>5, ConvertForm
<1>7. /\ t.w \in World /\ t.w.bad \subseteq w.bad \cup {"null"}
      /\ t.w.held["global"] = w.held["global"] + Owned(p.r)
      /\ \A k \in Kinds \ {"global", "class", "chars"} : t.w.held[k] = w.held[k]
  BY <1>1, <1>4, <1>6 DEF Tidy, Makes, Yields, Frame
<1> DEFINE z == DestroyPrivate(t.w, p.r)
<1>8. /\ z \in World /\ ~z.exc /\ z.bad \subseteq w.bad \cup {"null"}
      /\ z.held["global"] = w.held["global"]
      /\ \A k \in Kinds \ {"global", "class", "chars"} : z.held[k] = w.held[k]
  BY <1>1, <1>5, <1>7, DestroyForm
<1> HIDE DEF z
<1>9. o.w = z
  BY <1>3, <1>6, <1>8, OutcomeForm DEF z
<1>10. QED
  BY <1>8, <1>9 DEF Tidy, Frame

\* The lookups of QJniEnvironment.
LEMMA FindForm ==
  ASSUME NEW w \in World, Calm(w), NEW c \in BOOLEAN,
         NEW o \in findMethod(w, c) \cup findStaticMethod(w, c) \cup findField(w, c)
                   \cup findStaticField(w, c)
  PROVE  Tidy(w, o.w, {}, {})
<1>1. CASE o \in getMethodID(w) \cup getFieldID(w)
  BY <1>1, GetIDForm, QuietTidy
<1>2. CASE o \in None(w)
  BY <1>2, NoneForm DEF Tidy, Frame, Calm
<1>3. QED
  BY <1>1, <1>2 DEF findMethod, findStaticMethod, findField, findStaticField

\* registerNativeMethods keeps at most the reference of the class it looks up.
LEMMA RegisterForm ==
  ASSUME NEW w \in World, Calm(w), NEW o \in registerNativeMethods(w)
  PROVE  Tidy(w, o.w, {}, {"class"})
<1>1. PICK u \in findClass(w) : o \in IF u.r THEN registerNatives(u.w, TRUE) ELSE {u}
  BY DEF registerNativeMethods, IfGot
<1>2. Tidy(w, u.w, {}, {"class"}) /\ u.w \in World /\ Calm(u.w)
  BY FindClassForm, TidyCalm DEF Calm
<1>3. CASE u.r
  <2>1. PICK t \in Jni(u.w) : o = After(t, Clear(t.w))
    BY <1>1, <1>3 DEF registerNatives, Finally, On
  <2>2. t \in Outcomes(BOOLEAN) /\ t.w \in World /\ t.w.bad = u.w.bad /\ t.w.held = u.w.held
    BY <1>2, JniForm DEF Outcomes
  <2>3. o.w = Clear(t.w)
    BY <2>1, <2>2, OutcomeForm, ClearForm
  <2>4. QED
    BY <1>2, <2>2, <2>3, ClearForm DEF Tidy, Frame
<1>4. CASE ~u.r
  BY <1>1, <1>2, <1>4
<1>5. QED
  BY <1>3, <1>4

-----------------------------------------------------------------------------
(* Functions that return whether they succeed                                *)

\* The function breaks no rule but those in M, and keeps nothing but kinds in K.
Does(w, o, M, K) == o \in Outcomes(BOOLEAN) /\ Frame(w, o.w, M, K)

\* It breaks none, keeps nothing and throws nothing.
Plain(w, o) == Does(w, o, {}, {}) /\ o.w.exc = w.exc

\* A native method that Java called: local references and exceptions are left to the
\* machine.
LEMMA NativeTidy ==
  ASSUME NEW S, NEW w, NEW M, NEW K, w.held["local"] = 0,
         \A p \in S : Does(w, p, M, K \cup {"local"}), NEW o \in Native(S)
  PROVE  Tidy(w, o.w, M, K)
<1> DEFINE D(x) == [x EXCEPT !.exc = FALSE, !.held["local"] = 0]
<1>1. PICK p \in S : o = After(p, D(p.w))
  BY DEF Native, Finally
<1>2. p \in Outcomes(BOOLEAN) /\ Frame(w, p.w, M, K \cup {"local"}) /\ p.w \in World
  BY DEF Does, Frame
<1>3. /\ D(p.w) \in World /\ ~D(p.w).exc /\ D(p.w).bad = p.w.bad /\ D(p.w).held["local"] = 0
      /\ \A k \in Kinds : k # "local" => D(p.w).held[k] = p.w.held[k]
  <2>1. D(p.w) = [p.w EXCEPT !.exc = FALSE, !.held = [p.w.held EXCEPT !["local"] = 0]]
    BY <1>2 DEF World
  <2>2. [p.w.held EXCEPT !["local"] = 0] \in [Kinds -> Nat] /\ "local" \in Kinds
    BY <1>2, KindsForm DEF World
  <2>3. QED
    BY <1>2, <2>1, <2>2 DEF World
<1> HIDE DEF D
<1>4. o.w = D(p.w)
  BY <1>1, <1>2, <1>3, OutcomeForm
<1>5. QED
  BY <1>2, <1>3, <1>4 DEF Tidy, Frame

\* Two plain functions in a row.
LEMMA PlainTrans ==
  ASSUME NEW w, NEW p, NEW o, Plain(w, p), Plain(p.w, o)
  PROVE  Plain(w, o)
BY DEF Plain, Does, Frame

\* A test that only reads.
LEMMA EitherForm ==
  ASSUME NEW w \in World, NEW o \in Either(w)
  PROVE  Plain(w, o) /\ o.w = w
BY GotForm, NoneForm DEF Either, Plain, Does, Frame

\* What was opened is closed.
LEMMA CloseForm ==
  ASSUME NEW w \in World, NEW k \in Kinds, NEW p \in Open(w, k), p.r
  PROVE  /\ Give(p.w, k) \in World /\ Give(p.w, k).bad = w.bad /\ Give(p.w, k).exc = w.exc
         /\ \A j \in Kinds : Give(p.w, k).held[j] = w.held[j]
<1>1. /\ p.w \in World /\ p.w.bad = w.bad /\ p.w.exc = w.exc /\ w.held[k] \in Nat
      /\ p.w.held[k] = w.held[k] + 1 /\ \A j \in Kinds : j # k => p.w.held[j] = w.held[j]
  BY OpenForm, WorldForm
<1>2. QED
  BY <1>1, GiveForm

\* What could not be opened changes nothing.
LEMMA UnopenedForm ==
  ASSUME NEW w \in World, NEW k \in Kinds, NEW p \in Open(w, k), ~p.r
  PROVE  Plain(w, p)
<1>1. /\ p \in Outcomes(BOOLEAN) /\ p.w \in World /\ p.w.bad = w.bad /\ p.w.exc = w.exc
      /\ w.held[k] \in Nat
      /\ p.w.held[k] = w.held[k] + 0 /\ \A j \in Kinds : j # k => p.w.held[j] = w.held[j]
  BY OpenForm, WorldForm
<1>2. QED
  BY <1>1 DEF Plain, Does, Frame

\* A file or a process is opened, read and closed.
LEMMA FileForm ==
  ASSUME NEW w \in World,
         NEW o \in readFile(w) \cup shellExecute(w) \cup getPackageNameOf(w)
                   \cup getPackageNameByPid(w) \cup SearchObjProcess(w) \cup CheckParents(w)
  PROVE  Plain(w, o)
<1>0. "file" \in Kinds
  BY KindsForm
<1>1. PICK p \in Open(w, "file") :
        o \in IF p.r THEN Either(Give(p.w, "file")) ELSE {p}
  BY DEF readFile, shellExecute, getPackageNameOf, getPackageNameByPid, SearchObjProcess,
         CheckParents, IfGot, Either
<1>2. CASE p.r
  <2> DEFINE g == Give(p.w, "file")
  <2>1. g \in World /\ g.bad = w.bad /\ g.exc = w.exc /\ \A j \in Kinds : g.held[j] = w.held[j]
    BY <1>0, <1>2, CloseForm
  <2>2. o \in Either(g)
    BY <1>1, <1>2
  <2> HIDE DEF g
  <2>3. Plain(g, o) /\ o.w = g
    BY <2>1, <2>2, EitherForm
  <2>4. QED
    BY <2>1, <2>3 DEF Plain, Does, Frame
<1>3. CASE ~p.r
  BY <1>0, <1>1, <1>3, UnopenedForm
<1>4. QED
  BY <1>2, <1>3

\* A plain function ends in a world.
LEMMA PlainWorld ==
  ASSUME NEW w, NEW p, Plain(w, p)
  PROVE  p.w \in World
BY DEF Plain, Does, Frame

\* A file is read or a command is run, and its stream is closed.
LEMMA ReadOrExecuteForm ==
  ASSUME NEW w \in World, NEW o \in ReadOrExecute(w) \cup getKennel(w)
  PROVE  Plain(w, o)
<1>1. CASE o \in ReadOrExecute(w)
  <2>1. PICK p \in readFile(w) : o \in IF p.r THEN Got(p.w) ELSE shellExecute(p.w)
    BY <1>1 DEF ReadOrExecute, Then
  <2>2. Plain(w, p) /\ p.w \in World
    BY FileForm, PlainWorld
  <2>3. Plain(p.w, o)
    BY <2>1, <2>2, FileForm, EitherForm DEF Either
  <2>4. QED
    BY <2>2, <2>3, PlainTrans
<1>2. CASE o \in getKennel(w)
  <2>1. PICK p \in readFile(w) :
           o \in IF p.r THEN Got(p.w)
                 ELSE UNION {UNION {Res(t.w, u.r) : t \in shellExecute(u.w)} :
                             u \in shellExecute(p.w)}
    BY <1>2 DEF getKennel, Then, Next2
  <2>2. Plain(w, p) /\ p.w \in World
    BY FileForm, PlainWorld
  <2>3. CASE p.r
    <3>1. Plain(p.w, o)
      BY <2>1, <2>2, <2>3, EitherForm DEF Either
    <3>2. QED
      BY <2>2, <3>1, PlainTrans
  <2>4. CASE ~p.r
    <3>1. PICK u \in shellExecute(p.w) : o \in UNION {Res(t.w, u.r) : t \in shellExecute(u.w)}
      BY <2>1, <2>4
    <3>2. PICK t \in shellExecute(u.w) : o \in Res(t.w, u.r)
      BY <3>1
    <3>3. Plain(p.w, u) /\ u.w \in World /\ u.r \in BOOLEAN
      BY <2>2, FileForm, PlainWorld DEF Plain, Does, Outcomes
    <3>4. Plain(u.w, t) /\ t.w \in World
      BY <3>3, FileForm, PlainWorld
    <3>5. o \in Outcomes(BOOLEAN) /\ o.w = t.w
      BY <3>2, <3>3, <3>4, ResForm
    <3>6. Plain(u.w, o)
      BY <3>4, <3>5 DEF Plain, Does
    <3>7. QED
      BY <2>2, <3>3, <3>6, PlainTrans
  <2>5. QED
    BY <2>3, <2>4
<1>3. QED
  BY <1>1, <1>2

\* Two functions in a row.
LEMMA DoesTrans ==
  ASSUME NEW w, NEW p, NEW o, NEW M, NEW K, NEW N \in SUBSET M, NEW L \in SUBSET K,
         NEW P \in SUBSET M, NEW J \in SUBSET K, Does(w, p, P, J), Does(p.w, o, N, L)
  PROVE  Does(w, o, M, K)
BY DEF Does, Frame

\* The bounds of a function may be widened.
LEMMA DoesMore ==
  ASSUME NEW w, NEW o, NEW M, NEW K, NEW N \in SUBSET M, NEW L \in SUBSET K, Does(w, o, N, L)
  PROVE  Does(w, o, M, K)
BY DEF Does, Frame

\* A call into the machine from a calm world.
LEMMA CallDoes ==
  ASSUME NEW w \in World, Calm(w), NEW o \in JniCall(w) \cup JniNew(w) \cup JniGet(w) \cup Jni(w)
  PROVE  Does(w, o, {}, {"local"}) /\ (o.r => ~o.w.exc) /\ o.w \in World /\ (o.r => Calm(o.w))
<1>1. CASE o \in Jni(w)
  BY <1>1, JniForm DEF Does, Frame, Outcomes, Calm
<1>2. CASE o \in JniCall(w) \cup JniNew(w) \cup JniGet(w)
  <2>1. o \in JniCall(w) /\ "crit" \in Kinds
    BY <1>2, GetIsCall, KindsForm
  <2>2. /\ o \in Outcomes(BOOLEAN) /\ o.w.bad = w.bad /\ (o.r => ~o.w.exc)
        /\ \A j \in Kinds : j # "local" => o.w.held[j] = w.held[j]
    BY <2>1, JniCallForm
  <2>3. QED
    BY <2>1, <2>2 DEF Does, Frame, Outcomes, Calm
<1>3. QED
  BY <1>1, <1>2

\* A plain function leaves the machine callable.
LEMMA PlainCalm ==
  ASSUME NEW w, NEW p, Plain(w, p), Calm(w)
  PROVE  Calm(p.w) /\ p.w \in World /\ Does(w, p, {}, {})
BY KindsForm DEF Plain, Does, Frame, Calm

\* A plain function, then a call into the machine.
LEMMA PlainCall ==
  ASSUME NEW w \in World, Calm(w), NEW p, Plain(w, p),
         NEW o \in JniCall(p.w) \cup JniNew(p.w) \cup JniGet(p.w) \cup Jni(p.w)
  PROVE  Does(w, o, {}, {"local"})
<1>1. Calm(p.w) /\ p.w \in World /\ Does(w, p, {}, {})
  BY PlainCalm
<1>2. Does(p.w, o, {}, {"local"})
  BY <1>1, CallDoes
<1>3. QED
  BY <1>1, <1>2, DoesTrans

\* One of a kind is given back if it was taken.
LEMMA GiveIfForm ==
  ASSUME NEW w \in World, NEW k \in Kinds, NEW b \in BOOLEAN, b => w.held[k] > 0
  PROVE  /\ GiveIf(w, k, b) \in World /\ GiveIf(w, k, b).exc = w.exc /\ GiveIf(w, k, b).bad = w.bad
         /\ GiveIf(w, k, b).held[k] = w.held[k] - (IF b THEN 1 ELSE 0)
         /\ \A j \in Kinds : j # k => GiveIf(w, k, b).held[j] = w.held[j]
<1>1. CASE b
  <2>1. GiveIf(w, k, b) = Give(w, k)
    BY <1>1 DEF GiveIf
  <2>2. w.held[k] > 0
    BY <1>1
  <2> DEFINE g == Give(w, k)
  <2>3. /\ g \in World /\ g.exc = w.exc /\ g.bad = w.bad /\ g.held[k] = w.held[k] - 1
        /\ \A j \in Kinds : j # k => g.held[j] = w.held[j]
    BY <2>2, GiveForm
  <2> HIDE DEF g
  <2>4. GiveIf(w, k, b) = g
    BY <2>1 DEF g
  <2>5. QED
    BY <1>1, <2>3, <2>4
<1>2. CASE ~b
  BY <1>2, WorldForm DEF GiveIf
<1>3. QED
  BY <1>1, <1>2

\* A Java string is copied: its characters are released.
LEMMA StringForm ==
  ASSUME NEW w \in World, Calm(w), NEW b \in BOOLEAN,
         NEW o \in JavaStringToStringOf(w, b) \cup ConvertFromJava(w, b) \cup JavaStringToString(w, b)
  PROVE  Plain(w, o)
<1>0. "chars" \in Kinds /\ "crit" \in Kinds
  BY KindsForm
<1>1. CASE b
  <2>1. PICK p \in Open(w, "chars") : o \in IF p.r THEN Got(Give(Use(p.w), "chars")) ELSE {p}
    <3>1. Pin(w, "chars") = Open(w, "chars")
      BY CalmUse DEF Pin
    <3>2. PICK p \in Pin(w, "chars") : o \in IF p.r THEN Got(Give(Use(p.w), "chars")) ELSE {p}
      BY <1>1 DEF JavaStringToStringOf, ConvertFromJava, JavaStringToString, IfGot, NoException
    <3>3. QED
      BY <3>1, <3>2
  <2>2. CASE p.r
    <3>1. p.w \in World /\ Calm(p.w)
      BY <1>0, OpenForm DEF Calm
    <3>2. o \in Got(Give(p.w, "chars"))
      BY <2>1, <2>2, <3>1, CalmUse
    <3> DEFINE g == Give(p.w, "chars")
    <3>3. g \in World /\ g.bad = w.bad /\ g.exc = w.exc /\ \A j \in Kinds : g.held[j] = w.held[j]
      BY <1>0, <2>2, CloseForm
    <3>4. o \in Got(g)
      BY <3>2
    <3> HIDE DEF g
    <3>5. QED
      BY <3>3, <3>4, GotForm DEF Plain, Does, Frame
  <2>3. CASE ~p.r
    BY <1>0, <2>1, <2>3, UnopenedForm
  <2>4. QED
    BY <2>2, <2>3
<1>2. CASE ~b
  <2>1. o \in None(w)
    BY <1>2 DEF JavaStringToStringOf, ConvertFromJava, JavaStringToString
  <2>2. QED
    BY <2>1, NoneForm DEF Plain, Does, Frame
<1>3. QED
  BY <1>1, <1>2

\* The world between two calls.
Idle(w) == w \in World /\ ~w.exc /\ \A k \in Transient : w.held[k] = 0

\* Between two calls native code may call the machine.
LEMMA IdleCalm ==
  ASSUME NEW w, Idle(w)
  PROVE  w \in World /\ Calm(w) /\ w.held["local"] = 0
BY KindsForm DEF Idle, Calm

-----------------------------------------------------------------------------
(* The native probes                                                         *)

\* The readings of mobile_info, in any order.
LEMMA MobileInfoForm ==
  ASSUME NEW w, Idle(w),
         NEW o \in Native(Loop(w, LAMBDA v :
                getEntropyAvail(v) \cup getPoolSize(v) \cup getReadWakeupThreshold(v) \cup
                getWriteWakeupThreshold(v) \cup getURandomMinReseedSecs(v) \cup
                getKennel(v) \cup getBuildInfo(v)))
  PROVE  Tidy(w, o.w, {}, {})
<1> DEFINE F(v) == getEntropyAvail(v) \cup getPoolSize(v) \cup getReadWakeupThreshold(v) \cup
                   getWriteWakeupThreshold(v) \cup getURandomMinReseedSecs(v) \cup
                   getKennel(v) \cup getBuildInfo(v)
           S == Got(w) \cup F(w) \cup UNION {F(p.w) : p \in F(w)}
<1>1. o \in Native(S)
  BY DEF Loop, Next2
<1>2. \A v \in World : \A p \in F(v) : Plain(v, p)
  BY ReadOrExecuteForm, EitherForm
  DEF Either, getEntropyAvail, getPoolSize, getReadWakeupThreshold, getWriteWakeupThreshold,
      getURandomMinReseedSecs, getBuildInfo
<1> HIDE DEF F
<1>3. ASSUME NEW p \in S PROVE Does(w, p, {}, {"local"})
  <2>1. w \in World
    BY DEF Idle
  <2>2. CASE p \in Got(w) \cup F(w)
    <3>1. Plain(w, p)
      BY <1>2, <2>1, <2>2, EitherForm DEF Either
    <3>2. QED
      BY <3>1, DoesMore DEF Plain
  <2>3. ASSUME NEW q \in F(w), p \in F(q.w) PROVE Plain(w, p)
    BY <1>2, <2>1, <2>3, PlainWorld, PlainTrans
  <2>4. CASE p \in UNION {F(q.w) : q \in F(w)}
    BY <2>3, <2>4, DoesMore DEF Plain
  <2>5. QED
    BY <2>2, <2>4
<1> HIDE DEF S
<1>4. \A p \in S : Does(w, p, {}, {} \cup {"local"})
  BY <1>3
<1>5. QED
  BY <1>1, <1>4, IdleCalm, NativeTidy

\* A library is loaded, and unloaded if it has the symbol.
LEMMA LibraryForm ==
  ASSUME NEW w \in World, NEW o \in xHookCheck(w) \cup checkSubstrateBySo(w)
  PROVE  Does(w, o, {}, {"dl"}) /\ o.w.exc = w.exc
<1>0. "dl" \in Kinds
  BY KindsForm
<1>1. PICK p \in Open(w, "dl") :
         o \in IF p.r THEN UNION {IF q.r THEN Got(Give(q.w, "dl")) ELSE {q} : q \in Either(p.w)}
               ELSE {p}
  BY DEF xHookCheck, checkSubstrateBySo, IfGot
<1>2. CASE ~p.r
  <2>1. Plain(w, o)
    BY <1>0, <1>1, <1>2, UnopenedForm
  <2>2. QED
    BY <2>1, DoesMore DEF Plain
<1>3. CASE p.r
  <2>1. PICK q \in Either(p.w) : o \in IF q.r THEN Got(Give(q.w, "dl")) ELSE {q}
    BY <1>1, <1>3
  <2>2. /\ p \in Outcomes(BOOLEAN) /\ p.w \in World /\ p.w.bad = w.bad /\ p.w.exc = w.exc
        /\ \A j \in Kinds : j # "dl" => p.w.held[j] = w.held[j]
    BY <1>0, OpenForm
  <2>3. Plain(p.w, q) /\ q.w = p.w
    BY <2>2, EitherForm
  <2>4. CASE ~q.r
    BY <2>1, <2>2, <2>3, <2>4 DEF Plain, Does, Frame
  <2>5. CASE q.r
    <3> DEFINE g == Give(p.w, "dl")
    <3>1. g \in World /\ g.bad = w.bad /\ g.exc = w.exc /\ \A j \in Kinds : g.held[j] = w.held[j]
      BY <1>0, <1>3, CloseForm
    <3>2. o \in Got(g)
      BY <2>1, <2>3, <2>5
    <3> HIDE DEF g
    <3>3. QED
      BY <3>1, <3>2, GotForm DEF Does, Frame
  <2>6. QED
    BY <2>4, <2>5
<1>4. QED
  BY <1>2, <1>3

\* checkHookByMap breaks a rule only where it closes the stream it could not open.
LEMMA HookByMapForm ==
  ASSUME NEW w \in World, NEW o \in checkHookByMap(w)
  PROVE  Does(w, o, {"null"}, {}) /\ o.w.exc = w.exc
<1>0. "file" \in Kinds
  BY KindsForm
<1>1. PICK p \in frameCheck(w) : o \in UNION {IF u.r THEN Got(u.w) ELSE shellExecute(u.w) : u \in readFile(p.w)}
  BY DEF checkHookByMap, Next2, Then
<1>2. Does(w, p, {"null"}, {}) /\ p.w.exc = w.exc /\ p.w \in World
  <2>1. PICK q \in Open(w, "file") : p \in IF q.r THEN Either(Give(q.w, "file")) ELSE None(On(q.w, FALSE))
    BY DEF frameCheck, Then
  <2>2. CASE q.r
    <3> DEFINE g == Give(q.w, "file")
    <3>1. g \in World /\ g.bad = w.bad /\ g.exc = w.exc /\ \A j \in Kinds : g.held[j] = w.held[j]
      BY <1>0, <2>2, CloseForm
    <3>2. p \in Either(g)
      BY <2>1, <2>2
    <3> HIDE DEF g
    <3>3. Plain(g, p) /\ p.w = g
      BY <3>1, <3>2, EitherForm
    <3>4. QED
      BY <3>1, <3>3 DEF Plain, Does, Frame
  <2>3. CASE ~q.r
    <3>1. Plain(w, q) /\ q.w \in World
      BY <1>0, <2>3, UnopenedForm, PlainWorld
    <3>2. /\ On(q.w, FALSE) \in World /\ On(q.w, FALSE).exc = q.w.exc
          /\ On(q.w, FALSE).held = q.w.held /\ On(q.w, FALSE).bad = q.w.bad \cup {"null"}
      BY <3>1, OnForm
    <3>3. p \in None(On(q.w, FALSE))
      BY <2>1, <2>3
    <3>4. p \in Outcomes(BOOLEAN) /\ p.w = On(q.w, FALSE)
      BY <3>2, <3>3, NoneForm
    <3>5. QED
      BY <3>1, <3>2, <3>4 DEF Plain, Does, Frame
  <2>4. QED
    BY <2>2, <2>3
<1>3. PICK u \in readFile(p.w) : o \in IF u.r THEN Got(u.w) ELSE shellExecute(u.w)
  BY <1>1
<1>4. Plain(p.w, u) /\ u.w \in World
  BY <1>2, FileForm, PlainWorld
<1>5. Plain(u.w, o)
  BY <1>3, <1>4, FileForm, EitherForm DEF Either
<1>6. Plain(p.w, o)
  BY <1>4, <1>5, PlainTrans
<1>7. QED
  BY <1>2, <1>6 DEF Plain, Does, Frame

\* A loop of looks at files.
LEMMA FilesForm ==
  ASSUME NEW w \in World, NEW o \in checkHookByPackage(w) \cup nativeCheckIsRoot(w)
  PROVE  Plain(w, o)
<1>1. o \in Got(w) \cup Either(w) \cup UNION {Either(p.w) : p \in Either(w)}
  BY DEF checkHookByPackage, nativeCheckIsRoot, Loop, Next2, existsFile
<1>2. ASSUME NEW p \in Either(w), o \in Either(p.w) PROVE Plain(w, o)
  BY <1>2, EitherForm, PlainTrans
<1>3. CASE o \in Got(w) \cup Either(w)
  BY <1>3, EitherForm DEF Either
<1>4. QED
  BY <1>1, <1>2, <1>3

\* nativeCheckHook may keep a library open, and close a stream that did not open.
LEMMA CheckHookForm ==
  ASSUME NEW w, Idle(w), NEW o \in nativeCheckHook(w)
  PROVE  Tidy(w, o.w, {"null"}, {"dl"})
<1> DEFINE S == checkSubstrateBySo(w) \cup Next2(checkHookByMap(w), JniNew)
                \cup Next2(checkHookByPackage(w), JniNew)
<1>0. w \in World /\ Calm(w) /\ w.held["local"] = 0
  BY IdleCalm
<1>1. ASSUME NEW p \in S PROVE Does(w, p, {"null"}, {"dl", "local"})
  <2>1. CASE p \in checkSubstrateBySo(w)
    BY <1>0, <2>1, LibraryForm, DoesMore
  <2>2. ASSUME NEW q \in checkHookByMap(w) \cup checkHookByPackage(w), p \in JniNew(q.w)
        PROVE  Does(w, p, {"null"}, {"dl", "local"})
    <3>1. Does(w, q, {"null"}, {}) /\ q.w.exc = w.exc
      BY <1>0, HookByMapForm, FilesForm, DoesMore DEF Plain
    <3>2. q.w \in World /\ Calm(q.w)
      BY <1>0, <3>1, KindsForm DEF Does, Frame, Calm
    <3>3. Does(q.w, p, {}, {"local"})
      BY <2>2, <3>2, CallDoes
    <3>4. QED
      BY <3>1, <3>3, DoesTrans
  <2>3. QED
    BY <2>1, <2>2 DEF Next2
<1>2. o \in Native(S)
  BY DEF nativeCheckHook
<1> HIDE DEF S
<1>3. \A p \in S : Does(w, p, {"null"}, {"dl"} \cup {"local"})
  BY <1>1 DEF Does, Frame
<1>4. QED
  BY <1>0, <1>2, <1>3, NativeTidy

\* nativeCheckRandom gives back what it takes.
LEMMA CheckRandomForm ==
  ASSUME NEW w, Idle(w), NEW o \in nativeCheckRandom(w)
  PROVE  Tidy(w, o.w, {}, {})
<1> DEFINE S == UNION {JniNew(p.w) : p \in ReadOrExecute(w)}
<1>0. w \in World /\ Calm(w) /\ w.held["local"] = 0
  BY IdleCalm
<1>1. ASSUME NEW p \in S PROVE Does(w, p, {}, {"local"})
  <2>1. PICK q \in ReadOrExecute(w) : p \in JniNew(q.w)
    OBVIOUS
  <2>2. Plain(w, q)
    BY <1>0, ReadOrExecuteForm
  <2>3. QED
    BY <1>0, <2>1, <2>2, PlainCall
<1>2. o \in Native(S)
  <2>1. nativeCheckRandom(w) = Native(S \cup S)
    BY DEF nativeCheckRandom, Next2, getUuid, getBootId, StringToJavaStringOf
  <2> HIDE DEF S
  <2>2. S \cup S = S
    OBVIOUS
  <2>3. QED
    BY <2>1, <2>2
<1> HIDE DEF S
<1>3. \A p \in S : Does(w, p, {}, {} \cup {"local"})
  BY <1>1
<1>4. QED
  BY <1>0, <1>2, <1>3, NativeTidy

\* The tests for a second instance close what they open.
LEMMA MoreOpenForm ==
  ASSUME NEW w \in World, NEW o \in moreOpenCheck(w) \cup checkMoreOpenByUid(w)
  PROVE  Plain(w, o)
<1>0. "file" \in Kinds
  BY KindsForm
<1>1. CASE o \in moreOpenCheck(w)
  <2>1. PICK p \in Either(w) :
           o \in IF p.r THEN UNION {IF q.r THEN
                                       UNION {IF t.r THEN None(Give(t.w, "file"))
                                                          \cup Either(Give(t.w, "file"))
                                              ELSE {t} : t \in Open(q.w, "file")}
                                    ELSE {q} : q \in getPackageNameByPid(p.w)}
                 ELSE {p}
    BY <1>1 DEF moreOpenCheck, existsFile, IfGot
  <2>2. Plain(w, p) /\ p.w \in World
    BY EitherForm, PlainWorld
  <2>3. CASE ~p.r
    BY <2>1, <2>2, <2>3
  <2>4. CASE p.r
    <3>1. PICK q \in getPackageNameByPid(p.w) :
             o \in IF q.r THEN UNION {IF t.r THEN None(Give(t.w, "file"))
                                                  \cup Either(Give(t.w, "file"))
                                      ELSE {t} : t \in Open(q.w, "file")}
                   ELSE {q}
      BY <2>1, <2>4
    <3>2. Plain(p.w, q) /\ q.w \in World
      BY <2>2, FileForm, PlainWorld
    <3>3. Plain(w, q)
      BY <2>2, <3>2, PlainTrans
    <3>4. CASE q.r
      <4>1. PICK t \in Open(q.w, "file") : o \in IF t.r THEN Either(Give(t.w, "file")) ELSE {t}
        BY <3>1, <3>4 DEF Either
      <4>2. Plain(q.w, o)
        <5>1. CASE t.r
          <6> DEFINE g == Give(t.w, "file")
          <6>1. g \in World /\ g.bad = q.w.bad /\ g.exc = q.w.exc /\ \A j \in Kinds : g.held[j] = q.w.held[j]
            BY <1>0, <3>2, <5>1, CloseForm
          <6>2. o \in Either(g)
            BY <4>1, <5>1
          <6> HIDE DEF g
          <6>3. Plain(g, o) /\ o.w = g
            BY <6>1, <6>2, EitherForm
          <6>4. QED
            BY <6>1, <6>3 DEF Plain, Does, Frame
        <5>2. CASE ~t.r
          BY <1>0, <3>2, <4>1, <5>2, UnopenedForm
        <5>3. QED
          BY <5>1, <5>2
      <4>3. QED
        BY <3>3, <4>2, PlainTrans
    <3>5. CASE ~q.r
      BY <3>1, <3>3, <3>5
    <3>6. QED
      BY <3>4, <3>5
  <2>5. QED
    BY <2>3, <2>4
<1>2. CASE o \in checkMoreOpenByUid(w)
  <2>1. PICK p \in Either(w) : o \in IF p.r THEN UNION {shellExecute(q.w) : q \in getPackageNameOf(p.w)}
                                     ELSE {p}
    BY <1>2 DEF checkMoreOpenByUid, existsFile, IfGot, Next2
  <2>2. Plain(w, p) /\ p.w \in World
    BY EitherForm, PlainWorld
  <2>3. CASE ~p.r
    BY <2>1, <2>2, <2>3
  <2>4. CASE p.r
    <3>1. PICK q \in getPackageNameOf(p.w) : o \in shellExecute(q.w)
      BY <2>1, <2>4
    <3>2. Plain(p.w, q) /\ q.w \in World
      BY <2>2, FileForm, PlainWorld
    <3>3. Plain(q.w, o)
      BY <3>1, <3>2, FileForm
    <3>4. QED
      BY <2>2, <3>2, <3>3, PlainTrans
  <2>5. QED
    BY <2>3, <2>4
<1>3. QED
  BY <1>1, <1>2

\* The tests for a dual app give back what they take.
LEMMA DualAppForm ==
  ASSUME NEW w, Idle(w), NEW b \in BOOLEAN, NEW o \in isSystemDualApp(w) \cup isUserDualApp(w, b)
  PROVE  Tidy(w, o.w, {}, {})
<1>0. w \in World /\ Calm(w) /\ w.held["local"] = 0
  BY IdleCalm
<1>1. CASE o \in isSystemDualApp(w)
  BY <1>0, <1>1, EitherForm DEF isSystemDualApp, Plain, Does, Tidy, Calm
<1>2. CASE o \in isUserDualApp(w, b)
  <2> DEFINE S == UNION {Either(p.w) : p \in JavaStringToStringOf(w, b)}
  <2>1. ASSUME NEW p \in S PROVE Does(w, p, {}, {"local"})
    <3>1. PICK q \in JavaStringToStringOf(w, b) : p \in Either(q.w)
      OBVIOUS
    <3>2. Plain(w, q) /\ q.w \in World
      BY <1>0, StringForm, PlainWorld
    <3>3. Plain(w, p)
      BY <3>1, <3>2, EitherForm, PlainTrans
    <3>4. QED
      BY <3>3, DoesMore DEF Plain
  <2>2. o \in Native(S)
    BY <1>2 DEF isUserDualApp, Next2, existsFile
  <2> HIDE DEF S
  <2>3. \A p \in S : Does(w, p, {}, {} \cup {"local"})
    BY <2>1
  <2>4. QED
    BY <1>0, <2>2, <2>3, NativeTidy
<1>3. QED
  BY <1>1, <1>2

\* The natives of Base64 give back what they take of their strings.
LEMMA Base64Form ==
  ASSUME NEW w, Idle(w), NEW b \in BOOLEAN, NEW o \in Base64Native(w, b)
  PROVE  Tidy(w, o.w, {}, {})
<1> DEFINE S == UNION {None(p.w) \cup JniNew(p.w) : p \in JavaStringToStringOf(w, b)}
<1>0. w \in World /\ Calm(w) /\ w.held["local"] = 0
  BY IdleCalm
<1>1. ASSUME NEW p \in S PROVE Does(w, p, {}, {"local"})
  <2>1. PICK q \in JavaStringToStringOf(w, b) : p \in None(q.w) \cup JniNew(q.w)
    OBVIOUS
  <2>2. Plain(w, q) /\ q.w \in World
    BY <1>0, StringForm, PlainWorld
  <2>3. CASE p \in None(q.w)
    <3>1. Plain(w, p)
      BY <2>2, <2>3, EitherForm, PlainTrans DEF Either
    <3>2. QED
      BY <3>1, DoesMore DEF Plain
  <2>4. CASE p \in JniNew(q.w)
    BY <1>0, <2>2, <2>4, PlainCall
  <2>5. QED
    BY <2>1, <2>3, <2>4
<1>2. o \in Native(S)
  BY DEF Base64Native, Next2, StringToJavaStringOf
<1> HIDE DEF S
<1>3. \A p \in S : Does(w, p, {}, {} \cup {"local"})
  BY <1>1
<1>4. QED
  BY <1>0, <1>2, <1>3, NativeTidy

\* Streams and descriptors that are opened, left open or closed twice.
Loose(w, v) == Frame(w, v, {"closed"}, {"file", "fd"}) /\ v.exc = w.exc

\* Two steps of a scan that minds neither its streams nor its descriptors.
LEMMA LooseTrans ==
  ASSUME NEW w, NEW v, NEW u, Loose(w, v), Loose(v, u)
  PROVE  Loose(w, u)
BY DEF Loose, Frame

\* Closing, once too often or not.
LEMMA LooseGive ==
  ASSUME NEW w \in World, NEW k \in {"file", "fd"}
  PROVE  Loose(w, Give(w, k))
<1>0. k \in Kinds
  BY KindsForm
<1>1. CASE w.held[k] > 0
  BY <1>0, <1>1, GiveForm DEF Loose, Frame
<1>2. CASE ~(w.held[k] > 0)
  <2>1. Give(w, k) = Misuse(w, {"closed"})
    BY <1>2 DEF Give
  <2>2. {"closed"} \in SUBSET Misuses
    BY DEF Misuses
  <2>3. QED
    BY <2>1, <2>2, MisuseForm DEF Loose, Frame
<1>3. QED
  BY <1>1, <1>2

\* Opening.
LEMMA LooseOpen ==
  ASSUME NEW w \in World, NEW k \in {"file", "fd"}, NEW o \in Open(w, k)
  PROVE  Loose(w, o.w) /\ o \in Outcomes(BOOLEAN) /\ o.w \in World
<1>0. k \in Kinds
  BY KindsForm
<1>1. QED
  BY <1>0, OpenForm DEF Loose, Frame

\* fclose, and the descriptor of the stream after it.
LEMMA CloseTwiceForm ==
  ASSUME NEW w \in World
  PROVE  Loose(w, CloseTwice(w)) /\ CloseTwice(w) \in World
<1> DEFINE a == Give(w, "file")
           b == Give(a, "fd")
<1>1. Loose(w, a) /\ a \in World
  BY LooseGive DEF Loose, Frame
<1> HIDE DEF a
<1>2. Loose(a, b) /\ b \in World
  BY <1>1, LooseGive DEF Loose, Frame
<1> HIDE DEF b
<1>3. Loose(b, Give(b, "fd")) /\ Give(b, "fd") \in World
  BY <1>2, LooseGive DEF Loose, Frame
<1>4. CloseTwice(w) = Give(b, "fd")
  BY DEF CloseTwice, a, b
<1>5. QED
  BY <1>1, <1>2, <1>3, <1>4, LooseTrans

\* A descriptor, and a stream on it.
LEMMA OpenStreamForm ==
  ASSUME NEW w \in World, NEW o \in OpenStream(w)
  PROVE  Loose(w, o.w) /\ o \in Outcomes(BOOLEAN) /\ o.w \in World
<1>1. PICK p \in Open(w, "fd") :
         o \in IF p.r THEN UNION {IF u.r THEN Got(u.w) ELSE None(Give(u.w, "fd")) :
                                  u \in Open(p.w, "file")}
               ELSE {p}
  BY DEF OpenStream, IfGot, Then
<1>2. Loose(w, p.w) /\ p \in Outcomes(BOOLEAN) /\ p.w \in World
  BY LooseOpen
<1>3. CASE ~p.r
  BY <1>1, <1>2, <1>3
<1>4. CASE p.r
  <2>1. PICK u \in Open(p.w, "file") : o \in IF u.r THEN Got(u.w) ELSE None(Give(u.w, "fd"))
    BY <1>1, <1>4
  <2>2. Loose(p.w, u.w) /\ u.w \in World
    BY <1>2, LooseOpen
  <2>3. Loose(u.w, Give(u.w, "fd")) /\ Give(u.w, "fd") \in World
    BY <2>2, LooseGive DEF Loose, Frame
  <2>4. o \in Outcomes(BOOLEAN) /\ (o.w = u.w \/ o.w = Give(u.w, "fd"))
    BY <2>1, <2>2, <2>3, GotForm, NoneForm
  <2>5. QED
    BY <1>2, <2>2, <2>3, <2>4, LooseTrans
<1>5. QED
  BY <1>3, <1>4

\* haveMagicMount may leave streams and descriptors open or close them twice, and no more.
LEMMA MagicMountForm ==
  ASSUME NEW w \in World, NEW o \in haveMagicMount(w)
  PROVE  Loose(w, o.w)
<1>1. PICK p \in scan_mountinfo(w) : o \in scan_maps(p.w) \cup None(p.w)
  BY DEF haveMagicMount, Next2
<1>2. Loose(w, p.w) /\ p.w \in World
  <2>1. PICK q \in OpenStream(w) :
           p \in IF q.r THEN {After(t, CloseTwice([t.w EXCEPT !.mount = @ \/ t.r])) : t \in Either(q.w)}
                 ELSE {q}
    BY DEF scan_mountinfo, IfGot
  <2>2. Loose(w, q.w) /\ q.w \in World
    BY OpenStreamForm
  <2>3. CASE ~q.r
    BY <2>1, <2>2, <2>3
  <2>4. CASE q.r
    <3>1. PICK t \in Either(q.w) : p = After(t, CloseTwice([t.w EXCEPT !.mount = @ \/ t.r]))
      BY <2>1, <2>4
    <3>2. t \in Outcomes(BOOLEAN) /\ t.w = q.w
      BY <2>2, EitherForm DEF Plain, Does
    <3> DEFINE x == [t.w EXCEPT !.mount = @ \/ t.r]
    <3>3. x \in World /\ x.held = t.w.held /\ x.bad = t.w.bad /\ x.exc = t.w.exc
      BY <2>2, <3>2 DEF World
    <3> HIDE DEF x
    <3>4. Loose(x, CloseTwice(x)) /\ CloseTwice(x) \in World
      BY <3>3, CloseTwiceForm
    <3>5. p.w = CloseTwice(x)
      BY <3>1, <3>2, <3>4, OutcomeForm DEF x
    <3>6. Loose(q.w, x)
      BY <3>2, <3>3 DEF Loose, Frame
    <3>7. QED
      BY <2>2, <3>4, <3>5, <3>6, LooseTrans
  <2>5. QED
    BY <2>3, <2>4
<1>3. CASE o \in None(p.w)
  BY <1>2, <1>3, NoneForm
<1>4. CASE o \in scan_maps(p.w)
  <2>1. PICK q \in OpenStream(p.w) : o \in IF q.r THEN Got(q.w) \cup None(CloseTwice(q.w)) ELSE {q}
    BY <1>4 DEF scan_maps, IfGot
  <2>2. Loose(p.w, q.w) /\ q.w \in World
    BY <1>2, OpenStreamForm
  <2>3. Loose(q.w, CloseTwice(q.w)) /\ CloseTwice(q.w) \in World
    BY <2>2, CloseTwiceForm
  <2>4. o.w = q.w \/ o.w = CloseTwice(q.w)
    BY <2>1, <2>2, <2>3, GotForm, NoneForm
  <2>5. QED
    BY <1>2, <2>2, <2>3, <2>4, LooseTrans
<1>5. QED
  BY <1>1, <1>3, <1>4

\* The status file stays open unless a tracer is found in it.
LEMMA TracerForm ==
  ASSUME NEW w \in World, NEW o \in nativeReadTracerPid(w)
  PROVE  Does(w, o, {}, {"file"}) /\ o.w.exc = w.exc
<1>0. "file" \in Kinds
  BY KindsForm
<1>1. PICK a \in SearchObjProcess(w) : o \in UNION {UNION {UNION {IF p.r THEN Got(p.w) \cup None(Give(p.w, "file")) ELSE {p} :
                       p \in Open(t.w, "file")} : t \in ptraceCheck(u.w)} : u \in CheckParents(a.w)}
  BY DEF nativeReadTracerPid, Next2, IfGot
<1>2. Plain(w, a) /\ a.w \in World
  BY FileForm, PlainWorld
<1>3. PICK u \in CheckParents(a.w) : o \in UNION {UNION {IF p.r THEN Got(p.w) \cup None(Give(p.w, "file")) ELSE {p} :
                       p \in Open(t.w, "file")} : t \in ptraceCheck(u.w)}
  BY <1>1
<1>4. Plain(a.w, u) /\ u.w \in World
  BY <1>2, FileForm, PlainWorld
<1>5. PICK t \in ptraceCheck(u.w) : o \in UNION {IF p.r THEN Got(p.w) \cup None(Give(p.w, "file")) ELSE {p} :
                       p \in Open(t.w, "file")}
  BY <1>3
<1>6. t.w = u.w
  BY <1>4, GotForm DEF ptraceCheck
<1>7. PICK p \in Open(u.w, "file") : o \in IF p.r THEN Got(p.w) \cup None(Give(p.w, "file")) ELSE {p}
  BY <1>5, <1>6
<1>8. Plain(w, u)
  BY <1>2, <1>4, PlainTrans
<1>9. /\ p \in Outcomes(BOOLEAN) /\ p.w \in World /\ p.w.bad = u.w.bad /\ p.w.exc = u.w.exc
      /\ \A j \in Kinds : j # "file" => p.w.held[j] = u.w.held[j]
  BY <1>0, <1>4, OpenForm
<1>10. Does(u.w, o, {}, {"file"}) /\ o.w.exc = u.w.exc
  <2>1. CASE o = p \/ o \in Got(p.w)
    BY <1>9, <2>1, GotForm DEF Does, Frame
  <2>2. CASE p.r /\ o \in None(Give(p.w, "file"))
    <3> DEFINE g == Give(p.w, "file")
    <3>1. g \in World /\ g.bad = u.w.bad /\ g.exc = u.w.exc /\ \A j \in Kinds : g.held[j] = u.w.held[j]
      BY <1>0, <1>4, <2>2, CloseForm
    <3>2. o \in None(g)
      BY <2>2
    <3> HIDE DEF g
    <3>3. QED
      BY <3>1, <3>2, NoneForm DEF Does, Frame
  <2>3. QED
    BY <1>7, <2>1, <2>2
<1>11. QED
  BY <1>8, <1>10 DEF Plain, Does, Frame

\* A native method that only returns a new object.
LEMMA NativeNewForm ==
  ASSUME NEW w, Idle(w), NEW o \in Native(JniNew(w))
  PROVE  Tidy(w, o.w, {}, {})
<1>1. w \in World /\ Calm(w) /\ w.held["local"] = 0
  BY IdleCalm
<1>2. \A p \in JniNew(w) : Does(w, p, {}, {} \cup {"local"})
  BY <1>1, CallDoes
<1>3. QED
  BY <1>1, <1>2, NativeTidy

\* getPackageName of a context
LEMMA PackageNameForm ==
  ASSUME NEW w \in World, Calm(w), NEW o \in getPackageName(w)
  PROVE  Does(w, o, {}, {"local"}) /\ (o.r => ~o.w.exc)
<1> DEFINE n == NewRef(w, "local")
<1>0. "local" \in Kinds \ {"crit"} /\ "crit" \in Kinds
  BY KindsForm
<1>1. /\ n \in World /\ Calm(n) /\ n.bad = w.bad /\ n.held["local"] = w.held["local"] + 1
      /\ \A j \in Kinds : j # "local" => n.held[j] = w.held[j]
  BY <1>0, NewRefForm
<1>2. PICK p \in Jni(n) : o \in IF p.r THEN {After(u, Give(u.w, "local")) : u \in JniCall(p.w)}
                                ELSE UNION {None(u.w) : u \in errorCatch(p.w)}
  BY DEF getPackageName, Then, Finally, Next2
<1> HIDE DEF n
<1>3. p \in Outcomes(BOOLEAN) /\ p.w \in World /\ p.w.bad = n.bad /\ p.w.held = n.held /\ (p.r <=> ~p.w.exc)
  BY <1>1, JniForm DEF Outcomes
<1>4. CASE p.r
  <2>1. PICK u \in JniCall(p.w) : o = After(u, Give(u.w, "local"))
    BY <1>2, <1>4
  <2>2. Calm(p.w)
    BY <1>1, <1>3, <1>4 DEF Calm
  <2>3. /\ u \in Outcomes(BOOLEAN) /\ u.w \in World /\ u.w.bad = p.w.bad /\ (u.r => ~u.w.exc)
        /\ u.w.held["local"] = p.w.held["local"] + (IF u.r THEN 1 ELSE 0)
        /\ \A j \in Kinds : j # "local" => u.w.held[j] = p.w.held[j]
    BY <1>3, <2>2, JniCallForm DEF Outcomes
  <2>4. u.w.held["local"] > 0
    <3>1. w.held["local"] \in Nat
      BY <1>0, WorldForm
    <3>2. QED
      BY <1>1, <1>3, <2>3, <3>1
  <2> DEFINE g == Give(u.w, "local")
  <2>5. /\ g \in World /\ g.bad = u.w.bad /\ g.exc = u.w.exc
        /\ \A j \in Kinds : j # "local" => g.held[j] = u.w.held[j]
    BY <1>0, <2>3, <2>4, GiveForm
  <2> HIDE DEF g
  <2>6. o \in Outcomes(BOOLEAN) /\ o.w = g /\ o.r = u.r
    BY <2>1, <2>3, <2>5, OutcomeForm DEF g
  <2>7. QED
    BY <1>1, <1>3, <2>3, <2>5, <2>6 DEF Does, Frame
<1>5. CASE ~p.r
  <2>1. PICK u \in errorCatch(p.w) : o \in None(u.w)
    BY <1>2, <1>5
  <2>2. u.w = Clear(p.w)
    BY DEF errorCatch, Res
  <2>3. Clear(p.w) \in World /\ Clear(p.w).bad = p.w.bad /\ Clear(p.w).held = p.w.held
    BY <1>3, ClearForm
  <2>4. o \in Outcomes(BOOLEAN) /\ o.w = Clear(p.w) /\ ~o.r
    BY <2>1, <2>2, <2>3, NoneForm
  <2>5. QED
    BY <1>1, <1>3, <2>3, <2>4 DEF Does, Frame
<1>6. QED
  BY <1>4, <1>5

\* OpenCheckExt breaks a rule only where it prints characters that are null.
LEMMA OpenCheckExtForm ==
  ASSUME NEW w, Idle(w), NEW o \in OpenCheckExt(w)
  PROVE  Tidy(w, o.w, {"null"}, {})
<1> DEFINE A(t) == UNION {Either(GiveIf(GiveIf(s.w, "file", s.r), "chars", t.r)) :
                          s \in Open(On(t.w, t.r), "file")}
           B(q) == IF q.r THEN UNION {A(t) : t \in Pin(q.w, "chars")} ELSE {q}
           C(p) == IF p.r THEN UNION {B(q) : q \in getPackageName(p.w)} ELSE {p}
           S == UNION {C(p) : p \in Either(w)}
<1>0. /\ w \in World /\ Calm(w) /\ w.held["local"] = 0
      /\ "crit" \in Kinds /\ "chars" \in Kinds /\ "file" \in Kinds
  BY IdleCalm, KindsForm
<1>1. o \in Native(S)
  BY DEF OpenCheckExt, IfGot, Then, existsFile
<1>2. ASSUME NEW q \in getPackageName(w), NEW z \in B(q)
      PROVE  Does(w, z, {"null"}, {"local"})
  <2>1. Does(w, q, {}, {"local"}) /\ (q.r => ~q.w.exc) /\ q.w \in World
    BY <1>0, PackageNameForm DEF Does, Frame
  <2>2. CASE ~q.r
    BY <2>1, <2>2, DoesMore
  <2>3. CASE q.r
    <3>1. PICK t \in Pin(q.w, "chars") : z \in A(t)
      BY <2>3
    <3>2. Calm(q.w)
      BY <1>0, <2>1, <2>3 DEF Calm, Does, Frame
    <3>3. t \in Open(q.w, "chars")
      BY <2>1, <3>2, CalmUse DEF Pin
    <3>4. /\ t.w \in World /\ t.r \in BOOLEAN /\ t.w.bad = q.w.bad
          /\ t.w.held["chars"] = q.w.held["chars"] + (IF t.r THEN 1 ELSE 0)
          /\ \A j \in Kinds : j # "chars" => t.w.held[j] = q.w.held[j]
      BY <1>0, <2>1, <3>3, OpenForm
    <3> DEFINE x == On(t.w, t.r)
    <3>5. x \in World /\ x.held = t.w.held /\ x.bad \subseteq t.w.bad \cup {"null"}
      BY <3>4, OnForm
    <3> HIDE DEF x, B, C, S
    <3>6. PICK s \in Open(x, "file") : z \in Either(GiveIf(GiveIf(s.w, "file", s.r), "chars", t.r))
      BY <3>1 DEF x
    <3> HIDE DEF A
    <3>7. /\ s.w \in World /\ s.r \in BOOLEAN /\ s.w.bad = x.bad
          /\ s.w.held["file"] = x.held["file"] + (IF s.r THEN 1 ELSE 0)
          /\ \A j \in Kinds : j # "file" => s.w.held[j] = x.held[j]
      BY <1>0, <3>5, OpenForm
    <3>8. x.held["file"] \in Nat /\ q.w.held["chars"] \in Nat
      BY <1>0, <2>1, <3>5, WorldForm
    <3> DEFINE y == GiveIf(s.w, "file", s.r)
               g == GiveIf(y, "chars", t.r)
    <3>9. y \in World /\ y.bad = x.bad /\ \A j \in Kinds : y.held[j] = x.held[j]
      <4>1. s.r => s.w.held["file"] > 0
        BY <3>7, <3>8
      <4>2. /\ y \in World /\ y.bad = s.w.bad /\ y.held["file"] = s.w.held["file"] - (IF s.r THEN 1 ELSE 0)
            /\ \A j \in Kinds : j # "file" => y.held[j] = s.w.held[j]
        <5>1. "file" \in Kinds
          BY KindsForm
        <5>2. s.w \in World /\ s.r \in BOOLEAN
          BY <3>7
        <5>3. QED
          BY <4>1, <5>1, <5>2, GiveIfForm
      <4> HIDE DEF y
      <4>3. y.held["file"] = x.held["file"]
        BY <3>7, <3>8, <4>2
      <4>4. QED
        BY <3>7, <4>2, <4>3
    <3> HIDE DEF y
    <3>10. g \in World /\ g.bad = x.bad /\ \A j \in Kinds : g.held[j] = q.w.held[j]
      <4>1. t.r => y.held["chars"] > 0
        BY <1>0, <3>4, <3>5, <3>8, <3>9
      <4>2. /\ g \in World /\ g.bad = y.bad /\ g.held["chars"] = y.held["chars"] - (IF t.r THEN 1 ELSE 0)
            /\ \A j \in Kinds : j # "chars" => g.held[j] = y.held[j]
        BY <1>0, <3>4, <3>9, <4>1, GiveIfForm
      <4> HIDE DEF g
      <4>3. g.held["chars"] = q.w.held["chars"]
        BY <1>0, <3>4, <3>5, <3>8, <3>9, <4>2
      <4>4. QED
        BY <1>0, <3>4, <3>5, <3>9, <4>2, <4>3
    <3>11. z \in Either(g)
      BY <3>6 DEF y
    <3> HIDE DEF g
    <3>12. z \in Outcomes(BOOLEAN) /\ z.w = g
      BY <3>10, <3>11, EitherForm DEF Plain, Does
    <3>13. QED
      BY <2>1, <3>4, <3>5, <3>10, <3>12 DEF Does, Frame
  <2>4. QED
    BY <2>2, <2>3
<1> HIDE DEF B
<1>3. ASSUME NEW p \in Either(w), NEW z \in C(p)
      PROVE  Does(w, z, {"null"}, {"local"})
  <2>1. Plain(w, p) /\ p.w = w
    BY <1>0, EitherForm
  <2>2. CASE ~p.r
    BY <2>1, <2>2, DoesMore DEF Plain
  <2>3. CASE p.r
    BY <1>2, <2>1, <2>3
  <2>4. QED
    BY <2>2, <2>3
<1> HIDE DEF C
<1>4. \A z \in S : Does(w, z, {"null"}, {} \cup {"local"})
  BY <1>3
<1> HIDE DEF S
<1>5. QED
  BY <1>0, <1>1, <1>4, NativeTidy

-----------------------------------------------------------------------------
(* Straight-line code that does not look at what fails                       *)

\* A call outside of critical regions, whatever is pending.
LEMMA UseForm ==
  ASSUME NEW w \in World, w.held["crit"] = 0
  PROVE  /\ Use(w) \in World /\ Use(w).held = w.held /\ Use(w).exc = w.exc
         /\ Use(w).bad \subseteq w.bad \cup {"pending"}
<1> DEFINE M == (IF w.exc THEN {"pending"} ELSE {}) \cup (IF w.held["crit"] > 0 THEN {"critical"} ELSE {})
<1>1. M \in SUBSET {"pending"} /\ M \in SUBSET Misuses
  BY DEF Misuses
<1>2. Use(w) = Misuse(w, M)
  BY DEF Use
<1> HIDE DEF M
<1>3. /\ Misuse(w, M) \in World /\ Misuse(w, M).held = w.held /\ Misuse(w, M).exc = w.exc
      /\ Misuse(w, M).bad = w.bad \cup M
  BY <1>1, MisuseForm
<1>4. QED
  BY <1>1, <1>2, <1>3

\* A call into the machine whose exception nobody looks at.
LEMMA TameOp ==
  ASSUME NEW w \in World, w.held["crit"] = 0, NEW op \in {"new", "get", "call", "id", "read"},
         NEW o \in Op(op, w)
  PROVE  Does(w, o, {"pending"}, {"local"})
<1> DEFINE u == Use(w)
<1>0. "local" \in Kinds
  BY KindsForm
<1>1. u \in World /\ u.held = w.held /\ u.bad \subseteq w.bad \cup {"pending"}
  BY UseForm
<1>2. o \in Got(Take(u, "local")) \cup Got(u) \cup None(u) \cup None(Throw(u))
  BY DEF Op, JniNew, JniGet, JniCall, Jni
<1> HIDE DEF u
<1>3. CASE o \in Got(Take(u, "local"))
  BY <1>0, <1>1, <1>3, TakeForm, GotForm DEF Does, Frame
<1>4. CASE o \in Got(u) \cup None(u)
  BY <1>1, <1>4, GotForm, NoneForm DEF Does, Frame
<1>5. CASE o \in None(Throw(u))
  BY <1>1, <1>5, ThrowForm, NoneForm DEF Does, Frame
<1>6. QED
  BY <1>2, <1>3, <1>4, <1>5

\* Every outcome in S keeps to M and K.
All(S, w, M, K) == \A p \in S : Does(w, p, M, K)

\* Outside of critical regions, where local references may be made.
Tame(w, M, K) ==
    w.held["crit"] = 0 /\ {"pending", "null"} \subseteq M /\ "local" \in K /\ "crit" \notin K

\* The next call may be made, with an exception pending or without.
LEMMA TameWorld ==
  ASSUME NEW w, NEW M, NEW K, Tame(w, M, K), NEW p, Does(w, p, M, K)
  PROVE  p.w \in World /\ p.w.held["crit"] = 0
BY KindsForm DEF Tame, Does, Frame

\* A call whose argument may be a null result of an earlier one.
LEMMA PassForm ==
  ASSUME NEW w, NEW M, NEW K, Tame(w, M, K), NEW p, Does(w, p, M, K), NEW b \in BOOLEAN,
         NEW op \in {"new", "get", "call", "id", "read"}, NEW o \in Op(op, On(p.w, b))
  PROVE  Does(w, o, M, K)
<1> DEFINE x == On(p.w, b)
<1>1. p.w \in World /\ p.w.held["crit"] = 0
  BY TameWorld
<1>2. /\ x \in World /\ x.held = p.w.held
      /\ x.bad = p.w.bad \cup (IF b THEN {} ELSE {"null"})
  BY <1>1, OnForm
<1> HIDE DEF x
<1>3. o \in Op(op, x)
  BY DEF x
<1>4. Does(x, o, {"pending"}, {"local"})
  BY <1>1, <1>2, <1>3, TameOp
<1>5. Frame(w, x, M, K)
  BY <1>2 DEF Does, Frame, Tame
<1>6. {"pending"} \subseteq M /\ {"local"} \subseteq K
  BY DEF Tame
<1>7. QED
  BY <1>4, <1>5, <1>6 DEF Does, Frame

\* Straight-line code with one more call at its end.
LEMMA ChainForm ==
  ASSUME NEW w, NEW M, NEW K, Tame(w, M, K), NEW S, All(S, w, M, K),
         NEW op \in {"new", "get", "call", "id", "read"}
  PROVE  All(S ++ op, w, M, K)
<1>1. SUFFICES ASSUME NEW o \in S ++ op PROVE Does(w, o, M, K)
  BY DEF All
<1>2. PICK p \in S : o \in Op(op, On(p.w, p.r))
  BY DEF ++, Then
<1>3. Does(w, p, M, K) /\ p.r \in BOOLEAN
  BY DEF All, Does, Outcomes
<1>4. QED
  BY <1>2, <1>3, PassForm

\* The same with a call that is not passed the result.
LEMMA NextForm ==
  ASSUME NEW w, NEW M, NEW K, Tame(w, M, K), NEW p, Does(w, p, M, K),
         NEW op \in {"new", "get", "call", "id", "read"}, NEW o \in Op(op, p.w)
  PROVE  Does(w, o, M, K)
<1>1. On(p.w, TRUE) = p.w
  BY DEF On
<1>2. o \in Op(op, On(p.w, TRUE)) /\ TRUE \in BOOLEAN
  BY <1>1
<1>3. QED
  BY <1>2, PassForm

\* A string is copied with whatever is pending.
LEMMA TameString ==
  ASSUME NEW w \in World, w.held["crit"] = 0, NEW b \in BOOLEAN,
         NEW o \in JavaStringToStringOf(w, b) \cup JavaStringToString(w, b)
  PROVE  Does(w, o, {"pending"}, {})
<1> DEFINE u == Use(w)
<1>0. "chars" \in Kinds /\ "crit" \in Kinds
  BY KindsForm
<1>1. u \in World /\ u.held = w.held /\ u.bad \subseteq w.bad \cup {"pending"}
  BY UseForm
<1>2. CASE ~b
  <2>1. o \in None(w)
    BY <1>2 DEF JavaStringToStringOf, JavaStringToString
  <2>2. QED
    BY <2>1, NoneForm DEF Does, Frame
<1>3. CASE b
  <2>1. PICK p \in Open(u, "chars") : o \in IF p.r THEN Got(Give(Use(p.w), "chars")) ELSE {p}
    BY <1>3 DEF JavaStringToStringOf, JavaStringToString, IfGot, NoException, Pin
  <2> HIDE DEF u
  <2>2. CASE ~p.r
    <3>1. Plain(u, o)
      BY <1>0, <1>1, <2>1, <2>2, UnopenedForm
    <3>2. QED
      BY <1>1, <3>1 DEF Plain, Does, Frame
  <2>3. CASE p.r
    <3>1. /\ p.w \in World /\ p.w.bad = u.bad /\ u.held["chars"] \in Nat
          /\ p.w.held["chars"] = u.held["chars"] + 1
          /\ \A j \in Kinds : j # "chars" => p.w.held[j] = u.held[j]
      BY <1>0, <1>1, <2>3, OpenForm, WorldForm
    <3> DEFINE x == Use(p.w)
               g == Give(x, "chars")
    <3>2. x \in World /\ x.held = p.w.held /\ x.bad \subseteq p.w.bad \cup {"pending"}
      BY <1>0, <1>1, <3>1, UseForm
    <3> HIDE DEF x
    <3>3. g \in World /\ g.bad = x.bad /\ \A j \in Kinds : g.held[j] = u.held[j]
      <4>1. x.held["chars"] > 0
        BY <3>1, <3>2
      <4>2. /\ g \in World /\ g.bad = x.bad /\ g.held["chars"] = x.held["chars"] - 1
            /\ \A j \in Kinds : j # "chars" => g.held[j] = x.held[j]
        BY <1>0, <3>2, <4>1, GiveForm
      <4> HIDE DEF g
      <4>3. QED
        BY <3>1, <3>2, <4>2
    <3>4. o \in Got(g)
      BY <2>1, <2>3 DEF x
    <3> HIDE DEF g
    <3>5. QED
      BY <1>1, <3>1, <3>2, <3>3, <3>4, GotForm DEF Does, Frame
  <2>4. QED
    BY <2>2, <2>3
<1>4. QED
  BY <1>2, <1>3

\* The start of a chain of calls.
LEMMA ChainStart ==
  ASSUME NEW w, NEW M, NEW K, NEW v, Frame(w, v, M, K)
  PROVE  All(Got(v), w, M, K)
BY GotForm DEF All, Does, Frame

\* Blocks of the heap and characters that are never freed, and a null that is used.
LEMMA TakeFrame ==
  ASSUME NEW w, NEW M, NEW K, NEW v, Frame(w, v, M, K), NEW k \in K, k \in Kinds, NEW b \in BOOLEAN,
         "null" \in M
  PROVE  Frame(w, Take(v, k), M, K) /\ Frame(w, On(v, b), M, K)
<1>1. v \in World
  BY DEF Frame
<1>2. /\ Take(v, k) \in World /\ Take(v, k).bad = v.bad
      /\ \A j \in Kinds : j # k => Take(v, k).held[j] = v.held[j]
  BY <1>1, TakeForm
<1>3. On(v, b) \in World /\ On(v, b).held = v.held /\ On(v, b).bad \subseteq v.bad \cup M
  BY <1>1, OnForm
<1>4. QED
  BY <1>2, <1>3 DEF Frame

\* What getSignatureByte breaks and what it keeps.
SignatureMisuse == {"pending", "null"}
SignatureLeaks == {"local", "chars", "heap"}

\* getSignatureByte, call by call.
LEMMA SignatureByteForm ==
  ASSUME NEW w, Idle(w)
  PROVE  All(getSignatureByte(w), w, SignatureMisuse, SignatureLeaks)
<1> DEFINE M == SignatureMisuse
           K == SignatureLeaks
           A == Got(w) ++ "read" ++ "id" ++ "call" ++ "read" ++ "id" ++ "id" ++ "call"
           B(u) == Got(On(u.w, u.r)) ++ "call" ++ "read" ++ "id" ++ "get" ++ "call"
                                     ++ "read" ++ "id" ++ "call"
<1>0. w \in World /\ Tame(w, M, K) /\ "chars" \in Kinds /\ "chars" \in K /\ "null" \in M
  BY IdleCalm, KindsForm DEF Tame, Calm, SignatureMisuse, SignatureLeaks
<1>1. All(Got(w), w, M, K)
  BY <1>0, ChainStart DEF Frame
<1>2. All(A, w, M, K)
  <2> HIDE DEF M, K
  <2>1. All(Got(w) ++ "read", w, M, K)
    BY <1>0, <1>1, ChainForm
  <2>2. All(Got(w) ++ "read" ++ "id", w, M, K)
    BY <1>0, <2>1, ChainForm
  <2>3. All(Got(w) ++ "read" ++ "id" ++ "call", w, M, K)
    BY <1>0, <2>2, ChainForm
  <2>4. All(Got(w) ++ "read" ++ "id" ++ "call" ++ "read", w, M, K)
    BY <1>0, <2>3, ChainForm
  <2>5. All(Got(w) ++ "read" ++ "id" ++ "call" ++ "read" ++ "id", w, M, K)
    BY <1>0, <2>4, ChainForm
  <2>6. All(Got(w) ++ "read" ++ "id" ++ "call" ++ "read" ++ "id" ++ "id", w, M, K)
    BY <1>0, <2>5, ChainForm
  <2>7. QED
    BY <1>0, <2>6, ChainForm
<1>3. ASSUME NEW p \in A, NEW u \in Pin(On(p.w, p.r), "chars")
      PROVE  All(B(u), w, M, K)
  <2> DEFINE n == On(p.w, p.r)
  <2>1. /\ Does(w, p, M, K) /\ p.w \in World /\ p.w.held["crit"] = 0
        /\ p.r \in BOOLEAN /\ Frame(w, p.w, M, K)
    BY <1>0, <1>2, TameWorld DEF All, Does, Outcomes
  <2> HIDE DEF A, M, K
  <2>2. n \in World /\ n.held = p.w.held
    BY <2>1, OnForm
  <2>3. Frame(w, n, M, K)
    BY <1>0, <2>1, TakeFrame
  <2>4. u \in Pin(n, "chars")
    OBVIOUS
  <2> HIDE DEF n
  <2>5. Use(n) \in World /\ Use(n).held = n.held /\ Use(n).bad \subseteq n.bad \cup {"pending"}
    BY <2>1, <2>2, UseForm
  <2>6. u \in Open(Use(n), "chars")
    BY <2>4 DEF Pin
  <2>7. /\ u.w \in World /\ u.r \in BOOLEAN /\ u.w.bad = Use(n).bad
        /\ \A j \in Kinds : j # "chars" => u.w.held[j] = Use(n).held[j]
    BY <1>0, <2>5, <2>6, OpenForm
  <2>8. Frame(w, u.w, M, K)
    BY <1>0, <2>3, <2>5, <2>7 DEF Frame, Tame
  <2>9. Frame(w, On(u.w, u.r), M, K)
    BY <1>0, <2>7, <2>8, TakeFrame
  <2> DEFINE x == On(u.w, u.r)
  <2>10. All(Got(x), w, M, K)
    BY <2>9, ChainStart
  <2> HIDE DEF x
  <2>11. All(Got(x) ++ "call", w, M, K)
    BY <1>0, <2>10, ChainForm
  <2>12. All(Got(x) ++ "call" ++ "read", w, M, K)
    BY <1>0, <2>11, ChainForm
  <2>13. All(Got(x) ++ "call" ++ "read" ++ "id", w, M, K)
    BY <1>0, <2>12, ChainForm
  <2>14. All(Got(x) ++ "call" ++ "read" ++ "id" ++ "get", w, M, K)
    BY <1>0, <2>13, ChainForm
  <2>15. All(Got(x) ++ "call" ++ "read" ++ "id" ++ "get" ++ "call", w, M, K)
    BY <1>0, <2>14, ChainForm
  <2>16. All(Got(x) ++ "call" ++ "read" ++ "id" ++ "get" ++ "call" ++ "read", w, M, K)
    BY <1>0, <2>15, ChainForm
  <2>17. All(Got(x) ++ "call" ++ "read" ++ "id" ++ "get" ++ "call" ++ "read" ++ "id", w, M, K)
    BY <1>0, <2>16, ChainForm
  <2>18. All(Got(x) ++ "call" ++ "read" ++ "id" ++ "get" ++ "call" ++ "read" ++ "id" ++ "call", w, M, K)
    BY <1>0, <2>17, ChainForm
  <2>19. QED
    BY <2>18 DEF x
<1>4. getSignatureByte(w) = UNION {UNION {B(u) : u \in Pin(On(p.w, p.r), "chars")} : p \in A}
  BY DEF getSignatureByte, Then
<1> HIDE DEF A, B, M, K
<1>5. All(getSignatureByte(w), w, M, K)
  BY <1>3, <1>4 DEF All
<1>6. QED
  BY <1>5 DEF M, K

\* getSignature and checkSignature keep the characters and the copy of the signature.
LEMMA SignatureForm ==
  ASSUME NEW w, Idle(w), NEW o \in getSignature(w) \cup checkSignature(w)
  PROVE  Tidy(w, o.w, {"pending", "null"}, {"chars", "heap"})
<1> DEFINE M == SignatureMisuse
           K == SignatureLeaks
           C(p) == Got(Take(On(p.w, p.r), "heap")) ++ "read" ++ "read"
           D(u) == JniNew(hashByteArray(hashByteArray(hashByteArray(u.w))))
           L(u) == Loop(hashByteArray(u.w), LAMBDA t : JavaStringToStringOf(t, TRUE))
           E(u) == UNION {JniNew(t.w) : t \in L(u)}
           S == UNION {UNION {D(u) : u \in C(p)} : p \in getSignatureByte(w)}
           T == UNION {UNION {E(u) : u \in C(p)} : p \in getSignatureByte(w)}
<1>0. /\ w \in World /\ Tame(w, M, K) /\ "heap" \in Kinds /\ "heap" \in K /\ "null" \in M
      /\ w.held["local"] = 0 /\ "pending" \in M /\ "local" \in K
  BY IdleCalm, KindsForm DEF Tame, Calm, SignatureMisuse, SignatureLeaks
<1>1. o \in Native(S) \cup Native(T)
  BY DEF getSignature, checkSignature, Next2, Then
<1>2. ASSUME NEW v, Frame(w, v, M, K), NEW z \in JniNew(v)
      PROVE  Does(w, z, M, K)
  <2>1. v \in World /\ v.held["crit"] = 0
    BY <1>0, <1>2, KindsForm DEF Frame, Tame
  <2>2. z \in Op("new", v)
    BY DEF Op
  <2>3. Does(v, z, {"pending"}, {"local"})
    BY <2>1, <2>2, TameOp
  <2>4. QED
    BY <1>0, <1>2, <2>3 DEF Does, Frame
<1>3. ASSUME NEW v, Frame(w, v, M, K) PROVE Frame(w, hashByteArray(v), M, K)
  BY <1>0, <1>3, TakeFrame DEF hashByteArray
<1>4. ASSUME NEW v, Frame(w, v, M, K), NEW z \in JavaStringToStringOf(v, TRUE)
      PROVE  Frame(w, z.w, M, K)
  <2>1. v \in World /\ v.held["crit"] = 0
    BY <1>0, <1>4, KindsForm DEF Frame, Tame
  <2>2. Does(v, z, {"pending"}, {})
    BY <2>1, TameString
  <2>3. QED
    BY <1>0, <1>4, <2>2 DEF Does, Frame
<1> HIDE DEF M, K
<1>5. ASSUME NEW p \in getSignatureByte(w) PROVE All(C(p), w, M, K)
  <2>1. Does(w, p, M, K) /\ p.r \in BOOLEAN
    BY SignatureByteForm DEF All, Does, Outcomes, M, K
  <2>2. Frame(w, On(p.w, p.r), M, K)
    BY <1>0, <2>1, TakeFrame DEF Does
  <2> DEFINE x == Take(On(p.w, p.r), "heap")
  <2>3. Frame(w, x, M, K)
    BY <1>0, <2>2, TakeFrame
  <2> HIDE DEF x
  <2>4. All(Got(x), w, M, K)
    BY <2>3, ChainStart
  <2>5. All(Got(x) ++ "read", w, M, K)
    BY <1>0, <2>4, ChainForm
  <2>6. All(Got(x) ++ "read" ++ "read", w, M, K)
    BY <1>0, <2>5, ChainForm
  <2>7. QED
    BY <2>6 DEF x
<1>6. ASSUME NEW u, Does(w, u, M, K), NEW z \in D(u) PROVE Does(w, z, M, K)
  <2>1. Frame(w, u.w, M, K)
    BY <1>6 DEF Does
  <2>2. Frame(w, hashByteArray(hashByteArray(hashByteArray(u.w))), M, K)
    BY <1>3, <2>1
  <2>3. QED
    BY <1>2, <2>2
<1>7. ASSUME NEW u, Does(w, u, M, K), NEW z \in E(u) PROVE Does(w, z, M, K)
  <2> DEFINE x == hashByteArray(u.w)
  <2>1. Frame(w, x, M, K)
    BY <1>3, <1>7 DEF Does
  <2>2. PICK t \in L(u) : z \in JniNew(t.w)
    OBVIOUS
  <2>3. t \in Got(x) \cup JavaStringToStringOf(x, TRUE)
              \cup UNION {JavaStringToStringOf(y.w, TRUE) : y \in JavaStringToStringOf(x, TRUE)}
    BY DEF Loop, Next2
  <2> HIDE DEF x, L, E, D, C, S, T
  <2>4. Frame(w, t.w, M, K)
    <3>1. CASE t \in Got(x)
      BY <2>1, <3>1, GotForm DEF Frame
    <3>2. CASE t \in JavaStringToStringOf(x, TRUE)
      BY <1>4, <2>1, <3>2
    <3>3. ASSUME NEW y \in JavaStringToStringOf(x, TRUE), t \in JavaStringToStringOf(y.w, TRUE)
          PROVE  Frame(w, t.w, M, K)
      BY <1>4, <2>1, <3>3
    <3>4. QED
      BY <2>3, <3>1, <3>2, <3>3
  <2>5. QED
    BY <1>2, <2>2, <2>4
<1> HIDE DEF C, D, E
<1>8. \A z \in S : Does(w, z, M, K)
  BY <1>5, <1>6 DEF All
<1>9. \A z \in T : Does(w, z, M, K)
  BY <1>5, <1>7 DEF All
<1>10. M = {"pending", "null"} /\ K = {"chars", "heap"} \cup {"local"}
  BY DEF M, K, SignatureMisuse, SignatureLeaks
<1> HIDE DEF S, T
<1>11. QED
  BY <1>0, <1>1, <1>8, <1>9, <1>10, NativeTidy

-----------------------------------------------------------------------------
(* jni_util.cc                                                               *)

\* jni_util attaches the thread, and changes nothing else.
LEMMA AttachCurrentForm ==
  ASSUME NEW w \in World
  PROVE  /\ AttachCurrentThread(w) \in World /\ AttachCurrentThread(w).exc = w.exc
         /\ AttachCurrentThread(w).bad = w.bad /\ AttachCurrentThread(w).held = w.held
BY DEF World, AttachCurrentThread

\* The local references made in a scope are dropped at its end.
LEMMA ScopedForm ==
  ASSUME NEW w \in World, NEW M, NEW K, NEW p, Does(w, p, M, K \cup {"local"}),
         NEW o, o = After(p, [p.w EXCEPT !.held["local"] = w.held["local"]])
  PROVE  Does(w, o, M, K) /\ o.w.exc = p.w.exc
<1> DEFINE D(x) == [x EXCEPT !.held["local"] = w.held["local"]]
<1>1. p \in Outcomes(BOOLEAN) /\ p.w \in World /\ "local" \in Kinds /\ w.held["local"] \in Nat
  BY KindsForm, WorldForm DEF Does, Frame
<1>2. /\ D(p.w) \in World /\ D(p.w).exc = p.w.exc /\ D(p.w).bad = p.w.bad
      /\ D(p.w).held["local"] = w.held["local"]
      /\ \A k \in Kinds : k # "local" => D(p.w).held[k] = p.w.held[k]
  <2>1. D(p.w) = [p.w EXCEPT !.held = [p.w.held EXCEPT !["local"] = w.held["local"]]]
    BY <1>1 DEF World
  <2>2. [p.w.held EXCEPT !["local"] = w.held["local"]] \in [Kinds -> Nat]
    BY <1>1 DEF World
  <2>3. QED
    BY <1>1, <2>1, <2>2 DEF World
<1>3. o = After(p, D(p.w))
  OBVIOUS
<1> HIDE DEF D
<1>4. o \in Outcomes(BOOLEAN) /\ o.w = D(p.w)
  BY <1>1, <1>2, <1>3, OutcomeForm
<1>5. QED
  BY <1>2, <1>4 DEF Does, Frame

\* The elements of a list are read with whatever is pending.
LEMMA StringListForm ==
  ASSUME NEW w \in World, Calm(w), NEW b \in BOOLEAN, NEW o \in StringListToVector(w, b)
  PROVE  Does(w, o, {"pending", "null"}, {})
<1> DEFINE M == {"pending", "null"}
           K == {"local"}
           F(v, get) == UNION {JavaStringToString(q.w, q.r) : q \in JniCall(On(v, get))}
           L(x, get) == Got(x.w) \cup F(x.w, get) \cup UNION {F(y.w, get) : y \in F(x.w, get)}
           C(s, get) == UNION {L(x, get) : x \in Jni(On(s.w, s.r))}
           D(u) == UNION {UNION {C(s, t.r) : s \in Jni(t.w)} : t \in Jni(u.w)}
           S == UNION {D(u) : u \in NotNull(JniNew(w))}
<1>0. Tame(w, M, K)
  BY DEF Tame, Calm
<1>1. CASE ~b
  BY <1>1, NoneForm DEF StringListToVector, Does, Frame
<1>2. CASE b
  <2>1. PICK p \in S : o = After(p, [p.w EXCEPT !.held["local"] = w.held["local"]])
    BY <1>2 DEF StringListToVector, ScopedLocals, Finally, Next2, Then, Loop
  <2>2. ASSUME NEW p1, Does(w, p1, M, K), NEW get \in BOOLEAN, NEW z \in F(p1.w, get)
        PROVE  Does(w, z, M, K)
    <3>1. PICK q \in JniCall(On(p1.w, get)) : z \in JavaStringToString(q.w, q.r)
      OBVIOUS
    <3>2. q \in Op("call", On(p1.w, get))
      BY DEF Op
    <3>3. Does(w, q, M, K)
      BY <1>0, <2>2, <3>2, PassForm
    <3>4. q.w \in World /\ q.w.held["crit"] = 0 /\ q.r \in BOOLEAN
      BY <1>0, <3>3, TameWorld DEF Does, Outcomes
    <3>5. Does(q.w, z, {"pending"}, {})
      BY <3>1, <3>4, TameString
    <3>6. QED
      BY <3>3, <3>5 DEF Does, Frame
  <2>3. PICK u \in NotNull(JniNew(w)) : p \in D(u)
    BY <2>1
  <2>4. PICK t \in Jni(u.w) : p \in UNION {C(s, t.r) : s \in Jni(t.w)}
    BY <2>3
  <2>5. PICK s \in Jni(t.w) : p \in C(s, t.r)
    BY <2>4
  <2>6. PICK x \in Jni(On(s.w, s.r)) : p \in L(x, t.r)
    BY <2>5
  <2>7. Does(w, x, M, K) /\ t.r \in BOOLEAN
    <3>1. Does(w, u, {}, K)
      BY CallDoes DEF NotNull
    <3>2. Does(w, u, M, K)
      BY <3>1 DEF Does, Frame
    <3>3. t \in Op("id", u.w) /\ s \in Op("id", t.w) /\ x \in Op("id", On(s.w, s.r))
      BY <2>4, <2>5, <2>6 DEF Op
    <3>4. Does(w, t, M, K)
      BY <1>0, <3>2, <3>3, NextForm
    <3>5. Does(w, s, M, K)
      BY <1>0, <3>3, <3>4, NextForm
    <3>6. s.r \in BOOLEAN /\ t.r \in BOOLEAN
      BY <3>4, <3>5 DEF Does, Outcomes
    <3>7. QED
      BY <1>0, <3>3, <3>5, <3>6, PassForm
  <2> HIDE DEF F, C, D, S, M, K
  <2>8. Does(w, p, M, K)
    <3>1. CASE p \in Got(x.w)
      BY <2>7, <3>1, GotForm DEF Does, Frame
    <3>2. CASE p \in F(x.w, t.r)
      BY <2>2, <2>7, <3>2
    <3>3. ASSUME NEW y \in F(x.w, t.r), p \in F(y.w, t.r) PROVE Does(w, p, M, K)
      BY <2>2, <2>7, <3>3
    <3>4. QED
      BY <2>6, <3>1, <3>2, <3>3
  <2>9. Does(w, p, {"pending", "null"}, {} \cup {"local"})
    BY <2>8 DEF M, K
  <2>10. QED
    BY <2>1, <2>9, ScopedForm
<1>3. QED
  BY <1>1, <1>2

\* CheckException looks at nothing that fails, and leaves no exception.
LEMMA ExceptionInfoForm ==
  ASSUME NEW w \in World, Calm(w), NEW o \in GetJavaExceptionInfo(w)
  PROVE  Does(w, o, {"pending", "null"}, {}) /\ ~o.w.exc
<1> DEFINE M == {"pending", "null"}
           K == {"local"}
           A == UNION {JniCall(y.w) : y \in UNION {Jni(x.w) : x \in LookupPrinter(w)}}
           B(u) == IF u.w.exc THEN Got(Clear(u.w)) ELSE JavaStringToString(u.w, u.r)
<1>0. Tame(w, M, K)
  BY DEF Tame, Calm
<1>1. PICK p \in UNION {B(u) : u \in A} : o = After(p, [p.w EXCEPT !.held["local"] = w.held["local"]])
  BY DEF GetJavaExceptionInfo, ScopedLocals, Finally, Then, Next2
<1>2. All(A, w, M, K)
  <2> HIDE DEF M, K
  <2>0. All(Got(w), w, M, K)
    BY <1>0, ChainStart DEF Frame
  <2>1. All(Got(w) ++ "new", w, M, K)
    BY <1>0, <2>0, ChainForm
  <2>2. All(Got(w) ++ "new" ++ "id", w, M, K)
    BY <1>0, <2>1, ChainForm
  <2>3. All(Got(w) ++ "new" ++ "id" ++ "new", w, M, K)
    BY <1>0, <2>2, ChainForm
  <2>4. All(Got(w) ++ "new" ++ "id" ++ "new" ++ "id", w, M, K)
    BY <1>0, <2>3, ChainForm
  <2>5. All(Got(w) ++ "new" ++ "id" ++ "new" ++ "id" ++ "id", w, M, K)
    BY <1>0, <2>4, ChainForm
  <2>6. All(Got(w) ++ "new" ++ "id" ++ "new" ++ "id" ++ "id" ++ "new", w, M, K)
    BY <1>0, <2>5, ChainForm
  <2>7. All(Got(w) ++ "new" ++ "id" ++ "new" ++ "id" ++ "id" ++ "new" ++ "new", w, M, K)
    BY <1>0, <2>6, ChainForm
  <2>8. All(Got(w) ++ "new" ++ "id" ++ "new" ++ "id" ++ "id" ++ "new" ++ "new" ++ "id", w, M, K)
    BY <1>0, <2>7, ChainForm
  <2>9. All(Got(w) ++ "new" ++ "id" ++ "new" ++ "id" ++ "id" ++ "new" ++ "new" ++ "id" ++ "new",
            w, M, K)
    BY <1>0, <2>8, ChainForm
  <2>10. ASSUME NEW z \in A PROVE Does(w, z, M, K)
    <3>1. PICK y \in UNION {Jni(x.w) : x \in LookupPrinter(w)} : z \in JniCall(y.w)
      BY <2>10
    <3>2. PICK x \in LookupPrinter(w) : y \in Jni(x.w)
      BY <3>1
    <3>3. Does(w, x, M, K)
      BY <2>9, <3>2 DEF LookupPrinter, All
    <3>4. y \in Op("id", x.w) /\ z \in Op("call", y.w)
      BY <3>1, <3>2 DEF Op
    <3>5. Does(w, y, M, K)
      BY <1>0, <3>3, <3>4, NextForm
    <3>6. QED
      BY <1>0, <3>4, <3>5, NextForm
  <2>11. QED
    BY <2>10 DEF All
<1>3. PICK u \in A : p \in B(u)
  BY <1>1
<1> HIDE DEF A
<1>4. Does(w, u, M, K) /\ u.w \in World /\ u.r \in BOOLEAN /\ u.w.held["crit"] = 0
  BY <1>0, <1>2, TameWorld DEF All, Does, Outcomes
<1>5. Does(w, p, M, K) /\ ~p.w.exc
  <2>1. CASE u.w.exc
    <3>1. p \in Got(Clear(u.w))
      BY <1>3, <2>1
    <3>2. Clear(u.w) \in World /\ ~Clear(u.w).exc /\ Clear(u.w).bad = u.w.bad /\ Clear(u.w).held = u.w.held
      BY <1>4, ClearForm
    <3>3. QED
      BY <1>4, <3>1, <3>2, GotForm DEF Does, Frame
  <2>2. CASE ~u.w.exc
    <3>1. p \in JavaStringToString(u.w, u.r)
      BY <1>3, <2>2
    <3>2. Calm(u.w)
      BY <1>4, <2>2 DEF Calm
    <3>3. Plain(u.w, p)
      BY <1>4, <3>1, <3>2, StringForm
    <3>4. ~p.w.exc
      BY <2>2, <3>3 DEF Plain
    <3>5. Does(w, p, M, K)
      BY <1>4, <3>3, DoesTrans DEF Plain
    <3>6. QED
      BY <3>4, <3>5
  <2>3. QED
    BY <2>1, <2>2
<1>6. Does(w, p, {"pending", "null"}, {} \cup {"local"})
  BY <1>5
<1>7. Does(w, o, {"pending", "null"}, {}) /\ o.w.exc = p.w.exc
  BY <1>1, <1>6, ScopedForm
<1>8. QED
  BY <1>5, <1>7

\* CheckException clears the exception before it asks for its text, which may throw
\* again unseen; both functions leave none pending.
LEMMA CheckExceptionForm ==
  ASSUME NEW w \in World, w.held["crit"] = 0, NEW o \in CheckException(w) \cup ClearException(w)
  PROVE  Tidy(w, o.w, {"pending", "null"}, {})
<1>0. "local" \in Kinds /\ "crit" \in Kinds /\ w.held["local"] \in Nat
  BY KindsForm, WorldForm
<1>1. CASE o \in ClearException(w)
  <2>1. o.w = Clear(w)
    BY <1>1 DEF ClearException, Res
  <2>2. QED
    BY <2>1, ClearForm DEF Tidy, Frame
<1>2. CASE ~w.exc /\ o \in CheckException(w)
  BY <1>2, GotForm DEF CheckException, Tidy, Frame
<1>3. CASE w.exc /\ o \in CheckException(w)
  <2> DEFINE c == Clear(w)
             t == Take(c, "local")
  <2>1. PICK p \in GetJavaExceptionInfo(t) : o = After(p, Give(p.w, "local"))
    BY <1>3 DEF CheckException, Finally
  <2>2. c \in World /\ ~c.exc /\ c.bad = w.bad /\ c.held = w.held
    BY ClearForm
  <2> HIDE DEF c
  <2>3. /\ t \in World /\ ~t.exc /\ t.bad = w.bad /\ t.held["local"] = w.held["local"] + 1
        /\ \A j \in Kinds : j # "local" => t.held[j] = w.held[j]
    <3>1. /\ t \in World /\ t.exc = c.exc /\ t.bad = c.bad /\ t.held["local"] = c.held["local"] + 1
          /\ \A j \in Kinds : j # "local" => t.held[j] = c.held[j]
      BY <1>0, <2>2, TakeForm
    <3> HIDE DEF t
    <3>2. QED
      BY <2>2, <3>1
  <2> HIDE DEF t
  <2>4. Calm(t)
    BY <1>0, <2>3 DEF Calm
  <2>5. Does(t, p, {"pending", "null"}, {}) /\ ~p.w.exc
    BY <2>3, <2>4, ExceptionInfoForm
  <2>6. /\ p \in Outcomes(BOOLEAN) /\ p.w \in World /\ p.w.bad \subseteq w.bad \cup {"pending", "null"}
        /\ p.w.held["local"] = w.held["local"] + 1
        /\ \A j \in Kinds : j # "local" => p.w.held[j] = w.held[j]
    <3>1. /\ p \in Outcomes(BOOLEAN) /\ p.w \in World /\ p.w.bad \subseteq t.bad \cup {"pending", "null"}
          /\ \A j \in Kinds : p.w.held[j] = t.held[j]
      BY <2>5 DEF Does, Frame
    <3>2. QED
      BY <1>0, <2>3, <3>1
  <2> DEFINE g == Give(p.w, "local")
  <2>7. /\ g \in World /\ ~g.exc /\ g.bad = p.w.bad /\ g.held["local"] = w.held["local"]
        /\ \A j \in Kinds : j # "local" => g.held[j] = w.held[j]
    <3>1. p.w.held["local"] > 0
      BY <1>0, <2>6
    <3>2. /\ g \in World /\ g.exc = p.w.exc /\ g.bad = p.w.bad /\ g.held["local"] = p.w.held["local"] - 1
          /\ \A j \in Kinds : j # "local" => g.held[j] = p.w.held[j]
      BY <1>0, <2>6, <3>1, GiveForm
    <3> HIDE DEF g
    <3>3. QED
      BY <1>0, <2>5, <2>6, <3>2
  <2> HIDE DEF g
  <2>8. o.w = g
    BY <2>1, <2>6, <2>7, OutcomeForm DEF g
  <2>9. QED
    BY <2>6, <2>7, <2>8 DEF Tidy, Frame
<1>4. QED
  BY <1>1, <1>2, <1>3 DEF World

\* A new local reference that is deleted by the caller.
LEMMA NewLocalForm ==
  ASSUME NEW w \in World, Calm(w), NEW s \in StringToJavaString(w)
  PROVE  /\ s.w \in World /\ Calm(s.w) /\ s \in Outcomes(BOOLEAN)
         /\ Give(s.w, "local") \in World /\ ~Give(s.w, "local").exc /\ Give(s.w, "local").bad = w.bad
         /\ \A j \in Kinds : Give(s.w, "local").held[j] = w.held[j]
<1>0. "local" \in Kinds /\ "crit" \in Kinds /\ w.held["local"] \in Nat
  BY KindsForm, WorldForm
<1>1. s \in JniNew(w) /\ ~s.w.exc
  BY DEF StringToJavaString, NoException
<1>2. /\ s \in Outcomes(BOOLEAN) /\ s.w \in World /\ s.w.bad = w.bad /\ s.r
      /\ s.w.held["local"] = w.held["local"] + 1
      /\ \A j \in Kinds : j # "local" => s.w.held[j] = w.held[j]
  BY <1>1, GetIsCall, JniCallForm DEF Outcomes
<1> DEFINE g == Give(s.w, "local")
<1>3. s.w.held["local"] > 0
  BY <1>0, <1>2
<1>4. /\ g \in World /\ g.exc = s.w.exc /\ g.bad = s.w.bad /\ g.held["local"] = s.w.held["local"] - 1
      /\ \A j \in Kinds : j # "local" => g.held[j] = s.w.held[j]
  BY <1>0, <1>2, <1>3, GiveForm
<1>5. Calm(s.w)
  BY <1>0, <1>1, <1>2 DEF Calm
<1> HIDE DEF g
<1>6. g \in World /\ ~g.exc /\ g.bad = w.bad /\ \A j \in Kinds : g.held[j] = w.held[j]
  BY <1>0, <1>1, <1>2, <1>4
<1>7. QED
  BY <1>2, <1>5, <1>6 DEF g

\* StringToJavaString, and the end of the local reference.
LEMMA DroppedStringForm ==
  ASSUME NEW w \in World, Calm(w),
         NEW o \in Finally(StringToJavaString(w), LAMBDA v : Give(v, "local"))
  PROVE  Tidy(w, o.w, {}, {})
<1>1. PICK s \in StringToJavaString(w) : o = After(s, Give(s.w, "local"))
  BY DEF Finally
<1>2. o.w = Give(s.w, "local")
  BY <1>1, NewLocalForm, OutcomeForm
<1>3. QED
  BY <1>2, NewLocalForm DEF Tidy, Frame

\* StringArrayToVector deletes each string it reads.
LEMMA StringArrayForm ==
  ASSUME NEW w \in World, Calm(w), NEW b \in BOOLEAN, NEW o \in StringArrayToVector(w, b)
  PROVE  Plain(w, o)
<1> DEFINE F(v) == UNION {{After(p, GiveIf(p.w, "local", s.r)) : p \in JavaStringToString(s.w, s.r)} :
                          s \in JniGet(v)}
<1>0. "local" \in Kinds /\ "crit" \in Kinds
  BY KindsForm
<1>1. CASE ~b
  <2>1. o \in None(w)
    BY <1>1 DEF StringArrayToVector
  <2>2. QED
    BY <2>1, NoneForm DEF Plain, Does, Frame
<1>2. CASE b
  <2>1. o \in Got(w) \cup F(w) \cup UNION {F(p.w) : p \in F(w)}
    <3>1. StringArrayToVector(w, b) = Loop(Use(w), F)
      BY <1>2 DEF StringArrayToVector, Then, Finally
    <3>2. QED
      BY <3>1, CalmUse DEF Loop, Next2
  <2>2. ASSUME NEW v \in World, Calm(v), NEW z \in F(v) PROVE Plain(v, z)
    <3>1. PICK s \in JniGet(v) : z \in {After(p, GiveIf(p.w, "local", s.r)) : p \in JavaStringToString(s.w, s.r)}
      OBVIOUS
    <3>2. PICK p \in JavaStringToString(s.w, s.r) : z = After(p, GiveIf(p.w, "local", s.r))
      BY <3>1
    <3>3. /\ s.w \in World /\ s.r \in BOOLEAN /\ s.w.bad = v.bad /\ ~s.w.exc
          /\ s.w.held["local"] = v.held["local"] + (IF s.r THEN 1 ELSE 0)
          /\ \A j \in Kinds : j # "local" => s.w.held[j] = v.held[j]
      BY <2>2, GetIsCall, JniCallForm DEF Outcomes
    <3>4. Calm(s.w)
      BY <1>0, <2>2, <3>3 DEF Calm
    <3>5. Plain(s.w, p) /\ p.w \in World
      BY <3>3, <3>4, StringForm, PlainWorld
    <3>6. /\ p \in Outcomes(BOOLEAN) /\ p.w.bad \subseteq v.bad /\ ~p.w.exc
          /\ p.w.held["local"] = v.held["local"] + (IF s.r THEN 1 ELSE 0)
          /\ \A j \in Kinds : j # "local" => p.w.held[j] = v.held[j]
      BY <1>0, <3>3, <3>5 DEF Plain, Does, Frame
    <3> DEFINE g == GiveIf(p.w, "local", s.r)
    <3>7. v.held["local"] \in Nat
      BY <1>0, WorldForm
    <3>8. s.r => p.w.held["local"] > 0
      BY <3>6, <3>7
    <3>9. /\ g \in World /\ g.exc = p.w.exc /\ g.bad = p.w.bad
          /\ g.held["local"] = p.w.held["local"] - (IF s.r THEN 1 ELSE 0)
          /\ \A j \in Kinds : j # "local" => g.held[j] = p.w.held[j]
      <4>1. p.w \in World /\ s.r \in BOOLEAN
        BY <3>3, <3>5
      <4>2. QED
        BY <1>0, <3>8, <4>1, GiveIfForm
    <3>10. z = After(p, g)
      BY <3>2
    <3> HIDE DEF g, F
    <3>11. g.held["local"] = v.held["local"]
      BY <3>6, <3>7, <3>9
    <3>12. z \in Outcomes(BOOLEAN) /\ z.w = g
      BY <3>6, <3>9, <3>10, OutcomeForm
    <3>13. z.w.exc = v.exc
      BY <2>2, <3>6, <3>9, <3>12 DEF Calm, World
    <3>14. QED
      BY <3>6, <3>9, <3>11, <3>12, <3>13 DEF Plain, Does, Frame
  <2> HIDE DEF F
  <2>3. CASE o \in Got(w)
    BY <2>3, GotForm DEF Plain, Does, Frame
  <2>4. CASE o \in F(w)
    BY <2>2, <2>4
  <2>5. ASSUME NEW p \in F(w), o \in F(p.w) PROVE Plain(w, o)
    <3>1. Plain(w, p) /\ Calm(p.w) /\ p.w \in World
      BY <2>2, PlainCalm
    <3>2. QED
      BY <2>2, <2>5, <3>1, PlainTrans
  <2>6. QED
    BY <2>1, <2>3, <2>4, <2>5
<1>3. QED
  BY <1>1, <1>2

\* Two local references are made, the loop keeps none, and both are dropped.
LEMMA TwoLocals ==
  ASSUME NEW w \in World, Calm(w), NEW u \in NotNull(JniNew(w)), NEW v \in NoException(JniNew(u.w)),
         NEW M, NEW p, Does(v.w, p, M, {}), NEW o, o = After(p, Give(Give(p.w, "local"), "local"))
  PROVE  Does(w, o, M, {}) /\ o.w.exc = p.w.exc
<1>0. "local" \in Kinds /\ "crit" \in Kinds /\ w.held["local"] \in Nat
  BY KindsForm, WorldForm
<1>1. u \in JniNew(w) /\ u.r /\ v \in JniNew(u.w) /\ ~v.w.exc
  BY DEF NotNull, NoException
<1>2. /\ u.w \in World /\ ~u.w.exc /\ u.w.bad = w.bad /\ u.w.held["local"] = w.held["local"] + 1
      /\ \A j \in Kinds : j # "local" => u.w.held[j] = w.held[j]
  BY <1>1, GetIsCall, JniCallForm DEF Outcomes
<1>3. Calm(u.w)
  BY <1>0, <1>2 DEF Calm
<1>4. /\ v.w \in World /\ v.w.bad = u.w.bad /\ v.w.held["local"] = u.w.held["local"] + 1
      /\ \A j \in Kinds : j # "local" => v.w.held[j] = u.w.held[j]
  BY <1>1, <1>2, <1>3, GetIsCall, JniCallForm DEF Outcomes
<1>5. /\ p \in Outcomes(BOOLEAN) /\ p.w \in World /\ p.w.bad \subseteq v.w.bad \cup M
      /\ \A j \in Kinds : p.w.held[j] = v.w.held[j]
  BY DEF Does, Frame
<1> DEFINE a == Give(p.w, "local")
           b == Give(a, "local")
<1>6. /\ a \in World /\ a.exc = p.w.exc /\ a.bad = p.w.bad /\ a.held["local"] = p.w.held["local"] - 1
      /\ \A j \in Kinds : j # "local" => a.held[j] = p.w.held[j]
  BY <1>0, <1>2, <1>4, <1>5, GiveForm
<1>7. a.held["local"] = w.held["local"] + 1
  BY <1>0, <1>2, <1>4, <1>5, <1>6
<1> HIDE DEF a
<1>8. /\ b \in World /\ b.exc = a.exc /\ b.bad = a.bad /\ b.held["local"] = a.held["local"] - 1
      /\ \A j \in Kinds : j # "local" => b.held[j] = a.held[j]
  BY <1>0, <1>6, <1>7, GiveForm
<1>9. o = After(p, b)
  BY DEF a
<1> HIDE DEF b
<1>10. o \in Outcomes(BOOLEAN) /\ o.w = b
  BY <1>5, <1>8, <1>9, OutcomeForm
<1>11. \A j \in Kinds : b.held[j] = w.held[j]
  BY <1>0, <1>2, <1>4, <1>5, <1>6, <1>7, <1>8
<1>12. QED
  BY <1>2, <1>4, <1>5, <1>6, <1>8, <1>10, <1>11 DEF Does, Frame

\* VectorToStringArray deletes its local references.
LEMMA StringVectorForm ==
  ASSUME NEW w \in World, Calm(w), NEW o \in VectorToStringArray(w)
  PROVE  Tidy(w, o.w, {}, {})
<1> DEFINE F(t) == UNION {Got(Give(Use(s.w), "local")) : s \in StringToJavaString(t)}
           G(v) == {After(p, Give(Give(p.w, "local"), "local")) : p \in Loop(v.w, F)}
<1>1. PICK u \in NotNull(JniNew(w)) : o \in UNION {G(v) : v \in NoException(JniNew(u.w))}
  BY DEF VectorToStringArray, Next2, Finally
<1>2. PICK v \in NoException(JniNew(u.w)) : o \in G(v)
  BY <1>1
<1>3. PICK p \in Loop(v.w, F) : o = After(p, Give(Give(p.w, "local"), "local"))
  BY <1>2
<1>4. v.w \in World /\ Calm(v.w)
  <2>1. u \in JniNew(w) /\ u.r /\ v \in JniNew(u.w) /\ ~v.w.exc
    BY DEF NotNull, NoException
  <2>2. u.w \in World /\ Calm(u.w)
    BY <2>1, CallDoes
  <2>3. Does(u.w, v, {}, {"local"})
    BY <2>1, <2>2, CallDoes
  <2>4. QED
    BY <2>1, <2>2, <2>3, KindsForm DEF Does, Frame, Calm
<1>5. ASSUME NEW t \in World, Calm(t), NEW z \in F(t) PROVE Plain(t, z)
  <2>1. PICK s \in StringToJavaString(t) : z \in Got(Give(Use(s.w), "local"))
    OBVIOUS
  <2>2. z \in Got(Give(s.w, "local"))
    BY <1>5, <2>1, NewLocalForm, CalmUse
  <2> DEFINE g == Give(s.w, "local")
  <2>3. g \in World /\ ~g.exc /\ g.bad = t.bad /\ \A j \in Kinds : g.held[j] = t.held[j]
    BY <1>5, NewLocalForm
  <2>4. z \in Got(g)
    BY <2>2
  <2> HIDE DEF g
  <2>5. z \in Outcomes(BOOLEAN) /\ z.w = g
    BY <2>3, <2>4, GotForm
  <2>6. z.w.exc = t.exc
    BY <1>5, <2>3, <2>5 DEF Calm, World
  <2>7. QED
    BY <2>3, <2>5, <2>6 DEF Plain, Does, Frame
<1>6. p \in Got(v.w) \cup F(v.w) \cup UNION {F(q.w) : q \in F(v.w)}
  BY DEF Loop, Next2
<1> HIDE DEF F, G
<1>7. Plain(v.w, p)
  <2>1. CASE p \in Got(v.w)
    BY <1>4, <2>1, GotForm DEF Plain, Does, Frame
  <2>2. CASE p \in F(v.w)
    BY <1>4, <1>5, <2>2
  <2>3. ASSUME NEW q \in F(v.w), p \in F(q.w) PROVE Plain(v.w, p)
    <3>1. Plain(v.w, q) /\ Calm(q.w) /\ q.w \in World
      BY <1>4, <1>5, PlainCalm
    <3>2. QED
      BY <1>5, <2>3, <3>1, PlainTrans
  <2>4. QED
    BY <1>6, <2>1, <2>2, <2>3
<1>8. Does(w, o, {}, {}) /\ o.w.exc = p.w.exc
  BY <1>3, <1>7, TwoLocals DEF Plain
<1>9. QED
  BY <1>4, <1>7, <1>8 DEF Tidy, Does, Plain, Calm

\* VectorToBufferArray goes on with an exception of NewDirectByteBuffer pending.
LEMMA BufferVectorForm ==
  ASSUME NEW w \in World, Calm(w), NEW o \in VectorToBufferArray(w)
  PROVE  Does(w, o, {"pending"}, {})
<1> DEFINE F(t) == UNION {Got(GiveIf(Use(s.w), "local", s.r)) : s \in JniNew(t)}
           G(v) == {After(p, Give(Give(p.w, "local"), "local")) : p \in Loop(v.w, F)}
<1>0. "local" \in Kinds /\ "crit" \in Kinds
  BY KindsForm
<1>1. PICK u \in NotNull(JniNew(w)) : o \in UNION {G(v) : v \in NoException(JniNew(u.w))}
  BY DEF VectorToBufferArray, Next2, Finally, Then
<1>2. PICK v \in NoException(JniNew(u.w)) : o \in G(v)
  BY <1>1
<1>3. PICK p \in Loop(v.w, F) : o = After(p, Give(Give(p.w, "local"), "local"))
  BY <1>2
<1>4. v.w \in World /\ v.w.held["crit"] = 0
  <2>1. u \in JniNew(w) /\ u.r /\ v \in JniNew(u.w) /\ ~v.w.exc
    BY DEF NotNull, NoException
  <2>2. u.w \in World /\ Calm(u.w)
    BY <2>1, CallDoes
  <2>3. Does(u.w, v, {}, {"local"})
    BY <2>1, <2>2, CallDoes
  <2>4. QED
    BY <2>1, <2>2, <2>3, KindsForm DEF Does, Frame, Calm
<1>5. ASSUME NEW t \in World, t.held["crit"] = 0, NEW z \in F(t)
      PROVE  Does(t, z, {"pending"}, {})
  <2>1. PICK s \in JniNew(t) : z \in Got(GiveIf(Use(s.w), "local", s.r))
    OBVIOUS
  <2> DEFINE e == Use(t)
  <2>2. e \in World /\ e.held = t.held /\ e.bad \subseteq t.bad \cup {"pending"}
    BY <1>5, UseForm
  <2>3. s \in Got(Take(e, "local")) \cup None(Throw(e))
    BY DEF JniNew
  <2> HIDE DEF e, F, G
  <2>4. /\ s.w \in World /\ s.r \in BOOLEAN /\ s.w.bad = e.bad /\ e.held["local"] \in Nat
        /\ s.w.held["local"] = e.held["local"] + (IF s.r THEN 1 ELSE 0)
        /\ \A j \in Kinds : j # "local" => s.w.held[j] = e.held[j]
    <3>0. e.held["local"] \in Nat
      BY <1>0, <2>2, WorldForm
    <3>1. CASE s \in Got(Take(e, "local"))
      <4> DEFINE k == Take(e, "local")
      <4>1. /\ k \in World /\ k.bad = e.bad /\ k.held["local"] = e.held["local"] + 1
            /\ \A j \in Kinds : j # "local" => k.held[j] = e.held[j]
        BY <1>0, <2>2, TakeForm
      <4> HIDE DEF k
      <4>2. s.w = k /\ s.r
        BY <3>1, <4>1, GotForm DEF k
      <4>3. s.r \in BOOLEAN
        BY <3>1, <4>1, GotForm DEF k, Outcomes
      <4>4. QED
        BY <3>0, <4>1, <4>2, <4>3
    <3>2. CASE s \in None(Throw(e))
      <4> DEFINE k == Throw(e)
      <4>1. k \in World /\ k.bad = e.bad /\ k.held = e.held
        BY <2>2, ThrowForm
      <4> HIDE DEF k
      <4>2. s.w = k /\ ~s.r
        BY <3>2, <4>1, NoneForm DEF k
      <4>3. s.r \in BOOLEAN
        BY <3>2, <4>1, NoneForm DEF k, Outcomes
      <4>4. QED
        BY <3>0, <4>1, <4>2, <4>3
    <3>3. QED
      BY <2>3, <3>1, <3>2
  <2> DEFINE x == Use(s.w)
             g == GiveIf(x, "local", s.r)
  <2>5. x \in World /\ x.held = s.w.held /\ x.bad \subseteq s.w.bad \cup {"pending"}
    BY <1>0, <1>5, <2>2, <2>4, UseForm
  <2> HIDE DEF x
  <2>6. /\ g \in World /\ g.bad = x.bad /\ g.held["local"] = x.held["local"] - (IF s.r THEN 1 ELSE 0)
        /\ \A j \in Kinds : j # "local" => g.held[j] = x.held[j]
    <3>1. s.r => x.held["local"] > 0
      BY <2>4, <2>5
    <3>2. s.r \in BOOLEAN /\ "local" \in Kinds /\ x \in World
      BY <1>0, <2>4, <2>5
    <3>3. QED
      BY <3>1, <3>2, GiveIfForm
  <2>7. z \in Got(g)
    BY <2>1 DEF x
  <2> HIDE DEF g
  <2>8. \A j \in Kinds : g.held[j] = t.held[j]
    BY <2>2, <2>4, <2>5, <2>6
  <2>9. z \in Outcomes(BOOLEAN) /\ z.w = g
    BY <2>6, <2>7, GotForm
  <2>10. QED
    BY <2>2, <2>4, <2>5, <2>6, <2>8, <2>9 DEF Does, Frame
<1>6. p \in Got(v.w) \cup F(v.w) \cup UNION {F(q.w) : q \in F(v.w)}
  BY DEF Loop, Next2
<1> HIDE DEF F, G
<1>7. Does(v.w, p, {"pending"}, {})
  <2>1. CASE p \in Got(v.w)
    BY <1>4, <2>1, GotForm DEF Does, Frame
  <2>2. CASE p \in F(v.w)
    BY <1>4, <1>5, <2>2
  <2>3. ASSUME NEW q \in F(v.w), p \in F(q.w) PROVE Does(v.w, p, {"pending"}, {})
    <3>0. Does(v.w, q, {"pending"}, {})
      BY <1>4, <1>5
    <3>1. Does(v.w, q, {"pending"}, {}) /\ q.w \in World /\ q.w.held["crit"] = 0
      BY <1>0, <1>4, <3>0 DEF Does, Frame
    <3>2. Does(q.w, p, {"pending"}, {})
      BY <1>5, <2>3, <3>1
    <3>3. QED
      BY <3>1, <3>2 DEF Does, Frame
  <2>4. QED
    BY <1>6, <2>1, <2>2, <2>3
<1>8. QED
  BY <1>3, <1>7, TwoLocals

-----------------------------------------------------------------------------
(* Scoped and weak references                                                *)

\* A new reference is made before the old one is deleted, or after it, and the
\* count changes by the difference.
Swaps(w, v, k, old, obj) ==
    /\ v \in World /\ Calm(v) /\ v.bad = w.bad
    /\ v.held[k] = w.held[k] + (IF obj THEN 1 ELSE 0) - (IF old THEN 1 ELSE 0)
    /\ \A j \in Kinds : j # k => v.held[j] = w.held[j]

\* AttachCurrentThread changes nothing that is counted.
LEMMA AttachCurrentCalm ==
  ASSUME NEW w \in World, Calm(w)
  PROVE  AttachCurrentThread(w) \in World /\ Calm(AttachCurrentThread(w))
<1>1. QED
  BY AttachCurrentForm DEF Calm

\* A reference is made of what is not null.
LEMMA NewRefOfForm ==
  ASSUME NEW w \in World, Calm(w), NEW k \in Kinds \ {"crit"}, NEW b \in BOOLEAN
  PROVE  Swaps(w, NewRefOf(w, k, b), k, FALSE, b)
<1>0. w.held[k] \in Nat
  BY WorldForm
<1>1. CASE b
  BY <1>0, <1>1, NewRefForm DEF NewRefOf, Swaps
<1>2. CASE ~b
  BY <1>0, <1>2 DEF NewRefOf, Swaps
<1>3. QED
  BY <1>1, <1>2

\* A reference is deleted if there was one.
LEMMA DropForm ==
  ASSUME NEW w \in World, Calm(w), NEW k \in Kinds \ {"crit"}, NEW b \in BOOLEAN, b => w.held[k] > 0
  PROVE  Swaps(w, GiveIf(w, k, b), k, b, FALSE)
<1>0. w.held[k] \in Nat /\ "crit" \in Kinds
  BY WorldForm, KindsForm
<1> DEFINE g == GiveIf(w, k, b)
<1>1. /\ g \in World /\ g.exc = w.exc /\ g.bad = w.bad
      /\ g.held[k] = w.held[k] - (IF b THEN 1 ELSE 0)
      /\ \A j \in Kinds : j # k => g.held[j] = w.held[j]
  BY GiveIfForm
<1> HIDE DEF g
<1>2. g.held[k] = w.held[k] + 0 - (IF b THEN 1 ELSE 0)
  BY <1>0, <1>1
<1>3. Calm(g)
  BY <1>0, <1>1 DEF Calm
<1>4. QED
  BY <1>1, <1>2, <1>3 DEF Swaps, g

\* SetNewLocalRef, SetNewGlobalRef.
LEMMA SetNewForm ==
  ASSUME NEW w \in World, Calm(w), NEW k \in Kinds \ {"crit"}, NEW old \in BOOLEAN, NEW obj \in BOOLEAN,
         old => w.held[k] > 0
  PROVE  Swaps(w, GiveIf(NewRefOf(AttachCurrentThread(w), k, obj), k, old), k, old, obj)
<1> DEFINE a == AttachCurrentThread(w)
           n == NewRefOf(a, k, obj)
           g == GiveIf(n, k, old)
<1>0. w.held[k] \in Nat
  BY WorldForm
<1>1. a \in World /\ Calm(a) /\ a.bad = w.bad /\ a.held = w.held
  BY AttachCurrentForm, AttachCurrentCalm
<1> HIDE DEF a
<1>2. Swaps(a, n, k, FALSE, obj)
  BY <1>1, NewRefOfForm
<1> HIDE DEF n
<1>3. /\ n \in World /\ Calm(n) /\ n.bad = w.bad
      /\ n.held[k] = w.held[k] + (IF obj THEN 1 ELSE 0)
      /\ \A j \in Kinds : j # k => n.held[j] = w.held[j]
  BY <1>0, <1>1, <1>2 DEF Swaps
<1>4. old => n.held[k] > 0
  BY <1>0, <1>3
<1>5. Swaps(n, g, k, old, FALSE)
  BY <1>3, <1>4, DropForm
<1> HIDE DEF g
<1>6. Swaps(w, g, k, old, obj)
  BY <1>0, <1>3, <1>5 DEF Swaps
<1>7. QED
  BY <1>6 DEF a, n, g

\* The old weak reference is deleted before the new one is made.
LEMMA WeakAssignForm ==
  ASSUME NEW w \in World, Calm(w), NEW old \in BOOLEAN, NEW obj \in BOOLEAN,
         old => w.held["weak"] > 0
  PROVE  Swaps(w, NewRefOf(GiveIf(AttachCurrentThread(w), "weak", old), "weak", obj), "weak", old, obj)
<1> DEFINE a == AttachCurrentThread(w)
           n == GiveIf(a, "weak", old)
           g == NewRefOf(n, "weak", obj)
<1>0. "weak" \in Kinds \ {"crit"} /\ w.held["weak"] \in Nat
  BY WorldForm, KindsForm
<1>1. a \in World /\ Calm(a) /\ a.bad = w.bad /\ a.held = w.held
  BY AttachCurrentForm, AttachCurrentCalm
<1> HIDE DEF a
<1>2. Swaps(a, n, "weak", old, FALSE)
  BY <1>0, <1>1, DropForm
<1> HIDE DEF n
<1>3. /\ n \in World /\ Calm(n) /\ n.bad = w.bad
      /\ n.held["weak"] = w.held["weak"] - (IF old THEN 1 ELSE 0)
      /\ \A j \in Kinds : j # "weak" => n.held[j] = w.held[j]
  BY <1>0, <1>1, <1>2 DEF Swaps
<1>5. Swaps(n, g, "weak", FALSE, obj)
  BY <1>0, <1>3, NewRefOfForm
<1> HIDE DEF g
<1>6. Swaps(w, g, "weak", old, obj)
  BY <1>0, <1>3, <1>5 DEF Swaps
<1>7. QED
  BY <1>6 DEF a, n, g

\* A reference is dropped on an attached thread.
LEMMA ResetForm ==
  ASSUME NEW w \in World, Calm(w), NEW k \in Kinds \ {"crit"}, NEW old \in BOOLEAN, old => w.held[k] > 0
  PROVE  Swaps(w, IF old THEN Give(AttachCurrentThread(w), k) ELSE w, k, old, FALSE)
<1> DEFINE a == AttachCurrentThread(w)
<1>0. w.held[k] \in Nat
  BY WorldForm
<1>1. a \in World /\ Calm(a) /\ a.bad = w.bad /\ a.held = w.held
  BY AttachCurrentForm, AttachCurrentCalm
<1>2. CASE old
  <2>1. Swaps(a, GiveIf(a, k, old), k, old, FALSE)
    BY <1>1, DropForm
  <2>2. Swaps(a, Give(a, k), k, TRUE, FALSE)
    BY <1>2, <2>1 DEF GiveIf
  <2> HIDE DEF a
  <2>3. Swaps(w, Give(a, k), k, TRUE, FALSE)
    BY <1>1, <2>2 DEF Swaps
  <2>4. QED
    BY <1>2, <2>3 DEF a
<1>3. CASE ~old
  BY <1>0, <1>3 DEF Swaps
<1>4. QED
  BY <1>2, <1>3

\* The scoped local references of LocalRefLifetime.
LEMMA LocalFrameForm ==
  ASSUME NEW w \in World, Calm(w), NEW o \in LocalFrame(w, LocalRefLifetime)
  PROVE  Tidy(w, o.w, {}, {})
<1> DEFINE L(x, n) == x.held["local"] = w.held["local"] + n
           Good(x) == /\ x \in World /\ Calm(x) /\ x.bad = w.bad
                      /\ \A j \in Kinds : j # "local" => x.held[j] = w.held[j]
<1>0. "local" \in Kinds \ {"crit"} /\ "crit" \in Kinds /\ w.held["local"] \in Nat
  BY WorldForm, KindsForm
<1>1. PICK p \in LocalRefLifetime(w) : o = After(p, [p.w EXCEPT !.held["local"] = w.held["local"]])
  BY DEF LocalFrame, ScopedLocals, Finally
<1>2. PICK a \in JniGet(w) :
        p \in UNION {UNION {UNION {ResetLocalRef(s.w, a.r) : s \in ResetLocalRef(t.w, t.r)} :
                            t \in SetNewLocalRef(v.w, v.r, a.r)} :
                     v \in SetNewLocalRef(a.w, FALSE, a.r)}
  BY <1>1 DEF LocalRefLifetime, Then
<1>3. PICK v \in SetNewLocalRef(a.w, FALSE, a.r) :
        p \in UNION {UNION {ResetLocalRef(s.w, a.r) : s \in ResetLocalRef(t.w, t.r)} :
                            t \in SetNewLocalRef(v.w, v.r, a.r)}
  BY <1>2
<1>4. PICK t \in SetNewLocalRef(v.w, v.r, a.r) :
        p \in UNION {ResetLocalRef(s.w, a.r) : s \in ResetLocalRef(t.w, t.r)}
  BY <1>3
<1>5. PICK s \in ResetLocalRef(t.w, t.r) : p \in ResetLocalRef(s.w, a.r)
  BY <1>4
<1> DEFINE n == IF a.r THEN 1 ELSE 0
<1>6. Good(a.w) /\ L(a.w, n) /\ a.r \in BOOLEAN
  <2>1. /\ a \in Outcomes(BOOLEAN) /\ a.w.bad = w.bad /\ L(a.w, n) /\ ~a.w.exc
        /\ \A j \in Kinds : j # "local" => a.w.held[j] = w.held[j]
    BY GetIsCall, JniCallForm
  <2>2. QED
    BY <1>0, <2>1 DEF Calm, Outcomes
<1>7. Good(v.w) /\ L(v.w, n + n) /\ v.r = a.r
  <2> DEFINE x == GiveIf(NewRefOf(AttachCurrentThread(a.w), "local", a.r), "local", FALSE)
  <2>1. Swaps(a.w, x, "local", FALSE, a.r)
    BY <1>0, <1>6, SetNewForm
  <2>2. v \in Res(x, a.r)
    BY <1>3 DEF SetNewLocalRef
  <2> HIDE DEF x
  <2>3. v.w = x /\ v.r = a.r
    BY <2>2 DEF Res
  <2>4. QED
    BY <1>0, <1>6, <2>1, <2>3 DEF Swaps
<1>8. Good(t.w) /\ L(t.w, n + n) /\ t.r = a.r
  <2> DEFINE x == GiveIf(NewRefOf(AttachCurrentThread(v.w), "local", a.r), "local", v.r)
  <2>0. a.r => v.w.held["local"] > 0
    BY <1>0, <1>6, <1>7
  <2>1. Swaps(v.w, x, "local", v.r, a.r)
    BY <1>0, <1>6, <1>7, <2>0, SetNewForm
  <2>2. t \in Res(x, a.r)
    BY <1>4 DEF SetNewLocalRef
  <2> HIDE DEF x
  <2>3. t.w = x /\ t.r = a.r
    BY <2>2 DEF Res
  <2>4. t.w.held["local"] = v.w.held["local"] + n - n
    BY <1>7, <2>1, <2>3 DEF Swaps
  <2>5. v.w.held["local"] = w.held["local"] + (n + n) /\ n \in Nat
    BY <1>6, <1>7
  <2>6. L(t.w, n + n)
    BY <1>0, <2>4, <2>5
  <2>7. Good(t.w)
    BY <1>0, <1>7, <2>1, <2>3 DEF Swaps
  <2>8. QED
    BY <2>3, <2>6, <2>7
<1>9. Good(s.w) /\ L(s.w, n)
  <2> DEFINE x == GiveIf(t.w, "local", t.r)
  <2>0. a.r => t.w.held["local"] > 0
    BY <1>0, <1>6, <1>8
  <2>1. Swaps(t.w, x, "local", t.r, FALSE)
    BY <1>0, <1>6, <1>8, <2>0, DropForm
  <2>2. s \in None(x)
    BY <1>5 DEF ResetLocalRef
  <2> HIDE DEF x
  <2>3. s.w = x
    BY <2>1, <2>2, NoneForm DEF Swaps
  <2>4. QED
    BY <1>0, <1>6, <1>8, <2>1, <2>3 DEF Swaps
<1>10. Good(p.w) /\ p \in Outcomes(BOOLEAN)
  <2> DEFINE x == GiveIf(s.w, "local", a.r)
  <2>0. a.r => s.w.held["local"] > 0
    BY <1>0, <1>6, <1>9
  <2>1. Swaps(s.w, x, "local", a.r, FALSE)
    BY <1>0, <1>6, <1>9, <2>0, DropForm
  <2>2. p \in None(x)
    BY <1>5 DEF ResetLocalRef
  <2> HIDE DEF x
  <2>3. p.w = x /\ p \in Outcomes(BOOLEAN)
    BY <2>1, <2>2, NoneForm DEF Swaps
  <2>4. QED
    BY <1>0, <1>6, <1>9, <2>1, <2>3 DEF Swaps
<1>11. Does(w, p, {}, {} \cup {"local"}) /\ ~p.w.exc
  BY <1>10 DEF Does, Frame, Calm
<1>12. Does(w, o, {}, {}) /\ o.w.exc = p.w.exc
  <2>1. PICK E : E = {}
    OBVIOUS
  <2>2. Does(w, p, E, E \cup {"local"})
    BY <1>11, <2>1
  <2>3. Does(w, o, E, E) /\ o.w.exc = p.w.exc
    BY <1>1, <2>2, ScopedForm
  <2>4. QED
    BY <2>1, <2>3
<1>13. QED
  BY <1>11, <1>12 DEF Does, Tidy

-----------------------------------------------------------------------------
(* Snappy                                                                    *)

\* What a function of snappy_natvie.cpp may have done: at most a local reference is
\* left, and a result that is not null comes without an exception.
Fine(w, o) == Does(w, o, {}, {"local"}) /\ (o.r => Calm(o.w))

\* One more call of a chain that stops at the first null.
LEMMA FineStep ==
  ASSUME NEW w, NEW S, \A p \in S : Fine(w, p), NEW op \in {"new", "id"}, NEW o \in S ** op
  PROVE  Fine(w, o)
<1>1. PICK p \in S : o \in (IF p.r THEN Op(op, p.w) ELSE {p})
  BY DEF **, IfGot
<1>2. CASE ~p.r
  BY <1>1, <1>2
<1>3. CASE p.r
  <2>1. p.w \in World /\ Calm(p.w) /\ Does(w, p, {}, {"local"})
    BY <1>3 DEF Fine, Calm
  <2>2. o \in JniNew(p.w) \cup Jni(p.w)
    BY <1>1, <1>3 DEF Op
  <2>3. Does(p.w, o, {}, {"local"}) /\ (o.r => Calm(o.w))
    BY <2>1, <2>2, CallDoes
  <2>4. Does(w, o, {}, {"local"})
    BY <2>1, <2>3 DEF Does, Frame
  <2>5. QED
    BY <2>3, <2>4 DEF Fine
<1>4. QED
  BY <1>2, <1>3, <1>1

\* throw_exception.
LEMMA ThrowExceptionForm ==
  ASSUME NEW w \in World, Calm(w), NEW o \in throw_exception(w) \cup Got(w)
  PROVE  Does(w, o, {}, {"local"})
<1>1. \A p \in Got(w) : Fine(w, p)
  BY GotForm DEF Fine, Does, Frame
<1>2. CASE o \in Got(w)
  BY <1>1, <1>2 DEF Fine
<1>3. CASE o \in throw_exception(w)
  <2> DEFINE A == Got(w) ** "new"
             B == A ** "id"
             C == B ** "id"
  <2>1. PICK p \in C : o \in None(p.w)
    BY <1>3 DEF throw_exception, Next2
  <2>2. \A x \in A : Fine(w, x)
    BY <1>1, FineStep
  <2> HIDE DEF A
  <2>3. \A x \in B : Fine(w, x)
    BY <2>2, FineStep
  <2> HIDE DEF B
  <2>4. \A x \in C : Fine(w, x)
    BY <2>3, FineStep
  <2> HIDE DEF C
  <2>5. Fine(w, p) /\ p.w \in World
    BY <2>4 DEF Fine, Does, Frame
  <2>6. o \in Outcomes(BOOLEAN) /\ o.w = p.w
    BY <2>1, <2>5, NoneForm
  <2>7. QED
    BY <2>5, <2>6 DEF Fine, Does
<1>4. QED
  BY <1>2, <1>3

\* The critical regions are left before anything else is called.
LEMMA PinCriticalForm ==
  ASSUME NEW w \in World, ~w.exc, NEW p \in PinCritical(w)
  PROVE  p \in Open(w, "crit")
<1>1. Misuse(w, {}) = w
  BY DEF Misuse, World
<1>2. QED
  BY <1>1 DEF PinCritical

\* Two critical regions.
LEMMA TwoRegions ==
  ASSUME NEW w \in World, Calm(w), NEW v \in PinCritical(w), NEW u \in PinCritical(v.w)
  PROVE  Tidy(w, GiveIf(GiveIf(u.w, "crit", v.r), "crit", u.r), {}, {})
<1>0. "crit" \in Kinds /\ w.held["crit"] = 0 /\ ~w.exc
  BY KindsForm DEF Calm
<1>1. /\ v.w \in World /\ v.r \in BOOLEAN /\ v.w.bad = w.bad /\ v.w.exc = w.exc
      /\ v.w.held["crit"] = w.held["crit"] + (IF v.r THEN 1 ELSE 0)
      /\ \A j \in Kinds : j # "crit" => v.w.held[j] = w.held[j]
  BY <1>0, PinCriticalForm, OpenForm
<1>2. u \in Open(v.w, "crit")
  BY <1>0, <1>1, PinCriticalForm
<1>3. /\ u.w \in World /\ u.r \in BOOLEAN /\ u.w.bad = v.w.bad /\ u.w.exc = v.w.exc
      /\ u.w.held["crit"] = v.w.held["crit"] + (IF u.r THEN 1 ELSE 0)
      /\ \A j \in Kinds : j # "crit" => u.w.held[j] = v.w.held[j]
  BY <1>0, <1>1, <1>2, OpenForm
<1> DEFINE a == GiveIf(u.w, "crit", v.r)
           b == GiveIf(a, "crit", u.r)
<1>4. v.r => u.w.held["crit"] > 0
  BY <1>0, <1>1, <1>3
<1>5. /\ a \in World /\ a.exc = u.w.exc /\ a.bad = u.w.bad
      /\ a.held["crit"] = u.w.held["crit"] - (IF v.r THEN 1 ELSE 0)
      /\ \A j \in Kinds : j # "crit" => a.held[j] = u.w.held[j]
  BY <1>0, <1>1, <1>3, <1>4, GiveIfForm
<1> HIDE DEF a
<1>6. a.held["crit"] = IF u.r THEN 1 ELSE 0
  BY <1>0, <1>1, <1>3, <1>5
<1>7. /\ b \in World /\ b.exc = a.exc /\ b.bad = a.bad
      /\ b.held["crit"] = a.held["crit"] - (IF u.r THEN 1 ELSE 0)
      /\ \A j \in Kinds : j # "crit" => b.held[j] = a.held[j]
  BY <1>0, <1>3, <1>5, <1>6, GiveIfForm
<1> HIDE DEF b
<1>8. Tidy(w, b, {}, {})
  BY <1>0, <1>1, <1>3, <1>5, <1>6, <1>7 DEF Tidy, Frame
<1>9. QED
  BY <1>8 DEF a, b

\* Array arguments.
LEMMA ArraysForm ==
  ASSUME NEW w \in World, Calm(w),
         NEW o \in WithArrays(w, Got) \cup WithArrays(w, LAMBDA v : Rejects(v, Got))
  PROVE  Does(w, o, {}, {"local"})
<1> DEFINE x(v, u) == GiveIf(GiveIf(u.w, "crit", v.r), "crit", u.r)
<1>1. PICK v \in PinCritical(w) :
        \E u \in PinCritical(v.w) : o \in throw_exception(x(v, u)) \cup Got(x(v, u))
  BY DEF WithArrays, Then, Rejects, GiveIf
<1>2. PICK u \in PinCritical(v.w) : o \in throw_exception(x(v, u)) \cup Got(x(v, u))
  BY <1>1
<1>3. Tidy(w, x(v, u), {}, {})
  BY TwoRegions
<1>4. PICK y : y = x(v, u)
  OBVIOUS
<1> HIDE DEF x
<1>5. y \in World /\ Calm(y) /\ Frame(w, y, {}, {})
  BY <1>3, <1>4, TidyCalm DEF Calm
<1>6. Does(y, o, {}, {"local"})
  BY <1>2, <1>4, <1>5, ThrowExceptionForm
<1>7. QED
  BY <1>5, <1>6 DEF Does, Frame

\* One array argument.
LEMMA ArrayForm ==
  ASSUME NEW w \in World, Calm(w),
         NEW o \in WithArray(w, Got) \cup WithArray(w, LAMBDA v : Rejects(v, Got))
  PROVE  Does(w, o, {}, {"local"})
<1> DEFINE x(v) == GiveIf(v.w, "crit", v.r)
<1>0. "crit" \in Kinds /\ w.held["crit"] = 0 /\ ~w.exc
  BY KindsForm DEF Calm
<1>1. PICK v \in PinCritical(w) : o \in throw_exception(x(v)) \cup Got(x(v))
  BY DEF WithArray, Then, Rejects, GiveIf
<1>2. /\ v.w \in World /\ v.r \in BOOLEAN /\ v.w.bad = w.bad /\ v.w.exc = w.exc
      /\ v.w.held["crit"] = w.held["crit"] + (IF v.r THEN 1 ELSE 0)
      /\ \A j \in Kinds : j # "crit" => v.w.held[j] = w.held[j]
  BY <1>0, PinCriticalForm, OpenForm
<1>3. v.r => v.w.held["crit"] > 0
  BY <1>0, <1>2
<1>4. PICK y : y = x(v)
  OBVIOUS
<1>5. /\ y \in World /\ y.exc = v.w.exc /\ y.bad = v.w.bad
      /\ y.held["crit"] = v.w.held["crit"] - (IF v.r THEN 1 ELSE 0)
      /\ \A j \in Kinds : j # "crit" => y.held[j] = v.w.held[j]
  BY <1>0, <1>2, <1>3, <1>4, GiveIfForm
<1> HIDE DEF x
<1>6. y \in World /\ Calm(y) /\ Frame(w, y, {}, {})
  BY <1>0, <1>2, <1>5 DEF Calm, Frame
<1>7. Does(y, o, {}, {"local"})
  BY <1>1, <1>4, <1>6, ThrowExceptionForm
<1>8. QED
  BY <1>6, <1>7 DEF Does, Frame

\* Direct buffers and addresses.
LEMMA BuffersForm ==
  ASSUME NEW w \in World, Calm(w),
         NEW o \in WithBuffers(w, Got) \cup WithBuffers(w, LAMBDA v : Rejects(v, Got))
                   \cup Rejects(w, Got) \cup throw_exception(w) \cup Got(w)
  PROVE  Does(w, o, {}, {"local"})
<1>1. o \in throw_exception(w) \cup Got(w)
  BY CalmUse DEF WithBuffers, Rejects
<1>2. QED
  BY <1>1, ThrowExceptionForm

\* Every native method of snappy_natvie.cpp breaks no rule and keeps nothing.
LEMMA SnappyForm ==
  ASSUME NEW w, Idle(w),
         NEW o \in rawCompressArray(w) \cup rawCompressBuffer(w) \cup rawCompressAddress(w)
             \cup rawUncompressArray(w) \cup rawUncompressBuffer(w) \cup rawUncompressAddress(w)
             \cup uncompressedLengthArray(w) \cup uncompressedLengthBuffer(w)
             \cup uncompressedLengthAddress(w)
             \cup isValidArray(w) \cup isValidBuffer(w) \cup isValidAddress(w, TRUE)
             \cup isValidAddress(w, FALSE) \cup arrayCopy(w) \cup nativeLibraryVersion(w)
             \cup maxCompressedLength(w)
  PROVE  Tidy(w, o.w, {}, {})
<1>0. w \in World /\ Calm(w) /\ w.held["local"] = 0
  BY IdleCalm
<1> DEFINE A == WithArrays(w, Got)
           B == WithArrays(w, LAMBDA v : Rejects(v, Got))
           C == WithArray(w, Got)
           D == WithArray(w, LAMBDA v : Rejects(v, Got))
           E == WithBuffers(w, Got)
           F == WithBuffers(w, LAMBDA v : Rejects(v, Got))
           G == Rejects(w, Got)
           H == throw_exception(w)
           Good(S) == \A p \in S : Does(w, p, {}, {} \cup {"local"})
<1>1. Good(A) /\ Good(B)
  BY <1>0, ArraysForm
<1>2. Good(C) /\ Good(D)
  BY <1>0, ArrayForm
<1>3. Good(E) /\ Good(F) /\ Good(G) /\ Good(H)
  BY <1>0, BuffersForm
<1>4. \/ o \in Native(A) \cup Native(B) \cup Native(C) \cup Native(D)
      \/ o \in Native(E) \cup Native(F) \cup Native(G) \cup Native(H)
      \/ o \in Native(JniNew(w))
      \/ o \in Got(w)
  BY DEF rawCompressArray, rawCompressBuffer, rawCompressAddress, rawUncompressArray,
         rawUncompressBuffer, rawUncompressAddress, uncompressedLengthArray,
         uncompressedLengthBuffer, uncompressedLengthAddress, isValidArray, isValidBuffer,
         isValidAddress, arrayCopy, nativeLibraryVersion, maxCompressedLength
<1> HIDE DEF A, B, C, D, E, F, G, H
<1>5. CASE o \in Native(A) \cup Native(B) \cup Native(C) \cup Native(D)
  BY <1>0, <1>1, <1>2, <1>5, NativeTidy
<1>6. CASE o \in Native(E) \cup Native(F) \cup Native(G) \cup Native(H)
  BY <1>0, <1>3, <1>6, NativeTidy
<1>7. CASE o \in Native(JniNew(w))
  BY <1>7, NativeNewForm
<1>8. CASE o \in Got(w)
  BY <1>0, <1>8, GotForm DEF Tidy, Frame, Calm
<1>9. QED
  BY <1>4, <1>5, <1>6, <1>7, <1>8

-----------------------------------------------------------------------------
(* The native view model                                                     *)

\* What a call of the view model into Java may have done.
ViewMisuse == {"pending", "null"}
ViewKeeps == {"local", "class"}
\* An outcome of a step of the view model.
Shown(w, o) == o \in Outcomes(BOOLEAN) /\ Tidy(w, o.w, ViewMisuse, ViewKeeps)

\* A QJniObject that is made at the start of a scope and destroyed at its end.
LEMMA ScopeForm ==
  ASSUME NEW w \in World, NEW u, Makes(w, u, {}), NEW p \in Outcomes(BOOLEAN),
         Frame(u.w, p.w, ViewMisuse, ViewKeeps),
         NEW o, o = After(p, DestroyPrivate(p.w, u.r))
  PROVE  Shown(w, o)
<1>1. "global" \in Kinds /\ w.held["global"] \in Nat
  BY KindsForm, WorldForm
<1>2. u.r \in Objects /\ Owned(u.r) \in Nat
  BY DEF Makes, Yields, Outcomes, Objects, QPrivates, Owned
<1>3. /\ p.w \in World /\ p.w.bad \subseteq w.bad \cup ViewMisuse
      /\ p.w.held["global"] = w.held["global"] + Owned(u.r)
      /\ \A k \in Kinds \ {"global", "class", "local"} : p.w.held[k] = w.held[k]
  BY <1>1 DEF Makes, Yields, Frame, ViewMisuse, ViewKeeps
<1> DEFINE z == DestroyPrivate(p.w, u.r)
<1>4. /\ z \in World /\ ~z.exc /\ z.bad \subseteq w.bad \cup ViewMisuse
      /\ z.held["global"] = w.held["global"]
      /\ \A k \in Kinds \ {"global", "class", "local"} : z.held[k] = w.held[k]
  BY <1>1, <1>2, <1>3, DestroyForm
<1> HIDE DEF z
<1>5. o \in Outcomes(BOOLEAN) /\ o.w = z
  BY <1>4, OutcomeForm DEF z
<1>6. QED
  BY <1>4, <1>5 DEF Shown, Tidy, Frame, ViewKeeps

\* One call of the view model after another.
LEMMA ShownTrans ==
  ASSUME NEW w, NEW p, NEW o, Shown(w, p), Shown(p.w, o)
  PROVE  Shown(w, o)
BY DEF Shown, Tidy, Frame

\* After such a step native code may call the machine.
LEMMA ShownCalm ==
  ASSUME NEW w \in World, Calm(w), NEW p, Shown(w, p)
  PROVE  p.w \in World /\ Calm(p.w)
BY KindsForm DEF Shown, Tidy, Frame, ViewKeeps, Calm

\* After an object was made native code may call the machine.
LEMMA MakesCalm ==
  ASSUME NEW w \in World, Calm(w), NEW p, Makes(w, p, {})
  PROVE  p.w \in World /\ Calm(p.w)
BY KindsForm DEF Makes, Yields, Frame, Calm

\* A method is called with the exception of an earlier call pending.
LEMMA TameMethodForm ==
  ASSUME NEW w \in World, w.held["crit"] = 0, NEW o \in callMethod(w, FullQ)
  PROVE  o \in Outcomes(BOOLEAN) /\ Tidy(w, o.w, {"pending"}, {})
<1> DEFINE a == Attach(w)
           e == Use(a)
<1>1. a \in World /\ a.held = w.held /\ a.bad = w.bad
  BY AttachForm
<1>2. PICK t \in UNION {IF p.r THEN Jni(p.w) ELSE {p} : p \in getMethodID(a)} :
        o = After(t, checkAndClearExceptions(t.w))
  BY QForm DEF callMethod, WithEnv, Finally, IfGot, On, callMethodForType
<1>3. PICK p \in getMethodID(a) : t \in IF p.r THEN Jni(p.w) ELSE {p}
  BY <1>2
<1>4. PICK j \in Jni(a) : p \in Res(Clear(j.w), j.r /\ ~j.w.exc)
  BY <1>3 DEF getMethodID, Then
<1>5. e \in World /\ e.held = a.held /\ e.bad \subseteq a.bad \cup {"pending"}
  BY <1>1, UseForm
<1>6. j \in Got(e) \cup None(Throw(e))
  BY <1>4 DEF Jni
<1> HIDE DEF a, e
<1>7. j.w \in World /\ j.w.held = w.held /\ j.w.bad \subseteq w.bad \cup {"pending"} /\ j.r \in BOOLEAN
  <2>1. CASE j \in Got(e)
    BY <1>1, <1>5, <2>1, GotForm DEF Outcomes
  <2>2. CASE j \in None(Throw(e))
    <3>1. Throw(e) \in World /\ Throw(e).held = e.held /\ Throw(e).bad = e.bad
      BY <1>5, ThrowForm
    <3>2. j.w = Throw(e) /\ j.r \in BOOLEAN
      BY <2>2, <3>1, NoneForm DEF Outcomes
    <3>3. QED
      BY <1>1, <1>5, <3>1, <3>2
  <2>3. QED
    BY <1>6, <2>1, <2>2
<1> DEFINE c == Clear(j.w)
<1>8. c \in World /\ ~c.exc /\ c.held = w.held /\ c.bad \subseteq w.bad \cup {"pending"}
  BY <1>7, ClearForm
<1> HIDE DEF c
<1>9. p \in Outcomes(BOOLEAN) /\ p.w = c
  <2>1. PICK b \in BOOLEAN : p \in Res(c, b)
    BY <1>4 DEF c
  <2>2. QED
    BY <1>8, <2>1, ResForm
<1>10. t \in Outcomes(BOOLEAN) /\ t.w.held = w.held /\ t.w.bad \subseteq w.bad \cup {"pending"}
  <2>1. CASE t = p
    BY <1>8, <1>9, <2>1
  <2>2. CASE t \in Jni(p.w)
    BY <1>8, <1>9, <2>2, JniForm DEF Calm
  <2>3. QED
    BY <1>3, <2>1, <2>2
<1>11. Frame(a, t.w, {"pending"}, {})
  BY <1>1, <1>10 DEF Frame, Outcomes
<1>12. QED
  BY <1>2, <1>10, <1>11, EnvTidy DEF a

\* WithView of a view model whose Java object is valid.
LEMMA ViewForm ==
  ASSUME NEW w \in World, Calm(w), NEW u \in FromObject(w, TRUE)
  PROVE  Makes(w, u, {}) /\ u.r = FullQ /\ u.w \in World /\ Calm(u.w)
BY FromObjectForm, MakesCalm

\* A method without arguments.
LEMMA CallViewForm ==
  ASSUME NEW w \in World, Calm(w), NEW x, x.bind_java_view_model = "valid",
         NEW o \in WithView(w, x, callMethod)
  PROVE  Shown(w, o)
<1>1. PICK u \in FromObject(w, TRUE) :
        o \in {After(p, DestroyPrivate(p.w, u.r)) : p \in callMethod(u.w, u.r)}
  BY DEF WithView, Then, Finally
<1>2. PICK p \in callMethod(u.w, u.r) : o = After(p, DestroyPrivate(p.w, u.r))
  BY <1>1
<1>3. Makes(w, u, {}) /\ u.r = FullQ /\ u.w \in World /\ Calm(u.w)
  BY ViewForm
<1>4. p \in Outcomes(BOOLEAN) /\ Tidy(u.w, p.w, {}, {})
  BY <1>2, <1>3, MethodForm, QForm
<1>5. Frame(u.w, p.w, ViewMisuse, ViewKeeps)
  BY <1>4 DEF Tidy, Frame
<1>6. QED
  BY <1>2, <1>3, <1>4, <1>5, ScopeForm

\* A method with a string.
LEMMA CallStringForm ==
  ASSUME NEW w \in World, Calm(w), NEW x, x.bind_java_view_model = "valid",
         NEW o \in CallWithString(w, x)
  PROVE  Shown(w, o)
<1>1. PICK u \in fromString(w) :
        o \in {After(p, DestroyPrivate(p.w, u.r)) : p \in WithView(u.w, x, callMethod)}
  BY DEF CallWithString, Then, Finally
<1>2. PICK p \in WithView(u.w, x, callMethod) : o = After(p, DestroyPrivate(p.w, u.r))
  BY <1>1
<1>3. Makes(w, u, {}) /\ u.w \in World /\ Calm(u.w)
  BY FromStringForm, MakesCalm
<1>4. Shown(u.w, p)
  BY <1>3, CallViewForm
<1>5. QED
  BY <1>2, <1>3, <1>4, ScopeForm DEF Shown, Tidy

\* A method with a byte array.
LEMMA CallBytesForm ==
  ASSUME NEW w \in World, Calm(w), NEW x, x.bind_java_view_model = "valid",
         NEW o \in CallWithBytes(w, x)
  PROVE  Shown(w, o)
<1> DEFINE B(u) == UNION {callMethod(Use(On(s.w, s.r)), u.r) : s \in JniNew(Attach(u.w))}
<1>1. PICK u \in FromObject(w, TRUE) :
        o \in {After(p, DestroyPrivate(p.w, u.r)) :
                 p \in {After(t, checkAndClearExceptions(t.w)) : t \in B(u)}}
  BY DEF CallWithBytes, WithView, Then, Finally, WithEnv
<1>2. PICK p \in {After(t, checkAndClearExceptions(t.w)) : t \in B(u)} :
        o = After(p, DestroyPrivate(p.w, u.r))
  BY <1>1
<1>3. PICK t \in B(u) : p = After(t, checkAndClearExceptions(t.w))
  BY <1>2
<1>4. Makes(w, u, {}) /\ u.r = FullQ /\ u.w \in World /\ Calm(u.w)
  BY ViewForm
<1> DEFINE a == Attach(u.w)
<1>5. PICK s \in JniNew(a) : t \in callMethod(Use(On(s.w, s.r)), FullQ)
  BY <1>3, <1>4
<1>6. a \in World /\ Calm(a)
  BY <1>4, AttachCalm
<1> HIDE DEF a, B
<1>7. Does(a, s, {}, {"local"}) /\ s.w \in World /\ s.r \in BOOLEAN /\ s.w.held["crit"] = 0
  <2>1. Does(a, s, {}, {"local"})
    BY <1>6, CallDoes
  <2>2. QED
    BY <1>6, <2>1, KindsForm DEF Does, Frame, Outcomes, Calm
<1> DEFINE n == On(s.w, s.r)
           e == Use(n)
<1>8. n \in World /\ n.held = s.w.held /\ n.bad \subseteq s.w.bad \cup {"null"}
  BY <1>7, OnForm
<1> HIDE DEF n
<1>9. e \in World /\ e.held = s.w.held /\ e.bad \subseteq s.w.bad \cup ViewMisuse
  <2>1. e \in World /\ e.held = n.held /\ e.bad \subseteq n.bad \cup {"pending"}
    BY <1>7, <1>8, UseForm
  <2>2. QED
    BY <1>8, <2>1 DEF ViewMisuse
<1>10. t \in callMethod(e, FullQ)
  BY <1>5 DEF n
<1> HIDE DEF e
<1>11. t \in Outcomes(BOOLEAN) /\ Tidy(e, t.w, {"pending"}, {})
  BY <1>7, <1>9, <1>10, TameMethodForm
<1>12. Frame(a, t.w, ViewMisuse, ViewKeeps)
  <2>1. t.w.bad \subseteq a.bad \cup ViewMisuse
    BY <1>7, <1>9, <1>11 DEF Tidy, Does, Frame, ViewMisuse
  <2>2. \A k \in Kinds : t.w.held[k] = s.w.held[k]
    BY <1>9, <1>11 DEF Tidy, Frame
  <2>3. QED
    BY <1>7, <1>11, <2>1, <2>2 DEF Tidy, Does, Frame, ViewKeeps
<1>13. p \in Outcomes(BOOLEAN) /\ Tidy(u.w, p.w, ViewMisuse, ViewKeeps)
  BY <1>3, <1>4, <1>11, <1>12, EnvTidy DEF a
<1>14. QED
  BY <1>2, <1>4, <1>13, ScopeForm DEF Tidy

\* nativeBind.
LEMMA NativeBindForm ==
  ASSUME NEW w, Idle(w), NEW x \in ViewModel, NEW o \in nativeBind(w, x)
  PROVE  Tidy(w, o.w, {"pending", "null"}, {"class"})
<1> DEFINE y == [x EXCEPT !.bind_java_view_model = "valid", !.view_model_is_attached = TRUE]
<1>0. w \in World /\ Calm(w) /\ w.held["local"] = 0
  BY IdleCalm
<1>1. y.bind_java_view_model = "valid" /\ y.view_model_is_attached = TRUE
  BY DEF ViewModel
<1> DEFINE E(c) == WithView(c, y, callMethod)
           D(b) == UNION {E(c.w) : c \in CallWithBytes(b, y)}
           C(a) == UNION {D(b.w) : b \in CallWithString(a, y)}
           B(v) == UNION {C(a.w) : a \in CallWithString(v, y)}
           A == UNION {B(v.w) : v \in E(w)}
<1>2. o \in Native(A)
  <2>1. \A v : setProp(v, y) = CallWithString(v, y)
    BY <1>1 DEF setProp
  <2>2. setViewModelAttached(w, y) = E(w)
    BY <1>1 DEF setViewModelAttached
  <2>3. \A v : bind(v, y) = B(v)
    BY <2>1 DEF bind, Next2, showLoading, hiddenLoading
  <2>4. Next2(setViewModelAttached(w, y), LAMBDA v : bind(v, y)) = A
    BY <2>2, <2>3 DEF Next2
  <2>5. QED
    BY <2>4 DEF nativeBind
<1> HIDE DEF y
<1>3. ASSUME NEW v \in World, Calm(v), NEW p \in E(v) PROVE Shown(v, p) /\ p.w \in World /\ Calm(p.w)
  BY <1>1, <1>3, CallViewForm, ShownCalm
<1>4. ASSUME NEW v \in World, Calm(v), NEW p \in CallWithString(v, y)
      PROVE  Shown(v, p) /\ p.w \in World /\ Calm(p.w)
  BY <1>1, <1>4, CallStringForm, ShownCalm
<1>5. ASSUME NEW v \in World, Calm(v), NEW p \in CallWithBytes(v, y)
      PROVE  Shown(v, p) /\ p.w \in World /\ Calm(p.w)
  BY <1>1, <1>5, CallBytesForm, ShownCalm
<1> HIDE DEF E
<1>6. ASSUME NEW v \in World, Calm(v), NEW p \in D(v) PROVE Shown(v, p)
  <2>1. PICK c \in CallWithBytes(v, y) : p \in E(c.w)
    BY <1>6
  <2>2. Shown(v, c) /\ c.w \in World /\ Calm(c.w)
    BY <1>5, <1>6
  <2>3. QED
    BY <1>3, <2>1, <2>2, ShownTrans
<1> HIDE DEF D
<1>7. ASSUME NEW v \in World, Calm(v), NEW p \in C(v) PROVE Shown(v, p)
  <2>1. PICK c \in CallWithString(v, y) : p \in D(c.w)
    BY <1>7
  <2>2. Shown(v, c) /\ c.w \in World /\ Calm(c.w)
    BY <1>4, <1>7
  <2>3. QED
    BY <1>6, <2>1, <2>2, ShownTrans
<1> HIDE DEF C
<1>8. ASSUME NEW v \in World, Calm(v), NEW p \in B(v) PROVE Shown(v, p)
  <2>1. PICK c \in CallWithString(v, y) : p \in C(c.w)
    BY <1>8
  <2>2. Shown(v, c) /\ c.w \in World /\ Calm(c.w)
    BY <1>4, <1>8
  <2>3. QED
    BY <1>7, <2>1, <2>2, ShownTrans
<1> HIDE DEF B
<1>9. ASSUME NEW p \in A PROVE Shown(w, p)
  <2>1. PICK c \in E(w) : p \in B(c.w)
    BY <1>9
  <2>2. Shown(w, c) /\ c.w \in World /\ Calm(c.w)
    BY <1>0, <1>3
  <2>3. QED
    BY <1>8, <2>1, <2>2, ShownTrans
<1> HIDE DEF A
<1>10. \A p \in A : Does(w, p, {"pending", "null"}, {"class"} \cup {"local"})
  BY <1>9 DEF Shown, Tidy, Does, Frame, ViewMisuse, ViewKeeps
<1>11. QED
  BY <1>0, <1>2, <1>10, NativeTidy

\* nativeUnBind leaves before it uses the view.
LEMMA NativeUnBindForm ==
  ASSUME NEW w, Idle(w), NEW x \in ViewModel, NEW o \in nativeUnBind(w, x)
  PROVE  Tidy(w, o.w, {}, {})
<1>0. w \in World /\ w.held["local"] = 0
  BY IdleCalm
<1>1. o \in Native(None(w))
  BY DEF nativeUnBind, setViewModelAttached, ViewModel
<1>2. \A p \in None(w) : Does(w, p, {}, {} \cup {"local"})
  BY <1>0, NoneForm DEF Does, Frame
<1>3. QED
  BY <1>0, <1>1, <1>2, NativeTidy

-----------------------------------------------------------------------------
(* The other native methods of the app                                       *)

\* A key is handed to the view model.
LEMMA HandleKeyForm ==
  ASSUME NEW w, Idle(w), NEW x, NEW o \in nativeHandleIntKey(w, x)
  PROVE  Tidy(w, o.w, {}, {})
<1>0. w \in World /\ Calm(w) /\ w.held["local"] = 0
  BY IdleCalm
<1> DEFINE A == UNION {Got(v.w) : v \in ConvertFromJava(w, TRUE) \cup ConvertFromJava(w, FALSE)}
<1>1. o \in Native(A)
  BY DEF nativeHandleIntKey, Next2, handle
<1>2. ASSUME NEW p \in A PROVE Does(w, p, {}, {} \cup {"local"})
  <2>1. PICK v \in ConvertFromJava(w, TRUE) \cup ConvertFromJava(w, FALSE) : p \in Got(v.w)
    OBVIOUS
  <2>2. Plain(w, v) /\ v.w \in World
    BY <1>0, <2>1, StringForm, PlainWorld
  <2>3. p \in Outcomes(BOOLEAN) /\ p.w = v.w
    BY <2>1, <2>2, GotForm
  <2>4. QED
    BY <2>2, <2>3 DEF Plain, Does, Frame
<1> HIDE DEF A
<1>3. QED
  BY <1>0, <1>1, <1>2, NativeTidy

\* The converter reads a buffer that is gone.
LEMMA StringToDoubleForm ==
  ASSUME NEW w, Idle(w), NEW o \in nativeStringToDouble(w)
  PROVE  Tidy(w, o.w, {"closed"}, {})
<1>0. w \in World /\ Calm(w) /\ w.held["local"] = 0
  BY IdleCalm
<1> DEFINE A == UNION {Got(Misuse(v.w, {"closed"})) : v \in ConvertFromJava(w, TRUE)}
<1>1. o \in Native(A)
  BY DEF nativeStringToDouble, Next2
<1>2. ASSUME NEW p \in A PROVE Does(w, p, {"closed"}, {} \cup {"local"})
  <2>1. PICK v \in ConvertFromJava(w, TRUE) : p \in Got(Misuse(v.w, {"closed"}))
    OBVIOUS
  <2>2. Plain(w, v) /\ v.w \in World
    BY <1>0, <2>1, StringForm, PlainWorld
  <2> DEFINE m == Misuse(v.w, {"closed"})
  <2>3. m \in World /\ m.bad = v.w.bad \cup {"closed"} /\ m.held = v.w.held
    BY <2>2, MisuseForm DEF Misuses
  <2> HIDE DEF m
  <2>4. p \in Outcomes(BOOLEAN) /\ p.w = m
    BY <2>1, <2>3, GotForm DEF m
  <2>5. QED
    BY <2>2, <2>3, <2>4 DEF Plain, Does, Frame
<1> HIDE DEF A
<1>3. QED
  BY <1>0, <1>1, <1>2, NativeTidy

\* getApplication deletes the class on both ways.
LEMMA ApplicationForm ==
  ASSUME NEW w, Idle(w), NEW o \in Native(getApplication(w)) \cup Native(getApplicationObject(w))
  PROVE  Tidy(w, o.w, {}, {})
<1>0. w \in World /\ Calm(w) /\ w.held["local"] = 0 /\ "local" \in Kinds
  BY IdleCalm, KindsForm
<1> DEFINE C(v) == UNION {IF j.r THEN JniCall(j.w) ELSE {j} : j \in Jni(v.w)}
           F(v) == IF ~v.r THEN None(v.w) ELSE {After(u, Give(u.w, "local")) : u \in C(v)}
           A == UNION {F(v) : v \in JniNew(w)}
<1>1. o \in Native(A)
  <2>1. getApplication(w) = A
    BY DEF getApplication, Then, Finally, IfGot
  <2>2. getApplicationObject(w) = A
    BY DEF getApplicationObject, Then, Finally, IfGot
  <2>3. QED
    BY <2>1, <2>2
<1>2. ASSUME NEW p \in A PROVE Does(w, p, {}, {} \cup {"local"})
  <2>1. PICK v \in JniNew(w) : p \in F(v)
    OBVIOUS
  <2>2. /\ v.w \in World /\ v.w.bad = w.bad /\ (v.r => ~v.w.exc) /\ v.r \in BOOLEAN
        /\ v.w.held["local"] = w.held["local"] + (IF v.r THEN 1 ELSE 0)
        /\ \A j \in Kinds : j # "local" => v.w.held[j] = w.held[j]
    BY <1>0, GetIsCall, JniCallForm DEF Outcomes
  <2>3. CASE ~v.r
    <3>1. p \in None(v.w)
      BY <2>1, <2>3
    <3>2. p \in Outcomes(BOOLEAN) /\ p.w = v.w
      BY <2>2, <3>1, NoneForm
    <3>3. QED
      BY <2>2, <3>2 DEF Does, Frame
  <2>4. CASE v.r
    <3>1. PICK u \in C(v) : p = After(u, Give(u.w, "local"))
      BY <2>1, <2>4
    <3>2. PICK j \in Jni(v.w) : u \in IF j.r THEN JniCall(j.w) ELSE {j}
      BY <3>1
    <3>3. Calm(v.w)
      BY <1>0, <2>2, <2>4, KindsForm DEF Calm
    <3>4. /\ j \in Outcomes(BOOLEAN) /\ j.w \in World /\ j.w.bad = v.w.bad /\ j.w.held = v.w.held
          /\ (j.r <=> ~j.w.exc)
      BY <2>2, <3>3, JniForm DEF Outcomes
    <3>5. /\ u \in Outcomes(BOOLEAN) /\ u.w \in World /\ u.w.bad = v.w.bad /\ u.w.held["local"] > 0
          /\ \A k \in Kinds : k # "local" => u.w.held[k] = v.w.held[k]
      <4>1. CASE ~j.r
        BY <1>0, <2>2, <2>4, <3>2, <3>4, <4>1
      <4>2. CASE j.r
        <5>1. Calm(j.w) /\ u \in JniCall(j.w)
          BY <3>2, <3>3, <3>4, <4>2 DEF Calm
        <5>2. /\ u \in Outcomes(BOOLEAN) /\ u.w \in World /\ u.w.bad = j.w.bad /\ u.r \in BOOLEAN
              /\ u.w.held["local"] = j.w.held["local"] + (IF u.r THEN 1 ELSE 0)
              /\ \A k \in Kinds : k # "local" => u.w.held[k] = j.w.held[k]
          BY <3>4, <5>1, JniCallForm DEF Outcomes
        <5>3. u.w.held["local"] > 0
          BY <1>0, <2>2, <2>4, <3>4, <5>2
        <5>4. QED
          BY <3>4, <5>2, <5>3
      <4>3. QED
        BY <4>1, <4>2
    <3> DEFINE g == Give(u.w, "local")
    <3>6. /\ g \in World /\ g.bad = u.w.bad
          /\ \A k \in Kinds : k # "local" => g.held[k] = u.w.held[k]
      BY <1>0, <3>5, GiveForm
    <3> HIDE DEF g, C, F, A
    <3>7. p \in Outcomes(BOOLEAN) /\ p.w = g
      BY <3>1, <3>5, <3>6, OutcomeForm DEF g
    <3>8. QED
      BY <2>2, <3>5, <3>6, <3>7 DEF Does, Frame
  <2>5. QED
    BY <2>2, <2>3, <2>4
<1> HIDE DEF A
<1>3. QED
  BY <1>0, <1>1, <1>2, NativeTidy

-----------------------------------------------------------------------------
(* Loading the library                                                       *)

\* JNI_OnLoad: the references initJNI does not delete go with its return.
LEMMA OnLoadForm ==
  ASSUME NEW w, Idle(w), NEW b, NEW o \in JNI_OnLoad(w, b)
  PROVE  Tidy(w, o.w, {}, {})
<1>0. w \in World /\ Calm(w) /\ w.held["local"] = 0 /\ "local" \in Kinds /\ "crit" \in Kinds
  BY IdleCalm, KindsForm
<1>1. CASE o \in Got(w)
  BY <1>0, <1>1, GotForm DEF Tidy, Frame, Calm
<1>2. CASE o \in Native(initJNI(w))
  <2> DEFINE S == initJNI(w)
             Z(c) == Got(Give(GiveIf([c.w EXCEPT !.loader = c.r], "local", c.r), "local"))
             Y(y) == UNION {IF c.w.exc THEN None(Clear(c.w)) ELSE Z(c) : c \in JniCall(y.w)}
             X(x) == UNION {IF y.w.exc THEN None(Clear(y.w)) ELSE Y(y) : y \in Jni(x.w)}
  <2>1. ASSUME NEW v \in World, Frame(w, v, {}, {"local"}), NEW p \in None(Clear(v))
        PROVE  Does(w, p, {}, {"local"})
    <3>1. Clear(v) \in World /\ Clear(v).bad = v.bad /\ Clear(v).held = v.held
      BY ClearForm
    <3>2. p \in Outcomes(BOOLEAN) /\ p.w = Clear(v)
      BY <3>1, NoneForm
    <3>3. QED
      BY <2>1, <3>1, <3>2 DEF Does, Frame
  <2>2. ASSUME NEW p \in S PROVE Does(w, p, {}, {} \cup {"local"})
    <3>1. PICK x \in JniNew(w) : p \in IF x.w.exc THEN None(Clear(x.w)) ELSE X(x)
      BY DEF initJNI, Then
    <3>2. /\ x.w \in World /\ x.w.bad = w.bad /\ x.r \in BOOLEAN /\ (x.r <=> ~x.w.exc)
          /\ x.w.held["local"] = w.held["local"] + (IF x.r THEN 1 ELSE 0)
          /\ \A j \in Kinds : j # "local" => x.w.held[j] = w.held[j]
      BY <1>0, GetIsCall, JniCallForm DEF Outcomes
    <3>3. Frame(w, x.w, {}, {"local"})
      BY <3>2 DEF Frame
    <3>4. CASE x.w.exc
      BY <2>1, <3>1, <3>2, <3>3, <3>4
    <3>5. CASE ~x.w.exc
      <4>1. PICK y \in Jni(x.w) : p \in IF y.w.exc THEN None(Clear(y.w)) ELSE Y(y)
        BY <3>1, <3>5
      <4>2. Calm(x.w) /\ x.w.held["local"] = 1
        BY <1>0, <3>2, <3>5 DEF Calm
      <4>3. y.w \in World /\ y.w.bad = x.w.bad /\ y.w.held = x.w.held
        BY <3>2, <4>2, JniForm DEF Outcomes
      <4>4. Frame(w, y.w, {}, {"local"})
        BY <3>3, <4>3 DEF Frame
      <4>5. CASE y.w.exc
        BY <2>1, <4>1, <4>3, <4>4, <4>5
      <4>6. CASE ~y.w.exc
        <5>1. PICK c \in JniCall(y.w) : p \in IF c.w.exc THEN None(Clear(c.w)) ELSE Z(c)
          BY <4>1, <4>6
        <5>2. Calm(y.w)
          BY <4>2, <4>3, <4>6 DEF Calm
        <5>3. /\ c.w \in World /\ c.w.bad = y.w.bad /\ c.r \in BOOLEAN
              /\ c.w.held["local"] = y.w.held["local"] + (IF c.r THEN 1 ELSE 0)
              /\ \A j \in Kinds : j # "local" => c.w.held[j] = y.w.held[j]
          BY <4>3, <5>2, JniCallForm DEF Outcomes
        <5>4. Frame(w, c.w, {}, {"local"})
          BY <4>4, <5>3 DEF Frame
        <5>5. CASE c.w.exc
          BY <2>1, <5>1, <5>3, <5>4, <5>5
        <5>6. CASE ~c.w.exc
          <6> DEFINE l == [c.w EXCEPT !.loader = c.r]
                     g == GiveIf(l, "local", c.r)
                     h == Give(g, "local")
          <6>1. l \in World /\ l.bad = c.w.bad /\ l.held = c.w.held
            BY <5>3 DEF World
          <6>2. p \in Got(h)
            BY <5>1, <5>6
          <6> HIDE DEF l, S, X, Y, Z
          <6>3. c.r => l.held["local"] > 0
            BY <4>2, <4>3, <5>3, <6>1
          <6>4. /\ g \in World /\ g.bad = l.bad
                /\ g.held["local"] = l.held["local"] - (IF c.r THEN 1 ELSE 0)
                /\ \A j \in Kinds : j # "local" => g.held[j] = l.held[j]
            <7>1. l \in World /\ c.r \in BOOLEAN /\ "local" \in Kinds
              BY <1>0, <5>3, <6>1
            <7>2. QED
              BY <6>3, <7>1, GiveIfForm
          <6> HIDE DEF g
          <6>5. g.held["local"] > 0
            BY <4>2, <4>3, <5>3, <6>1, <6>4
          <6>6. /\ h \in World /\ h.bad = g.bad
                /\ \A j \in Kinds : j # "local" => h.held[j] = g.held[j]
            BY <1>0, <6>4, <6>5, GiveForm
          <6> HIDE DEF h
          <6>7. p \in Outcomes(BOOLEAN) /\ p.w = h
            BY <6>2, <6>6, GotForm
          <6>8. QED
            BY <5>4, <6>1, <6>4, <6>6, <6>7 DEF Does, Frame
        <5>7. QED
          BY <5>3, <5>5, <5>6
      <4>7. QED
        BY <4>5, <4>6
    <3>6. QED
      BY <3>4, <3>5
  <2> HIDE DEF S, X, Y, Z
  <2>3. o \in Native(S)
    BY <1>2 DEF S
  <2>4. QED
    BY <1>0, <2>2, <2>3, NativeTidy
<1>3. QED
  BY <1>1, <1>2 DEF JNI_OnLoad
=============================================================================
