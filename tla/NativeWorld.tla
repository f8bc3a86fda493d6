---------------------------- MODULE NativeWorld -----------------------------
(* What native code sees of the Java virtual machine and of the operating    *)
(* system, as far as the C++ code relies on it: JNI references, pending      *)
(* exceptions, critical regions, streams, descriptors, loaded libraries and  *)
(* heap blocks.  Nothing here is code of the repository.                     *)
(*                                                                           *)
(* A C++ function is an operator from a world to the set of its outcomes: an *)
(* outcome is the world at the return and the result, which for most         *)
(* functions only tells a null (FALSE) from anything else (TRUE).  Every     *)
(* call into the machine that may fail has an outcome for it.                *)
EXTENDS Naturals, FiniteSets

\* Kinds of things that must be given back.  "class" counts the global
\* references to classes that were looked up by name.
Refs == {"global", "class", "weak"}
Transient == {"local", "chars", "crit", "file", "fd", "dl", "heap"}
Kinds == Refs \cup Transient

\* What JNI and the C library forbid: a JNI call with an exception pending or
\* inside a critical region, a null argument, giving back what is not held.
Misuses == {"pending", "critical", "null", "closed"}

\* Is an exception pending; what is held; which rules were broken; who attached
\* the thread ("java" is a thread of the machine's own); is there a class loader
\* (qjnihelpers.cpp); did a scan find a device number (magisk_detector.cpp)?
World == [exc : BOOLEAN, held : [Kinds -> Nat], bad : SUBSET Misuses,
          attached : {"no", "java", "qt", "fml"}, loader : BOOLEAN, mount : BOOLEAN]

NewWorld(attached) ==
    [exc |-> FALSE, held |-> [k \in Kinds |-> 0], bad |-> {},
     attached |-> attached, loader |-> FALSE, mount |-> FALSE]

-----------------------------------------------------------------------------
(* Outcomes and their composition                                            *)

Res(w, r) == {[w |-> w, r |-> r]}
Got(w) == Res(w, TRUE)
None(w) == Res(w, FALSE)

\* S; then F, which is given the result of S.
Then(S, F(_, _)) == UNION {F(o.w, o.r) : o \in S}

\* S; return if its result is null; F.
IfGot(S, F(_)) == UNION {IF o.r THEN F(o.w) ELSE {o} : o \in S}

\* S; F, whatever the result of S.
Next2(S, F(_)) == UNION {F(o.w) : o \in S}

\* S; then the clean-up G, on every path.
After(o, w) == [o EXCEPT !.w = w]
Finally(S, G(_)) == {After(o, G(o.w)) : o \in S}

-----------------------------------------------------------------------------
(* The primitives                                                            *)

Misuse(w, M) == [w EXCEPT !.bad = @ \cup M]
On(w, nonnull) == IF nonnull THEN w ELSE Misuse(w, {"null"})
Use(w) == Misuse(w, (IF w.exc THEN {"pending"} ELSE {}) \cup
                    (IF w.held["crit"] > 0 THEN {"critical"} ELSE {}))

Take(w, k) == [w EXCEPT !.held[k] = @ + 1]
Give(w, k) == IF w.held[k] > 0 THEN [w EXCEPT !.held[k] = @ - 1]
              ELSE Misuse(w, {"closed"})
GiveIf(w, k, had) == IF had THEN Give(w, k) ELSE w

Throw(w) == [w EXCEPT !.exc = TRUE]
Clear(w) == [w EXCEPT !.exc = FALSE]

\* A call that may throw and returns no reference: Get...ID, Call<Type>Method.
Jni(w) == Got(Use(w)) \cup None(Throw(Use(w)))
\* A call that creates an object or throws: New..., FindClass.
JniNew(w) == Got(Take(Use(w), "local")) \cup None(Throw(Use(w)))
\* A read of a reference, which may be null.
JniGet(w) == Got(Take(Use(w), "local")) \cup None(Use(w))
\* A call of a method that returns a reference.
JniCall(w) == JniNew(w) \cup None(Use(w))
\* NewGlobalRef of something that is not null, and its like: the machine ends
\* the process rather than fail.
NewRef(w, k) == Take(Use(w), k)

\* fopen, popen, open, dlopen; GetStringUTFChars and its like;
\* GetPrimitiveArrayCritical, which may be nested.
Open(w, k) == Got(Take(w, k)) \cup None(w)
Pin(w, k) == Open(Use(w), k)
PinCritical(w) == Open(Misuse(w, IF w.exc THEN {"pending"} ELSE {}), "crit")

\* Straight-line code: S, then a call into the machine named by what it may do.  A
\* null result of S is passed on by S ++ op, to that call or to a later one of the
\* same code, and is returned by S ** op.
Op(op, w) ==
    CASE op = "new"  -> JniNew(w)
      [] op = "get"  -> JniGet(w)
      [] op = "call" -> JniCall(w)
      [] op = "id"   -> Jni(w)
      [] op = "read" -> Got(Use(w))
S ++ op == Then(S, LAMBDA v, got : Op(op, On(v, got)))
S ** op == IfGot(S, LAMBDA v : Op(op, v))

\* A loop around F, taken at most twice: more adds nothing to what is told apart.
Loop(w, F(_)) == Got(w) \cup F(w) \cup Next2(F(w), F)

\* ASSERT_NO_EXCEPTION and the DCHECKs end the process: no outcome is left.
NoException(S) == {o \in S : ~o.w.exc}
NotNull(S) == {o \in S : o.r}

\* A native method that Java called returns: its local references are deleted
\* and a pending exception is thrown in the caller.
Native(S) == Finally(S, LAMBDA w : [w EXCEPT !.exc = FALSE, !.held["local"] = 0])
=============================================================================
