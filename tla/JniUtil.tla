------------------------------ MODULE JniUtil -------------------------------
(* android/jni_util.cc, android/scoped_java_ref.cc and                       *)
(* android/jni_weak_ref.cc: attaching threads, conversions between Java and  *)
(* C++ containers, and the scoped references.                                *)
EXTENDS NativeWorld

\* AttachCurrentThread; the thread-local JNIDetach detaches at thread exit.
AttachCurrentThread(w) ==
    IF w.attached = "no" THEN [w EXCEPT !.attached = "fml"] ELSE w
DetachFromVM(w) == [w EXCEPT !.attached = "no"]

\* The ScopedJavaLocalRefs made in F are dropped at its end.
ScopedLocals(w, F(_)) ==
    Finally(F(w), LAMBDA v : [v EXCEPT !.held["local"] = w.held["local"]])

JavaStringToString(w, str) ==
    IF ~str THEN None(w)
    ELSE IfGot(Pin(w, "chars"), LAMBDA v : NoException(Got(Give(Use(v), "chars"))))

\* The result is a local reference of the caller.
StringToJavaString(w) == NoException(JniNew(w))

StringArrayToVector(w, array) ==
    IF ~array THEN None(w)
    ELSE Loop(Use(w), LAMBDA v :
            Then(JniGet(v), LAMBDA u, s :
                Finally(JavaStringToString(u, s), LAMBDA t : GiveIf(t, "local", s))))

\* Neither the two methods that are looked up nor the calls of them are checked.
StringListToVector(w, list) ==
    IF ~list THEN None(w)
    ELSE ScopedLocals(w, LAMBDA v :
            Next2(NotNull(JniNew(v)), LAMBDA u :
            Then(Jni(u), LAMBDA t, list_get :
            Then(Jni(t), LAMBDA s, list_size :
            Next2(Jni(On(s, list_size)), LAMBDA r :
                Loop(r, LAMBDA q : Then(JniCall(On(q, list_get)), JavaStringToString)))))))

\* The class is dropped here, the array that is returned by the caller.
VectorToStringArray(w) ==
    Next2(NotNull(JniNew(w)), LAMBDA u :
    Next2(NoException(JniNew(u)), LAMBDA v :
        Finally(Loop(v, LAMBDA t : Next2(StringToJavaString(t), LAMBDA s :
                                       Got(Give(Use(s), "local")))),
                LAMBDA s : Give(Give(s, "local"), "local"))))

\* NewDirectByteBuffer is not checked.
VectorToBufferArray(w) ==
    Next2(NotNull(JniNew(w)), LAMBDA u :
    Next2(NoException(JniNew(u)), LAMBDA v :
        Finally(Loop(v, LAMBDA t : Then(JniNew(t), LAMBDA s, item :
                                       Got(GiveIf(Use(s), "local", item)))),
                LAMBDA s : Give(Give(s, "local"), "local"))))

ClearException(w) == Res(Clear(w), w.exc)

\* The classes, methods and objects that print a stack trace.  Whatever is null is
\* passed on, but for the PrintStream: it is an argument of printStackTrace only.
LookupPrinter(w) ==
    Got(w) ++ "new" ++ "id" ++ "new" ++ "id" ++ "id" ++ "new" ++ "new" ++ "id" ++ "new"

\* The stack trace is printed and read without a look at what fails.
GetJavaExceptionInfo(w) ==
    ScopedLocals(w, LAMBDA v :
        Then(Next2(Next2(LookupPrinter(v), Jni), JniCall), LAMBDA u, exception_string :
            IF u.exc THEN Got(Clear(u))
            ELSE JavaStringToString(u, exception_string)))

CheckException(w) ==
    IF ~w.exc THEN Got(w)
    ELSE Finally(GetJavaExceptionInfo(Take(Clear(w), "local")),
                 LAMBDA v : Give(v, "local"))

-----------------------------------------------------------------------------
(* Scoped references.  A reference is whether it is null.                    *)

NewRefOf(w, k, obj) == IF obj THEN NewRef(w, k) ELSE w

\* SetNewLocalRef: the new reference is made before the old one is deleted.
SetNewLocalRef(w, old, obj) ==
    Res(GiveIf(NewRefOf(AttachCurrentThread(w), "local", obj), "local", old), obj)

SetNewGlobalRef(w, old, obj) ==
    Res(GiveIf(NewRefOf(AttachCurrentThread(w), "global", obj), "global", old), obj)

ResetLocalRef(w, old) == None(GiveIf(w, "local", old))
ResetGlobalRef(w, old) ==
    None(IF old THEN Give(AttachCurrentThread(w), "global") ELSE w)

\* Release hands the reference to the caller, who deletes it.
ReleaseInternal(w, old) == None(w)

\* A ScopedJavaLocalRef is made, copied and assigned to, and both are dropped.
LocalRefLifetime(w) ==
    Then(JniGet(w), LAMBDA u, a :
    Then(SetNewLocalRef(u, FALSE, a), LAMBDA v, b :
    Then(SetNewLocalRef(v, b, a), LAMBDA t, c :
    Then(ResetLocalRef(t, c), LAMBDA s, d : ResetLocalRef(s, a)))))

\* ScopedJavaLocalFrame: the references made in it go with it.
LocalFrame(w, F(_)) == ScopedLocals(w, F)

\* NewWeakGlobalRef of an object, or of a weak reference whose object may be gone.
NewWeakRef(w, obj, gone) == Res(NewRefOf(w, "weak", obj /\ ~gone), obj /\ ~gone)

\* Assign to another one: the old reference is deleted first.
WeakAssign(w, old, other, gone) ==
    NewWeakRef(GiveIf(AttachCurrentThread(w), "weak", old), other, gone)
WeakReset(w, old) == None(IF old THEN Give(AttachCurrentThread(w), "weak") ELSE w)

\* get: a local reference, dropped by the caller, or null if the object is gone.
GetRealObject(w, ref, gone) ==
    IF ref /\ ~gone THEN Finally(Got(NewRef(w, "local")), LAMBDA v : Give(v, "local"))
    ELSE None(IF ref THEN Use(w) ELSE w)
=============================================================================
