-------------------------------- MODULE QJni --------------------------------
(* QJniEnvironment, QJniObject and QtAndroidPrivate (qjnienvironment.cpp,    *)
(* qjnihelpers.cpp, qjniobject.cpp, qjniobject.h).                           *)
(*                                                                           *)
(* A QJniObject is its QJniObjectPrivate: whether it has a global reference  *)
(* to an object, one to a class, and whether it owns the latter.  Names,     *)
(* signatures and the values of fields are left out; a jclass or jmethodID   *)
(* argument is whether it is null.                                           *)
EXTENDS NativeWorld

QPrivates == [obj : BOOLEAN, cls : BOOLEAN, own : BOOLEAN]
NoQ == [obj |-> FALSE, cls |-> FALSE, own |-> TRUE]
FullQ == [obj |-> TRUE, cls |-> TRUE, own |-> TRUE]

-----------------------------------------------------------------------------
(* QJniEnvironment                                                           *)

\* The constructor attaches a thread that is not attached.
Attach(w) == IF w.attached = "no" THEN [w EXCEPT !.attached = "qt"] ELSE w

\* { QJniEnvironment env; F }: the destructor drops a pending exception.
checkAndClearExceptions(w) == Clear(w)
WithEnv(w, F(_)) == Finally(F(Attach(w)), checkAndClearExceptions)

\* The result is null when an exception is pending, a stale one included.
getMethodID(w) == Then(Jni(w), LAMBDA v, id : Res(Clear(v), id /\ ~v.exc))
getFieldID(w) == Then(Jni(w), LAMBDA v, id : Res(Clear(v), id /\ ~v.exc))

findMethod(w, clazz) == IF clazz THEN getMethodID(w) ELSE None(w)
findStaticMethod(w, clazz) == IF clazz THEN getMethodID(w) ELSE None(w)
findField(w, clazz) == IF clazz THEN getFieldID(w) ELSE None(w)
findStaticField(w, clazz) == IF clazz THEN getFieldID(w) ELSE None(w)

registerNatives(w, clazz) == Finally(Jni(On(w, clazz)), Clear)

-----------------------------------------------------------------------------
(* QJniObject: the references it holds                                       *)

\* Mutant: the class is never given back.
DestroyPrivateKeepsClass(w, q) == Clear(GiveIf(Attach(w), "global", q.obj))

\* ~QJniObjectPrivate
DestroyPrivate(w, q) ==
    Clear(GiveIf(GiveIf(Attach(w), "global", q.obj), "global", q.cls /\ q.own))

\* QJniObject(jobject): global references to the object and to its class.
FromObject(w, nonnull) ==
    IF ~nonnull THEN Res(w, NoQ)
    ELSE Res(Clear(NewRef(NewRef(Attach(w), "global"), "global")), FullQ)

\* From a local reference to a value that can be used, which may throw.
getCleanJniObject(w, nonnull) ==
    IF ~nonnull THEN Res(w, NoQ)
    ELSE WithEnv(w, LAMBDA v :
            IF v.exc THEN Res(Give(Clear(v), "local"), NoQ)
            ELSE Finally(FromObject(v, TRUE), LAMBDA u : Give(u, "local")))

\* QJniObject obj(res); env->DeleteLocalRef(res)
fromLocalRef(w, nonnull) ==
    Finally(FromObject(w, nonnull), LAMBDA v : GiveIf(Clear(v), "local", nonnull))

fromString(w) == WithEnv(w, LAMBDA v : Then(JniNew(v), fromLocalRef))

callObjectMethod(w, q) ==
    WithEnv(w, LAMBDA v :
        Then(getMethodID(On(v, q.cls)), LAMBDA u, id :
            IF id THEN Then(JniCall(On(u, q.obj)), getCleanJniObject)
            ELSE Res(u, NoQ)))

\* The same with the exception handled on the spot.
callObjectMethodV(w, q) ==
    WithEnv(w, LAMBDA v :
        Then(getMethodID(On(v, q.cls)), LAMBDA u, id :
            IF id THEN Then(JniCall(On(u, q.obj)), LAMBDA t, res :
                                fromLocalRef(Clear(t), res))
            ELSE Res(u, NoQ)))

\* A global reference is made of the class that was found, if one was, and the
\* three QJniObjects of loadClass are dropped.
keepClass(w, classObject, stringName, classLoader) ==
    LET got == ~w.exc /\ classObject.obj
        v == IF got THEN NewRef(w, "class") ELSE Clear(w)
    IN  Res(DestroyPrivate(DestroyPrivate(DestroyPrivate(v,
                classObject), stringName), classLoader), got)

\* The class loader is asked for the class by name.
loadClass(w) ==
    IF ~w.loader THEN None(w)
    ELSE Then(FromObject(w, TRUE), LAMBDA a, classLoader :
         Then(fromString(a), LAMBDA b, stringName :
         Then(callObjectMethod(b, classLoader), LAMBDA c, classObject :
            keepClass(c, classObject, stringName, classLoader))))

\* Mutant: the exception of FindClass is not cleared.
findClassUnchecked(w) ==
    Then(JniNew(w), LAMBDA v, fclazz :
        IF fclazz THEN Got(Give(NewRef(v, "class"), "local"))
        ELSE WithEnv(v, loadClass))

\* QtAndroidPrivate::findClass: FindClass, then the class loader.
findClass(w) ==
    Then(JniNew(w), LAMBDA v, fclazz :
        IF ~v.exc THEN Got(Give(NewRef(v, "class"), "local"))
        ELSE WithEnv(Clear(v), loadClass))

isClassAvailable(w) == WithEnv(w, loadClass)

registerNativeMethods(w) ==
    IfGot(findClass(w), LAMBDA v : registerNatives(v, TRUE))

-----------------------------------------------------------------------------
(* QJniObject: construction                                                  *)

\* The constructor of the Java class is looked up and called; q holds the class.
NewObject(w, q) ==
    Then(getMethodID(w), LAMBDA v, constructorId :
        IF ~constructorId THEN Res(v, q)
        ELSE Then(JniNew(v), LAMBDA u, obj :
                IF obj THEN Res(Give(NewRef(u, "global"), "local"),
                                [q EXCEPT !.obj = TRUE])
                ELSE Res(u, q)))

\* QJniObject(className), with a signature or without: the class reference made
\* by loadClass is kept but not owned.
ConstructByName(w) ==
    WithEnv(w, LAMBDA v :
        Then(loadClass(v), LAMBDA u, clazz :
            LET q == [NoQ EXCEPT !.cls = clazz, !.own = FALSE]
            IN  IF clazz THEN NewObject(u, q) ELSE Res(u, q)))

\* QJniObject(clazz), with a signature or without.
ConstructByClass(w, clazz) ==
    WithEnv(w, LAMBDA v :
        IF clazz THEN NewObject(NewRef(v, "global"), [NoQ EXCEPT !.cls = TRUE])
        ELSE Res(v, NoQ))

\* isSameObject: null is the same as null only.
isSameObject(w, q, nonnull) ==
    {[w |-> Clear(Use(Attach(w))), r |-> s] :
        s \in {s \in BOOLEAN : (q.obj # nonnull => ~s) /\
                               (~q.obj /\ ~nonnull => s)}}

\* qt_convertJString: the characters are copied and never released.
qt_convertJString(w, nonnull) ==
    WithEnv(w, LAMBDA v : Then(Pin(On(v, nonnull), "chars"), LAMBDA u, chars :
                              Got(On(u, chars))))

\* toString of a QJniObject; the string is dropped at the end.
toString(w, q) ==
    IF ~q.obj THEN None(w)
    ELSE Then(callObjectMethod(w, q), LAMBDA v, s :
            Finally(qt_convertJString(v, s.obj), LAMBDA u : DestroyPrivate(u, s)))

-----------------------------------------------------------------------------
(* QJniObject: methods and fields.  The ...ForType operators stand for the   *)
(* choice of the JNI function by the type of the value.                      *)

callMethodForType(w) == Jni(w)
callStaticMethodForType(w) == Jni(w)
getFieldForType(w) == Got(Use(w))
getStaticFieldForType(w) == Got(Use(w))
setFieldForType(w) == Got(Use(w))
setStaticFieldForType(w) == Got(Use(w))

callMethod(w, q) ==
    WithEnv(w, LAMBDA v : IfGot(getMethodID(On(v, q.cls)), LAMBDA u :
                              callMethodForType(On(u, q.obj))))

\* The classes in the static functions come by name, or as a reference.
callStaticMethodByName(w) ==
    WithEnv(w, LAMBDA v : IfGot(loadClass(v), LAMBDA u :
                          IfGot(getMethodID(u), callStaticMethodForType)))
callStaticMethod(w, clazz) ==
    WithEnv(w, LAMBDA v : IF clazz THEN IfGot(getMethodID(v), callStaticMethodForType)
                          ELSE None(v))
callStaticMethodById(w, clazz, id) ==
    WithEnv(w, LAMBDA v : IF clazz /\ id THEN callStaticMethodForType(v) ELSE None(v))

callStaticObjectMethodByName(w) ==
    WithEnv(w, LAMBDA v : Then(loadClass(v), LAMBDA u, clazz :
        IF ~clazz THEN Res(u, NoQ)
        ELSE Then(getMethodID(u), LAMBDA t, id :
                IF id THEN Then(JniCall(t), getCleanJniObject) ELSE Res(t, NoQ))))
callStaticObjectMethodVByName(w) ==
    WithEnv(w, LAMBDA v : Then(loadClass(v), LAMBDA u, clazz :
        IF ~clazz THEN Res(u, NoQ)
        ELSE Then(getMethodID(u), LAMBDA t, id :
                IF id THEN Then(JniCall(t), LAMBDA s, res : fromLocalRef(Clear(s), res))
                ELSE Res(t, NoQ))))
callStaticObjectMethod(w, clazz) ==
    WithEnv(w, LAMBDA v :
        IF ~clazz THEN Res(v, NoQ)
        ELSE Then(getMethodID(v), LAMBDA t, id :
                IF id THEN Then(JniCall(t), getCleanJniObject) ELSE Res(t, NoQ)))
callStaticObjectMethodV(w, clazz) ==
    WithEnv(w, LAMBDA v : Then(getMethodID(On(v, clazz)), LAMBDA t, id :
        IF id THEN Then(JniCall(t), getCleanJniObject) ELSE Res(t, NoQ)))
callStaticObjectMethodById(w, clazz, id) ==
    WithEnv(w, LAMBDA v : IF clazz /\ id THEN Then(JniCall(v), getCleanJniObject)
                          ELSE Res(v, NoQ))

getField(w, q) ==
    WithEnv(w, LAMBDA v : IfGot(getFieldID(On(v, q.cls)), LAMBDA u :
                              getFieldForType(On(u, q.obj))))
setField(w, q) ==
    WithEnv(w, LAMBDA v : IfGot(getFieldID(On(v, q.cls)), LAMBDA u :
                              setFieldForType(On(u, q.obj))))
getStaticFieldByName(w) ==
    WithEnv(w, LAMBDA v : IfGot(loadClass(v), LAMBDA u :
                          IfGot(getFieldID(u), getStaticFieldForType)))
getStaticField(w, clazz) ==
    WithEnv(w, LAMBDA v : IfGot(getFieldID(On(v, clazz)), getStaticFieldForType))
setStaticFieldByName(w) ==
    WithEnv(w, LAMBDA v : IfGot(loadClass(v), LAMBDA u :
                          IfGot(getFieldID(u), setStaticFieldForType)))
setStaticField(w, clazz) ==
    WithEnv(w, LAMBDA v : IfGot(getFieldID(On(v, clazz)), setStaticFieldForType))

getObjectField(w, q) ==
    WithEnv(w, LAMBDA v : Then(getFieldID(On(v, q.cls)), LAMBDA u, id :
        IF id THEN Then(JniGet(On(u, q.obj)), getCleanJniObject) ELSE Res(u, NoQ)))
getStaticObjectFieldByName(w) ==
    WithEnv(w, LAMBDA v : Then(loadClass(v), LAMBDA u, clazz :
        IF ~clazz THEN Res(u, NoQ)
        ELSE Then(getFieldID(u), LAMBDA t, id :
                IF id THEN Then(JniGet(t), getCleanJniObject) ELSE Res(t, NoQ))))
getStaticObjectField(w, clazz) ==
    WithEnv(w, LAMBDA v : Then(getFieldID(On(v, clazz)), LAMBDA t, id :
        IF id THEN Then(JniGet(t), getCleanJniObject) ELSE Res(t, NoQ)))

-----------------------------------------------------------------------------
(* QtAndroidPrivate                                                          *)

\* initJNI: the class loader of the activity is kept in a global reference.  The
\* local reference to QtNative is deleted on the way that succeeds only.
initJNI(w) ==
    Then(JniNew(w), LAMBDA a, jQtNative :
        IF a.exc THEN None(Clear(a))
        ELSE Then(Jni(a), LAMBDA b, id :
            IF b.exc THEN None(Clear(b))
            ELSE Then(JniCall(b), LAMBDA c, classLoader :
                IF c.exc THEN None(Clear(c))
                ELSE Got(Give(GiveIf([c EXCEPT !.loader = classLoader], "local",
                                     classLoader), "local")))))

\* JNI_OnLoad: initialized is set before it is known whether initJNI succeeds,
\* so a second call reports success.
JNI_OnLoad(w, initialized) == IF initialized THEN Got(w) ELSE Native(initJNI(w))

androidSdkVersion(w, known) == IF known THEN Got(w) ELSE getStaticFieldByName(w)
=============================================================================
