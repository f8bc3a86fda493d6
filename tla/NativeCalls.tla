---------------------------- MODULE NativeCalls -----------------------------
(* A thread that makes one native call after another: the native methods     *)
(* Java calls and the functions C++ code calls, on objects that live from    *)
(* call to call.  A behaviour is about one family of objects: QJniObjects,   *)
(* which share their private parts, scoped global references, weak global    *)
(* references, a native view model, or none.                                 *)
(*                                                                           *)
(* A step is a whole call.  It is followed by a step that closes the         *)
(* accounts of the call: what it should have given back is counted per call. *)
EXTENDS ViewModels, JniUtil, Snappy, Probes

CONSTANTS
    Handles,        \* variables of the type of the family
    MaxClassRefs    \* bound on the class references that by-name calls leave

ASSUME HandlesAssumption == IsFiniteSet(Handles) /\ MaxClassRefs \in Nat

VARIABLES
    family,         \* what the behaviour is about
    world,
    last,           \* the call that was made, or NoCall
    d,              \* QJniObject::d, an index of priv, or NoId
    priv,           \* the QJniObjectPrivates
    ref,            \* the scoped or weak references: none (no object), null, or set
    gone,           \* has the object of the weak references been collected?
    vm,             \* the native view model
    initialized     \* JNI_OnLoad was called

objects == <<d, priv, ref, gone, vm, initialized>>
nativeVars == <<family, world, last, objects>>

Families == {"functions", "qjni", "scoped", "weak", "viewmodel"}
NoCall == "idle"
NoId == 0
Ids == 1 .. Cardinality(Handles)
NoViewModel == [bind_java_view_model |-> "none"]

\* A Java thread that is about to load the library, or a thread of native code
\* in a process that has loaded it, with a class loader or without.
NativeInit ==
    /\ family \in Families
    /\ \/ world = NewWorld("java") /\ initialized = FALSE
       \/ /\ \E loader \in BOOLEAN :
                world = [NewWorld("no") EXCEPT !.loader = loader]
          /\ initialized = TRUE
    /\ last = NoCall
    /\ d = [h \in Handles |-> NoId]
    /\ priv = [i \in Ids |-> NoQ]
    /\ ref = [h \in Handles |-> "none"]
    /\ gone = FALSE
    /\ vm = NoViewModel

\* The accounts of the last call are closed.
Return ==
    /\ last # NoCall
    /\ world' = [world EXCEPT !.exc = FALSE, !.bad = {},
                    !.held = [k \in Kinds |-> IF k \in Transient THEN 0 ELSE @[k]],
                    !.attached = IF last = "ThreadExit" THEN "no" ELSE @]
    /\ last' = NoCall
    /\ UNCHANGED <<family, objects>>

\* A call of f ends in one of the outcomes in S.
Ends(f, o) ==
    /\ last = NoCall
    /\ o.w.held["class"] <= MaxClassRefs
    /\ world' = o.w
    /\ last' = f
    /\ UNCHANGED family
Run(f, S) == \E o \in S : Ends(f, o) /\ UNCHANGED objects

\* The thread ends; the one jni_util attached detaches itself.
ThreadExit ==
    /\ world.attached # "java"
    /\ Run("ThreadExit", Got(IF world.attached = "fml" THEN DetachFromVM(world) ELSE world))

LoadLibrary ==
    /\ world.attached = "java"
    /\ \E o \in JNI_OnLoad(world, initialized) : Ends("JNI_OnLoad", o)
    /\ initialized' = TRUE
    /\ UNCHANGED <<d, priv, ref, gone, vm>>

-----------------------------------------------------------------------------
(* Functions and native methods that keep no object                          *)

EnvironmentCall ==
    LET w == Attach(world)
    IN  \/ Run("findClass", Finally(findClass(w), Clear))
        \/ \E clazz \in BOOLEAN :
            \/ Run("findMethod", findMethod(w, clazz))
            \/ Run("findStaticMethod", findStaticMethod(w, clazz))
            \/ Run("findField", findField(w, clazz))
            \/ Run("findStaticField", findStaticField(w, clazz))
        \/ Run("registerNativeMethods", registerNativeMethods(w))
        \/ Run("isClassAvailable", isClassAvailable(world))
        \/ Run("androidSdkVersion", androidSdkVersion(world, FALSE))

StaticCall ==
    \/ Run("callStaticMethodByName", callStaticMethodByName(world))
    \/ Run("getStaticFieldByName", getStaticFieldByName(world))
    \/ Run("setStaticFieldByName", setStaticFieldByName(world))
    \/ \E clazz \in BOOLEAN :
        \/ Run("callStaticMethod", callStaticMethod(world, clazz))
        \/ \E id \in BOOLEAN :
              Run("callStaticMethodById", callStaticMethodById(world, clazz, id))
        \/ Run("getStaticField", getStaticField(world, clazz))
        \/ Run("setStaticField", setStaticField(world, clazz))

JniUtilCall ==
    LET w == AttachCurrentThread(world)
        DropLocal(S) == Finally(S, LAMBDA v : Give(v, "local"))
    IN  \/ Run("StringToJavaString", DropLocal(StringToJavaString(w)))
        \/ \E arg \in BOOLEAN :
            \/ Run("JavaStringToString", JavaStringToString(w, arg))
            \/ Run("StringArrayToVector", StringArrayToVector(w, arg))
            \/ Run("StringListToVector", StringListToVector(w, arg))
            \/ Run("CheckException", CheckException([w EXCEPT !.exc = arg]))
            \/ Run("ClearException", ClearException([w EXCEPT !.exc = arg]))
        \/ Run("VectorToStringArray", VectorToStringArray(w))
        \/ Run("VectorToBufferArray", VectorToBufferArray(w))
        \/ Run("ScopedJavaLocalRef", LocalFrame(w, LocalRefLifetime))

SnappyCall ==
    /\ world.attached = "java"
    /\ \/ Run("rawCompress", rawCompressArray(world) \cup rawCompressBuffer(world)
                             \cup rawCompressAddress(world))
       \/ Run("rawUncompress", rawUncompressArray(world) \cup rawUncompressBuffer(world)
                               \cup rawUncompressAddress(world))
       \/ Run("uncompressedLength",
              uncompressedLengthArray(world) \cup uncompressedLengthBuffer(world)
              \cup uncompressedLengthAddress(world))
       \/ Run("isValidCompressedBuffer",
              isValidArray(world) \cup isValidBuffer(world)
              \cup isValidAddress(world, TRUE) \cup isValidAddress(world, FALSE))
       \/ Run("arrayCopy", arrayCopy(world))
       \/ Run("nativeLibraryVersion", nativeLibraryVersion(world)
                                      \cup maxCompressedLength(world))

AppCall ==
    /\ world.attached = "java"
    /\ \/ Run("nativeStringToDouble", nativeStringToDouble(world))
       \/ Run("nativeDoubleToString", nativeDoubleToString(world))
       \/ Run("stringFromJNI", stringFromJNI(world) \cup CheckEnvStringFromJNI(world))
       \/ Run("getApplication", Native(getApplication(world))
                                \cup Native(getApplicationObject(world)))

ProbeCall ==
    /\ world.attached = "java"
    /\ \/ Run("mobile_info", Native(
            Loop(world, LAMBDA w :
                getEntropyAvail(w) \cup getPoolSize(w) \cup getReadWakeupThreshold(w) \cup
                getWriteWakeupThreshold(w) \cup getURandomMinReseedSecs(w) \cup
                getKennel(w) \cup getBuildInfo(w))))
       \/ Run("xHookCheck", xHookCheck(world))
       \/ Run("checkHook", nativeCheckHook(world))
       \/ Run("checkRandom", nativeCheckRandom(world))
       \/ Run("moreOpenCheck", moreOpenCheck(world) \cup checkMoreOpenByUid(world))
       \/ Run("OpenCheckExt", OpenCheckExt(world))
       \/ \E arg \in BOOLEAN :
            \/ Run("DualApp", isSystemDualApp(world) \cup isUserDualApp(world, arg))
            \/ Run("Base64", Base64Native(world, arg))
       \/ Run("getSignature", getSignature(world) \cup checkSignature(world))
       \/ Run("nativeReadTracerPid", nativeReadTracerPid(world))
       \/ Run("haveMagicMount", haveMagicMount(world))
       \/ Run("nativeCheckIsRoot", nativeCheckIsRoot(world))
       \/ Run("checkCpu", nativeCheckCpuAbi(world) \cup GetCPUCount(world))

FunctionStep ==
    /\ family = "functions"
    /\ EnvironmentCall \/ StaticCall \/ JniUtilCall \/ SnappyCall \/ AppCall \/ ProbeCall
       \/ ThreadExit \/ LoadLibrary

-----------------------------------------------------------------------------
(* QJniObjects                                                               *)

Used(ids, h) == \E g \in Handles \ {h} : ids[g] = ids[h]
Unused(h) == CHOOSE i \in Ids : \A g \in Handles \ {h} : d[g] # i

\* The world once h has let go of its private part.
LetGo(w, h) ==
    IF d[h] = NoId \/ Used(d, h) THEN w ELSE DestroyPrivate(w, priv[d[h]])

\* h becomes, or is assigned, the QJniObject of outcome o.
SetTo(h, o) ==
    /\ d' = [d EXCEPT ![h] = Unused(h)]
    /\ priv' = [priv EXCEPT ![Unused(h)] = o.r]
    /\ UNCHANGED <<ref, gone, vm, initialized>>

Make(f, h, S) == \E o \in S : d[h] = NoId /\ Ends(f, o) /\ SetTo(h, o)

Construct(h) ==
    \/ Make("QJniObject", h, Res(world, NoQ))
    \/ Make("QJniObjectByName", h, ConstructByName(world))
    \/ \E clazz \in BOOLEAN : Make("QJniObjectByClass", h, ConstructByClass(world, clazz))
    \/ \E nonnull \in BOOLEAN : Make("QJniObjectOf", h, FromObject(world, nonnull))
    \/ Make("fromString", h, fromString(world))
    \/ Make("fromLocalRef", h, Then(JniGet(world), fromLocalRef))
    \/ Make("callStaticObjectMethodByName", h, callStaticObjectMethodByName(world)
                                    \cup callStaticObjectMethodVByName(world))
    \/ Make("getStaticObjectFieldByName", h, getStaticObjectFieldByName(world))
    \/ \E clazz \in BOOLEAN :
        \/ Make("callStaticObjectMethod", h, callStaticObjectMethod(world, clazz)
                \cup callStaticObjectMethodById(world, clazz, TRUE))
        \/ Make("callStaticObjectMethodV", h, callStaticObjectMethodV(world, clazz))
        \/ Make("getStaticObjectField", h, getStaticObjectField(world, clazz))

\* Copies share the private part; the last one destroys it.
CopyObject(h, g) ==
    /\ d[h] = NoId /\ d[g] # NoId
    /\ Ends("copy", [w |-> world])
    /\ d' = [d EXCEPT ![h] = d[g]]
    /\ UNCHANGED <<priv, ref, gone, vm, initialized>>
AssignObject(h, g) ==
    /\ d[h] # NoId /\ d[g] # NoId /\ d[h] # d[g]
    /\ Ends("assign", [w |-> LetGo(world, h)])
    /\ d' = [d EXCEPT ![h] = d[g]]
    /\ UNCHANGED <<priv, ref, gone, vm, initialized>>
DestroyObject(h) ==
    /\ d[h] # NoId
    /\ Ends("destroy", [w |-> LetGo(world, h)])
    /\ d' = [d EXCEPT ![h] = NoId]
    /\ UNCHANGED <<priv, ref, gone, vm, initialized>>

\* operator=(jobject): nothing happens if it is the same object, and otherwise
\* the object gets a private part of its own.
assign(h, nonnull) ==
    /\ d[h] # NoId
    /\ \E o \in isSameObject(world, priv[d[h]], nonnull) :
          \/ o.r /\ Ends("assign", o) /\ UNCHANGED objects
          \/ ~o.r /\ \E p \in FromObject(LetGo(o.w, h), nonnull) : Ends("assign", p) /\ SetTo(h, p)

\* Methods and fields are used of objects that are valid.
ObjectCall(h) ==
    /\ d[h] # NoId
    /\ priv[d[h]].obj
    /\ LET q == priv[d[h]]
       IN  \/ Run("callMethod", callMethod(world, q))
           \/ Run("getField", getField(world, q) \cup setField(world, q))
           \/ Run("toString", toString(world, q))
           \/ \E g \in Handles :
                 Make("callObjectMethod", g, callObjectMethod(world, q)
                      \cup callObjectMethodV(world, q) \cup getObjectField(world, q))

QJniStep ==
    /\ family = "qjni"
    /\ \/ LoadLibrary
       \/ \E h \in Handles :
            \/ Construct(h)
            \/ \E g \in Handles : CopyObject(h, g) \/ AssignObject(h, g)
            \/ DestroyObject(h)
            \/ \E nonnull \in BOOLEAN : assign(h, nonnull)
            \/ ObjectCall(h)

-----------------------------------------------------------------------------
(* ScopedJavaGlobalRef and JavaObjectWeakGlobalRef                           *)

IsSet(h) == ref[h] = "set"
SetRef(f, h, o, exists) ==
    /\ Ends(f, o)
    /\ ref' = [ref EXCEPT ![h] = IF o.r THEN "set" ELSE IF exists THEN "null" ELSE "none"]
    /\ UNCHANGED <<d, priv, gone, vm, initialized>>

ScopedStep ==
    /\ family = "scoped"
    /\ \/ ThreadExit
       \/ \E h \in Handles :
        \/ \E obj \in BOOLEAN : \E o \in SetNewGlobalRef(world, IsSet(h), obj) :
              SetRef("Reset", h, o, TRUE)
        \/ \E g \in Handles : \E o \in SetNewGlobalRef(world, IsSet(h), IsSet(g)) :
              ref[g] # "none" /\ SetRef("ResetTo", h, o, TRUE)
        \/ \E o \in ResetGlobalRef(world, IsSet(h)) :
              ref[h] # "none" /\ SetRef("Destroy", h, o, FALSE)
        \/ \E o \in ReleaseInternal(world, IsSet(h)) :
              /\ IsSet(h)
              /\ SetRef("Release", h, [o EXCEPT !.w = Give(@, "global")], TRUE)

WeakStep ==
    /\ family = "weak"
    /\ \/ \E h \in Handles :
            \/ \E o \in NewWeakRef(AttachCurrentThread(world), TRUE, gone) :
                  ref[h] = "none" /\ ~gone /\ SetRef("WeakRef", h, o, TRUE)
            \/ \E g \in Handles \ {h} :
                  \E o \in WeakAssign(world, IsSet(h), IsSet(g), gone) :
                     ref[g] # "none" /\ SetRef("WeakAssign", h, o, TRUE)
            \/ \E o \in WeakReset(world, IsSet(h)) :
                  ref[h] # "none" /\ SetRef("WeakReset", h, o, FALSE)
            \/ /\ ref[h] # "none"
               /\ Run("GetRealObject",
                      GetRealObject(AttachCurrentThread(world), IsSet(h), gone))
       \/ /\ ~gone /\ gone' = TRUE       \* the garbage collector
          /\ UNCHANGED <<family, world, last, d, priv, ref, vm, initialized>>

-----------------------------------------------------------------------------
(* The native view model, in the order the Java class calls it               *)

ViewModelStep ==
    /\ family = "viewmodel"
    /\ world.attached = "java"
    /\ \/ LoadLibrary
       \/ /\ vm = NoViewModel
          /\ Ends("nativeCreate", [w |-> world])
          /\ vm' = NewViewModel
          /\ UNCHANGED <<d, priv, ref, gone, initialized>>
       \/ /\ vm # NoViewModel
          /\ \/ Run("handle", nativeHandleIntKey(world, vm))
             \/ /\ \E o \in nativeBind(world, vm) : Ends("nativeBind", o)
                /\ vm' = BoundView(vm)
                /\ UNCHANGED <<d, priv, ref, gone, initialized>>
             \/ /\ \E o \in nativeUnBind(world, vm) : Ends("nativeUnBind", o)
                /\ vm' = UnboundView(vm)
                /\ UNCHANGED <<d, priv, ref, gone, initialized>>
             \/ /\ Ends("nativeRelease", [w |-> world])
                /\ vm' = NoViewModel
                /\ UNCHANGED <<d, priv, ref, gone, initialized>>

NativeNext == FunctionStep \/ QJniStep \/ ScopedStep \/ WeakStep \/ ViewModelStep \/ Return

NativeSpec == NativeInit /\ [][NativeNext]_nativeVars

-----------------------------------------------------------------------------
(* Properties                                                                *)

\* The calls that break a rule of JNI or of the C library on some path, and how.
KnownMisuse(f) ==
    CASE f \in {"CheckException", "StringListToVector", "getSignature", "nativeBind"} ->
            {"pending", "null"}
      [] f = "VectorToBufferArray" -> {"pending"}
      [] f \in {"OpenCheckExt", "checkHook", "toString", "getStaticField", "setStaticField",
                "getStaticObjectField", "callStaticObjectMethodV"} -> {"null"}
      [] f \in {"haveMagicMount", "nativeStringToDouble"} -> {"closed"}
      [] OTHER -> {}

\* The calls that keep something on some path.
KnownLeaks(f) ==
    CASE f \in {"StringListToVector", "VectorToBufferArray"} -> {"exc"}
      [] f \in {"checkHook", "xHookCheck"} -> {"dl"}
      [] f = "getSignature" -> {"chars", "heap"}
      [] f = "toString" -> {"chars"}
      [] f = "haveMagicMount" -> {"file", "fd"}
      [] f = "nativeReadTracerPid" -> {"file"}
      [] f = "ThreadExit" -> {"qt"}
      [] OTHER -> {}

\* What the call that was made has not given back.  A thread that native code
\* attached and that ends must not be attached any more.
Leftover ==
    {k \in Transient : world.held[k] > 0}
    \cup (IF world.exc THEN {"exc"} ELSE {})
    \cup (IF last = "ThreadExit" THEN {world.attached} \ {"no"} ELSE {})

\* Whatever fails on the way, no call into the virtual machine is made with an
\* exception pending or inside a critical region (snappy_natvie.cpp), none is
\* passed a null it was given by an earlier one, and nothing is closed or
\* deleted twice or used after that.  The calls in KnownMisuse do not keep to
\* this, and break no rule but those that are named there.
NoUnsafeCall == world.bad \subseteq KnownMisuse(last)

\* On every path out of a call, the early returns and the exceptions included,
\* streams, descriptors, libraries, characters, array pins and local references
\* are given back, no exception is left for the next call of a C++ caller, and
\* a thread is detached by whoever attached it.  KnownLeaks are the exceptions.
ResourcesReturned == last # NoCall => Leftover \subseteq KnownLeaks(last)

\* After any sequence of constructions, copies, assignments and destructions,
\* there are as many global references as the private parts that are alive own
\* (qjniobject.cpp), and as many global or weak references as scoped objects
\* hold (scoped_java_ref.cc, jni_weak_ref.cc): none leaks and none is deleted
\* while it is in use.
RefsOwned ==
    LET live == {i \in Ids : \E h \in Handles : d[h] = i}
        set == {h \in Handles : IsSet(h)}
    IN  /\ world.held["global"] =
              Cardinality({i \in live : priv[i].obj}) +
              Cardinality({i \in live : priv[i].cls /\ priv[i].own}) +
              (IF family = "scoped" THEN Cardinality(set) ELSE 0)
        /\ world.held["weak"] = IF family = "weak" THEN Cardinality(set) ELSE 0
=============================================================================
