---------------------------- MODULE NativeProofs ----------------------------
(* The accounts of NativeCalls, for any finite number of objects and any     *)
(* sequence of calls: no rule is broken and nothing is kept but by the calls *)
(* that are known to, and every live object has the references it owns.      *)
EXTENDS NativeEffects

-----------------------------------------------------------------------------
(* Calls                                                                     *)

\* A call of f that ends in v breaks the rules f is known to break, and keeps what f
\* is known to keep, the reference to a class excepted.
CallOk(w, f, v) ==
    /\ Frame(w, v, KnownMisuse(f), KnownLeaks(f) \cup {"class"})
    /\ v.exc => "exc" \in KnownLeaks(f)

\* A call that leaves the objects alone.
GoodCall ==
    \E f, o : /\ f \notin {NoCall, "ThreadExit"}
              /\ CallOk(world, f, o.w)
              /\ Ends(f, o) /\ UNCHANGED objects

\* The exceptions, by name.
LEMMA KnownForm ==
  /\ KnownMisuse("CheckException") = {"pending", "null"}
  /\ KnownMisuse("StringListToVector") = {"pending", "null"}
  /\ KnownMisuse("VectorToBufferArray") = {"pending"}
  /\ KnownMisuse("getSignature") = {"pending", "null"}
  /\ KnownMisuse("nativeBind") = {"pending", "null"}
  /\ \A f \in {"OpenCheckExt", "checkHook", "toString", "getStaticField", "setStaticField",
               "getStaticObjectField", "callStaticObjectMethodV"} : KnownMisuse(f) = {"null"}
  /\ KnownMisuse("haveMagicMount") = {"closed"}
  /\ KnownMisuse("nativeStringToDouble") = {"closed"}
  /\ KnownLeaks("StringListToVector") = {"exc"}
  /\ KnownLeaks("VectorToBufferArray") = {"exc"}
  /\ KnownLeaks("checkHook") = {"dl"}
  /\ KnownLeaks("xHookCheck") = {"dl"}
  /\ KnownLeaks("getSignature") = {"chars", "heap"}
  /\ KnownLeaks("toString") = {"chars"}
  /\ KnownLeaks("haveMagicMount") = {"file", "fd"}
  /\ KnownLeaks("nativeReadTracerPid") = {"file"}
<1>1. /\ KnownMisuse("CheckException") = {"pending", "null"}
      /\ KnownMisuse("StringListToVector") = {"pending", "null"}
      /\ KnownMisuse("VectorToBufferArray") = {"pending"}
      /\ KnownMisuse("getSignature") = {"pending", "null"}
      /\ KnownMisuse("nativeBind") = {"pending", "null"}
  BY DEF KnownMisuse
<1>2. /\ \A f \in {"OpenCheckExt", "checkHook", "toString", "getStaticField", "setStaticField",
                   "getStaticObjectField", "callStaticObjectMethodV"} : KnownMisuse(f) = {"null"}
      /\ KnownMisuse("haveMagicMount") = {"closed"}
      /\ KnownMisuse("nativeStringToDouble") = {"closed"}
  BY DEF KnownMisuse
<1>3. /\ KnownLeaks("StringListToVector") = {"exc"}
      /\ KnownLeaks("VectorToBufferArray") = {"exc"}
      /\ KnownLeaks("checkHook") = {"dl"}
      /\ KnownLeaks("xHookCheck") = {"dl"}
      /\ KnownLeaks("getSignature") = {"chars", "heap"}
      /\ KnownLeaks("toString") = {"chars"}
      /\ KnownLeaks("haveMagicMount") = {"file", "fd"}
      /\ KnownLeaks("nativeReadTracerPid") = {"file"}
  BY DEF KnownLeaks
<1>4. QED
  BY <1>1, <1>2, <1>3

\* A call is accounted for once its effect is within what is known.
LEMMA TidyOk ==
  ASSUME NEW f, NEW w, NEW v, NEW M, NEW K, Tidy(w, v, M, K), M \subseteq KnownMisuse(f),
         K \subseteq KnownLeaks(f) \cup {"class"}
  PROVE  CallOk(w, f, v)
BY DEF CallOk, Tidy, Frame

\* A call that breaks nothing and keeps at most a class reference needs no exception.
LEMMA NothingOk ==
  ASSUME NEW f, NEW w, NEW v, Tidy(w, v, {}, {}) \/ Tidy(w, v, {}, {"class"})
  PROVE  CallOk(w, f, v)
BY TidyOk DEF Tidy, Frame

\* A plain call needs none either.
LEMMA PlainOk ==
  ASSUME NEW f, NEW w \in World, Calm(w), NEW o, Plain(w, o)
  PROVE  CallOk(w, f, o.w)
BY DEF CallOk, Plain, Does, Frame, Calm

\* Attaching the thread first makes no difference.
LEMMA AttachedTidy ==
  ASSUME NEW w \in World, NEW v, NEW M, NEW K,
         Tidy(Attach(w), v, M, K) \/ Tidy(AttachCurrentThread(w), v, M, K)
  PROVE  Tidy(w, v, M, K)
BY AttachForm, AttachCurrentForm DEF Tidy, Frame

\* A step of a function is good if each of its outcomes is.
LEMMA RunGood ==
  ASSUME NEW f, f \notin {NoCall, "ThreadExit"}, NEW S, Run(f, S),
         \A o \in S : CallOk(world, f, o.w)
  PROVE  GoodCall
BY DEF Run, GoodCall

-----------------------------------------------------------------------------
(* The calls of FunctionStep                                                 *)

\* QJniEnvironment and QtAndroidPrivate.
LEMMA EnvironmentGood ==
  ASSUME Idle(world), EnvironmentCall
  PROVE  GoodCall
<1> DEFINE w == Attach(world)
<1>0. world \in World /\ Calm(world) /\ w \in World /\ Calm(w)
  BY IdleCalm, AttachCalm
<1> USE DEF NoCall
<1>1. CASE Run("findClass", Finally(findClass(w), Clear))
  <2>1. ASSUME NEW o \in Finally(findClass(w), Clear) PROVE CallOk(world, "findClass", o.w)
    <3>1. PICK p \in findClass(w) : o = After(p, Clear(p.w))
      BY <2>1 DEF Finally
    <3>2. p \in Outcomes(BOOLEAN) /\ Tidy(w, p.w, {}, {"class"})
      BY <1>0, FindClassForm
    <3>3. Clear(p.w) \in World /\ ~Clear(p.w).exc /\ Clear(p.w).bad = p.w.bad /\ Clear(p.w).held = p.w.held
      BY <3>2, ClearForm DEF Tidy, Frame
    <3>4. o.w = Clear(p.w)
      BY <3>1, <3>2, <3>3, OutcomeForm
    <3>5. Tidy(w, o.w, {}, {"class"})
      BY <3>2, <3>3, <3>4 DEF Tidy, Frame
    <3>6. QED
      BY <1>0, <3>5, AttachedTidy, NothingOk
  <2>2. QED
    BY <1>1, <2>1, RunGood
<1>2. ASSUME NEW clazz \in BOOLEAN,
             \/ Run("findMethod", findMethod(w, clazz))
             \/ Run("findStaticMethod", findStaticMethod(w, clazz))
             \/ Run("findField", findField(w, clazz))
             \/ Run("findStaticField", findStaticField(w, clazz))
      PROVE  GoodCall
  <2>1. ASSUME NEW f, NEW o \in findMethod(w, clazz) \cup findStaticMethod(w, clazz)
                           \cup findField(w, clazz) \cup findStaticField(w, clazz)
        PROVE  CallOk(world, f, o.w)
    BY <1>0, FindForm, AttachedTidy, NothingOk
  <2> HIDE DEF w
  <2>2. QED
    BY <1>2, <2>1, RunGood
<1>3. CASE Run("registerNativeMethods", registerNativeMethods(w))
  <2>1. ASSUME NEW o \in registerNativeMethods(w) PROVE CallOk(world, "registerNativeMethods", o.w)
    BY <1>0, RegisterForm, AttachedTidy, NothingOk
  <2> HIDE DEF w
  <2>2. QED
    BY <1>3, <2>1, RunGood
<1>4. CASE \/ Run("isClassAvailable", isClassAvailable(world))
           \/ Run("androidSdkVersion", androidSdkVersion(world, FALSE))
  <2>1. ASSUME NEW f, NEW o \in isClassAvailable(world) \cup androidSdkVersion(world, FALSE)
        PROVE  CallOk(world, f, o.w)
    BY <1>0, ByNameForm, NothingOk DEF androidSdkVersion
  <2>2. QED
    BY <1>4, <2>1, RunGood
<1>5. QED
  BY <1>1, <1>2, <1>3, <1>4 DEF EnvironmentCall

\* The static functions of QJniObject.
LEMMA StaticGood ==
  ASSUME Idle(world), StaticCall
  PROVE  GoodCall
<1>0. world \in World /\ Calm(world)
  BY IdleCalm
<1> USE DEF NoCall
<1>1. CASE \/ Run("callStaticMethodByName", callStaticMethodByName(world))
           \/ Run("getStaticFieldByName", getStaticFieldByName(world))
           \/ Run("setStaticFieldByName", setStaticFieldByName(world))
  <2>1. ASSUME NEW f, NEW o \in callStaticMethodByName(world) \cup getStaticFieldByName(world)
                           \cup setStaticFieldByName(world)
        PROVE  CallOk(world, f, o.w)
    BY <1>0, ByNameForm, NothingOk
  <2>2. QED
    BY <1>1, <2>1, RunGood
<1>2. ASSUME NEW clazz \in BOOLEAN, NEW id \in BOOLEAN,
             \/ Run("callStaticMethod", callStaticMethod(world, clazz))
             \/ Run("callStaticMethodById", callStaticMethodById(world, clazz, id))
      PROVE  GoodCall
  <2>1. ASSUME NEW f, NEW o \in callStaticMethod(world, clazz) \cup callStaticMethodById(world, clazz, id)
        PROVE  CallOk(world, f, o.w)
    BY <1>0, StaticForm, NothingOk
  <2>2. QED
    BY <1>2, <2>1, RunGood
<1>3. ASSUME NEW clazz \in BOOLEAN,
             \/ Run("getStaticField", getStaticField(world, clazz))
             \/ Run("setStaticField", setStaticField(world, clazz))
      PROVE  GoodCall
  <2>1. ASSUME NEW f \in {"getStaticField", "setStaticField"},
               NEW o \in getStaticField(world, clazz) \cup setStaticField(world, clazz)
        PROVE  CallOk(world, f, o.w)
    <3>1. Tidy(world, o.w, {"null"}, {})
      BY <1>0, StaticForm
    <3>2. KnownMisuse(f) = {"null"}
      BY KnownForm
    <3>3. QED
      BY <3>1, <3>2, TidyOk
  <2>2. QED
    BY <1>3, <2>1, RunGood
<1>4. QED
  BY <1>1, <1>2, <1>3 DEF StaticCall

\* jni_util.cc.
LEMMA JniUtilGood ==
  ASSUME Idle(world), JniUtilCall
  PROVE  GoodCall
<1> DEFINE w == AttachCurrentThread(world)
<1>0. /\ world \in World /\ Calm(world) /\ w \in World /\ Calm(w)
      /\ w.held = world.held /\ w.bad = world.bad /\ w.held["crit"] = 0
  BY IdleCalm, AttachCurrentForm, AttachCurrentCalm DEF Calm
<1> USE DEF NoCall
<1>1. CASE Run("StringToJavaString", Finally(StringToJavaString(w), LAMBDA v : Give(v, "local")))
  <2> DEFINE S == Finally(StringToJavaString(w), LAMBDA v : Give(v, "local"))
  <2>1. ASSUME NEW o \in S PROVE CallOk(world, "StringToJavaString", o.w)
    BY <1>0, DroppedStringForm, AttachedTidy, NothingOk
  <2> HIDE DEF S
  <2>2. QED
    BY <1>1, <2>1, RunGood DEF S
<1>2. ASSUME NEW arg \in BOOLEAN,
             \/ Run("JavaStringToString", JavaStringToString(w, arg))
             \/ Run("StringArrayToVector", StringArrayToVector(w, arg))
      PROVE  GoodCall
  <2>1. ASSUME NEW f, NEW o \in JavaStringToString(w, arg) \cup StringArrayToVector(w, arg)
        PROVE  CallOk(world, f, o.w)
    <3>1. Plain(w, o)
      BY <1>0, StringForm, StringArrayForm
    <3>2. Tidy(w, o.w, {}, {})
      BY <1>0, <3>1 DEF Plain, Does, Tidy, Calm
    <3>3. QED
      BY <1>0, <3>2, AttachedTidy, NothingOk
  <2> HIDE DEF w
  <2>2. QED
    BY <1>2, <2>1, RunGood
<1>3. ASSUME NEW arg \in BOOLEAN, Run("StringListToVector", StringListToVector(w, arg))
      PROVE  GoodCall
  <2>1. ASSUME NEW o \in StringListToVector(w, arg) PROVE CallOk(world, "StringListToVector", o.w)
    <3>1. Does(w, o, {"pending", "null"}, {})
      BY <1>0, StringListForm
    <3>2. QED
      BY <1>0, <3>1, KnownForm DEF CallOk, Does, Frame
  <2> HIDE DEF w
  <2>2. QED
    BY <1>3, <2>1, RunGood
<1>4. ASSUME NEW arg \in BOOLEAN,
             \/ Run("CheckException", CheckException([w EXCEPT !.exc = arg]))
             \/ Run("ClearException", ClearException([w EXCEPT !.exc = arg]))
      PROVE  GoodCall
  <2> DEFINE e == [w EXCEPT !.exc = arg]
  <2>1. e \in World /\ e.held = w.held /\ e.bad = w.bad
    BY <1>0 DEF World
  <2> HIDE DEF e, w
  <2>2. ASSUME NEW o \in CheckException(e) PROVE CallOk(world, "CheckException", o.w)
    <3>1. Tidy(e, o.w, {"pending", "null"}, {})
      BY <1>0, <2>1, CheckExceptionForm
    <3>2. Tidy(world, o.w, {"pending", "null"}, {})
      BY <1>0, <2>1, <3>1 DEF Tidy, Frame
    <3>3. QED
      BY <3>2, KnownForm, TidyOk
  <2>3. ASSUME NEW o \in ClearException(e) PROVE CallOk(world, "ClearException", o.w)
    <3>1. o.w = Clear(e)
      BY <2>3 DEF ClearException, Res
    <3>2. Tidy(world, o.w, {}, {})
      BY <1>0, <2>1, <3>1, ClearForm DEF Tidy, Frame
    <3>3. QED
      BY <3>2, NothingOk
  <2>4. QED
    BY <1>4, <2>2, <2>3, RunGood DEF e
<1>5. CASE Run("VectorToStringArray", VectorToStringArray(w))
  <2>1. ASSUME NEW o \in VectorToStringArray(w) PROVE CallOk(world, "VectorToStringArray", o.w)
    BY <1>0, StringVectorForm, AttachedTidy, NothingOk
  <2> HIDE DEF w
  <2>2. QED
    BY <1>5, <2>1, RunGood
<1>6. CASE Run("VectorToBufferArray", VectorToBufferArray(w))
  <2>1. ASSUME NEW o \in VectorToBufferArray(w) PROVE CallOk(world, "VectorToBufferArray", o.w)
    <3>1. Does(w, o, {"pending"}, {})
      BY <1>0, BufferVectorForm
    <3>2. QED
      BY <1>0, <3>1, KnownForm DEF CallOk, Does, Frame
  <2> HIDE DEF w
  <2>2. QED
    BY <1>6, <2>1, RunGood
<1>7. CASE Run("ScopedJavaLocalRef", LocalFrame(w, LocalRefLifetime))
  <2> DEFINE S == LocalFrame(w, LocalRefLifetime)
  <2>1. ASSUME NEW o \in S PROVE CallOk(world, "ScopedJavaLocalRef", o.w)
    BY <1>0, LocalFrameForm, AttachedTidy, NothingOk
  <2> HIDE DEF S
  <2>2. QED
    BY <1>7, <2>1, RunGood DEF S
<1>8. QED
  BY <1>1, <1>2, <1>3, <1>4, <1>5, <1>6, <1>7 DEF JniUtilCall

\* snappy_natvie.cpp.
LEMMA SnappyGood ==
  ASSUME Idle(world), SnappyCall
  PROVE  GoodCall
<1> USE DEF NoCall
<1> DEFINE A == rawCompressArray(world) \cup rawCompressBuffer(world) \cup rawCompressAddress(world)
           B == rawUncompressArray(world) \cup rawUncompressBuffer(world)
                \cup rawUncompressAddress(world)
           C == uncompressedLengthArray(world) \cup uncompressedLengthBuffer(world)
                \cup uncompressedLengthAddress(world)
           D == isValidArray(world) \cup isValidBuffer(world)
                \cup isValidAddress(world, TRUE) \cup isValidAddress(world, FALSE)
           E == nativeLibraryVersion(world) \cup maxCompressedLength(world)
<1>1. \A o \in A \cup B \cup C : Tidy(world, o.w, {}, {})
  BY SnappyForm
<1>2. \A o \in D \cup E \cup arrayCopy(world) : Tidy(world, o.w, {}, {})
  BY SnappyForm
<1>3. \/ Run("rawCompress", A) \/ Run("rawUncompress", B) \/ Run("uncompressedLength", C)
      \/ Run("isValidCompressedBuffer", D) \/ Run("arrayCopy", arrayCopy(world))
      \/ Run("nativeLibraryVersion", E)
  BY DEF SnappyCall
<1> HIDE DEF A, B, C, D, E
<1>4. CASE Run("rawCompress", A)
  BY <1>1, <1>4, NothingOk, RunGood
<1>5. CASE Run("rawUncompress", B)
  BY <1>1, <1>5, NothingOk, RunGood
<1>6. CASE Run("uncompressedLength", C)
  BY <1>1, <1>6, NothingOk, RunGood
<1>7. CASE Run("isValidCompressedBuffer", D)
  BY <1>2, <1>7, NothingOk, RunGood
<1>8. CASE Run("arrayCopy", arrayCopy(world))
  BY <1>2, <1>8, NothingOk, RunGood
<1>9. CASE Run("nativeLibraryVersion", E)
  BY <1>2, <1>9, NothingOk, RunGood
<1>10. QED
  BY <1>3, <1>4, <1>5, <1>6, <1>7, <1>8, <1>9

\* The native methods of the app that keep no object.
LEMMA AppGood ==
  ASSUME Idle(world), AppCall
  PROVE  GoodCall
<1> USE DEF NoCall
<1> DEFINE A == stringFromJNI(world) \cup CheckEnvStringFromJNI(world)
           B == Native(getApplication(world)) \cup Native(getApplicationObject(world))
<1>1. CASE Run("nativeStringToDouble", nativeStringToDouble(world))
  <2>1. ASSUME NEW o \in nativeStringToDouble(world) PROVE CallOk(world, "nativeStringToDouble", o.w)
    <3>1. Tidy(world, o.w, {"closed"}, {})
      BY StringToDoubleForm
    <3>2. QED
      BY <3>1, KnownForm, TidyOk
  <2>2. QED
    BY <1>1, <2>1, RunGood
<1>2. CASE Run("nativeDoubleToString", nativeDoubleToString(world))
  <2>1. ASSUME NEW o \in nativeDoubleToString(world) PROVE CallOk(world, "nativeDoubleToString", o.w)
    BY NativeNewForm, NothingOk DEF nativeDoubleToString, ConvertToJava
  <2>2. QED
    BY <1>2, <2>1, RunGood
<1>3. CASE Run("stringFromJNI", A)
  <2>1. ASSUME NEW o \in A PROVE CallOk(world, "stringFromJNI", o.w)
    BY NativeNewForm, NothingOk DEF stringFromJNI, CheckEnvStringFromJNI
  <2> HIDE DEF A
  <2>2. QED
    BY <1>3, <2>1, RunGood
<1>4. CASE Run("getApplication", B)
  <2>1. ASSUME NEW o \in B PROVE CallOk(world, "getApplication", o.w)
    BY ApplicationForm, NothingOk
  <2> HIDE DEF B
  <2>2. QED
    BY <1>4, <2>1, RunGood
<1>5. QED
  BY <1>1, <1>2, <1>3, <1>4 DEF AppCall

\* The probes.
LEMMA ProbeGood ==
  ASSUME Idle(world), ProbeCall
  PROVE  GoodCall
<1>0. world \in World /\ Calm(world)
  BY IdleCalm
<1> USE DEF NoCall
<1> DEFINE A == Native(
            Loop(world, LAMBDA w :
                getEntropyAvail(w) \cup getPoolSize(w) \cup getReadWakeupThreshold(w) \cup
                getWriteWakeupThreshold(w) \cup getURandomMinReseedSecs(w) \cup
                getKennel(w) \cup getBuildInfo(w)))
           B == moreOpenCheck(world) \cup checkMoreOpenByUid(world)
           C(arg) == isSystemDualApp(world) \cup isUserDualApp(world, arg)
           D == getSignature(world) \cup checkSignature(world)
           E == nativeCheckCpuAbi(world) \cup GetCPUCount(world)
<1>1. CASE Run("mobile_info", A)
  <2>1. ASSUME NEW o \in A PROVE CallOk(world, "mobile_info", o.w)
    BY MobileInfoForm, NothingOk
  <2> HIDE DEF A
  <2>2. QED
    BY <1>1, <2>1, RunGood
<1>2. CASE Run("xHookCheck", xHookCheck(world))
  <2>1. ASSUME NEW o \in xHookCheck(world) PROVE CallOk(world, "xHookCheck", o.w)
    <3>1. Does(world, o, {}, {"dl"}) /\ o.w.exc = world.exc
      BY <1>0, LibraryForm
    <3>2. Tidy(world, o.w, {}, {"dl"})
      BY <1>0, <3>1 DEF Does, Tidy, Calm
    <3>3. QED
      BY <3>2, KnownForm, TidyOk
  <2>2. QED
    BY <1>2, <2>1, RunGood
<1>3. CASE Run("checkHook", nativeCheckHook(world))
  <2>1. ASSUME NEW o \in nativeCheckHook(world) PROVE CallOk(world, "checkHook", o.w)
    <3>1. Tidy(world, o.w, {"null"}, {"dl"})
      BY CheckHookForm
    <3>2. QED
      BY <3>1, KnownForm, TidyOk
  <2>2. QED
    BY <1>3, <2>1, RunGood
<1>4. CASE Run("checkRandom", nativeCheckRandom(world))
  <2>1. ASSUME NEW o \in nativeCheckRandom(world) PROVE CallOk(world, "checkRandom", o.w)
    BY CheckRandomForm, NothingOk
  <2>2. QED
    BY <1>4, <2>1, RunGood
<1>5. CASE Run("moreOpenCheck", B)
  <2>1. ASSUME NEW o \in B PROVE CallOk(world, "moreOpenCheck", o.w)
    BY <1>0, MoreOpenForm, PlainOk
  <2> HIDE DEF B
  <2>2. QED
    BY <1>5, <2>1, RunGood
<1>6. CASE Run("OpenCheckExt", OpenCheckExt(world))
  <2>1. ASSUME NEW o \in OpenCheckExt(world) PROVE CallOk(world, "OpenCheckExt", o.w)
    <3>1. Tidy(world, o.w, {"null"}, {})
      BY OpenCheckExtForm
    <3>2. QED
      BY <3>1, KnownForm, TidyOk
  <2>2. QED
    BY <1>6, <2>1, RunGood
<1>7. ASSUME NEW arg \in BOOLEAN, Run("DualApp", C(arg)) \/ Run("Base64", Base64Native(world, arg))
      PROVE  GoodCall
  <2>1. ASSUME NEW f, NEW o \in C(arg) \cup Base64Native(world, arg) PROVE CallOk(world, f, o.w)
    BY DualAppForm, Base64Form, NothingOk
  <2> HIDE DEF C
  <2>2. QED
    BY <1>7, <2>1, RunGood
<1>8. CASE Run("getSignature", D)
  <2>1. ASSUME NEW o \in D PROVE CallOk(world, "getSignature", o.w)
    <3>1. Tidy(world, o.w, {"pending", "null"}, {"chars", "heap"})
      BY SignatureForm
    <3>2. QED
      BY <3>1, KnownForm, TidyOk
  <2> HIDE DEF D
  <2>2. QED
    BY <1>8, <2>1, RunGood
<1>9. CASE Run("nativeReadTracerPid", nativeReadTracerPid(world))
  <2>1. ASSUME NEW o \in nativeReadTracerPid(world) PROVE CallOk(world, "nativeReadTracerPid", o.w)
    <3>1. Does(world, o, {}, {"file"}) /\ o.w.exc = world.exc
      BY <1>0, TracerForm
    <3>2. Tidy(world, o.w, {}, {"file"})
      BY <1>0, <3>1 DEF Does, Tidy, Calm
    <3>3. QED
      BY <3>2, KnownForm, TidyOk
  <2>2. QED
    BY <1>9, <2>1, RunGood
<1>10. CASE Run("haveMagicMount", haveMagicMount(world))
  <2>1. ASSUME NEW o \in haveMagicMount(world) PROVE CallOk(world, "haveMagicMount", o.w)
    <3>1. Tidy(world, o.w, {"closed"}, {"file", "fd"})
      BY <1>0, MagicMountForm DEF Loose, Tidy, Calm
    <3>2. QED
      BY <3>1, KnownForm, TidyOk
  <2>2. QED
    BY <1>10, <2>1, RunGood
<1>11. CASE Run("nativeCheckIsRoot", nativeCheckIsRoot(world))
  <2>1. ASSUME NEW o \in nativeCheckIsRoot(world) PROVE CallOk(world, "nativeCheckIsRoot", o.w)
    BY <1>0, FilesForm, PlainOk
  <2>2. QED
    BY <1>11, <2>1, RunGood
<1>12. CASE Run("checkCpu", E)
  <2>1. ASSUME NEW o \in E PROVE CallOk(world, "checkCpu", o.w)
    <3>1. CASE o \in Native(JniNew(world))
      BY <3>1, NativeNewForm, NothingOk
    <3>2. CASE o \in Got(world)
      <4>1. Tidy(world, o.w, {}, {})
        BY <1>0, <3>2, GotForm DEF Tidy, Frame, Calm
      <4>2. QED
        BY <4>1, NothingOk
    <3>3. QED
      BY <3>1, <3>2, <2>1 DEF nativeCheckCpuAbi, GetCPUCount
  <2> HIDE DEF E
  <2>2. QED
    BY <1>12, <2>1, RunGood
<1> HIDE DEF A, B, C, D, E
<1>13. \/ Run("mobile_info", A)
       \/ Run("xHookCheck", xHookCheck(world))
       \/ Run("checkHook", nativeCheckHook(world))
       \/ Run("checkRandom", nativeCheckRandom(world))
       \/ Run("moreOpenCheck", B)
       \/ Run("OpenCheckExt", OpenCheckExt(world))
       \/ \E arg \in BOOLEAN : Run("DualApp", C(arg)) \/ Run("Base64", Base64Native(world, arg))
       \/ Run("getSignature", D)
       \/ Run("nativeReadTracerPid", nativeReadTracerPid(world))
       \/ Run("haveMagicMount", haveMagicMount(world))
       \/ Run("nativeCheckIsRoot", nativeCheckIsRoot(world))
       \/ Run("checkCpu", E)
  BY DEF ProbeCall, A, B, C, D, E
<1>14. QED
  BY <1>1, <1>2, <1>3, <1>4, <1>5, <1>6, <1>7, <1>8, <1>9, <1>10, <1>11, <1>12, <1>13

-----------------------------------------------------------------------------
(* The references of QJniObjects, counted                                    *)

\* The private parts in use, those with an object, those that own a class, and the
\* global references they own together.
Live(ids) == {i \in Ids : \E h \in Handles : ids[h] = i}
ObjectIds(ids, p) == {i \in Live(ids) : p[i].obj}
ClassIds(ids, p) == {i \in Live(ids) : p[i].cls /\ p[i].own}
OwnedRefs(ids, p) == Cardinality(ObjectIds(ids, p)) + Cardinality(ClassIds(ids, p))

\* The types of d and priv.
Handed == [Handles -> {NoId} \cup Ids]
Parts == [Ids -> Objects]

\* There are finitely many ids, and 0 is none of them.
LEMMA IdsForm ==
  /\ IsFiniteSet(Ids) /\ Cardinality(Ids) = Cardinality(Handles) /\ NoId \notin Ids
  /\ \A S : S \subseteq Ids => IsFiniteSet(S) /\ Cardinality(S) \in Nat
<1>1. Cardinality(Handles) \in Nat
  BY HandlesAssumption, FS_CardinalityType
<1>2. IsFiniteSet(Ids) /\ Cardinality(Ids) = Cardinality(Handles)
  BY <1>1, FS_Interval DEF Ids
<1>3. NoId \notin Ids
  BY <1>1 DEF NoId, Ids
<1>4. \A S : S \subseteq Ids => IsFiniteSet(S) /\ Cardinality(S) \in Nat
  BY <1>2, FS_Subset, FS_CardinalityType
<1>5. QED
  BY <1>2, <1>3, <1>4

\* With one handle aside, some id is used by no other.
LEMMA UnusedForm ==
  ASSUME d \in Handed, NEW h \in Handles
  PROVE  Unused(h) \in Ids /\ \A g \in Handles \ {h} : d[g] # Unused(h)
<1> DEFINE T == Handles \ {h}
<1>1. IsFiniteSet(T) /\ Cardinality(T) < Cardinality(Ids)
  <2>1. IsFiniteSet(T) /\ Cardinality(T) = Cardinality(Handles) - 1
    BY HandlesAssumption, FS_RemoveElement
  <2>2. Cardinality(Handles) \in Nat
    BY HandlesAssumption, FS_CardinalityType
  <2> HIDE DEF T
  <2>3. QED
    BY <2>1, <2>2, IdsForm
<1>2. \E i \in Ids : \A g \in T : d[g] # i
  <2>1. SUFFICES ASSUME \A i \in Ids : \E g \in T : d[g] = i
                 PROVE  FALSE
    OBVIOUS
  <2> DEFINE f == [i \in Ids |-> CHOOSE g \in T : d[g] = i]
  <2>2. \A i \in Ids : f[i] \in T /\ d[f[i]] = i
    BY <2>1
  <2>3. f \in [Ids -> T]
    BY <2>2
  <2> HIDE DEF f, T
  <2>4. PICK x, y \in Ids : x # y /\ f[x] = f[y]
    BY <1>1, <2>3, IdsForm, FS_PigeonHole
  <2>5. QED
    BY <2>2, <2>4
<1>3. QED
  BY <1>2 DEF Unused

\* The sets that are counted are finite.
LEMMA OwnedFinite ==
  ASSUME NEW ids, NEW p
  PROVE  /\ IsFiniteSet(ObjectIds(ids, p)) /\ Cardinality(ObjectIds(ids, p)) \in Nat
         /\ IsFiniteSet(ClassIds(ids, p)) /\ Cardinality(ClassIds(ids, p)) \in Nat
<1>1. ObjectIds(ids, p) \subseteq Ids /\ ClassIds(ids, p) \subseteq Ids
  BY DEF ObjectIds, ClassIds, Live
<1>2. QED
  BY <1>1, IdsForm

\* A new private part.
LEMMA AddPart ==
  ASSUME NEW ids \in Handed, NEW p \in Parts, NEW h \in Handles, ids[h] = NoId,
         NEW n \in Ids, \A g \in Handles \ {h} : ids[g] # n, NEW q \in Objects
  PROVE  LET ids2 == [ids EXCEPT ![h] = n]
             p2 == [p EXCEPT ![n] = q]
         IN  /\ ids2 \in Handed /\ p2 \in Parts
             /\ OwnedRefs(ids2, p2) = OwnedRefs(ids, p) + Owned(q)
<1> DEFINE ids2 == [ids EXCEPT ![h] = n]
           p2 == [p EXCEPT ![n] = q]
<1>1. ids2 \in Handed /\ p2 \in Parts
  BY DEF Handed, Parts
<1>2. n \notin Live(ids) /\ Live(ids2) = Live(ids) \cup {n}
  BY IdsForm DEF Live, Handed
<1>3. p2[n] = q /\ \A i \in Ids : i # n => p2[i] = p[i]
  BY DEF Parts
<1>4. Live(ids) \subseteq Ids /\ q.obj \in BOOLEAN /\ q.cls \in BOOLEAN /\ q.own \in BOOLEAN
  BY DEF Live, Objects, QPrivates
<1> HIDE DEF ids2, p2
<1> DEFINE A == ObjectIds(ids, p)
           B == ClassIds(ids, p)
<1>5. ObjectIds(ids2, p2) = IF q.obj THEN A \cup {n} ELSE A
  BY <1>2, <1>3, <1>4 DEF ObjectIds
<1>6. ClassIds(ids2, p2) = IF q.cls /\ q.own THEN B \cup {n} ELSE B
  BY <1>2, <1>3, <1>4 DEF ClassIds
<1>7. /\ IsFiniteSet(A) /\ Cardinality(A) \in Nat /\ n \notin A
      /\ IsFiniteSet(B) /\ Cardinality(B) \in Nat /\ n \notin B
  BY <1>2, OwnedFinite DEF ObjectIds, ClassIds
<1>8. OwnedRefs(ids, p) = Cardinality(A) + Cardinality(B)
  BY DEF OwnedRefs
<1> HIDE DEF A, B
<1>9. Cardinality(A \cup {n}) = Cardinality(A) + 1 /\ Cardinality(B \cup {n}) = Cardinality(B) + 1
  BY <1>7, FS_AddElement
<1>10. Cardinality(ObjectIds(ids2, p2)) = Cardinality(A) + (IF q.obj THEN 1 ELSE 0)
  BY <1>5, <1>7, <1>9
<1>11. Cardinality(ClassIds(ids2, p2)) = Cardinality(B) + (IF q.cls /\ q.own THEN 1 ELSE 0)
  BY <1>6, <1>7, <1>9
<1>12. OwnedRefs(ids2, p2) = OwnedRefs(ids, p) + Owned(q)
  BY <1>7, <1>8, <1>10, <1>11 DEF OwnedRefs, Owned
<1>13. QED
  BY <1>1, <1>12 DEF ids2, p2

\* A handle lets go of its private part, which is destroyed if no other uses it.
LEMMA DropPart ==
  ASSUME NEW ids \in Handed, NEW p \in Parts, NEW h \in Handles, ids[h] # NoId
  PROVE  LET ids2 == [ids EXCEPT ![h] = NoId]
             q == p[ids[h]]
         IN  /\ ids2 \in Handed /\ ids2[h] = NoId /\ q \in Objects /\ Owned(q) \in Nat
             /\ OwnedRefs(ids, p) \in Nat /\ OwnedRefs(ids, p) >= Owned(q)
             /\ OwnedRefs(ids2, p) = OwnedRefs(ids, p) - (IF Used(ids, h) THEN 0 ELSE Owned(q))
<1> DEFINE ids2 == [ids EXCEPT ![h] = NoId]
           n == ids[h]
           q == p[n]
           A == ObjectIds(ids, p)
           B == ClassIds(ids, p)
<1>1. ids2 \in Handed /\ ids2[h] = NoId /\ n \in Ids /\ q \in Objects
  BY DEF Handed, Parts
<1>2. n \in Live(ids) /\ Live(ids2) = IF Used(ids, h) THEN Live(ids) ELSE Live(ids) \ {n}
  BY <1>1, IdsForm DEF Live, Handed, Used
<1>3. q.obj \in BOOLEAN /\ q.cls \in BOOLEAN /\ q.own \in BOOLEAN
  BY <1>1 DEF Objects, QPrivates
<1>4. Owned(q) \in Nat
  BY <1>3 DEF Owned
<1>5. (q.obj => n \in A) /\ (~q.obj => n \notin A) /\ (q.cls /\ q.own => n \in B) /\ (~(q.cls /\ q.own) => n \notin B)
  BY <1>2 DEF ObjectIds, ClassIds
<1>6. ObjectIds(ids2, p) = IF Used(ids, h) THEN A ELSE A \ {n}
  BY <1>2 DEF ObjectIds
<1>7. ClassIds(ids2, p) = IF Used(ids, h) THEN B ELSE B \ {n}
  BY <1>2 DEF ClassIds
<1>8. /\ IsFiniteSet(A) /\ Cardinality(A) \in Nat
      /\ IsFiniteSet(B) /\ Cardinality(B) \in Nat
  BY OwnedFinite
<1>9. OwnedRefs(ids, p) = Cardinality(A) + Cardinality(B)
  BY DEF OwnedRefs
<1> HIDE DEF A, B, ids2, n, q
<1>10. /\ Cardinality(A \ {n}) = Cardinality(A) - (IF q.obj THEN 1 ELSE 0)
       /\ Cardinality(B \ {n}) = Cardinality(B) - (IF q.cls /\ q.own THEN 1 ELSE 0)
       /\ Cardinality(A \ {n}) \in Nat /\ Cardinality(B \ {n}) \in Nat
  <2>1. IsFiniteSet(A \ {n}) /\ IsFiniteSet(B \ {n})
    BY <1>8, FS_RemoveElement
  <2>2. Cardinality(A \ {n}) \in Nat /\ Cardinality(B \ {n}) \in Nat
    BY <2>1, FS_CardinalityType
  <2>0. /\ Cardinality(A \ {n}) = IF n \in A THEN Cardinality(A) - 1 ELSE Cardinality(A)
        /\ Cardinality(B \ {n}) = IF n \in B THEN Cardinality(B) - 1 ELSE Cardinality(B)
    BY <1>8, FS_RemoveElement
  <2>3. Cardinality(A \ {n}) = Cardinality(A) - (IF q.obj THEN 1 ELSE 0)
    BY <1>3, <1>5, <1>8, <2>0
  <2>4. Cardinality(B \ {n}) = Cardinality(B) - (IF q.cls /\ q.own THEN 1 ELSE 0)
    BY <1>3, <1>5, <1>8, <2>0
  <2>5. QED
    BY <2>2, <2>3, <2>4
<1>11. OwnedRefs(ids, p) \in Nat /\ OwnedRefs(ids, p) >= Owned(q)
  BY <1>3, <1>8, <1>9, <1>10 DEF Owned
<1>12. OwnedRefs(ids2, p) = OwnedRefs(ids, p) - (IF Used(ids, h) THEN 0 ELSE Owned(q))
  <2>1. CASE Used(ids, h)
    BY <1>6, <1>7, <1>8, <1>9, <2>1 DEF OwnedRefs
  <2>2. CASE ~Used(ids, h)
    <3>1. OwnedRefs(ids2, p) = Cardinality(A \ {n}) + Cardinality(B \ {n})
      BY <1>6, <1>7, <2>2 DEF OwnedRefs
    <3>2. QED
      BY <1>3, <1>8, <1>9, <1>10, <2>2, <3>1 DEF Owned
  <2>3. QED
    BY <2>1, <2>2
<1>13. QED
  BY <1>1, <1>4, <1>11, <1>12 DEF ids2, n, q

\* A copy shares the private part.
LEMMA SharePart ==
  ASSUME NEW ids \in Handed, NEW p \in Parts, NEW h \in Handles, ids[h] = NoId,
         NEW g \in Handles, ids[g] # NoId
  PROVE  LET ids2 == [ids EXCEPT ![h] = ids[g]]
         IN  ids2 \in Handed /\ OwnedRefs(ids2, p) = OwnedRefs(ids, p)
<1> DEFINE ids2 == [ids EXCEPT ![h] = ids[g]]
<1>1. ids2 \in Handed
  BY DEF Handed
<1>2. Live(ids2) = Live(ids)
  BY IdsForm DEF Live, Handed
<1> HIDE DEF ids2
<1>3. OwnedRefs(ids2, p) = OwnedRefs(ids, p)
  BY <1>2 DEF OwnedRefs, ObjectIds, ClassIds
<1>4. QED
  BY <1>1, <1>3 DEF ids2

-----------------------------------------------------------------------------
(* The inductive invariant                                                   *)

\* The scoped or weak objects that hold a reference.
SetRefs(r) == {h \in Handles : r[h] = "set"}

\* The types of the variables.  Only its own family has objects.
NativeType ==
    /\ world \in World
    /\ d \in Handed /\ priv \in Parts
    /\ ref \in [Handles -> {"none", "null", "set"}]
    /\ gone \in BOOLEAN
    /\ vm \in ViewModel \/ vm = NoViewModel
    /\ family # "qjni" => d = [h \in Handles |-> NoId]

\* Between two calls nothing is held that a call should have given back.
Settled == last = NoCall => Idle(world) /\ world.bad = {}

\* The inductive invariant: the three properties, and what the functions need of the
\* world they are called in.
NativeInv == NativeType /\ Settled /\ NoUnsafeCall /\ ResourcesReturned /\ RefsOwned

\* RefsOwned in terms of OwnedRefs and SetRefs.
LEMMA RefsForm ==
  RefsOwned <=>
      /\ world.held["global"] =
            OwnedRefs(d, priv) + (IF family = "scoped" THEN Cardinality(SetRefs(ref)) ELSE 0)
      /\ world.held["weak"] = IF family = "weak" THEN Cardinality(SetRefs(ref)) ELSE 0
BY DEF RefsOwned, OwnedRefs, ObjectIds, ClassIds, Live, SetRefs, IsSet

\* The same after a step.
LEMMA RefsNext ==
  RefsOwned' <=>
      /\ world.held["global"]' =
            OwnedRefs(d', priv') + (IF family' = "scoped" THEN Cardinality(SetRefs(ref')) ELSE 0)
      /\ world.held["weak"]' = IF family' = "weak" THEN Cardinality(SetRefs(ref')) ELSE 0
BY DEF RefsOwned, OwnedRefs, ObjectIds, ClassIds, Live, SetRefs, IsSet

-----------------------------------------------------------------------------
(* The end of a call                                                         *)

\* CallOk of a call that also makes or deletes references.
AccountOk(w, f, v) ==
    /\ Frame(w, v, KnownMisuse(f), KnownLeaks(f) \cup Refs)
    /\ v.exc => "exc" \in KnownLeaks(f)

\* No reference is a known leak.
LEMMA LeaksForm ==
  ASSUME NEW f
  PROVE  /\ KnownLeaks(f) \subseteq {"exc", "dl", "chars", "heap", "file", "fd", "qt"}
         /\ "global" \notin KnownLeaks(f) /\ "weak" \notin KnownLeaks(f)
BY DEF KnownLeaks

\* A call that does what it may is accounted for, and keeps the references as they are.
LEMMA CallAccount ==
  ASSUME NEW f, NEW w, NEW v, CallOk(w, f, v)
  PROVE  AccountOk(w, f, v) /\ v.held["global"] = w.held["global"] /\ v.held["weak"] = w.held["weak"]
<1>1. AccountOk(w, f, v)
  BY DEF CallOk, AccountOk, Frame, Refs
<1>2. QED
  BY <1>1, LeaksForm, KindsForm DEF CallOk, Frame

\* What an accounted call leaves of the invariant.
LEMMA AccountStep ==
  ASSUME NativeInv, NEW f, f \notin {NoCall, "ThreadExit"}, NEW o, Ends(f, o),
         last = NoCall => AccountOk(world, f, o.w)
  PROVE  /\ last = NoCall /\ Idle(world) /\ world' = o.w /\ family' = family
         /\ world' \in World /\ Settled' /\ NoUnsafeCall' /\ ResourcesReturned'
<1>1. last = NoCall /\ world' = o.w /\ last' = f /\ family' = family
  BY DEF Ends
<1>2. Idle(world) /\ world.bad = {} /\ AccountOk(world, f, o.w)
  BY <1>1 DEF NativeInv, Settled
<1>3. o.w \in World /\ o.w.bad \subseteq KnownMisuse(f)
  BY <1>2 DEF AccountOk, Frame
<1>4. \A k \in Transient : o.w.held[k] > 0 => k \in KnownLeaks(f)
  BY <1>2 DEF AccountOk, Frame, Idle, Refs, Transient, Kinds
<1>5. Settled' /\ NoUnsafeCall'
  BY <1>1, <1>3 DEF Settled, NoUnsafeCall
<1>6. ResourcesReturned'
  BY <1>1, <1>2, <1>4 DEF ResourcesReturned, Leftover, AccountOk
<1>7. QED
  BY <1>1, <1>2, <1>3, <1>5, <1>6

\* A call that leaves the handles alone.
LEMMA KeepStep ==
  ASSUME NativeInv, NEW f, f \notin {NoCall, "ThreadExit"}, NEW o, Ends(f, o),
         last = NoCall => CallOk(world, f, o.w),
         UNCHANGED <<d, priv, ref, gone>>, vm' \in ViewModel \/ vm' = NoViewModel
  PROVE  NativeInv'
<1>1. /\ last = NoCall /\ Idle(world) /\ world' = o.w /\ family' = family
      /\ world' \in World /\ Settled' /\ NoUnsafeCall' /\ ResourcesReturned'
  BY CallAccount, AccountStep
<1>2. world'.held["global"] = world.held["global"] /\ world'.held["weak"] = world.held["weak"]
  BY <1>1, CallAccount
<1>3. RefsOwned'
  BY <1>1, <1>2, RefsForm, RefsNext DEF NativeInv
<1>4. NativeType'
  BY <1>1 DEF NativeInv, NativeType
<1>5. QED
  BY <1>1, <1>3, <1>4 DEF NativeInv

\* A step of a function that is good keeps the invariant.
LEMMA GoodStep ==
  ASSUME NativeInv, GoodCall
  PROVE  NativeInv'
<1>1. PICK f, o : /\ f \notin {NoCall, "ThreadExit"}
                  /\ CallOk(world, f, o.w)
                  /\ Ends(f, o) /\ UNCHANGED objects
  BY DEF GoodCall
<1>2. UNCHANGED <<d, priv, ref, gone>> /\ (vm' \in ViewModel \/ vm' = NoViewModel)
  BY <1>1 DEF objects, NativeInv, NativeType
<1>3. QED
  BY <1>1, <1>2, KeepStep

\* JNI_OnLoad keeps the invariant.
LEMMA LoadStep ==
  ASSUME NativeInv, LoadLibrary
  PROVE  NativeInv'
<1>1. PICK o \in JNI_OnLoad(world, initialized) : Ends("JNI_OnLoad", o)
  BY DEF LoadLibrary
<1>2. last = NoCall => CallOk(world, "JNI_OnLoad", o.w)
  <2>1. last = NoCall => Idle(world)
    BY DEF NativeInv, Settled
  <2>2. QED
    BY <2>1, OnLoadForm, NothingOk
<1>3. UNCHANGED <<d, priv, ref, gone>> /\ (vm' \in ViewModel \/ vm' = NoViewModel)
  BY DEF LoadLibrary, NativeInv, NativeType
<1>4. QED
  BY <1>1, <1>2, <1>3, KeepStep DEF NoCall

\* A thread ends.
LEMMA ExitStep ==
  ASSUME NativeInv, ThreadExit
  PROVE  NativeInv'
<1> DEFINE v == IF world.attached = "fml" THEN DetachFromVM(world) ELSE world
<1>0. world \in World /\ world.attached # "java"
  BY DEF NativeInv, NativeType, ThreadExit
<1>1. v \in World /\ v.held = world.held /\ v.exc = world.exc /\ v.bad = world.bad /\ v.attached \in {"no", "qt"}
  BY <1>0 DEF World, DetachFromVM
<1> HIDE DEF v
<1>2. PICK o \in Got(v) : Ends("ThreadExit", o) /\ UNCHANGED objects
  BY DEF ThreadExit, Run, v
<1>3. last = NoCall /\ world' = v /\ last' = "ThreadExit" /\ family' = family
  BY <1>1, <1>2, GotForm DEF Ends
<1>4. Idle(world) /\ world.bad = {}
  BY <1>3 DEF NativeInv, Settled
<1>5. Settled' /\ NoUnsafeCall'
  BY <1>1, <1>3, <1>4 DEF Settled, NoUnsafeCall, NoCall
<1>6. ResourcesReturned'
  <2>1. KnownLeaks("ThreadExit") = {"qt"}
    BY DEF KnownLeaks
  <2>2. \A k \in Transient : ~(v.held[k] > 0)
    BY <1>1, <1>4 DEF Idle
  <2>3. ~v.exc
    BY <1>1, <1>4 DEF Idle
  <2>4. QED
    BY <1>1, <1>3, <2>1, <2>2, <2>3 DEF ResourcesReturned, Leftover
<1>7. RefsOwned'
  BY <1>1, <1>2, <1>3, RefsForm, RefsNext DEF NativeInv, objects
<1>8. NativeType'
  BY <1>1, <1>2, <1>3 DEF NativeInv, NativeType, objects
<1>9. QED
  BY <1>5, <1>6, <1>7, <1>8 DEF NativeInv

\* The functions and native methods that keep no object.
LEMMA FunctionForm ==
  ASSUME NativeInv, FunctionStep
  PROVE  NativeInv'
<1>1. last = NoCall => Idle(world)
  BY DEF NativeInv, Settled
<1>2. CASE EnvironmentCall
  <2>1. last = NoCall
    BY <1>2 DEF EnvironmentCall, Run, Ends
  <2>2. QED
    BY <1>1, <1>2, <2>1, EnvironmentGood, GoodStep
<1>3. CASE StaticCall
  <2>1. last = NoCall
    BY <1>3 DEF StaticCall, Run, Ends
  <2>2. QED
    BY <1>1, <1>3, <2>1, StaticGood, GoodStep
<1>4. CASE JniUtilCall
  <2>1. last = NoCall
    BY <1>4 DEF JniUtilCall, Run, Ends
  <2>2. QED
    BY <1>1, <1>4, <2>1, JniUtilGood, GoodStep
<1>5. CASE SnappyCall
  <2>1. last = NoCall
    BY <1>5 DEF SnappyCall, Run, Ends
  <2>2. QED
    BY <1>1, <1>5, <2>1, SnappyGood, GoodStep
<1>6. CASE AppCall
  <2>1. last = NoCall
    BY <1>6 DEF AppCall, Run, Ends
  <2>2. QED
    BY <1>1, <1>6, <2>1, AppGood, GoodStep
<1>7. CASE ProbeCall
  <2>1. last = NoCall
    BY <1>7 DEF ProbeCall, Run, Ends
  <2>2. QED
    BY <1>1, <1>7, <2>1, ProbeGood, GoodStep
<1>8. QED
  BY <1>2, <1>3, <1>4, <1>5, <1>6, <1>7, ExitStep, LoadStep DEF FunctionStep

-----------------------------------------------------------------------------
(* Steps of QJniObjects                                                      *)

\* What holds before a call on QJniObjects.
LEMMA QBefore ==
  ASSUME NativeInv, family = "qjni", last = NoCall
  PROVE  /\ Idle(world) /\ world \in World /\ Calm(world) /\ d \in Handed /\ priv \in Parts
         /\ world.held["global"] = OwnedRefs(d, priv) /\ world.held["weak"] = 0
         /\ OwnedRefs(d, priv) \in Nat
<1>1. Idle(world) /\ world \in World /\ Calm(world) /\ d \in Handed /\ priv \in Parts
  BY IdleCalm DEF NativeInv, NativeType, Settled
<1>2. OwnedRefs(d, priv) \in Nat
  BY OwnedFinite DEF OwnedRefs
<1>3. QED
  BY <1>1, <1>2, RefsForm DEF NativeInv

\* The invariant after a call on QJniObjects.
LEMMA QAfter ==
  ASSUME NativeInv, family = "qjni", NEW f, f \notin {NoCall, "ThreadExit"}, NEW o, Ends(f, o),
         AccountOk(world, f, o.w), d' \in Handed, priv' \in Parts, UNCHANGED <<ref, gone, vm>>,
         o.w.held["global"] = OwnedRefs(d', priv'), o.w.held["weak"] = world.held["weak"]
  PROVE  NativeInv'
<1>1. /\ last = NoCall /\ Idle(world) /\ world' = o.w /\ family' = family
      /\ world' \in World /\ Settled' /\ NoUnsafeCall' /\ ResourcesReturned'
  BY AccountStep
<1>2. world.held["weak"] = 0
  BY <1>1, QBefore
<1>3. OwnedRefs(d', priv') \in Nat
  BY OwnedFinite DEF OwnedRefs
<1>4. RefsOwned'
  BY <1>1, <1>2, <1>3, RefsNext
<1>5. NativeType'
  BY <1>1 DEF NativeInv, NativeType
<1>6. QED
  BY <1>1, <1>4, <1>5 DEF NativeInv

\* A QJniObject is made in a variable that has none.
LEMMA MakeForm ==
  ASSUME NativeInv, family = "qjni", NEW f, f \notin {NoCall, "ThreadExit"}, NEW h \in Handles, NEW S,
         Make(f, h, S), last = NoCall => \A o \in S : Makes(world, o, KnownMisuse(f))
  PROVE  NativeInv'
<1>1. PICK o \in S : d[h] = NoId /\ Ends(f, o) /\ SetTo(h, o)
  BY DEF Make
<1>2. last = NoCall
  BY <1>1 DEF Ends
<1>3. Makes(world, o, KnownMisuse(f))
  BY <1>2
<1>4. /\ d \in Handed /\ priv \in Parts /\ world.held["global"] = OwnedRefs(d, priv)
  BY <1>2, QBefore
<1>5. Unused(h) \in Ids /\ \A g \in Handles \ {h} : d[g] # Unused(h)
  BY <1>4, UnusedForm
<1>6. o.r \in Objects
  BY <1>3 DEF Makes, Yields, Outcomes
<1>7. PICK n : n = Unused(h)
  OBVIOUS
<1>8. d' = [d EXCEPT ![h] = n] /\ priv' = [priv EXCEPT ![n] = o.r] /\ UNCHANGED <<ref, gone, vm>>
  BY <1>1, <1>7 DEF SetTo
<1>9. d' \in Handed /\ priv' \in Parts /\ OwnedRefs(d', priv') = OwnedRefs(d, priv) + Owned(o.r)
  <2>1. d[h] = NoId /\ n \in Ids /\ \A g \in Handles \ {h} : d[g] # n
    BY <1>1, <1>5, <1>7
  <2>2. /\ [d EXCEPT ![h] = n] \in Handed /\ [priv EXCEPT ![n] = o.r] \in Parts
        /\ OwnedRefs([d EXCEPT ![h] = n], [priv EXCEPT ![n] = o.r]) =
              OwnedRefs(d, priv) + Owned(o.r)
    BY <1>4, <1>6, <2>1, AddPart
  <2>3. QED
    BY <1>8, <2>2
<1>10. AccountOk(world, f, o.w)
  BY <1>3 DEF Makes, Yields, Frame, AccountOk, Refs
<1>11. o.w.held["weak"] = world.held["weak"] /\ o.w.held["global"] = OwnedRefs(d', priv')
  BY <1>3, <1>4, <1>9, KindsForm DEF Makes, Yields, Frame
<1>12. QED
  BY <1>1, <1>8, <1>9, <1>10, <1>11, QAfter

\* The constructors and the functions that return a QJniObject.
LEMMA ConstructForm ==
  ASSUME NativeInv, family = "qjni", NEW h \in Handles, Construct(h)
  PROVE  NativeInv'
<1> DEFINE A == callStaticObjectMethodByName(world) \cup callStaticObjectMethodVByName(world)
           B(clazz) == callStaticObjectMethod(world, clazz)
                       \cup callStaticObjectMethodById(world, clazz, TRUE)
           C == Then(JniGet(world), fromLocalRef)
           D == Res(world, NoQ)
<1>0. last = NoCall => world \in World /\ Calm(world)
  BY QBefore
<1> USE DEF NoCall
<1>1. CASE Make("QJniObject", h, D)
  <2>1. last = NoCall => \A o \in D : Makes(world, o, KnownMisuse("QJniObject"))
    <3>1. ASSUME last = NoCall, NEW o \in D PROVE Makes(world, o, KnownMisuse("QJniObject"))
      <4>1. o \in Outcomes(Objects) /\ o.w = world /\ o.r = NoQ
        BY <1>0, <3>1, QForm, QResForm
      <4>2. world.held["global"] \in Nat
        BY <1>0, <3>1, WorldForm, KindsForm
      <4>3. QED
        BY <1>0, <3>1, <4>1, <4>2, QForm DEF Makes, Yields, Frame, Calm
    <3>2. QED
      BY <3>1
  <2> HIDE DEF D
  <2>2. QED
    BY <1>1, <2>1, MakeForm
<1>2. CASE Make("QJniObjectByName", h, ConstructByName(world))
  <2>1. last = NoCall => \A o \in ConstructByName(world) : Makes(world, o, KnownMisuse("QJniObjectByName"))
    BY <1>0, ConstructByNameForm DEF Makes, Yields, Frame
  <2>2. QED
    BY <1>2, <2>1, MakeForm
<1>3. ASSUME NEW clazz \in BOOLEAN, Make("QJniObjectByClass", h, ConstructByClass(world, clazz))
      PROVE  NativeInv'
  <2>1. last = NoCall => \A o \in ConstructByClass(world, clazz) :
                            Makes(world, o, KnownMisuse("QJniObjectByClass"))
    BY <1>0, ConstructByClassForm DEF Makes, Yields, Frame
  <2>2. QED
    BY <1>3, <2>1, MakeForm
<1>4. ASSUME NEW nonnull \in BOOLEAN, Make("QJniObjectOf", h, FromObject(world, nonnull))
      PROVE  NativeInv'
  <2>1. last = NoCall => \A o \in FromObject(world, nonnull) :
                            Makes(world, o, KnownMisuse("QJniObjectOf"))
    BY <1>0, FromObjectForm DEF Makes, Yields, Frame
  <2>2. QED
    BY <1>4, <2>1, MakeForm
<1>5. CASE Make("fromString", h, fromString(world))
  <2>1. last = NoCall => \A o \in fromString(world) : Makes(world, o, KnownMisuse("fromString"))
    BY <1>0, FromStringForm DEF Makes, Yields, Frame
  <2>2. QED
    BY <1>5, <2>1, MakeForm
<1>6. CASE Make("fromLocalRef", h, C)
  <2>1. last = NoCall => \A o \in C : Makes(world, o, KnownMisuse("fromLocalRef"))
    <3>1. last = NoCall => \A o \in C : Makes(world, o, {})
      BY <1>0, FromLocalForm
    <3> HIDE DEF C
    <3>2. QED
      BY <3>1 DEF Makes, Yields, Frame
  <2> HIDE DEF C
  <2>2. QED
    BY <1>6, <2>1, MakeForm
<1>7. CASE \/ Make("callStaticObjectMethodByName", h, A)
           \/ Make("getStaticObjectFieldByName", h, getStaticObjectFieldByName(world))
  <2>1. last = NoCall => \A f : \A o \in A \cup getStaticObjectFieldByName(world) :
                            Makes(world, o, KnownMisuse(f))
    <3>1. last = NoCall => \A o \in A \cup getStaticObjectFieldByName(world) : Makes(world, o, {})
      BY <1>0, ByNameObjectForm
    <3> HIDE DEF A
    <3>2. QED
      BY <3>1 DEF Makes, Yields, Frame
  <2> HIDE DEF A
  <2>2. QED
    BY <1>7, <2>1, MakeForm
<1>8. ASSUME NEW clazz \in BOOLEAN, Make("callStaticObjectMethod", h, B(clazz))
      PROVE  NativeInv'
  <2>1. last = NoCall => \A o \in B(clazz) : Makes(world, o, KnownMisuse("callStaticObjectMethod"))
    BY <1>0, StaticObjectForm
  <2> HIDE DEF B
  <2>2. QED
    BY <1>8, <2>1, MakeForm
<1>9. ASSUME NEW clazz \in BOOLEAN,
             \/ Make("callStaticObjectMethodV", h, callStaticObjectMethodV(world, clazz))
             \/ Make("getStaticObjectField", h, getStaticObjectField(world, clazz))
      PROVE  NativeInv'
  <2>1. last = NoCall => \A o \in callStaticObjectMethodV(world, clazz) :
                            Makes(world, o, KnownMisuse("callStaticObjectMethodV"))
    BY <1>0, StaticObjectForm, KnownForm
  <2>2. last = NoCall => \A o \in getStaticObjectField(world, clazz) :
                            Makes(world, o, KnownMisuse("getStaticObjectField"))
    BY <1>0, StaticObjectForm, KnownForm
  <2>3. QED
    BY <1>9, <2>1, <2>2, MakeForm
<1> HIDE DEF A, B, C, D
<1>10. \/ Make("QJniObject", h, D)
       \/ Make("QJniObjectByName", h, ConstructByName(world))
       \/ \E clazz \in BOOLEAN : Make("QJniObjectByClass", h, ConstructByClass(world, clazz))
       \/ \E nonnull \in BOOLEAN : Make("QJniObjectOf", h, FromObject(world, nonnull))
       \/ Make("fromString", h, fromString(world))
       \/ Make("fromLocalRef", h, C)
       \/ Make("callStaticObjectMethodByName", h, A)
       \/ Make("getStaticObjectFieldByName", h, getStaticObjectFieldByName(world))
       \/ \E clazz \in BOOLEAN :
            \/ Make("callStaticObjectMethod", h, B(clazz))
            \/ Make("callStaticObjectMethodV", h, callStaticObjectMethodV(world, clazz))
            \/ Make("getStaticObjectField", h, getStaticObjectField(world, clazz))
  BY DEF Construct, A, B, C, D
<1>11. QED
  BY <1>1, <1>2, <1>3, <1>4, <1>5, <1>6, <1>7, <1>8, <1>9, <1>10

\* A handle lets go of its private part, which may destroy it.
LEMMA LetGoForm ==
  ASSUME d \in Handed, priv \in Parts, NEW h \in Handles, d[h] # NoId,
         NEW w \in World, ~w.exc, w.held["global"] = OwnedRefs(d, priv)
  PROVE  LET v == LetGo(w, h)
             ids == [d EXCEPT ![h] = NoId]
         IN  /\ v \in World /\ ~v.exc /\ v.bad = w.bad
             /\ ids \in Handed /\ ids[h] = NoId /\ v.held["global"] = OwnedRefs(ids, priv)
             /\ \A k \in Kinds \ {"global"} : v.held[k] = w.held[k]
<1> DEFINE ids == [d EXCEPT ![h] = NoId]
           q == priv[d[h]]
           v == LetGo(w, h)
<1>1. /\ ids \in Handed /\ ids[h] = NoId /\ q \in Objects /\ Owned(q) \in Nat
      /\ OwnedRefs(d, priv) \in Nat /\ OwnedRefs(d, priv) >= Owned(q)
      /\ OwnedRefs(ids, priv) = OwnedRefs(d, priv) - (IF Used(d, h) THEN 0 ELSE Owned(q))
  BY DropPart
<1> HIDE DEF ids
<1>2. CASE Used(d, h)
  <2>1. v = w
    BY <1>2 DEF LetGo
  <2>2. v.held["global"] = OwnedRefs(ids, priv)
    BY <1>1, <1>2, <2>1
  <2>3. QED
    BY <1>1, <2>1, <2>2 DEF ids
<1>3. CASE ~Used(d, h)
  <2>1. v = DestroyPrivate(w, q)
    BY <1>3 DEF LetGo
  <2> HIDE DEF q, v
  <2>2. /\ v \in World /\ ~v.exc /\ v.bad = w.bad
        /\ v.held["global"] = w.held["global"] - Owned(q)
        /\ \A k \in Kinds \ {"global"} : v.held[k] = w.held[k]
    BY <1>1, <2>1, DestroyForm
  <2>3. v.held["global"] = OwnedRefs(ids, priv)
    BY <1>1, <1>3, <2>2
  <2>4. QED
    BY <1>1, <2>2, <2>3 DEF ids, v
<1>4. QED
  BY <1>2, <1>3

\* A copy shares the private part: no reference is made.
LEMMA CopyForm ==
  ASSUME NativeInv, family = "qjni", NEW h \in Handles, NEW g \in Handles, CopyObject(h, g)
  PROVE  NativeInv'
<1> DEFINE o == [w |-> world]
<1>1. /\ d[h] = NoId /\ d[g] # NoId /\ Ends("copy", o) /\ d' = [d EXCEPT ![h] = d[g]]
      /\ priv' = priv /\ UNCHANGED <<ref, gone, vm>>
  BY DEF CopyObject
<1>2. o.w = world /\ last = NoCall
  BY <1>1 DEF Ends
<1> HIDE DEF o
<1>3. /\ Idle(world) /\ world \in World /\ Calm(world) /\ d \in Handed /\ priv \in Parts
      /\ world.held["global"] = OwnedRefs(d, priv)
  BY <1>2, QBefore
<1>4. d' \in Handed /\ OwnedRefs(d', priv') = OwnedRefs(d, priv)
  BY <1>1, <1>3, SharePart
<1>5. AccountOk(world, "copy", o.w)
  BY <1>2, <1>3 DEF AccountOk, Frame, Calm
<1>6. priv' \in Parts /\ o.w.held["global"] = OwnedRefs(d', priv') /\ o.w.held["weak"] = world.held["weak"]
  BY <1>1, <1>2, <1>3, <1>4
<1>7. QED
  BY <1>1, <1>4, <1>5, <1>6, QAfter DEF NoCall

\* An assignment deletes the references of the old private part if no copy has it.
LEMMA AssignObjectForm ==
  ASSUME NativeInv, family = "qjni", NEW h \in Handles, NEW g \in Handles, AssignObject(h, g)
  PROVE  NativeInv'
<1> DEFINE o == [w |-> LetGo(world, h)]
           ids == [d EXCEPT ![h] = NoId]
           v == LetGo(world, h)
<1>1. /\ d[h] # NoId /\ d[g] # NoId /\ d[h] # d[g] /\ Ends("assign", o) /\ d' = [d EXCEPT ![h] = d[g]]
      /\ priv' = priv /\ UNCHANGED <<ref, gone, vm>>
  BY DEF AssignObject
<1>2. o.w = v /\ last = NoCall
  BY <1>1 DEF Ends
<1>3. /\ Idle(world) /\ world \in World /\ Calm(world) /\ d \in Handed /\ priv \in Parts
      /\ world.held["global"] = OwnedRefs(d, priv)
  BY <1>2, QBefore
<1>4. /\ v \in World /\ ~v.exc /\ v.bad = world.bad
      /\ ids \in Handed /\ ids[h] = NoId /\ v.held["global"] = OwnedRefs(ids, priv)
      /\ \A k \in Kinds \ {"global"} : v.held[k] = world.held[k]
  BY <1>1, <1>3, LetGoForm DEF Calm
<1>0. g # h
  BY <1>1
<1>5. ids[g] = d[g] /\ d' = [ids EXCEPT ![h] = ids[g]]
  <2>1. ids[g] = d[g]
    BY <1>0, <1>3 DEF Handed
  <2>2. [ids EXCEPT ![h] = d[g]] = [d EXCEPT ![h] = d[g]]
    BY <1>3 DEF Handed
  <2>3. QED
    BY <1>1, <2>1, <2>2
<1> HIDE DEF o, v, ids
<1>6. d' \in Handed /\ OwnedRefs(d', priv') = OwnedRefs(ids, priv)
  <2>1. ids[g] # NoId
    BY <1>1, <1>5
  <2>2. /\ [ids EXCEPT ![h] = ids[g]] \in Handed
        /\ OwnedRefs([ids EXCEPT ![h] = ids[g]], priv) = OwnedRefs(ids, priv)
    BY <1>3, <1>4, <2>1, SharePart
  <2>3. QED
    BY <1>1, <1>5, <2>2
<1>7. AccountOk(world, "assign", o.w)
  BY <1>2, <1>4 DEF AccountOk, Frame, Refs
<1>8. priv' \in Parts /\ o.w.held["global"] = OwnedRefs(d', priv') /\ o.w.held["weak"] = world.held["weak"]
  BY <1>1, <1>2, <1>3, <1>4, <1>6, KindsForm
<1>9. QED
  BY <1>1, <1>6, <1>7, <1>8, QAfter DEF NoCall

\* The last of the copies deletes the references.
LEMMA DestroyObjectForm ==
  ASSUME NativeInv, family = "qjni", NEW h \in Handles, DestroyObject(h)
  PROVE  NativeInv'
<1> DEFINE o == [w |-> LetGo(world, h)]
           ids == [d EXCEPT ![h] = NoId]
           v == LetGo(world, h)
<1>1. /\ d[h] # NoId /\ Ends("destroy", o) /\ d' = ids
      /\ priv' = priv /\ UNCHANGED <<ref, gone, vm>>
  BY DEF DestroyObject
<1>2. o.w = v /\ last = NoCall
  BY <1>1 DEF Ends
<1>3. /\ Idle(world) /\ world \in World /\ Calm(world) /\ d \in Handed /\ priv \in Parts
      /\ world.held["global"] = OwnedRefs(d, priv)
  BY <1>2, QBefore
<1>4. /\ v \in World /\ ~v.exc /\ v.bad = world.bad
      /\ ids \in Handed /\ v.held["global"] = OwnedRefs(ids, priv)
      /\ \A k \in Kinds \ {"global"} : v.held[k] = world.held[k]
  BY <1>1, <1>3, LetGoForm DEF Calm
<1> HIDE DEF o, v, ids
<1>7. AccountOk(world, "destroy", o.w)
  BY <1>2, <1>4 DEF AccountOk, Frame, Refs
<1>8. /\ d' \in Handed /\ priv' \in Parts /\ o.w.held["global"] = OwnedRefs(d', priv')
      /\ o.w.held["weak"] = world.held["weak"]
  BY <1>1, <1>2, <1>3, <1>4, KindsForm
<1>9. QED
  BY <1>1, <1>7, <1>8, QAfter DEF NoCall

\* operator=(jobject).
LEMMA AssignForm ==
  ASSUME NativeInv, family = "qjni", NEW h \in Handles, NEW nonnull \in BOOLEAN, assign(h, nonnull)
  PROVE  NativeInv'
<1>1. PICK o \in isSameObject(world, priv[d[h]], nonnull) :
          \/ o.r /\ Ends("assign", o) /\ UNCHANGED objects
          \/ ~o.r /\ \E p \in FromObject(LetGo(o.w, h), nonnull) : Ends("assign", p) /\ SetTo(h, p)
  BY DEF assign
<1>2. last = NoCall /\ d[h] # NoId
  BY <1>1 DEF Ends, assign
<1>3. /\ Idle(world) /\ world \in World /\ Calm(world) /\ d \in Handed /\ priv \in Parts
      /\ world.held["global"] = OwnedRefs(d, priv)
  BY <1>2, QBefore
<1>4. o.w \in World /\ Quiet(world, o.w)
  BY <1>3, SameForm
<1>5. CASE o.r /\ Ends("assign", o) /\ UNCHANGED objects
  <2>1. CallOk(world, "assign", o.w)
    BY <1>4, QuietTidy, NothingOk
  <2>2. UNCHANGED <<d, priv, ref, gone>> /\ (vm' \in ViewModel \/ vm' = NoViewModel)
    BY <1>5 DEF objects, NativeInv, NativeType
  <2>3. QED
    BY <1>5, <2>1, <2>2, KeepStep DEF NoCall
<1>6. CASE \E p \in FromObject(LetGo(o.w, h), nonnull) : Ends("assign", p) /\ SetTo(h, p)
  <2> DEFINE v == LetGo(o.w, h)
             ids == [d EXCEPT ![h] = NoId]
  <2>1. PICK p \in FromObject(v, nonnull) : Ends("assign", p) /\ SetTo(h, p)
    BY <1>6
  <2>2. ~o.w.exc /\ o.w.bad = world.bad /\ o.w.held = world.held
    BY <1>4 DEF Quiet
  <2>3. /\ v \in World /\ ~v.exc /\ v.bad = o.w.bad
        /\ ids \in Handed /\ ids[h] = NoId /\ v.held["global"] = OwnedRefs(ids, priv)
        /\ \A k \in Kinds \ {"global"} : v.held[k] = o.w.held[k]
    BY <1>2, <1>3, <1>4, <2>2, LetGoForm
  <2>4. PICK n : n = Unused(h)
    OBVIOUS
  <2>5. n \in Ids /\ \A g \in Handles \ {h} : d[g] # n
    BY <1>3, <2>4, UnusedForm
  <2>6. /\ \A g \in Handles \ {h} : ids[g] # n
        /\ d' = [ids EXCEPT ![h] = n] /\ priv' = [priv EXCEPT ![n] = p.r] /\ UNCHANGED <<ref, gone, vm>>
    BY <1>3, <2>1, <2>4, <2>5 DEF SetTo, Handed
  <2> HIDE DEF v, ids
  <2>7. Calm(v)
    BY <1>3, <2>2, <2>3, KindsForm DEF Calm
  <2>8. Makes(v, p, {})
    BY <2>1, <2>3, <2>7, FromObjectForm
  <2>9. p.r \in Objects /\ p.w.held["global"] = v.held["global"] + Owned(p.r)
    BY <2>8 DEF Makes, Yields, Outcomes
  <2>10. d' \in Handed /\ priv' \in Parts /\ OwnedRefs(d', priv') = OwnedRefs(ids, priv) + Owned(p.r)
    BY <1>3, <2>3, <2>5, <2>6, <2>9, AddPart
  <2>11. AccountOk(world, "assign", p.w)
    BY <2>2, <2>3, <2>8 DEF AccountOk, Makes, Yields, Frame, Refs
  <2>12. p.w.held["weak"] = world.held["weak"]
    BY <2>2, <2>3, <2>8, KindsForm DEF Makes, Yields, Frame
  <2>13. p.w.held["global"] = OwnedRefs(d', priv')
    BY <2>3, <2>9, <2>10
  <2>14. QED
    BY <2>1, <2>6, <2>10, <2>11, <2>12, <2>13, QAfter DEF NoCall
<1>7. QED
  BY <1>1, <1>5, <1>6

\* Methods and fields.
LEMMA ObjectCallForm ==
  ASSUME NativeInv, family = "qjni", NEW h \in Handles, ObjectCall(h)
  PROVE  NativeInv'
<1> DEFINE q == priv[d[h]]
           A == getField(world, q) \cup setField(world, q)
           B == callObjectMethod(world, q) \cup callObjectMethodV(world, q) \cup getObjectField(world, q)
<1>1. d[h] # NoId /\ q.obj
  BY DEF ObjectCall
<1>2. \/ Run("callMethod", callMethod(world, q))
      \/ Run("getField", A)
      \/ Run("toString", toString(world, q))
      \/ \E g \in Handles : Make("callObjectMethod", g, B)
  BY DEF ObjectCall
<1>3. last = NoCall
  BY <1>2 DEF Run, Make, Ends
<1>4. /\ world \in World /\ Calm(world) /\ d \in Handed /\ priv \in Parts
  BY <1>3, QBefore
<1>5. q \in Objects /\ q.cls
  BY <1>1, <1>4 DEF Handed, Parts, Objects
<1>6. \A o \in callMethod(world, q) \cup A : Tidy(world, o.w, {}, {})
  <2> HIDE DEF q
  <2>1. QED
    BY <1>1, <1>4, <1>5, MethodForm
<1>7. \A o \in toString(world, q) : Tidy(world, o.w, {"null"}, {"chars", "class"})
  <2> HIDE DEF q
  <2>1. QED
    BY <1>1, <1>4, <1>5, ToStringForm
<1>8. \A o \in B : Makes(world, o, {})
  <2> HIDE DEF q
  <2>1. QED
    BY <1>1, <1>4, <1>5, ObjectMethodForm
<1> HIDE DEF q, A, B
<1> USE DEF NoCall
<1>9. CASE Run("callMethod", callMethod(world, q)) \/ Run("getField", A)
  <2>1. \A f : \A o \in callMethod(world, q) \cup A : CallOk(world, f, o.w)
    BY <1>6, NothingOk
  <2>2. QED
    BY <1>9, <2>1, RunGood, GoodStep
<1>10. CASE Run("toString", toString(world, q))
  <2>1. \A o \in toString(world, q) : CallOk(world, "toString", o.w)
    BY <1>7, KnownForm, TidyOk
  <2>2. QED
    BY <1>10, <2>1, RunGood, GoodStep
<1>11. ASSUME NEW g \in Handles, Make("callObjectMethod", g, B) PROVE NativeInv'
  <2>1. \A o \in B : Makes(world, o, KnownMisuse("callObjectMethod"))
    BY <1>8 DEF Makes, Yields, Frame
  <2>2. QED
    BY <1>11, <2>1, MakeForm
<1>12. QED
  BY <1>2, <1>9, <1>10, <1>11

\* The steps of QJniObjects.
LEMMA QJniForm ==
  ASSUME NativeInv, QJniStep
  PROVE  NativeInv'
BY LoadStep, ConstructForm, CopyForm, AssignObjectForm, DestroyObjectForm, AssignForm,
   ObjectCallForm DEF QJniStep

-----------------------------------------------------------------------------
(* Steps of scoped and weak references                                       *)

\* A set with one element put in or taken out.
LEMMA CountOne ==
  ASSUME NEW A, IsFiniteSet(A), Cardinality(A) \in Nat, NEW h, NEW b \in BOOLEAN,
         NEW T, T = IF b THEN A \cup {h} ELSE A \ {h}
  PROVE  Cardinality(T) = Cardinality(A) + (IF b THEN 1 ELSE 0) - (IF h \in A THEN 1 ELSE 0)
<1>1. Cardinality(A \cup {h}) = IF h \in A THEN Cardinality(A) ELSE Cardinality(A) + 1
  BY FS_AddElement
<1>2. Cardinality(A \ {h}) = IF h \in A THEN Cardinality(A) - 1 ELSE Cardinality(A)
  BY FS_RemoveElement
<1>3. CASE b
  <2>1. T = A \cup {h}
    BY <1>3
  <2>2. QED
    BY <1>1, <1>3, <2>1
<1>4. CASE ~b
  <2>1. T = A \ {h}
    BY <1>4
  <2>2. QED
    BY <1>2, <1>4, <2>1
<1>5. QED
  BY <1>3, <1>4

\* The references that are set, counted after one of them changed.
LEMMA SetRefsForm ==
  ASSUME ref \in [Handles -> {"none", "null", "set"}], NEW h \in Handles,
         NEW b \in BOOLEAN, NEW x \in {"none", "null"},
         NEW r2, r2 = [ref EXCEPT ![h] = IF b THEN "set" ELSE x]
  PROVE  /\ r2 \in [Handles -> {"none", "null", "set"}]
         /\ Cardinality(SetRefs(ref)) \in Nat
         /\ IsSet(h) => Cardinality(SetRefs(ref)) > 0
         /\ Cardinality(SetRefs(r2)) =
               Cardinality(SetRefs(ref)) + (IF b THEN 1 ELSE 0) - (IF IsSet(h) THEN 1 ELSE 0)
<1> DEFINE A == SetRefs(ref)
<1>1. r2 \in [Handles -> {"none", "null", "set"}]
  OBVIOUS
<1>2. IsFiniteSet(A) /\ Cardinality(A) \in Nat
  <2>1. A \subseteq Handles
    BY DEF SetRefs
  <2>2. QED
    BY <2>1, HandlesAssumption, FS_Subset, FS_CardinalityType
<1>3. SetRefs(r2) = IF b THEN A \cup {h} ELSE A \ {h}
  BY DEF SetRefs
<1>4. h \in A <=> IsSet(h)
  BY DEF SetRefs, IsSet
<1> HIDE DEF A
<1>7. h \in A => Cardinality(A) > 0
  <2>1. A = {} <=> Cardinality(A) = 0
    BY <1>2, FS_EmptySet
  <2>2. QED
    BY <1>2, <2>1
<1>8. Cardinality(SetRefs(r2)) = Cardinality(A) + (IF b THEN 1 ELSE 0) - (IF IsSet(h) THEN 1 ELSE 0)
  <2>1. PICK T : T = SetRefs(r2)
    OBVIOUS
  <2>2. Cardinality(T) = Cardinality(A) + (IF b THEN 1 ELSE 0) - (IF h \in A THEN 1 ELSE 0)
    BY <1>2, <1>3, <2>1, CountOne
  <2>3. (IF h \in A THEN 1 ELSE 0) = (IF IsSet(h) THEN 1 ELSE 0)
    BY <1>4
  <2>4. QED
    BY <2>1, <2>2, <2>3
<1>9. QED
  BY <1>1, <1>2, <1>4, <1>7, <1>8 DEF A

\* The kind of references of a family.
RefKind == IF family = "scoped" THEN "global" ELSE "weak"

\* What holds before a call on scoped or weak references.
LEMMA RefBefore ==
  ASSUME NativeInv, family \in {"scoped", "weak"}, last = NoCall
  PROVE  /\ Idle(world) /\ world \in World /\ Calm(world)
         /\ ref \in [Handles -> {"none", "null", "set"}]
         /\ OwnedRefs(d, priv) = 0
         /\ world.held[RefKind] = Cardinality(SetRefs(ref))
         /\ \A j \in {"global", "weak"} : j # RefKind => world.held[j] = 0
         /\ \A h \in Handles : IsSet(h) => world.held[RefKind] > 0
<1>1. /\ Idle(world) /\ world \in World /\ Calm(world)
      /\ ref \in [Handles -> {"none", "null", "set"}] /\ d = [h \in Handles |-> NoId]
  BY IdleCalm DEF NativeInv, NativeType, Settled
<1>2. OwnedRefs(d, priv) = 0
  <2>1. Live(d) = {}
    BY <1>1, IdsForm DEF Live
  <2>2. ObjectIds(d, priv) = {} /\ ClassIds(d, priv) = {}
    BY <2>1 DEF ObjectIds, ClassIds
  <2>3. QED
    BY <2>2, FS_EmptySet DEF OwnedRefs
<1>3. \A h \in Handles : Cardinality(SetRefs(ref)) \in Nat /\ (IsSet(h) => Cardinality(SetRefs(ref)) > 0)
  <2>1. ASSUME NEW h \in Handles
        PROVE  Cardinality(SetRefs(ref)) \in Nat /\ (IsSet(h) => Cardinality(SetRefs(ref)) > 0)
    <3>1. PICK r2 : r2 = [ref EXCEPT ![h] = IF TRUE THEN "set" ELSE "none"]
      OBVIOUS
    <3>2. QED
      BY <1>1, <3>1, SetRefsForm
  <2>2. QED
    BY <2>1
<1>4. Cardinality(SetRefs(ref)) \in Nat
  <2>1. SetRefs(ref) \subseteq Handles
    BY DEF SetRefs
  <2>2. QED
    BY <2>1, HandlesAssumption, FS_Subset, FS_CardinalityType
<1>5. /\ world.held["global"] = OwnedRefs(d, priv) + (IF family = "scoped" THEN Cardinality(SetRefs(ref)) ELSE 0)
      /\ world.held["weak"] = IF family = "weak" THEN Cardinality(SetRefs(ref)) ELSE 0
  BY RefsForm DEF NativeInv
<1>6. /\ world.held[RefKind] = Cardinality(SetRefs(ref))
      /\ \A j \in {"global", "weak"} : j # RefKind => world.held[j] = 0
  BY <1>2, <1>4, <1>5 DEF RefKind
<1>7. QED
  BY <1>1, <1>2, <1>3, <1>6

\* One reference changes, and the machine's count with it.
LEMMA SetRefForm ==
  ASSUME NativeInv, family \in {"scoped", "weak"}, NEW f, f \notin {NoCall, "ThreadExit"},
         NEW h \in Handles, NEW o, NEW exists \in BOOLEAN, SetRef(f, h, o, exists), o.r \in BOOLEAN,
         last = NoCall => Swaps(world, o.w, RefKind, IsSet(h), o.r)
  PROVE  NativeInv'
<1>1. /\ Ends(f, o) /\ UNCHANGED <<d, priv, gone, vm>>
      /\ ref' = [ref EXCEPT ![h] = IF o.r THEN "set" ELSE IF exists THEN "null" ELSE "none"]
  BY DEF SetRef
<1>2. last = NoCall /\ Swaps(world, o.w, RefKind, IsSet(h), o.r)
  BY <1>1 DEF Ends
<1>3. /\ Idle(world) /\ world \in World
      /\ ref \in [Handles -> {"none", "null", "set"}]
      /\ OwnedRefs(d, priv) = 0
      /\ world.held[RefKind] = Cardinality(SetRefs(ref))
      /\ \A j \in {"global", "weak"} : j # RefKind => world.held[j] = 0
  BY <1>2, RefBefore
<1>4. PICK x \in {"none", "null"} : x = IF exists THEN "null" ELSE "none"
  OBVIOUS
<1>5. /\ ref' \in [Handles -> {"none", "null", "set"}]
      /\ Cardinality(SetRefs(ref')) =
            Cardinality(SetRefs(ref)) + (IF o.r THEN 1 ELSE 0) - (IF IsSet(h) THEN 1 ELSE 0)
      /\ Cardinality(SetRefs(ref)) \in Nat
  <2>1. ref' = [ref EXCEPT ![h] = IF o.r THEN "set" ELSE x]
    BY <1>1, <1>4
  <2>2. ref \in [Handles -> {"none", "null", "set"}]
    BY <1>3
  <2>3. QED
    BY <2>1, <2>2, SetRefsForm
<1>6. RefKind \in {"global", "weak"} /\ RefKind \in Refs
  BY DEF RefKind, Refs
<1>7. AccountOk(world, f, o.w)
  <2>1. o.w \in World /\ ~o.w.exc /\ o.w.bad = world.bad /\ \A j \in Kinds : j # RefKind => o.w.held[j] = world.held[j]
    BY <1>2 DEF Swaps, Calm
  <2>2. QED
    BY <1>6, <2>1 DEF AccountOk, Frame
<1>8. /\ world' = o.w /\ family' = family
      /\ world' \in World /\ Settled' /\ NoUnsafeCall' /\ ResourcesReturned'
  BY <1>1, <1>7, AccountStep
<1>9. /\ o.w.held[RefKind] = Cardinality(SetRefs(ref'))
      /\ \A j \in {"global", "weak"} : j # RefKind => o.w.held[j] = 0
  BY <1>2, <1>3, <1>5, KindsForm DEF Swaps
<1>10. OwnedRefs(d', priv') = 0
  BY <1>1, <1>3
<1>11. Cardinality(SetRefs(ref')) \in Nat
  <2>1. o.w.held[RefKind] \in Nat
    BY <1>6, <1>8, WorldForm, KindsForm
  <2>2. QED
    BY <1>9, <2>1
<1>12. RefsOwned'
  <2>1. CASE family = "scoped"
    <3>1. o.w.held["global"] = Cardinality(SetRefs(ref')) /\ o.w.held["weak"] = 0
      BY <1>9, <2>1 DEF RefKind
    <3>2. QED
      BY <1>8, <1>10, <1>11, <2>1, <3>1, RefsNext
  <2>2. CASE family = "weak"
    <3>1. o.w.held["weak"] = Cardinality(SetRefs(ref')) /\ o.w.held["global"] = 0
      BY <1>9, <2>2 DEF RefKind
    <3>2. QED
      BY <1>8, <1>10, <1>11, <2>2, <3>1, RefsNext
  <2>3. QED
    BY <2>1, <2>2
<1>13. NativeType'
  BY <1>1, <1>5, <1>8 DEF NativeInv, NativeType
<1>14. QED
  BY <1>8, <1>12, <1>13 DEF NativeInv

\* ScopedJavaGlobalRef.
LEMMA ScopedStepForm ==
  ASSUME NativeInv, ScopedStep
  PROVE  NativeInv'
<1>0. family = "scoped" /\ RefKind = "global" /\ "global" \in Kinds \ {"crit"}
  BY KindsForm DEF ScopedStep, RefKind
<1> USE DEF NoCall
<1>1. \A h \in Handles : IsSet(h) \in BOOLEAN
  BY DEF IsSet
<1>2. last = NoCall => /\ world \in World /\ Calm(world)
                       /\ \A h \in Handles : IsSet(h) => world.held["global"] > 0
  BY <1>0, RefBefore
<1>3. ASSUME NEW h \in Handles, NEW obj \in BOOLEAN, NEW o \in SetNewGlobalRef(world, IsSet(h), obj)
      PROVE  last = NoCall => o.r \in BOOLEAN /\ Swaps(world, o.w, RefKind, IsSet(h), o.r)
  <2> DEFINE x == GiveIf(NewRefOf(AttachCurrentThread(world), "global", obj), "global", IsSet(h))
  <2>1. o \in Res(x, obj)
    BY DEF SetNewGlobalRef
  <2>2. SUFFICES ASSUME last = NoCall
                 PROVE  o.r \in BOOLEAN /\ Swaps(world, o.w, RefKind, IsSet(h), o.r)
    OBVIOUS
  <2>3. Swaps(world, x, "global", IsSet(h), obj)
    BY <1>0, <1>1, <1>2, <2>2, SetNewForm
  <2> HIDE DEF x
  <2>4. o.w = x /\ o.r = obj
    BY <2>1 DEF Res
  <2>5. QED
    BY <1>0, <2>3, <2>4
<1>4. ASSUME NEW h \in Handles, NEW obj \in BOOLEAN, NEW o \in SetNewGlobalRef(world, IsSet(h), obj),
             NEW f \in {"Reset", "ResetTo"}, SetRef(f, h, o, TRUE)
      PROVE  NativeInv'
  <2>1. last = NoCall
    BY <1>4 DEF SetRef, Ends
  <2>2. QED
    BY <1>0, <1>3, <1>4, <2>1, SetRefForm
<1>5. ASSUME NEW h \in Handles, NEW o \in ResetGlobalRef(world, IsSet(h)), SetRef("Destroy", h, o, FALSE)
      PROVE  NativeInv'
  <2> DEFINE x == IF IsSet(h) THEN Give(AttachCurrentThread(world), "global") ELSE world
  <2>1. last = NoCall
    BY <1>5 DEF SetRef, Ends
  <2>2. Swaps(world, x, "global", IsSet(h), FALSE)
    BY <1>0, <1>1, <1>2, <2>1, ResetForm
  <2>3. o \in None(x)
    BY <1>5 DEF ResetGlobalRef
  <2> HIDE DEF x
  <2>4. o.w = x /\ o.r = FALSE
    BY <2>3 DEF None, Res
  <2>5. QED
    BY <1>0, <1>5, <2>2, <2>4, SetRefForm
<1>6. ASSUME NEW h \in Handles, NEW o \in ReleaseInternal(world, IsSet(h)), IsSet(h),
             SetRef("Release", h, [o EXCEPT !.w = Give(@, "global")], TRUE)
      PROVE  NativeInv'
  <2> DEFINE p == [o EXCEPT !.w = Give(@, "global")]
             x == GiveIf(world, "global", IsSet(h))
  <2>1. last = NoCall
    BY <1>6 DEF SetRef, Ends
  <2>2. Swaps(world, x, "global", IsSet(h), FALSE)
    BY <1>0, <1>1, <1>2, <2>1, DropForm
  <2>3. o = [w |-> world, r |-> FALSE]
    BY <1>6 DEF ReleaseInternal, None, Res
  <2>4. p.w = x /\ p.r = FALSE
    BY <1>6, <2>3 DEF GiveIf
  <2> HIDE DEF x, p
  <2>5. SetRef("Release", h, p, TRUE)
    BY <1>6 DEF p
  <2>6. QED
    BY <1>0, <2>2, <2>4, <2>5, SetRefForm
<1>7. QED
  BY <1>1, <1>4, <1>5, <1>6, ExitStep DEF ScopedStep

\* JavaObjectWeakGlobalRef.
LEMMA WeakStepForm ==
  ASSUME NativeInv, WeakStep
  PROVE  NativeInv'
<1>0. family = "weak" /\ RefKind = "weak" /\ "weak" \in Kinds \ {"crit"} /\ "local" \in Kinds \ {"crit"}
  BY KindsForm DEF WeakStep, RefKind
<1> USE DEF NoCall
<1>1. gone \in BOOLEAN /\ \A h \in Handles : IsSet(h) \in BOOLEAN
  BY DEF IsSet, NativeInv, NativeType
<1>2. last = NoCall => /\ world \in World /\ Calm(world)
                       /\ \A h \in Handles : IsSet(h) => world.held["weak"] > 0
  BY <1>0, RefBefore
<1> DEFINE a == AttachCurrentThread(world)
<1>3. last = NoCall => a \in World /\ Calm(a) /\ a.held = world.held /\ a.bad = world.bad
  BY <1>2, AttachCurrentForm, AttachCurrentCalm
<1>4. ASSUME NEW h \in Handles, NEW o \in NewWeakRef(a, TRUE, gone), ref[h] = "none", ~gone,
             SetRef("WeakRef", h, o, TRUE)
      PROVE  NativeInv'
  <2> DEFINE x == NewRefOf(a, "weak", TRUE)
  <2>1. last = NoCall
    BY <1>4 DEF SetRef, Ends
  <2>2. o \in Res(x, TRUE)
    BY <1>4 DEF NewWeakRef
  <2>3. Swaps(a, x, "weak", FALSE, TRUE)
    BY <1>0, <1>3, <2>1, NewRefOfForm
  <2> HIDE DEF x, a
  <2>4. Swaps(world, x, "weak", IsSet(h), TRUE)
    BY <1>3, <1>4, <2>1, <2>3 DEF Swaps, IsSet
  <2>5. o.w = x /\ o.r = TRUE
    BY <2>2 DEF Res
  <2>6. QED
    BY <1>0, <1>4, <2>4, <2>5, SetRefForm
<1>5. ASSUME NEW h \in Handles, NEW g \in Handles, NEW o \in WeakAssign(world, IsSet(h), IsSet(g), gone),
             SetRef("WeakAssign", h, o, TRUE)
      PROVE  NativeInv'
  <2>1. last = NoCall
    BY <1>5 DEF SetRef, Ends
  <2>2. PICK obj \in BOOLEAN : obj <=> IsSet(g) /\ ~gone
    OBVIOUS
  <2>3. obj = (IsSet(g) /\ ~gone)
    BY <1>1, <2>2
  <2> DEFINE x == NewRefOf(GiveIf(a, "weak", IsSet(h)), "weak", obj)
  <2>4. o \in Res(x, obj)
    BY <1>5, <2>3 DEF WeakAssign, NewWeakRef
  <2>5. Swaps(world, x, "weak", IsSet(h), obj)
    BY <1>1, <1>2, <2>1, WeakAssignForm
  <2> HIDE DEF x
  <2>6. o.w = x /\ o.r = obj
    BY <2>4 DEF Res
  <2>7. QED
    BY <1>0, <1>5, <2>5, <2>6, SetRefForm
<1>6. ASSUME NEW h \in Handles, NEW o \in WeakReset(world, IsSet(h)), SetRef("WeakReset", h, o, FALSE)
      PROVE  NativeInv'
  <2> DEFINE x == IF IsSet(h) THEN Give(a, "weak") ELSE world
  <2>1. last = NoCall
    BY <1>6 DEF SetRef, Ends
  <2>2. Swaps(world, x, "weak", IsSet(h), FALSE)
    BY <1>0, <1>1, <1>2, <2>1, ResetForm
  <2>3. o \in None(x)
    BY <1>6 DEF WeakReset
  <2> HIDE DEF x
  <2>4. o.w = x /\ o.r = FALSE
    BY <2>3 DEF None, Res
  <2>5. QED
    BY <1>0, <1>6, <2>2, <2>4, SetRefForm
<1>7. ASSUME NEW h \in Handles, Run("GetRealObject", GetRealObject(a, IsSet(h), gone))
      PROVE  NativeInv'
  <2>1. last = NoCall
    BY <1>7 DEF Run, Ends
  <2>2. a \in World /\ Calm(a) /\ a.held = world.held /\ a.bad = world.bad /\ world \in World
    BY <1>2, <1>3, <2>1
  <2> HIDE DEF a
  <2>3. ASSUME NEW o \in GetRealObject(a, IsSet(h), gone) PROVE CallOk(world, "GetRealObject", o.w)
    <3>1. CASE IsSet(h) /\ ~gone
      <4> DEFINE n == NewRef(a, "local")
                 g == Give(n, "local")
      <4>1. PICK p \in Got(n) : o = After(p, Give(p.w, "local"))
        BY <2>3, <3>1 DEF GetRealObject, Finally
      <4>2. /\ n \in World /\ Calm(n) /\ n.bad = a.bad /\ n.held["local"] = a.held["local"] + 1
            /\ \A j \in Kinds : j # "local" => n.held[j] = a.held[j]
        BY <1>0, <2>2, NewRefForm
      <4> HIDE DEF n
      <4>3. p \in Outcomes(BOOLEAN) /\ p.w = n
        BY <4>1, <4>2, GotForm
      <4>4. a.held["local"] \in Nat /\ n.held["local"] > 0
        BY <1>0, <2>2, <4>2, WorldForm
      <4>5. /\ g \in World /\ g.exc = n.exc /\ g.bad = n.bad /\ g.held["local"] = n.held["local"] - 1
            /\ \A j \in Kinds : j # "local" => g.held[j] = n.held[j]
        BY <1>0, <4>2, <4>4, GiveForm
      <4> HIDE DEF g
      <4>6. o.w = g
        BY <4>1, <4>3, <4>5, OutcomeForm DEF g
      <4>7. g.held["local"] = a.held["local"]
        BY <4>2, <4>4, <4>5
      <4>8. Tidy(world, o.w, {}, {})
        BY <2>2, <4>2, <4>5, <4>6, <4>7 DEF Tidy, Frame, Calm
      <4>9. QED
        BY <4>8, NothingOk
    <3>2. CASE ~(IsSet(h) /\ ~gone)
      <4>1. o \in None(a)
        BY <2>2, <2>3, <3>2, CalmUse DEF GetRealObject
      <4>2. Tidy(world, o.w, {}, {})
        BY <2>2, <4>1, NoneForm DEF Tidy, Frame, Calm
      <4>3. QED
        BY <4>2, NothingOk
    <3>3. QED
      BY <3>1, <3>2
  <2>4. QED
    BY <1>7, <2>3, RunGood, GoodStep
<1>8. CASE /\ ~gone /\ gone' = TRUE
           /\ UNCHANGED <<family, world, last, d, priv, ref, vm, initialized>>
  <2>1. RefsOwned'
    BY <1>8, RefsForm, RefsNext DEF NativeInv
  <2>2. NativeType' /\ Settled' /\ NoUnsafeCall'
    BY <1>8 DEF NativeInv, NativeType, Settled, NoUnsafeCall
  <2>3. ResourcesReturned'
    BY <1>8 DEF NativeInv, ResourcesReturned, Leftover
  <2>4. QED
    BY <2>1, <2>2, <2>3 DEF NativeInv
<1> HIDE DEF a
<1>9. \/ \E h \in Handles :
            \/ \E o \in NewWeakRef(a, TRUE, gone) :
                  ref[h] = "none" /\ ~gone /\ SetRef("WeakRef", h, o, TRUE)
            \/ \E g \in Handles \ {h} :
                  \E o \in WeakAssign(world, IsSet(h), IsSet(g), gone) :
                     ref[g] # "none" /\ SetRef("WeakAssign", h, o, TRUE)
            \/ \E o \in WeakReset(world, IsSet(h)) :
                  ref[h] # "none" /\ SetRef("WeakReset", h, o, FALSE)
            \/ Run("GetRealObject", GetRealObject(a, IsSet(h), gone))
      \/ /\ ~gone /\ gone' = TRUE
         /\ UNCHANGED <<family, world, last, d, priv, ref, vm, initialized>>
  BY DEF WeakStep, a
<1>10. QED
  BY <1>4, <1>5, <1>6, <1>7, <1>8, <1>9

-----------------------------------------------------------------------------
(* Steps of the view model, and the end of a call                            *)

\* The view model is created, bound, unbound and released.
LEMMA ViewModelForm ==
  ASSUME NativeInv, ViewModelStep
  PROVE  NativeInv'
<1> USE DEF NoCall
<1>0. last = NoCall => Idle(world) /\ world \in World /\ Calm(world)
  BY IdleCalm DEF NativeInv, Settled
<1>1. CASE LoadLibrary
  BY <1>1, LoadStep
<1>2. ASSUME NEW f \in {"nativeCreate", "nativeRelease"}, Ends(f, [w |-> world]),
             vm' = NewViewModel \/ vm' = NoViewModel, UNCHANGED <<d, priv, ref, gone>>
      PROVE  NativeInv'
  <2> DEFINE o == [w |-> world]
  <2>1. o.w = world /\ last = NoCall
    BY <1>2 DEF Ends
  <2>2. vm' \in ViewModel \/ vm' = NoViewModel
    <3>1. NewViewModel \in ViewModel
      BY DEF ViewModel, NewViewModel
    <3>2. QED
      BY <1>2, <3>1
  <2>3. Ends(f, o)
    BY <1>2
  <2> HIDE DEF o
  <2>4. Tidy(world, o.w, {}, {})
    BY <1>0, <2>1 DEF Tidy, Frame, Calm
  <2>5. QED
    BY <1>2, <2>2, <2>3, <2>4, NothingOk, KeepStep
<1>3. CASE vm # NoViewModel /\ Run("handle", nativeHandleIntKey(world, vm))
  <2>1. last = NoCall
    BY <1>3 DEF Run, Ends
  <2>2. \A o \in nativeHandleIntKey(world, vm) : CallOk(world, "handle", o.w)
    BY <1>0, <2>1, HandleKeyForm, NothingOk
  <2>3. QED
    BY <1>3, <2>2, RunGood, GoodStep
<1>4. ASSUME vm # NoViewModel, NEW o \in nativeBind(world, vm), Ends("nativeBind", o),
             vm' = BoundView(vm), UNCHANGED <<d, priv, ref, gone>>
      PROVE  NativeInv'
  <2>1. last = NoCall /\ vm \in ViewModel
    BY <1>4 DEF Ends, NativeInv, NativeType
  <2>2. Tidy(world, o.w, {"pending", "null"}, {"class"})
    BY <1>0, <2>1, NativeBindForm
  <2>3. CallOk(world, "nativeBind", o.w)
    BY <2>2, KnownForm, TidyOk
  <2>4. vm' \in ViewModel
    BY <1>4, <2>1 DEF BoundView, ViewModel
  <2>5. QED
    BY <1>4, <2>3, <2>4, KeepStep
<1>5. ASSUME vm # NoViewModel, NEW o \in nativeUnBind(world, vm), Ends("nativeUnBind", o),
             vm' = UnboundView(vm), UNCHANGED <<d, priv, ref, gone>>
      PROVE  NativeInv'
  <2>1. last = NoCall /\ vm \in ViewModel
    BY <1>5 DEF Ends, NativeInv, NativeType
  <2>2. CallOk(world, "nativeUnBind", o.w)
    BY <1>0, <2>1, NativeUnBindForm, NothingOk
  <2>3. vm' \in ViewModel
    BY <1>5, <2>1 DEF UnboundView, ViewModel
  <2>4. QED
    BY <1>5, <2>2, <2>3, KeepStep
<1>6. QED
  BY <1>1, <1>2, <1>3, <1>4, <1>5 DEF ViewModelStep

\* The accounts of a call are closed.
LEMMA ReturnForm ==
  ASSUME NativeInv, Return
  PROVE  NativeInv'
<1>0. world \in World /\ last' = NoCall /\ UNCHANGED <<family, objects>>
  BY DEF NativeInv, NativeType, Return
<1>1. /\ world' \in World /\ ~world'.exc /\ world'.bad = {}
      /\ world'.held = [k \in Kinds |-> IF k \in Transient THEN 0 ELSE world.held[k]]
  <2> DEFINE e == [k \in Kinds |-> IF k \in Transient THEN 0 ELSE world.held[k]]
             t == IF last = "ThreadExit" THEN "no" ELSE world.attached
  <2>1. e \in [Kinds -> Nat]
    BY <1>0, WorldForm
  <2>2. t \in {"no", "java", "qt", "fml"}
    BY <1>0 DEF World
  <2>3. world' = [world EXCEPT !.exc = FALSE, !.bad = {}, !.held = e, !.attached = t]
    BY DEF Return
  <2> HIDE DEF e, t
  <2>4. world' \in World /\ ~world'.exc /\ world'.bad = {} /\ world'.held = e
    BY <1>0, <2>1, <2>2, <2>3 DEF World
  <2>5. QED
    BY <2>4 DEF e
<1>2. /\ \A k \in Transient : world'.held[k] = 0
      /\ world'.held["global"] = world.held["global"] /\ world'.held["weak"] = world.held["weak"]
  BY <1>1 DEF Kinds, Refs, Transient
<1>3. Settled' /\ NoUnsafeCall' /\ ResourcesReturned'
  BY <1>0, <1>1, <1>2 DEF Settled, Idle, NoUnsafeCall, ResourcesReturned
<1>4. RefsOwned'
  BY <1>0, <1>2, RefsForm, RefsNext DEF NativeInv, objects
<1>5. NativeType'
  BY <1>0, <1>1 DEF NativeInv, NativeType, objects
<1>6. QED
  BY <1>3, <1>4, <1>5 DEF NativeInv

-----------------------------------------------------------------------------
(* The theorems                                                              *)

\* Before the first call nothing is held.
LEMMA NativeInitInv == NativeInit => NativeInv
<1> SUFFICES ASSUME NativeInit PROVE NativeInv
  OBVIOUS
<1>1. /\ world \in World /\ ~world.exc /\ world.bad = {} /\ world.held = [k \in Kinds |-> 0]
  <2>1. [k \in Kinds |-> 0] \in [Kinds -> Nat]
    OBVIOUS
  <2>2. PICK e : e = [k \in Kinds |-> 0]
    OBVIOUS
  <2>3. ASSUME NEW t \in {"java", "no"}
        PROVE  /\ NewWorld(t) \in World /\ ~NewWorld(t).exc /\ NewWorld(t).bad = {}
               /\ NewWorld(t).held = e
    <3>1. NewWorld(t) = [exc |-> FALSE, held |-> e, bad |-> {},
                         attached |-> t, loader |-> FALSE, mount |-> FALSE]
      BY <2>2 DEF NewWorld
    <3>2. QED
      BY <2>1, <2>2, <3>1 DEF World
  <2>4. CASE world = NewWorld("java")
    BY <2>2, <2>3, <2>4
  <2>5. ASSUME NEW loader \in BOOLEAN, world = [NewWorld("no") EXCEPT !.loader = loader]
        PROVE  /\ world \in World /\ ~world.exc /\ world.bad = {}
               /\ world.held = [k \in Kinds |-> 0]
    <3>1. PICK n : n = NewWorld("no")
      OBVIOUS
    <3>2. n \in World /\ ~n.exc /\ n.bad = {} /\ n.held = e
      BY <2>3, <3>1
    <3>3. world = [n EXCEPT !.loader = loader]
      BY <2>5, <3>1
    <3>4. world \in World /\ world.exc = n.exc /\ world.bad = n.bad /\ world.held = n.held
      BY <3>2, <3>3 DEF World
    <3>5. QED
      BY <2>2, <3>2, <3>4
  <2>6. QED
    BY <2>4, <2>5 DEF NativeInit
<1>2. /\ d = [h \in Handles |-> NoId] /\ priv = [i \in Ids |-> NoQ]
      /\ ref = [h \in Handles |-> "none"] /\ gone = FALSE /\ vm = NoViewModel /\ last = NoCall
  BY DEF NativeInit
<1>3. NativeType
  BY <1>1, <1>2, QForm DEF NativeType, Handed, Parts
<1>4. Settled /\ NoUnsafeCall /\ ResourcesReturned
  BY <1>1, <1>2 DEF Settled, Idle, Kinds, NoUnsafeCall, ResourcesReturned
<1>5. OwnedRefs(d, priv) = 0
  <2>1. Live(d) = {}
    BY <1>2, IdsForm DEF Live
  <2>2. ObjectIds(d, priv) = {} /\ ClassIds(d, priv) = {}
    BY <2>1 DEF ObjectIds, ClassIds
  <2>3. QED
    BY <2>2, FS_EmptySet DEF OwnedRefs
<1>6. Cardinality(SetRefs(ref)) = 0
  <2>1. SetRefs(ref) = {}
    BY <1>2 DEF SetRefs
  <2>2. QED
    BY <2>1, FS_EmptySet
<1>7. RefsOwned
  BY <1>1, <1>5, <1>6, KindsForm, RefsForm
<1>8. QED
  BY <1>3, <1>4, <1>7 DEF NativeInv

\* Every step keeps the invariant.
LEMMA NativeInvStep == NativeInv /\ [NativeNext]_nativeVars => NativeInv'
<1> SUFFICES ASSUME NativeInv, [NativeNext]_nativeVars PROVE NativeInv'
  OBVIOUS
<1>1. CASE UNCHANGED nativeVars
  <2>1. UNCHANGED <<family, world, last, d, priv, ref, gone, vm>>
    BY <1>1 DEF nativeVars, objects
  <2>2. RefsOwned'
    BY <2>1, RefsForm, RefsNext DEF NativeInv
  <2>3. NativeType' /\ Settled' /\ NoUnsafeCall'
    BY <2>1 DEF NativeInv, NativeType, Settled, NoUnsafeCall
  <2>4. ResourcesReturned'
    BY <2>1 DEF NativeInv, ResourcesReturned, Leftover
  <2>5. QED
    BY <2>2, <2>3, <2>4 DEF NativeInv
<1>2. CASE FunctionStep
  BY <1>2, FunctionForm
<1>3. CASE QJniStep
  BY <1>3, QJniForm
<1>4. CASE ScopedStep
  BY <1>4, ScopedStepForm
<1>5. CASE WeakStep
  BY <1>5, WeakStepForm
<1>6. CASE ViewModelStep
  BY <1>6, ViewModelForm
<1>7. CASE Return
  BY <1>7, ReturnForm
<1>8. QED
  BY <1>1, <1>2, <1>3, <1>4, <1>5, <1>6, <1>7 DEF NativeNext

\* Whatever calls a thread makes, between two of them no exception is pending and
\* nothing is held but the references of live objects and of classes looked up by name.
THEOREM NativeInductive == NativeSpec => []NativeInv
<1>1. QED
  BY NativeInitInv, NativeInvStep, PTL DEF NativeSpec

\* After any sequence of constructions, copies, assignments and destructions of any
\* number of QJniObjects, and of resets and releases of any number of scoped or weak
\* references, each live private part and each object that is set has exactly the
\* references it owns (~QJniObjectPrivate, ScopedJavaGlobalRef, JavaObjectWeakGlobalRef).
THEOREM NativeRefs == NativeSpec => []RefsOwned
<1>1. NativeInv => RefsOwned
  BY DEF NativeInv
<1>2. QED
  BY <1>1, NativeInductive, PTL

\* Whatever fails inside a native method or a function of the JNI bridge, no JNI call is
\* made with an exception pending, inside a critical region or on a null that an earlier
\* call returned, and nothing is closed or deleted twice, but for the calls and the rules
\* that KnownMisuse names.
THEOREM NativeSafe == NativeSpec => []NoUnsafeCall
<1>1. NativeInv => NoUnsafeCall
  BY DEF NativeInv
<1>2. QED
  BY <1>1, NativeInductive, PTL

\* On every path out of a native method or a function, the early returns and the
\* exceptions included, its local references, characters, pins, streams, descriptors,
\* libraries and heap blocks are given back, no exception stays pending, and a thread
\* that ends is not attached, but for the leaks that KnownLeaks names.
THEOREM NativeReturns == NativeSpec => []ResourcesReturned
<1>1. NativeInv => ResourcesReturned
  BY DEF NativeInv
<1>2. QED
  BY <1>1, NativeInductive, PTL
=============================================================================
