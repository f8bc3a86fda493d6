------------------------------- MODULE Probes -------------------------------
(* The native probes of the library CheckEnv (common.cpp, mobile_info.cpp,   *)
(* check_multi_open.cpp, check_sign.cpp, check_debug.cpp, check_cpu.cpp,     *)
(* check_root.cpp, check_hook.cpp, check_device_uuid.cpp,                    *)
(* magisk_detector.cpp, jni_base64.cpp, jni_string.hpp).  What a probe reads *)
(* of the platform is left to chance; what it must give back is not.         *)
EXTENDS NativeWorld

\* A condition on data the model leaves out.
Either(w) == Got(w) \cup None(w)

-----------------------------------------------------------------------------
(* common.cpp and jni_string.hpp                                             *)

existsFile(w) == Either(w)
\* The result is whether anything was read.
readFile(w) == IfGot(Open(w, "file"), LAMBDA v : Either(Give(v, "file")))
shellExecute(w) == IfGot(Open(w, "file"), LAMBDA v : Either(Give(v, "file")))
getPackageNameOf(w) == readFile(w)
getBuildInfo(w) == Got(w)

JavaStringToStringOf(w, str) ==
    IF ~str THEN None(w)
    ELSE IfGot(Pin(w, "chars"), LAMBDA v : Got(Give(Use(v), "chars")))
StringToJavaStringOf(w) == JniNew(w)

-----------------------------------------------------------------------------
(* mobile_info.cpp                                                           *)

\* The file, and the shell if there is nothing in it.
ReadOrExecute(w) == Then(readFile(w), LAMBDA v, got : IF got THEN Got(v) ELSE shellExecute(v))

getBootId(w) == ReadOrExecute(w)
getEntropyAvail(w) == ReadOrExecute(w)
getPoolSize(w) == ReadOrExecute(w)
getReadWakeupThreshold(w) == ReadOrExecute(w)
getWriteWakeupThreshold(w) == ReadOrExecute(w)
getUuid(w) == ReadOrExecute(w)
getURandomMinReseedSecs(w) == ReadOrExecute(w)

getKennel(w) ==
    Then(readFile(w), LAMBDA v, kennel :
        IF kennel THEN Got(v)
        ELSE Then(shellExecute(v), LAMBDA u, r : Next2(shellExecute(u), LAMBDA t : Res(t, r))))

checkMoreOpenByUid(w) ==
    IfGot(existsFile(w), LAMBDA v : Next2(getPackageNameOf(v), shellExecute))

\* The library stays loaded when it does not have the symbol.
checkSubstrateBySo(w) ==
    IfGot(Open(w, "dl"), LAMBDA v : IfGot(Either(v), LAMBDA u : Got(Give(u, "dl"))))
xHookCheck(w) ==
    IfGot(Open(w, "dl"), LAMBDA v : IfGot(Either(v), LAMBDA u : Got(Give(u, "dl"))))

\* fclose is called with the null of an fopen that failed.
frameCheck(w) ==
    Then(Open(w, "file"), LAMBDA v, f :
        IF f THEN Either(Give(v, "file")) ELSE None(On(v, FALSE)))

checkHookByMap(w) ==
    Next2(frameCheck(w), LAMBDA v :
        Then(readFile(v), LAMBDA u, maps : IF maps THEN Got(u) ELSE shellExecute(u)))
checkHookByPackage(w) == Loop(w, existsFile)

-----------------------------------------------------------------------------
(* check_multi_open.cpp                                                      *)

errorCatch(w) == Res(Clear(w), w.exc)

\* The package name from the command line of the process.
getPackageNameByPid(w) == IfGot(Open(w, "file"), LAMBDA v : Got(Give(v, "file")))

\* Mutant: a stream with nothing to read is left open.
moreOpenCheckLeaks(w) ==
    IfGot(existsFile(w), LAMBDA v : IfGot(getPackageNameByPid(v), LAMBDA u :
        IfGot(Open(u, "file"), LAMBDA t : None(t) \cup Either(Give(t, "file")))))

moreOpenCheck(w) ==
    IfGot(existsFile(w), LAMBDA v : IfGot(getPackageNameByPid(v), LAMBDA u :
        IfGot(Open(u, "file"), LAMBDA t :
            None(Give(t, "file")) \cup Either(Give(t, "file")))))

\* getPackageName of a context: the class is not deleted when the method is not
\* found, and an exception of the call is left to the caller.
getPackageName(w) ==
    Then(Jni(NewRef(w, "local")), LAMBDA v, mId :
        IF mId THEN Finally(JniCall(v), LAMBDA u : Give(u, "local"))
        ELSE Next2(errorCatch(v), None))

\* The characters are printed without a look at whether they are there.
OpenCheckExt(w) ==
    Native(IfGot(existsFile(w), LAMBDA v : IfGot(getPackageName(v), LAMBDA u :
        Then(Pin(u, "chars"), LAMBDA t, name :
            Then(Open(On(t, name), "file"), LAMBDA s, f :
                Either(GiveIf(GiveIf(s, "file", f), "chars", name)))))))

isSystemDualApp(w) == Either(w)
isUserDualApp(w, data_dir) ==
    Native(Next2(JavaStringToStringOf(w, data_dir), existsFile))

-----------------------------------------------------------------------------
(* check_sign.cpp                                                            *)

getApplicationObject(w) ==
    Then(JniNew(w), LAMBDA v, clz :
        IF ~clz THEN None(v)
        ELSE Finally(IfGot(Jni(v), JniCall), LAMBDA u : Give(u, "local")))

\* The chain from the context to the bytes of its signature; nothing is checked,
\* and the characters of the package name are not released.
getSignatureByte(w) ==
    Then(Got(w) ++ "read" ++ "id" ++ "call" ++ "read" ++ "id" ++ "id" ++ "call",
        LAMBDA v, package : Then(Pin(On(v, package), "chars"), LAMBDA u, package_name :
            Got(On(u, package_name)) ++ "call" ++ "read" ++ "id" ++ "get" ++ "call"
                                     ++ "read" ++ "id" ++ "call"))

\* Each kind of hash leaves its copy of the digest on the heap.
hashByteArray(w) == Take(w, "heap")

getSignature(w) ==
    Native(Then(getSignatureByte(w), LAMBDA v, cert :
        Next2(Got(Take(On(v, cert), "heap")) ++ "read" ++ "read", LAMBDA u :
            JniNew(hashByteArray(hashByteArray(hashByteArray(u)))))))

checkSignature(w) ==
    Native(Then(getSignatureByte(w), LAMBDA v, cert :
        Next2(Got(Take(On(v, cert), "heap")) ++ "read" ++ "read", LAMBDA u :
            Next2(Loop(hashByteArray(u), LAMBDA t : JavaStringToStringOf(t, TRUE)),
                  JniNew))))

-----------------------------------------------------------------------------
(* check_debug.cpp                                                           *)

SearchObjProcess(w) == IfGot(Open(w, "file"), LAMBDA v : Got(Give(v, "file")))
CheckParents(w) == readFile(w)
ptraceCheck(w) == Got(w)

\* The status file is closed only when a tracer is found in it.
nativeReadTracerPid(w) ==
    Next2(SearchObjProcess(w), LAMBDA v : Next2(CheckParents(v), LAMBDA u :
        Next2(ptraceCheck(u), LAMBDA t :
            IfGot(Open(t, "file"), LAMBDA s : Got(s) \cup None(Give(s, "file"))))))

-----------------------------------------------------------------------------
(* magisk_detector.cpp                                                       *)

\* sys_open and fdopen: the stream owns the descriptor.
OpenStream(w) ==
    IfGot(Open(w, "fd"), LAMBDA v : Then(Open(v, "file"), LAMBDA u, fp :
        IF fp THEN Got(u) ELSE None(Give(u, "fd"))))
\* fclose closes the descriptor too, and close closes it again.
CloseTwice(w) == Give(Give(Give(w, "file"), "fd"), "fd")

scan_mountinfo(w) ==
    IfGot(OpenStream(w), LAMBDA v :
        {After(o, CloseTwice([o.w EXCEPT !.mount = @ \/ o.r])) : o \in Either(v)})

\* The stream is left open when a module file is found.
scan_maps(w) ==
    IfGot(OpenStream(w), LAMBDA v : Got(v) \cup None(CloseTwice(v)))

haveMagicMount(w) ==
    Next2(scan_mountinfo(w), LAMBDA v : IF v.mount THEN scan_maps(v) ELSE None(v))

-----------------------------------------------------------------------------
(* The other native methods                                                  *)

nativeCheckIsRoot(w) == Loop(w, existsFile)
nativeCheckCpuAbi(w) == Native(JniNew(w))
GetCPUCount(w) == Got(w)
nativeCheckHook(w) ==
    Native(checkSubstrateBySo(w) \cup Next2(checkHookByMap(w), JniNew)
                                 \cup Next2(checkHookByPackage(w), JniNew))
nativeCheckRandom(w) ==
    Native(Next2(getUuid(w), StringToJavaStringOf) \cup
           Next2(getBootId(w), StringToJavaStringOf))
CheckEnvStringFromJNI(w) == Native(JniNew(w))

\* Base64 encode and decode of a Java string, which may be rejected.
Base64Native(w, orig) ==
    Native(Next2(JavaStringToStringOf(w, orig), LAMBDA v :
        None(v) \cup StringToJavaStringOf(v)))
=============================================================================
