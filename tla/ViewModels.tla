----------------------------- MODULE ViewModels -----------------------------
(* The native peer of a Java view model (ViewModel.cpp, MainViewModel.cpp,   *)
(* QtJniNativeViewModel.cpp) and the other native methods of the app         *)
(* (native-lib.cpp, jni_double_conversion.cpp, jni_string.hpp).              *)
(*                                                                           *)
(* bind_java_view_model_ is a local reference, valid in the call of          *)
(* nativeBind that was given it and "stale" after it.                        *)
EXTENDS QJni

ViewModel == [bind_java_view_model : {"null", "valid", "stale"},
              view_model_is_attached : BOOLEAN]
NewViewModel == [bind_java_view_model |-> "null", view_model_is_attached |-> FALSE]

\* QJniObject jniObject(bind_java_view_model_); F; and the end of its scope.
WithView(w, vm, F(_, _)) ==
    LET v == IF vm.bind_java_view_model = "stale" THEN Misuse(w, {"closed"}) ELSE w
    IN  Then(FromObject(v, vm.bind_java_view_model # "null"), LAMBDA u, q :
            Finally(F(u, q), LAMBDA t : DestroyPrivate(t, q)))

\* A Java method of the view model is called with a string.
CallWithString(w, vm) ==
    Then(fromString(w), LAMBDA v, s :
        Finally(WithView(v, vm, callMethod), LAMBDA u : DestroyPrivate(u, s)))

\* A Java method is called with a byte array, which is not looked at before it
\* is filled and not deleted after the call.
CallWithBytes(w, vm) ==
    WithView(w, vm, LAMBDA v, q :
        WithEnv(v, LAMBDA u :
            Then(JniNew(u), LAMBDA t, ret : callMethod(Use(On(t, ret)), q))))

handle(w, vm) == Got(w)

setProp(w, vm) ==
    IF vm.bind_java_view_model = "null" \/ ~vm.view_model_is_attached THEN None(w)
    ELSE CallWithString(w, vm)

setViewModelAttached(w, vm) ==
    IF vm.bind_java_view_model # "null" /\ vm.view_model_is_attached
    THEN WithView(w, vm, callMethod) ELSE None(w)

showLoading(w, vm) == CallWithBytes(w, vm)
hiddenLoading(w, vm) == WithView(w, vm, callMethod)
showToast(w, vm) == Next2(CallWithString(w, vm), LAMBDA v : CallWithBytes(v, vm))

\* MainViewModel::bind
bind(w, vm) ==
    Next2(setProp(w, vm), LAMBDA a :
    Next2(setProp(a, vm), LAMBDA b :
    Next2(showLoading(b, vm), LAMBDA c : hiddenLoading(c, vm))))

-----------------------------------------------------------------------------
(* The native methods; the second component of a result is the view model.   *)

nativeBind(w, vm) ==
    LET bound == [vm EXCEPT !.bind_java_view_model = "valid",
                            !.view_model_is_attached = TRUE]
    IN  Native(Next2(setViewModelAttached(w, bound), LAMBDA v : bind(v, bound)))
BoundView(vm) == [vm EXCEPT !.bind_java_view_model = "stale",
                            !.view_model_is_attached = TRUE]

nativeUnBind(w, vm) ==
    Native(setViewModelAttached(w, [vm EXCEPT !.view_model_is_attached = FALSE]))
UnboundView(vm) == [vm EXCEPT !.view_model_is_attached = FALSE]

\* STRING_CONVERT::JavaStringToString and StringToJavaString
ConvertFromJava(w, str) ==
    IF ~str THEN None(w)
    ELSE IfGot(Pin(w, "chars"), LAMBDA v : Got(Give(Use(v), "chars")))
ConvertToJava(w) == JniNew(w)

nativeHandleIntKey(w, vm) ==
    Native(Next2(ConvertFromJava(w, TRUE) \cup ConvertFromJava(w, FALSE),
                 LAMBDA v : handle(v, vm)))

\* The string the converter reads is the buffer of a temporary that is gone.
nativeStringToDouble(w) ==
    Native(Next2(ConvertFromJava(w, TRUE), LAMBDA v : Got(Misuse(v, {"closed"}))))
nativeDoubleToString(w) == Native(ConvertToJava(w))

stringFromJNI(w) == Native(JniNew(w))

\* getApplication: the class is deleted on both ways, the result is the caller's.
getApplication(w) ==
    Then(JniNew(w), LAMBDA v, activity_thread_clz :
        IF ~activity_thread_clz THEN None(v)
        ELSE Finally(IfGot(Jni(v), JniCall), LAMBDA u : Give(u, "local")))
=============================================================================
