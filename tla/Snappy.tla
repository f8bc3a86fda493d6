------------------------------- MODULE Snappy -------------------------------
(* snappy_natvie.cpp: the native methods of SnappyNative over arrays, direct *)
(* buffers and addresses.  What snappy makes of the bytes is left out, but   *)
(* for whether it rejects them.                                              *)
EXTENDS NativeWorld

throw_exception(w) == Next2(Got(w) ** "new" ** "id" ** "id", None)

\* snappy accepts its input, or rejects it.
Rejects(w, F(_)) == F(w) \cup throw_exception(w)

-----------------------------------------------------------------------------
(* Arrays: two critical regions, left on every path before throw_exception.  *)

WithArrays(w, F(_)) ==
    Then(PinCritical(w), LAMBDA v, in :
        Then(PinCritical(v), LAMBDA u, out :
            IF in /\ out THEN F(Give(Give(u, "crit"), "crit"))
            ELSE throw_exception(GiveIf(GiveIf(u, "crit", in), "crit", out))))

WithArray(w, F(_)) ==
    Then(PinCritical(w), LAMBDA v, in :
        IF in THEN F(Give(v, "crit")) ELSE throw_exception(v))

rawCompressArray(w) == Native(WithArrays(w, Got))
rawUncompressArray(w) == Native(WithArrays(w, LAMBDA v : Rejects(v, Got)))
uncompressedLengthArray(w) == Native(WithArray(w, LAMBDA v : Rejects(v, Got)))
isValidArray(w) == Native(WithArray(w, Got))
arrayCopy(w) == Native(WithArrays(w, Got))

-----------------------------------------------------------------------------
(* Direct buffers: an address that is null is not one of a direct buffer.    *)

WithBuffers(w, F(_)) == F(Use(w)) \cup throw_exception(Use(w))

rawCompressBuffer(w) == Native(WithBuffers(w, Got))
rawUncompressBuffer(w) == Native(WithBuffers(w, LAMBDA v : Rejects(v, Got)))
uncompressedLengthBuffer(w) == Native(WithBuffers(w, LAMBDA v : Rejects(v, Got)))
isValidBuffer(w) == Native(WithBuffers(w, Got))

-----------------------------------------------------------------------------
(* Addresses, and the rest                                                   *)

rawCompressAddress(w) == Got(w)
rawUncompressAddress(w) == Native(Rejects(w, Got))
uncompressedLengthAddress(w) == Native(Rejects(w, Got))
isValidAddress(w, inputAddr) ==
    IF inputAddr THEN Got(w) ELSE Native(throw_exception(w))
maxCompressedLength(w) == Got(w)
nativeLibraryVersion(w) == Native(JniNew(w))
=============================================================================
