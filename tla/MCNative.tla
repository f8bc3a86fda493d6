------------------------------ MODULE MCNative ------------------------------
(* Model-checking instance of the native code that is called rather than     *)
(* running on its own: native methods and their use of JNI, the codecs and   *)
(* the types of time on inputs that grow by an element a step, the scheduler *)
(* the looper calls, and the smart pointers.  What a behaviour is about is   *)
(* chosen in the initial state.                                              *)
EXTENDS NativeCalls, Codecs, TimeTypes, LooperScheduler, WeakPtr, SharedPtr, UniqueObject

CONSTANTS MaxInput      \* bound on the length of the inputs

VARIABLES subject, input

Alphabet ==
    [bytes  |-> {0, 1, 128, 195, 255},
     text64 |-> {0, 16, 65, NullEnding, Unknown},
     text32 |-> {0, 1, 16, 31, 32},
     query  |-> {1, 2},
     time   |-> {-1000, -1, 1, 10, 999}]
EntryLists == {<<e, f>> : e, f \in BoundedSeq(Alphabet["query"], 3)}

mcVars == <<nativeVars, schedVars, weakVars, sharedVars, uniqueVars, subject, input>>

MCInit ==
    /\ subject \in {"calls", "looper", "weak", "shared", "unique"} \cup DOMAIN Alphabet
    /\ input = <<>>
    /\ NativeInit /\ SchedInit /\ WeakInit /\ SharedInit /\ UniqueInit
    /\ subject # "calls" => family = "functions" /\ ~initialized
    /\ subject # "looper" => ~blocking
    /\ subject # "weak" => holder = [p \in Ptrs |-> CHOOSE t \in Threads : TRUE]
    /\ subject # "shared" => owner = [p \in SharedPtrs |-> CHOOSE t \in SharedThreads : TRUE]

MCNext ==
    /\ UNCHANGED subject
    /\ \/ /\ subject = "calls" /\ NativeNext
          /\ UNCHANGED <<schedVars, weakVars, sharedVars, uniqueVars, input>>
       \/ /\ subject = "looper" /\ SchedNext
          /\ UNCHANGED <<nativeVars, weakVars, sharedVars, uniqueVars, input>>
       \/ /\ subject = "weak" /\ WeakNext
          /\ UNCHANGED <<nativeVars, schedVars, sharedVars, uniqueVars, input>>
       \/ /\ subject = "shared" /\ SharedNext
          /\ UNCHANGED <<nativeVars, schedVars, weakVars, uniqueVars, input>>
       \/ /\ subject = "unique" /\ UniqueNext
          /\ UNCHANGED <<nativeVars, schedVars, weakVars, sharedVars, input>>
       \/ /\ subject \in DOMAIN Alphabet /\ Len(input) < MaxInput
          /\ \E c \in Alphabet[subject] : input' = Append(input, c)
          /\ UNCHANGED <<nativeVars, schedVars, weakVars, sharedVars, uniqueVars>>

MCSpec == MCInit /\ [][MCNext]_mcVars /\ WeakFairness

Delta == FoldLeft(TimeAfter, 0, input)

\* Base64, Base32 and hexadecimal texts read back as the bytes they were written
\* from (base64.cc, base32.cc, hex_codec.cc); a text the decoders accept is one
\* the encoders write, but for the two exceptions named at Canonical64; the trie
\* finds the entries that start a query (ascii_trie.cc); times keep their value
\* from unit to unit and into a timer (time_delta.h, timerfd.cc).
CodecsInvert ==
    /\ subject = "bytes" => RoundTrip(input)
    /\ subject = "text64" => Canonical64(input)
    /\ subject = "text32" => Canonical32(input)
    /\ subject = "query" => \A entries \in EntryLists : TrieFinds(entries, input)
    /\ subject = "time" => TimeConverts(Delta)

\* The timer of every time that is past is set to expire at once (timerfd.cc).
PastTimersFire == subject = "time" => PastTimerFires(Delta)
=============================================================================
