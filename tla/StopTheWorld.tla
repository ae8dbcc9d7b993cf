---------------------------- MODULE StopTheWorld ----------------------------
(***************************************************************************)
(* What safepoint operations promise the code that runs inside them (the   *)
(* garbage collector, deoptimization, isolate reload): from its beginning  *)
(* to its end the operation is alone.  Nothing is said about how threads   *)
(* are asked to stop.  SafepointOperationScope in runtime/vm/heap/         *)
(* safepoint.h states the promise; Safepoint is shown to keep it.          *)
(***************************************************************************)
CONSTANT Thread

VARIABLES
    mode,        \* of each thread, see Mode
    operation    \* the operation each thread runs, see Operation

(* A thread is outside the group, exempt from safepoints, running code     *)
(* that may touch the heap, or at a safepoint: one for garbage collection  *)
(* only, or one where its frames may be deoptimized as well.               *)
Mode == {"out", "exempt", "running", "gcSafe", "deoptSafe"}
Operation == {"none", "gc", "deopt"}

SafeFor(o) == IF o = "gc" THEN Mode \ {"running"}
                          ELSE {"out", "exempt", "deoptSafe"}

Init ==
    /\ mode = [t \in Thread |-> "out"]
    /\ operation = [t \in Thread |-> "none"]

NoOperation == \A u \in Thread : operation[u] = "none"

(* Threads start running, on arrival or after a safepoint, only while      *)
(* there is no operation.                                                  *)
Run(t) ==
    /\ mode[t] \in {"out", "gcSafe", "deoptSafe"}
    /\ NoOperation
    /\ mode' = [mode EXCEPT ![t] = "running"]
    /\ UNCHANGED operation

Stop(t) ==
    /\ mode[t] = "running"
    /\ \E m \in {"out", "gcSafe", "deoptSafe"} : mode' = [mode EXCEPT ![t] = m]
    /\ UNCHANGED operation

ComeOrGoExempt(t) ==
    /\ mode[t] \in {"out", "exempt"}
    /\ \E m \in {"out", "exempt"} : mode' = [mode EXCEPT ![t] = m]
    /\ UNCHANGED operation

Begin(t) ==
    /\ NoOperation
    /\ \E o \in {"gc", "deopt"} :
          /\ \A u \in Thread \ {t} : mode[u] \in SafeFor(o)
          /\ operation' = [operation EXCEPT ![t] = o]
    /\ mode[t] \in {"gcSafe", "deoptSafe"}
    /\ UNCHANGED mode

End(t) ==
    /\ operation[t] # "none"
    /\ operation' = [operation EXCEPT ![t] = "none"]
    /\ UNCHANGED mode

Next == \E t \in Thread :
    Run(t) \/ Stop(t) \/ ComeOrGoExempt(t) \/ Begin(t) \/ End(t)

Spec == Init /\ [][Next]_<<mode, operation>>
=============================================================================
