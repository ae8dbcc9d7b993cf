----------------------------- MODULE Interrupts -----------------------------
(***************************************************************************)
(* The stack-limit word of a mutator thread (runtime/vm/thread.cc), which  *)
(* other threads overwrite to interrupt it, and the code that sets the     *)
(* limit when Dart functions are entered and left (dart_entry.cc), tests   *)
(* it in generated code (the StackOverflow entry of runtime_entry.cc) and  *)
(* acts on the interrupts (Thread::HandleInterrupts).                      *)
(*                                                                         *)
(* A compare-exchange loop is one action: only its last round has an       *)
(* effect, and that round saw the word it replaced.  SetStackLimit loads   *)
(* the word and stores it later without one, so it is two actions;         *)
(* thread_lock_ is held in between, that is at pc "store".                 *)
(***************************************************************************)
EXTENDS Integers, Sequences

CONSTANTS
    OSLimit,     \* overflow_stack_limit() of the OS threads it may run on
    MaxDepth,    \* bound on nested invocations of Dart functions
    MaxOOB       \* bound on queued out-of-band messages

ASSUME InterruptsAssumption ==
    /\ {"zero", "interrupt"} \cap OSLimit = {}
    /\ MaxDepth \in Nat \ {0} /\ MaxOOB \in Nat \ {0}

kVMInterrupt == "vm"
kMessageInterrupt == "message"
kInterruptsMask == {kVMInterrupt, kMessageInterrupt}

(* A uword: the low bits that kInterruptsMask covers, and the rest of it,  *)
(* which is all ones in the interrupt limit.  Stack limits are aligned.    *)
Word == [base : OSLimit \cup {"zero", "interrupt"}, bits : SUBSET kInterruptsMask]
Limit(l) == [base |-> l, bits |-> {}]
AllOnes == [base |-> "interrupt", bits |-> kInterruptsMask]

VARIABLES
    stack_limit_, saved_stack_limit_,
    pc,           \* what the mutator does, see PC
    frames,       \* limits saved by the ScopedIsolateStackLimits on its stack
    set,          \* SetStackLimit in progress: its argument, whether it saw
                  \* an interrupt, and where it returns to
    taken, back,  \* the bits HandleInterrupts took, and where it returns to
    killed,       \* an unwind error is propagating
    os,           \* limit of the OS thread the mutator runs on
    safepoint_requested, store_buffer_overflowed,
    can_process_block_,
    oob, notify   \* out-of-band messages queued; MessageNotify calls to come

limits == <<stack_limit_, saved_stack_limit_>>
reasons == <<safepoint_requested, store_buffer_overflowed, can_process_block_>>
mail == <<oob, notify>>
handling == <<taken, back, killed>>
vars == <<limits, pc, frames, set, handling, os, reasons, mail>>

Init ==
    /\ stack_limit_ = Limit("zero") /\ saved_stack_limit_ = Limit("zero")
    /\ pc = "loop" /\ frames = <<>>
    /\ set = [limit |-> Limit("zero"), had |-> FALSE, then |-> "loop"]
    /\ taken = {} /\ back = "vm" /\ killed = FALSE
    /\ os \in OSLimit
    /\ safepoint_requested = FALSE /\ store_buffer_overflowed = FALSE
    /\ can_process_block_ = FALSE
    /\ oob = 0 /\ notify = 0

IsInterruptLimit(limit) == limit.base = "interrupt"
HasScheduledInterrupts == stack_limit_.bits # {}

ScheduleInterrupts(interrupt_bits) ==
    stack_limit_' =
       IF IsInterruptLimit(stack_limit_)
       THEN [stack_limit_ EXCEPT !.bits = @ \cup interrupt_bits]
       ELSE [base |-> "interrupt", bits |-> interrupt_bits]

-----------------------------------------------------------------------------
(* The mutator: setting the limit.                                         *)

(* The first half of SetStackLimit: take thread_lock_ and load the word.   *)
SetStackLimit(limit, then) ==
    /\ set' = [limit |-> limit, had |-> HasScheduledInterrupts, then |-> then]
    /\ pc' = "store"
    /\ UNCHANGED limits

(* The second half.  A thread that is back in the message loop leaves its  *)
(* isolate, which parks it for a safepoint that was requested.             *)
SetStackLimitStore ==
    /\ pc = "store"
    /\ stack_limit_' = IF set.had THEN stack_limit_ ELSE set.limit
    /\ saved_stack_limit_' = set.limit
    /\ pc' = set.then
    /\ safepoint_requested' = (safepoint_requested /\ set.then # "loop")
    /\ UNCHANGED <<frames, set, handling, os, store_buffer_overflowed,
                   can_process_block_, mail>>

(* InvokeFunction, for a message or from a native function or runtime      *)
(* call: the limit in force is saved and replaced by the OS thread's.  The *)
(* isolate may have been on another OS thread for the last message.        *)
InvokeFunction ==
    /\ ~killed /\ Len(frames) < MaxDepth
    /\ \/ pc = "loop" /\ os' \in OSLimit
       \/ pc = "vm" /\ UNCHANGED os
    /\ frames' = Append(frames, saved_stack_limit_)
    /\ SetStackLimit(Limit(os'), "dart")
    /\ UNCHANGED <<handling, reasons, mail>>

(* Mutant: the limit of the outer invocation is not put back.              *)
MutRestoredLimit == saved_stack_limit_

RestoredLimit == frames[Len(frames)]

(* The function returns or is unwound, all of them by an unwind error.     *)
Leave ==
    /\ pc = "dart" \/ (pc = "vm" /\ killed /\ frames # <<>>)
    /\ frames' = SubSeq(frames, 1, Len(frames) - 1)
    /\ SetStackLimit(RestoredLimit, IF Len(frames) = 1 THEN "loop" ELSE "vm")
    /\ UNCHANGED <<handling, os, reasons, mail>>

(* Isolate::Shutdown begins with ClearStackLimit.                          *)
Shutdown ==
    /\ pc = "loop"
    /\ SetStackLimit(AllOnes, "done")
    /\ UNCHANGED <<frames, handling, os, reasons, mail>>

-----------------------------------------------------------------------------
(* The mutator: running Dart code and taking interrupts.                   *)

(* The transition from generated code looks for a safepoint request.       *)
RuntimeCall ==
    /\ pc = "dart" /\ ~killed
    /\ pc' = "vm" /\ safepoint_requested' = FALSE
    /\ UNCHANGED <<limits, frames, set, handling, os, store_buffer_overflowed,
                   can_process_block_, mail>>

ReturnToDart ==
    /\ pc = "vm" /\ ~killed /\ frames # <<>>
    /\ pc' = "dart"
    /\ UNCHANGED <<limits, frames, set, handling, os, reasons, mail>>

(* The test at function entries and loop back edges.                       *)
StackCheck ==
    /\ pc = "dart" /\ ~killed /\ IsInterruptLimit(stack_limit_)
    /\ pc' = "trap"
    /\ UNCHANGED <<limits, frames, set, handling, os, reasons, mail>>

(* A real overflow is thrown first and the interrupt left for next time.   *)
ThrowStackOverflow ==
    /\ pc = "trap"
    /\ pc' = "dart"
    /\ UNCHANGED <<limits, frames, set, handling, os, reasons, mail>>

(* Mutant: the word is reset and its bits forgotten.                       *)
MutInterruptBits == {}

InterruptBits ==
    IF IsInterruptLimit(stack_limit_) THEN stack_limit_.bits ELSE {}

(* From the StackOverflow entry, or from a native function that drains     *)
(* interrupts (sending a control message, a regular expression).           *)
GetAndClearInterrupts ==
    /\ pc = "trap" \/ (pc = "vm" /\ ~killed)
    /\ taken' = InterruptBits
    /\ stack_limit_' = IF IsInterruptLimit(stack_limit_) THEN saved_stack_limit_
                                                         ELSE stack_limit_
    /\ back' = IF pc = "trap" THEN "dart" ELSE "vm"
    /\ pc' = "handle"
    /\ UNCHANGED <<saved_stack_limit_, frames, set, killed, os, reasons, mail>>

(* HandleOOBMessages returns when the queue is empty.                      *)
OOBLeft == 0

(* The rest of HandleInterrupts: park, scavenge, process sample blocks;    *)
(* then handle all out-of-band messages, one of which may be a kill.       *)
HandleInterrupts ==
    /\ pc = "handle"
    /\ IF kVMInterrupt \in taken
       THEN /\ safepoint_requested' = FALSE /\ store_buffer_overflowed' = FALSE
            /\ can_process_block_' = FALSE
       ELSE UNCHANGED reasons
    /\ IF kMessageInterrupt \in taken
       THEN oob' = OOBLeft /\ killed' \in {killed, oob > 0}
       ELSE UNCHANGED <<oob, killed>>
    /\ taken' = {} /\ pc' = back
    /\ UNCHANGED <<limits, frames, set, back, os, notify>>

(* Mutant: the message loop looks at normal messages only.                 *)
MutLoopSeesOOB == FALSE

LoopSeesOOB == oob > 0

(* Between two messages the message loop handles the out-of-band queue.    *)
HandleOOBMessages ==
    /\ pc = "loop" /\ ~killed /\ LoopSeesOOB
    /\ oob' = OOBLeft /\ killed' \in BOOLEAN
    /\ UNCHANGED <<limits, pc, frames, set, taken, back, os, reasons, notify>>

(* StoreBuffer::PushBlock of a mutator that is over the threshold.         *)
StoreBufferOverflow ==
    /\ pc \in {"dart", "vm"} /\ ~killed /\ frames # <<>>
    /\ ~store_buffer_overflowed /\ store_buffer_overflowed' = TRUE
    /\ ScheduleInterrupts({kVMInterrupt})
    /\ UNCHANGED <<saved_stack_limit_, pc, frames, set, handling, os,
                   safepoint_requested, can_process_block_, mail>>

-----------------------------------------------------------------------------
(* The others.                                                             *)

(* Mutant: the request is made without thread_lock_.                       *)
MutThreadLockFree == TRUE

ThreadLockFree == pc # "store"

(* NotifyThreadsToGetToSafepointLevel, of a mutator not at a safepoint.    *)
RequestSafepoint ==
    /\ ThreadLockFree /\ pc \notin {"loop", "done"}
    /\ ~safepoint_requested /\ safepoint_requested' = TRUE
    /\ ScheduleInterrupts({kVMInterrupt})
    /\ UNCHANGED <<saved_stack_limit_, pc, frames, set, handling, os,
                   store_buffer_overflowed, can_process_block_, mail>>

(* ReserveSample with its block full, in a signal handler or another       *)
(* thread; only the first of several interrupts.                           *)
ReserveSample ==
    /\ pc # "done"
    /\ ~can_process_block_ /\ can_process_block_' = TRUE
    /\ ScheduleInterrupts({kVMInterrupt})
    /\ UNCHANGED <<saved_stack_limit_, pc, frames, set, handling, os,
                   safepoint_requested, store_buffer_overflowed, mail>>

(* MessageHandler::PostMessage of an out-of-band message, and then         *)
(* MessageNotify, which holds threads_lock() but not thread_lock_.         *)
PostMessage ==
    /\ pc # "done" /\ oob < MaxOOB /\ notify < MaxOOB
    /\ oob' = oob + 1 /\ notify' = notify + 1
    /\ UNCHANGED <<limits, pc, frames, set, handling, os, reasons>>

MessageNotify ==
    /\ notify > 0 /\ notify' = notify - 1
    /\ ScheduleInterrupts({kMessageInterrupt})
    /\ UNCHANGED <<saved_stack_limit_, pc, frames, set, handling, os, reasons, oob>>

-----------------------------------------------------------------------------
Mutator ==
    \/ SetStackLimitStore \/ InvokeFunction \/ Leave \/ Shutdown
    \/ RuntimeCall \/ ReturnToDart \/ StackCheck \/ ThrowStackOverflow
    \/ GetAndClearInterrupts \/ HandleInterrupts \/ HandleOOBMessages
    \/ StoreBufferOverflow
Others == RequestSafepoint \/ ReserveSample \/ PostMessage \/ MessageNotify

Next == Mutator \/ Others
Spec == Init /\ [][Next]_vars

(* Runtime calls return, an unwind error ends the isolate, and the message *)
(* loop handles what was posted.  Generated code tests the limit again and *)
(* again, and not every test finds the stack full.  Nothing makes a Dart   *)
(* function return.                                                        *)
FairSpec ==
    /\ Spec
    /\ WF_vars(SetStackLimitStore) /\ WF_vars(HandleInterrupts)
    /\ WF_vars(MessageNotify)
    /\ WF_vars(killed /\ (Leave \/ Shutdown))
    /\ SF_vars(HandleOOBMessages)
    /\ SF_vars(ReturnToDart) /\ SF_vars(StackCheck)
    /\ SF_vars(pc = "trap" /\ GetAndClearInterrupts)

-----------------------------------------------------------------------------
PC == {"loop", "store", "dart", "vm", "trap", "handle", "done"}

Taking(bit) == pc = "handle" /\ bit \in taken

(* An interrupt for a safepoint or a full store buffer is never lost: as   *)
(* long as the reason stands, the bit is in the word, or HandleInterrupts  *)
(* has it in hand, whatever limits are set meanwhile.                      *)
VMWorkSignalled ==
    safepoint_requested \/ store_buffer_overflowed =>
       kVMInterrupt \in stack_limit_.bits \/ Taking(kVMInterrupt)

(* The limit that the overflow test uses is the one of the OS thread the   *)
(* mutator is on, the word holds it unless there is an interrupt, and the  *)
(* nested invocations bottom out at the limit 0 they started from.         *)
LimitInForce ==
    /\ pc # "store" => IsInterruptLimit(stack_limit_) \/ stack_limit_ = saved_stack_limit_
    /\ pc \in {"dart", "trap"} => saved_stack_limit_ = Limit(os)
    /\ pc = "loop" => saved_stack_limit_ = Limit("zero")

(* A mutator asked to reach a safepoint gets there, though its Dart code   *)
(* may never return.                                                       *)
SafepointReached == safepoint_requested ~> ~safepoint_requested

(* If every event ends, every out-of-band message is handled: the message  *)
(* loop makes up for an interrupt that went missing.                       *)
EventsEnd == []<>(pc \in {"loop", "done"})
OOBHandled == EventsEnd => (oob > 0 ~> oob = 0 \/ pc = "done")

(* What MessageNotify says: out-of-band messages are handled even if the   *)
(* mutator thread is busy.                                                 *)
BusyMutatorHandlesOOB == oob > 0 ~> oob = 0 \/ pc = "done"
=============================================================================
