----------------------------- MODULE Safepoint -----------------------------
(***************************************************************************)
(* Safepoint operations of one isolate group: SafepointHandler and its two *)
(* level handlers (runtime/vm/heap/safepoint.cc), the safepoint_state_     *)
(* word of a thread (thread.h), and threads that are scheduled into the    *)
(* group and leave it (isolate.cc, thread_registry.cc).                    *)
(*                                                                         *)
(* threads_lock() is held by a thread at pc "notify" or "continue", which  *)
(* visits the active list one thread at a time; every other critical       *)
(* section is one action.  A thread_lock() section is one action too: the  *)
(* lock-free steps that can run inside it (the two compare-exchanges and   *)
(* GetAndClearInterrupts) have the same outcome before or after it.        *)
(* The sets below are the bits of safepoint_state_: at and req by level,   *)
(* blocked_ and bypass_.  Unwind-error bits play no part in safepoints.    *)
(***************************************************************************)
EXTENDS Integers, FiniteSets

CONSTANTS
    Thread,             \* Thread structures, each with the OS thread using it
    Mutator,            \* those of mutators; the others are helper threads
    NoThread,           \* owner_ == nullptr
    MaxOperationCount   \* bound on nested operations at one level

ASSUME SafepointAssumption ==
    /\ IsFiniteSet(Thread)
    /\ Mutator \subseteq Thread
    /\ NoThread \notin Thread
    /\ MaxOperationCount \in Nat \ {0}

kGC == 0
kGCAndDeopt == 1
Level == {kGC, kGCAndDeopt}

VARIABLES
    active_list_, at, req, blocked_, bypass_,
    current_safepoint_level,
    vm_interrupt,       \* threads with kVMInterrupt pending
    owner_, operation_count_, num_threads_not_parked_,   \* of each level
    pc, want,           \* where a thread is, the level of its operation
    wake,               \* FALSE: asleep on a monitor and not yet notified
    todo                \* what the holder of threads_lock() has yet to visit

word == <<at, req, blocked_, bypass_>>
handlers == <<owner_, operation_count_, num_threads_not_parked_>>
vars == <<active_list_, word, current_safepoint_level, vm_interrupt, handlers,
          pc, want, wake, todo>>

AtSafepointBits(l) == 0..l
IsAtSafepoint(l, t) == AtSafepointBits(l) \subseteq at[t]
Requested(t) == \E l \in req[t] : l <= current_safepoint_level[t]
SafepointInProgress(l) == owner_[l] # NoThread
AnySafepointInProgress == \E l \in Level : SafepointInProgress(l)
ThreadsLockFree == \A t \in Thread : pc[t] \notin {"notify", "continue"}

(* Asleep on threads_lock() or on the thread's own thread_lock().          *)
ThreadsLockWaitPC == {"waitSchedule", "waitLevel", "waitLower"}
Asleep(t) == pc[t] \in ThreadsLockWaitPC \cup {"blocked"} /\ ~wake[t]

Init ==
    /\ active_list_ = {} /\ blocked_ = {} /\ bypass_ = {}
    /\ at = [t \in Thread |-> Level]
    /\ req = [t \in Thread |-> {}]
    /\ current_safepoint_level = [t \in Thread |-> kGCAndDeopt]
    /\ vm_interrupt = {}
    /\ owner_ = [l \in Level |-> NoThread]
    /\ operation_count_ = [l \in Level |-> 0]
    /\ num_threads_not_parked_ = [l \in Level |-> 0]
    /\ pc = [t \in Thread |-> "out"]
    /\ want = [t \in Thread |-> kGC]
    /\ wake = [t \in Thread |-> TRUE]
    /\ todo = {}

-----------------------------------------------------------------------------
(* Entering and leaving a safepoint.                                       *)

SetAtSafepoint(t) ==
    at' = [at EXCEPT ![t] = @ \cup AtSafepointBits(current_safepoint_level[t])]
ClearAtSafepoint(t) ==
    at' = [at EXCEPT ![t] = @ \ AtSafepointBits(current_safepoint_level[t])]

(* Mutant: only the level the thread can reach is told, not lower ones.    *)
MutParksAt(t, l) == l \in req[t] /\ l = current_safepoint_level[t]

ParksAt(t, l) == l \in req[t] /\ l <= current_safepoint_level[t]

(* NotifyWeAreParked for every requested level the thread takes part in.   *)
NotifyWeAreParked(t) ==
    num_threads_not_parked_' =
       [l \in Level |-> num_threads_not_parked_[l] - (IF ParksAt(t, l) THEN 1 ELSE 0)]

EnterSafepointLocked(t) == SetAtSafepoint(t) /\ NotifyWeAreParked(t)

(* compare_exchange of the whole word, expected to be 0 on the way in and  *)
(* to have the thread's at bits and no others on the way out.              *)
FastEnter(t) == at[t] = {} /\ req[t] = {} /\ t \notin blocked_ \cup bypass_

EnterSafepoint(t) ==
    \/ FastEnter(t) /\ SetAtSafepoint(t) /\ UNCHANGED num_threads_not_parked_
    \/ ~FastEnter(t) /\ EnterSafepointLocked(t)

FastExit(t) ==
    /\ at[t] = AtSafepointBits(current_safepoint_level[t])
    /\ req[t] = {} /\ t \notin blocked_ \cup bypass_

(* The loop of ExitSafepointLocked: wait on thread_lock() while requested. *)
ExitSafepointLocked(t) ==
    \/ /\ Requested(t)
       /\ blocked_' = blocked_ \cup {t}
       /\ wake' = [wake EXCEPT ![t] = FALSE]
       /\ pc' = [pc EXCEPT ![t] = "blocked"]
       /\ UNCHANGED at
    \/ /\ ~Requested(t)
       /\ ClearAtSafepoint(t)
       /\ blocked_' = blocked_ \ {t}
       /\ pc' = [pc EXCEPT ![t] = "vm"]
       /\ UNCHANGED wake

-----------------------------------------------------------------------------
(* What a scheduled thread does between operations.                        *)

(* From VM or generated code to native code, or to a monitor or mutex it   *)
(* may block on.  A thread in a runtime call that cannot lazily deoptimize *)
(* does the latter only.  Native code inside a no-callback scope stays     *)
(* out of the safepoint and is at pc "vm" here.                            *)
EnterNative(t) ==
    /\ pc[t] \in {"vm", "gen"}
    /\ EnterSafepoint(t)
    /\ pc' = [pc EXCEPT ![t] = "native"]
    /\ UNCHANGED <<active_list_, req, blocked_, bypass_,
                   current_safepoint_level, vm_interrupt, owner_,
                   operation_count_, want, wake, todo>>

(* ExitSafepoint: the compare-exchange, or else the slow path, which is    *)
(* also where ResumeThreads ends.                                          *)
ExitSafepoint(t) ==
    /\ \/ pc[t] = "native" /\ FastExit(t) /\ ClearAtSafepoint(t)
          /\ pc' = [pc EXCEPT ![t] = "vm"]
          /\ UNCHANGED <<blocked_, wake>>
       \/ pc[t] = "native" /\ ~FastExit(t) /\ ExitSafepointLocked(t)
       \/ pc[t] = "exit" /\ ExitSafepointLocked(t)
    /\ UNCHANGED <<active_list_, req, bypass_, current_safepoint_level,
                   vm_interrupt, handlers, want, todo>>

(* Blocked in ExitSafepointLocked and woken up.                            *)
WakeUp(t) ==
    /\ pc[t] = "blocked" /\ wake[t]
    /\ ExitSafepointLocked(t)
    /\ UNCHANGED <<active_list_, req, bypass_, current_safepoint_level,
                   vm_interrupt, handlers, want, todo>>

(* The unlocked look at safepoint_state_ in VM code: CheckForSafepoint and *)
(* the transitions from generated code.                                    *)
CheckForSafepoint(t) ==
    pc' = [pc EXCEPT ![t] = IF Requested(t)' THEN "blockFor" ELSE "vm"]

(* A runtime call; l is the level it can take part in (RuntimeCallDeopt-   *)
(* Scope is entered before the transition looks for a request).            *)
RuntimeCall(t, l) ==
    /\ pc[t] = "gen"
    /\ current_safepoint_level' = [current_safepoint_level EXCEPT ![t] = l]
    /\ UNCHANGED req
    /\ CheckForSafepoint(t)
    /\ UNCHANGED <<active_list_, at, blocked_, bypass_, vm_interrupt, handlers,
                   want, wake, todo>>

(* The call returns, or VM code calls generated code: no check is made.    *)
ToGenerated(t) ==
    /\ pc[t] = "vm" /\ t \in Mutator
    /\ pc' = [pc EXCEPT ![t] = "gen"]
    /\ current_safepoint_level' =
          [current_safepoint_level EXCEPT ![t] = kGCAndDeopt]
    /\ UNCHANGED <<active_list_, word, vm_interrupt, handlers, want, wake, todo>>

(* Generated code that was called from VM code returns: no check either.   *)
ReturnToVM(t) ==
    /\ pc[t] = "gen"
    /\ pc' = [pc EXCEPT ![t] = "vm"]
    /\ UNCHANGED <<active_list_, word, current_safepoint_level, vm_interrupt,
                   handlers, want, wake, todo>>

(* Long-running VM code polls.                                             *)
Poll(t) ==
    /\ pc[t] = "vm"
    /\ UNCHANGED <<req, current_safepoint_level>>
    /\ CheckForSafepoint(t)
    /\ UNCHANGED <<active_list_, at, blocked_, bypass_, vm_interrupt, handlers,
                   want, wake, todo>>

(* A mutator takes the pending interrupt bits and then polls.              *)
HandleInterrupts(t) ==
    /\ pc[t] = "vm" /\ current_safepoint_level[t] = kGCAndDeopt
    /\ t \in vm_interrupt
    /\ vm_interrupt' = vm_interrupt \ {t}
    /\ UNCHANGED <<req, current_safepoint_level>>
    /\ CheckForSafepoint(t)
    /\ UNCHANGED <<active_list_, at, blocked_, bypass_, handlers, want, wake,
                   todo>>

(* BlockForSafepoint looks again under the lock, then enters and exits.    *)
BlockForSafepoint(t) ==
    /\ pc[t] = "blockFor"
    /\ \/ /\ Requested(t)
          /\ EnterSafepointLocked(t)
          /\ blocked_' = blocked_ \cup {t}
          /\ wake' = [wake EXCEPT ![t] = FALSE]
          /\ pc' = [pc EXCEPT ![t] = "blocked"]
       \/ /\ ~Requested(t)
          /\ pc' = [pc EXCEPT ![t] = "vm"]
          /\ UNCHANGED <<at, blocked_, wake, num_threads_not_parked_>>
    /\ UNCHANGED <<active_list_, req, bypass_, current_safepoint_level,
                   vm_interrupt, owner_, operation_count_, want, todo>>

-----------------------------------------------------------------------------
(* Threads come and go.                                                    *)

(* Mutant: a new thread does not wait for an operation in progress.        *)
MutMustWait(bypass) == FALSE

MustWait(bypass) == ~bypass /\ AnySafepointInProgress

set_safepoint_state(t, bits, bypass) ==
    /\ at' = [at EXCEPT ![t] = bits]
    /\ req' = [req EXCEPT ![t] = {}]
    /\ blocked_' = blocked_ \ {t}
    /\ bypass_' = IF bypass THEN bypass_ \cup {t} ELSE bypass_ \ {t}

(* ScheduleThreadLocked, the first time and after each wait; only helper   *)
(* threads of the collector bypass safepoints.                             *)
ScheduleThread(t, bypass) ==
    /\ ThreadsLockFree
    /\ pc[t] = "out" \/ (pc[t] = "waitSchedule" /\ wake[t] /\ ~bypass)
    /\ bypass => t \notin Mutator
    /\ \/ /\ MustWait(bypass)
          /\ pc' = [pc EXCEPT ![t] = "waitSchedule"]
          /\ wake' = [wake EXCEPT ![t] = FALSE]
          /\ UNCHANGED <<active_list_, word>>
       \/ /\ ~MustWait(bypass)
          /\ active_list_' = active_list_ \cup {t}
          /\ set_safepoint_state(t, {}, bypass)
          /\ pc' = [pc EXCEPT ![t] = "vm"]
          /\ UNCHANGED wake
    /\ UNCHANGED <<current_safepoint_level, vm_interrupt, handlers, want, todo>>

(* Mutant: a leaving thread does not report itself at a safepoint.         *)
MutParkOnLeave(t) == UNCHANGED num_threads_not_parked_

(* A leaving thread enters a safepoint (a bypassing one is never counted)  *)
(* before its word is overwritten.                                         *)
ParkOnLeave(t) ==
    IF t \in bypass_ \/ FastEnter(t) THEN UNCHANGED num_threads_not_parked_
                                     ELSE NotifyWeAreParked(t)

(* UnscheduleThreadLocked; no runtime call that cannot lazily deoptimize   *)
(* leaves its isolate.                                                     *)
UnscheduleThread(t) ==
    /\ ThreadsLockFree
    /\ pc[t] = "vm" /\ current_safepoint_level[t] = kGCAndDeopt
    /\ ParkOnLeave(t)
    /\ active_list_' = active_list_ \ {t}
    /\ set_safepoint_state(t, Level, FALSE)
    /\ pc' = [pc EXCEPT ![t] = "out"]
    /\ UNCHANGED <<current_safepoint_level, vm_interrupt, owner_,
                   operation_count_, want, wake, todo>>

-----------------------------------------------------------------------------
(* Safepoint operations.                                                   *)

(* Mutant: a level in progress is not waited for.                          *)
MutCanOwn(l) == TRUE

CanOwn(l) == ~SafepointInProgress(l)

(* Take the level and start visiting the active list, or wait on           *)
(* threads_lock() until nobody has the level.                              *)
OwnOrWait(t, l) ==
    \/ /\ CanOwn(l)
       /\ owner_' = [owner_ EXCEPT ![l] = t]
       /\ operation_count_' = [operation_count_ EXCEPT ![l] = 1]
       /\ pc' = [pc EXCEPT ![t] = "notify"]
       /\ todo' = active_list_ \ {t}
       /\ UNCHANGED wake
    \/ /\ ~CanOwn(l)
       /\ pc' = [pc EXCEPT ![t] = "waitLevel"]
       /\ wake' = [wake EXCEPT ![t] = FALSE]
       /\ UNCHANGED <<owner_, operation_count_, todo>>

(* SafepointThreads by VM code that is not in an operation.                *)
SafepointThreads(t, l) ==
    /\ ThreadsLockFree
    /\ pc[t] = "vm" /\ t \notin bypass_
    /\ l <= current_safepoint_level[t]
    /\ EnterSafepointLocked(t)
    /\ want' = [want EXCEPT ![t] = l]
    /\ OwnOrWait(t, l)
    /\ UNCHANGED <<active_list_, req, blocked_, bypass_,
                   current_safepoint_level, vm_interrupt>>

(* The wait for the level ends.                                            *)
RetryLevel(t) ==
    /\ ThreadsLockFree
    /\ pc[t] = "waitLevel" /\ wake[t]
    /\ OwnOrWait(t, want[t])
    /\ UNCHANGED <<active_list_, word, current_safepoint_level, vm_interrupt,
                   num_threads_not_parked_, want>>

MustPark(u, l) == ~IsAtSafepoint(l, u)

(* One round of NotifyThreadsToGetToSafepointLevel.                        *)
NotifyOne(t, u) ==
    /\ pc[t] = "notify"
    /\ u \in todo /\ todo' = todo \ {u}
    /\ IF u \in bypass_
       THEN UNCHANGED <<req, vm_interrupt, num_threads_not_parked_>>
       ELSE /\ req' = [req EXCEPT ![u] = @ \cup {want[t]}]
            /\ IF MustPark(u, want[t])
               THEN /\ vm_interrupt' = vm_interrupt \cup ({u} \cap Mutator)
                    /\ num_threads_not_parked_' =
                          [num_threads_not_parked_ EXCEPT ![want[t]] = @ + 1]
               ELSE UNCHANGED <<vm_interrupt, num_threads_not_parked_>>
    /\ UNCHANGED <<active_list_, at, blocked_, bypass_, current_safepoint_level,
                   owner_, operation_count_, pc, want, wake>>

NotifyDone(t) ==
    /\ pc[t] = "notify" /\ todo = {}
    /\ pc' = [pc EXCEPT ![t] = "waitParked"]
    /\ UNCHANGED <<active_list_, word, current_safepoint_level, vm_interrupt,
                   handlers, want, wake, todo>>

(* Mutant: the requester does not wait for the others.                     *)
MutAllParked(l) == TRUE

AllParked(l) == num_threads_not_parked_[l] = 0

(* WaitUntilThreadsReachedSafepointLevel ends.  Its wait has a timeout, so *)
(* it does not depend on a notification.                                   *)
ReachedSafepointLevel(t) ==
    /\ pc[t] = "waitParked" /\ AllParked(want[t])
    /\ pc' = [pc EXCEPT ![t] = IF want[t] = kGC THEN "op" ELSE "waitLower"]
    /\ UNCHANGED <<active_list_, word, current_safepoint_level, vm_interrupt,
                   handlers, want, wake, todo>>

(* AcquireLowerLevelSafepoints, first and after each wait.                 *)
AcquireLowerLevelSafepoints(t) ==
    /\ ThreadsLockFree
    /\ pc[t] = "waitLower" /\ wake[t]
    /\ \/ /\ CanOwn(kGC)
          /\ owner_' = [owner_ EXCEPT ![kGC] = t]
          /\ operation_count_' = [operation_count_ EXCEPT ![kGC] = 1]
          /\ pc' = [pc EXCEPT ![t] = "op"]
          /\ UNCHANGED wake
       \/ /\ ~CanOwn(kGC)
          /\ wake' = [wake EXCEPT ![t] = FALSE]
          /\ UNCHANGED <<owner_, operation_count_, pc>>
    /\ UNCHANGED <<active_list_, word, current_safepoint_level, vm_interrupt,
                   num_threads_not_parked_, want, todo>>

(* A nested operation, at any level the thread owns.                       *)
NestedSafepointThreads(t, l) ==
    /\ ThreadsLockFree
    /\ pc[t] = "op" /\ owner_[l] = t
    /\ operation_count_[l] < MaxOperationCount
    /\ operation_count_' = [operation_count_ EXCEPT ![l] = @ + 1]
    /\ UNCHANGED <<active_list_, word, current_safepoint_level, vm_interrupt,
                   owner_, num_threads_not_parked_, pc, want, wake, todo>>

NestedResumeThreads(t, l) ==
    /\ ThreadsLockFree
    /\ pc[t] = "op" /\ owner_[l] = t
    /\ operation_count_[l] > 1
    /\ operation_count_' = [operation_count_ EXCEPT ![l] = @ - 1]
    /\ UNCHANGED <<active_list_, word, current_safepoint_level, vm_interrupt,
                   owner_, num_threads_not_parked_, pc, want, wake, todo>>

(* ResumeThreads of the outermost scope (scopes are properly nested, so    *)
(* the inner ones are closed): ReleaseLowerLevelSafepoints, then the loop  *)
(* of NotifyThreadsToContinue begins.                                      *)
ResumeThreads(t) ==
    /\ ThreadsLockFree
    /\ pc[t] = "op"
    /\ \A l \in 0..want[t] : operation_count_[l] = 1
    /\ owner_' = [l \in Level |-> IF l < want[t] THEN NoThread ELSE owner_[l]]
    /\ operation_count_' =
          [l \in Level |-> IF l < want[t] THEN 0 ELSE operation_count_[l]]
    /\ pc' = [pc EXCEPT ![t] = "continue"]
    /\ todo' = active_list_ \ {t}
    /\ UNCHANGED <<active_list_, word, current_safepoint_level, vm_interrupt,
                   num_threads_not_parked_, want, wake>>

(* Mutant: a thread asleep on its thread_lock() is not notified.           *)
MutWakes(u) == FALSE

ClearedLevels(l) == 0..l
Wakes(u) == u \in blocked_

ContinueOne(t, u) ==
    /\ pc[t] = "continue"
    /\ u \in todo /\ todo' = todo \ {u}
    /\ IF u \in bypass_
       THEN UNCHANGED <<req, wake>>
       ELSE /\ req' = [req EXCEPT ![u] = @ \ ClearedLevels(want[t])]
            /\ wake' = [wake EXCEPT ![u] = @ \/ Wakes(u)]
    /\ UNCHANGED <<active_list_, at, blocked_, bypass_, current_safepoint_level,
                   vm_interrupt, handlers, pc, want>>

NotifyThreadsLock ==
    wake' = [u \in Thread |-> wake[u] \/ pc[u] \in ThreadsLockWaitPC]

(* ResetSafepointInProgress, NotifyAll, and out of threads_lock().         *)
ContinueDone(t) ==
    /\ pc[t] = "continue" /\ todo = {}
    /\ owner_' = [owner_ EXCEPT ![want[t]] = NoThread]
    /\ operation_count_' = [operation_count_ EXCEPT ![want[t]] = 0]
    /\ NotifyThreadsLock
    /\ pc' = [pc EXCEPT ![t] = "exit"]
    /\ want' = [want EXCEPT ![t] = kGC]
    /\ UNCHANGED <<active_list_, word, current_safepoint_level, vm_interrupt,
                   num_threads_not_parked_, todo>>

SpuriousWakeup(t) ==
    /\ Asleep(t)
    /\ wake' = [wake EXCEPT ![t] = TRUE]
    /\ UNCHANGED <<active_list_, word, current_safepoint_level, vm_interrupt,
                   handlers, pc, want, todo>>

-----------------------------------------------------------------------------
Next == \E t \in Thread :
    \/ EnterNative(t) \/ ExitSafepoint(t) \/ WakeUp(t)
    \/ ToGenerated(t) \/ ReturnToVM(t) \/ Poll(t) \/ HandleInterrupts(t)
    \/ BlockForSafepoint(t) \/ UnscheduleThread(t)
    \/ \E bypass \in BOOLEAN : ScheduleThread(t, bypass)
    \/ \E l \in Level :
          \/ RuntimeCall(t, l)
          \/ SafepointThreads(t, l)
          \/ NestedSafepointThreads(t, l) \/ NestedResumeThreads(t, l)
    \/ \E u \in Thread : NotifyOne(t, u) \/ ContinueOne(t, u)
    \/ RetryLevel(t) \/ NotifyDone(t)
    \/ ReachedSafepointLevel(t) \/ AcquireLowerLevelSafepoints(t)
    \/ ResumeThreads(t) \/ ContinueDone(t)
    \/ SpuriousWakeup(t)

Spec == Init /\ [][Next]_vars

(* What a thread has to do next.  One that has started something goes on;  *)
(* VM code returns to generated code, blocks, leaves, starts an operation, *)
(* or polls if it runs long; a runtime call that cannot deoptimize gets    *)
(* the locks it blocks on.  Native code is under no obligation.            *)
Progress(t) ==
    \/ WakeUp(t) \/ BlockForSafepoint(t) \/ RetryLevel(t)
    \/ NotifyDone(t) \/ ReachedSafepointLevel(t)
    \/ AcquireLowerLevelSafepoints(t) \/ ContinueDone(t)
    \/ \E u \in Thread : NotifyOne(t, u) \/ ContinueOne(t, u)
    \/ \E l \in Level : NestedResumeThreads(t, l) \/ SafepointThreads(t, l)
    \/ ToGenerated(t) \/ UnscheduleThread(t)
    \/ pc[t] = "vm" /\ EnterNative(t)
    \/ Requested(t) /\ Poll(t)
    \/ (pc[t] = "exit" \/ current_safepoint_level[t] = kGC) /\ ExitSafepoint(t)

(* Operations end however often they nest, and runtime calls that cannot   *)
(* deoptimize return however often they block.  Generated code tests the   *)
(* stack limit again and again, so a pending interrupt is seen although    *)
(* the thread may be in other runtime calls now and then.  No monitor is   *)
(* assumed to be fair.                                                     *)
FairSpec ==
    /\ Spec
    /\ \A t \in Thread :
          /\ WF_vars(Progress(t))
          /\ SF_vars(ResumeThreads(t))
          /\ SF_vars(t \in vm_interrupt /\ RuntimeCall(t, kGCAndDeopt))
          /\ SF_vars(current_safepoint_level[t] = kGC /\ ToGenerated(t))

-----------------------------------------------------------------------------
PC == {"out", "vm", "gen", "native", "blockFor", "exit", "notify",
       "waitParked", "op", "continue"} \cup ThreadsLockWaitPC \cup {"blocked"}
RunningPC == {"vm", "gen", "blockFor"}
OwnerPC == {"notify", "waitParked", "waitLower", "op", "continue"}

WordTypeOK ==
    /\ active_list_ \subseteq Thread
    /\ at \in [Thread -> SUBSET Level] /\ req \in [Thread -> SUBSET Level]
    /\ blocked_ \subseteq Thread /\ bypass_ \subseteq Thread
    /\ current_safepoint_level \in [Thread -> Level]
    /\ vm_interrupt \subseteq Thread

HandlerTypeOK ==
    /\ owner_ \in [Level -> Thread \cup {NoThread}]
    /\ operation_count_ \in [Level -> 0..MaxOperationCount]
    /\ num_threads_not_parked_ \in [Level -> Nat]
    /\ pc \in [Thread -> PC] /\ want \in [Thread -> Level]
    /\ wake \in [Thread -> BOOLEAN]
    /\ todo \subseteq Thread

TypeOK == WordTypeOK /\ HandlerTypeOK

Others(t) == active_list_ \ (bypass_ \cup {t})

(* The point of it all: while a safepoint operation runs, every other      *)
(* thread of the group that does not bypass safepoints is stopped, at a    *)
(* point where an operation of that level is allowed, and none of them     *)
(* runs an operation of its own.                                           *)
WorldStopped ==
    \A t \in Thread : pc[t] = "op" =>
       \A u \in Others(t) : /\ pc[u] \notin RunningPC \cup {"op"}
                            /\ current_safepoint_level[u] >= want[t]

(* num_threads_not_parked_ is, at every moment, the number of threads that *)
(* were asked to park and have not: it can neither drop to 0 early nor     *)
(* stay above 0 when all have checked in or left.                          *)
NotParked(l) == {u \in active_list_ : l \in req[u] /\ l \notin at[u]}
ParkedCount ==
    \A l \in Level : num_threads_not_parked_[l] = Cardinality(NotParked(l))

(* What SafepointInProgress, AssertWeOwnLowerLevelSafepoints and           *)
(* ResetSafepointInProgress assert of a level and the levels below it, and *)
(* a request bit is always one of the operation that owns the level: none  *)
(* is left behind by a finished operation.                                 *)
Owns(t, l) ==
    \/ pc[t] \in OwnerPC /\ l = want[t]
    \/ pc[t] = "op" /\ l <= want[t]
OwnerConsistent ==
    \A l \in Level :
       /\ operation_count_[l] > 0 <=> owner_[l] # NoThread
       /\ \A t \in Thread : owner_[l] = t <=> Owns(t, l)
       /\ \A u \in Thread : l \in req[u] =>
             \E t \in Thread \ {u} : owner_[l] = t /\ want[t] = l

(* No wakeup is lost: a thread asleep on its thread_lock() still has a     *)
(* request to wait for, and one asleep on threads_lock() still waits for a *)
(* level somebody has or is about to announce as free.                     *)
NoLostWakeup ==
    \A t \in Thread : Asleep(t) =>
       /\ pc[t] = "blocked" => Requested(t) /\ t \in blocked_
       /\ pc[t] \in ThreadsLockWaitPC =>
             \/ \E u \in Thread : pc[u] = "continue"
             \/ pc[t] = "waitSchedule" /\ AnySafepointInProgress
             \/ pc[t] = "waitLevel" /\ SafepointInProgress(want[t])
             \/ pc[t] = "waitLower" /\ SafepointInProgress(kGC)

(* The handler keeps the promise of StopTheWorld: requests, parking,       *)
(* nesting and levels are ways to let operations run alone.                *)
WorldMode ==
    [t \in Thread |->
       IF t \notin active_list_ THEN "out"
       ELSE IF t \in bypass_ THEN "exempt"
       ELSE IF pc[t] \in RunningPC THEN "running"
       ELSE IF kGCAndDeopt \in at[t] THEN "deoptSafe" ELSE "gcSafe"]
WorldOperation ==
    [t \in Thread |-> IF pc[t] # "op" THEN "none"
                      ELSE IF want[t] = kGC THEN "gc" ELSE "deopt"]
World == INSTANCE StopTheWorld WITH mode <- WorldMode, operation <- WorldOperation
StopsTheWorld == World!Spec

(* Whoever has got a level and asks the others to park gets to run its     *)
(* operation, though the others may be in generated code, in calls that    *)
(* cannot deoptimize, starting operations of their own, or leaving.        *)
OperationRuns == \A t \in Thread : pc[t] = "notify" ~> pc[t] = "op"
=============================================================================
