-------------------------- MODULE SafepointRwLock ---------------------------
(***************************************************************************)
(* SafepointRwLock (runtime/vm/lockers.h, lockers.cc) among threads that   *)
(* start safepoint operations while others hold the lock or wait for it.   *)
(*                                                                         *)
(* Safepoints are the requests and the guarantee of Safepoint and          *)
(* StopTheWorld, in short: a thread waits in "opWait" until the others are *)
(* safe for its level and then is alone in "op".  A section under monitor_ *)
(* is one action; a thread in asleep is in monitor_.Wait().                *)
(***************************************************************************)
EXTENDS Integers, Sequences, FiniteSets

CONSTANTS
    Thread,
    Detached,   \* threads outside any isolate: Thread::Current() == nullptr
    NoThread,   \* OSThread::kInvalidThreadId, and nobody
    MaxNest     \* bound on lock scopes on one stack

ASSUME RwLockAssumption ==
    /\ IsFiniteSet(Thread) /\ Detached \subseteq Thread
    /\ NoThread \notin Thread
    /\ MaxNest \in Nat \ {0}

kGC == 0
kGCAndDeopt == 1
Level == {kGC, kGCAndDeopt}

VARIABLES
    state_, writer_id_,
    scopes,     \* lockers on the stack: "R" and "W" hold the lock, "none" is
                \* a SafepointReadRwLocker that did not have to acquire it
    pc, asleep,
    lazy,       \* threads in a runtime call that cannot lazily deoptimize
    owner, want \* of the safepoint levels; the level a thread asks for

lock == <<state_, writer_id_, scopes>>
vars == <<lock, pc, asleep, lazy, owner, want>>

Init ==
    /\ state_ = 0 /\ writer_id_ = NoThread
    /\ scopes = [t \in Thread |-> <<>>]
    /\ pc = [t \in Thread |-> "run"]
    /\ asleep = {} /\ lazy = {}
    /\ owner = [l \in Level |-> NoThread]
    /\ want = [t \in Thread |-> kGC]

Goto(t, l) == pc' = [pc EXCEPT ![t] = l]
Push(t, s) == scopes' = [scopes EXCEPT ![t] = Append(@, s)]
Top(t) == scopes[t][Len(scopes[t])]
Pop(t) == scopes' = [scopes EXCEPT ![t] = SubSeq(@, 1, Len(@) - 1)]

IsCurrentThreadWriter(t) == writer_id_ = t

-----------------------------------------------------------------------------
(* Entering.                                                               *)

Readable == state_ >= 0

(* acquired_read_lock, which SafepointReadRwLocker keeps for its end.      *)
ReadScope(t) == IF IsCurrentThreadWriter(t) THEN "none" ELSE "R"

AcquireRead(t) ==
    state_' = state_ + 1 /\ Push(t, ReadScope(t)) /\ UNCHANGED writer_id_

(* The first TryEnterRead.  A thread that must not block goes on to enter  *)
(* a safepoint, without monitor_; a detached one waits right away.         *)
EnterRead(t) ==
    /\ pc[t] = "run" /\ t \notin lazy /\ Len(scopes[t]) < MaxNest
    /\ \/ /\ IsCurrentThreadWriter(t)
          /\ Push(t, ReadScope(t))
          /\ UNCHANGED <<state_, writer_id_, pc, asleep>>
       \/ /\ ~IsCurrentThreadWriter(t) /\ Readable
          /\ AcquireRead(t)
          /\ UNCHANGED <<pc, asleep>>
       \/ /\ ~IsCurrentThreadWriter(t) /\ ~Readable
          /\ Goto(t, IF t \in Detached THEN "blockR" ELSE "slowR")
          /\ asleep' = asleep \cup ({t} \cap Detached)
          /\ UNCHANGED lock
    /\ UNCHANGED <<lazy, owner, want>>

(* Mutant: a writer is let in when there is a single reader.               *)
MutWritable == state_ \in {0, 1}

Writable == state_ = 0

AcquireWrite(t) == state_' = -1 /\ writer_id_' = t /\ Push(t, "W")

(* The first TryEnterWrite.  No caller holds the lock as a reader.         *)
EnterWrite(t) ==
    /\ pc[t] = "run" /\ t \notin lazy /\ Len(scopes[t]) < MaxNest
    /\ \A i \in 1..Len(scopes[t]) : scopes[t][i] # "R"
    /\ \/ /\ IsCurrentThreadWriter(t)
          /\ state_' = state_ - 1 /\ Push(t, "W")
          /\ UNCHANGED <<writer_id_, pc, asleep>>
       \/ /\ ~IsCurrentThreadWriter(t) /\ Writable
          /\ AcquireWrite(t)
          /\ UNCHANGED <<pc, asleep>>
       \/ /\ ~IsCurrentThreadWriter(t) /\ ~Writable
          /\ Goto(t, IF t \in Detached THEN "blockW" ELSE "slowW")
          /\ asleep' = asleep \cup ({t} \cap Detached)
          /\ UNCHANGED lock
    /\ UNCHANGED <<lazy, owner, want>>

(* TransitionVMToBlocked enters a safepoint.                               *)
EnterSafepoint(t) ==
    /\ pc[t] \in {"slowR", "slowW"}
    /\ Goto(t, IF pc[t] = "slowR" THEN "blockR" ELSE "blockW")
    /\ UNCHANGED <<lock, asleep, lazy, owner, want>>

(* The loops of the second TryEnterRead and TryEnterWrite.                 *)
Admitted(t) ==
    /\ pc[t] \in {"blockR", "blockW"} /\ t \notin asleep
    /\ \/ pc[t] = "blockR" /\ Readable /\ AcquireRead(t)
       \/ pc[t] = "blockW" /\ Writable /\ AcquireWrite(t)
    /\ Goto(t, IF t \in Detached THEN "run" ELSE "exit")
    /\ UNCHANGED <<asleep, lazy, owner, want>>

WaitAgain(t) ==
    /\ t \notin asleep
    /\ \/ pc[t] = "blockR" /\ ~Readable
       \/ pc[t] = "blockW" /\ ~Writable
    /\ asleep' = asleep \cup {t}
    /\ UNCHANGED <<lock, pc, lazy, owner, want>>

SpuriousWakeup(t) ==
    /\ t \in asleep /\ asleep' = asleep \ {t}
    /\ UNCHANGED <<lock, pc, lazy, owner, want>>

-----------------------------------------------------------------------------
(* Leaving.                                                                *)

(* Mutant: the last reader but one notifies, and the last does not.        *)
MutReadersGone == state_ = 2

ReadersGone == state_ = 1

(* Mutant: the inner of two nested write scopes gives the lock up.         *)
MutWriterGone == state_ = -2

WriterGone == state_ = -1

Leave(t) ==
    /\ pc[t] = "run" /\ t \notin lazy /\ scopes[t] # <<>>
    /\ Pop(t)
    /\ \/ /\ Top(t) = "R"
          /\ state_' = state_ - 1
          /\ asleep' = IF ReadersGone THEN {} ELSE asleep
          /\ UNCHANGED writer_id_
       \/ /\ Top(t) = "W"
          /\ state_' = state_ + 1
          /\ writer_id_' = IF WriterGone THEN NoThread ELSE writer_id_
          /\ asleep' = IF WriterGone THEN {} ELSE asleep
       \/ Top(t) = "none" /\ UNCHANGED <<state_, writer_id_, asleep>>
    /\ UNCHANGED <<pc, lazy, owner, want>>

-----------------------------------------------------------------------------
(* Safepoints.                                                             *)

(* A request of another thread that t is to honour where it is now.        *)
Requested(t) ==
    \E l \in Level : owner[l] \notin {NoThread, t} /\ (l = kGC \/ t \notin lazy)

(* Mutant: the lock is waited for without TransitionVMToBlocked.           *)
MutSafePC == {"exit", "opWait", "op"}

SafePC == {"blockR", "blockW", "exit", "opWait", "op"}

Safe(t, l) == t \in Detached \/ (pc[t] \in SafePC /\ (l = kGC \/ t \notin lazy))

(* A running thread polls, and waits at its safepoint.                     *)
BlockForSafepoint(t) ==
    /\ pc[t] = "run" /\ t \notin Detached /\ Requested(t)
    /\ Goto(t, "exit")
    /\ UNCHANGED <<lock, asleep, lazy, owner, want>>

(* ~TransitionVMToBlocked, and the end of an operation or of a poll.       *)
ExitSafepoint(t) ==
    /\ pc[t] = "exit" /\ ~Requested(t)
    /\ Goto(t, "run")
    /\ UNCHANGED <<lock, asleep, lazy, owner, want>>

(* Generated code, which holds no locks, calls an allocation entry; such a *)
(* call may start a garbage collection but takes none of these locks.      *)
AllocationEntry(t) ==
    /\ pc[t] = "run" /\ t \notin Detached /\ t \notin lazy /\ scopes[t] = <<>>
    /\ lazy' = lazy \cup {t}
    /\ UNCHANGED <<lock, pc, asleep, owner, want>>

AllocationReturn(t) ==
    /\ pc[t] = "run" /\ t \in lazy
    /\ lazy' = lazy \ {t}
    /\ UNCHANGED <<lock, pc, asleep, owner, want>>

RequestOperation(t, l) ==
    /\ pc[t] = "run" /\ t \notin Detached /\ (l = kGC \/ t \notin lazy)
    /\ owner[l] = NoThread
    /\ owner' = [owner EXCEPT ![l] = t]
    /\ want' = [want EXCEPT ![t] = l]
    /\ Goto(t, "opWait")
    /\ UNCHANGED <<lock, asleep, lazy>>

(* A deopt operation takes the lower level as well.                        *)
BeginOperation(t) ==
    /\ pc[t] = "opWait"
    /\ \A u \in Thread \ {t} : Safe(u, want[t])
    /\ owner[kGC] \in {t, NoThread}
    /\ owner' = [owner EXCEPT ![kGC] = t]
    /\ Goto(t, "op")
    /\ UNCHANGED <<lock, asleep, lazy, want>>

(* Code inside an operation, such as ForEachIsolate with at_safepoint,     *)
(* does not wait for the lock.  This is assumed of the callers; EnterRead  *)
(* asserts it, and TransitionVMToBlocked does for whoever has to wait.     *)
EndOperation(t) ==
    /\ pc[t] = "op"
    /\ owner' = [l \in Level |-> IF owner[l] = t THEN NoThread ELSE owner[l]]
    /\ want' = [want EXCEPT ![t] = kGC]
    /\ Goto(t, "exit")
    /\ UNCHANGED <<lock, asleep, lazy>>

-----------------------------------------------------------------------------
Next == \E t \in Thread :
    \/ EnterRead(t) \/ EnterWrite(t) \/ EnterSafepoint(t)
    \/ Admitted(t) \/ WaitAgain(t) \/ SpuriousWakeup(t) \/ Leave(t)
    \/ BlockForSafepoint(t) \/ ExitSafepoint(t)
    \/ AllocationEntry(t) \/ AllocationReturn(t)
    \/ \E l \in Level : RequestOperation(t, l)
    \/ BeginOperation(t) \/ EndOperation(t)

Spec == Init /\ [][Next]_vars

(* Threads go on with what they have begun, and poll for requests and      *)
(* return from allocation entries however often they are stopped before.   *)
(* A thread that finds the lock free again and again gets it in the end.   *)
(* Nothing is assumed about how long the lock is held.                     *)
Progress(t) ==
    \/ EnterSafepoint(t) \/ WaitAgain(t)
    \/ ExitSafepoint(t) \/ BeginOperation(t) \/ EndOperation(t)
FairSpec ==
    /\ Spec
    /\ \A t \in Thread :
          /\ WF_vars(Progress(t))
          /\ SF_vars(BlockForSafepoint(t))
          /\ SF_vars(AllocationReturn(t))
          /\ SF_vars(Admitted(t))

-----------------------------------------------------------------------------
PC == {"run", "slowR", "slowW"} \cup SafePC

Holds(s) == {h \in Thread \X (1..MaxNest) :
                h[2] <= Len(scopes[h[1]]) /\ scopes[h[1]][h[2]] = s}

(* Readers and a writer exclude each other, the writer is the thread that  *)
(* writer_id_ names, and state_ is the number of read scopes or minus the  *)
(* number of nested write scopes: none is counted twice or forgotten.      *)
LockAgrees ==
    /\ state_ >= 0 => /\ state_ = Cardinality(Holds("R"))
                      /\ Holds("W") = {} /\ writer_id_ = NoThread
    /\ state_ < 0 =>  /\ state_ = - Cardinality(Holds("W"))
                      /\ Holds("R") = {}
                      /\ \A h \in Holds("W") : h[1] = writer_id_

(* No wakeup is lost: whoever sleeps has a reason to.                      *)
NoLostWakeup ==
    \A t \in asleep : /\ pc[t] = "blockR" => state_ < 0
                      /\ pc[t] = "blockW" => state_ # 0

(* While an operation runs no other attached thread does, whatever locks   *)
(* they hold, and none of them is in a call that the operation's level     *)
(* does not allow for.                                                     *)
WorldStopped ==
    \A t \in Thread : pc[t] = "op" =>
       \A u \in Thread \ (Detached \cup {t}) :
          /\ pc[u] \in SafePC \ {"op"}
          /\ want[t] = kGCAndDeopt => u \notin lazy

(* A safepoint operation gets to run and to end: it is not held up by      *)
(* threads that hold the lock, wait for it, or got it at their safepoint.  *)
OperationEnds == \A t \in Thread : pc[t] = "opWait" ~> pc[t] = "exit"

(* If the lock is given up again and again, nobody waits for it forever,   *)
(* neither a reader nor a writer, whatever operations run meanwhile.       *)
LockAdmits ==
    []<>(state_ = 0) =>
       \A t \in Thread : pc[t] \in {"slowR", "slowW", "blockR", "blockW"}
                            ~> pc[t] \in {"exit", "run"}
=============================================================================
