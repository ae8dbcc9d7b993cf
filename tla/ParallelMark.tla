---------------------------- MODULE ParallelMark ----------------------------
(***************************************************************************)
(* Marking of old space by several visitors (runtime/vm/heap/marker.cc,    *)
(* heap/pointer_block.h and .cc, thread_barrier.h): the concurrent tasks   *)
(* drain what they find and end with weak properties left over; later, at  *)
(* a safepoint, MarkObjects moves what the visitors have left to shared    *)
(* lists and finishes with ParallelMarkTasks, which meet at a barrier.     *)
(*                                                                         *)
(* The heap's shape does not change: mutators appear as what their write   *)
(* barriers mark.  A block of the marking stack is one object; whether a   *)
(* visitor's output block is full when it pushes is left open.  Setting a  *)
(* mark bit, a section under a monitor and an update of an atomic are each *)
(* one action.                                                             *)
(***************************************************************************)
EXTENDS Integers, FiniteSets

CONSTANTS
    Heaps,      \* the heaps to mark, with the value of FLAG_marker_tasks
    MaxTasks    \* the largest of these

(* refs: what an object points to strongly; key and value: of the weak     *)
(* properties; instr: Instructions, which have no pointers to visit and    *)
(* are no keys (the keys are instances, typed data and Code);              *)
(* roots: what each root slice points to; idle: FLAG_mark_when_idle;       *)
(* maxDeferred: a bound on the objects that mutators defer.                *)
ASSUME MarkAssumption ==
    /\ MaxTasks \in Nat \ {0}
    /\ \A h \in Heaps : LET O == DOMAIN h.refs  P == DOMAIN h.key IN
          /\ h.tasks \in 1..MaxTasks /\ h.maxDeferred \in Nat
          /\ h.idle \in BOOLEAN /\ IsFiniteSet(O)
          /\ h.refs \in [O -> SUBSET O] /\ P \subseteq O
          /\ h.key \in [P -> O \ h.instr] /\ h.value \in [P -> O]
          /\ h.instr \subseteq O \ P /\ \A o \in h.instr \cup P : h.refs[o] = {}
          /\ \A i \in DOMAIN h.roots : h.roots[i] \subseteq O

VARIABLES
    heap,               \* one of Heaps
    marked,             \* objects whose mark bit is set
    stack, deferred,    \* marking_stack_, deferred_marking_stack_
    local, dlocal,      \* the visitors' own blocks of either
    pending,            \* delayed_weak_properties_ of a visitor
    queue,              \* the rest of the list ProcessPendingWeakProperties walks
    todo,               \* pointers of the object being visited, not yet visited
    late,               \* a deferred object, whose mark bit is set after its visit
    pc, more,           \* of a task; more_to_mark
    slices,             \* root slices not yet started
    num_busy, asleep,   \* asleep in WaitForWork
    participating_, remaining_, generation_, gen, \* the barrier; gen: g in Sync
    ref_count_,
    head, tail,         \* the weak property list of MarkObjects; tail is its last
    flushed             \* visitors flushed so far

NumTasks == heap.tasks
Visitor == 1..NumTasks
Main == NumTasks
Obj == DOMAIN heap.refs
Refs == heap.refs
Prop == DOMAIN heap.key
Key == heap.key
Value == heap.value
Instr == heap.instr
Roots == heap.roots

work == <<stack, deferred, local, dlocal, pending, queue, todo, late>>
barrier == <<participating_, remaining_, generation_, gen, ref_count_>>
flush == <<head, tail, flushed, heap>>
vars == <<marked, work, pc, more, slices, num_busy, asleep, barrier, flush>>

(* Either marking starts with concurrent tasks (StartConcurrentMark), or   *)
(* MarkObjects does everything.                                            *)
Init ==
    /\ heap \in Heaps
    /\ marked = {} /\ stack = {} /\ deferred = {}
    /\ local = [v \in Visitor |-> {}] /\ dlocal = local
    /\ pending = local /\ queue = local /\ todo = local /\ late = local
    /\ pc \in {[v \in Visitor |-> "croots"], [v \in Visitor |-> "parked"]}
    /\ more = [v \in Visitor |-> FALSE]
    /\ slices = DOMAIN Roots
    /\ num_busy = 0 /\ asleep = {}
    /\ participating_ = 1 /\ remaining_ = 1 /\ generation_ = 0
    /\ gen = [v \in Visitor |-> 0] /\ ref_count_ = NumTasks
    /\ head = {} /\ tail = FALSE /\ flushed = 0

Goto(v, l) == pc' = [pc EXCEPT ![v] = l]
At(v, l) == pc[v] = l /\ todo[v] \cup late[v] = {}

Concurrent == flushed = 0

-----------------------------------------------------------------------------
(* Visiting.                                                               *)

(* PushBlockImpl notifies one waiter if the stack was empty.               *)
Woken(published) ==
    IF published = {} \/ stack # {} \/ asleep = {}
    THEN asleep' = asleep
    ELSE \E v \in asleep : asleep' = asleep \ {v}

(* MarkObject for the next pointer of the object v visits.                 *)
MarkObject(v) ==
    LET o == CHOOSE x \in todo[v] : TRUE IN
    /\ todo[v] # {}
    /\ todo' = [todo EXCEPT ![v] = @ \ {o}]
    /\ \/ o \in marked /\ UNCHANGED <<marked, stack, deferred, dlocal, local, asleep>>
       \/ /\ o \in Instr \ marked
          /\ \E published \in {{}, dlocal[v]} :
                /\ dlocal' = [dlocal EXCEPT ![v] = (@ \ published) \cup {o}]
                /\ deferred' = deferred \cup published
          /\ UNCHANGED <<marked, stack, local, asleep>>
       \/ /\ o \notin marked \cup Instr
          /\ marked' = marked \cup {o}
          /\ \E published \in {{}, local[v]} :
                /\ local' = [local EXCEPT ![v] = (@ \ published) \cup {o}]
                /\ stack' = stack \cup published
                /\ Woken(published)
          /\ UNCHANGED <<deferred, dlocal>>
    /\ UNCHANGED <<pending, queue, late, pc, more, slices, num_busy, barrier, flush>>

(* ProcessWeakProperty, and VisitPointersNonvirtual of other objects.      *)
Visit(v, o) ==
    IF o \in Prop
    THEN IF Key[o] \in marked
         THEN todo' = [todo EXCEPT ![v] = {Key[o], Value[o]}] /\ UNCHANGED pending
         ELSE pending' = [pending EXCEPT ![v] = @ \cup {o}] /\ UNCHANGED todo
    ELSE todo' = [todo EXCEPT ![v] = Refs[o]] /\ UNCHANGED pending

(* With mark_when_idle the last visitor has no task: after the roots it is *)
(* left for the main thread to use now and then.                           *)
LeftForIdleTime(v) == heap.idle /\ v = Main /\ pc[v] = "croots"

(* NotifyIdle and AssistConcurrentMark, and a deadline that ends either.   *)
MarkWhenIdle ==
    /\ heap.idle /\ Concurrent /\ slices = {}
    /\ \/ pc[Main] = "parked" /\ Goto(Main, "drain")
       \/ At(Main, "drain") /\ Goto(Main, "parked")
    /\ UNCHANGED <<marked, work, more, slices, num_busy, asleep, barrier, flush>>

(* IterateRoots: a task takes a slice and visits it, until none is left.   *)
IterateRoots(v) ==
    /\ At(v, "croots") \/ At(v, "roots")
    /\ IF slices = {}
       THEN /\ Goto(v, CASE pc[v] = "roots" -> "defer"
                         [] LeftForIdleTime(v) -> "parked"
                         [] OTHER -> "drain")
            /\ UNCHANGED <<slices, todo>>
       ELSE \E s \in slices :
               /\ slices' = slices \ {s} /\ todo' = [todo EXCEPT ![v] = Roots[s]]
               /\ UNCHANGED pc
    /\ UNCHANGED <<marked, stack, deferred, local, dlocal, pending, queue, late,
                   more, num_busy, asleep, barrier, flush>>

(* BlockWorkList::Pop: own blocks first.                                   *)
PopAndVisit(v) ==
    /\ \/ \E o \in local[v] :
             local' = [local EXCEPT ![v] = @ \ {o}] /\ Visit(v, o) /\ UNCHANGED stack
       \/ /\ local[v] = {}
          /\ \E o \in stack :
                stack' = stack \ {o} /\ Visit(v, o) /\ UNCHANGED local
    /\ UNCHANGED <<deferred, dlocal>>

NothingToPop(v) == local[v] = {} /\ stack = {}

(* ProcessMarkingStack: visit until nothing can be popped, look at the     *)
(* delayed weak properties ("pend"), and try to pop once more ("last").    *)
Drain(v) ==
    /\ At(v, "drain") \/ At(v, "last")
    /\ \/ PopAndVisit(v) /\ Goto(v, "drain") /\ UNCHANGED queue
       \/ /\ NothingToPop(v)
          /\ \/ pc[v] = "drain" /\ Goto(v, "pend")
             \/ pc[v] = "last" /\ Goto(v, IF Concurrent THEN "parked" ELSE "idle")
          /\ queue' = IF pc[v] = "drain"
                      THEN [queue EXCEPT ![v] = pending[v]] ELSE queue
          /\ pending' = IF pc[v] = "drain"
                        THEN [pending EXCEPT ![v] = {}] ELSE pending
          /\ UNCHANGED <<stack, deferred, local, dlocal, todo>>
    /\ more' = [more EXCEPT ![v] = FALSE]
    /\ UNCHANGED <<marked, late, slices, num_busy, asleep, barrier, flush>>

(* Mutant: a property stays in the list when its key is marked.            *)
MutRequeued(p) == {p}

Requeued(p) == {p} \ {q \in Prop : Key[q] \in marked}

(* ProcessPendingWeakProperties: one property.                             *)
ProcessPending(v) ==
    /\ At(v, "pend") \/ At(v, "round")
    /\ \E p \in queue[v] :
          /\ queue' = [queue EXCEPT ![v] = @ \ {p}]
          /\ pending' = [pending EXCEPT ![v] = @ \cup Requeued(p)]
          /\ IF Key[p] \in marked
             THEN /\ more' = [more EXCEPT ![v] = @ \/ Value[p] \notin marked]
                  /\ todo' = [todo EXCEPT ![v] = {Key[p], Value[p]}]
             ELSE UNCHANGED <<more, todo>>
    /\ UNCHANGED <<marked, stack, deferred, local, dlocal, late, pc, slices,
                   num_busy, asleep, barrier, flush>>

(* ... and its end.  A batch that starts with an empty stack gives up      *)
(* without another Pop if there is no more to mark.                        *)
EndPending(v) ==
    /\ At(v, "pend") /\ queue[v] = {}
    /\ \/ Goto(v, "last")
       \/ ~more[v] /\ Goto(v, IF Concurrent THEN "parked" ELSE "idle")
    /\ UNCHANGED <<marked, work, more, slices, num_busy, asleep, barrier, flush>>

(* ProcessDeferredMarking, which visits weak properties like any object.   *)
ProcessDeferredMarking(v) ==
    /\ At(v, "defer") \/ At(v, "phase2")
    /\ \/ /\ dlocal[v] \cup deferred = {}
          /\ Goto(v, IF pc[v] = "defer" THEN "drain" ELSE "sync4")
          /\ UNCHANGED <<deferred, dlocal, todo, late>>
       \/ /\ \E o \in IF dlocal[v] # {} THEN dlocal[v] ELSE deferred :
                /\ dlocal' = [dlocal EXCEPT ![v] = @ \ {o}]
                /\ deferred' = IF dlocal[v] # {} THEN deferred ELSE deferred \ {o}
                /\ late' = [late EXCEPT ![v] = {o}]
                /\ todo' = [todo EXCEPT ![v] =
                       Refs[o] \cup (IF o \in Prop THEN {Key[o], Value[o]} ELSE {})]
          /\ UNCHANGED pc
    /\ UNCHANGED <<marked, stack, local, pending, queue, more, slices, num_busy,
                   asleep, barrier, flush>>

(* ... and its TryAcquireMarkBit, once the pointers have been visited.     *)
MarkDeferred(v) ==
    /\ todo[v] = {} /\ late[v] # {}
    /\ marked' = marked \cup late[v] /\ late' = [late EXCEPT ![v] = {}]
    /\ UNCHANGED <<stack, deferred, local, dlocal, pending, queue, todo, pc, more,
                   slices, num_busy, asleep, barrier, flush>>

-----------------------------------------------------------------------------
(* The write barrier while the concurrent tasks run: the value stored is   *)
(* marked and pushed, or the object stored into is marked later.           *)

(* What the roots reach, a weak property's value only through its key too: *)
(* what every set has that has the roots and is closed in this way.        *)
Closed(S) ==
    /\ \A i \in DOMAIN Roots : Roots[i] \subseteq S
    /\ \A o \in S : Refs[o] \subseteq S
    /\ \A p \in Prop \cap S : Key[p] \in S => Value[p] \in S

Reachable == {o \in Obj : \A S \in SUBSET Obj : Closed(S) => o \in S}

WriteBarrier(o) ==
    /\ Concurrent /\ slices = {} /\ o \in Reachable \ (marked \cup Instr)
    /\ marked' = marked \cup {o} /\ stack' = stack \cup {o}
    /\ UNCHANGED <<deferred, local, dlocal, pending, queue, todo, late, pc,
                   more, slices, num_busy, asleep, barrier, flush>>

DeferredBarrier(o) ==
    /\ Concurrent /\ slices = {} /\ o \in Reachable \ deferred
    /\ Cardinality(deferred) < heap.maxDeferred
    /\ deferred' = deferred \cup {o}
    /\ UNCHANGED <<marked, stack, local, dlocal, pending, queue, todo, late, pc,
                   more, slices, num_busy, asleep, barrier, flush>>

-----------------------------------------------------------------------------
(* MarkObjects: flush each visitor and start its task; the last one runs   *)
(* on this thread and adopts the weak properties of all.                   *)

(* Mutant: the weak properties stay with the visitor that met them.        *)
MutFlushed(v) == {}

Flushed(v) == pending[v]

(* Mutant: the last visitor's list replaces those before it.               *)
MutFlushWeakProperties(v) == head' = Flushed(v) /\ tail' = (Flushed(v) # {})

(* With a list and a null tail, the visitor's list is linked to null; the  *)
(* tail is then that of a lost list, and loses what is linked to it.       *)
FlushWeakProperties(v) ==
    /\ head' = IF head = {} \/ tail THEN head \cup Flushed(v) ELSE head
    /\ tail' = (Flushed(v) # {} /\ (head = {} \/ tail))

Flush ==
    LET v == flushed + 1 IN
    /\ v \in Visitor
    /\ flushed = 0 => \A u \in Visitor : pc[u] = "parked"
    /\ flushed' = v
    /\ slices' = IF flushed = 0 THEN DOMAIN Roots ELSE slices
    /\ stack' = stack \cup local[v] /\ local' = [local EXCEPT ![v] = {}]
    /\ Woken(local[v])
    /\ deferred' = deferred \cup dlocal[v]
    /\ dlocal' = [dlocal EXCEPT ![v] = {}]
    /\ FlushWeakProperties(v)
    /\ pending' = [pending EXCEPT ![v] = IF v = Main THEN head' ELSE {}]
    /\ Goto(v, IF v = Main THEN "busy" ELSE "spawned")
    /\ UNCHANGED <<heap, marked, queue, todo, late, more, num_busy, barrier>>

-----------------------------------------------------------------------------
(* ThreadBarrier.                                                          *)

(* Mutant: a task may join whenever it gets to run.                        *)
MutMayEnter == TRUE

MayEnter == generation_ = 0

(* ParallelMarkTask::Run on a helper thread.                               *)
TryEnter(v) ==
    /\ pc[v] = "spawned"
    /\ IF MayEnter
       THEN /\ remaining_' = remaining_ + 1 /\ participating_' = participating_ + 1
            /\ Goto(v, "busy")
       ELSE /\ Goto(v, "release") /\ UNCHANGED <<remaining_, participating_>>
    /\ UNCHANGED <<marked, work, more, slices, num_busy, asleep, generation_,
                   gen, ref_count_, flush>>

SyncAt == {"sync1", "sync2", "sync3", "sync4", "sync5"}
WaitAt == [l \in SyncAt |-> CASE l = "sync1" -> "wait1" [] l = "sync2" -> "wait2"
                              [] l = "sync3" -> "wait3" [] l = "sync4" -> "wait4"
                              [] l = "sync5" -> "wait5"]

(* Mutant: off by one: the last but one takes itself for the last.         *)
MutArrivesLast == remaining_ <= 2

ArrivesLast == remaining_ = 1

(* Sync: the last one starts the next generation, the others wait for it.  *)
Sync(v) ==
    /\ pc[v] \in SyncAt
    /\ Goto(v, WaitAt[pc[v]])
    /\ gen' = [gen EXCEPT ![v] = generation_]
    /\ IF ArrivesLast
       THEN generation_' = generation_ + 1 /\ remaining_' = participating_
       ELSE remaining_' = remaining_ - 1 /\ UNCHANGED generation_
    /\ UNCHANGED <<marked, work, more, slices, num_busy, asleep, participating_,
                   ref_count_, flush>>

Synced(v, l) == pc[v] = l /\ gen[v] # generation_

Release(v) ==
    /\ pc[v] = "release"
    /\ ref_count_' = ref_count_ - 1
    /\ Goto(v, "done")
    /\ UNCHANGED <<marked, work, more, slices, num_busy, asleep, participating_,
                   remaining_, generation_, gen, flush>>

-----------------------------------------------------------------------------
(* RunEnteredIsolateGroup.                                                 *)

Busy(v) ==
    /\ pc[v] = "busy"
    /\ num_busy' = num_busy + 1
    /\ Goto(v, "roots")
    /\ UNCHANGED <<marked, work, more, slices, asleep, barrier, flush>>

(* WaitForWork, under the stack's monitor; the same again after a wait.    *)
TakeOrWait(v, busy) ==
    \/ \E o \in stack :
          /\ stack' = stack \ {o} /\ local' = [local EXCEPT ![v] = {o}]
          /\ num_busy' = busy + 1 /\ Goto(v, "drain")
          /\ UNCHANGED asleep
    \/ /\ stack = {}
       /\ num_busy' = busy /\ asleep' = asleep \cup {v} /\ Goto(v, "asleep")
       /\ UNCHANGED <<stack, local>>

(* Mutant: the last worker does not wake the others.                       *)
MutStillAsleep == asleep

StillAsleep == {}

WaitForWork(v) ==
    /\ pc[v] = "idle"
    /\ IF num_busy = 1
       THEN /\ num_busy' = 0 /\ asleep' = StillAsleep /\ Goto(v, "sync1")
            /\ UNCHANGED <<stack, local>>
       ELSE TakeOrWait(v, num_busy - 1)
    /\ UNCHANGED <<marked, deferred, dlocal, pending, queue, todo, late, more,
                   slices, barrier, flush>>

WakeUp(v) ==
    /\ pc[v] = "asleep" /\ v \notin asleep
    /\ IF num_busy = 0
       THEN Goto(v, "sync1") /\ UNCHANGED <<num_busy, asleep, stack, local>>
       ELSE TakeOrWait(v, num_busy)
    /\ UNCHANGED <<marked, deferred, dlocal, pending, queue, todo, late, more,
                   slices, barrier, flush>>

(* Past the first barrier: the weak properties whose keys others marked.   *)
BeginRound(v) ==
    /\ Synced(v, "wait1")
    /\ Goto(v, "round")
    /\ more' = [more EXCEPT ![v] = FALSE]
    /\ queue' = [queue EXCEPT ![v] = pending[v]]
    /\ pending' = [pending EXCEPT ![v] = {}]
    /\ UNCHANGED <<marked, stack, deferred, local, dlocal, todo, late, slices,
                   num_busy, asleep, barrier, flush>>

EndRound(v) ==
    /\ At(v, "round") /\ queue[v] = {}
    /\ num_busy' = num_busy + (IF more[v] THEN 1 ELSE 0)
    /\ Goto(v, "sync2")
    /\ UNCHANGED <<marked, work, more, slices, asleep, barrier, flush>>

(* Mutant: a task that has more to mark itself counts twice.               *)
MutJoinsRound(v) == num_busy > 0

JoinsRound(v) == ~more[v] /\ num_busy > 0

(* Past the second: everybody goes on if anybody does.                     *)
Decide(v) ==
    /\ Synced(v, "wait2")
    /\ more' = [more EXCEPT ![v] = @ \/ JoinsRound(v)]
    /\ num_busy' = num_busy + (IF JoinsRound(v) THEN 1 ELSE 0)
    /\ Goto(v, "sync3")
    /\ UNCHANGED <<marked, work, slices, asleep, barrier, flush>>

(* Past the third and the fourth: another round, or phases 2 and 3.        *)
Continue(v) ==
    /\ \/ Synced(v, "wait3") /\ Goto(v, IF more[v] THEN "drain" ELSE "phase2")
       \/ Synced(v, "wait4") /\ Goto(v, "mourn")
       \/ Synced(v, "wait5") /\ Goto(v, "release")
    /\ UNCHANGED <<marked, work, more, slices, num_busy, asleep, barrier, flush>>

(* MournWeakProperties; clearing a property drops its key and value.       *)
Mourn(v) ==
    /\ pc[v] = "mourn"
    /\ pending' = [pending EXCEPT ![v] = {}]
    /\ Goto(v, "sync5")
    /\ UNCHANGED <<marked, stack, deferred, local, dlocal, queue, todo, late,
                   more, slices, num_busy, asleep, barrier, flush>>

-----------------------------------------------------------------------------
Task(v) ==
    \/ MarkObject(v) \/ IterateRoots(v) \/ Drain(v) \/ ProcessPending(v)
    \/ EndPending(v) \/ ProcessDeferredMarking(v) \/ MarkDeferred(v)
    \/ TryEnter(v) \/ Sync(v) \/ Release(v) \/ Busy(v)
    \/ WaitForWork(v) \/ WakeUp(v)
    \/ BeginRound(v) \/ EndRound(v) \/ Decide(v) \/ Continue(v) \/ Mourn(v)

SpuriousWakeup(v) ==
    /\ v \in asleep /\ asleep' = asleep \ {v}
    /\ UNCHANGED <<marked, work, pc, more, slices, num_busy, barrier, flush>>

Next ==
    \/ \E v \in Visitor : Task(v) \/ SpuriousWakeup(v)
    \/ Flush \/ MarkWhenIdle
    \/ \E o \in Obj : WriteBarrier(o) \/ DeferredBarrier(o)

Spec == Init /\ [][Next]_vars

(* The pool runs every task and the operating system every thread; a       *)
(* collection that finishes marking comes, whatever is done in idle time.  *)
FairSpec ==
    /\ Spec /\ SF_vars(Flush)
    /\ \A v \in 1..MaxTasks : WF_vars(v \in Visitor /\ Task(v))

-----------------------------------------------------------------------------
PC == {"croots", "roots", "parked", "spawned", "busy", "defer", "drain", "pend",
       "last", "idle", "asleep", "round", "phase2", "mourn", "release", "done"}
      \cup SyncAt \cup {WaitAt[l] : l \in SyncAt}

TypeOK ==
    /\ heap \in Heaps
    /\ marked \subseteq Obj /\ stack \subseteq marked /\ deferred \subseteq Obj
    /\ local \in [Visitor -> SUBSET marked] /\ dlocal \in [Visitor -> SUBSET Obj]
    /\ pending \in [Visitor -> SUBSET (Prop \cap marked)]
    /\ queue \in [Visitor -> SUBSET (Prop \cap marked)]
    /\ todo \in [Visitor -> SUBSET Obj] /\ late \in [Visitor -> SUBSET Obj]
    /\ pc \in [Visitor -> PC] /\ more \in [Visitor -> BOOLEAN]
    /\ slices \subseteq DOMAIN Roots
    /\ num_busy \in 0..NumTasks /\ asleep \subseteq Visitor
    /\ participating_ \in 1..NumTasks /\ remaining_ \in 1..participating_
    /\ generation_ \in Nat /\ gen \in [Visitor -> 0..generation_]
    /\ ref_count_ \in 0..NumTasks
    /\ head \subseteq Prop /\ tail \in BOOLEAN /\ flushed \in 0..NumTasks

Phase3(v) == pc[v] \in {"mourn", "sync5", "wait5"}

(* When a task begins with phase 3, everything the roots reach is marked,  *)
(* values of weak properties with marked keys included, and no list has    *)
(* anything to visit left (the assertions of BlockWorkList::Finalize).     *)
ReachableMarked ==
    \A v \in Visitor : Phase3(v) =>
       /\ Reachable \subseteq marked
       /\ stack = {} /\ deferred = {}
       /\ \A u \in Visitor : local[u] \cup dlocal[u] \cup queue[u] \cup todo[u] \cup late[u] = {}

(* A weak property that is cleared has a dead key: the RELEASE_ASSERT of   *)
(* MournWeakProperties.                                                    *)
MournedKeysDead ==
    \A v \in Visitor : pc[v] = "mourn" =>
       \A p \in pending[v] : Key[p] \notin marked

(* No weak property with a dead key is forgotten: until phase 3, each      *)
(* marked one is still to be visited or in the list of a visitor; and it   *)
(* is in one list only, as it has one next_ pointer.                       *)
WeakPropertyKept ==
    (flushed \in {0, NumTasks} /\ pc[Main] \notin {"sync5", "wait5", "release", "done"}) =>
       \A p \in Prop \cap marked :
          LET lists == {v \in Visitor : p \in pending[v] \cup queue[v]} IN
          /\ Cardinality(lists) <= 1
          /\ Key[p] \notin marked =>
                \/ p \in stack \cup deferred \/ lists # {}
                \/ \E v \in Visitor : p \in local[v] \/ Phase3(v)

(* Once the main thread is out of MarkObjects, no task touches a visitor   *)
(* or num_busy, which are gone; and none waits at a barrier that is gone.  *)
NoUseAfterReturn ==
    /\ pc[Main] \in {"release", "done"} =>
          \A v \in Visitor : pc[v] \in {"spawned", "wait5", "release", "done"}
    /\ ref_count_ = 0 => \A v \in Visitor : pc[v] = "done"

(* Whoever meets the others at the end of a drain finds that none is busy  *)
(* and nothing is left to take: the assertion on num_busy past the first   *)
(* barrier.                                                                *)
DrainedAtBarrier ==
    [][\A v \in Visitor :
          (pc[v] = "sync1" /\ generation_' # generation_) =>
              num_busy = 0 /\ stack = {} /\ asleep = {}]_vars

(* Marking ends, and every task with it.                                   *)
MarkingEnds == <>(\A v \in Visitor : pc[v] = "done")
=============================================================================
