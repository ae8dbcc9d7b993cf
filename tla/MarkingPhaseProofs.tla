---------------------------- MODULE MarkingPhaseProofs ----------------------
(***************************************************************************)
(* What the phases of marking leave behind, in ParallelMark: where a task  *)
(* can have work left, and which keys are dead.                            *)
(***************************************************************************)
EXTENDS ParallelMarkProofs

(* The types of the heap and of what is left to visit.                     *)
LEMMA HeapTypes ==
    ASSUME heap \in Heaps
    PROVE  /\ Refs \in [Obj -> SUBSET Obj] /\ Prop \subseteq Obj
           /\ Key \in [Prop -> Obj \ Instr] /\ Value \in [Prop -> Obj]
           /\ Instr \subseteq Obj \ Prop /\ \A o \in Instr \cup Prop : Refs[o] = {}
           /\ \A i \in DOMAIN Roots : Roots[i] \subseteq Obj
  BY Zenon, MarkAssumption DEF Obj, Refs, Prop, Key, Value, Instr, Roots

LEMMA HeapSame ==
    ASSUME heap' = heap
    PROVE  /\ NumTasks' = NumTasks /\ Visitor' = Visitor /\ Main' = Main
           /\ Obj' = Obj /\ Refs' = Refs /\ Prop' = Prop /\ Key' = Key
           /\ Value' = Value /\ Instr' = Instr /\ Roots' = Roots
  BY Zenon DEF NumTasks, Visitor, Main, Obj, Refs, Prop, Key, Value, Instr, Roots

SharedTypes ==
    /\ heap \in Heaps /\ marked \subseteq Obj /\ stack \subseteq marked
    /\ deferred \subseteq Obj /\ slices \subseteq DOMAIN Roots /\ asleep \subseteq Visitor
    /\ head \subseteq Prop \cap marked /\ tail \in BOOLEAN

OwnTypes ==
    /\ local \in [Visitor -> SUBSET marked] /\ dlocal \in [Visitor -> SUBSET Instr]
    /\ pending \in [Visitor -> SUBSET (Prop \cap marked)]
    /\ queue \in [Visitor -> SUBSET (Prop \cap marked)]
    /\ todo \in [Visitor -> SUBSET Obj] /\ late \in [Visitor -> SUBSET Obj]

DataTypes == SharedTypes /\ OwnTypes

(* Whatever is marked stays so.                                            *)
LEMMA WiderTypes ==
    ASSUME NEW S, NEW T, S \subseteq T, NEW V, NEW P
    PROVE  /\ [V -> SUBSET S] \subseteq [V -> SUBSET T]
           /\ [V -> SUBSET (P \cap S)] \subseteq [V -> SUBSET (P \cap T)]
  BY Zenon

LEMMA VisitTypes ==
    ASSUME DataTypes, NEW v \in Visitor, NEW o \in marked, Visit(v, o)
    PROVE  /\ todo' \in [Visitor -> SUBSET Obj]
           /\ pending' \in [Visitor -> SUBSET (Prop \cap marked)]
<1>1. /\ Refs \in [Obj -> SUBSET Obj] /\ Key \in [Prop -> Obj \ Instr]
      /\ Value \in [Prop -> Obj] /\ marked \subseteq Obj
      /\ todo \in [Visitor -> SUBSET Obj] /\ pending \in [Visitor -> SUBSET (Prop \cap marked)]
  BY Zenon, HeapTypes DEF DataTypes, SharedTypes, OwnTypes
<1>2. CASE o \in Prop
  <2>1. \/ todo' = [todo EXCEPT ![v] = {Key[o], Value[o]}] /\ pending' = pending
        \/ pending' = [pending EXCEPT ![v] = @ \cup {o}] /\ todo' = todo
    BY Zenon, <1>2 DEF Visit
  <2>2. {Key[o], Value[o]} \subseteq Obj
    BY Zenon, <1>1, <1>2
  <2> QED BY <1>1, <1>2, <2>1, <2>2
<1>3. CASE o \notin Prop
  <2>1. todo' = [todo EXCEPT ![v] = Refs[o]] /\ pending' = pending /\ Refs[o] \subseteq Obj
    BY Zenon, <1>1, <1>3 DEF Visit
  <2> QED BY Zenon, <1>1, <2>1
<1> QED BY Zenon, <1>2, <1>3

LEMMA MarkTypes ==
    ASSUME DataTypes, NEW v \in Visitor, MarkObject(v)
    PROVE  DataTypes'
<1> DEFINE o == CHOOSE x \in todo[v] : TRUE
<1>1. /\ todo[v] # {} /\ todo' = [todo EXCEPT ![v] = @ \ {o}]
      /\ UNCHANGED <<heap, pending, queue, late, slices, head, tail>>
  BY Zenon DEF MarkObject, flush
<1>2. o \in todo[v] /\ o \in Obj
  BY Zenon, <1>1 DEF DataTypes, OwnTypes
<1>3. todo' \in [Visitor -> SUBSET Obj]
  BY Zenon, <1>1 DEF DataTypes, OwnTypes
<1> HIDE DEF o
<1>4. CASE UNCHANGED <<marked, stack, deferred, dlocal, local, asleep>>
  BY Zenon, <1>1, <1>3, <1>4, HeapSame DEF DataTypes, SharedTypes, OwnTypes
<1>5. ASSUME o \in Instr, NEW published \in {{}, dlocal[v]},
             dlocal' = [dlocal EXCEPT ![v] = (@ \ published) \cup {o}],
             deferred' = deferred \cup published,
             UNCHANGED <<marked, stack, local, asleep>>
      PROVE  DataTypes'
  <2>1. dlocal' \in [Visitor -> SUBSET Instr] /\ deferred' \subseteq Obj
    BY Zenon, <1>5, HeapTypes DEF DataTypes, SharedTypes, OwnTypes
  <2> QED BY Zenon, <1>1, <1>3, <1>5, <2>1, HeapSame DEF DataTypes, SharedTypes, OwnTypes
<1>6. ASSUME marked' = marked \cup {o}, NEW published \in {{}, local[v]},
             local' = [local EXCEPT ![v] = (@ \ published) \cup {o}],
             stack' = stack \cup published, asleep' \subseteq asleep,
             UNCHANGED <<deferred, dlocal>>
      PROVE  DataTypes'
  <2>1. local' \in [Visitor -> SUBSET marked'] /\ stack' \subseteq marked'
    BY Zenon, <1>6 DEF DataTypes, SharedTypes, OwnTypes
  <2>2. /\ pending' \in [Visitor -> SUBSET (Prop \cap marked')]
        /\ queue' \in [Visitor -> SUBSET (Prop \cap marked')]
    BY Zenon, <1>1, <1>6 DEF DataTypes, OwnTypes
  <2> QED BY Zenon, <1>1, <1>2, <1>3, <1>6, <2>1, <2>2, HeapSame DEF DataTypes, SharedTypes,
             OwnTypes
<1>7. ASSUME NEW published, Woken(published)
      PROVE  asleep' \subseteq asleep
  BY Zenon, <1>7 DEF Woken
<1> QED BY Zenon, <1>4, <1>5, <1>6, <1>7 DEF MarkObject, o

LEMMA DrainTypes ==
    ASSUME DataTypes, NEW v \in Visitor, Drain(v)
    PROVE  DataTypes'
<1>1. UNCHANGED <<heap, marked, deferred, dlocal, late, slices, asleep, head, tail>>
  BY Zenon DEF Drain, PopAndVisit, flush
<1>2. CASE PopAndVisit(v) /\ queue' = queue
  <2>1. PICK o \in marked : /\ Visit(v, o) /\ stack' \subseteq stack
                            /\ local' = local \/ local' = [local EXCEPT ![v] = @ \ {o}]
    BY Zenon, <1>2 DEF PopAndVisit, DataTypes, SharedTypes, OwnTypes
  <2>2. local' \in [Visitor -> SUBSET marked]
    BY <2>1 DEF DataTypes, OwnTypes
  <2> QED BY Zenon, <1>1, <1>2, <2>1, <2>2, VisitTypes, HeapSame DEF DataTypes, SharedTypes,
             OwnTypes
<1>3. CASE /\ UNCHANGED <<stack, local, todo>>
           /\ \/ UNCHANGED <<queue, pending>>
              \/ /\ queue' = [queue EXCEPT ![v] = pending[v]]
                 /\ pending' = [pending EXCEPT ![v] = {}]
  BY Zenon, <1>1, <1>3, HeapSame DEF DataTypes, SharedTypes, OwnTypes
<1> QED BY Zenon, <1>2, <1>3 DEF Drain

LEMMA PendingTypes ==
    ASSUME DataTypes, NEW v \in Visitor, ProcessPending(v)
    PROVE  DataTypes'
<1>1. UNCHANGED <<heap, marked, stack, deferred, local, dlocal, late, slices, asleep, head, tail>>
  BY Zenon DEF ProcessPending, flush
<1>2. PICK p \in queue[v] :
         /\ queue' = [queue EXCEPT ![v] = @ \ {p}]
         /\ pending' = [pending EXCEPT ![v] = @ \cup Requeued(p)]
         /\ todo' = todo \/ todo' = [todo EXCEPT ![v] = {Key[p], Value[p]}]
  BY Zenon DEF ProcessPending
<1>3. p \in Prop \cap marked /\ Requeued(p) \subseteq {p} /\ {Key[p], Value[p]} \subseteq Obj
  BY Zenon, HeapTypes DEF DataTypes, SharedTypes, OwnTypes, Requeued
<1>4. /\ todo' \in [Visitor -> SUBSET Obj]
      /\ pending' \in [Visitor -> SUBSET (Prop \cap marked)]
      /\ queue' \in [Visitor -> SUBSET (Prop \cap marked)]
  BY <1>2, <1>3 DEF DataTypes, OwnTypes
<1> QED BY Zenon, <1>1, <1>4, HeapSame DEF DataTypes, SharedTypes, OwnTypes

LEMMA DeferredTypes ==
    ASSUME DataTypes, NEW v \in Visitor, ProcessDeferredMarking(v) \/ MarkDeferred(v)
    PROVE  DataTypes'
<1>1. UNCHANGED <<heap, stack, local, pending, queue, slices, asleep, head, tail>>
  BY Zenon DEF ProcessDeferredMarking, MarkDeferred, flush
<1>2. CASE UNCHANGED <<marked, deferred, dlocal, todo, late>>
  BY Zenon, <1>1, <1>2, HeapSame DEF DataTypes, SharedTypes, OwnTypes
<1>3. CASE MarkDeferred(v)
  <2>1. /\ marked' = marked \cup late[v] /\ late' = [late EXCEPT ![v] = {}]
        /\ UNCHANGED <<deferred, dlocal, todo>>
    BY Zenon, <1>3 DEF MarkDeferred
  <2>2. marked' \subseteq Obj /\ marked \subseteq marked' /\ late' \in [Visitor -> SUBSET Obj]
    BY Zenon, <2>1 DEF DataTypes, SharedTypes, OwnTypes
  <2>3. /\ local \in [Visitor -> SUBSET marked']
        /\ pending \in [Visitor -> SUBSET (Prop \cap marked')]
        /\ queue \in [Visitor -> SUBSET (Prop \cap marked')]
    BY Zenon, <2>2, WiderTypes DEF DataTypes, OwnTypes
  <2> QED BY Zenon, <1>1, <2>1, <2>2, <2>3, HeapSame DEF DataTypes, SharedTypes, OwnTypes
<1>4. CASE ProcessDeferredMarking(v) /\ dlocal[v] \cup deferred # {}
  <2>1. PICK o \in dlocal[v] \cup deferred :
           /\ dlocal' = [dlocal EXCEPT ![v] = @ \ {o}]
           /\ deferred' \subseteq deferred
           /\ late' = [late EXCEPT ![v] = {o}]
           /\ todo' = [todo EXCEPT ![v] =
                  Refs[o] \cup (IF o \in Prop THEN {Key[o], Value[o]} ELSE {})]
    BY Zenon, <1>4 DEF ProcessDeferredMarking
  <2>2. o \in Obj /\ Refs[o] \cup (IF o \in Prop THEN {Key[o], Value[o]} ELSE {}) \subseteq Obj
    BY <2>1, HeapTypes DEF DataTypes, SharedTypes, OwnTypes
  <2>3. /\ dlocal' \in [Visitor -> SUBSET Instr] /\ late' \in [Visitor -> SUBSET Obj]
        /\ todo' \in [Visitor -> SUBSET Obj] /\ deferred' \subseteq Obj
    BY Zenon, <2>1, <2>2 DEF DataTypes, SharedTypes, OwnTypes
  <2> QED BY Zenon, <1>1, <1>4, <2>3, HeapSame DEF DataTypes, SharedTypes, OwnTypes,
             ProcessDeferredMarking
<1> QED BY Zenon, <1>2, <1>3, <1>4 DEF ProcessDeferredMarking

LEMMA RestTypes ==
    ASSUME DataTypes, NEW v \in Visitor,
           \/ IterateRoots(v) \/ BeginRound(v) \/ Mourn(v) \/ WaitForWork(v) \/ WakeUp(v)
    PROVE  DataTypes'
<1>1. CASE IterateRoots(v)
  <2>1. /\ UNCHANGED <<heap, marked, stack, deferred, local, dlocal, pending, queue, late,
                       asleep, head, tail>>
        /\ \/ UNCHANGED <<slices, todo>>
           \/ \E s \in slices : /\ slices' = slices \ {s}
                                /\ todo' = [todo EXCEPT ![v] = Roots[s]]
    BY Zenon, <1>1 DEF IterateRoots, flush
  <2>2. slices' \subseteq DOMAIN Roots /\ todo' \in [Visitor -> SUBSET Obj]
    BY Zenon, <2>1, HeapTypes DEF DataTypes, SharedTypes, OwnTypes
  <2> QED BY Zenon, <2>1, <2>2, HeapSame DEF DataTypes, SharedTypes, OwnTypes
<1>2. CASE BeginRound(v) \/ Mourn(v)
  <2>1. /\ UNCHANGED <<heap, marked, stack, deferred, local, dlocal, todo, late, slices,
                       asleep, head, tail>>
        /\ queue' = queue \/ queue' = [queue EXCEPT ![v] = pending[v]]
        /\ pending' = [pending EXCEPT ![v] = {}]
    BY Zenon, <1>2 DEF BeginRound, Mourn, flush
  <2> QED BY Zenon, <2>1, HeapSame DEF DataTypes, SharedTypes, OwnTypes
<1>3. CASE WaitForWork(v) \/ WakeUp(v)
  <2>1. /\ UNCHANGED <<heap, marked, deferred, dlocal, pending, queue, todo, late, slices,
                       head, tail>>
        /\ asleep' \subseteq asleep \cup {v} /\ stack' \subseteq stack
        /\ local' = local \/ \E o \in stack : local' = [local EXCEPT ![v] = {o}]
    BY Zenon, <1>3 DEF WaitForWork, WakeUp, TakeOrWait, StillAsleep, flush
  <2>2. local' \in [Visitor -> SUBSET marked]
    BY <2>1 DEF DataTypes, SharedTypes, OwnTypes
  <2> QED BY Zenon, <2>1, <2>2, HeapSame DEF DataTypes, SharedTypes, OwnTypes
<1> QED BY Zenon, <1>1, <1>2, <1>3

(* Steps that neither mark anything nor touch a list.                      *)
SameLists ==
    UNCHANGED <<heap, marked, stack, deferred, local, dlocal, pending, queue, todo, late,
                slices, head, tail, flushed>>

LEMMA PlainSteps ==
    ASSUME NEW v \in Visitor,
           \/ EndPending(v) \/ TryEnter(v) \/ Sync(v) \/ Release(v) \/ Busy(v)
           \/ EndRound(v) \/ Decide(v) \/ Continue(v)
    PROVE  SameLists /\ asleep' = asleep
<1>1. CASE EndPending(v) \/ TryEnter(v) \/ Sync(v) \/ Release(v)
  BY Zenon, <1>1 DEF EndPending, TryEnter, Sync, Release, SameLists, flush, work
<1>2. CASE Busy(v) \/ EndRound(v) \/ Decide(v) \/ Continue(v)
  BY Zenon, <1>2 DEF Busy, EndRound, Decide, Continue, SameLists, flush, work
<1> QED BY Zenon, <1>1, <1>2

LEMMA BarrierTypes ==
    ASSUME DataTypes, NEW o \in Obj, WriteBarrier(o) \/ DeferredBarrier(o)
    PROVE  DataTypes'
<1>1. /\ UNCHANGED <<heap, local, dlocal, pending, queue, todo, late, slices, asleep, head, tail>>
      /\ marked \subseteq marked' /\ marked' \subseteq marked \cup {o}
      /\ \/ stack' = stack /\ deferred' = deferred \cup {o}
         \/ stack' = stack \cup {o} /\ deferred' = deferred /\ o \in marked'
  BY Zenon DEF WriteBarrier, DeferredBarrier, flush
<1>2. OwnTypes'
  BY Zenon, <1>1, HeapSame, WiderTypes DEF DataTypes, OwnTypes
<1> QED BY Zenon, <1>1, <1>2, HeapSame DEF DataTypes, SharedTypes

LEMMA FlushTypes ==
    ASSUME DataTypes, NEW v \in Visitor, v = flushed + 1, Flush
    PROVE  DataTypes'
<1>1. /\ UNCHANGED <<heap, marked, queue, todo, late>>
      /\ slices' \in {DOMAIN Roots, slices}
      /\ stack' = stack \cup local[v] /\ local' = [local EXCEPT ![v] = {}]
      /\ Woken(local[v]) /\ deferred' = deferred \cup dlocal[v]
      /\ dlocal' = [dlocal EXCEPT ![v] = {}] /\ FlushWeakProperties(v)
      /\ pending' = [pending EXCEPT ![v] = IF v = Main THEN head' ELSE {}]
  BY Zenon DEF Flush
<1>2. asleep' \subseteq asleep
  BY Zenon, <1>1 DEF Woken
<1>3. head' \subseteq Prop \cap marked /\ tail' \in BOOLEAN
  BY Zenon, <1>1 DEF FlushWeakProperties, Flushed, DataTypes, SharedTypes, OwnTypes
<1>4. SharedTypes'
  BY Zenon, <1>1, <1>2, <1>3, HeapSame, HeapTypes DEF DataTypes, SharedTypes, OwnTypes
<1>5. OwnTypes'
  BY Zenon, <1>1, <1>3, HeapSame DEF DataTypes, OwnTypes
<1> QED BY Zenon, <1>4, <1>5 DEF DataTypes

LEMMA InitTypes ==
    ASSUME Init
    PROVE  DataTypes
  BY Zenon DEF Init, DataTypes, SharedTypes, OwnTypes

LEMMA NextTypes ==
    ASSUME DataTypes, [Next]_vars
    PROVE  DataTypes'
<1>1. CASE SameLists /\ asleep' \subseteq asleep
  BY Zenon, <1>1, HeapSame DEF SameLists, DataTypes, SharedTypes, OwnTypes
<1>2. ASSUME NEW v \in Visitor, Task(v)
      PROVE  DataTypes'
  BY Zenon, <1>1, <1>2, PlainSteps, MarkTypes, DrainTypes, PendingTypes, DeferredTypes,
     RestTypes DEF Task
<1>3. CASE UNCHANGED vars \/ MarkWhenIdle \/ \E v \in Visitor : SpuriousWakeup(v)
  BY Zenon, <1>1, <1>3 DEF vars, MarkWhenIdle, SpuriousWakeup, work, flush, SameLists
<1>4. CASE Flush
  BY Zenon, <1>4, FlushTypes DEF Flush
<1> QED BY Zenon, <1>2, <1>3, <1>4, BarrierTypes DEF Next

-----------------------------------------------------------------------------
(* Where there can be something left to visit.  An active task is one that *)
(* will look at the marking stack again before it gets to the first        *)
(* barrier; a visitor that is not flushed yet will be.                     *)
Active(v) ==
    \/ pc[v] \in {"busy", "roots", "defer", "drain", "last"}
    \/ more[v] /\ pc[v] \in {"pend", "round", "sync2", "wait2", "sync3", "wait3"}
AnyActive == flushed < NumTasks \/ \E v \in Visitor : Active(v)

Blocks(v) ==
    /\ local[v] # {} => Active(v) \/ v > flushed
    /\ queue[v] # {} => pc[v] \in {"pend", "round"}
    /\ todo[v] # {} => pc[v] \in {"croots", "roots", "defer", "drain", "pend", "round"}
    /\ late[v] # {} => pc[v] \in {"defer", "phase2"}
    /\ pc[v] = "phase2" => late[v] \subseteq Instr
    /\ pc[v] \in {"pend", "round"} /\ ~more[v] => todo[v] \subseteq marked
    /\ more[v] => pc[v] \in {"pend", "last", "drain", "round", "sync2", "wait2", "sync3", "wait3"}
    /\ more[v] /\ pc[v] = "drain" => flushed > 0
    /\ pc[v] = "spawned" => dlocal[v] = {}

(* The roots are visited, and the deferred objects that are not            *)
(* Instructions, before the first barrier, the others in phase 2.          *)
PastRoots(v) ==
    /\ flushed > 0 /\ pc[v] \in First \cup Synced1
    /\ pc[v] \notin {"busy", "roots"}
PastPhase2(v) == pc[v] \in {"sync4", "wait4", "mourn", "sync5", "wait5", "release", "done"}

Phases(v) ==
    /\ PastRoots(v) => slices = {}
    /\ PastRoots(v) /\ pc[v] # "defer" => deferred \subseteq Instr
    /\ PastPhase2(v) => dlocal[v] = {} /\ (gen[v] > 0 => deferred = {})

PhaseInv ==
    /\ \A v \in Visitor : Blocks(v) /\ Phases(v)
    /\ \A v \in asleep : pc[v] = "asleep"
    /\ stack # {} => AnyActive

(* A step of v leaves the lists of the other visitors alone.               *)
Mine(v) ==
    /\ heap' = heap /\ flushed' = flushed /\ marked \subseteq marked'
    /\ \A u \in Visitor : u # v =>
          /\ local'[u] = local[u] /\ dlocal'[u] = dlocal[u] /\ pending'[u] = pending[u]
          /\ queue'[u] = queue[u] /\ todo'[u] = todo[u] /\ late'[u] = late[u]
          /\ pc'[u] = pc[u] /\ more'[u] = more[u] /\ gen'[u] = gen[u]

LEMMA TaskMine ==
    ASSUME SizeFacts, BarrierInv, RoundInv, DataTypes, NEW v \in Visitor, Task(v)
    PROVE  Mine(v)
<1>1. /\ heap' = heap /\ flushed' = flushed
      /\ \A u \in Visitor : u # v => pc'[u] = pc[u] /\ more'[u] = more[u] /\ gen'[u] = gen[u]
  <2>1. CASE Sync(v)
    BY Zenon, <2>1, SyncGoes, SyncComes DEF Others, Comes
  <2>2. CASE TryEnter(v) /\ MayEnter
    BY Zenon, <2>2 DEF TryEnter, Goto, flush, RoundInv
  <2>3. CASE ~Sync(v) /\ ~(TryEnter(v) /\ MayEnter)
    BY Zenon, <2>3, TaskTurns DEF Alone
  <2> QED BY Zenon, <2>1, <2>2, <2>3
<1>2. CASE SameLists
  BY Zenon, <1>1, <1>2 DEF SameLists, Mine
<1>3. CASE MarkObject(v) \/ MarkDeferred(v)
  <2>1. /\ marked \subseteq marked' /\ UNCHANGED <<pending, queue>>
        /\ \A u \in Visitor : u # v => /\ todo'[u] = todo[u] /\ late'[u] = late[u]
                                       /\ dlocal'[u] = dlocal[u] /\ local'[u] = local[u]
    BY Zenon, <1>3 DEF MarkObject, MarkDeferred, DataTypes, OwnTypes
  <2> QED BY Zenon, <1>1, <2>1 DEF Mine
<1>4. CASE Drain(v) \/ ProcessPending(v)
  <2>1. marked' = marked /\ UNCHANGED <<dlocal, late>>
    BY Zenon, <1>4 DEF Drain, PopAndVisit, ProcessPending
  <2>2. \A u \in Visitor : u # v => /\ todo'[u] = todo[u] /\ local'[u] = local[u]
                                    /\ pending'[u] = pending[u] /\ queue'[u] = queue[u]
    <3>1. CASE Drain(v)
      BY <3>1 DEF Drain, PopAndVisit, Visit, DataTypes, OwnTypes
    <3>2. CASE ProcessPending(v)
      BY Zenon, <3>2 DEF ProcessPending, DataTypes, OwnTypes
    <3> QED BY Zenon, <1>4, <3>1, <3>2
  <2> QED BY Zenon, <1>1, <2>1, <2>2 DEF Mine
<1>5. CASE ProcessDeferredMarking(v) \/ IterateRoots(v)
  <2>1. /\ UNCHANGED <<marked, pending, queue, local>>
        /\ \A u \in Visitor : u # v => /\ todo'[u] = todo[u] /\ late'[u] = late[u]
                                       /\ dlocal'[u] = dlocal[u]
    BY Zenon, <1>5 DEF ProcessDeferredMarking, IterateRoots, DataTypes, OwnTypes
  <2> QED BY Zenon, <1>1, <2>1 DEF Mine
<1>6. CASE WaitForWork(v) \/ WakeUp(v) \/ BeginRound(v) \/ Mourn(v)
  <2>1. /\ UNCHANGED <<marked, dlocal, todo, late>>
        /\ \A u \in Visitor : u # v => /\ local'[u] = local[u] /\ pending'[u] = pending[u]
                                       /\ queue'[u] = queue[u]
    BY Zenon, <1>6 DEF WaitForWork, WakeUp, TakeOrWait, BeginRound, Mourn, DataTypes, OwnTypes
  <2> QED BY Zenon, <1>1, <2>1 DEF Mine
<1> QED BY Zenon, <1>2, <1>3, <1>4, <1>5, <1>6, PlainSteps DEF Task

LEMMA PlaceFacts ==
    ASSUME BarrierInv, NEW v \in Visitor
    PROVE  /\ Place(v) /\ Generation(v) /\ flushed \in Nat /\ gen[v] \in Nat
           /\ v \in Nat \ {0} /\ (flushed = 0 => v > flushed) /\ Main \in Visitor
           /\ (v > flushed => flushed < NumTasks)
  BY Sizes DEF BarrierInv, Typed

(* What each kind of step does to v's own lists and place.  Only a task    *)
(* that finds the stack empty stops being active.                          *)
Stays(v) ==
    Active(v) => Active(v)' \/ (NothingToPop(v) /\ pc[v] \in {"drain", "last"})

LEMMA MarkBlocks ==
    ASSUME BarrierInv, DataTypes, RoundInv, NEW v \in Visitor, Blocks(v), Phases(v),
           MarkObject(v) \/ MarkDeferred(v)
    PROVE  Blocks(v)' /\ Phases(v)' /\ Stays(v) /\ (stack' # stack => Active(v)' \/ v > flushed')
<1>1. /\ UNCHANGED <<heap, queue, pc, more, flushed, slices, gen>> /\ marked \subseteq marked'
      /\ more[v] \in BOOLEAN /\ Instr' = Instr
  BY Zenon, HeapSame DEF MarkObject, MarkDeferred, flush, barrier, RoundInv
<1>2. CASE MarkDeferred(v)
  <2>1. UNCHANGED <<stack, local, dlocal, todo, deferred>> /\ late'[v] = {}
    BY Zenon, <1>2 DEF MarkDeferred, DataTypes, OwnTypes
  <2> QED BY <1>1, <2>1 DEF Blocks, Phases, Active, Stays, PastRoots, PastPhase2
<1>3. CASE MarkObject(v)
  <2> DEFINE o == CHOOSE x \in todo[v] : TRUE
  <2>1. /\ late' = late /\ o \in todo[v] /\ todo'[v] = todo[v] \ {o}
        /\ \/ UNCHANGED <<stack, local, dlocal, deferred>>
           \/ /\ UNCHANGED <<stack, local>> /\ deferred' \subseteq deferred \cup Instr
           \/ UNCHANGED <<dlocal, deferred>> /\ o \notin marked
    <3>1. todo[v] # {} /\ late' = late /\ todo' = [todo EXCEPT ![v] = @ \ {o}]
      BY Zenon, <1>3 DEF MarkObject
    <3>2. o \in todo[v] /\ todo'[v] = todo[v] \ {o}
      BY Zenon, <3>1 DEF DataTypes, OwnTypes
    <3>3. dlocal[v] \subseteq Instr
      BY Zenon DEF DataTypes, OwnTypes
    <3>4. \/ UNCHANGED <<stack, local, dlocal, deferred>>
          \/ UNCHANGED <<stack, local>> /\ \E S \in {{}, dlocal[v]} : deferred' = deferred \cup S
          \/ UNCHANGED <<dlocal, deferred>> /\ o \notin marked
      BY Zenon, <1>3 DEF MarkObject
    <3> QED BY Zenon, <3>1, <3>2, <3>3, <3>4
  <2>2. pc[v] \in {"croots", "roots", "defer", "drain", "pend", "round"}
    BY Zenon, <2>1 DEF Blocks
  <2>3. UNCHANGED <<stack, local>> \/ Active(v)' \/ v > flushed'
    <3>1. CASE pc[v] \in {"roots", "defer", "drain"}
      BY Zenon, <1>1, <3>1 DEF Active
    <3>2. CASE pc[v] = "croots"
      BY Zenon, <1>1, <3>2, PlaceFacts DEF Place, First, Synced1, Synced2
    <3>3. CASE pc[v] \in {"pend", "round"} /\ o \notin marked
      BY Zenon, <1>1, <2>1, <3>3 DEF Blocks, Active
    <3> QED BY Zenon, <2>1, <2>2, <3>1, <3>2, <3>3
  <2>4. todo[v] \subseteq marked => todo'[v] \subseteq marked'
    BY Zenon, <1>1, <2>1
  <2>5. Blocks(v)' /\ Stays(v)
    BY Zenon, <1>1, <2>1, <2>2, <2>3, <2>4 DEF Blocks, Active, Stays
  <2>6. Phases(v)'
    BY Zenon, <1>1, <2>1, <2>2 DEF Phases, PastRoots, PastPhase2
  <2> QED BY Zenon, <2>3, <2>5, <2>6
<1> QED BY Zenon, <1>2, <1>3

LEMMA DrainBlocks ==
    ASSUME BarrierInv, DataTypes, RoundInv, NEW v \in Visitor, Blocks(v), Phases(v),
           Drain(v) \/ ProcessPending(v) \/ EndPending(v)
    PROVE  Blocks(v)' /\ Phases(v)' /\ Stays(v)
<1>1. /\ UNCHANGED <<heap, marked, flushed, slices, gen, deferred, dlocal, late>>
      /\ more[v] \in BOOLEAN /\ Instr' = Instr /\ Place(v) /\ flushed \in Nat
      /\ flushed = 0 => v > flushed
  <2>1. UNCHANGED <<heap, marked, flushed, slices, gen, deferred, dlocal, late>>
    BY Zenon DEF Drain, PopAndVisit, ProcessPending, EndPending, flush, barrier, work
  <2> QED BY Zenon, <2>1, HeapSame, PlaceFacts DEF RoundInv
<1>2. CASE Drain(v)
  <2>1. /\ pc[v] \in {"drain", "last"} /\ todo[v] = {} /\ late[v] = {} /\ more'[v] = FALSE
        /\ \/ pc'[v] = "drain" /\ queue' = queue
           \/ /\ pc[v] = "drain" /\ pc'[v] = "pend" /\ UNCHANGED <<local, todo>>
              /\ NothingToPop(v)
           \/ /\ pc[v] = "last" /\ pc'[v] = (IF flushed = 0 THEN "parked" ELSE "idle")
              /\ UNCHANGED <<local, todo, queue>> /\ NothingToPop(v)
    <3>1. more'[v] = FALSE /\ pc[v] \in {"drain", "last"} /\ todo[v] \cup late[v] = {}
      BY Zenon, <1>2 DEF Drain, At, RoundInv
    <3>2. CASE PopAndVisit(v) /\ Goto(v, "drain") /\ queue' = queue
      BY Zenon, <3>1, <3>2 DEF Goto, RoundInv
    <3>3. CASE NothingToPop(v) /\ pc[v] = "drain" /\ Goto(v, "pend") /\ UNCHANGED <<local, todo>>
      BY Zenon, <3>1, <3>3 DEF Goto, RoundInv
    <3>4. CASE /\ NothingToPop(v) /\ pc[v] = "last" /\ UNCHANGED <<local, todo, queue>>
               /\ Goto(v, IF Concurrent THEN "parked" ELSE "idle")
      BY Zenon, <3>1, <3>4 DEF Goto, RoundInv, Concurrent
    <3> QED BY Zenon, <1>2, <3>2, <3>3, <3>4 DEF Drain
  <2>2. Blocks(v)' /\ Stays(v)
    BY Zenon, <1>1, <2>1 DEF Blocks, Active, Stays, NothingToPop
  <2>3. Phases(v)'
    BY Zenon, <1>1, <2>1 DEF Phases, PastRoots, PastPhase2, First, Synced1, Synced2
  <2> QED BY Zenon, <2>2, <2>3
<1>3. CASE ProcessPending(v)
  <2>1. /\ pc[v] \in {"pend", "round"} /\ UNCHANGED <<pc, local>> /\ todo[v] = {} /\ late[v] = {}
    BY Zenon, <1>3 DEF ProcessPending, At
  <2>2. more'[v] \/ todo'[v] \subseteq marked
    <3>1. PICK p \in queue[v] :
             IF Key[p] \in marked
             THEN /\ more' = [more EXCEPT ![v] = @ \/ Value[p] \notin marked]
                  /\ todo' = [todo EXCEPT ![v] = {Key[p], Value[p]}]
             ELSE UNCHANGED <<more, todo>>
      BY Zenon, <1>3 DEF ProcessPending
    <3>2. CASE Key[p] \in marked
      <4>1. todo'[v] = {Key[p], Value[p]}
        BY Zenon, <3>1, <3>2 DEF DataTypes, OwnTypes
      <4>2. more'[v] = (more[v] \/ Value[p] \notin marked)
        BY Zenon, <3>1, <3>2 DEF RoundInv
      <4> QED BY Zenon, <3>2, <4>1, <4>2
    <3>3. CASE Key[p] \notin marked
      BY Zenon, <2>1, <3>1, <3>3
    <3> QED BY Zenon, <3>2, <3>3
  <2>3. more[v] => more'[v]
    BY Zenon, <1>1, <1>3 DEF ProcessPending, RoundInv
  <2>4. Blocks(v)' /\ Stays(v)
    BY Zenon, <1>1, <2>1, <2>2, <2>3 DEF Blocks, Active, Stays
  <2>5. Phases(v)'
    BY Zenon, <1>1, <2>1 DEF Phases, PastRoots, PastPhase2
  <2> QED BY Zenon, <2>4, <2>5
<1>4. CASE EndPending(v)
  <2>1. /\ pc[v] = "pend" /\ UNCHANGED <<local, todo, queue, more>> /\ queue[v] = {}
        /\ todo[v] = {} /\ late[v] = {}
        /\ \/ pc'[v] = "last"
           \/ ~more[v] /\ pc'[v] = (IF flushed = 0 THEN "parked" ELSE "idle")
    BY Zenon, <1>4 DEF EndPending, At, Goto, Concurrent, work, RoundInv
  <2>2. Blocks(v)' /\ Stays(v)
    BY Zenon, <1>1, <2>1 DEF Blocks, Active, Stays
  <2>3. Phases(v)'
    BY Zenon, <1>1, <2>1 DEF Phases, PastRoots, PastPhase2, First, Synced1, Synced2
  <2> QED BY Zenon, <2>2, <2>3
<1> QED BY Zenon, <1>2, <1>3, <1>4

LEMMA RootBlocks ==
    ASSUME BarrierInv, DataTypes, RoundInv, NEW v \in Visitor, Blocks(v), Phases(v),
           IterateRoots(v) \/ ProcessDeferredMarking(v)
    PROVE  Blocks(v)' /\ Phases(v)' /\ Stays(v)
<1>1. /\ UNCHANGED <<heap, marked, flushed, gen, local, queue, more>>
      /\ more[v] \in BOOLEAN /\ Instr' = Instr /\ Place(v) /\ flushed \in Nat
      /\ flushed = 0 => v > flushed
  <2>1. UNCHANGED <<heap, marked, flushed, gen, local, queue, more>>
    BY Zenon DEF IterateRoots, ProcessDeferredMarking, flush, barrier
  <2> QED BY Zenon, <2>1, HeapSame, PlaceFacts DEF RoundInv
<1>2. CASE IterateRoots(v)
  <2>1. /\ pc[v] \in {"croots", "roots"} /\ late[v] = {} /\ UNCHANGED <<dlocal, late, deferred>>
        /\ todo[v] = {} /\ slices' \subseteq slices
        /\ \/ pc' = pc
           \/ pc[v] = "roots" /\ pc'[v] = "defer" /\ todo' = todo /\ slices' = {}
           \/ pc[v] = "croots" /\ pc'[v] \in {"parked", "drain"} /\ todo' = todo
    <3>1. /\ pc[v] \in {"croots", "roots"} /\ todo[v] \cup late[v] = {}
          /\ UNCHANGED <<dlocal, late, deferred>> /\ slices' \subseteq slices
      BY Zenon, <1>2 DEF IterateRoots, At
    <3> DEFINE l == CASE pc[v] = "roots" -> "defer"
                      [] LeftForIdleTime(v) -> "parked"
                      [] OTHER -> "drain"
    <3>2. pc' = pc \/ (pc' = [pc EXCEPT ![v] = l] /\ todo' = todo /\ slices = {})
      BY Zenon, <1>2 DEF IterateRoots, Goto
    <3>3. (pc[v] = "roots" /\ l = "defer") \/ (pc[v] = "croots" /\ l \in {"parked", "drain"})
      BY Zenon, <3>1 DEF LeftForIdleTime
    <3> HIDE DEF l
    <3>4. pc' = [pc EXCEPT ![v] = l] => pc'[v] = l
      BY Zenon DEF RoundInv
    <3> QED BY Zenon, <3>1, <3>2, <3>3, <3>4
  <2>2. Blocks(v)' /\ Stays(v)
    BY Zenon, <1>1, <2>1 DEF Blocks, Active, Stays, Place, First, Synced1, Synced2
  <2>3. Phases(v)'
    BY <1>1, <2>1 DEF Phases, PastRoots, PastPhase2, Place, First, Synced1, Synced2
  <2> QED BY Zenon, <2>2, <2>3
<1>3. CASE ProcessDeferredMarking(v)
  <2>1. pc[v] \in {"defer", "phase2"} /\ late[v] = {} /\ todo[v] = {} /\ slices' = slices
    BY Zenon, <1>3 DEF ProcessDeferredMarking, At
  <2>2. CASE /\ dlocal[v] \cup deferred = {} /\ UNCHANGED <<deferred, dlocal, todo, late>>
             /\ Goto(v, IF pc[v] = "defer" THEN "drain" ELSE "sync4")
    <3>1. pc'[v] = IF pc[v] = "defer" THEN "drain" ELSE "sync4"
      BY Zenon, <2>2 DEF Goto, RoundInv
    <3>2. Blocks(v)' /\ Stays(v)
      BY Zenon, <1>1, <2>1, <2>2, <3>1 DEF Blocks, Active, Stays
    <3>3. Phases(v)'
      BY Zenon, <1>1, <2>1, <2>2, <3>1 DEF Phases, PastRoots, PastPhase2, Place, First, Synced1,
         Synced2
    <3> QED BY Zenon, <3>2, <3>3
  <2>3. ASSUME NEW o \in IF dlocal[v] # {} THEN dlocal[v] ELSE deferred,
               dlocal' = [dlocal EXCEPT ![v] = @ \ {o}],
               deferred' = IF dlocal[v] # {} THEN deferred ELSE deferred \ {o},
               late' = [late EXCEPT ![v] = {o}],
               todo' = [todo EXCEPT ![v] =
                   Refs[o] \cup (IF o \in Prop THEN {Key[o], Value[o]} ELSE {})],
               pc' = pc
        PROVE  Blocks(v)' /\ Phases(v)' /\ Stays(v)
    <3>1. late'[v] = {o} /\ (pc[v] = "phase2" => o \in Instr) /\ deferred' \subseteq deferred
      BY <1>1, <2>1, <2>3, HeapTypes DEF Phases, PastRoots, First, Synced1, Synced2, Place,
         Early, DataTypes, OwnTypes
    <3>2. pc[v] = "phase2" => todo'[v] = {}
      <4>1. o \in Instr => Refs[o] = {} /\ o \notin Prop
        BY Zenon, HeapTypes DEF DataTypes, SharedTypes
      <4> QED BY Zenon, <2>3, <3>1, <4>1 DEF DataTypes, OwnTypes
    <3>3. Blocks(v)' /\ Stays(v)
      BY Zenon, <1>1, <2>1, <2>3, <3>1, <3>2 DEF Blocks, Active, Stays
    <3>4. Phases(v)'
      BY Zenon, <1>1, <2>1, <2>3, <3>1 DEF Phases, PastRoots, PastPhase2
    <3> QED BY Zenon, <3>3, <3>4
  <2> QED BY Zenon, <1>3, <2>2, <2>3 DEF ProcessDeferredMarking
<1> QED BY Zenon, <1>2, <1>3

(* The steps that only move v on, and those that take work.                *)
LEMMA PlainBlocks ==
    ASSUME BarrierInv, RoundInv, NEW v \in Visitor, Blocks(v), Phases(v), SameLists,
           \/ TryEnter(v) \/ Sync(v) \/ Release(v) \/ Busy(v)
           \/ EndRound(v) \/ Decide(v) \/ Continue(v)
    PROVE  Blocks(v)' /\ Phases(v)' /\ Stays(v)
<1>1. /\ UNCHANGED <<heap, marked, flushed, slices, deferred, dlocal, local, queue, todo, late>>
      /\ more[v] \in BOOLEAN /\ Instr' = Instr /\ Place(v) /\ Generation(v) /\ flushed \in Nat
      /\ gen[v] \in Nat /\ (flushed = 0 => v > flushed)
  BY Zenon, HeapSame, PlaceFacts DEF RoundInv, SameLists
<1>2. CASE Sync(v)
  <2>1. Comes(v) /\ more'[v] = more[v]
    BY Zenon, <1>2, SyncComes DEF Comes
  <2>2. Blocks(v)' /\ Stays(v)
    BY Zenon, <1>1, <2>1 DEF Blocks, Active, Stays, Comes
  <2>3. pc[v] = "sync1" \/ gen[v] > 0 \/ pc[v] = "sync2"
    BY Zenon, <1>1, <2>1 DEF Comes, Generation, Synced1, Synced2
  <2>4. Phases(v)'
    BY Zenon, <1>1, <2>1, <2>3 DEF Phases, PastRoots, PastPhase2, Comes, First, Synced1, Synced2
  <2> QED BY Zenon, <2>2, <2>4
<1>3. CASE TryEnter(v) \/ Release(v) \/ Busy(v) \/ Continue(v)
  <2>1. /\ more' = more /\ gen' = gen
        /\ \/ pc[v] = "spawned" /\ pc'[v] \in {"busy", "release"}
           \/ pc[v] = "release" /\ pc'[v] = "done"
           \/ pc[v] = "busy" /\ pc'[v] = "roots"
           \/ pc[v] = "wait3" /\ pc'[v] = IF more[v] THEN "drain" ELSE "phase2"
           \/ pc[v] = "wait4" /\ pc'[v] = "mourn"
           \/ pc[v] = "wait5" /\ pc'[v] = "release"
    BY Zenon, <1>3 DEF TryEnter, Release, Busy, Continue, Synced, Goto, barrier, RoundInv
  <2>2. Blocks(v)' /\ Stays(v)
    BY <1>1, <2>1 DEF Blocks, Active, Stays, Place, Early
  <2>3. Phases(v)'
    BY <1>1, <2>1 DEF Phases, Blocks, PastRoots, PastPhase2, Place, Early, First, Synced1, Synced2
  <2> QED BY Zenon, <2>2, <2>3
<1>4. CASE EndRound(v) \/ Decide(v)
  <2>1. /\ gen' = gen
        /\ \/ pc[v] = "round" /\ pc'[v] = "sync2" /\ queue[v] = {} /\ todo[v] = {} /\ more' = more
           \/ pc[v] = "wait2" /\ pc'[v] = "sync3" /\ (more[v] => more'[v])
    <3>1. CASE EndRound(v)
      BY Zenon, <3>1 DEF EndRound, At, Goto, barrier, RoundInv
    <3>2. CASE Decide(v)
      <4>1. gen' = gen /\ pc[v] = "wait2" /\ pc'[v] = "sync3"
        BY Zenon, <3>2 DEF Decide, Synced, Goto, barrier, RoundInv
      <4>2. more'[v] = (more[v] \/ JoinsRound(v))
        BY Zenon, <3>2 DEF Decide, RoundInv
      <4> QED BY Zenon, <4>1, <4>2
    <3> QED BY Zenon, <1>4, <3>1, <3>2
  <2>2. Blocks(v)' /\ Stays(v)
    BY Zenon, <1>1, <2>1 DEF Blocks, Active, Stays
  <2>3. Phases(v)'
    BY Zenon, <1>1, <2>1 DEF Phases, PastRoots, PastPhase2, Place, Early, First, Synced1, Synced2
  <2> QED BY Zenon, <2>2, <2>3
<1> QED BY Zenon, <1>2, <1>3, <1>4

LEMMA WorkBlocks ==
    ASSUME BarrierInv, DataTypes, RoundInv, NEW v \in Visitor, Blocks(v), Phases(v),
           WaitForWork(v) \/ WakeUp(v) \/ BeginRound(v) \/ Mourn(v)
    PROVE  Blocks(v)' /\ Phases(v)' /\ Stays(v)
<1>1. /\ UNCHANGED <<heap, marked, flushed, gen, slices, deferred, dlocal, todo, late>>
      /\ Instr' = Instr /\ Place(v) /\ flushed \in Nat /\ more[v] \in BOOLEAN
  <2>1. UNCHANGED <<heap, marked, flushed, gen, slices, deferred, dlocal, todo, late>>
    BY Zenon DEF WaitForWork, WakeUp, BeginRound, Mourn, flush, barrier
  <2> QED BY Zenon, <2>1, HeapSame, PlaceFacts DEF RoundInv
<1>2. CASE WaitForWork(v) \/ WakeUp(v)
  <2>1. /\ UNCHANGED <<queue, more>> /\ pc[v] \in {"idle", "asleep"}
        /\ pc'[v] = "drain" \/ (pc'[v] \in {"asleep", "sync1"} /\ local' = local)
    BY Zenon, <1>2 DEF WaitForWork, WakeUp, TakeOrWait, Goto, RoundInv
  <2>2. Blocks(v)' /\ Stays(v)
    BY Zenon, <1>1, <2>1 DEF Blocks, Active, Stays
  <2>3. Phases(v)'
    BY Zenon, <1>1, <2>1 DEF Phases, PastRoots, PastPhase2, Place, Early, First, Synced1, Synced2
  <2> QED BY Zenon, <2>2, <2>3
<1>3. CASE BeginRound(v) \/ Mourn(v)
  <2>1. /\ local' = local
        /\ \/ pc[v] = "wait1" /\ pc'[v] = "round" /\ more'[v] = FALSE
           \/ pc[v] = "mourn" /\ pc'[v] = "sync5" /\ UNCHANGED <<queue, more>>
    BY Zenon, <1>3 DEF BeginRound, Mourn, Synced, Goto, RoundInv
  <2>2. Blocks(v)' /\ Stays(v)
    BY Zenon, <1>1, <2>1 DEF Blocks, Active, Stays
  <2>3. Phases(v)'
    BY Zenon, <1>1, <2>1 DEF Phases, PastRoots, PastPhase2, Place, Early, First, Synced1, Synced2
  <2> QED BY Zenon, <2>2, <2>3
<1> QED BY Zenon, <1>2, <1>3

LEMMA TaskOwn ==
    ASSUME BarrierInv, DataTypes, RoundInv, NEW v \in Visitor, Blocks(v), Phases(v), Task(v)
    PROVE  Blocks(v)' /\ Phases(v)' /\ Stays(v)
  BY Zenon, PlainSteps, MarkBlocks, DrainBlocks, RootBlocks, PlainBlocks, WorkBlocks DEF Task

(* Nobody marks anything when a participant is past phase 2.               *)
LEMMA NoMarking ==
    ASSUME BarrierInv, RoundInv, NEW u \in Visitor, gen[u] > 0, PastPhase2(u),
           NEW v \in Visitor, Blocks(v), todo[v] # {}
    PROVE  FALSE
<1>1. /\ Place(u) /\ Place(v) /\ flushed \in Nat
      /\ pc[v] \in {"croots", "roots", "defer", "drain", "pend", "round"}
  BY Zenon, PlaceFacts DEF Blocks
<1>2. flushed > 0 /\ u \in Participants /\ v \in Participants
  BY <1>1 DEF Place, Participants, Participates, First, Synced1, Synced2
<1>3. Stage(u) \in {4, 5, 6}
  BY Zenon DEF PastPhase2, Stage, Synced, Waiting
<1>4. Stage(v) \in {1, 2}
  BY Zenon, <1>1 DEF Stage, Synced, Waiting
<1> QED BY <1>2, <1>3, <1>4 DEF RoundInv, Together

LEMMA TaskShared ==
    ASSUME DataTypes, NEW v \in Visitor, Task(v)
    PROVE  /\ slices' \subseteq slices /\ deferred' \subseteq deferred \cup Instr
           /\ deferred' \subseteq deferred \/ todo[v] # {}
           /\ stack' \subseteq stack \/ MarkObject(v)
<1>1. CASE MarkObject(v)
  <2>1. slices' = slices /\ todo[v] # {}
    BY Zenon, <1>1 DEF MarkObject
  <2>2. deferred' = deferred \/ \E S \in {{}, dlocal[v]} : deferred' = deferred \cup S
    BY Zenon, <1>1 DEF MarkObject
  <2> QED BY Zenon, <1>1, <2>1, <2>2 DEF DataTypes, OwnTypes
<1>2. CASE IterateRoots(v)
  BY Zenon, <1>2 DEF IterateRoots
<1>3. CASE ProcessDeferredMarking(v) \/ MarkDeferred(v)
  BY Zenon, <1>3 DEF ProcessDeferredMarking, MarkDeferred
<1>4. CASE Drain(v) \/ ProcessPending(v)
  BY Zenon, <1>4 DEF Drain, PopAndVisit, ProcessPending
<1>5. CASE WaitForWork(v) \/ WakeUp(v) \/ BeginRound(v) \/ Mourn(v)
  BY Zenon, <1>5 DEF WaitForWork, WakeUp, TakeOrWait, BeginRound, Mourn
<1>6. CASE SameLists
  BY Zenon, <1>6 DEF SameLists
<1> QED BY Zenon, <1>1, <1>2, <1>3, <1>4, <1>5, <1>6, PlainSteps DEF Task

LEMMA TaskOthers ==
    ASSUME BarrierInv, DataTypes, RoundInv, NEW v \in Visitor, Task(v), Mine(v), Blocks(v),
           NEW u \in Visitor, u # v, Blocks(u), Phases(u)
    PROVE  Blocks(u)' /\ Phases(u)' /\ (Active(u)' <=> Active(u))
<1>1. /\ UNCHANGED <<heap, flushed>> /\ marked \subseteq marked' /\ Instr' = Instr
      /\ local'[u] = local[u] /\ dlocal'[u] = dlocal[u] /\ queue'[u] = queue[u]
      /\ todo'[u] = todo[u] /\ late'[u] = late[u]
      /\ pc'[u] = pc[u] /\ more'[u] = more[u] /\ gen'[u] = gen[u]
  BY Zenon, HeapSame DEF Mine
<1>2. (Active(u)' <=> Active(u)) /\ Blocks(u)'
  <2>1. Active(u)' <=> Active(u)
    BY Zenon, <1>1 DEF Active
  <2> QED BY Zenon, <1>1, <2>1 DEF Blocks
<1>3. Phases(u)'
  <2>1. PastPhase2(u) /\ gen[u] > 0 => deferred' \subseteq deferred
    BY Zenon, TaskShared, NoMarking
  <2> QED BY Zenon, <1>1, <2>1, TaskShared DEF Phases, PastRoots, PastPhase2
<1> QED BY Zenon, <1>2, <1>3

LEMMA TaskAsleep ==
    ASSUME DataTypes, RoundInv, NEW v \in Visitor, Task(v), Mine(v),
           \A u \in asleep : pc[u] = "asleep"
    PROVE  \A u \in asleep' : pc'[u] = "asleep"
<1>1. CASE asleep' \subseteq asleep /\ (v \notin asleep' \/ pc'[v] = "asleep")
  BY Zenon, <1>1 DEF Mine, DataTypes, SharedTypes
<1>2. CASE WaitForWork(v) \/ WakeUp(v)
  <2>1. \/ asleep' = asleep \cup {v} /\ pc'[v] = "asleep"
        \/ asleep' \subseteq asleep /\ pc[v] = "idle"
        \/ asleep' \subseteq asleep /\ v \notin asleep
    BY Zenon, <1>2 DEF WaitForWork, WakeUp, TakeOrWait, StillAsleep, Goto, RoundInv
  <2> QED BY Zenon, <2>1 DEF Mine, DataTypes, SharedTypes
<1>3. CASE MarkObject(v)
  <2>1. pc' = pc /\ asleep' \subseteq asleep
    BY Zenon, <1>3 DEF MarkObject, Woken
  <2> QED BY Zenon, <2>1
<1>4. CASE asleep' = asleep /\ pc[v] # "asleep"
  BY Zenon, <1>4 DEF Mine, DataTypes, SharedTypes
<1>5. CASE asleep' = asleep /\ pc' = pc
  BY Zenon, <1>5
<1>6. CASE Drain(v) \/ ProcessPending(v) \/ IterateRoots(v) \/ ProcessDeferredMarking(v)
  BY Zenon, <1>4, <1>6 DEF Drain, ProcessPending, IterateRoots, ProcessDeferredMarking, At
<1>7. CASE MarkDeferred(v)
  BY Zenon, <1>5, <1>7 DEF MarkDeferred
<1>8. CASE EndPending(v) \/ TryEnter(v) \/ Sync(v) \/ Release(v) \/ Busy(v)
  <2>1. pc[v] # "asleep"
    BY Zenon, <1>8 DEF EndPending, TryEnter, Sync, SyncAt, Release, Busy, At
  <2> QED BY Zenon, <1>4, <1>8, <2>1, PlainSteps
<1>9. CASE BeginRound(v) \/ EndRound(v) \/ Decide(v) \/ Continue(v) \/ Mourn(v)
  BY Zenon, <1>4, <1>9 DEF BeginRound, EndRound, Decide, Continue, Mourn, At, Synced
<1> QED BY Zenon, <1>2, <1>3, <1>6, <1>7, <1>8, <1>9 DEF Task

LEMMA TaskPhase ==
    ASSUME SizeFacts, BarrierInv, DataTypes, RoundInv, PhaseInv, NEW v \in Visitor, Task(v)
    PROVE  PhaseInv'
<1>1. Mine(v) /\ Visitor' = Visitor /\ NumTasks' = NumTasks /\ flushed' = flushed
  BY Zenon, TaskMine, HeapSame DEF Mine
<1>2. Blocks(v) /\ Phases(v) /\ Blocks(v)' /\ Phases(v)' /\ Stays(v)
  BY Zenon, TaskOwn DEF PhaseInv
<1>3. \A u \in Visitor : u # v => Blocks(u)' /\ Phases(u)' /\ (Active(u)' <=> Active(u))
  BY Zenon, <1>1, <1>2, TaskOthers DEF PhaseInv
<1>4. \A u \in asleep' : pc'[u] = "asleep"
  BY Zenon, <1>1, TaskAsleep DEF PhaseInv
<1>5. ASSUME stack' # {}
      PROVE  AnyActive'
  <2>1. CASE stack' \subseteq stack
    <3>1. stack # {} /\ AnyActive
      BY Zenon, <1>5, <2>1 DEF PhaseInv
    <3>2. Active(v) => Active(v)'
      BY Zenon, <1>2, <3>1 DEF Stays, NothingToPop
    <3> QED BY Zenon, <1>1, <1>3, <3>1, <3>2 DEF AnyActive
  <2>2. CASE ~(stack' \subseteq stack)
    <3>1. MarkObject(v)
      BY Zenon, <2>2, TaskShared
    <3>2. Active(v)' \/ v > flushed
      BY Zenon, <1>1, <1>2, <2>2, <3>1, MarkBlocks
    <3> QED BY Zenon, <1>1, <3>2, PlaceFacts DEF AnyActive
  <2> QED BY Zenon, <2>1, <2>2
<1> QED BY Zenon, <1>1, <1>2, <1>3, <1>4, <1>5 DEF PhaseInv

LEMMA FlushFacts ==
    ASSUME BarrierInv, RoundInv, DataTypes, Flush
    PROVE  LET v == flushed + 1 IN
           /\ v \in Visitor /\ pc[v] = "parked" /\ flushed' = v /\ flushed < NumTasks
           /\ heap' = heap /\ flushed \in Nat /\ NumTasks \in Nat /\ Visitor = 1..NumTasks
           /\ \A u \in Participants : flushed > 0 => Stage(u) = 1
           /\ UNCHANGED <<marked, queue, todo, late, more, gen>>
           /\ asleep' \subseteq asleep
           /\ stack' = stack \cup local[v] /\ deferred' = deferred \cup dlocal[v]
           /\ local'[v] = {} /\ dlocal'[v] = {}
           /\ pc'[v] = IF v = Main THEN "busy" ELSE "spawned"
           /\ \A u \in Visitor : u # v =>
                 /\ local'[u] = local[u] /\ dlocal'[u] = dlocal[u] /\ pending'[u] = pending[u]
                 /\ pc'[u] = pc[u]
<1> DEFINE v == flushed + 1
<1>1. /\ v \in Visitor /\ flushed \in Nat /\ NumTasks \in Nat /\ Visitor = 1..NumTasks
      /\ Main = NumTasks /\ Main \in Visitor /\ flushed < NumTasks
      /\ \A u \in Visitor : Place(u)
  BY Sizes DEF Flush, BarrierInv, Typed
<1>2. pc[v] = "parked" /\ pc \in [Visitor -> PC]
  BY <1>1 DEF Flush, Place, RoundInv
<1>3. ASSUME NEW u \in Participants, flushed > 0
      PROVE  Stage(u) = 1
  <2>1. pc[Main] = "parked" /\ Main \in Participants
    BY <1>1, <1>3 DEF Place, Participants, Participates
  <2>2. Stage(Main) = 1
    BY Zenon, <2>1 DEF Stage, Synced, Waiting
  <2> QED BY Zenon, <2>1, <2>2 DEF RoundInv, Together
<1>4. /\ flushed' = v /\ heap' = heap /\ UNCHANGED <<marked, queue, todo, late, more, gen>>
      /\ stack' = stack \cup local[v] /\ deferred' = deferred \cup dlocal[v]
      /\ local' = [local EXCEPT ![v] = {}] /\ dlocal' = [dlocal EXCEPT ![v] = {}]
      /\ pc' = [pc EXCEPT ![v] = IF v = Main THEN "busy" ELSE "spawned"]
      /\ pending' = [pending EXCEPT ![v] = IF v = Main THEN head' ELSE {}]
      /\ Woken(local[v])
  BY Zenon DEF Flush, Goto, barrier
<1>5. asleep' \subseteq asleep
  BY Zenon, <1>4 DEF Woken
<1>6. /\ local'[v] = {} /\ dlocal'[v] = {} /\ pc'[v] = IF v = Main THEN "busy" ELSE "spawned"
      /\ \A u \in Visitor : u # v =>
            /\ local'[u] = local[u] /\ dlocal'[u] = dlocal[u] /\ pending'[u] = pending[u]
            /\ pc'[u] = pc[u]
  BY Zenon, <1>1, <1>2, <1>4 DEF DataTypes, OwnTypes
<1> QED BY Zenon, <1>1, <1>2, <1>3, <1>4, <1>5, <1>6

LEMMA FlushPhase ==
    ASSUME BarrierInv, RoundInv, DataTypes, PhaseInv, Flush
    PROVE  PhaseInv' /\ AnyActive'
<1> DEFINE v == flushed + 1
<1>1. /\ v \in Visitor /\ pc[v] = "parked" /\ flushed' = v /\ flushed < NumTasks
      /\ heap' = heap /\ flushed \in Nat /\ NumTasks \in Nat /\ Visitor = 1..NumTasks
      /\ \A u \in Participants : flushed > 0 => Stage(u) = 1
      /\ UNCHANGED <<marked, queue, todo, late, more, gen>>
      /\ asleep' \subseteq asleep
      /\ stack' = stack \cup local[v] /\ deferred' = deferred \cup dlocal[v]
      /\ local'[v] = {} /\ dlocal'[v] = {}
      /\ pc'[v] = IF v = Main THEN "busy" ELSE "spawned"
      /\ \A u \in Visitor : u # v =>
            /\ local'[u] = local[u] /\ dlocal'[u] = dlocal[u] /\ pending'[u] = pending[u]
            /\ pc'[u] = pc[u]
  BY Zenon, FlushFacts
<1>2. Visitor' = Visitor /\ NumTasks' = NumTasks /\ Instr' = Instr /\ Main' = Main
  BY Zenon, <1>1, HeapSame
<1>3. ASSUME NEW u \in Visitor
      PROVE  Blocks(u)'
  <2>1. CASE u = v
    BY Zenon, <1>1, <2>1 DEF PhaseInv, Blocks
  <2>2. CASE u # v
    BY <1>1, <1>2, <2>2 DEF PhaseInv, Blocks, Active
  <2> QED BY Zenon, <2>1, <2>2
<1>4. ASSUME NEW u \in Visitor
      PROVE  Phases(u)'
  <2>1. CASE u = v
    BY Zenon, <1>1, <2>1 DEF Phases, PastRoots, PastPhase2, First, Synced1, Synced2
  <2>2. CASE u # v /\ flushed = 0
    <3>1. pc'[u] = "parked"
      BY Zenon, <1>1, <2>2 DEF Flush
    <3> QED BY Zenon, <3>1 DEF Phases, PastRoots, PastPhase2, First, Synced1, Synced2
  <2>3. CASE u # v /\ flushed > 0
    <3>1. slices' = slices /\ dlocal[v] \subseteq Instr
      BY <1>1, <2>3 DEF Flush, DataTypes, OwnTypes
    <3>2. ~(PastPhase2(u) /\ gen[u] > 0)
      BY <1>1, <2>3 DEF PastPhase2, Participants, Participates, Stage, Synced, Waiting
    <3> QED BY Zenon, <1>1, <1>2, <2>3, <3>1, <3>2 DEF PhaseInv, Phases, PastRoots, PastPhase2
  <2> QED BY <1>1, <2>1, <2>2, <2>3
<1>5. \A u \in asleep' : pc'[u] = "asleep"
  BY Zenon, <1>1 DEF PhaseInv, DataTypes, SharedTypes
<1>6. AnyActive'
  BY <1>1, <1>2, Sizes DEF AnyActive, Active, BarrierInv
<1> QED BY Zenon, <1>2, <1>3, <1>4, <1>5, <1>6 DEF PhaseInv

LEMMA OtherPhase ==
    ASSUME BarrierInv, RoundInv, DataTypes, PhaseInv,
           \/ MarkWhenIdle \/ UNCHANGED vars
           \/ \E v \in Visitor : SpuriousWakeup(v)
           \/ \E o \in Obj : WriteBarrier(o) \/ DeferredBarrier(o)
    PROVE  PhaseInv'
<1>1. CASE UNCHANGED vars \/ \E v \in Visitor : SpuriousWakeup(v)
  <2>1. /\ UNCHANGED <<heap, marked, stack, deferred, local, dlocal, queue, todo, late, pc, more,
                       slices, flushed, gen>>
        /\ asleep' \subseteq asleep
    BY Zenon, <1>1 DEF vars, SpuriousWakeup, work, flush, barrier
  <2>2. ASSUME NEW v \in Visitor PROVE Blocks(v)' /\ Phases(v)' /\ (Active(v)' <=> Active(v))
    <3>1. Blocks(v) /\ Phases(v) /\ Instr' = Instr
      BY Zenon, <2>1, HeapSame DEF PhaseInv
    <3>2. Active(v)' <=> Active(v)
      BY Zenon, <2>1 DEF Active
    <3>3. Blocks(v)'
      BY Zenon, <2>1, <3>1, <3>2 DEF Blocks
    <3>4. Phases(v)'
      BY Zenon, <2>1, <3>1 DEF Phases, PastRoots, PastPhase2
    <3> QED BY Zenon, <3>2, <3>3, <3>4
  <2> QED BY Zenon, <2>1, <2>2, HeapSame DEF PhaseInv, AnyActive
<1>2. CASE MarkWhenIdle \/ \E o \in Obj : WriteBarrier(o) \/ DeferredBarrier(o)
  <2>1. /\ UNCHANGED <<heap, local, dlocal, queue, todo, late, more, flushed, gen, asleep>>
        /\ flushed = 0 /\ marked \subseteq marked'
    BY Zenon, <1>2 DEF MarkWhenIdle, WriteBarrier, DeferredBarrier, work, flush, barrier, Concurrent
  <2>2. /\ Visitor' = Visitor /\ NumTasks' = NumTasks /\ Instr' = Instr /\ Main' = Main
        /\ NumTasks \in Nat \ {0} /\ Visitor = 1..NumTasks /\ Main \in Visitor
    BY Zenon, <2>1, HeapSame, Sizes DEF BarrierInv
  <2>3. AnyActive'
    BY <2>1, <2>2 DEF AnyActive
  <2>4. ASSUME NEW v \in Visitor
        PROVE  /\ pc'[v] \in Early /\ (pc'[v] = pc[v] \/ pc[v] # "asleep")
               /\ \/ pc'[v] = pc[v]
                  \/ pc[v] = "parked" /\ pc'[v] = "drain"
                  \/ pc[v] = "drain" /\ todo[v] = {} /\ late[v] = {} /\ pc'[v] = "parked"
    BY Zenon, <1>2, <2>1, <2>2, PlaceFacts
       DEF MarkWhenIdle, WriteBarrier, DeferredBarrier, Goto, At, Place, Early, RoundInv
  <2>5. ASSUME NEW v \in Visitor
        PROVE  Blocks(v)' /\ Phases(v)'
    <3>1. Blocks(v)'
      <4>1. Blocks(v) /\ v > flushed' /\ more'[v] = more[v] /\ more[v] \in BOOLEAN
        BY <2>1, <2>2 DEF PhaseInv, RoundInv
      <4> QED BY <2>1, <2>2, <2>4, <4>1 DEF Blocks, Early
    <3>2. Phases(v)'
      BY <2>1, <2>4 DEF Phases, PastRoots, PastPhase2, Early
    <3> QED BY Zenon, <3>1, <3>2
  <2>6. \A v \in asleep' : pc'[v] = "asleep"
    BY Zenon, <2>1, <2>4 DEF PhaseInv, DataTypes, SharedTypes
  <2> QED BY Zenon, <2>2, <2>3, <2>5, <2>6 DEF PhaseInv
<1> QED BY Zenon, <1>1, <1>2

LEMMA InitPhase ==
    ASSUME Init
    PROVE  PhaseInv
<1>1. /\ flushed = 0 /\ stack = {} /\ deferred = {} /\ asleep = {}
      /\ \A v \in Visitor : /\ local[v] = {} /\ dlocal[v] = {} /\ queue[v] = {}
                            /\ todo[v] = {} /\ late[v] = {} /\ more[v] = FALSE
                            /\ pc[v] \in {"croots", "parked"}
  BY Zenon DEF Init
<1> QED BY <1>1 DEF PhaseInv, Blocks, Phases, PastRoots, PastPhase2

LEMMA NextPhase ==
    ASSUME SizeFacts, BarrierInv, RoundInv, DataTypes, PhaseInv, [Next]_vars
    PROVE  PhaseInv'
  BY Zenon, TaskPhase, FlushPhase, OtherPhase DEF Next

-----------------------------------------------------------------------------
(* What follows for the ends of rounds and for the types of the counters.  *)

LEMMA RoundEnds ==
    ASSUME BarrierInv, Next, generation_' # generation_
    PROVE  \E v \in Visitor : Sync(v) /\ ArrivesLast /\ Others(v) /\ Arrives(v)
<1>1. PICK v \in Visitor : Sync(v)
  <2>1. ASSUME NEW v \in Visitor, Step(v)
        PROVE  FALSE
    BY Zenon, <2>1 DEF Step, SameBarrier
  <2>2. Main \in Visitor
    BY Zenon, Sizes DEF BarrierInv
  <2>3. ~Flush /\ \A v \in Visitor : ~TryEnter(v)
    BY Zenon DEF Flush, TryEnter, barrier
  <2> QED BY Zenon, <2>1, <2>2, <2>3, TaskMoves, OtherMoves DEF Next
<1>2. ArrivesLast /\ Others(v) /\ Arrives(v)
  BY Zenon, <1>1, SyncGoes DEF Sync
<1> QED BY Zenon, <1>1, <1>2

LEMMA RoundDrained ==
    ASSUME SizeFacts, BarrierInv, RoundInv, DataTypes, PhaseInv, Next,
           generation_' # generation_, NEW v \in Visitor, pc[v] = "sync1"
    PROVE  num_busy = 0 /\ stack = {} /\ asleep = {}
<1>1. PICK w \in Visitor : Sync(w) /\ ArrivesLast /\ Others(w) /\ Arrives(w)
  BY Zenon, RoundEnds
<1>2. /\ flushed > 0 /\ flushed \in 0..NumTasks /\ v \in Participants /\ Stage(v) = 1
      /\ Main \in Participants /\ Main \in Visitor /\ NumTasks \in Nat /\ Main = NumTasks
      /\ \A u \in Visitor : Place(u)
  BY Sizes DEF BarrierInv, Typed, Place, Early, Participants, Participates, First, Stage,
     Synced, Waiting
<1>3. v = w
  BY Zenon, <1>1, <1>2, LastOne DEF Arrives, Arrived, Waits
<1>4. ASSUME NEW u \in Visitor
      PROVE  pc[u] \in {"parked", "spawned", "release", "done", "sync1", "wait1"}
  <2>1. CASE u \in Participants
    <3>1. u # v => Arrived(u) /\ Stage(u) = 1
      BY Zenon, <1>1, <1>2, <1>3, <2>1, LastOne DEF Arrives, RoundInv, Together
    <3> QED BY <3>1 DEF Arrived, Waits, Stage, Synced, Waiting
  <2>2. CASE u \notin Participants
    BY Zenon, <1>2, <2>2 DEF Participants, Participates, Place
  <2> QED BY Zenon, <2>1, <2>2
<1>5. Workers = {}
  BY Zenon, <1>4 DEF Workers, Working
<1>6. num_busy = 0
  BY Zenon, <1>5 DEF RoundInv, SizeFacts, SizeEmpty
<1>7. pc[Main] # "parked"
  <2>1. Main # v => Arrived(Main)
    BY Zenon, <1>1, <1>2, <1>3, LastOne DEF Arrives
  <2> QED BY Zenon, <2>1 DEF Arrived, Waits
<1>8. ~AnyActive
  BY <1>2, <1>4, <1>7 DEF AnyActive, Active, Place
<1> QED BY Zenon, <1>4, <1>6, <1>8 DEF PhaseInv, DataTypes, SharedTypes

(* The last one in a round starts the next at once.                        *)
LEMMA InitOpen ==
    ASSUME Init
    PROVE  remaining_ > 0
  BY DEF Init

LEMMA NextOpen ==
    ASSUME SizeFacts, BarrierInv, remaining_ > 0, [Next]_vars
    PROVE  remaining_' > 0
<1>1. remaining_ \in Nat /\ participating_ \in Nat \ {0} /\ Main \in Visitor
  <2>1. Main \in Participants /\ Main \in Visitor /\ Late \subseteq Visitor
    BY Zenon, Sizes DEF BarrierInv, Participants, Participates, Late
  <2>2. IsFiniteSet(Participants) /\ Cardinality(Participants) \in Nat /\ Cardinality(Late) \in Nat
    BY Zenon, <2>1, Finite DEF BarrierInv, Participants
  <2>3. Cardinality(Participants) # 0
    BY Zenon, <2>1, <2>2 DEF SizeFacts, SizeEmpty
  <2> QED BY Zenon, <2>1, <2>2, <2>3 DEF BarrierInv, Counts
<1>2. ASSUME NEW v \in Visitor, Sync(v)
      PROVE  remaining_' > 0
  BY <1>1, <1>2 DEF Sync, ArrivesLast
<1>3. ASSUME NEW v \in Visitor, Step(v)
      PROVE  remaining_' > 0
  BY Zenon, <1>3 DEF Step, SameBarrier
<1>4. ASSUME NEW v \in Visitor, TryEnter(v)
      PROVE  remaining_' > 0
  BY <1>1, <1>4 DEF TryEnter
<1>5. CASE Flush
  BY Zenon, <1>5 DEF Flush, barrier
<1> QED BY Zenon, <1>1, <1>2, <1>3, <1>4, <1>5, TaskMoves, OtherMoves DEF Next

LEMMA InvTypes ==
    ASSUME SizeFacts, BarrierInv, RoundInv, DataTypes, remaining_ > 0
    PROVE  TypeOK
<1>1. /\ NumTasks \in Nat \ {0} /\ Main \in Visitor /\ Visitor = 1..NumTasks
      /\ IsFiniteSet(Visitor) /\ Cardinality(Visitor) = NumTasks
  BY Sizes, Finite DEF BarrierInv, SizeFacts, SizeInterval
<1>2. ASSUME NEW S, S \subseteq Visitor
      PROVE  IsFiniteSet(S) /\ Cardinality(S) \in 0..NumTasks
  <2>1. IsFiniteSet(S) /\ Cardinality(S) \in Nat
    BY Zenon, <1>2, Finite DEF BarrierInv
  <2>2. Cardinality(S) <= Cardinality(Visitor)
    BY Zenon, <1>1, <1>2 DEF SizeFacts, SizeSubset
  <2> QED BY <1>1, <2>1, <2>2
<1>3. participating_ \in 0..NumTasks /\ remaining_ \in 0..participating_
  <2>1. Participants \subseteq Visitor /\ Late \subseteq Participants /\ Late \subseteq Visitor
    BY Zenon DEF Participants, Late
  <2>2. IsFiniteSet(Participants) /\ Cardinality(Participants) \in 0..NumTasks
        /\ Cardinality(Late) \in 0..NumTasks
    BY Zenon, <1>2, <2>1
  <2>3. Cardinality(Late) <= Cardinality(Participants)
    BY Zenon, <2>1, <2>2 DEF SizeFacts, SizeSubset
  <2> QED BY <2>2, <2>3 DEF BarrierInv, Counts
<1>4. num_busy \in 0..NumTasks
  BY Zenon, <1>2 DEF RoundInv, Workers
<1>5. ref_count_ \in 0..NumTasks
  BY Zenon, <1>2 DEF BarrierInv, Counts
<1>6. generation_ \in Nat /\ gen \in [Visitor -> 0..generation_] /\ flushed \in 0..NumTasks
  BY DEF BarrierInv, Typed, Generation
<1>7. /\ heap \in Heaps
      /\ marked \subseteq Obj /\ stack \subseteq marked /\ deferred \subseteq Obj
      /\ local \in [Visitor -> SUBSET marked] /\ dlocal \in [Visitor -> SUBSET Obj]
      /\ pending \in [Visitor -> SUBSET (Prop \cap marked)]
      /\ queue \in [Visitor -> SUBSET (Prop \cap marked)]
      /\ todo \in [Visitor -> SUBSET Obj] /\ late \in [Visitor -> SUBSET Obj]
      /\ slices \subseteq DOMAIN Roots /\ asleep \subseteq Visitor
      /\ head \subseteq Prop /\ tail \in BOOLEAN
  BY Zenon, HeapTypes, WiderTypes DEF DataTypes, SharedTypes, OwnTypes
<1> QED BY <1>1, <1>3, <1>4, <1>5, <1>6, <1>7 DEF TypeOK, RoundInv

-----------------------------------------------------------------------------
(* No weak property has a marked key once it is found that there is no     *)
(* more to mark: what is marked later are Instructions, and these are no   *)
(* keys.                                                                   *)
RoundPC == {"round", "sync2", "wait2", "sync3", "wait3", "phase2", "sync4", "wait4", "mourn"}
KeysDead ==
    \A v \in Visitor : pc[v] \in RoundPC =>
       \A p \in pending[v] : Key[p] \in marked => AnyActive

LEMMA TaskPends ==
    ASSUME DataTypes, RoundInv, NEW v \in Visitor, Blocks(v), Task(v), pc'[v] \in RoundPC
    PROVE  \/ pc[v] \in RoundPC /\ pending'[v] = pending[v]
           \/ marked' = marked /\ \A p \in pending'[v] :
                 Key[p] \notin marked \/ (pc[v] \in RoundPC /\ p \in pending[v])
<1>1. CASE \/ EndPending(v) \/ TryEnter(v) \/ Sync(v) \/ Release(v) \/ Busy(v)
           \/ EndRound(v) \/ Decide(v) \/ Continue(v)
  <2>1. pending' = pending
    BY Zenon, <1>1, PlainSteps DEF SameLists
  <2>2. CASE EndPending(v) \/ TryEnter(v) \/ Release(v) \/ Busy(v)
    BY Zenon, <2>2 DEF EndPending, TryEnter, Release, Busy, Goto, RoundPC, RoundInv
  <2>3. CASE EndRound(v) \/ Decide(v) \/ Continue(v)
    BY Zenon, <2>1, <2>3 DEF EndRound, Decide, Continue, Goto, At, Synced, RoundPC, RoundInv
  <2>4. CASE Sync(v)
    BY Zenon, <2>1, <2>4, SyncComes DEF Comes, RoundPC
  <2> QED BY Zenon, <1>1, <2>2, <2>3, <2>4
<1>2. CASE MarkObject(v) \/ MarkDeferred(v)
  BY Zenon, <1>2 DEF MarkObject, MarkDeferred
<1>3. CASE IterateRoots(v) \/ ProcessDeferredMarking(v)
  <2>1. pending' = pending /\ (pc'[v] = pc[v] \/ (pc[v] = "phase2" /\ pc'[v] = "sync4")
                               \/ pc'[v] \in {"defer", "parked", "drain"})
    BY Zenon, <1>3 DEF IterateRoots, ProcessDeferredMarking, Goto, At, RoundInv
  <2> QED BY Zenon, <2>1 DEF RoundPC
<1>4. CASE WaitForWork(v) \/ WakeUp(v)
  BY Zenon, <1>4 DEF WaitForWork, WakeUp, TakeOrWait, Goto, RoundPC, RoundInv
<1>5. CASE Drain(v)
  <2>1. pc'[v] \in {"drain", "pend", "parked", "idle"}
    BY Zenon, <1>5 DEF Drain, Goto, RoundInv
  <2> QED BY Zenon, <2>1 DEF RoundPC
<1>6. CASE BeginRound(v) \/ Mourn(v)
  <2>1. marked' = marked /\ pending'[v] = {}
    BY Zenon, <1>6 DEF BeginRound, Mourn, DataTypes, OwnTypes
  <2> QED BY Zenon, <2>1
<1>7. CASE ProcessPending(v)
  <2>1. /\ pc[v] = "pend" \/ pc[v] = "round"
        /\ pc' = pc /\ marked' = marked
        /\ \E p \in queue[v] : pending' = [pending EXCEPT ![v] = @ \cup Requeued(p)]
    BY Zenon, <1>7 DEF ProcessPending, At
  <2>2. PICK p \in queue[v] : pending' = [pending EXCEPT ![v] = @ \cup Requeued(p)]
    BY Zenon, <2>1
  <2>3. pending'[v] = pending[v] \cup Requeued(p) /\ p \in Prop
    BY Zenon, <2>2 DEF DataTypes, OwnTypes
  <2> QED BY Zenon, <2>1, <2>3 DEF Requeued, RoundPC
<1> QED BY Zenon, <1>1, <1>2, <1>3, <1>4, <1>5, <1>6, <1>7 DEF Task

(* What marks a key keeps somebody active.                                 *)
LEMMA TaskMarksKeys ==
    ASSUME SizeFacts, BarrierInv, DataTypes, RoundInv, PhaseInv, NEW v \in Visitor, Task(v),
           ~AnyActive'
    PROVE  marked' \subseteq marked \cup Instr
<1>1. Mine(v) /\ Blocks(v) /\ Blocks(v)' /\ Visitor' = Visitor /\ NumTasks' = NumTasks
  BY Zenon, TaskMine, TaskPhase, HeapSame DEF PhaseInv, Mine
<1>2. local'[v] = {} /\ ~Active(v)'
  <2>1. flushed' = flushed /\ ~(v > flushed) /\ ~Active(v)'
    BY Zenon, <1>1, PlaceFacts DEF AnyActive, Mine
  <2> QED BY Zenon, <1>1, <2>1 DEF Blocks
<1>3. CASE MarkObject(v)
  <2>1. \/ marked' = marked
        \/ \E o, published : local' = [local EXCEPT ![v] = (@ \ published) \cup {o}]
    BY Zenon, <1>3 DEF MarkObject
  <2>2. marked' = marked
    BY Zenon, <1>2, <2>1 DEF DataTypes, OwnTypes
  <2> QED BY Zenon, <2>2
<1>4. CASE MarkDeferred(v)
  <2>1. /\ late[v] # {} /\ marked' = marked \cup late[v] /\ pc' = pc /\ more' = more
    BY Zenon, <1>4 DEF MarkDeferred
  <2>2. pc[v] = "phase2"
    BY Zenon, <1>1, <1>2, <2>1 DEF Blocks, Active
  <2> QED BY Zenon, <1>1, <2>1, <2>2 DEF Blocks
<1>5. CASE marked' = marked
  BY Zenon, <1>5
<1>6. CASE IterateRoots(v) \/ ProcessDeferredMarking(v) \/ WaitForWork(v) \/ WakeUp(v)
  BY Zenon, <1>5, <1>6 DEF IterateRoots, ProcessDeferredMarking, WaitForWork, WakeUp
<1>7. CASE Drain(v) \/ ProcessPending(v) \/ BeginRound(v) \/ Mourn(v)
  BY Zenon, <1>5, <1>7 DEF Drain, ProcessPending, BeginRound, Mourn
<1> QED BY Zenon, <1>3, <1>4, <1>5, <1>6, <1>7, PlainSteps DEF Task, SameLists

LEMMA TaskKeys ==
    ASSUME SizeFacts, BarrierInv, DataTypes, RoundInv, PhaseInv, KeysDead,
           NEW v \in Visitor, Task(v)
    PROVE  KeysDead'
<1>1. Mine(v) /\ Visitor' = Visitor /\ NumTasks' = NumTasks /\ Key' = Key
  BY Zenon, TaskMine, HeapSame DEF Mine
<1>2. SUFFICES ASSUME ~AnyActive', NEW u \in Visitor, pc'[u] \in RoundPC, NEW p \in pending'[u],
                      Key[p] \in marked'
               PROVE  FALSE
  BY Zenon, <1>1 DEF KeysDead
<1>3. /\ flushed = NumTasks /\ flushed > 0 /\ NumTasks \in Nat /\ Place(v) /\ Place(u)
      /\ \A w \in Visitor : ~Active(w)'
  BY <1>1, <1>2, PlaceFacts, Sizes DEF AnyActive, Mine, BarrierInv, Typed
<1>4. CASE AnyActive
  <2>1. Active(v) /\ NothingToPop(v) /\ pc[v] \in {"drain", "last"}
    <3>1. \A w \in Visitor : w # v => (Active(w)' <=> Active(w))
      BY Zenon, <1>1, TaskOthers DEF PhaseInv
    <3>2. Stays(v)
      BY Zenon, TaskOwn DEF PhaseInv
    <3> QED BY <1>3, <1>4, <3>1, <3>2 DEF AnyActive, Stays
  <2>2. v \in Participants /\ Stage(v) = 1
    BY Zenon, <1>3, <2>1 DEF Participants, Participates, First, Stage, Synced, Waiting
  <2>3. u # v
    <3>1. pc'[v] \in {"drain", "last"} \/ Drain(v)
      <4>1. CASE MarkObject(v) \/ MarkDeferred(v)
        BY Zenon, <2>1, <4>1 DEF MarkObject, MarkDeferred
      <4>2. CASE Drain(v)
        BY Zenon, <4>2
      <4>3. CASE \/ IterateRoots(v) \/ ProcessPending(v) \/ EndPending(v)
                 \/ ProcessDeferredMarking(v) \/ TryEnter(v) \/ Sync(v) \/ Release(v) \/ Busy(v)
        BY Zenon, <2>1, <4>3 DEF IterateRoots, ProcessPending, EndPending, ProcessDeferredMarking,
           At,
           TryEnter, Sync, SyncAt, Release, Busy
      <4>4. CASE \/ WaitForWork(v) \/ WakeUp(v) \/ BeginRound(v) \/ EndRound(v) \/ Decide(v)
                 \/ Continue(v) \/ Mourn(v)
        BY Zenon, <2>1, <4>4 DEF WaitForWork, WakeUp, BeginRound, EndRound, Decide, Continue, Mourn,
           At, Synced
      <4> QED BY Zenon, <4>1, <4>2, <4>3, <4>4 DEF Task
    <3>2. Drain(v) => pc'[v] \in {"drain", "pend", "parked", "idle"}
      BY Zenon DEF Drain, Goto, RoundInv
    <3> QED BY Zenon, <1>2, <3>1, <3>2 DEF RoundPC
  <2>4. pc[u] \in RoundPC /\ pc'[u] = pc[u] /\ more'[u] = more[u]
    BY Zenon, <1>1, <1>2, <2>3 DEF Mine
  <2>5. u \in Participants /\ Stage(u) = 1
    BY Zenon, <1>3, <2>2, <2>4 DEF RoundInv, Together, Participants, Participates, RoundPC, Synced1,
       Synced2
  <2> QED BY <1>3, <2>4, <2>5 DEF RoundPC, Stage, Synced, Waiting, Active
<1>5. CASE ~AnyActive
  <2>1. ASSUME pc[u] \in RoundPC, p \in pending[u]
        PROVE  FALSE
    <3>1. Key[p] \notin marked
      BY Zenon, <1>5, <2>1 DEF KeysDead
    <3>2. Key[p] \notin Instr
      BY Zenon, <2>1, HeapTypes DEF DataTypes, SharedTypes, OwnTypes
    <3> QED BY Zenon, <1>2, <3>1, <3>2, TaskMarksKeys
  <2>2. CASE u # v
    BY Zenon, <1>1, <1>2, <2>1, <2>2 DEF Mine
  <2>3. CASE u = v
    BY Zenon, <1>2, <2>1, <2>3, TaskPends DEF PhaseInv
  <2> QED BY Zenon, <2>2, <2>3
<1> QED BY Zenon, <1>4, <1>5

LEMMA NextKeys ==
    ASSUME SizeFacts, BarrierInv, DataTypes, RoundInv, PhaseInv, KeysDead, [Next]_vars
    PROVE  KeysDead'
<1>1. CASE Flush
  BY Zenon, <1>1, FlushPhase DEF KeysDead
<1>2. CASE MarkWhenIdle \/ \E o \in Obj : WriteBarrier(o) \/ DeferredBarrier(o)
  <2>1. flushed = 0 /\ UNCHANGED <<flushed, heap>>
    BY Zenon, <1>2 DEF MarkWhenIdle, WriteBarrier, DeferredBarrier, flush, Concurrent
  <2>2. AnyActive'
    BY <2>1, HeapSame, Sizes DEF AnyActive, BarrierInv
  <2> QED BY Zenon, <2>2 DEF KeysDead
<1>3. CASE UNCHANGED vars \/ \E v \in Visitor : SpuriousWakeup(v)
  <2>1. UNCHANGED <<heap, marked, pending, pc, more, flushed>>
    BY Zenon, <1>3 DEF vars, SpuriousWakeup, work, flush
  <2> QED BY Zenon, <2>1, HeapSame DEF KeysDead, AnyActive, Active
<1> QED BY Zenon, <1>1, <1>2, <1>3, TaskKeys DEF Next

(* When the tasks are past the last round, nothing is left to do for it.   *)
LEMMA NobodyActive ==
    ASSUME BarrierInv, RoundInv, NEW v \in Participants, Stage(v) \in {4, 5, 6}
    PROVE  /\ flushed = NumTasks /\ ~AnyActive
           /\ \A u \in Visitor : \/ u \in Participants /\ Stage(u) = Stage(v)
                                 \/ pc[u] \in {"spawned", "release", "done"} /\ gen[u] = 0
<1>1. /\ Main \in Visitor /\ Main \in Participants /\ flushed \in 0..NumTasks /\ Main = NumTasks
      /\ NumTasks \in Nat \ {0} /\ \A u \in Visitor : Place(u) /\ gen[u] \in Nat
      /\ v \in Visitor /\ Visitor = 1..NumTasks
  BY Zenon, Sizes DEF BarrierInv, Participants, Participates, Typed
<1>2. flushed > 0
  BY <1>1 DEF Place, Early, Stage, Synced, Waiting
<1>3. \A u \in Participants : Stage(u) = Stage(v)
  BY Zenon DEF RoundInv, Together
<1>4. flushed = NumTasks
  <2>1. pc[Main] # "parked"
    BY <1>1, <1>3 DEF Stage, Synced, Waiting
  <2> QED BY <1>1, <1>2, <2>1 DEF Place
<1>5. \A u \in Visitor : u \notin Participants =>
         pc[u] \in {"spawned", "release", "done"} /\ gen[u] = 0
  BY <1>1, <1>2, <1>4 DEF Participants, Participates, Place
<1>6. ASSUME NEW u \in Visitor
      PROVE  ~Active(u)
  BY <1>3, <1>5 DEF Stage, Synced, Waiting, Active, RoundInv
<1> QED BY <1>1, <1>3, <1>4, <1>5, <1>6 DEF AnyActive

LEMMA InvKeysDead ==
    ASSUME BarrierInv, RoundInv, KeysDead
    PROVE  MournedKeysDead
<1>1. ASSUME NEW v \in Visitor, pc[v] = "mourn"
      PROVE  ~AnyActive
  <2>1. flushed > 0 /\ v \in Participants /\ Stage(v) = 5
    BY <1>1, PlaceFacts DEF Place, Early, Participants, Participates, Synced1, Synced2, Stage,
       Synced, Waiting
  <2> QED BY Zenon, <2>1, NobodyActive
<1> QED BY Zenon, <1>1 DEF MournedKeysDead, KeysDead, RoundPC
=============================================================================
