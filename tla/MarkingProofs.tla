------------------------------- MODULE MarkingProofs ------------------------
(***************************************************************************)
(* What the tasks of ParallelMark have marked when they meet for the last  *)
(* time, and the theorems about ParallelMark.                              *)
(***************************************************************************)
EXTENDS MarkingPhaseProofs

(* What is known is marked or will be; what is marked is still to be       *)
(* visited or all its pointers are known.                                  *)
Held(v) == dlocal[v] \cup todo[v] \cup late[v]
Known(o) == o \in marked \cup deferred \/ \E v \in Visitor : o \in Held(v)
ToVisit(o) == o \in stack \/ \E v \in Visitor : o \in local[v]

(* The weak properties that MarkObjects holds while it flushes.            *)
Head == IF 0 < flushed /\ flushed < NumTasks THEN head ELSE {}
Listed(p) == p \in Head \/ \E v \in Visitor : p \in pending[v] \cup queue[v]

MournedBy(v) == pc[v] \in {"sync5", "wait5"} \/ (gen[v] > 0 /\ pc[v] \in {"release", "done"})
Mourned == \E v \in Visitor : MournedBy(v)

RootsKnown == \A i \in DOMAIN Roots \ slices : \A o \in Roots[i] : Known(o)
LateKnown(v) ==
    \A o \in late[v] :
       /\ \A r \in Refs[o] : Known(r)
       /\ o \in Prop => Known(Value[o]) /\ Key[o] \in todo[v] \cup marked
Black(o) == ToVisit(o) \/ \A r \in Refs[o] : Known(r)
Ephemeron(p) ==
    ToVisit(p) \/ Listed(p) \/ Mourned \/ (Key[p] \in marked /\ Known(Value[p]))

KnownInv ==
    /\ RootsKnown /\ \A v \in Visitor : LateKnown(v)
    /\ \A o \in marked : Black(o)
    /\ NumTasks <= 2 => \A p \in Prop \cap marked : Ephemeron(p)

(* What a step of v does with the objects it is given.                     *)
Seen(v, o) ==
    IF o \in Prop THEN o \in pending'[v] \/ (Key[o] \in marked /\ Value[o] \in todo'[v])
    ELSE Refs[o] \subseteq todo'[v]
Handles(v) ==
    /\ marked \cup deferred \cup Held(v) \subseteq marked' \cup deferred' \cup Held(v)'
    /\ \A o \in marked' \ marked :
          o \in stack' \cup local'[v] \/ (o \in late[v] /\ todo[v] = {})
    /\ \A o \in stack \cup local[v] : o \in stack' \cup local'[v] \/ Seen(v, o)
    /\ \A p \in pending[v] \cup queue[v] :
          \/ p \in pending'[v] \cup queue'[v] \/ pc'[v] = "sync5"
          \/ Key[p] \in marked /\ Value[p] \in todo'[v]
    /\ \A o \in late'[v] :
          \/ o \in late[v] /\ todo[v] \subseteq todo'[v] \cup marked' \cup Instr
          \/ Refs[o] \subseteq todo'[v] /\ (o \in Prop => {Key[o], Value[o]} \subseteq todo'[v])
    /\ \A i \in slices \ slices' : Roots[i] \subseteq todo'[v]

LEMMA MarkHandles ==
    ASSUME DataTypes, NEW v \in Visitor, MarkObject(v) \/ MarkDeferred(v)
    PROVE  Handles(v)
<1>1. CASE MarkDeferred(v)
  <2>1. /\ todo[v] = {} /\ marked' = marked \cup late[v] /\ late'[v] = {}
        /\ UNCHANGED <<stack, deferred, local, dlocal, pending, queue, todo, slices>>
    BY Zenon, <1>1 DEF MarkDeferred, DataTypes, OwnTypes
  <2> QED BY Zenon, <2>1 DEF Handles, Held
<1>2. CASE MarkObject(v)
  <2> DEFINE o == CHOOSE x \in todo[v] : TRUE
  <2>1. /\ o \in todo[v] /\ todo'[v] = todo[v] \ {o} /\ UNCHANGED <<pending, queue, late, slices>>
    BY Zenon, <1>2 DEF MarkObject, DataTypes, OwnTypes
  <2>2. CASE o \in marked /\ UNCHANGED <<marked, stack, deferred, dlocal, local>>
    <3> HIDE DEF o
    <3> QED BY Zenon, <2>1, <2>2 DEF Handles, Held
  <2>3. ASSUME o \in Instr, NEW published \in {{}, dlocal[v]},
               dlocal' = [dlocal EXCEPT ![v] = (@ \ published) \cup {o}],
               deferred' = deferred \cup published, UNCHANGED <<marked, stack, local>>
        PROVE  Handles(v)
    <3>1. dlocal'[v] = (dlocal[v] \ published) \cup {o} /\ published \subseteq dlocal[v]
      BY Zenon, <2>3 DEF DataTypes, OwnTypes
    <3> HIDE DEF o
    <3> QED BY Zenon, <2>1, <2>3, <3>1 DEF Handles, Held
  <2>4. ASSUME marked' = marked \cup {o}, NEW published \in {{}, local[v]},
               local' = [local EXCEPT ![v] = (@ \ published) \cup {o}],
               stack' = stack \cup published, UNCHANGED <<deferred, dlocal>>
        PROVE  Handles(v)
    <3>1. local'[v] = (local[v] \ published) \cup {o}
      BY Zenon, <2>4 DEF DataTypes, OwnTypes
    <3> HIDE DEF o
    <3> QED BY Zenon, <2>1, <2>4, <3>1 DEF Handles, Held
  <2> QED BY Zenon, <1>2, <2>2, <2>3, <2>4 DEF MarkObject
<1> QED BY Zenon, <1>1, <1>2

LEMMA DrainHandles ==
    ASSUME DataTypes, NEW v \in Visitor, Blocks(v), Drain(v)
    PROVE  Handles(v)
<1>1. /\ UNCHANGED <<marked, deferred, dlocal, late, slices>> /\ todo[v] = {} /\ late[v] = {}
      /\ queue[v] = {}
  BY Zenon DEF Drain, PopAndVisit, At, Blocks
<1>2. ASSUME NEW o \in stack \cup local[v], Visit(v, o),
             stack \cup local[v] \subseteq stack' \cup local'[v] \cup {o}, queue' = queue
      PROVE  Handles(v)
  <2>1. pending[v] \subseteq pending'[v] /\ Seen(v, o)
    BY <1>2 DEF Visit, Seen, DataTypes, SharedTypes, OwnTypes
  <2> QED BY Zenon, <1>1, <1>2, <2>1 DEF Handles, Held
<1>3. CASE PopAndVisit(v) /\ queue' = queue
  <2>1. \E o \in stack \cup local[v] :
          Visit(v, o) /\ stack \cup local[v] \subseteq stack' \cup local'[v] \cup {o}
    BY Zenon, <1>3 DEF PopAndVisit, DataTypes, OwnTypes
  <2> QED BY Zenon, <1>2, <1>3, <2>1
<1>4. CASE /\ UNCHANGED <<stack, local, todo>>
           /\ \/ UNCHANGED <<queue, pending>>
              \/ queue' = [queue EXCEPT ![v] = pending[v]]
  <2>1. pending[v] \subseteq pending'[v] \cup queue'[v]
    BY Zenon, <1>4 DEF DataTypes, OwnTypes
  <2> QED BY Zenon, <1>1, <1>4, <2>1 DEF Handles, Held
<1> QED BY Zenon, <1>3, <1>4 DEF Drain

LEMMA PendingHandles ==
    ASSUME DataTypes, NEW v \in Visitor, ProcessPending(v)
    PROVE  Handles(v)
<1>1. /\ UNCHANGED <<marked, stack, deferred, local, dlocal, late, slices>>
      /\ todo[v] = {} /\ late[v] = {}
  BY Zenon DEF ProcessPending, At
<1>2. PICK p \in queue[v] :
        /\ queue' = [queue EXCEPT ![v] = @ \ {p}]
        /\ pending' = [pending EXCEPT ![v] = @ \cup Requeued(p)]
        /\ Key[p] \in marked => todo' = [todo EXCEPT ![v] = {Key[p], Value[p]}]
  BY Zenon DEF ProcessPending
<1>3. /\ queue'[v] = queue[v] \ {p} /\ pending'[v] = pending[v] \cup Requeued(p) /\ p \in Prop
      /\ Key[p] \in marked => Value[p] \in todo'[v]
  BY Zenon, <1>2 DEF DataTypes, OwnTypes
<1>4. Key[p] \in marked \/ p \in pending'[v]
  BY Zenon, <1>3 DEF Requeued
<1> QED BY Zenon, <1>1, <1>3, <1>4 DEF Handles, Held

LEMMA RestHandles ==
    ASSUME BarrierInv, DataTypes, NEW v \in Visitor, Blocks(v),
           \/ IterateRoots(v) \/ ProcessDeferredMarking(v)
           \/ WaitForWork(v) \/ WakeUp(v) \/ BeginRound(v) \/ Mourn(v)
    PROVE  Handles(v)
<1>1. CASE IterateRoots(v)
  <2>1. /\ UNCHANGED <<marked, stack, deferred, local, dlocal, pending, queue, late>>
        /\ todo[v] = {} /\ late[v] = {}
        /\ \/ UNCHANGED <<slices, todo>>
           \/ \E s \in slices : slices' = slices \ {s} /\ todo'[v] = Roots[s]
    BY Zenon, <1>1 DEF IterateRoots, At, DataTypes, OwnTypes
  <2> QED BY Zenon, <2>1 DEF Handles, Held
<1>2. CASE ProcessDeferredMarking(v)
  <2>1. /\ UNCHANGED <<marked, stack, local, pending, queue, slices>>
        /\ todo[v] = {} /\ late[v] = {}
    BY Zenon, <1>2 DEF ProcessDeferredMarking, At
  <2>2. CASE UNCHANGED <<deferred, dlocal, todo, late>>
    BY Zenon, <2>1, <2>2 DEF Handles, Held
  <2>3. ASSUME NEW o, dlocal' = [dlocal EXCEPT ![v] = @ \ {o}],
               deferred' = IF dlocal[v] # {} THEN deferred ELSE deferred \ {o},
               late' = [late EXCEPT ![v] = {o}],
               todo' = [todo EXCEPT ![v] =
                          Refs[o] \cup (IF o \in Prop THEN {Key[o], Value[o]} ELSE {})]
        PROVE  Handles(v)
    <3>1. /\ dlocal'[v] = dlocal[v] \ {o} /\ late'[v] = {o} /\ deferred \subseteq deferred' \cup {o}
          /\ Refs[o] \subseteq todo'[v] /\ (o \in Prop => {Key[o], Value[o]} \subseteq todo'[v])
      BY Zenon, <2>3 DEF DataTypes, OwnTypes
    <3> QED BY Zenon, <2>1, <3>1 DEF Handles, Held
  <2> QED BY Zenon, <1>2, <2>2, <2>3 DEF ProcessDeferredMarking
<1>3. CASE WaitForWork(v) \/ WakeUp(v)
  <2>1. local[v] = {}
    BY Zenon, <1>3, PlaceFacts DEF WaitForWork, WakeUp, Blocks, Active, Place, Early
  <2>2. /\ UNCHANGED <<marked, deferred, dlocal, pending, queue, todo, late, slices>>
        /\ \/ UNCHANGED <<stack, local>>
           \/ \E o \in stack : stack' = stack \ {o} /\ local'[v] = {o}
    BY Zenon, <1>3 DEF WaitForWork, WakeUp, TakeOrWait, DataTypes, OwnTypes
  <2> QED BY Zenon, <2>1, <2>2 DEF Handles, Held
<1>4. CASE BeginRound(v)
  <2>1. /\ UNCHANGED <<marked, stack, deferred, local, dlocal, todo, late, slices>>
        /\ queue'[v] = pending[v] /\ queue[v] = {}
    BY Zenon, <1>4 DEF BeginRound, Synced, Blocks, DataTypes, OwnTypes
  <2> QED BY Zenon, <2>1 DEF Handles, Held
<1>5. CASE Mourn(v)
  <2>1. /\ UNCHANGED <<marked, stack, deferred, local, dlocal, queue, todo, late, slices>>
        /\ pc[v] = "mourn" /\ queue[v] = {} /\ pc' = [pc EXCEPT ![v] = "sync5"]
    BY Zenon, <1>5 DEF Mourn, Blocks, Goto
  <2>2. pc'[v] = "sync5"
    BY Zenon, <2>1 DEF BarrierInv, Typed
  <2> QED BY Zenon, <2>1, <2>2 DEF Handles, Held
<1> QED BY Zenon, <1>1, <1>2, <1>3, <1>4, <1>5

LEMMA TaskHandles ==
    ASSUME BarrierInv, DataTypes, NEW v \in Visitor, Blocks(v), Task(v)
    PROVE  Handles(v)
<1>1. CASE SameLists
  BY Zenon, <1>1 DEF SameLists, Handles, Held
<1> QED BY Zenon, <1>1, PlainSteps, MarkHandles, DrainHandles, PendingHandles, RestHandles DEF Task

LEMMA TaskFlush ==
    ASSUME NEW v \in Visitor, Task(v)
    PROVE  UNCHANGED <<head, tail, flushed, heap>>
<1>1. CASE MarkObject(v) \/ IterateRoots(v) \/ Drain(v) \/ ProcessPending(v)
  BY Zenon, <1>1 DEF MarkObject, IterateRoots, Drain, ProcessPending, flush
<1>2. CASE EndPending(v) \/ ProcessDeferredMarking(v) \/ MarkDeferred(v) \/ Mourn(v)
  BY Zenon, <1>2 DEF EndPending, ProcessDeferredMarking, MarkDeferred, Mourn, flush
<1>3. CASE TryEnter(v) \/ Sync(v) \/ Release(v) \/ Busy(v) \/ WaitForWork(v) \/ WakeUp(v)
  BY Zenon, <1>3 DEF TryEnter, Sync, Release, Busy, WaitForWork, WakeUp, flush
<1>4. CASE BeginRound(v) \/ EndRound(v) \/ Decide(v) \/ Continue(v)
  BY Zenon, <1>4 DEF BeginRound, EndRound, Decide, Continue, flush
<1> QED BY Zenon, <1>1, <1>2, <1>3, <1>4 DEF Task

LEMMA TaskMourned ==
    ASSUME BarrierInv, RoundInv, NEW v \in Visitor, Task(v)
    PROVE  /\ MournedBy(v) => MournedBy(v)'
           /\ MournedBy(v)' => MournedBy(v) \/ Mourn(v)
<1>1. CASE MarkObject(v) \/ MarkDeferred(v)
  BY Zenon, <1>1 DEF MarkObject, MarkDeferred, MournedBy, barrier
<1>2. CASE Sync(v)
  <2>1. pc[v] \in Synced2 => gen[v] > 0
    BY Zenon, PlaceFacts DEF Generation
  <2> QED BY Zenon, <1>2, <2>1, SyncComes DEF Comes, MournedBy
<1>3. CASE TryEnter(v) \/ Release(v) \/ Continue(v) \/ Mourn(v)
  <2>1. /\ gen' = gen /\ Place(v) /\ Generation(v) /\ pc \in [Visitor -> PC]
    BY Zenon, <1>3, PlaceFacts DEF TryEnter, Release, Continue, Mourn, barrier, RoundInv
  <2>2. \/ pc[v] = "spawned" /\ pc'[v] \in {"busy", "release"}
        \/ pc[v] = "release" /\ pc'[v] = "done"
        \/ pc[v] = "wait5" /\ pc'[v] = "release"
        \/ pc[v] \in {"wait3", "wait4"} /\ pc'[v] \in {"drain", "phase2", "mourn"}
        \/ pc[v] = "mourn" /\ Mourn(v)
    BY Zenon, <1>3, <2>1 DEF TryEnter, Release, Continue, Mourn, Goto, Synced
  <2> QED BY <2>1, <2>2 DEF MournedBy, Place, Early, Generation, Synced2
<1>4. CASE \/ IterateRoots(v) \/ Drain(v) \/ ProcessPending(v) \/ EndPending(v)
           \/ ProcessDeferredMarking(v)
  <2>1. /\ pc[v] \in {"croots", "roots", "drain", "last", "pend", "round", "defer", "phase2"}
        /\ pc'[v] \in {pc[v], "defer", "parked", "drain", "pend", "idle", "last", "sync4"}
    BY Zenon, <1>4 DEF IterateRoots, Drain, ProcessPending, EndPending, ProcessDeferredMarking,
       Goto, At,
       RoundInv
  <2> QED BY Zenon, <2>1 DEF MournedBy
<1>5. CASE Busy(v) \/ WaitForWork(v) \/ WakeUp(v) \/ BeginRound(v) \/ EndRound(v) \/ Decide(v)
  <2>1. /\ pc[v] \in {"busy", "idle", "asleep", "wait1", "round", "wait2"}
        /\ pc'[v] \in {"roots", "drain", "asleep", "sync1", "round", "sync2", "sync3"}
    BY Zenon, <1>5 DEF Busy, WaitForWork, WakeUp, TakeOrWait, BeginRound, EndRound, Decide, Goto,
       At,
       Synced, RoundInv
  <2> QED BY Zenon, <2>1 DEF MournedBy
<1> QED BY Zenon, <1>1, <1>2, <1>3, <1>4, <1>5 DEF Task

LEMMA StillKnown ==
    ASSUME NEW v \in Visitor, Mine(v), Handles(v), NEW o, Known(o)
    PROVE  Known(o)'
<1>1. Visitor' = Visitor /\ \A u \in Visitor : u # v => Held(u)' = Held(u)
  BY Zenon, HeapSame DEF Mine, Held
<1>2. CASE o \in marked \cup deferred \cup Held(v)
  BY Zenon, <1>1, <1>2 DEF Handles, Known
<1>3. CASE \E u \in Visitor : u # v /\ o \in Held(u)
  BY Zenon, <1>1, <1>3 DEF Known
<1> QED BY Zenon, <1>2, <1>3 DEF Known

LEMMA TodoKnown ==
    ASSUME NEW v \in Visitor, heap' = heap, NEW o \in todo'[v]
    PROVE  Known(o)'
  BY Zenon, HeapSame DEF Known, Held

LEMMA StillToVisit ==
    ASSUME NEW v \in Visitor, Mine(v), Handles(v), NEW o, ToVisit(o)
    PROVE  ToVisit(o)' \/ Seen(v, o)
<1>1. Visitor' = Visitor /\ \A u \in Visitor : u # v => local'[u] = local[u]
  BY Zenon, HeapSame DEF Mine
<1>2. CASE o \in stack \cup local[v]
  BY Zenon, <1>1, <1>2 DEF Handles, ToVisit
<1>3. CASE \E u \in Visitor : u # v /\ o \in local[u]
  BY Zenon, <1>1, <1>3 DEF ToVisit
<1> QED BY Zenon, <1>2, <1>3 DEF ToVisit

(* An object that v marks.                                                 *)
LEMMA NewlyMarked ==
    ASSUME NEW v \in Visitor, Mine(v), Handles(v), LateKnown(v), NEW o \in marked' \ marked
    PROVE  \/ ToVisit(o)'
           \/ /\ \A r \in Refs[o] : Known(r)
              /\ o \in Prop => Known(Value[o]) /\ Key[o] \in marked
  BY Zenon, HeapSame DEF Mine, Handles, LateKnown, ToVisit

LEMMA TaskRootsLate ==
    ASSUME DataTypes, KnownInv, NEW v \in Visitor, Mine(v), Handles(v)
    PROVE  RootsKnown' /\ \A u \in Visitor : LateKnown(u)'
<1>1. /\ heap' = heap /\ Roots' = Roots /\ Refs' = Refs /\ Prop' = Prop /\ Key' = Key
      /\ Value' = Value /\ marked \subseteq marked'
  BY Zenon, HeapSame DEF Mine
<1>2. \A o : Known(o) => Known(o)'
  BY Zenon, StillKnown
<1>3. \A o \in todo'[v] : Known(o)'
  BY Zenon, <1>1, TodoKnown
<1>4. RootsKnown'
  <2>1. \A i \in slices \ slices' : Roots[i] \subseteq todo'[v]
    BY Zenon DEF Handles
  <2>2. \A i \in DOMAIN Roots \ slices : \A o \in Roots[i] : Known(o)
    BY Zenon DEF KnownInv, RootsKnown
  <2> QED BY Zenon, <1>1, <1>2, <1>3, <2>1, <2>2 DEF RootsKnown
<1>5. ASSUME NEW u \in Visitor, u # v
      PROVE  LateKnown(u)'
  <2>1. late'[u] = late[u] /\ todo'[u] = todo[u] /\ LateKnown(u)
    BY Zenon, <1>5 DEF Mine, KnownInv
  <2> QED BY Zenon, <1>1, <1>2, <2>1 DEF LateKnown
<1>6. LateKnown(v)'
  <2>1. SUFFICES ASSUME NEW o \in late'[v]
                 PROVE  /\ \A r \in Refs[o] : Known(r)'
                        /\ o \in Prop => Known(Value[o])' /\ Key[o] \in todo'[v] \cup marked'
    BY Zenon, <1>1 DEF LateKnown
  <2>2. CASE o \in late[v] /\ todo[v] \subseteq todo'[v] \cup marked' \cup Instr
    <3>1. /\ \A r \in Refs[o] : Known(r)
          /\ o \in Prop => Known(Value[o]) /\ Key[o] \in todo[v] \cup marked
      BY Zenon, <2>2 DEF KnownInv, LateKnown
    <3>2. o \in Prop => Key[o] \notin Instr
      BY Zenon, HeapTypes DEF DataTypes, SharedTypes
    <3> QED BY Zenon, <1>1, <1>2, <2>2, <3>1, <3>2
  <2>3. CASE Refs[o] \subseteq todo'[v] /\ (o \in Prop => {Key[o], Value[o]} \subseteq todo'[v])
    <3>1. \A r \in Refs[o] : Known(r)'
      BY Zenon, <1>3, <2>3
    <3>2. o \in Prop => Value[o] \in todo'[v] /\ Key[o] \in todo'[v]
      BY Zenon, <2>3
    <3> QED BY Zenon, <1>1, <1>3, <3>1, <3>2
  <2> QED BY Zenon, <2>2, <2>3 DEF Handles
<1> QED BY Zenon, <1>4, <1>5, <1>6

LEMMA TaskBlack ==
    ASSUME DataTypes, KnownInv, NEW v \in Visitor, Mine(v), Handles(v), NEW o \in marked'
    PROVE  Black(o)'
<1>1. heap' = heap /\ Refs' = Refs
  BY Zenon, HeapSame DEF Mine
<1>2. \A r : Known(r) => Known(r)'
  BY Zenon, StillKnown
<1>3. CASE \A r \in Refs[o] : Known(r)
  BY Zenon, <1>1, <1>2, <1>3 DEF Black
<1>4. CASE ToVisit(o)'
  BY Zenon, <1>4 DEF Black
<1>5. CASE o \in marked /\ Seen(v, o)
  <2>1. o \in Prop => Refs[o] = {}
    BY Zenon, HeapTypes DEF DataTypes, SharedTypes
  <2>2. \A r \in todo'[v] : Known(r)'
    BY Zenon, <1>1, TodoKnown
  <2> QED BY Zenon, <1>1, <1>5, <2>1, <2>2 DEF Black, Seen
<1>6. CASE o \in marked
  BY Zenon, <1>3, <1>4, <1>5, <1>6, StillToVisit DEF KnownInv, Black
<1>7. CASE o \notin marked
  BY Zenon, <1>3, <1>4, <1>7, NewlyMarked DEF KnownInv
<1> QED BY Zenon, <1>6, <1>7

LEMMA TaskEphemeron ==
    ASSUME BarrierInv, RoundInv, DataTypes, KnownInv, NumTasks <= 2,
           NEW v \in Visitor, Task(v), Mine(v), Handles(v),
           NEW p \in Prop \cap marked'
    PROVE  Ephemeron(p)'
<1>1. /\ heap' = heap /\ Key' = Key /\ Value' = Value /\ Visitor' = Visitor
      /\ marked \subseteq marked' /\ NumTasks' = NumTasks
  BY Zenon, HeapSame DEF Mine
<1>2. \A o : Known(o) => Known(o)'
  BY Zenon, StillKnown
<1>3. \A o \in todo'[v] : Known(o)'
  BY Zenon, <1>1, TodoKnown
<1>4. CASE Key[p] \in marked /\ (Known(Value[p]) \/ Value[p] \in todo'[v])
  BY Zenon, <1>1, <1>2, <1>3, <1>4 DEF Ephemeron
<1>5. CASE ToVisit(p)'
  BY Zenon, <1>5 DEF Ephemeron
<1>6. CASE Mourned
  <2>1. Mourned'
    <3>1. PICK u \in Visitor : MournedBy(u)
      BY Zenon, <1>6 DEF Mourned
    <3>2. u # v => pc'[u] = pc[u] /\ gen'[u] = gen[u]
      BY Zenon DEF Mine
    <3>3. MournedBy(u)'
      BY Zenon, <3>1, <3>2, TaskMourned DEF MournedBy
    <3> QED BY Zenon, <1>1, <3>3 DEF Mourned
  <2> QED BY Zenon, <2>1 DEF Ephemeron
<1>7. CASE p \in pending'[v] \cup queue'[v] \/ pc'[v] = "sync5"
  BY Zenon, <1>1, <1>7 DEF Ephemeron, Listed, Mourned, MournedBy
<1>8. CASE Listed(p)
  <2>1. CASE p \in Head
    BY Zenon, <1>1, <2>1, TaskFlush DEF Head, Listed, Ephemeron
  <2>2. CASE p \in pending[v] \cup queue[v]
    BY Zenon, <1>4, <1>7, <2>2 DEF Handles
  <2>3. CASE \E u \in Visitor : u # v /\ p \in pending[u] \cup queue[u]
    BY Zenon, <1>1, <2>3 DEF Mine, Listed, Ephemeron
  <2> QED BY Zenon, <1>8, <2>1, <2>2, <2>3 DEF Listed
<1>9. CASE p \in marked
  <2>1. Ephemeron(p)
    BY Zenon, <1>9 DEF KnownInv
  <2>2. Seen(v, p) => p \in pending'[v] \/ (Key[p] \in marked /\ Value[p] \in todo'[v])
    BY Zenon DEF Seen
  <2> QED BY Zenon, <1>4, <1>5, <1>6, <1>7, <1>8, <2>1, <2>2, StillToVisit DEF Ephemeron
<1>10. CASE p \notin marked
  BY Zenon, <1>4, <1>5, <1>10, NewlyMarked DEF KnownInv
<1> QED BY Zenon, <1>9, <1>10

LEMMA TaskKnows ==
    ASSUME SizeFacts, BarrierInv, RoundInv, DataTypes, PhaseInv, KnownInv,
           NEW v \in Visitor, Task(v)
    PROVE  KnownInv'
<1>1. Mine(v) /\ Handles(v) /\ Visitor' = Visitor /\ NumTasks' = NumTasks /\ Prop' = Prop
  BY Zenon, TaskMine, TaskHandles, HeapSame DEF Mine, PhaseInv
<1> QED BY Zenon, <1>1, TaskRootsLate, TaskBlack, TaskEphemeron DEF KnownInv

(* With one visitor flushed, MarkObjects' list has its tail, unless it is  *)
(* empty.                                                                  *)
HeadInv ==
    /\ flushed = 0 => head = {}
    /\ flushed = 1 /\ head # {} => tail = TRUE

LEMMA FlushMourned ==
    ASSUME BarrierInv, RoundInv, DataTypes, Flush
    PROVE  \A u \in Visitor : MournedBy(u)' <=> MournedBy(u)
<1>1. LET v == flushed + 1 IN
      /\ pc[v] = "parked" /\ pc'[v] \in {"busy", "spawned"} /\ gen' = gen
      /\ \A u \in Visitor : u # v => pc'[u] = pc[u]
  BY Zenon, FlushFacts
<1> QED BY Zenon, <1>1 DEF MournedBy

LEMMA FlushListed ==
    ASSUME BarrierInv, RoundInv, DataTypes, HeadInv, NumTasks <= 2, Flush, NEW p, Listed(p)
    PROVE  Listed(p)'
<1> DEFINE v == flushed + 1
<1>1. /\ v \in Visitor /\ flushed' = v /\ heap' = heap /\ queue' = queue
      /\ flushed \in Nat /\ NumTasks \in Nat /\ Visitor = 1..NumTasks
      /\ \A u \in Visitor : u # v => pending'[u] = pending[u]
  BY Zenon, FlushFacts
<1>2. Visitor' = Visitor /\ NumTasks' = NumTasks /\ Main = NumTasks
  BY Zenon, <1>1, HeapSame DEF Main
<1>3. /\ head' = IF head = {} \/ tail THEN head \cup pending[v] ELSE head
      /\ v = Main => pending'[v] = head'
  BY Zenon, <1>1 DEF Flush, FlushWeakProperties, Flushed, DataTypes, OwnTypes
<1>4. flushed = 0 \/ flushed = 1
  BY <1>1
<1>5. head' = head \cup pending[v]
  BY Zenon, <1>3, <1>4 DEF HeadInv
<1>6. CASE p \in head \cup pending[v]
  <2>1. p \in head'
    BY Zenon, <1>5, <1>6
  <2>2. CASE v = Main
    BY Zenon, <1>1, <1>2, <1>3, <2>1, <2>2 DEF Listed
  <2>3. CASE v # Main
    BY <1>1, <1>2, <2>1, <2>3 DEF Listed, Head
  <2> QED BY Zenon, <2>2, <2>3
<1>7. CASE \E u \in Visitor : p \in queue[u] \/ (u # v /\ p \in pending[u])
  BY Zenon, <1>1, <1>2, <1>7 DEF Listed
<1> QED BY Zenon, <1>6, <1>7 DEF Listed, Head

LEMMA FlushKnows ==
    ASSUME BarrierInv, RoundInv, DataTypes, HeadInv, KnownInv, Flush
    PROVE  KnownInv'
<1> DEFINE v == flushed + 1
<1>1. /\ v \in Visitor /\ heap' = heap /\ UNCHANGED <<marked, todo, late>>
      /\ stack' = stack \cup local[v] /\ deferred' = deferred \cup dlocal[v]
      /\ \A u \in Visitor : u # v => local'[u] = local[u] /\ dlocal'[u] = dlocal[u]
  BY Zenon, FlushFacts
<1>2. /\ Visitor' = Visitor /\ Roots' = Roots /\ Refs' = Refs /\ Prop' = Prop /\ Key' = Key
      /\ Value' = Value /\ NumTasks' = NumTasks
  BY Zenon, <1>1, HeapSame
<1> HIDE DEF v
<1>3. ASSUME NEW o, Known(o)
      PROVE  Known(o)'
  BY Zenon, <1>1, <1>2, <1>3 DEF Known, Held
<1>4. ASSUME NEW o, ToVisit(o)
      PROVE  ToVisit(o)'
  BY Zenon, <1>1, <1>2, <1>4 DEF ToVisit
<1>5. RootsKnown'
  <2>1. slices' = DOMAIN Roots \/ slices' = slices
    BY Zenon DEF Flush
  <2> QED BY Zenon, <1>2, <1>3, <2>1 DEF KnownInv, RootsKnown
<1>6. \A u \in Visitor : LateKnown(u)'
  BY Zenon, <1>1, <1>2, <1>3 DEF KnownInv, LateKnown
<1>7. \A o \in marked : Black(o)'
  BY Zenon, <1>2, <1>3, <1>4 DEF KnownInv, Black
<1>8. ASSUME NumTasks <= 2, NEW p \in Prop \cap marked
      PROVE  Ephemeron(p)'
  <2>1. Mourned => Mourned'
    BY Zenon, <1>2, FlushMourned DEF Mourned
  <2>2. Listed(p) => Listed(p)'
    BY Zenon, <1>8, FlushListed
  <2>3. Ephemeron(p)
    BY Zenon, <1>8 DEF KnownInv
  <2> QED BY Zenon, <1>1, <1>2, <1>3, <1>4, <2>1, <2>2, <2>3 DEF Ephemeron
<1> QED BY Zenon, <1>1, <1>2, <1>5, <1>6, <1>7, <1>8 DEF KnownInv

LEMMA OtherKnows ==
    ASSUME BarrierInv, RoundInv, DataTypes, KnownInv,
           \/ MarkWhenIdle \/ UNCHANGED vars
           \/ \E v \in Visitor : SpuriousWakeup(v)
           \/ \E o \in Obj : WriteBarrier(o) \/ DeferredBarrier(o)
    PROVE  KnownInv' /\ \A u \in Visitor : MournedBy(u)' <=> MournedBy(u)
<1>1. /\ UNCHANGED <<heap, local, dlocal, pending, queue, todo, late, slices, head, flushed, gen>>
      /\ marked \subseteq marked' /\ deferred \subseteq deferred' /\ stack \subseteq stack'
      /\ marked' \ marked \subseteq stack'
  <2>1. CASE MarkWhenIdle \/ UNCHANGED vars \/ \E v \in Visitor : SpuriousWakeup(v)
    BY Zenon, <2>1 DEF MarkWhenIdle, vars, SpuriousWakeup, work, flush, barrier
  <2>2. CASE \E o \in Obj : WriteBarrier(o) \/ DeferredBarrier(o)
    BY Zenon, <2>2 DEF WriteBarrier, DeferredBarrier, flush, barrier
  <2> QED BY Zenon, <2>1, <2>2
<1>2. /\ Visitor' = Visitor /\ Roots' = Roots /\ Refs' = Refs /\ Prop' = Prop /\ Key' = Key
      /\ Value' = Value /\ NumTasks' = NumTasks /\ Main \in Visitor
  BY Zenon, <1>1, HeapSame, Sizes DEF BarrierInv
<1>3. \A u \in Visitor : MournedBy(u)' <=> MournedBy(u)
  <2>1. CASE pc' = pc
    BY Zenon, <1>1, <2>1 DEF MournedBy
  <2>2. CASE MarkWhenIdle
    <3>1. /\ pc[Main] \in {"parked", "drain"} /\ pc'[Main] \in {"parked", "drain"}
          /\ \A u \in Visitor : u # Main => pc'[u] = pc[u]
      BY Zenon, <1>2, <2>2 DEF MarkWhenIdle, At, Goto, RoundInv
    <3> QED BY Zenon, <1>1, <3>1 DEF MournedBy
  <2>3. CASE \/ UNCHANGED vars \/ \E v \in Visitor : SpuriousWakeup(v)
             \/ \E o \in Obj : WriteBarrier(o) \/ DeferredBarrier(o)
    BY Zenon, <2>1, <2>3 DEF vars, SpuriousWakeup, WriteBarrier, DeferredBarrier
  <2> QED BY Zenon, <2>2, <2>3
<1>4. ASSUME NEW o, Known(o)
      PROVE  Known(o)'
  BY Zenon, <1>1, <1>2, <1>4 DEF Known, Held
<1>5. ASSUME NEW o, ToVisit(o) \/ o \in stack'
      PROVE  ToVisit(o)'
  BY Zenon, <1>1, <1>2, <1>5 DEF ToVisit
<1>6. RootsKnown' /\ \A u \in Visitor : LateKnown(u)'
  BY Zenon, <1>1, <1>2, <1>4 DEF KnownInv, RootsKnown, LateKnown
<1>7. \A o \in marked' : Black(o)'
  BY Zenon, <1>1, <1>2, <1>4, <1>5 DEF KnownInv, Black
<1>8. ASSUME NumTasks <= 2, NEW p \in Prop \cap marked'
      PROVE  Ephemeron(p)'
  <2>1. Mourned => Mourned'
    BY Zenon, <1>2, <1>3 DEF Mourned
  <2>2. Listed(p) => Listed(p)'
    BY Zenon, <1>1, <1>2 DEF Listed, Head
  <2>3. Ephemeron(p) \/ p \in stack'
    BY Zenon, <1>1, <1>8 DEF KnownInv
  <2> QED BY Zenon, <1>1, <1>2, <1>4, <1>5, <2>1, <2>2, <2>3 DEF Ephemeron
<1> QED BY Zenon, <1>2, <1>3, <1>6, <1>7, <1>8 DEF KnownInv

LEMMA InitKnown ==
    ASSUME Init
    PROVE  KnownInv /\ HeadInv
  BY Zenon DEF Init, KnownInv, RootsKnown, LateKnown, HeadInv

LEMMA NextKnown ==
    ASSUME SizeFacts, BarrierInv, RoundInv, DataTypes, PhaseInv, HeadInv, KnownInv, [Next]_vars
    PROVE  KnownInv' /\ HeadInv'
<1>1. KnownInv'
  BY Zenon, TaskKnows, FlushKnows, OtherKnows DEF Next
<1>2. CASE UNCHANGED <<head, tail, flushed>>
  BY Zenon, <1>1, <1>2 DEF HeadInv
<1>3. CASE Flush
  <2>1. flushed \in Nat /\ flushed' = flushed + 1
    BY <1>3 DEF Flush, BarrierInv, Typed
  <2>2. /\ head' = IF head = {} \/ tail THEN head \cup pending[flushed + 1] ELSE head
        /\ tail' = (pending[flushed + 1] # {} /\ (head = {} \/ tail))
    BY Zenon, <1>3 DEF Flush, FlushWeakProperties, Flushed
  <2>3. flushed' # 0 /\ (flushed' = 1 => head' = pending[flushed + 1])
    <3>1. head = {} => head' = head \cup pending[flushed + 1]
      BY Zenon, <2>2
    <3> QED BY <2>1, <3>1 DEF HeadInv
  <2>4. flushed' = 1 /\ pending[flushed + 1] # {} => tail' = TRUE
    <3>1. flushed' = 1 => head = {}
      BY <2>1 DEF HeadInv
    <3> QED BY Zenon, <2>2, <3>1
  <2> QED BY Zenon, <1>1, <2>3, <2>4 DEF HeadInv
<1>4. CASE \E v \in Visitor : Task(v)
  BY Zenon, <1>2, <1>4, TaskFlush
<1>5. CASE \/ MarkWhenIdle \/ UNCHANGED vars
           \/ \E v \in Visitor : SpuriousWakeup(v)
           \/ \E o \in Obj : WriteBarrier(o) \/ DeferredBarrier(o)
  BY Zenon, <1>2, <1>5 DEF MarkWhenIdle, vars, SpuriousWakeup, WriteBarrier, DeferredBarrier, flush
<1> QED BY Zenon, <1>1, <1>3, <1>4, <1>5 DEF Next

-----------------------------------------------------------------------------
(* An object has one next_ pointer and is in one list at most; the lists   *)
(* of tasks that have mourned, or never take part, are empty.              *)
Own(v) == local[v] \cup pending[v] \cup queue[v]
Apart(v) ==
    /\ stack \cap Own(v) = {} /\ local[v] \cap pending[v] = {}
    /\ local[v] \cap queue[v] = {} /\ pending[v] \cap queue[v] = {}
Gone == {"spawned", "sync5", "wait5", "release", "done"}

ListInv ==
    /\ stack \cap Head = {}
    /\ \A v \in Visitor :
          /\ Apart(v) /\ Head \cap Own(v) = {}
          /\ pc[v] \in Gone => pending[v] = {}
    /\ \A u, v \in Visitor : u # v => Own(u) \cap Own(v) = {}

Moves(v) ==
    /\ stack' \cup Own(v)' \subseteq stack \cup Own(v) \cup (marked' \ marked)
    /\ Apart(v)'

LEMMA MarkMoves ==
    ASSUME DataTypes, NEW v \in Visitor, Apart(v), MarkObject(v)
    PROVE  Moves(v)
<1> DEFINE o == CHOOSE x \in todo[v] : TRUE
<1>1. UNCHANGED <<pending, queue>>
  BY Zenon DEF MarkObject
<1>2. CASE UNCHANGED <<stack, local>>
  BY Zenon, <1>1, <1>2 DEF Moves, Apart, Own
<1>3. ASSUME marked' = marked \cup {o}, o \notin marked, NEW published \in {{}, local[v]},
             local' = [local EXCEPT ![v] = (@ \ published) \cup {o}],
             stack' = stack \cup published
      PROVE  Moves(v)
  <2>1. local'[v] = (local[v] \ published) \cup {o}
    BY Zenon, <1>3 DEF DataTypes, OwnTypes
  <2>2. stack \subseteq marked /\ Own(v) \subseteq marked
    BY Zenon DEF DataTypes, SharedTypes, OwnTypes, Own
  <2> HIDE DEF o
  <2> QED BY <1>1, <1>3, <2>1, <2>2 DEF Moves, Apart, Own
<1> QED BY Zenon, <1>2, <1>3 DEF MarkObject

LEMMA DrainMoves ==
    ASSUME DataTypes, NEW v \in Visitor, Apart(v), Blocks(v), Drain(v)
    PROVE  Moves(v)
<1>1. ASSUME NEW o \in stack \cup local[v], Visit(v, o), queue' = queue,
             stack' \subseteq stack \ {o}, local'[v] \subseteq local[v] \ {o}
      PROVE  Moves(v)
  <2>1. pending'[v] \subseteq pending[v] \cup {o}
    BY Zenon, <1>1 DEF Visit, DataTypes, OwnTypes
  <2> QED BY Zenon, <1>1, <2>1 DEF Moves, Apart, Own
<1>2. CASE PopAndVisit(v) /\ queue' = queue
  <2>1. \E o \in stack \cup local[v] :
          /\ Visit(v, o) /\ stack' \subseteq stack \ {o} /\ local'[v] \subseteq local[v] \ {o}
    <3>1. stack \cap local[v] = {}
      BY Zenon DEF Apart, Own
    <3>2. ASSUME NEW o \in local[v], local' = [local EXCEPT ![v] = @ \ {o}], stack' = stack
          PROVE  stack' \subseteq stack \ {o} /\ local'[v] \subseteq local[v] \ {o}
      BY Zenon, <3>1, <3>2 DEF DataTypes, OwnTypes
    <3>3. ASSUME NEW o \in stack, stack' = stack \ {o}, local' = local
          PROVE  stack' \subseteq stack \ {o} /\ local'[v] \subseteq local[v] \ {o}
      BY Zenon, <3>1, <3>3
    <3> QED BY Zenon, <1>2, <3>2, <3>3 DEF PopAndVisit
  <2> QED BY Zenon, <1>1, <1>2, <2>1
<1>3. CASE UNCHANGED <<stack, local, queue, pending>>
  BY Zenon, <1>3 DEF Moves, Apart, Own
<1>4. CASE /\ UNCHANGED <<stack, local>>
           /\ queue' = [queue EXCEPT ![v] = pending[v]]
           /\ pending' = [pending EXCEPT ![v] = {}]
  <2>1. queue'[v] = pending[v] /\ pending'[v] = {}
    BY Zenon, <1>4 DEF DataTypes, OwnTypes
  <2> QED BY Zenon, <1>4, <2>1 DEF Moves, Apart, Own
<1> QED BY Zenon, <1>2, <1>3, <1>4 DEF Drain

LEMMA RestMoves ==
    ASSUME BarrierInv, DataTypes, NEW v \in Visitor, Apart(v), Blocks(v),
           \/ ProcessPending(v) \/ WaitForWork(v) \/ WakeUp(v) \/ BeginRound(v) \/ Mourn(v)
    PROVE  Moves(v)
<1>1. CASE ProcessPending(v)
  <2>1. UNCHANGED <<stack, local>>
    BY Zenon, <1>1 DEF ProcessPending
  <2>2. PICK p \in queue[v] : /\ queue' = [queue EXCEPT ![v] = @ \ {p}]
                              /\ pending' = [pending EXCEPT ![v] = @ \cup Requeued(p)]
    BY Zenon, <1>1 DEF ProcessPending
  <2>3. queue'[v] = queue[v] \ {p} /\ pending'[v] \subseteq pending[v] \cup {p}
    BY Zenon, <2>2 DEF DataTypes, OwnTypes, Requeued
  <2> QED BY Zenon, <2>1, <2>3 DEF Moves, Apart, Own
<1>2. CASE WaitForWork(v) \/ WakeUp(v)
  <2>1. /\ UNCHANGED <<pending, queue>>
        /\ \/ UNCHANGED <<stack, local>>
           \/ \E o \in stack : stack' = stack \ {o} /\ local'[v] = {o}
    BY Zenon, <1>2 DEF WaitForWork, WakeUp, TakeOrWait, DataTypes, OwnTypes
  <2> QED BY Zenon, <2>1 DEF Moves, Apart, Own
<1>3. CASE BeginRound(v) \/ Mourn(v)
  <2>1. /\ UNCHANGED <<stack, local>> /\ pending'[v] = {}
        /\ queue'[v] = pending[v] \/ queue' = queue
    BY Zenon, <1>3 DEF BeginRound, Mourn, DataTypes, OwnTypes
  <2> QED BY Zenon, <2>1 DEF Moves, Apart, Own
<1> QED BY Zenon, <1>1, <1>2, <1>3

LEMMA TaskMoved ==
    ASSUME BarrierInv, DataTypes, NEW v \in Visitor, Apart(v), Blocks(v), Task(v)
    PROVE  Moves(v)
<1>1. CASE UNCHANGED <<stack, local, pending, queue>>
  BY Zenon, <1>1 DEF Moves, Apart, Own
<1>2. CASE IterateRoots(v) \/ ProcessDeferredMarking(v) \/ MarkDeferred(v)
  BY Zenon, <1>1, <1>2 DEF IterateRoots, ProcessDeferredMarking, MarkDeferred
<1> QED BY Zenon, <1>1, <1>2, PlainSteps, MarkMoves, DrainMoves, RestMoves DEF Task, SameLists

LEMMA TaskGone ==
    ASSUME DataTypes, RoundInv, NEW v \in Visitor, Task(v), pc'[v] \in Gone
    PROVE  pending'[v] = {} \/ (pc[v] \in Gone /\ pending'[v] = pending[v])
<1>1. CASE \/ EndPending(v) \/ TryEnter(v) \/ Sync(v) \/ Release(v) \/ Busy(v)
           \/ EndRound(v) \/ Decide(v) \/ Continue(v)
  <2>1. pending' = pending
    BY Zenon, <1>1, PlainSteps DEF SameLists
  <2>2. CASE EndPending(v) \/ TryEnter(v) \/ Release(v) \/ Busy(v)
    BY Zenon, <2>1, <2>2 DEF EndPending, TryEnter, Release, Busy, Goto, Gone, RoundInv
  <2>3. CASE EndRound(v) \/ Decide(v) \/ Continue(v)
    BY Zenon, <2>1, <2>3 DEF EndRound, Decide, Continue, Goto, Synced, Gone, RoundInv
  <2>4. CASE Sync(v)
    BY Zenon, <2>1, <2>4, SyncComes DEF Comes, Gone
  <2> QED BY Zenon, <1>1, <2>2, <2>3, <2>4
<1>2. CASE MarkObject(v) \/ MarkDeferred(v)
  BY Zenon, <1>2 DEF MarkObject, MarkDeferred
<1>3. CASE IterateRoots(v) \/ ProcessDeferredMarking(v) \/ Drain(v) \/ ProcessPending(v)
  <2>1. /\ pc[v] \in {"croots", "roots", "drain", "last", "pend", "round", "defer", "phase2"}
        /\ pc'[v] \in {pc[v], "defer", "parked", "drain", "pend", "idle", "sync4"}
    BY Zenon, <1>3 DEF IterateRoots, Drain, ProcessPending, ProcessDeferredMarking, Goto, At,
       RoundInv
  <2> QED BY Zenon, <2>1 DEF Gone
<1>4. CASE WaitForWork(v) \/ WakeUp(v)
  BY Zenon, <1>4 DEF WaitForWork, WakeUp, TakeOrWait, Goto, Gone, RoundInv
<1>5. CASE BeginRound(v) \/ Mourn(v)
  BY Zenon, <1>5 DEF BeginRound, Mourn, DataTypes, OwnTypes
<1> QED BY Zenon, <1>1, <1>2, <1>3, <1>4, <1>5 DEF Task

LEMMA TaskLists ==
    ASSUME SizeFacts, BarrierInv, RoundInv, DataTypes, PhaseInv, ListInv,
           NEW v \in Visitor, Task(v)
    PROVE  ListInv'
<1>1. /\ Mine(v) /\ Moves(v) /\ Visitor' = Visitor /\ Head' = Head
  BY Zenon, TaskMine, TaskMoved, TaskFlush, HeapSame DEF Mine, PhaseInv, ListInv, Head
<1>2. /\ stack \subseteq marked /\ Head \subseteq marked
      /\ \A u \in Visitor : Own(u) \subseteq marked
  BY Zenon DEF DataTypes, SharedTypes, OwnTypes, Head, Own
<1>3. \A u \in Visitor : u # v => Own(u)' = Own(u) /\ local'[u] = local[u]
         /\ pending'[u] = pending[u] /\ queue'[u] = queue[u] /\ pc'[u] = pc[u]
  BY Zenon, <1>1 DEF Mine, Own
<1>4. stack' \cup Own(v)' \subseteq stack \cup Own(v) \cup (marked' \ marked)
  BY Zenon, <1>1 DEF Moves
<1>5. stack' \cap Head' = {} /\ Head' \cap Own(v)' = {}
  BY Zenon, <1>1, <1>2, <1>4 DEF ListInv
<1>6. ASSUME NEW u \in Visitor, u # v
      PROVE  stack' \cap Own(u) = {} /\ Own(v)' \cap Own(u) = {}
  BY Zenon, <1>2, <1>4, <1>6 DEF ListInv, Apart
<1>7. ASSUME NEW u \in Visitor
      PROVE  /\ Apart(u)' /\ Head' \cap Own(u)' = {}
             /\ pc'[u] \in Gone => pending'[u] = {}
  <2>1. CASE u = v
    BY Zenon, <1>1, <1>5, <2>1, TaskGone DEF Moves, ListInv
  <2>2. CASE u # v
    BY Zenon, <1>1, <1>3, <1>6, <2>2 DEF ListInv, Apart
  <2> QED BY Zenon, <2>1, <2>2
<1>8. ASSUME NEW u \in Visitor, NEW w \in Visitor, u # w
      PROVE  Own(u)' \cap Own(w)' = {}
  <2>1. CASE u = v
    BY Zenon, <1>3, <1>6, <1>8, <2>1
  <2>2. CASE w = v
    BY Zenon, <1>3, <1>6, <1>8, <2>2
  <2>3. CASE u # v /\ w # v
    BY Zenon, <1>3, <1>8, <2>3 DEF ListInv
  <2> QED BY Zenon, <2>1, <2>2, <2>3
<1> QED BY Zenon, <1>1, <1>5, <1>7, <1>8 DEF ListInv

LEMMA FlushLists ==
    ASSUME BarrierInv, RoundInv, DataTypes, PhaseInv, HeadInv, ListInv, Flush
    PROVE  ListInv'
<1>1. PICK v \in Visitor :
      /\ v = flushed + 1 /\ pc[v] = "parked" /\ flushed' = v /\ flushed < NumTasks
      /\ heap' = heap /\ flushed \in Nat /\ NumTasks \in Nat /\ queue' = queue
      /\ stack' = stack \cup local[v] /\ local'[v] = {}
      /\ pc'[v] = IF v = Main THEN "busy" ELSE "spawned"
      /\ \A u \in Visitor : u # v => /\ local'[u] = local[u] /\ pending'[u] = pending[u]
                                     /\ pc'[u] = pc[u]
  BY Zenon, FlushFacts
<1>2. Visitor' = Visitor /\ NumTasks' = NumTasks /\ Main = NumTasks
  BY Zenon, <1>1, HeapSame DEF Main
<1>3. head' \subseteq head \cup pending[v] /\ pending'[v] = IF v = Main THEN head' ELSE {}
  BY Zenon, <1>1 DEF Flush, FlushWeakProperties, Flushed, DataTypes, OwnTypes
<1>4. Head = head /\ queue[v] = {}
  BY <1>1 DEF Head, HeadInv, PhaseInv, Blocks
<1>5. Head' = IF v = Main THEN {} ELSE head'
  BY <1>1, <1>2 DEF Head
<1>6. Head' \subseteq head \cup pending[v] /\ Own(v)' \subseteq head \cup pending[v]
  BY Zenon, <1>1, <1>3, <1>4, <1>5 DEF Own
<1>7. stack' \cap (head \cup pending[v]) = {}
  BY Zenon, <1>1, <1>4 DEF ListInv, Apart, Own
<1>8. Apart(v)' /\ Head' \cap Own(v)' = {} /\ (pc'[v] \in Gone => pending'[v] = {})
  <2>1. stack' \cap Own(v)' = {} /\ local'[v] = {} /\ queue'[v] = {}
    BY Zenon, <1>1, <1>4, <1>6, <1>7
  <2>2. Head' \cap Own(v)' = {}
    BY Zenon, <1>1, <1>3, <1>4, <1>5 DEF Own
  <2> QED BY Zenon, <1>1, <1>3, <2>1, <2>2 DEF Apart, Gone
<1>9. ASSUME NEW u \in Visitor, u # v
      PROVE  /\ Apart(u)' /\ Head' \cap Own(u)' = {}
             /\ pc'[u] \in Gone => pending'[u] = {}
             /\ Own(u)' = Own(u) /\ Own(v)' \cap Own(u) = {}
  <2>1. Own(u)' = Own(u)
    BY Zenon, <1>1, <1>9 DEF Own
  <2>2. (head \cup pending[v] \cup local[v] \cup stack) \cap Own(u) = {}
    BY Zenon, <1>1, <1>4, <1>9 DEF ListInv, Apart, Own
  <2>3. Apart(u)'
    <3>1. /\ local'[u] = local[u] /\ pending'[u] = pending[u] /\ queue'[u] = queue[u]
          /\ Apart(u)
      BY Zenon, <1>1, <1>9 DEF ListInv
    <3>2. stack' \cap Own(u)' = {}
      BY Zenon, <1>1, <2>1, <2>2
    <3> QED BY Zenon, <3>1, <3>2 DEF Apart
  <2>4. pc'[u] \in Gone => pending'[u] = {}
    BY Zenon, <1>1, <1>9 DEF ListInv
  <2> QED BY Zenon, <1>6, <2>1, <2>2, <2>3, <2>4
<1>10. stack' \cap Head' = {}
  BY Zenon, <1>6, <1>7
<1>11. ASSUME NEW u \in Visitor, NEW w \in Visitor, u # w
       PROVE  Own(u)' \cap Own(w)' = {}
  <2>1. CASE u = v
    BY Zenon, <1>9, <1>11, <2>1
  <2>2. CASE w = v
    BY Zenon, <1>9, <1>11, <2>2
  <2>3. CASE u # v /\ w # v
    BY Zenon, <1>9, <1>11, <2>3 DEF ListInv
  <2> QED BY Zenon, <2>1, <2>2, <2>3
<1>12. \A u \in Visitor : /\ Apart(u)' /\ Head' \cap Own(u)' = {}
                          /\ pc'[u] \in Gone => pending'[u] = {}
  BY Zenon, <1>8, <1>9
<1> QED BY Zenon, <1>2, <1>10, <1>11, <1>12 DEF ListInv

LEMMA OtherLists ==
    ASSUME BarrierInv, RoundInv, DataTypes, ListInv,
           \/ MarkWhenIdle \/ UNCHANGED vars
           \/ \E v \in Visitor : SpuriousWakeup(v)
           \/ \E o \in Obj : WriteBarrier(o) \/ DeferredBarrier(o)
    PROVE  ListInv'
<1>1. /\ UNCHANGED <<heap, local, pending, queue, head, flushed>>
      /\ \E S : stack' = stack \cup S /\ S \cap marked = {}
  <2>1. CASE MarkWhenIdle \/ UNCHANGED vars \/ \E v \in Visitor : SpuriousWakeup(v)
    <3>1. UNCHANGED <<heap, local, pending, queue, head, flushed, stack>>
      BY Zenon, <2>1 DEF MarkWhenIdle, vars, SpuriousWakeup, work, flush
    <3>2. stack' = stack \cup {} /\ {} \cap marked = {}
      BY Zenon, <3>1
    <3> QED BY Zenon, <3>1, <3>2
  <2>2. CASE \E o \in Obj : DeferredBarrier(o)
    <3>1. UNCHANGED <<heap, local, pending, queue, head, flushed, stack>>
      BY Zenon, <2>2 DEF DeferredBarrier, flush
    <3>2. stack' = stack \cup {} /\ {} \cap marked = {}
      BY Zenon, <3>1
    <3> QED BY Zenon, <3>1, <3>2
  <2>3. ASSUME NEW o \in Obj, WriteBarrier(o)
        PROVE  /\ UNCHANGED <<heap, local, pending, queue, head, flushed>>
               /\ \E S : stack' = stack \cup S /\ S \cap marked = {}
    <3>1. /\ UNCHANGED <<heap, local, pending, queue, head, flushed>>
          /\ stack' = stack \cup {o} /\ o \notin marked
      BY Zenon, <2>3 DEF WriteBarrier, flush
    <3>2. {o} \cap marked = {}
      BY Zenon, <3>1
    <3> QED BY Zenon, <3>1, <3>2
  <2> QED BY Zenon, <2>1, <2>2, <2>3
<1>2. /\ Visitor' = Visitor /\ NumTasks' = NumTasks /\ Main \in Visitor
      /\ Head' = Head /\ \A v \in Visitor : Own(v)' = Own(v)
  BY Zenon, <1>1, HeapSame, Sizes DEF BarrierInv, Head, Own
<1>3. Head \subseteq marked /\ \A v \in Visitor : Own(v) \subseteq marked
  BY Zenon DEF DataTypes, SharedTypes, OwnTypes, Head, Own
<1>4. stack' \cap Head' = {} /\ \A v \in Visitor : Apart(v)'
  BY <1>1, <1>2, <1>3 DEF ListInv, Apart
<1>5. ASSUME NEW v \in Visitor, pc'[v] \in Gone
      PROVE  pc[v] \in Gone
  <2>1. CASE MarkWhenIdle
    <3>1. /\ pc'[Main] \in {"parked", "drain"}
          /\ \A u \in Visitor : u # Main => pc'[u] = pc[u]
      BY Zenon, <1>2, <2>1 DEF MarkWhenIdle, Goto, RoundInv
    <3> QED BY Zenon, <1>5, <3>1 DEF Gone
  <2>2. CASE \/ UNCHANGED vars \/ \E u \in Visitor : SpuriousWakeup(u)
             \/ \E o \in Obj : WriteBarrier(o) \/ DeferredBarrier(o)
    BY Zenon, <1>5, <2>2 DEF vars, SpuriousWakeup, WriteBarrier, DeferredBarrier
  <2> QED BY Zenon, <2>1, <2>2
<1> QED BY Zenon, <1>1, <1>2, <1>4, <1>5 DEF ListInv

LEMMA InitLists ==
    ASSUME Init
    PROVE  ListInv
<1>1. /\ stack = {} /\ \A v \in Visitor : local[v] = {} /\ pending[v] = {} /\ queue[v] = {}
  BY Zenon DEF Init
<1> QED BY Zenon, <1>1 DEF ListInv, Apart, Own

LEMMA NextLists ==
    ASSUME SizeFacts, BarrierInv, RoundInv, DataTypes, PhaseInv, HeadInv, ListInv, [Next]_vars
    PROVE  ListInv'
  BY Zenon, TaskLists, FlushLists, OtherLists DEF Next

-----------------------------------------------------------------------------
(* Past the fourth barrier nothing is left to do, and what is marked is    *)
(* closed.                                                                 *)
LEMMA NothingLeft ==
    ASSUME BarrierInv, RoundInv, DataTypes, PhaseInv,
           NEW v \in Participants, Stage(v) \in {5, 6}
    PROVE  /\ stack = {} /\ deferred = {} /\ flushed = NumTasks
           /\ \A u \in Visitor : /\ local[u] = {} /\ dlocal[u] = {} /\ queue[u] = {}
                                 /\ todo[u] = {} /\ late[u] = {}
<1>1. /\ flushed = NumTasks /\ ~AnyActive
      /\ \A u \in Visitor : \/ u \in Participants /\ Stage(u) = Stage(v)
                            \/ pc[u] \in {"spawned", "release", "done"} /\ gen[u] = 0
  BY Zenon, NobodyActive
<1>2. v \in Visitor /\ NumTasks \in Nat /\ Visitor = 1..NumTasks
  BY Zenon, Sizes DEF BarrierInv, Participants
<1>3. stack = {}
  BY Zenon, <1>1 DEF PhaseInv
<1>4. deferred = {}
  <2>1. PastPhase2(v)
    BY DEF Stage, Synced, Waiting, PastPhase2
  <2>2. gen[v] > 0
    BY Zenon, <1>1, <1>2, <2>1, PlaceFacts
       DEF PastPhase2, Place, Generation, First, Synced1, Synced2, Early, Participants,
           Participates
  <2> QED BY Zenon, <1>2, <2>1, <2>2 DEF PhaseInv, Phases
<1>5. ASSUME NEW u \in Visitor
      PROVE  /\ local[u] = {} /\ dlocal[u] = {} /\ queue[u] = {}
             /\ todo[u] = {} /\ late[u] = {}
  <2>1. PastPhase2(u) \/ pc[u] = "spawned"
    BY <1>1 DEF Stage, Synced, Waiting, PastPhase2
  <2>2. Blocks(u) /\ Phases(u) /\ ~Active(u) /\ ~(u > flushed)
    BY <1>1, <1>2 DEF PhaseInv, AnyActive
  <2> QED BY Zenon, <2>1, <2>2 DEF Blocks, Phases, PastPhase2
<1> QED BY Zenon, <1>1, <1>3, <1>4, <1>5

(* Reachable is the least closed set.                                      *)
LEMMA ClosedAbove ==
    ASSUME NEW S \in SUBSET Obj, Closed(S)
    PROVE  Reachable \subseteq S
  BY Zenon DEF Reachable

(* With three tasks or more, MarkObjects may lose weak properties when it  *)
(* joins the visitors' lists.                                              *)
NoListLost == NumTasks <= 2 \/ Prop = {}

LEMMA Finished ==
    ASSUME BarrierInv, RoundInv, DataTypes, PhaseInv, KeysDead, KnownInv, ListInv,
           NoListLost, NEW v \in Participants, Stage(v) = 5, ~Mourned
    PROVE  Reachable \subseteq marked
<1>1. /\ flushed = NumTasks /\ ~AnyActive
      /\ \A u \in Visitor : \/ u \in Participants /\ Stage(u) = Stage(v)
                            \/ pc[u] \in {"spawned", "release", "done"} /\ gen[u] = 0
  BY Zenon, NobodyActive
<1>2. /\ stack = {} /\ deferred = {}
      /\ \A u \in Visitor : /\ local[u] = {} /\ dlocal[u] = {} /\ queue[u] = {}
                            /\ todo[u] = {} /\ late[u] = {}
  BY Zenon, NothingLeft
<1>3. \A o : Known(o) => o \in marked
  BY Zenon, <1>2 DEF Known, Held
<1>4. \A o : ~ToVisit(o)
  BY Zenon, <1>2 DEF ToVisit
<1>5. slices = {}
  <2>1. v \in Visitor /\ flushed > 0
    BY <1>1, Sizes DEF BarrierInv, Participants
  <2>2. PastRoots(v)
    BY <2>1 DEF Stage, Synced, Waiting, PastRoots, Synced1, Synced2
  <2> QED BY Zenon, <2>1, <2>2 DEF PhaseInv, Phases
<1>6. ASSUME NEW p \in Prop \cap marked, Key[p] \in marked
      PROVE  Value[p] \in marked
  <2>1. ~Listed(p)
    <3>1. ASSUME NEW u \in Visitor, p \in pending[u]
          PROVE  FALSE
      <4>1. pc[u] \notin Gone
        BY Zenon, <3>1 DEF ListInv
      <4>2. u \in Participants /\ Stage(u) = 5
        BY Zenon, <1>1, <4>1 DEF Gone
      <4>3. pc[u] \in RoundPC
        BY <4>1, <4>2 DEF Stage, Synced, Waiting, Gone, RoundPC
      <4> QED BY Zenon, <1>1, <1>6, <3>1, <4>3 DEF KeysDead
    <3>2. Head = {}
      BY <1>1, Sizes DEF Head, BarrierInv
    <3> QED BY Zenon, <1>2, <3>1, <3>2 DEF Listed
  <2>2. Ephemeron(p)
    BY Zenon, <1>6 DEF KnownInv, NoListLost
  <2> QED BY Zenon, <1>3, <1>4, <2>1, <2>2 DEF Ephemeron
<1>7. Closed(marked)
  <2>1. \A i \in DOMAIN Roots : Roots[i] \subseteq marked
    BY Zenon, <1>3, <1>5 DEF KnownInv, RootsKnown
  <2>2. \A o \in marked : Refs[o] \subseteq marked
    BY Zenon, <1>3, <1>4 DEF KnownInv, Black
  <2> QED BY Zenon, <1>6, <2>1, <2>2 DEF Closed
<1>8. marked \in SUBSET Obj
  BY Zenon DEF DataTypes, SharedTypes
<1> QED BY Zenon, <1>7, <1>8, ClosedAbove

FinalInv == NoListLost /\ Mourned => Reachable \subseteq marked

LEMMA SameReachable ==
    ASSUME heap' = heap
    PROVE  Reachable' = Reachable
<1>1. \A S : Closed(S)' <=> Closed(S)
  BY Zenon, HeapSame DEF Closed
<1> QED BY Zenon, <1>1, HeapSame DEF Reachable

(* All that is needed about marking.                                       *)
MarkInv ==
    /\ BarrierInv /\ remaining_ > 0 /\ RoundInv /\ DataTypes /\ PhaseInv
    /\ KeysDead /\ KnownInv /\ HeadInv /\ ListInv /\ FinalInv

LEMMA MournStage ==
    ASSUME BarrierInv, NEW v \in Visitor, pc[v] = "mourn"
    PROVE  v \in Participants /\ Stage(v) = 5
  BY PlaceFacts DEF Place, Early, Participants, Participates, Synced1, Synced2, Stage,
     Synced, Waiting

LEMMA NextFinal ==
    ASSUME SizeFacts, MarkInv, [Next]_vars
    PROVE  FinalInv'
<1>1. CASE heap' = heap /\ marked \subseteq marked' /\ (Mourned' => Mourned)
  BY Zenon, <1>1, HeapSame, SameReachable DEF MarkInv, FinalInv, NoListLost
<1>2. ASSUME NEW v \in Visitor, Task(v)
      PROVE  FinalInv'
  <2>1. Mine(v) /\ heap' = heap /\ marked \subseteq marked' /\ Visitor' = Visitor
    BY Zenon, <1>2, TaskMine, HeapSame DEF Mine, MarkInv
  <2>2. CASE Mourned' => Mourned
    BY Zenon, <1>1, <2>1, <2>2
  <2>3. CASE Mourned' /\ ~Mourned
    <3>1. PICK u \in Visitor : MournedBy(u)'
      BY Zenon, <2>1, <2>3 DEF Mourned
    <3>2. ~MournedBy(u)
      BY Zenon, <2>3 DEF Mourned
    <3>3. u = v
      <4>1. u # v => pc'[u] = pc[u] /\ gen'[u] = gen[u]
        BY Zenon, <2>1 DEF Mine
      <4> QED BY Zenon, <3>1, <3>2, <4>1 DEF MournedBy
    <3>4. pc[v] = "mourn"
      BY Zenon, <1>2, <3>1, <3>2, <3>3, TaskMourned DEF MarkInv, Mourn
    <3>5. NoListLost => Reachable \subseteq marked
      BY Zenon, <2>3, <3>4, MournStage, Finished DEF MarkInv
    <3> QED BY Zenon, <2>1, <3>5, HeapSame, SameReachable DEF FinalInv, NoListLost
  <2> QED BY Zenon, <2>2, <2>3
<1>3. CASE Flush
  <2>1. heap' = heap /\ marked' = marked
    BY Zenon, <1>3 DEF Flush
  <2>2. Mourned' => Mourned
    BY Zenon, <1>3, <2>1, HeapSame, FlushMourned DEF Mourned, MarkInv
  <2> QED BY Zenon, <1>1, <2>1, <2>2
<1>4. CASE \/ MarkWhenIdle \/ UNCHANGED vars
           \/ \E v \in Visitor : SpuriousWakeup(v)
           \/ \E o \in Obj : WriteBarrier(o) \/ DeferredBarrier(o)
  <2>1. heap' = heap /\ marked \subseteq marked'
    BY Zenon, <1>4 DEF MarkWhenIdle, vars, SpuriousWakeup, WriteBarrier, DeferredBarrier, flush
  <2>2. Mourned' => Mourned
    BY Zenon, <1>4, <2>1, HeapSame, OtherKnows DEF Mourned, MarkInv
  <2> QED BY Zenon, <1>1, <2>1, <2>2
<1> QED BY Zenon, <1>2, <1>3, <1>4 DEF Next

LEMMA InitMark ==
    ASSUME SizeFacts, Init
    PROVE  MarkInv
<1>1. FinalInv
  <2>1. \A v \in Visitor : pc[v] \in {"croots", "parked"}
    BY Zenon DEF Init
  <2> QED BY Zenon, <2>1 DEF FinalInv, Mourned, MournedBy
<1>2. KeysDead
  BY Zenon DEF Init, KeysDead
<1> QED BY Zenon, <1>1, <1>2, InitInv, InitOpen, InitRounds, InitTypes, InitPhase, InitKnown,
           InitLists
        DEF MarkInv

LEMMA NextMark ==
    ASSUME SizeFacts, MarkInv, [Next]_vars
    PROVE  MarkInv'
  BY Zenon, NextInv, NextOpen, NextRounds, NextTypes, NextPhase, NextKeys, NextKnown, NextLists,
     NextFinal DEF MarkInv

-----------------------------------------------------------------------------
(* The properties.                                                         *)
LEMMA InvReachable ==
    ASSUME MarkInv, NoListLost
    PROVE  ReachableMarked
<1>1. SUFFICES ASSUME NEW v \in Visitor, Phase3(v)
               PROVE  /\ Reachable \subseteq marked /\ stack = {} /\ deferred = {}
                      /\ \A u \in Visitor :
                            local[u] \cup dlocal[u] \cup queue[u] \cup todo[u] \cup late[u] = {}
  BY Zenon DEF ReachableMarked
<1>2. v \in Participants /\ Stage(v) \in {5, 6}
  BY Zenon, <1>1, PlaceFacts DEF MarkInv, Phase3, Place, Early, Participants, Participates, Synced1,
     Synced2, Stage, Synced, Waiting, Generation
<1>3. /\ stack = {} /\ deferred = {}
      /\ \A u \in Visitor : /\ local[u] = {} /\ dlocal[u] = {} /\ queue[u] = {}
                            /\ todo[u] = {} /\ late[u] = {}
  BY Zenon, <1>2, NothingLeft DEF MarkInv
<1>4. Reachable \subseteq marked
  <2>1. CASE Mourned
    BY Zenon, <2>1 DEF MarkInv, FinalInv
  <2>2. CASE ~Mourned
    <3>1. pc[v] = "mourn"
      BY Zenon, <1>1, <2>2 DEF Mourned, MournedBy, Phase3
    <3> QED BY Zenon, <2>2, <3>1, MournStage, Finished DEF MarkInv
  <2> QED BY Zenon, <2>1, <2>2
<1> QED BY Zenon, <1>3, <1>4

LEMMA InvKept ==
    ASSUME SizeFacts, MarkInv, NumTasks <= 2
    PROVE  WeakPropertyKept
<1>1. SUFFICES ASSUME flushed \in {0, NumTasks},
                      pc[Main] \notin {"sync5", "wait5", "release", "done"},
                      NEW p \in Prop \cap marked
               PROVE  LET lists == {v \in Visitor : p \in pending[v] \cup queue[v]} IN
                      /\ Cardinality(lists) <= 1
                      /\ Key[p] \notin marked =>
                            \/ p \in stack \cup deferred \/ lists # {}
                            \/ \E v \in Visitor : p \in local[v] \/ Phase3(v)
  BY Zenon DEF WeakPropertyKept
<1> DEFINE lists == {v \in Visitor : p \in pending[v] \cup queue[v]}
<1>2. Cardinality(lists) <= 1
  <2>1. \A u, v \in lists : u = v
    BY Zenon DEF MarkInv, ListInv, Own
  <2>2. lists = {} \/ \E x : lists = {x}
    BY Zenon, <2>1
  <2>3. Cardinality(lists) = 0 \/ Cardinality(lists) = 1
    BY Zenon, <2>2 DEF SizeFacts, SizeEmpty, SizeOne
  <2> QED BY <2>3
<1>3. ASSUME Key[p] \notin marked
      PROVE  \/ p \in stack \cup deferred \/ lists # {}
             \/ \E v \in Visitor : p \in local[v] \/ Phase3(v)
  <2>1. Ephemeron(p)
    BY Zenon, <1>1 DEF MarkInv, KnownInv
  <2>2. CASE ToVisit(p)
    BY Zenon, <2>2 DEF ToVisit
  <2>3. CASE Listed(p)
    <3>1. Head = {}
      BY <1>1, Sizes DEF Head, MarkInv, BarrierInv
    <3> QED BY Zenon, <2>3, <3>1 DEF Listed
  <2>4. ASSUME NEW v \in Visitor, MournedBy(v)
        PROVE  Phase3(v)
    <3>1. SUFFICES ASSUME gen[v] > 0, pc[v] \in {"release", "done"}
                   PROVE  FALSE
      BY Zenon, <2>4 DEF MournedBy, Phase3
    <3>2. v \in Participants /\ Main \in Participants /\ Stage(v) = 6
      BY Zenon, <3>1, Sizes DEF MarkInv, BarrierInv, Participants, Participates, Stage, Synced,
         Waiting
    <3>3. Stage(Main) = 6
      BY Zenon, <3>2 DEF MarkInv, RoundInv, Together
    <3> QED BY <1>1, <3>3 DEF Stage, Synced, Waiting
  <2> QED BY Zenon, <1>3, <2>1, <2>2, <2>3, <2>4 DEF Ephemeron, Mourned
<1> QED BY Zenon, <1>2, <1>3

-----------------------------------------------------------------------------
FS == INSTANCE FiniteSetTheorems

(* The facts about sizes that the lemmas assume.                           *)
LEMMA SizesHold == SizeFacts
<1>1. \A S : IsFiniteSet(S) <=> FS!IsFiniteSet(S)
  BY Zenon DEF IsFiniteSet, FS!IsFiniteSet
<1>2. \A S : Cardinality(S) = FS!Cardinality(S)
  BY Zenon DEF Cardinality, FS!Cardinality
<1>3. SizeIsNat /\ SizeEmpty /\ SizeOne
  BY <1>1, <1>2, FS!FS_CardinalityType, FS!FS_EmptySet, FS!FS_Singleton
     DEF SizeIsNat, SizeEmpty, SizeOne
<1>4. SizeAdd /\ SizeRemove
  BY <1>1, <1>2, FS!FS_AddElement, FS!FS_RemoveElement DEF SizeAdd, SizeRemove
<1>5. SizeSubset
  BY <1>1, <1>2, FS!FS_Subset DEF SizeSubset
<1>6. SizeInterval /\ SizeProduct
  BY <1>1, <1>2, FS!FS_Interval, FS!FS_Product DEF SizeInterval, SizeProduct
<1> QED BY <1>3, <1>4, <1>5, <1>6 DEF SizeFacts

-----------------------------------------------------------------------------
(* Marking keeps its counters and lists in order: the barrier's counts are *)
(* exact, the tasks go through the rounds of RunEnteredIsolateGroup        *)
(* together, and every object that is marked or known to a visitor is in   *)
(* the place where it will be looked at.                                   *)
THEOREM MarkingInvariant == Spec => []MarkInv
<1>1. Init => MarkInv
  BY Zenon, SizesHold, InitMark
<1>2. MarkInv /\ [Next]_vars => MarkInv'
  BY Zenon, SizesHold, NextMark
<1> QED BY <1>1, <1>2, PTL DEF Spec

(* Types and bounds: num_busy and remaining_ never wrap around, although   *)
(* they are counted down before and after the events they count.           *)
THEOREM MarkingTypes == Spec => []TypeOK
<1>1. MarkInv => TypeOK
  BY Zenon, SizesHold, InvTypes DEF MarkInv
<1> QED BY <1>1, MarkingInvariant, PTL

(* No task gets out of ThreadBarrier::Sync before every participant has    *)
(* called it.                                                              *)
THEOREM BarrierHolds == Spec => EverybodyArrives
<1>1. ASSUME MarkInv, Next, generation_' # generation_, NEW u \in Participants
      PROVE  pc'[u] \in Waits /\ gen'[u] = generation_
  <2>1. BarrierInv
    BY Zenon, <1>1 DEF MarkInv
  <2>2. PICK v \in Visitor : ArrivesLast /\ Others(v) /\ Arrives(v)
    BY Zenon, <1>1, <2>1, RoundEnds
  <2>3. u # v => Arrived(u)
    BY Zenon, <1>1, <2>1, <2>2, SizesHold, LastOne DEF Arrives
  <2> QED BY <2>2, <2>3 DEF Others, Arrives, Arrived, Participants
<1>2. MarkInv /\ [Next]_vars =>
        [generation_' # generation_ =>
            \A v \in Participants : pc'[v] \in Waits /\ gen'[v] = generation_]_vars
  BY Zenon, <1>1
<1> QED BY <1>2, MarkingInvariant, PTL DEF Spec, EverybodyArrives

(* In the wait loop of ThreadBarrier::Sync no task misses the end of its   *)
(* round for being slow to wake up.                                        *)
THEOREM BarrierReusable == Spec => []NobodyLapped
<1>1. MarkInv => NobodyLapped
  BY DEF MarkInv, BarrierInv, Typed, Generation, NobodyLapped
<1> QED BY <1>1, MarkingInvariant, PTL

(* ThreadBarrier::Release deletes the barrier when no task can use it any  *)
(* more, and MarkObjects returns, with the visitors and num_busy on its    *)
(* stack, when no task can touch them any more.                            *)
THEOREM NothingUsedAfterReturn == Spec => []NoUseAfterReturn
<1>1. ASSUME MarkInv
      PROVE  NoUseAfterReturn
  <2>1. BarrierInv /\ RoundInv /\ Typed
    BY Zenon, <1>1 DEF MarkInv, BarrierInv
  <2>2. IsFiniteSet({v \in Visitor : pc[v] # "done"})
    <3>1. {v \in Visitor : pc[v] # "done"} \subseteq Visitor
      BY Zenon
    <3> QED BY Zenon, <2>1, <3>1, SizesHold, Finite
  <2>3. ref_count_ = 0 => {v \in Visitor : pc[v] # "done"} = {}
    BY Zenon, <2>1, <2>2, SizesHold DEF SizeFacts, SizeEmpty, BarrierInv, Counts
  <2>4. ref_count_ = 0 => \A v \in Visitor : pc[v] = "done"
    BY Zenon, <2>3
  <2> QED BY Zenon, <2>1, <2>4, InvReturned DEF NoUseAfterReturn
<1> QED BY <1>1, MarkingInvariant, PTL

(* When the tasks meet at the first barrier of a round, WaitForWork has    *)
(* let nobody go too early: nobody is busy, asleep, or has left a block.   *)
THEOREM RoundsStartDrained == Spec => DrainedAtBarrier
<1>1. MarkInv /\ [Next]_vars =>
        [\A v \in Visitor :
            (pc[v] = "sync1" /\ generation_' # generation_) =>
                num_busy = 0 /\ stack = {} /\ asleep = {}]_vars
  BY Zenon, SizesHold, RoundDrained DEF MarkInv
<1> QED BY <1>1, MarkingInvariant, PTL DEF Spec, DrainedAtBarrier

(* MournWeakProperties clears no weak property whose key is marked.        *)
THEOREM MournsDeadKeys == Spec => []MournedKeysDead
<1>1. MarkInv => MournedKeysDead
  BY Zenon, InvKeysDead DEF MarkInv
<1> QED BY <1>1, MarkingInvariant, PTL

(* ParallelMarkTask's rounds end only when all that is reachable, through  *)
(* weak properties too, is marked.  With three tasks or more, this needs a *)
(* heap without weak properties, as Flush may lose some.                   *)
THEOREM MarksReachable == Spec => [](NumTasks <= 2 \/ Prop = {} => ReachableMarked)
<1>1. MarkInv => (NumTasks <= 2 \/ Prop = {} => ReachableMarked)
  BY Zenon, InvReachable DEF NoListLost
<1> QED BY <1>1, MarkingInvariant, PTL

(* A weak property with a dead key is in one list, from which              *)
(* MournWeakProperties clears it, and no property is in two lists.         *)
THEOREM KeepsWeakProperties == Spec => [](NumTasks <= 2 => WeakPropertyKept)
<1>1. MarkInv => (NumTasks <= 2 => WeakPropertyKept)
  BY Zenon, SizesHold, InvKept
<1> QED BY <1>1, MarkingInvariant, PTL
=============================================================================
