------------------------- MODULE ParallelMarkProofs -------------------------
(***************************************************************************)
(* What ThreadBarrier guarantees to the tasks of ParallelMark, for all     *)
(* heaps and any number of tasks.                                          *)
(***************************************************************************)
EXTENDS ParallelMark, SetSizes, TLAPS

(* Where a task can be while the concurrent tasks run, and later on, when  *)
(* it takes part in the barrier: before the first Sync is over, and after. *)
Early == {"croots", "parked", "drain", "pend", "last"}
First == {"busy", "roots", "defer", "drain", "pend", "last", "idle", "asleep",
          "sync1", "wait1"}
Synced2 == {"wait2", "sync3", "wait3", "phase2", "sync4", "wait4", "mourn",
            "sync5", "wait5"}
Synced1 == {"round", "sync2"} \cup Synced2
Waits == {"wait1", "wait2", "wait3", "wait4", "wait5"}

(* Those that participating_ counts.  A task that has left is known by its *)
(* gen.                                                                    *)
Participates(v) ==
    \/ v = Main \/ gen[v] > 0
    \/ flushed > 0 /\ (pc[v] \in First \/ pc[v] \in Synced1)
Participants == {v \in Visitor : Participates(v)}

Arrived(v) == pc[v] \in Waits /\ gen[v] = generation_
Late == {v \in Participants : ~Arrived(v)}

(* The guarantee of the class comment: whenever a round of the barrier     *)
(* ends, every task that takes part is in its Sync, so that what it did    *)
(* before comes before all that anybody does after.                        *)
EverybodyArrives ==
    [][generation_' # generation_ =>
          \A v \in Participants : pc'[v] \in Waits /\ gen'[v] = generation_]_vars

(* A task that is slow to wake up in Sync sees the generation after its    *)
(* own, never a later one: the barrier can be used again at once.          *)
NobodyLapped ==
    \A v \in Visitor : pc[v] \in Waits => generation_ \in {gen[v], gen[v] + 1}

-----------------------------------------------------------------------------
(* The inductive invariant.                                                *)
Typed ==
    /\ heap \in Heaps /\ DOMAIN pc = Visitor
    /\ generation_ \in Nat /\ gen \in [Visitor -> Nat]
    /\ flushed \in 0..NumTasks

(* Until its visitor is flushed, a task has no part in the barrier.        *)
Place(v) ==
    IF flushed = 0 THEN gen[v] = 0 /\ pc[v] \in Early
    ELSE /\ v > flushed <=> pc[v] = "parked"
         /\ pc[v] \in {"parked", "spawned"} => gen[v] = 0
         /\ pc[v] = "spawned" => v # Main
         /\ pc[v] \in {"release", "done"} /\ v = Main => gen[v] > 0
         /\ \/ pc[v] \in {"parked", "spawned", "release", "done"}
            \/ pc[v] \in First \/ pc[v] \in Synced1

Generation(v) ==
    /\ gen[v] <= generation_
    /\ pc[v] \in Waits => generation_ <= gen[v] + 1
    /\ pc[v] \in Synced1 => generation_ > 0
    /\ pc[v] \in Synced2 => gen[v] > 0

(* The counters are exact.                                                 *)
Counts ==
    /\ participating_ = Cardinality(Participants) /\ remaining_ = Cardinality(Late)
    /\ ref_count_ = Cardinality({v \in Visitor : pc[v] # "done"})

BarrierInv == Typed /\ Counts /\ \A v \in Visitor : Place(v) /\ Generation(v)

-----------------------------------------------------------------------------
(* Sizes.                                                                  *)
LEMMA Sizes ==
    ASSUME Typed
    PROVE  /\ NumTasks \in Nat \ {0} /\ Main \in Visitor /\ Main = NumTasks
           /\ Visitor = 1..NumTasks
<1>1. NumTasks \in Nat \ {0}
  BY MarkAssumption DEF Typed, NumTasks
<1> QED BY <1>1 DEF Visitor, Main

LEMMA Finite ==
    ASSUME SizeFacts, Typed, NEW S, S \subseteq Visitor
    PROVE  IsFiniteSet(S) /\ Cardinality(S) \in Nat
<1>1. IsFiniteSet(Visitor)
  BY Sizes DEF SizeFacts, SizeInterval
<1> QED BY Zenon, <1>1 DEF SizeFacts, SizeSubset, SizeIsNat

(* Steps that leave the barrier alone: v stays where it is or goes to l.   *)
SameBarrier == UNCHANGED <<heap, flushed, generation_, gen, participating_, remaining_>>

Hop(v, l) ==
    \/ flushed = 0 /\ l \in Early
    \/ /\ flushed > 0 /\ pc[v] \in First /\ pc[v] # "wait1"
       /\ l \in First /\ l # "wait1"
    \/ Synced(v, "wait1") /\ l = "round"
    \/ /\ pc[v] \in Synced1 /\ (pc[v] \notin Waits \/ gen[v] # generation_)
       /\ l \in {"sync2", "drain"} \/ (pc[v] \in Synced2 /\ l \in Synced2 \ Waits)
    \/ Synced(v, "wait5") /\ l = "release"
    \/ pc[v] = "spawned" /\ l = "release"
    \/ pc[v] = "release" /\ l = "done"

Step(v) ==
    /\ SameBarrier
    /\ \/ UNCHANGED <<pc, ref_count_>>
       \/ \E l : /\ pc' = [pc EXCEPT ![v] = l] /\ Hop(v, l)
                 /\ ref_count_' = IF l = "done" THEN ref_count_ - 1 ELSE ref_count_

LEMMA StepInv ==
    ASSUME SizeFacts, BarrierInv, NEW v \in Visitor, Step(v)
    PROVE  BarrierInv'
<1> Typed /\ Place(v) /\ Generation(v)
  BY Zenon DEF BarrierInv
<1>0. /\ Visitor' = Visitor /\ Main' = Main /\ NumTasks' = NumTasks
      /\ UNCHANGED <<heap, flushed, generation_, gen, participating_, remaining_>>
      /\ generation_ \in Nat /\ gen[v] \in Nat /\ flushed \in Nat
  BY DEF Step, SameBarrier, Visitor, Main, NumTasks, Typed
<1>1. CASE UNCHANGED <<pc, ref_count_>>
  BY Zenon, <1>0, <1>1 DEF BarrierInv, Typed, Counts, Place, Generation, Late, Arrived,
     Participants, Participates
<1>2. ASSUME NEW l, pc' = [pc EXCEPT ![v] = l], Hop(v, l),
             ref_count_' = IF l = "done" THEN ref_count_ - 1 ELSE ref_count_
      PROVE  BarrierInv'
  <2>1. pc'[v] = l /\ DOMAIN pc' = Visitor /\ \A u \in Visitor : u # v => pc'[u] = pc[u]
    BY Zenon, <1>2 DEF Typed
  <2>2. ~Arrived(v) /\ ~Arrived(v)'
    BY Zenon, <1>0, <1>2, <2>1 DEF Hop, Arrived, Early, First, Synced1, Synced2, Waits, Synced,
       Place
  <2>3. Participates(v)' <=> Participates(v)
    BY Zenon, <1>0, <1>2, <2>1 DEF Hop, Participates, Early, First, Synced1, Synced2, Synced,
       Place, Generation
  <2>4. Participants' = Participants /\ Late' = Late
    <3>1. \A u \in Visitor : (Participates(u)' <=> Participates(u)) /\ (Arrived(u)' <=> Arrived(u))
      BY Zenon, <1>0, <2>1, <2>2, <2>3 DEF Participates, Arrived
    <3> QED BY Zenon, <1>0, <3>1 DEF Participants, Late
  <2>5. Place(v)' /\ Generation(v)'
    BY <1>0, <1>2, <2>1 DEF Hop, Place, Generation, Early, First, Synced1, Synced2, Waits,
       Synced
  <2>6. \A u \in Visitor : Place(u)' /\ Generation(u)'
    BY <1>0, <2>1, <2>5 DEF BarrierInv, Place, Generation
  <2>7. ref_count_' = Cardinality({u \in Visitor : pc'[u] # "done"})
    <3> DEFINE S == {u \in Visitor : pc[u] # "done"}
               T == {u \in Visitor : pc'[u] # "done"}
    <3>1. IsFiniteSet(S) /\ ref_count_ = Cardinality(S) /\ Cardinality(S) \in Nat
      BY Zenon, Finite DEF BarrierInv, Counts
    <3>2. pc[v] # "done"
      BY Zenon, <1>2 DEF Hop, Place, Early, First, Synced1, Synced2, Synced
    <3>3. CASE l = "done"
      <4>1. T = S \ {v} /\ v \in S
        BY Zenon, <2>1, <3>2, <3>3
      <4>2. Cardinality(S \ {v}) = Cardinality(S) - 1
        BY Zenon, <3>1, <4>1 DEF SizeFacts, SizeRemove
      <4> QED BY Zenon, <1>2, <3>1, <3>3, <4>1, <4>2
    <3>4. CASE l # "done"
      <4>1. T = S
        BY Zenon, <2>1, <3>2, <3>4
      <4> QED BY Zenon, <1>2, <3>1, <3>4, <4>1
    <3> QED BY Zenon, <3>3, <3>4
  <2> QED BY Zenon, <1>0, <2>1, <2>4, <2>6, <2>7 DEF BarrierInv, Typed, Counts
<1> QED BY Zenon, <1>1, <1>2 DEF Step

-----------------------------------------------------------------------------
(* All but two steps of a task are such steps.                             *)
LEMMA TaskMoves ==
    ASSUME BarrierInv, NEW v \in Visitor, Task(v), ~Sync(v), ~(TryEnter(v) /\ MayEnter)
    PROVE  Step(v)
<1> flushed \in Nat /\ Place(v) /\ Generation(v)
  BY DEF BarrierInv, Typed
<1>1. CASE MarkObject(v) \/ ProcessPending(v) \/ MarkDeferred(v)
  BY Zenon, <1>1 DEF MarkObject, ProcessPending, MarkDeferred, Step, SameBarrier, barrier, flush
<1>2. CASE IterateRoots(v)
  <2>1. SameBarrier /\ ref_count_' = ref_count_ /\ pc[v] \in {"croots", "roots"}
    BY Zenon, <1>2 DEF IterateRoots, At, SameBarrier, barrier, flush
  <2> DEFINE l == CASE pc[v] = "roots" -> "defer"
                    [] LeftForIdleTime(v) -> "parked"
                    [] OTHER -> "drain"
  <2>2. pc' = pc \/ pc' = [pc EXCEPT ![v] = l]
    BY Zenon, <1>2 DEF IterateRoots, Goto
  <2>3. (pc[v] = "roots" /\ l = "defer") \/ (pc[v] = "croots" /\ l \in {"parked", "drain"})
    BY Zenon, <2>1 DEF LeftForIdleTime
  <2> HIDE DEF l
  <2>4. Hop(v, l) /\ l # "done"
    BY <2>3 DEF Hop, Place, Early, First, Synced1, Synced2
  <2> QED BY Zenon, <2>1, <2>2, <2>4 DEF Step
<1>3. CASE Drain(v) \/ EndPending(v)
  <2>1. SameBarrier /\ ref_count_' = ref_count_ /\ pc[v] \in {"drain", "last", "pend"}
    BY Zenon, <1>3 DEF Drain, EndPending, At, SameBarrier, barrier, flush
  <2>2. PICK l \in {"drain", "pend", "last", IF flushed = 0 THEN "parked" ELSE "idle"} :
           pc' = [pc EXCEPT ![v] = l]
    BY Zenon, <1>3 DEF Drain, EndPending, Goto, Concurrent
  <2>3. Hop(v, l) /\ l # "done"
    BY <2>1, <2>2 DEF Hop, Early, First
  <2> QED BY Zenon, <2>1, <2>2, <2>3 DEF Step
<1>4. CASE ProcessDeferredMarking(v)
  <2>1. SameBarrier /\ ref_count_' = ref_count_ /\ pc[v] \in {"defer", "phase2"}
    BY Zenon, <1>4 DEF ProcessDeferredMarking, At, SameBarrier, barrier, flush
  <2> DEFINE l == IF pc[v] = "defer" THEN "drain" ELSE "sync4"
  <2>2. pc' = pc \/ pc' = [pc EXCEPT ![v] = l]
    BY Zenon, <1>4 DEF ProcessDeferredMarking, Goto
  <2>3. (pc[v] = "defer" /\ l = "drain") \/ (pc[v] = "phase2" /\ l = "sync4")
    BY Zenon, <2>1
  <2> HIDE DEF l
  <2>4. Hop(v, l) /\ l # "done"
    BY <2>3 DEF Hop, Place, Early, First, Synced1, Synced2, Waits
  <2> QED BY Zenon, <2>1, <2>2, <2>4 DEF Step
<1>5. CASE TryEnter(v) /\ ~MayEnter
  <2>1. SameBarrier /\ ref_count_' = ref_count_ /\ pc' = [pc EXCEPT ![v] = "release"]
    BY Zenon, <1>5 DEF TryEnter, SameBarrier, flush, Goto
  <2>2. Hop(v, "release") /\ "release" # "done"
    BY Zenon, <1>5 DEF TryEnter, Hop
  <2> QED BY Zenon, <2>1, <2>2 DEF Step
<1>6. CASE Release(v)
  <2>1. /\ SameBarrier /\ ref_count_' = ref_count_ - 1
        /\ pc' = [pc EXCEPT ![v] = "done"] /\ Hop(v, "done")
    BY Zenon, <1>6 DEF Release, SameBarrier, flush, Goto, Hop
  <2> QED BY Zenon, <2>1 DEF Step
<1>7. CASE Busy(v) \/ WaitForWork(v) \/ WakeUp(v)
  <2>1. SameBarrier /\ ref_count_' = ref_count_ /\ pc[v] \in {"busy", "idle", "asleep"}
    BY Zenon, <1>7 DEF Busy, WaitForWork, WakeUp, SameBarrier, barrier, flush
  <2>2. PICK l \in {"roots", "sync1", "drain", "asleep"} : pc' = [pc EXCEPT ![v] = l]
    BY Zenon, <1>7 DEF Busy, WaitForWork, WakeUp, TakeOrWait, Goto
  <2>3. Hop(v, l) /\ l # "done"
    BY <2>1, <2>2 DEF Hop, Place, Early, First
  <2> QED BY Zenon, <2>1, <2>2, <2>3 DEF Step
<1>8. CASE BeginRound(v) \/ EndRound(v) \/ Decide(v) \/ Mourn(v)
  <2>1. SameBarrier /\ ref_count_' = ref_count_
    BY Zenon, <1>8 DEF BeginRound, EndRound, Decide, Mourn, SameBarrier, barrier, flush
  <2>2. PICK l : /\ pc' = [pc EXCEPT ![v] = l]
                 /\ \/ Synced(v, "wait1") /\ l = "round"
                    \/ pc[v] = "round" /\ l = "sync2"
                    \/ Synced(v, "wait2") /\ l = "sync3"
                    \/ pc[v] = "mourn" /\ l = "sync5"
    BY Zenon, <1>8 DEF BeginRound, EndRound, Decide, Mourn, At, Goto
  <2>3. Hop(v, l) /\ l # "done"
    BY Zenon, <2>2 DEF Hop, Synced, Synced1, Synced2, Waits
  <2> QED BY Zenon, <2>1, <2>2, <2>3 DEF Step
<1>9. CASE Continue(v)
  <2>1. SameBarrier /\ ref_count_' = ref_count_
    BY Zenon, <1>9 DEF Continue, SameBarrier, barrier, flush
  <2>2. PICK l : /\ pc' = [pc EXCEPT ![v] = l]
                 /\ \/ Synced(v, "wait3") /\ l = IF more[v] THEN "drain" ELSE "phase2"
                    \/ Synced(v, "wait4") /\ l = "mourn"
                    \/ Synced(v, "wait5") /\ l = "release"
    BY Zenon, <1>9 DEF Continue, Goto
  <2>3. Hop(v, l) /\ l # "done"
    BY Zenon, <2>2 DEF Hop, Synced, Synced1, Synced2, Waits
  <2> QED BY Zenon, <2>1, <2>2, <2>3 DEF Step
<1> QED BY Zenon, <1>1, <1>2, <1>3, <1>4, <1>5, <1>6, <1>7, <1>8, <1>9 DEF Task

(* A task that comes in time is one more to wait for.                      *)
LEMMA EnterInv ==
    ASSUME SizeFacts, BarrierInv, NEW v \in Visitor, TryEnter(v), MayEnter
    PROVE  BarrierInv'
<1> Typed /\ Counts /\ Place(v) /\ Generation(v)
  BY Zenon DEF BarrierInv
<1>0. /\ Visitor' = Visitor /\ Main' = Main /\ NumTasks' = NumTasks
      /\ UNCHANGED <<heap, flushed, generation_, gen, ref_count_>>
      /\ participating_' = participating_ + 1 /\ remaining_' = remaining_ + 1
      /\ pc[v] = "spawned" /\ pc' = [pc EXCEPT ![v] = "busy"] /\ flushed \in Nat
  BY DEF TryEnter, MayEnter, Goto, flush, Visitor, Main, NumTasks, Typed
<1>1. pc'[v] = "busy" /\ DOMAIN pc' = Visitor /\ \A u \in Visitor : u # v => pc'[u] = pc[u]
  BY Zenon, <1>0 DEF Typed
<1>2. /\ flushed > 0 /\ gen[v] = 0 /\ ~Participates(v) /\ Participates(v)'
      /\ ~Arrived(v)' /\ Place(v)' /\ Generation(v)'
  BY <1>0, <1>1 DEF Place, Generation, Early, First, Synced1, Synced2, Waits, Participates,
     Arrived
<1>3. \A u \in Visitor : u # v => (Participates(u)' <=> Participates(u)) /\ (Arrived(u)' <=> Arrived(u))
  BY Zenon, <1>0, <1>1 DEF Participates, Arrived
<1>4. /\ Participants' = Participants \cup {v} /\ v \notin Participants
      /\ Late' = Late \cup {v} /\ v \notin Late
  BY Zenon, <1>0, <1>2, <1>3 DEF Participants, Late
<1>5. IsFiniteSet(Participants) /\ IsFiniteSet(Late)
  BY Zenon, Finite DEF Participants, Late
<1>6. /\ Cardinality(Participants \cup {v}) = Cardinality(Participants) + 1
      /\ Cardinality(Late \cup {v}) = Cardinality(Late) + 1
  BY Zenon, <1>4, <1>5 DEF SizeFacts, SizeAdd
<1>7. {u \in Visitor : pc'[u] # "done"} = {u \in Visitor : pc[u] # "done"}
  BY Zenon, <1>0, <1>1
<1>8. \A u \in Visitor : Place(u)' /\ Generation(u)'
  BY <1>0, <1>1, <1>2 DEF BarrierInv, Place, Generation
<1> QED BY Zenon, <1>0, <1>1, <1>4, <1>6, <1>7, <1>8 DEF BarrierInv, Typed, Counts

-----------------------------------------------------------------------------
(* Sync.                                                                   *)
Others(v) ==
    /\ Visitor' = Visitor /\ Main' = Main /\ NumTasks' = NumTasks
    /\ UNCHANGED <<heap, flushed, participating_, ref_count_>>
    /\ DOMAIN pc' = Visitor /\ gen' \in [Visitor -> Nat]
    /\ \A u \in Visitor : u # v => pc'[u] = pc[u] /\ gen'[u] = gen[u]

Arrives(v) ==
    /\ flushed > 0 /\ v \in Late /\ pc'[v] \in Waits /\ gen'[v] = generation_
    /\ \/ pc[v] = "sync1" /\ pc'[v] = "wait1"
       \/ generation_ > 0 /\ pc[v] \in Synced1 /\ pc'[v] \in Synced2

LEMMA SyncGoes ==
    ASSUME BarrierInv, NEW v \in Visitor, Sync(v)
    PROVE  Others(v) /\ Arrives(v)
<1> Typed /\ Place(v) /\ Generation(v)
  BY Zenon DEF BarrierInv
<1>1. /\ Visitor' = Visitor /\ Main' = Main /\ NumTasks' = NumTasks
      /\ UNCHANGED <<heap, flushed, participating_, ref_count_>>
      /\ pc[v] \in {"sync1", "sync2", "sync3", "sync4", "sync5"}
      /\ pc' = [pc EXCEPT ![v] = WaitAt[pc[v]]]
      /\ gen' = [gen EXCEPT ![v] = generation_] /\ flushed \in Nat
  BY DEF Sync, SyncAt, Goto, flush, Visitor, Main, NumTasks, Typed
<1>2. /\ WaitAt["sync1"] = "wait1" /\ WaitAt["sync2"] = "wait2"
      /\ WaitAt["sync3"] = "wait3" /\ WaitAt["sync4"] = "wait4"
      /\ WaitAt["sync5"] = "wait5"
  BY Zenon DEF WaitAt, SyncAt
<1>3. /\ DOMAIN pc' = Visitor /\ gen' \in [Visitor -> Nat] /\ gen'[v] = generation_
      /\ \A u \in Visitor : u # v => pc'[u] = pc[u] /\ gen'[u] = gen[u]
      /\ pc'[v] = WaitAt[pc[v]]
  BY Zenon, <1>1 DEF Typed
<1>4. /\ pc'[v] \in Waits
      /\ \/ pc[v] = "sync1" /\ pc'[v] = "wait1"
         \/ generation_ > 0 /\ pc[v] \in Synced1 /\ pc'[v] \in Synced2
  BY Zenon, <1>1, <1>2, <1>3 DEF Generation, Waits, Synced1, Synced2
<1>5. flushed > 0 /\ v \in Late
  BY <1>1 DEF Place, Early, First, Synced1, Synced2, Late, Participants, Participates,
     Arrived, Waits
<1> QED BY Zenon, <1>1, <1>3, <1>4, <1>5 DEF Others, Arrives

(* The last to arrive finds all others waiting.                            *)
LEMMA LastOne ==
    ASSUME SizeFacts, BarrierInv, NEW v \in Late, ArrivesLast
    PROVE  \A u \in Participants : u # v => Arrived(u)
<1>1. IsFiniteSet(Late) /\ Cardinality(Late) = 1
  BY Zenon, Finite DEF BarrierInv, Counts, ArrivesLast, Late, Participants
<1>2. Late = {v}
  BY <1>1 DEF SizeFacts, SizeOne
<1> QED BY Zenon, <1>2 DEF Late

(* What Sync leaves as it is.                                              *)
LEMMA SyncKeeps ==
    ASSUME BarrierInv, NEW v \in Visitor, Others(v), Arrives(v)
    PROVE  /\ Participants' = Participants /\ \A u \in Visitor : Place(u)'
           /\ {u \in Visitor : pc'[u] # "done"} = {u \in Visitor : pc[u] # "done"}
<1>1. /\ Participates(v)' /\ Participates(v) /\ Place(v)'
      /\ pc[v] # "done" /\ pc'[v] # "done"
  BY DEF Others, Arrives, Participates, Place, First, Synced1, Synced2, BarrierInv, Late,
     Participants
<1>2. ASSUME NEW u \in Visitor, u # v
      PROVE  (Participates(u)' <=> Participates(u)) /\ Place(u)'
  BY Zenon, <1>2 DEF Others, BarrierInv, Participates, Place
<1>3. Participants' = Participants
  BY Zenon, <1>1, <1>2 DEF Others, Participants
<1> QED BY Zenon, <1>1, <1>2, <1>3 DEF Others

LEMMA SyncLast ==
    ASSUME SizeFacts, BarrierInv, NEW v \in Visitor, Others(v), Arrives(v), ArrivesLast,
           generation_' = generation_ + 1, remaining_' = participating_
    PROVE  BarrierInv'
<1>1. \A u \in Participants : pc'[u] \in Waits /\ gen'[u] = generation_
  BY Zenon, LastOne DEF Others, Arrives, Arrived, Participants
<1>2. generation_ \in Nat /\ Typed'
  BY DEF BarrierInv, Others, Typed
<1>3. Late' = Participants
  BY <1>1, <1>2, SyncKeeps DEF Late, Arrived
<1>4. ASSUME NEW u \in Visitor
      PROVE  Generation(u)'
  <2>1. CASE u = v
    BY <1>2, <2>1 DEF Arrives, Generation, Synced1, Synced2
  <2>2. CASE u # v
    <3>1. pc[u] \in Waits => gen[u] = generation_
      BY Zenon, <1>1, <2>2 DEF Others, Arrives, Participants, Participates, Waits, First,
         Synced1, Synced2
    <3>2. Generation(u) /\ gen[u] \in Nat /\ pc'[u] = pc[u] /\ gen'[u] = gen[u]
      BY Zenon, <2>2 DEF BarrierInv, Typed, Others
    <3> QED BY <1>2, <3>1, <3>2 DEF Generation
  <2> QED BY Zenon, <2>1, <2>2
<1>5. Counts'
  BY Zenon, <1>3, SyncKeeps DEF Others, BarrierInv, Counts
<1> QED BY Zenon, <1>2, <1>4, <1>5, SyncKeeps DEF BarrierInv, Others

LEMMA SyncWaits ==
    ASSUME SizeFacts, BarrierInv, NEW v \in Visitor, Others(v), Arrives(v),
           generation_' = generation_, remaining_' = remaining_ - 1
    PROVE  BarrierInv'
<1>1. generation_ \in Nat /\ Typed'
  BY Zenon DEF BarrierInv, Others, Typed
<1>2. Late' = Late \ {v} /\ v \in Late
  BY Zenon, SyncKeeps DEF Others, Arrives, Late, Arrived, Participants
<1>3. Cardinality(Late \ {v}) = Cardinality(Late) - 1
  <2>1. IsFiniteSet(Late)
    BY Zenon, Finite DEF Late, Participants, BarrierInv
  <2> QED BY Zenon, <1>2, <2>1 DEF SizeFacts, SizeRemove
<1>4. ASSUME NEW u \in Visitor
      PROVE  Generation(u)'
  <2>1. CASE u = v
    BY <1>1, <2>1 DEF Arrives, Generation, Synced1, Synced2
  <2>2. CASE u # v
    BY Zenon, <2>2 DEF BarrierInv, Others, Generation
  <2> QED BY Zenon, <2>1, <2>2
<1>5. Counts'
  BY Zenon, <1>2, <1>3, SyncKeeps DEF Others, BarrierInv, Counts
<1> QED BY Zenon, <1>1, <1>4, <1>5, SyncKeeps DEF BarrierInv, Others

LEMMA SyncInv ==
    ASSUME SizeFacts, BarrierInv, NEW v \in Visitor, Sync(v)
    PROVE  BarrierInv'
<1>1. \/ ArrivesLast /\ generation_' = generation_ + 1 /\ remaining_' = participating_
      \/ generation_' = generation_ /\ remaining_' = remaining_ - 1
  BY Zenon DEF Sync
<1> QED BY Zenon, <1>1, SyncGoes, SyncLast, SyncWaits

-----------------------------------------------------------------------------
(* MarkObjects counts from the start, though it comes to the barrier last. *)
LEMMA FlushInv ==
    ASSUME BarrierInv, Flush
    PROVE  BarrierInv'
<1> Typed /\ Counts
  BY Zenon DEF BarrierInv
<1>0. /\ Visitor' = Visitor /\ Main' = Main /\ NumTasks' = NumTasks
      /\ UNCHANGED <<heap, generation_, gen, participating_, remaining_, ref_count_>>
      /\ Visitor = 1..NumTasks /\ NumTasks \in Nat /\ flushed \in Nat
  BY Sizes DEF Flush, barrier, Visitor, Main, NumTasks, Typed
<1>1. PICK v \in Visitor : v = flushed + 1
  BY Zenon DEF Flush
<1>2. /\ flushed' = v /\ flushed' > flushed /\ flushed' > 0
      /\ pc' = [pc EXCEPT ![v] = IF v = Main THEN "busy" ELSE "spawned"]
      /\ flushed = 0 => \A u \in Visitor : pc[u] = "parked"
  BY <1>0, <1>1 DEF Flush, Goto
<1>3. /\ DOMAIN pc' = Visitor /\ \A u \in Visitor : u # v => pc'[u] = pc[u]
      /\ pc'[v] = IF v = Main THEN "busy" ELSE "spawned"
  BY Zenon, <1>2 DEF Typed
<1>4. pc[v] = "parked" /\ gen[v] = 0
  BY Zenon, <1>0, <1>1, <1>2 DEF BarrierInv, Place
<1>5. \A u \in Visitor : (Participates(u)' <=> Participates(u)) /\ (Arrived(u)' <=> Arrived(u))
  <2>1. (Participates(v)' <=> Participates(v)) /\ ~Arrived(v) /\ ~Arrived(v)'
    BY Zenon, <1>0, <1>2, <1>3, <1>4 DEF Participates, Arrived, First, Synced1, Synced2, Waits
  <2>2. ASSUME NEW u \in Visitor, u # v
        PROVE  Participates(u)' <=> Participates(u)
    BY <1>0, <1>2, <1>3, <2>2 DEF Participates, First, Synced1, Synced2
  <2> QED BY Zenon, <1>0, <1>3, <2>1, <2>2 DEF Arrived
<1>6. Participants' = Participants /\ Late' = Late
  BY Zenon, <1>0, <1>5 DEF Participants, Late
<1>7. {u \in Visitor : pc'[u] # "done"} = {u \in Visitor : pc[u] # "done"}
  BY Zenon, <1>0, <1>3, <1>4
<1>8. ASSUME NEW u \in Visitor
      PROVE  Place(u)' /\ Generation(u)'
  <2>1. CASE u = v
    BY <1>0, <1>1, <1>2, <1>3, <1>4, <2>1
       DEF BarrierInv, Place, Generation, First, Synced1, Synced2, Waits
  <2>2. CASE u # v
    <3>1. pc'[u] = pc[u] /\ gen'[u] = gen[u] /\ u \in Nat /\ (u > v <=> u > flushed)
      BY <1>0, <1>1, <1>3, <2>2
    <3>2. CASE flushed = 0
      BY <1>0, <1>2, <3>1, <3>2 DEF BarrierInv, Place, Generation
    <3>3. CASE flushed # 0
      BY <1>0, <1>2, <3>1, <3>3 DEF BarrierInv, Place, Generation
    <3> QED BY Zenon, <3>2, <3>3
  <2> QED BY Zenon, <2>1, <2>2
<1>9. Typed'
  BY <1>0, <1>1, <1>2, <1>3 DEF Typed
<1>10. Counts'
  BY Zenon, <1>0, <1>6, <1>7 DEF Counts
<1> QED BY Zenon, <1>0, <1>8, <1>9, <1>10 DEF BarrierInv

LEMMA InitInv ==
    ASSUME SizeFacts, Init
    PROVE  BarrierInv
<1>1. /\ NumTasks \in Nat \ {0} /\ Main \in Visitor /\ Visitor = 1..NumTasks
      /\ Cardinality(Visitor) = NumTasks
  <2>1. NumTasks \in Nat \ {0}
    BY MarkAssumption DEF Init, NumTasks
  <2> QED BY <2>1 DEF SizeFacts, SizeInterval, Main, Visitor
<1>2. /\ DOMAIN pc = Visitor /\ flushed = 0 /\ generation_ = 0 /\ heap \in Heaps
      /\ gen \in [Visitor -> Nat] /\ ref_count_ = NumTasks
      /\ participating_ = 1 /\ remaining_ = 1
      /\ \A v \in Visitor : pc[v] \in {"croots", "parked"} /\ gen[v] = 0
  BY Zenon DEF Init
<1>3. Participants = {Main} /\ Late = {Main} /\ {v \in Visitor : pc[v] # "done"} = Visitor
  BY <1>1, <1>2 DEF Participants, Participates, Late, Arrived, Waits
<1>4. Cardinality({Main}) = 1
  BY Zenon DEF SizeFacts, SizeOne
<1>5. \A v \in Visitor : Place(v) /\ Generation(v)
  BY <1>2 DEF Place, Generation, Early, Waits, Synced1, Synced2
<1>6. Counts
  BY Zenon, <1>1, <1>2, <1>3, <1>4 DEF Counts
<1>7. Typed
  BY <1>1, <1>2 DEF Typed
<1> QED BY Zenon, <1>5, <1>6, <1>7 DEF BarrierInv

(* The steps that are not a task's own.                                    *)
LEMMA OtherMoves ==
    ASSUME BarrierInv,
           \/ MarkWhenIdle \/ UNCHANGED vars
           \/ \E v \in Visitor : SpuriousWakeup(v)
           \/ \E o \in Obj : WriteBarrier(o) \/ DeferredBarrier(o)
    PROVE  Step(Main)
<1>1. CASE MarkWhenIdle
  <2>1. SameBarrier /\ ref_count_' = ref_count_ /\ flushed = 0
    BY Zenon, <1>1 DEF MarkWhenIdle, Concurrent, SameBarrier, barrier, flush
  <2>2. PICK l \in {"drain", "parked"} : pc' = [pc EXCEPT ![Main] = l]
    BY Zenon, <1>1 DEF MarkWhenIdle, Goto
  <2>3. Hop(Main, l) /\ l # "done"
    BY Zenon, <2>1, <2>2 DEF Hop, Early
  <2> QED BY Zenon, <2>1, <2>2, <2>3 DEF Step
<1>2. CASE UNCHANGED vars \/ \E v \in Visitor : SpuriousWakeup(v)
  BY Zenon, <1>2 DEF vars, SpuriousWakeup, Step, SameBarrier, barrier, flush
<1>3. CASE \E o \in Obj : WriteBarrier(o) \/ DeferredBarrier(o)
  BY Zenon, <1>3 DEF WriteBarrier, DeferredBarrier, Step, SameBarrier, barrier, flush
<1> QED BY Zenon, <1>1, <1>2, <1>3

LEMMA NextInv ==
    ASSUME SizeFacts, BarrierInv, [Next]_vars
    PROVE  BarrierInv'
<1>1. ASSUME NEW v \in Visitor, Task(v)
      PROVE  BarrierInv'
  BY Zenon, <1>1, TaskMoves, StepInv, EnterInv, SyncInv
<1>2. Main \in Visitor
  BY Zenon, Sizes DEF BarrierInv
<1> QED BY Zenon, <1>1, <1>2, OtherMoves, StepInv, FlushInv DEF Next

-----------------------------------------------------------------------------
(* Rounds.  The stage of a task is the Sync it is in or on its way to; the *)
(* third leads back to the first or on to the fourth.                      *)
Waiting(v, l) == pc[v] = l /\ gen[v] = generation_

Stage(v) ==
    CASE Synced(v, "wait1") \/ pc[v] \in {"round", "sync2"} \/ Waiting(v, "wait2") -> 2
      [] Synced(v, "wait2") \/ pc[v] = "sync3" \/ Waiting(v, "wait3") -> 3
      [] (Synced(v, "wait3") /\ ~more[v]) \/ pc[v] \in {"phase2", "sync4"}
         \/ Waiting(v, "wait4") -> 4
      [] Synced(v, "wait4") \/ pc[v] \in {"mourn", "sync5"} \/ Waiting(v, "wait5") -> 5
      [] Synced(v, "wait5") \/ pc[v] \in {"release", "done"} -> 6
      [] OTHER -> 1

(* Nobody is in another stage than the rest.                               *)
Together == \A u, v \in Participants : Stage(u) = Stage(v)

(* In the third stage those who have decided have all decided the same.    *)
Deciding(v) == pc[v] = "sync3" \/ Waiting(v, "wait3")
Decided == \A v \in Visitor : Deciding(v) => (more[v] <=> num_busy > 0)

(* Those that num_busy counts.                                             *)
Working(v) ==
    /\ flushed > 0
    /\ \/ pc[v] \in {"roots", "defer", "drain", "pend", "last", "idle"}
       \/ pc[v] \in {"sync2", "wait2", "sync3", "wait3"} /\ more[v]
Workers == {v \in Visitor : Working(v)}

RoundInv ==
    /\ pc \in [Visitor -> PC] /\ more \in [Visitor -> BOOLEAN]
    /\ Together /\ Decided
    /\ num_busy = Cardinality(Workers)

(* What a step of v other than Sync and TryEnter does to these.            *)
Alone(v) ==
    /\ UNCHANGED <<heap, flushed, generation_, gen>>
    /\ pc' \in [Visitor -> PC] /\ more' \in [Visitor -> BOOLEAN]
    /\ \A u \in Visitor : u # v => pc'[u] = pc[u] /\ more'[u] = more[u]

Turn(v) ==
    \/ /\ num_busy' = num_busy
       /\ \/ pc'[v] = pc[v] /\ more'[v] = more[v]
          \/ flushed = 0 /\ pc'[v] \in Early
          \/ /\ flushed > 0
             /\ {pc[v], pc'[v]} \subseteq {"roots", "defer", "drain", "pend", "last", "idle"}
          \/ (pc[v] = "round" \/ Synced(v, "wait1")) /\ pc'[v] = "round"
          \/ /\ Synced(v, "wait3") /\ more'[v] = more[v]
             /\ pc'[v] = IF more[v] THEN "drain" ELSE "phase2"
          \/ pc[v] = "phase2" /\ pc'[v] = "sync4"
          \/ Synced(v, "wait4") /\ pc'[v] = "mourn"
          \/ pc[v] = "mourn" /\ pc'[v] = "sync5"
          \/ Synced(v, "wait5") /\ pc'[v] = "release"
          \/ pc[v] = "spawned" /\ pc'[v] = "release"
          \/ pc[v] = "release" /\ pc'[v] = "done"
          \/ pc[v] = "asleep" /\ pc'[v] \in {"asleep", "sync1"}
    \/ pc[v] \in {"busy", "asleep"} /\ pc'[v] \in {"roots", "drain"} /\ num_busy' = num_busy + 1
    \/ pc[v] = "idle" /\ pc'[v] \in {"asleep", "sync1"} /\ num_busy' = num_busy - 1
    \/ /\ pc[v] = "round" /\ pc'[v] = "sync2" /\ more'[v] = more[v]
       /\ num_busy' = num_busy + (IF more[v] THEN 1 ELSE 0)
    \/ /\ Synced(v, "wait2") /\ pc'[v] = "sync3" /\ more'[v] = (more[v] \/ num_busy > 0)
       /\ num_busy' = num_busy + (IF ~more[v] /\ num_busy > 0 THEN 1 ELSE 0)

LEMMA TurnStage ==
    ASSUME BarrierInv, NEW v \in Participants, Alone(v), Turn(v),
           more \in [Visitor -> BOOLEAN]
    PROVE  Stage(v)' = Stage(v)
<1>1. Place(v) /\ Generation(v) /\ gen[v] \in Nat /\ generation_ \in Nat /\ flushed \in Nat
  BY DEF BarrierInv, Typed, Participants
<1>2. UNCHANGED <<generation_, gen, flushed>> /\ more[v] \in BOOLEAN /\ more'[v] \in BOOLEAN
  BY Zenon DEF Alone, Participants
<1>3. Participates(v)
  BY Zenon DEF Participants
<1> QED BY <1>1, <1>2, <1>3 DEF Stage, Turn, Synced, Waiting, Place, Early, First, Synced1,
           Synced2, Participates

LEMMA TurnWorks ==
    ASSUME BarrierInv, NEW v \in Visitor, Alone(v), Turn(v),
           more \in [Visitor -> BOOLEAN], num_busy \in Nat
    PROVE  num_busy' = num_busy + (IF Working(v)' THEN 1 ELSE 0) - (IF Working(v) THEN 1 ELSE 0)
<1>1. Place(v) /\ flushed \in Nat /\ flushed' = flushed
  BY DEF BarrierInv, Typed, Alone
<1>2. more[v] \in BOOLEAN /\ more'[v] \in BOOLEAN
  BY Zenon DEF Alone
<1> QED BY <1>1, <1>2 DEF Working, Turn, Synced, Place, Early, First, Synced1, Synced2

(* Only the step to sync3 needs that v decides, and only a step of the     *)
(* third stage can find tasks that have decided.                           *)
LEMMA TurnDecides ==
    ASSUME BarrierInv, RoundInv, NEW v \in Visitor, Alone(v), Turn(v), num_busy \in Nat,
           Working(v) => num_busy > 0
    PROVE  Decided'
<1>1. /\ UNCHANGED <<generation_, gen, flushed>> /\ Visitor' = Visitor /\ flushed \in Nat
      /\ more[v] \in BOOLEAN /\ more'[v] \in BOOLEAN /\ Place(v)
  BY DEF BarrierInv, Typed, Alone, RoundInv, Visitor, NumTasks
<1>2. Deciding(v)' => (more'[v] <=> num_busy' > 0)
  BY <1>1 DEF RoundInv, Decided, Deciding, Waiting, Turn, Synced, Working, Place, Early,
     First, Synced1, Synced2
<1>3. ASSUME NEW u \in Visitor, u # v, Deciding(u)
      PROVE  num_busy' > 0 <=> num_busy > 0
  <2>1. Place(u) /\ flushed > 0 /\ u \in Participants /\ Stage(u) = 3
    BY <1>1, <1>3 DEF BarrierInv, Place, Early, Synced1, Synced2, Participants,
       Participates, Deciding, Waiting, Stage, Synced
  <2>2. CASE v \in Participants
    <3>1. Stage(v) = 3
      BY Zenon, <2>1, <2>2 DEF RoundInv, Together
    <3> QED BY <3>1 DEF Stage, Turn, Synced, Waiting
  <2>3. CASE v \notin Participants
    BY Zenon, <1>1, <2>1, <2>3 DEF Participants, Participates, Turn, First, Synced1, Synced2, Synced
  <2> QED BY Zenon, <2>2, <2>3
<1>4. ASSUME NEW u \in Visitor, u # v
      PROVE  (Deciding(u)' <=> Deciding(u)) /\ more'[u] = more[u]
  BY Zenon, <1>1, <1>4 DEF Alone, Deciding, Waiting
<1> QED BY Zenon, <1>1, <1>2, <1>3, <1>4 DEF RoundInv, Decided

LEMMA WorkersSize ==
    ASSUME SizeFacts, Typed, RoundInv
    PROVE  /\ IsFiniteSet(Workers) /\ num_busy \in Nat
           /\ \A v \in Visitor : Working(v) => num_busy > 0
<1>1. IsFiniteSet(Workers) /\ num_busy \in Nat
  BY Zenon, Finite DEF Workers, RoundInv
<1>2. num_busy = 0 => Workers = {}
  BY Zenon, <1>1 DEF RoundInv, SizeFacts, SizeEmpty
<1> QED BY <1>1, <1>2 DEF Workers

LEMMA TurnInv ==
    ASSUME SizeFacts, BarrierInv, RoundInv, NEW v \in Visitor, Alone(v), Turn(v),
           Participants' = Participants
    PROVE  RoundInv'
<1>1. /\ UNCHANGED <<generation_, gen, flushed>> /\ Visitor' = Visitor
      /\ more \in [Visitor -> BOOLEAN] /\ more' \in [Visitor' -> BOOLEAN]
      /\ pc' \in [Visitor' -> PC]
      /\ \A u \in Visitor : u # v => pc'[u] = pc[u] /\ more'[u] = more[u]
  BY Zenon DEF Alone, RoundInv, Visitor, NumTasks
<1>2. IsFiniteSet(Workers) /\ num_busy \in Nat /\ (Working(v) => num_busy > 0)
  BY Zenon, WorkersSize DEF BarrierInv
<1>3. Together'
  <2>1. \A u \in Participants : u # v => Stage(u)' = Stage(u)
    BY <1>1 DEF Stage, Synced, Waiting, Participants
  <2>2. v \in Participants => Stage(v)' = Stage(v)
    BY Zenon, <1>1, TurnStage
  <2> QED BY Zenon, <2>1, <2>2 DEF RoundInv, Together
<1>4. num_busy' = Cardinality(Workers')
  <2>1. num_busy' = num_busy + (IF Working(v)' THEN 1 ELSE 0) - (IF Working(v) THEN 1 ELSE 0)
    BY Zenon, <1>1, <1>2, TurnWorks
  <2>2. \A u \in Visitor : u # v => (Working(u)' <=> Working(u))
    BY Zenon, <1>1 DEF Working
  <2>3. CASE Working(v)' <=> Working(v)
    <3>1. Workers' = Workers
      BY Zenon, <1>1, <2>2, <2>3 DEF Workers
    <3> QED BY <1>2, <2>1, <2>3, <3>1 DEF RoundInv
  <2>4. CASE Working(v)' /\ ~Working(v)
    <3>1. Workers' = Workers \cup {v} /\ v \notin Workers
      BY Zenon, <1>1, <2>2, <2>4 DEF Workers
    <3>2. Cardinality(Workers \cup {v}) = Cardinality(Workers) + 1
      BY Zenon, <1>2, <3>1 DEF SizeFacts, SizeAdd
    <3> QED BY <1>2, <2>1, <2>4, <3>1, <3>2 DEF RoundInv
  <2>5. CASE ~Working(v)' /\ Working(v)
    <3>1. Workers' = Workers \ {v} /\ v \in Workers
      BY Zenon, <1>1, <2>2, <2>5 DEF Workers
    <3>2. Cardinality(Workers \ {v}) = Cardinality(Workers) - 1
      BY Zenon, <1>2, <3>1 DEF SizeFacts, SizeRemove
    <3> QED BY <1>2, <2>1, <2>5, <3>1, <3>2 DEF RoundInv
  <2> QED BY Zenon, <2>3, <2>4, <2>5
<1>5. Decided'
  BY Zenon, <1>2, TurnDecides
<1> QED BY Zenon, <1>1, <1>3, <1>4, <1>5 DEF RoundInv

-----------------------------------------------------------------------------
(* The steps.                                                              *)
LEMMA PCNames ==
    PC = {"croots", "roots", "parked", "spawned", "busy", "defer", "drain", "pend",
          "last", "idle", "asleep", "round", "phase2", "mourn", "release", "done",
          "sync1", "sync2", "sync3", "sync4", "sync5",
          "wait1", "wait2", "wait3", "wait4", "wait5"}
<1>1. /\ WaitAt["sync1"] = "wait1" /\ WaitAt["sync2"] = "wait2"
      /\ WaitAt["sync3"] = "wait3" /\ WaitAt["sync4"] = "wait4"
      /\ WaitAt["sync5"] = "wait5"
  BY Zenon DEF WaitAt, SyncAt
<1>2. {WaitAt[l] : l \in SyncAt} = {"wait1", "wait2", "wait3", "wait4", "wait5"}
  BY Zenon, <1>1 DEF SyncAt
<1> QED BY Zenon, <1>2 DEF PC, SyncAt

LEMMA TaskTurns ==
    ASSUME SizeFacts, BarrierInv, RoundInv, NEW v \in Visitor, Task(v), ~Sync(v),
           ~(TryEnter(v) /\ MayEnter)
    PROVE  Alone(v) /\ Turn(v)
<1>1. /\ Place(v) /\ flushed \in Nat /\ pc \in [Visitor -> PC]
      /\ more \in [Visitor -> BOOLEAN] /\ more[v] \in BOOLEAN /\ num_busy \in Nat
  BY WorkersSize DEF BarrierInv, Typed, RoundInv
<1>2. CASE MarkObject(v) \/ MarkDeferred(v)
  <2>1. UNCHANGED <<heap, flushed, generation_, gen, pc, more, num_busy>>
    BY Zenon, <1>2 DEF MarkObject, MarkDeferred, barrier, flush
  <2> QED BY Zenon, <1>1, <2>1 DEF Alone, Turn
<1>3. CASE IterateRoots(v) \/ EndPending(v) \/ ProcessDeferredMarking(v)
  <2>1. UNCHANGED <<heap, flushed, generation_, gen, more, num_busy>>
    BY Zenon, <1>3 DEF IterateRoots, EndPending, ProcessDeferredMarking, barrier, flush
  <2>2. PICK l : /\ pc' = [pc EXCEPT ![v] = l]
                 /\ \/ l = pc[v]
                    \/ pc[v] = "croots" /\ l \in {"parked", "drain"}
                    \/ pc[v] = "roots" /\ l = "defer"
                    \/ pc[v] = "pend" /\ (l = "last" \/ l = IF flushed = 0 THEN "parked" ELSE "idle")
                    \/ pc[v] = "defer" /\ l = "drain"
                    \/ pc[v] = "phase2" /\ l = "sync4"
    <3>1. CASE IterateRoots(v)
      <4>1. \/ pc' = pc
            \/ pc[v] = "croots" /\ pc' \in {[pc EXCEPT ![v] = "parked"], [pc EXCEPT ![v] = "drain"]}
            \/ pc[v] = "roots" /\ pc' = [pc EXCEPT ![v] = "defer"]
        <5> DEFINE l == CASE pc[v] = "roots" -> "defer"
                          [] LeftForIdleTime(v) -> "parked"
                          [] OTHER -> "drain"
        <5>1. pc[v] \in {"croots", "roots"} /\ (pc' = pc \/ pc' = [pc EXCEPT ![v] = l])
          BY Zenon, <3>1 DEF IterateRoots, At, Goto
        <5>2. (pc[v] = "roots" /\ l = "defer") \/ (pc[v] = "croots" /\ l \in {"parked", "drain"})
          BY Zenon, <5>1 DEF LeftForIdleTime
        <5> QED BY Zenon, <5>1, <5>2
      <4> QED BY Zenon, <1>1, <4>1
    <3>2. CASE EndPending(v) \/ ProcessDeferredMarking(v)
      BY Zenon, <1>1, <3>2 DEF EndPending, ProcessDeferredMarking, At, Goto, Concurrent
    <3> QED BY Zenon, <1>3, <3>1, <3>2
  <2>3. pc'[v] = l /\ Alone(v)
    BY Zenon, <1>1, <2>1, <2>2, PCNames DEF Alone
  <2> QED BY <1>1, <2>1, <2>2, <2>3 DEF Turn, Place, Early, First, Synced1, Synced2
<1>4. CASE Drain(v) \/ ProcessPending(v)
  <2>1. /\ UNCHANGED <<heap, flushed, generation_, gen, num_busy>>
        /\ more' \in [Visitor -> BOOLEAN] /\ \A u \in Visitor : u # v => more'[u] = more[u]
    BY Zenon, <1>1, <1>4 DEF Drain, ProcessPending, barrier, flush
  <2>2. PICK l : /\ pc' = [pc EXCEPT ![v] = l]
                 /\ \/ l = pc[v] /\ pc[v] \in {"pend", "round"}
                    \/ /\ pc[v] \in {"drain", "last"}
                       /\ l \in {"drain", "pend"} \/ l = IF flushed = 0 THEN "parked" ELSE "idle"
    <3>1. CASE Drain(v)
      BY Zenon, <1>1, <3>1 DEF Drain, At, Goto, Concurrent
    <3>2. CASE ProcessPending(v)
      <4>1. pc' = pc /\ pc[v] \in {"pend", "round"}
        BY Zenon, <3>2 DEF ProcessPending, At
      <4>2. pc' = [pc EXCEPT ![v] = pc[v]]
        BY Zenon, <1>1, <4>1
      <4> QED BY Zenon, <4>1, <4>2
    <3> QED BY Zenon, <1>4, <3>1, <3>2
  <2>3. pc'[v] = l /\ Alone(v)
    BY Zenon, <1>1, <2>1, <2>2, PCNames DEF Alone
  <2> QED BY <1>1, <2>1, <2>2, <2>3 DEF Turn, Place, Early, First, Synced1, Synced2
<1>5. CASE TryEnter(v) \/ Release(v) \/ Busy(v) \/ Continue(v) \/ Mourn(v)
  <2>1. UNCHANGED <<heap, flushed, generation_, gen, more>>
    BY Zenon, <1>5 DEF TryEnter, Release, Busy, Continue, Mourn, barrier, flush
  <2>2. PICK l : /\ pc' = [pc EXCEPT ![v] = l]
                 /\ \/ pc[v] = "busy" /\ l = "roots" /\ num_busy' = num_busy + 1
                    \/ /\ num_busy' = num_busy
                       /\ \/ pc[v] = "spawned" /\ l = "release"
                          \/ pc[v] = "release" /\ l = "done"
                          \/ Synced(v, "wait3") /\ l = IF more[v] THEN "drain" ELSE "phase2"
                          \/ Synced(v, "wait4") /\ l = "mourn"
                          \/ Synced(v, "wait5") /\ l = "release"
                          \/ pc[v] = "mourn" /\ l = "sync5"
    BY Zenon, <1>5 DEF TryEnter, Release, Busy, Continue, Mourn, Goto
  <2>3. pc'[v] = l /\ more'[v] = more[v] /\ Alone(v)
    BY Zenon, <1>1, <2>1, <2>2, PCNames DEF Alone
  <2> QED BY Zenon, <2>2, <2>3 DEF Turn
<1>6. CASE WaitForWork(v) \/ WakeUp(v)
  <2>1. UNCHANGED <<heap, flushed, generation_, gen, more>>
    BY Zenon, <1>6 DEF WaitForWork, WakeUp, barrier, flush
  <2>2. PICK l : /\ pc' = [pc EXCEPT ![v] = l]
                 /\ \/ /\ pc[v] = "idle"
                       /\ \/ l = "sync1" /\ num_busy = 1 /\ num_busy' = 0
                          \/ l = "drain" /\ num_busy' = (num_busy - 1) + 1
                          \/ l = "asleep" /\ num_busy' = num_busy - 1
                    \/ /\ pc[v] = "asleep"
                       /\ \/ l \in {"sync1", "asleep"} /\ num_busy' = num_busy
                          \/ l = "drain" /\ num_busy' = num_busy + 1
    BY Zenon, <1>6 DEF WaitForWork, WakeUp, TakeOrWait, Goto
  <2>3. pc'[v] = l /\ Alone(v)
    BY Zenon, <1>1, <2>1, <2>2, PCNames DEF Alone
  <2> QED BY <1>1, <2>2, <2>3 DEF Turn, Place, Early
<1>7. CASE BeginRound(v) \/ EndRound(v) \/ Decide(v)
  <2>1. /\ UNCHANGED <<heap, flushed, generation_, gen>>
        /\ more' \in [Visitor -> BOOLEAN] /\ \A u \in Visitor : u # v => more'[u] = more[u]
    BY Zenon, <1>1, <1>7 DEF BeginRound, EndRound, Decide, barrier, flush
  <2>2. PICK l : /\ pc' = [pc EXCEPT ![v] = l]
                 /\ \/ Synced(v, "wait1") /\ l = "round" /\ num_busy' = num_busy
                    \/ /\ pc[v] = "round" /\ l = "sync2" /\ more' = more
                       /\ num_busy' = num_busy + (IF more[v] THEN 1 ELSE 0)
                    \/ /\ Synced(v, "wait2") /\ l = "sync3"
                       /\ more'[v] = (more[v] \/ num_busy > 0)
                       /\ num_busy' = num_busy + (IF ~more[v] /\ num_busy > 0 THEN 1 ELSE 0)
    <3>1. CASE BeginRound(v) \/ EndRound(v)
      BY Zenon, <3>1 DEF BeginRound, EndRound, At, Goto
    <3>2. CASE Decide(v)
      BY Zenon, <1>1, <3>2 DEF Decide, JoinsRound, Goto
    <3> QED BY Zenon, <1>7, <3>1, <3>2
  <2>3. pc'[v] = l /\ Alone(v)
    BY Zenon, <1>1, <2>1, <2>2, PCNames DEF Alone
  <2> QED BY Zenon, <2>2, <2>3 DEF Turn
<1> QED BY Zenon, <1>2, <1>3, <1>4, <1>5, <1>6, <1>7 DEF Task

LEMMA OtherTurns ==
    ASSUME BarrierInv, RoundInv,
           \/ MarkWhenIdle \/ UNCHANGED vars
           \/ \E v \in Visitor : SpuriousWakeup(v)
           \/ \E o \in Obj : WriteBarrier(o) \/ DeferredBarrier(o)
    PROVE  Alone(Main) /\ Turn(Main)
<1>1. Main \in Visitor /\ pc \in [Visitor -> PC] /\ more \in [Visitor -> BOOLEAN]
  BY Zenon, Sizes DEF BarrierInv, RoundInv
<1>2. CASE MarkWhenIdle
  <2>1. UNCHANGED <<heap, flushed, generation_, gen, more, num_busy>> /\ flushed = 0
    BY Zenon, <1>2 DEF MarkWhenIdle, Concurrent, barrier, flush
  <2>2. PICK l \in {"drain", "parked"} : pc' = [pc EXCEPT ![Main] = l]
    BY Zenon, <1>2 DEF MarkWhenIdle, Goto
  <2>3. pc'[Main] = l /\ Alone(Main)
    BY Zenon, <1>1, <2>1, <2>2, PCNames DEF Alone
  <2> QED BY Zenon, <2>1, <2>2, <2>3 DEF Turn, Early
<1>3. CASE UNCHANGED <<heap, flushed, generation_, gen, pc, more, num_busy>>
  BY Zenon, <1>1, <1>3 DEF Alone, Turn
<1>4. CASE UNCHANGED vars \/ \E v \in Visitor : SpuriousWakeup(v)
  BY Zenon, <1>3, <1>4 DEF vars, SpuriousWakeup, barrier, flush
<1>5. CASE \E o \in Obj : WriteBarrier(o) \/ DeferredBarrier(o)
  BY Zenon, <1>3, <1>5 DEF WriteBarrier, DeferredBarrier, barrier, flush
<1> QED BY Zenon, <1>2, <1>4, <1>5

(* These steps do not change who takes part.                               *)
LEMMA StepKeeps ==
    ASSUME BarrierInv, NEW v \in Visitor, Step(v)
    PROVE  Participants' = Participants
<1>1. Typed /\ Place(v) /\ Generation(v)
  BY Zenon DEF BarrierInv
<1>2. /\ Visitor' = Visitor /\ Main' = Main /\ UNCHANGED <<flushed, generation_, gen>>
      /\ generation_ \in Nat /\ gen[v] \in Nat /\ flushed \in Nat
  BY <1>1 DEF Step, SameBarrier, Visitor, Main, NumTasks, Typed
<1>3. CASE UNCHANGED pc
  BY Zenon, <1>2, <1>3 DEF Participants, Participates
<1>4. ASSUME NEW l, pc' = [pc EXCEPT ![v] = l], Hop(v, l)
      PROVE  Participants' = Participants
  <2>1. pc'[v] = l /\ \A u \in Visitor : u # v => pc'[u] = pc[u]
    BY Zenon, <1>1, <1>4 DEF Typed
  <2>2. Participates(v)' <=> Participates(v)
    BY Zenon, <1>1, <1>2, <1>4, <2>1 DEF Hop, Participates, Early, First, Synced1, Synced2,
       Synced, Place, Generation
  <2>3. \A u \in Visitor : u # v => (Participates(u)' <=> Participates(u))
    BY Zenon, <1>2, <2>1 DEF Participates
  <2> QED BY Zenon, <1>2, <2>2, <2>3 DEF Participants
<1> QED BY Zenon, <1>3, <1>4 DEF Step

(* Nobody can join but in the first stage.                                 *)
LEMMA EnterRounds ==
    ASSUME SizeFacts, BarrierInv, RoundInv, NEW v \in Visitor, TryEnter(v), MayEnter
    PROVE  RoundInv'
<1>1. /\ Typed /\ flushed \in Nat /\ generation_ = 0 /\ pc \in [Visitor -> PC]
      /\ \A u \in Visitor : gen[u] \in Nat /\ Place(u) /\ Generation(u)
  BY DEF BarrierInv, Typed, RoundInv, MayEnter
<1>2. /\ Visitor' = Visitor /\ UNCHANGED <<heap, flushed, generation_, gen, more, num_busy>>
      /\ pc[v] = "spawned" /\ pc' = [pc EXCEPT ![v] = "busy"]
  BY Zenon DEF TryEnter, MayEnter, Goto, flush, Visitor, NumTasks
<1>3. /\ pc' \in [Visitor -> PC] /\ pc'[v] = "busy"
      /\ \A u \in Visitor : u # v => pc'[u] = pc[u]
  BY Zenon, <1>1, <1>2, PCNames
<1>4. ASSUME NEW u \in Participants'
      PROVE  Stage(u)' = 1
  <2>1. CASE u = v
    BY Zenon, <1>2, <1>3, <2>1 DEF Stage, Synced, Waiting
  <2>2. CASE u # v
    <3>1. u \in Visitor /\ pc'[u] = pc[u] /\ gen'[u] = gen[u] /\ gen[u] = 0
      BY <1>1, <1>2, <1>3, <2>2 DEF Participants, Generation
    <3>2. pc[u] \notin Synced1 /\ (pc[u] \notin {"release", "done"} \/ flushed = 0 \/ u # Main)
      BY <1>1, <3>1 DEF Generation, Place
    <3>3. pc[u] \notin {"release", "done"}
      BY <1>1, <1>2, <1>4, <3>1, <3>2 DEF Participants, Participates, Place, Early, First,
         Main, NumTasks, Synced1, Synced2
    <3> QED BY Zenon, <1>1, <1>2, <3>1, <3>2, <3>3 DEF Stage, Synced, Waiting, Synced1, Synced2
  <2> QED BY Zenon, <2>1, <2>2
<1>5. Together'
  BY Zenon, <1>4 DEF Together
<1>6. Workers' = Workers
  BY Zenon, <1>2, <1>3 DEF Workers, Working
<1>7. Decided'
  BY Zenon, <1>2, <1>3 DEF RoundInv, Decided, Deciding, Waiting
<1> QED BY Zenon, <1>2, <1>3, <1>5, <1>6, <1>7 DEF RoundInv

LEMMA FlushRounds ==
    ASSUME SizeFacts, BarrierInv, RoundInv, Flush
    PROVE  RoundInv' /\ Participants' = Participants
<1>1. /\ Typed /\ Visitor' = Visitor /\ Main' = Main
      /\ UNCHANGED <<heap, generation_, gen, more, num_busy>>
      /\ Visitor = 1..NumTasks /\ NumTasks \in Nat /\ flushed \in Nat
  BY Sizes DEF BarrierInv, Flush, barrier, Visitor, Main, NumTasks, Typed
<1>2. PICK v \in Visitor : v = flushed + 1
  BY Zenon DEF Flush
<1>3. /\ flushed' = v /\ flushed' > 0 /\ pc \in [Visitor -> PC]
      /\ pc' = [pc EXCEPT ![v] = IF v = Main THEN "busy" ELSE "spawned"]
      /\ flushed = 0 => \A u \in Visitor : pc[u] = "parked"
  BY <1>1, <1>2 DEF Flush, Goto, RoundInv
<1>4. /\ pc' \in [Visitor -> PC] /\ \A u \in Visitor : u # v => pc'[u] = pc[u]
      /\ pc'[v] = IF v = Main THEN "busy" ELSE "spawned"
  BY Zenon, <1>3, PCNames
<1>5. pc[v] = "parked" /\ gen[v] = 0
  BY <1>1, <1>2, <1>3 DEF BarrierInv, Place
<1>6. \A u \in Visitor : (Working(u)' <=> Working(u)) /\ (Participates(u)' <=> Participates(u))
                         /\ (Deciding(u)' <=> Deciding(u)) /\ Stage(u)' = Stage(u)
  <2>1. /\ (Working(v)' <=> Working(v)) /\ (Participates(v)' <=> Participates(v))
        /\ (Deciding(v)' <=> Deciding(v)) /\ Stage(v)' = Stage(v)
    BY Zenon, <1>1, <1>3, <1>4, <1>5 DEF Working, Participates, Deciding, Waiting, Stage, Synced,
       First, Synced1, Synced2
  <2>2. ASSUME NEW u \in Visitor, u # v
        PROVE  /\ (Working(u)' <=> Working(u)) /\ (Participates(u)' <=> Participates(u))
               /\ (Deciding(u)' <=> Deciding(u)) /\ Stage(u)' = Stage(u)
    BY <1>1, <1>3, <1>4, <2>2 DEF Working, Participates, Deciding, Waiting, Stage, Synced,
       First, Synced1, Synced2
  <2> QED BY Zenon, <2>1, <2>2
<1>7. Participants' = Participants /\ Workers' = Workers
  BY Zenon, <1>1, <1>6 DEF Participants, Workers
<1>8. Together' /\ Decided'
  BY <1>1, <1>6, <1>7 DEF RoundInv, Together, Decided, Participants
<1> QED BY Zenon, <1>1, <1>4, <1>7, <1>8 DEF RoundInv

(* Sync for the rounds: v waits, in the same stage.                        *)
Comes(v) ==
    /\ pc' \in [Visitor -> PC] /\ UNCHANGED <<more, num_busy>>
    /\ \/ pc[v] = "sync1" /\ pc'[v] = "wait1"
       \/ pc[v] = "sync2" /\ pc'[v] = "wait2"
       \/ pc[v] = "sync3" /\ pc'[v] = "wait3"
       \/ pc[v] = "sync4" /\ pc'[v] = "wait4"
       \/ pc[v] = "sync5" /\ pc'[v] = "wait5"

LEMMA SyncComes ==
    ASSUME RoundInv, NEW v \in Visitor, Sync(v)
    PROVE  Comes(v)
<1>1. /\ WaitAt["sync1"] = "wait1" /\ WaitAt["sync2"] = "wait2"
      /\ WaitAt["sync3"] = "wait3" /\ WaitAt["sync4"] = "wait4"
      /\ WaitAt["sync5"] = "wait5"
  BY Zenon DEF WaitAt, SyncAt
<1>2. /\ pc[v] \in {"sync1", "sync2", "sync3", "sync4", "sync5"}
      /\ pc' = [pc EXCEPT ![v] = WaitAt[pc[v]]] /\ pc \in [Visitor -> PC]
      /\ UNCHANGED <<more, num_busy>>
  BY Zenon DEF Sync, SyncAt, Goto, RoundInv
<1> QED BY <1>1, <1>2, PCNames DEF Comes

LEMMA SyncWorkers ==
    ASSUME BarrierInv, NEW v \in Visitor, Others(v), Comes(v)
    PROVE  Workers' = Workers
<1>1. \A u \in Visitor : u # v => (Working(u)' <=> Working(u))
  BY Zenon DEF Others, Comes, Working
<1>2. Working(v)' <=> Working(v)
  BY Zenon DEF Others, Comes, Working
<1> QED BY Zenon, <1>1, <1>2 DEF Others, Workers

LEMMA SyncWaitsRounds ==
    ASSUME BarrierInv, RoundInv, NEW v \in Visitor, Others(v), Arrives(v), Comes(v),
           generation_' = generation_
    PROVE  RoundInv'
<1>1. \A u \in Visitor : u # v => Stage(u)' = Stage(u) /\ (Deciding(u)' <=> Deciding(u))
  BY DEF Others, Comes, Stage, Synced, Waiting, Deciding
<1>2. Stage(v)' = Stage(v) /\ (Deciding(v)' <=> Deciding(v))
  BY Zenon DEF Arrives, Comes, Stage, Synced, Waiting, Deciding
<1>3. Together' /\ Decided'
  BY <1>1, <1>2, SyncKeeps DEF RoundInv, Together, Decided, Participants, Others, Comes
<1> QED BY Zenon, <1>3, SyncWorkers DEF RoundInv, Comes, Others

(* The end of a stage.                                                     *)
LEMMA SyncLastRounds ==
    ASSUME SizeFacts, BarrierInv, RoundInv, NEW v \in Visitor, Others(v), Arrives(v),
           Comes(v), ArrivesLast, generation_' = generation_ + 1
    PROVE  RoundInv'
<1>1. v \in Participants /\ generation_ \in Nat /\ generation_' # generation_
  BY DEF Arrives, Late, BarrierInv, Typed
<1>2. ASSUME NEW u \in Participants
      PROVE  pc'[u] = pc'[v] /\ gen'[u] # generation_' /\ more'[u] = more[u]
  <2>1. CASE u = v
    BY Zenon, <1>1, <2>1 DEF Arrives, Comes
  <2>2. CASE u # v
    <3>1. Arrived(u) /\ pc'[u] = pc[u] /\ gen'[u] = gen[u] /\ Stage(u) = Stage(v)
      BY Zenon, <1>1, <2>2, LastOne DEF Arrives, Others, Participants, RoundInv, Together
    <3> QED BY <1>1, <3>1 DEF Arrived, Waits, Stage, Synced, Waiting, Comes
  <2> QED BY Zenon, <2>1, <2>2
<1>3. pc[v] = "sync3" => \A u \in Participants : more[u] <=> num_busy > 0
  <2>1. SUFFICES ASSUME pc[v] = "sync3", NEW u \in Participants
                 PROVE  Deciding(u)
    BY Zenon DEF RoundInv, Decided, Participants
  <2>2. CASE u = v
    BY Zenon, <2>1, <2>2 DEF Deciding
  <2>3. CASE u # v
    <3>1. Arrived(u) /\ Stage(u) = 3
      BY <1>1, <2>1, <2>3, LastOne DEF Arrives, RoundInv, Together, Stage, Synced, Waiting
    <3> QED BY <3>1 DEF Arrived, Waits, Stage, Synced, Waiting, Deciding
  <2> QED BY Zenon, <2>2, <2>3
<1>4. Together'
  <2>1. ASSUME NEW u \in Participants, NEW w \in Participants
        PROVE  Stage(u)' = Stage(w)'
    <3>1. pc[v] = "sync3" => (more[u] <=> more[w])
      BY Zenon, <1>3
    <3> QED BY Zenon, <1>1, <1>2, <3>1 DEF Comes, Stage, Synced, Waiting
  <2> QED BY Zenon, <2>1, SyncKeeps DEF Together
<1>5. Decided'
  <2>1. ASSUME NEW u \in Visitor, Deciding(u)'
        PROVE  FALSE
    <3>1. u \notin Participants
      BY Zenon, <1>2, <2>1 DEF Deciding, Waiting, Comes
    <3>2. u # v /\ pc'[u] = pc[u] /\ flushed > 0
      BY Zenon, <1>1, <3>1 DEF Others, Arrives
    <3> QED BY Zenon, <2>1, <3>1, <3>2 DEF Participants, Participates, Deciding, Waiting, Synced1,
               Synced2
  <2> QED BY Zenon, <2>1 DEF Decided, Others
<1> QED BY Zenon, <1>4, <1>5, SyncWorkers DEF RoundInv, Comes, Others

LEMMA SyncRounds ==
    ASSUME SizeFacts, BarrierInv, RoundInv, NEW v \in Visitor, Sync(v)
    PROVE  RoundInv'
<1>1. \/ ArrivesLast /\ generation_' = generation_ + 1
      \/ generation_' = generation_
  BY Zenon DEF Sync
<1> QED BY Zenon, <1>1, SyncGoes, SyncComes, SyncLastRounds, SyncWaitsRounds

LEMMA InitRounds ==
    ASSUME SizeFacts, Init
    PROVE  RoundInv
<1>1. BarrierInv /\ Main \in Visitor
  BY Zenon, InitInv, Sizes DEF BarrierInv
<1>2. /\ flushed = 0 /\ more \in [Visitor -> BOOLEAN] /\ num_busy = 0 /\ pc \in [Visitor -> PC]
      /\ \A v \in Visitor : pc[v] \in {"croots", "parked"} /\ gen[v] = 0
  BY Zenon, PCNames DEF Init
<1>3. Participants = {Main} /\ Workers = {}
  BY <1>1, <1>2 DEF Participants, Participates, Workers, Working
<1>4. Together /\ Decided
  BY Zenon, <1>2, <1>3 DEF Together, Decided, Deciding, Waiting
<1>5. Cardinality(Workers) = 0
  BY Zenon, <1>3 DEF SizeFacts, SizeEmpty
<1> QED BY Zenon, <1>2, <1>4, <1>5 DEF RoundInv

LEMMA NextRounds ==
    ASSUME SizeFacts, BarrierInv, RoundInv, [Next]_vars
    PROVE  RoundInv'
<1>1. ASSUME NEW v \in Visitor, Task(v)
      PROVE  RoundInv'
  BY Zenon, <1>1, TaskMoves, TaskTurns, StepKeeps, TurnInv, EnterRounds, SyncRounds
<1>2. Main \in Visitor
  BY Zenon, Sizes DEF BarrierInv
<1>3. CASE \/ MarkWhenIdle \/ UNCHANGED vars
           \/ \E v \in Visitor : SpuriousWakeup(v)
           \/ \E o \in Obj : WriteBarrier(o) \/ DeferredBarrier(o)
  BY Zenon, <1>2, <1>3, OtherMoves, OtherTurns, StepKeeps, TurnInv
<1> QED BY Zenon, <1>1, <1>3, FlushRounds DEF Next

(* Once MarkObjects is past its last Sync, so are all.                     *)
LEMMA InvReturned ==
    ASSUME BarrierInv, RoundInv, pc[Main] \in {"release", "done"}, NEW v \in Visitor
    PROVE  pc[v] \in {"spawned", "wait5", "release", "done"}
<1>1. /\ Main \in Visitor /\ Main \in Participants /\ flushed \in Nat /\ Main = NumTasks
      /\ Visitor = 1..NumTasks /\ NumTasks \in Nat /\ Place(Main) /\ Place(v)
  BY Sizes DEF BarrierInv, Participants, Participates, Typed
<1>2. flushed > 0 /\ pc[v] # "parked"
  BY <1>1 DEF Place, Early
<1>3. CASE v \in Participants
  <2>1. Stage(v) = 6
    BY Zenon, <1>1, <1>3 DEF RoundInv, Together, Stage, Synced, Waiting
  <2> QED BY <2>1 DEF Stage, Synced, Waiting
<1>4. CASE v \notin Participants
  BY Zenon, <1>1, <1>2, <1>4 DEF Participants, Participates, Place
<1> QED BY Zenon, <1>3, <1>4
=============================================================================
