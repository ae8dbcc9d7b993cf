-------------------------- MODULE ThreadPoolProofs --------------------------
(***************************************************************************)
(* The thread pool never strands a task, for any number of workers, any    *)
(* tasks and any limit: Spec => []NoStrandedTask, from an inductive        *)
(* invariant made of the types, the bookkeeping and TaskGuard.             *)
(***************************************************************************)
EXTENDS ThreadPool, SetSizes, TLAPS

IInv == TypeOK /\ Bookkeeping /\ TaskGuard

(* Sizes of sets of workers when one is added or removed, and their order. *)
LEMMA CardAdd ==
    ASSUME SizeFacts, NEW S \in SUBSET Worker, NEW x \in Worker, x \notin S
    PROVE  /\ Cardinality(S) \in Nat
           /\ Cardinality(S \cup {x}) = Cardinality(S) + 1
  <1>1. IsFiniteSet(S)  BY PoolAssumption DEF SizeFacts, SizeSubset
  <1>2. QED  BY <1>1 DEF SizeFacts, SizeAdd, SizeIsNat

(* A worker leaving a list lowers the list's size by one. *)
LEMMA CardRemove ==
    ASSUME SizeFacts, NEW S \in SUBSET Worker, NEW x \in S
    PROVE  /\ Cardinality(S) \in Nat /\ Cardinality(S) > 0
           /\ Cardinality(S \ {x}) = Cardinality(S) - 1
  <1>1. IsFiniteSet(S)  BY PoolAssumption DEF SizeFacts, SizeSubset
  <1>2. Cardinality(S) \in Nat /\ Cardinality(S) # 0
    BY <1>1 DEF SizeFacts, SizeEmpty, SizeIsNat
  <1>3. Cardinality(S \ {x}) = Cardinality(S) - 1
    BY <1>1 DEF SizeFacts, SizeRemove
  <1>4. QED  BY <1>2, <1>3

(* A worker list contained in another is not longer, and is empty iff its size is 0. *)
LEMMA CardMono ==
    ASSUME SizeFacts, NEW T \in SUBSET Worker, NEW S \in SUBSET T
    PROVE  /\ Cardinality(S) \in Nat /\ Cardinality(T) \in Nat
           /\ Cardinality(S) <= Cardinality(T)
           /\ Cardinality(S) > 0 => S # {}
           /\ S # {} => Cardinality(S) > 0
  <1>1. IsFiniteSet(T)  BY PoolAssumption DEF SizeFacts, SizeSubset
  <1>2. IsFiniteSet(S)  BY <1>1 DEF SizeFacts, SizeSubset
  <1>3. QED  BY <1>1, <1>2 DEF SizeFacts, SizeSubset, SizeIsNat, SizeEmpty

(* The pool starts empty, so the invariant holds of a new ThreadPool.      *)
LEMMA InitIInv == ASSUME SizeFacts, Init PROVE IInv
  <1>1. PoolTypeOK
    BY PoolAssumption DEF Init, PoolTypeOK
  <1>2. ThreadTypeOK
    BY Zenon DEF Init, ThreadTypeOK, PC
  <1>3. Bookkeeping
    BY PoolAssumption DEF SizeFacts, SizeEmpty, Init, Bookkeeping, IdlePC
  <1>4. TaskGuard
    BY DEF Init, TaskGuard
  <1>5. QED  BY <1>1, <1>2, <1>3, <1>4 DEF IInv, TypeOK

(* The first conjunct of TaskGuard survives a step in which no idle worker *)
(* falls asleep, the idle list stays and the queue does not grow.          *)
LEMMA AwakeMono ==
    ASSUME SizeFacts, IInv, idle_workers_' = idle_workers_, AwakeIdle \subseteq AwakeIdle',
           pending_tasks_' \in Nat, pending_tasks_' <= pending_tasks_,
           pending_tasks_' > 0
    PROVE  Cardinality(AwakeIdle') >= pending_tasks_' \/ AwakeIdle' = idle_workers_'
  <1> USE DEF IInv, TypeOK, PoolTypeOK
  <1>1. AwakeIdle' \subseteq idle_workers_'
    BY DEF AwakeIdle
  <1>2. CASE AwakeIdle = idle_workers_
    BY <1>1, <1>2
  <1>3. CASE Cardinality(AwakeIdle) >= pending_tasks_
    <2>1. AwakeIdle' \in SUBSET Worker
      BY <1>1
    <2>2. Cardinality(AwakeIdle) <= Cardinality(AwakeIdle')
          /\ Cardinality(AwakeIdle) \in Nat /\ Cardinality(AwakeIdle') \in Nat
      BY <2>1, CardMono
    <2>3. QED  BY <1>3, <2>2
  <1>4. QED  BY <1>2, <1>3 DEF TaskGuard

(* new Worker(this) keeps the lists, the counters and the first conjunct   *)
(* of TaskGuard right, even when the queue grows by one task.              *)
LEMMA NewWorkerInv ==
    ASSUME SizeFacts, IInv, NEW w \in Worker, NewWorker(w),
           UNCHANGED <<wake, running_workers_>>
    PROVE  /\ idle_workers_' = {x \in Worker : pc'[x] \in IdlePC}
           /\ running_workers_' = {x \in Worker : pc'[x] = "run"}
           /\ count_idle_' = Cardinality(idle_workers_')
           /\ AwakeIdle' = AwakeIdle \cup {w}
           /\ Cardinality(AwakeIdle') = Cardinality(AwakeIdle) + 1
           /\ Cardinality(AwakeIdle) \in Nat
  <1> USE DEF IInv, TypeOK, PoolTypeOK, ThreadTypeOK
  <1>1. w \notin idle_workers_
    BY DEF NewWorker, Bookkeeping, IdlePC
  <1>2. Cardinality(idle_workers_ \cup {w}) = Cardinality(idle_workers_) + 1
    BY <1>1, CardAdd
  <1>3. count_idle_' = Cardinality(idle_workers_')
    BY <1>2 DEF NewWorker, Bookkeeping
  <1>4. idle_workers_' = {x \in Worker : pc'[x] \in IdlePC}
    BY DEF NewWorker, Bookkeeping, IdlePC
  <1>5. running_workers_' = {x \in Worker : pc'[x] = "run"}
    BY DEF NewWorker, Bookkeeping
  <1>6. AwakeIdle' = AwakeIdle \cup {w}
    BY DEF NewWorker, AwakeIdle, Waiting, WaitPC
  <1>7. AwakeIdle \in SUBSET Worker /\ w \notin AwakeIdle
    BY <1>1 DEF AwakeIdle
  <1>8. QED  BY <1>3, <1>4, <1>5, <1>6, <1>7, CardAdd

(* Monitor::Notify wakes an idle worker if any idle worker sleeps.         *)
LEMMA NotifyWakes ==
    ASSUME SizeFacts, IInv, Notify, UNCHANGED <<pc, idle_workers_>>, pending_tasks_ \in Nat
    PROVE  \/ AwakeIdle' = idle_workers_'
           \/ Cardinality(AwakeIdle') >= pending_tasks_ + 1
  <1> USE DEF IInv, TypeOK, PoolTypeOK, ThreadTypeOK
  <1>1. CASE Waiters = {}
    BY <1>1 DEF AwakeIdle, Waiters, Waiting, Notify
  <1>2. CASE Waiters # {}
    <2>1. PICK w \in Waiters : wake' = [wake EXCEPT ![w] = "notified"]
      BY <1>2 DEF Notify
    <2>2. w \in idle_workers_ /\ w \notin AwakeIdle /\ w \in Worker
      BY DEF Waiters, Waiting, WaitPC, Bookkeeping, IdlePC, AwakeIdle
    <2>3. AwakeIdle' = AwakeIdle \cup {w}
      BY <2>1, <2>2 DEF AwakeIdle, Waiting
    <2>4. AwakeIdle \in SUBSET Worker
      BY DEF AwakeIdle
    <2>5. Cardinality(AwakeIdle') = Cardinality(AwakeIdle) + 1
          /\ Cardinality(AwakeIdle) \in Nat
      BY Zenon, <2>2, <2>3, <2>4, CardAdd
    <2>6. AwakeIdle # idle_workers_
      BY <2>2
    <2>7. pending_tasks_ > 0 => Cardinality(AwakeIdle) >= pending_tasks_
      BY <2>6 DEF TaskGuard
    <2>8. QED  BY <2>5, <2>7
  <1>3. QED  BY <1>1, <1>2

(* RunImpl, whichever branch of ScheduleTaskLocked it takes, keeps the invariant. *)
LEMMA RunInv == ASSUME SizeFacts, IInv, NEW t \in Task, RunImpl(t) PROVE IInv'
  <1> USE DEF IInv, TypeOK
  <1>1. PoolTypeOK'
    BY DEF PoolTypeOK, RunImpl, ScheduleTaskLocked, NewWorker, limits, graveyard
  <1>2. ThreadTypeOK'
    BY DEF ThreadTypeOK, RunImpl, ScheduleTaskLocked, Notify, NewWorker,
           Waiters, PC, graveyard, shutdown
  <1>3. /\ UNCHANGED <<running_workers_, is_blocked_, max_pool_size_,
                       count_running_, dead_workers_, count_dead_>>
        /\ pending_tasks_' = pending_tasks_ + 1
        /\ pending_tasks_' = Len(tasks_')
    BY DEF RunImpl, ScheduleTaskLocked, limits, graveyard, Bookkeeping, PoolTypeOK
  <1>4. CASE UNCHANGED <<pc, idle_workers_, count_idle_>>
    <2>1. Bookkeeping'
      BY <1>3, <1>4 DEF Bookkeeping
    <2>2. AwakeIdle' = idle_workers_' \/ Cardinality(AwakeIdle') >= pending_tasks_'
      <3>1. CASE Notify
        BY <1>3, <1>4, <3>1, NotifyWakes DEF PoolTypeOK
      <3>2. CASE idle_workers_ = {}
        BY <1>4, <3>2 DEF AwakeIdle
      <3>3. QED
        BY <1>4, <3>1, <3>2 DEF RunImpl, ScheduleTaskLocked, NewWorker, PoolTypeOK
    <2>3. EnoughIdle \/ MaxedOut
      BY <1>4 DEF RunImpl, ScheduleTaskLocked, NewWorker, PoolTypeOK
    <2>4. ASSUME idle_workers_ = {} PROVE running_workers_ \ is_blocked_ # {}
      <3>1. count_idle_ = 0
        BY <2>4 DEF SizeFacts, SizeEmpty, Bookkeeping
      <3>2. max_pool_size_ > 0 /\ count_running_ >= max_pool_size_
        BY <2>3, <3>1 DEF EnoughIdle, MaxedOut, PoolTypeOK
      <3>3. Cardinality(is_blocked_) \in Nat
        BY CardMono DEF PoolTypeOK
      <3>4. Cardinality(running_workers_) > Cardinality(is_blocked_)
        BY <3>2, <3>3, PoolAssumption DEF Bookkeeping, PoolTypeOK
      <3>5. running_workers_ # is_blocked_
        BY <3>3, <3>4
      <3>6. QED  BY <3>5 DEF Bookkeeping
    <2>5. MaxPoolSize = 0 => count_idle_ >= pending_tasks_ + 1
      BY <2>3 DEF EnoughIdle, MaxedOut, Bookkeeping
    <2>6. TaskGuard'
      BY <1>3, <1>4, <2>2, <2>4, <2>5 DEF TaskGuard
    <2>7. QED
      BY <1>1, <1>2, <2>1, <2>6
  <1>5. CASE \E w \in Worker : NewWorker(w) /\ UNCHANGED wake
    <2>1. PICK w \in Worker : NewWorker(w) /\ UNCHANGED wake
      BY <1>5
    <2>2. Bookkeeping'
      BY <1>3, <2>1, NewWorkerInv DEF Bookkeeping
    <2>3. /\ AwakeIdle' = AwakeIdle \cup {w}
          /\ Cardinality(AwakeIdle') = Cardinality(AwakeIdle) + 1
          /\ Cardinality(AwakeIdle) \in Nat
      BY <1>3, <2>1, NewWorkerInv
    <2>4. idle_workers_' = idle_workers_ \cup {w} /\ count_idle_' = count_idle_ + 1
      BY <2>1 DEF NewWorker
    <2>5. Cardinality(AwakeIdle') >= pending_tasks_' \/ AwakeIdle' = idle_workers_'
      <3>1. CASE pending_tasks_ > 0 /\ AwakeIdle = idle_workers_
        BY <2>3, <2>4, <3>1
      <3>2. CASE pending_tasks_ = 0 \/ Cardinality(AwakeIdle) >= pending_tasks_
        BY <1>3, <2>3, <3>2 DEF PoolTypeOK
      <3>3. QED  BY <3>1, <3>2 DEF TaskGuard, PoolTypeOK
    <2>6. MaxPoolSize = 0 => count_idle_' >= pending_tasks_'
      BY <1>3, <2>4 DEF TaskGuard, PoolTypeOK
    <2>7. idle_workers_' # {}
      BY <2>4
    <2>8. QED  BY <1>1, <1>2, <2>2, <2>5, <2>6, <2>7 DEF TaskGuard
  <1>6. QED  BY <1>4, <1>5 DEF RunImpl, ScheduleTaskLocked

(* Steps that leave lists, counters, queue and limits alone and put no     *)
(* idle worker to sleep.                                                   *)
LEMMA QuietInv ==
    ASSUME SizeFacts, IInv, TypeOK', UNCHANGED <<queue, alive, dead_workers_, count_dead_, limits>>,
           \A x \in Worker : /\ pc'[x] \in IdlePC <=> pc[x] \in IdlePC
                             /\ pc'[x] = "run" <=> pc[x] = "run"
                             /\ Waiting(x)' => Waiting(x)
    PROVE  IInv'
  <1> USE DEF IInv, queue, alive, limits
  <1>1. Bookkeeping'
    BY DEF Bookkeeping
  <1>2. AwakeIdle \subseteq AwakeIdle'
    BY DEF AwakeIdle, TypeOK, PoolTypeOK
  <1>3. pending_tasks_' > 0 =>
          Cardinality(AwakeIdle') >= pending_tasks_' \/ AwakeIdle' = idle_workers_'
    BY <1>2, AwakeMono DEF TypeOK, PoolTypeOK
  <1>4. TaskGuard'
    BY <1>3 DEF TaskGuard
  <1>5. QED  BY <1>1, <1>4

(* Thread start, exit, joins and ends of waits are such steps. *)
LEMMA QuietStepsInv ==
    ASSUME SizeFacts, IInv, NEW w \in Worker,
           \/ StartThread(w) \/ SignalExit(w) \/ JoinOne(w) \/ Exit(w)
           \/ TimeOut(w) \/ SpuriousWakeup(w)
    PROVE  IInv'
  <1> USE DEF IInv, TypeOK, queue, alive, limits, graveyard, shutdown
  <1>1. /\ UNCHANGED <<queue, alive, dead_workers_, count_dead_, limits>>
        /\ PoolTypeOK'
    BY DEF PoolTypeOK, StartThread, SignalExit, JoinOne, Exit, TimeOut,
           SpuriousWakeup, WaitEnds
  <1>2. ThreadTypeOK'
    BY DEF ThreadTypeOK, PC, StartThread, SignalExit, JoinOne, Exit, TimeOut,
           SpuriousWakeup, WaitEnds
  <1>3. \A x \in Worker : /\ pc'[x] \in IdlePC <=> pc[x] \in IdlePC
                          /\ pc'[x] = "run" <=> pc[x] = "run"
                          /\ Waiting(x)' => Waiting(x)
    BY DEF ThreadTypeOK, PC, IdlePC, Waiting, WaitPC, StartThread, SignalExit,
           JoinOne, Exit, TimeOut, SpuriousWakeup, WaitEnds
  <1>4. QED  BY <1>1, <1>2, <1>3, QuietInv

(* No critical section of Shutdown disturbs the invariant. *)
LEMMA ShutdownInv ==
    ASSUME SizeFacts, IInv, \/ ShutdownBegin \/ ShutdownStep \/ ShutdownSpuriousWakeup
    PROVE  IInv'
  <1> USE DEF IInv, TypeOK, queue, alive, limits, graveyard, shutdown
  <1>1. CASE ShutdownObtainDead
    <2>1. PoolTypeOK'
      BY <1>1 DEF PoolTypeOK, ShutdownObtainDead
    <2>2. ThreadTypeOK'
      BY <1>1 DEF ThreadTypeOK, PoolTypeOK, ShutdownObtainDead
    <2>3. Bookkeeping'
      BY <1>1 DEF SizeFacts, SizeEmpty, Bookkeeping, ShutdownObtainDead
    <2>4. AwakeIdle' = AwakeIdle
      BY <1>1 DEF AwakeIdle, Waiting, ShutdownObtainDead
    <2>5. TaskGuard'
      BY <1>1, <2>4 DEF TaskGuard, ShutdownObtainDead
    <2>6. QED  BY <2>1, <2>2, <2>3, <2>5
  <1>2. CASE ShutdownBegin \/ ShutdownExitCheck \/ ShutdownJoin \/ ShutdownSpuriousWakeup
    <2>1. /\ UNCHANGED <<queue, alive, dead_workers_, count_dead_, limits>>
          /\ PoolTypeOK'
      BY <1>2 DEF PoolTypeOK, ShutdownBegin, ShutdownExitCheck, ShutdownJoin,
                  ShutdownSpuriousWakeup
    <2>2. ThreadTypeOK'
      BY <1>2 DEF ThreadTypeOK, PC, ShutdownBegin, ShutdownExitCheck,
                  ShutdownJoin, ShutdownSpuriousWakeup, NotifyAll
    <2>3. \A x \in Worker : /\ pc'[x] \in IdlePC <=> pc[x] \in IdlePC
                            /\ pc'[x] = "run" <=> pc[x] = "run"
                            /\ Waiting(x)' => Waiting(x)
      BY <1>2 DEF ThreadTypeOK, PC, IdlePC, Waiting, WaitPC, ShutdownBegin,
                  ShutdownExitCheck, ShutdownJoin, ShutdownSpuriousWakeup,
                  NotifyAll
    <2>4. QED  BY <2>1, <2>2, <2>3, QuietInv
  <1>3. QED  BY <1>1, <1>2 DEF ShutdownStep

(* IdleToRunningLocked and the first RemoveFirst keep the invariant. *)
LEMMA LoopTakeTaskInv == ASSUME SizeFacts, IInv, NEW w \in Worker, LoopTakeTask(w) PROVE IInv'
  <1> USE DEF IInv, TypeOK, limits, graveyard, shutdown
  <1>1. /\ tasks_ # <<>> /\ Len(tasks_') = Len(tasks_) - 1 /\ tasks_' \in Seq(Task)
        /\ pending_tasks_' = pending_tasks_ - 1 /\ pending_tasks_ > 0
    BY DEF LoopTakeTask, TakeTask, PoolTypeOK, Bookkeeping
  <1>2. w \in idle_workers_ /\ w \notin running_workers_ /\ w \in AwakeIdle
    BY DEF LoopTakeTask, Bookkeeping, IdlePC, AwakeIdle, Waiting, WaitPC
  <1>3. /\ Cardinality(idle_workers_ \ {w}) = Cardinality(idle_workers_) - 1
        /\ Cardinality(idle_workers_) > 0
        /\ Cardinality(running_workers_ \cup {w}) = Cardinality(running_workers_) + 1
    BY <1>2, CardAdd, CardRemove DEF PoolTypeOK
  <1>4. PoolTypeOK'
    BY SMTT(30), <1>1, <1>3 DEF LoopTakeTask, PoolTypeOK, Bookkeeping
  <1>5. Head(tasks_) \in Task
    BY <1>1 DEF PoolTypeOK
  <1>6. ThreadTypeOK'
    BY <1>5 DEF LoopTakeTask, TakeTask, ThreadTypeOK, PC
  <1>7. Bookkeeping'
    <2>1. idle_workers_' = {x \in Worker : pc'[x] \in IdlePC}
      BY DEF LoopTakeTask, Bookkeeping, IdlePC, ThreadTypeOK
    <2>2. running_workers_' = {x \in Worker : pc'[x] = "run"}
      BY DEF LoopTakeTask, Bookkeeping, ThreadTypeOK
    <2>3. is_blocked_' \subseteq running_workers_'
      BY DEF LoopTakeTask, Bookkeeping
    <2>4. QED
      BY <1>1, <1>3, <2>1, <2>2, <2>3 DEF LoopTakeTask, Bookkeeping
  <1>8. AwakeIdle' = AwakeIdle \ {w}
    BY DEF LoopTakeTask, AwakeIdle, Waiting, WaitPC, ThreadTypeOK, PoolTypeOK
  <1>9. /\ Cardinality(AwakeIdle') = Cardinality(AwakeIdle) - 1
        /\ Cardinality(AwakeIdle) \in Nat
    BY <1>2, <1>8, CardRemove DEF AwakeIdle, PoolTypeOK
  <1>10. Cardinality(AwakeIdle') >= pending_tasks_' \/ AwakeIdle' = idle_workers_'
    <2>1. CASE AwakeIdle = idle_workers_
      BY <1>8, <2>1 DEF LoopTakeTask
    <2>2. CASE Cardinality(AwakeIdle) >= pending_tasks_
      BY <1>1, <1>9, <2>2 DEF PoolTypeOK
    <2>3. QED  BY <1>1, <2>1, <2>2 DEF TaskGuard
  <1>11. running_workers_' \ is_blocked_' # {}
    <2>1. w \notin is_blocked_
      BY <1>2 DEF Bookkeeping
    <2>2. QED  BY <2>1 DEF LoopTakeTask
  <1>12. MaxPoolSize = 0 => count_idle_' >= pending_tasks_'
    BY <1>1 DEF LoopTakeTask, TaskGuard, PoolTypeOK
  <1>13. TaskGuard'
    BY <1>10, <1>11, <1>12 DEF TaskGuard
  <1>14. QED  BY <1>4, <1>6, <1>7, <1>13

(* A worker that becomes dead, or stays idle, with nothing in the queue.   *)
(* idle and running are the lists at that point of its critical section.   *)
NoTaskLeftStep(w, idle, countIdle) ==
    /\ idle \in SUBSET Worker /\ w \in idle /\ countIdle = Cardinality(idle)
    /\ idle \ {w} = {x \in Worker \ {w} : pc[x] \in IdlePC}
    /\ UNCHANGED <<queue, limits>> /\ tasks_ = <<>>
    /\ running_workers_' = {x \in Worker \ {w} : pc[x] = "run"}
    /\ count_running_' = Cardinality(running_workers_')
    /\ is_blocked_ \subseteq running_workers_'
    /\ \/ Die(w, idle, countIdle, running_workers_')
       \/ \E p \in {"wait", "idleWait", "notifyIdle"} :
             StayIdle(w, p, idle, countIdle)

(* With the queue empty a worker may die or sleep: the invariant is kept. *)
LEMMA NoTaskLeftInv ==
    ASSUME SizeFacts, IInv, TypeOK', NEW w \in Worker, NEW idle, NEW countIdle,
           NoTaskLeftStep(w, idle, countIdle)
    PROVE  IInv'
  <1> USE DEF IInv, TypeOK, queue, limits, graveyard, NoTaskLeftStep
  <1>1. TaskGuard'
    BY DEF TaskGuard, Bookkeeping, PoolTypeOK
  <1>2. Cardinality(idle \ {w}) = countIdle - 1
    BY CardRemove
  <1>3. CASE Die(w, idle, countIdle, running_workers_')
    <2> USE <1>3 DEF Die, IdleToDeadLocked, AfterDeath
    <2>1. idle_workers_' = {x \in Worker : pc'[x] \in IdlePC}
      BY DEF IdlePC, ThreadTypeOK
    <2>2. running_workers_' = {x \in Worker : pc'[x] = "run"}
      BY DEF ThreadTypeOK
    <2>3. count_dead_' = Cardinality(dead_workers_')
      BY Zenon DEF SizeFacts, SizeOne
    <2>4. Bookkeeping'
      BY <1>2, <2>1, <2>2, <2>3 DEF Bookkeeping
    <2>5. QED  BY <1>1, <2>4
  <1>4. ASSUME NEW p \in {"wait", "idleWait", "notifyIdle"},
               StayIdle(w, p, idle, countIdle)
        PROVE  IInv'
    <2> USE <1>4 DEF StayIdle
    <2>1. idle_workers_' = {x \in Worker : pc'[x] \in IdlePC}
      <3>1. /\ idle_workers_' = idle /\ idle \in SUBSET Worker /\ w \in idle
            /\ idle \ {w} = {x \in Worker \ {w} : pc[x] \in IdlePC}
            /\ pc' = [pc EXCEPT ![w] = p]
        BY Zenon
      <3>2. DOMAIN pc = Worker
        BY Zenon DEF ThreadTypeOK
      <3> HIDE DEF IInv, TypeOK, NoTaskLeftStep, StayIdle
      <3>3. pc'[w] = p /\ \A x \in Worker \ {w} : pc'[x] = pc[x]
        BY Zenon, <3>1, <3>2
      <3>4. p \in IdlePC
        BY DEF IdlePC
      <3>5. QED  BY Zenon, <3>1, <3>3, <3>4
    <2>2. running_workers_' = {x \in Worker : pc'[x] = "run"}
      BY DEF ThreadTypeOK
    <2>3. Bookkeeping'
      BY <2>1, <2>2 DEF Bookkeeping
    <2>4. QED  BY <1>1, <2>3
  <1>5. QED  BY <1>3, <1>4

(* Every way an idle worker goes on in WorkerLoop keeps the invariant. *)
LEMMA IdleWorkerInv ==
    ASSUME SizeFacts, IInv, NEW w \in Worker,
           LoopNoTask(w) \/ LeaveEnterIdle(w) \/ WaitReturns(w)
    PROVE  IInv'
  <1> USE DEF IInv, TypeOK, queue, limits, graveyard, shutdown
  <1> DEFINE dies == Die(w, idle_workers_, count_idle_, running_workers_)
             stays(p) == StayIdle(w, p, idle_workers_, count_idle_)
  <1>1. /\ UNCHANGED <<queue, running_workers_, count_running_, limits, task,
                       shutting_down_, shutdown>>
        /\ pc[w] \in IdlePC
        /\ \/ stays("loop")
           \/ tasks_ = <<>> /\ dies
           \/ tasks_ = <<>> /\ \E p \in {"wait", "idleWait", "notifyIdle"} : stays(p)
    BY DEF LoopNoTask, LeaveEnterIdle, WaitReturns, NoTaskLeft, DieOrWait,
           OnEnterIdleLocked, IdlePC
  <1> HIDE DEF dies, stays
  <1>2. w \in idle_workers_ /\ Cardinality(idle_workers_) > 0
    BY ZenonT(30), <1>1, CardRemove DEF Bookkeeping, PoolTypeOK
  <1>3. PoolTypeOK'
    BY <1>1, <1>2 DEF dies, stays, PoolTypeOK, Bookkeeping, StayIdle, Die, IdleToDeadLocked
  <1>4. ThreadTypeOK'
    <2>1. CASE dies
      BY <1>1, <2>1 DEF dies, ThreadTypeOK, PoolTypeOK, PC, Die,
         IdleToDeadLocked, AfterDeath, LastDeath, ObtainDeadWorkersLocked
    <2>2. ASSUME NEW p \in {"loop", "wait", "idleWait", "notifyIdle"}, stays(p)
          PROVE  ThreadTypeOK'
      BY <1>1, <2>2 DEF stays, ThreadTypeOK, PC, StayIdle
    <2>3. QED  BY <1>1, <2>1, <2>2
  <1>5. CASE stays("loop")
    <2>1. UNCHANGED <<queue, alive, dead_workers_, count_dead_, limits>>
      BY <1>1, <1>5 DEF stays, StayIdle, alive
    <2>2. \A x \in Worker : /\ pc'[x] \in IdlePC <=> pc[x] \in IdlePC
                            /\ pc'[x] = "run" <=> pc[x] = "run"
                            /\ Waiting(x)' => Waiting(x)
      BY <1>1, <1>5 DEF stays, StayIdle, IdlePC, Waiting, WaitPC, ThreadTypeOK
    <2>3. QED  BY <1>3, <1>4, <2>1, <2>2, QuietInv
  <1>6. CASE tasks_ = <<>> /\ (dies \/ \E p \in {"wait", "idleWait", "notifyIdle"} : stays(p))
    <2>1. idle_workers_ \ {w} = {x \in Worker \ {w} : pc[x] \in IdlePC}
      BY DEF Bookkeeping
    <2>2. running_workers_' = {x \in Worker \ {w} : pc[x] = "run"}
      BY <1>1 DEF Bookkeeping, IdlePC
    <2>3. /\ idle_workers_ \in SUBSET Worker
          /\ count_idle_ = Cardinality(idle_workers_)
          /\ count_running_' = Cardinality(running_workers_')
          /\ is_blocked_ \subseteq running_workers_'
          /\ UNCHANGED <<queue, limits>>
      BY <1>1 DEF Bookkeeping, PoolTypeOK
    <2>4. \/ Die(w, idle_workers_, count_idle_, running_workers_')
          \/ \E p \in {"wait", "idleWait", "notifyIdle"} :
                StayIdle(w, p, idle_workers_, count_idle_)
      BY <1>1, <1>6 DEF dies, stays
    <2>5. NoTaskLeftStep(w, idle_workers_, count_idle_)
      BY <1>2, <1>6, <2>1, <2>2, <2>3, <2>4 DEF NoTaskLeftStep
    <2>6. QED  BY <1>3, <1>4, <2>5, NoTaskLeftInv
  <1>7. QED  BY SMTT(30), <1>1, <1>5, <1>6

(* A finished task: the next RemoveFirst, or RunningToIdleLocked and what follows. *)
LEMMA FinishTaskInv == ASSUME SizeFacts, IInv, NEW w \in Worker, FinishTask(w) PROVE IInv'
  <1> USE DEF IInv, TypeOK, queue, limits, graveyard, shutdown
  <1>1. /\ w \in running_workers_ /\ w \notin idle_workers_
        /\ UNCHANGED <<limits, shutting_down_, shutdown>> /\ w \notin is_blocked_
    BY DEF FinishTask, Bookkeeping, IdlePC
  <1>2. CASE TakeTask(w) /\ UNCHANGED <<alive, graveyard, pc, wake>>
    <2> USE DEF alive
    <2>1. /\ Len(tasks_') = Len(tasks_) - 1 /\ tasks_' \in Seq(Task)
          /\ pending_tasks_' = pending_tasks_ - 1 /\ pending_tasks_ > 0
          /\ Head(tasks_) \in Task
      BY <1>2 DEF TakeTask, PoolTypeOK, Bookkeeping
    <2>2. PoolTypeOK'
      BY <1>1, <1>2, <2>1 DEF PoolTypeOK
    <2>3. ThreadTypeOK'
      BY <1>1, <1>2, <2>1 DEF ThreadTypeOK, TakeTask
    <2>4. Bookkeeping'
      BY <1>1, <1>2, <2>1 DEF Bookkeeping
    <2>5. AwakeIdle' = AwakeIdle
      BY <1>2 DEF AwakeIdle, Waiting
    <2>6. pending_tasks_' > 0 =>
            Cardinality(AwakeIdle') >= pending_tasks_' \/ AwakeIdle' = idle_workers_'
      BY <1>2, <2>1, <2>2, <2>5, AwakeMono DEF PoolTypeOK
    <2>7. TaskGuard'
      BY <1>1, <1>2, <2>1, <2>6 DEF TaskGuard, PoolTypeOK
    <2>8. QED  BY <2>2, <2>3, <2>4, <2>7
  <1>3. CASE /\ tasks_ = <<>>
             /\ task' = [task EXCEPT ![w] = NoTask]
             /\ running_workers_' = running_workers_ \ {w}
             /\ count_running_' = count_running_ - 1
             /\ NoTaskLeft(w, idle_workers_ \cup {w}, count_idle_ + 1,
                           running_workers_ \ {w})
             /\ UNCHANGED queue
    <2> DEFINE idle == idle_workers_ \cup {w}
               ci == count_idle_ + 1
               dies == Die(w, idle, ci, running_workers_')
               stays(p) == StayIdle(w, p, idle, ci)
    <2>1. dies \/ \E p \in {"wait", "idleWait", "notifyIdle"} : stays(p)
      BY <1>3 DEF NoTaskLeft, DieOrWait, OnEnterIdleLocked
    <2>2. /\ Cardinality(running_workers_ \ {w}) = Cardinality(running_workers_) - 1
          /\ Cardinality(running_workers_) > 0
          /\ Cardinality(idle) = Cardinality(idle_workers_) + 1
      BY SMTT(30), <1>1, CardAdd, CardRemove DEF PoolTypeOK
    <2>3. PoolTypeOK'
      <3>1. /\ PoolTypeOK /\ count_running_ = Cardinality(running_workers_)
            /\ running_workers_' = running_workers_ \ {w} /\ count_running_' = count_running_ - 1
            /\ tasks_' = tasks_ /\ pending_tasks_' = pending_tasks_
            /\ max_pool_size_' = max_pool_size_ /\ is_blocked_' = is_blocked_
        BY Zenon, <1>1, <1>3 DEF Bookkeeping
      <3>2. /\ idle_workers_' \in SUBSET (idle_workers_ \cup {w})
            /\ count_idle_' \in {count_idle_ + 1, (count_idle_ + 1) - 1}
            /\ \/ dead_workers_' = {w} /\ count_dead_' = 1
               \/ dead_workers_' = dead_workers_ /\ count_dead_' = count_dead_
        <4>1. CASE dies
          <5>1. /\ idle_workers_' = (idle_workers_ \cup {w}) \ {w}
                /\ count_idle_' = (count_idle_ + 1) - 1
                /\ dead_workers_' = {w} /\ count_dead_' = 1
            BY Zenon, <4>1 DEF Die, IdleToDeadLocked
          <5>2. QED  BY Zenon, <5>1
        <4>2. ASSUME NEW p, stays(p)
              PROVE  /\ idle_workers_' = idle_workers_ \cup {w}
                     /\ count_idle_' = count_idle_ + 1
                     /\ dead_workers_' = dead_workers_ /\ count_dead_' = count_dead_
          BY Zenon, <4>2 DEF StayIdle
        <4>3. QED  BY Zenon, <2>1, <4>1, <4>2
      <3> HIDE DEF IInv, TypeOK
      <3>3. count_idle_' \in Nat /\ count_running_' \in Nat /\ count_dead_' \in Nat
        BY <2>2, <3>1, <3>2 DEF PoolTypeOK
      <3>4. QED  BY Zenon, <3>1, <3>2, <3>3 DEF PoolTypeOK
    <2>4. ThreadTypeOK'
      <3>1. CASE dies
        BY <1>1, <1>3, <3>1 DEF ThreadTypeOK, PoolTypeOK, PC, Die,
           IdleToDeadLocked, AfterDeath, LastDeath, ObtainDeadWorkersLocked
      <3>2. ASSUME NEW p \in {"wait", "idleWait", "notifyIdle"}, stays(p)
            PROVE  ThreadTypeOK'
        BY <1>1, <1>3, <3>2 DEF ThreadTypeOK, PC, StayIdle
      <3>3. QED  BY <2>1, <3>1, <3>2
    <2>5. idle \ {w} = {x \in Worker \ {w} : pc[x] \in IdlePC}
      BY <1>1 DEF Bookkeeping
    <2>6. running_workers_' = {x \in Worker \ {w} : pc[x] = "run"}
      BY <1>3 DEF Bookkeeping
    <2>7. /\ idle \in SUBSET Worker /\ w \in idle /\ ci = Cardinality(idle)
          /\ count_running_' = Cardinality(running_workers_')
          /\ UNCHANGED <<queue, limits>>
      BY <1>1, <1>3, <2>2 DEF Bookkeeping, PoolTypeOK
    <2>8. is_blocked_ \subseteq running_workers_'
      BY <1>1, <1>3 DEF Bookkeeping
    <2>9. NoTaskLeftStep(w, idle, ci)
      BY <1>3, <2>1, <2>5, <2>6, <2>7, <2>8 DEF NoTaskLeftStep
    <2> HIDE DEF idle, ci
    <2>10. QED  BY <2>3, <2>4, <2>9, NoTaskLeftInv
  <1>4. QED  BY <1>2, <1>3 DEF FinishTask

(* MarkCurrentWorkerAsBlocked replaces the worker when it has to. *)
LEMMA BlockedInv ==
    ASSUME SizeFacts, IInv, NEW w \in Worker, MarkCurrentWorkerAsBlocked(w) PROVE IInv'
  <1> USE DEF IInv, TypeOK, queue, limits, graveyard, shutdown
  <1>1. PoolTypeOK'
    BY DEF PoolTypeOK, MarkCurrentWorkerAsBlocked, NewWorker
  <1>2. ThreadTypeOK'
    BY DEF ThreadTypeOK, MarkCurrentWorkerAsBlocked, NewWorker, PC
  <1>3. /\ UNCHANGED <<queue, running_workers_, count_running_, dead_workers_,
                       count_dead_, wake>>
        /\ is_blocked_' = is_blocked_ \cup {w} /\ w \notin is_blocked_
        /\ w \in running_workers_
    BY DEF MarkCurrentWorkerAsBlocked, Bookkeeping
  <1>4. /\ Cardinality(is_blocked_') = Cardinality(is_blocked_) + 1
        /\ Cardinality(is_blocked_) \in Nat
    BY <1>3, CardAdd DEF PoolTypeOK
  <1>5. max_pool_size_' = IF MaxPoolSize = 0 THEN 0
                          ELSE MaxPoolSize + Cardinality(is_blocked_')
    BY SMTT(30), <1>4, PoolAssumption DEF MarkCurrentWorkerAsBlocked, Bookkeeping, PoolTypeOK
  <1>6. is_blocked_' \subseteq running_workers_'
    BY <1>3 DEF Bookkeeping
  <1>7. CASE max_pool_size_ > 0 /\ idle_workers_ = {} /\ pending_tasks_ > 0
    <2>1. PICK n \in Worker : NewWorker(n)
      BY <1>7 DEF MarkCurrentWorkerAsBlocked
    <2>2. Bookkeeping'
      BY <1>3, <1>5, <1>6, <2>1, NewWorkerInv DEF Bookkeeping
    <2>3. AwakeIdle = {}
      BY <1>7 DEF AwakeIdle
    <2>4. AwakeIdle' = {n} /\ idle_workers_' = {n}
      BY <1>3, <1>7, <2>1, <2>3, NewWorkerInv DEF NewWorker
    <2>5. MaxPoolSize # 0
      BY <1>7 DEF Bookkeeping
    <2>6. TaskGuard'
      BY <2>4, <2>5 DEF TaskGuard
    <2>7. QED  BY <1>1, <1>2, <2>2, <2>6
  <1>8. CASE ~(max_pool_size_ > 0 /\ idle_workers_ = {} /\ pending_tasks_ > 0)
    <2>1. UNCHANGED <<pc, idle_workers_, count_idle_>>
      BY <1>8 DEF MarkCurrentWorkerAsBlocked
    <2>2. Bookkeeping'
      BY <1>3, <1>5, <1>6, <2>1 DEF Bookkeeping
    <2>3. AwakeIdle' = AwakeIdle
      BY <1>3, <2>1 DEF AwakeIdle, Waiting
    <2>4. pending_tasks_' > 0 => idle_workers_' # {}
      <3>1. CASE max_pool_size_ > 0
        BY <1>3, <1>8, <2>1, <3>1
      <3>2. CASE max_pool_size_ = 0
        <4>1. MaxPoolSize = 0
          BY <3>2, PoolAssumption, CardMono DEF Bookkeeping, PoolTypeOK
        <4>2. pending_tasks_ > 0 => Cardinality(idle_workers_) > 0
          BY <4>1 DEF TaskGuard, Bookkeeping, PoolTypeOK
        <4>3. Cardinality({}) = 0
          BY DEF SizeFacts, SizeEmpty
        <4>4. QED  BY <1>3, <2>1, <4>2, <4>3
      <3>3. QED  BY <3>1, <3>2 DEF PoolTypeOK
    <2>5. TaskGuard'
      BY <1>3, <2>1, <2>3, <2>4 DEF TaskGuard
    <2>6. QED  BY <1>1, <1>2, <2>2, <2>5
  <1>9. QED  BY <1>7, <1>8

(* MarkCurrentWorkerAsUnBlocked takes back the raised limit. *)
LEMMA UnBlockedInv ==
    ASSUME SizeFacts, IInv, NEW w \in Worker, MarkCurrentWorkerAsUnBlocked(w) PROVE IInv'
  <1> USE DEF IInv, TypeOK, queue, alive, limits, graveyard, shutdown
  <1>1. /\ UNCHANGED <<queue, alive, dead_workers_, count_dead_, pc, wake>>
        /\ is_blocked_' = is_blocked_ \ {w} /\ w \in is_blocked_
    BY DEF MarkCurrentWorkerAsUnBlocked
  <1>2. /\ Cardinality(is_blocked_') = Cardinality(is_blocked_) - 1
        /\ Cardinality(is_blocked_) \in Nat /\ Cardinality(is_blocked_) > 0
    BY <1>1, CardRemove DEF PoolTypeOK
  <1>3. max_pool_size_' = IF MaxPoolSize = 0 THEN 0
                          ELSE MaxPoolSize + Cardinality(is_blocked_')
    BY SMTT(30), <1>2, PoolAssumption DEF MarkCurrentWorkerAsUnBlocked, Bookkeeping, PoolTypeOK
  <1>4. PoolTypeOK'
    BY <1>1, <1>2, <1>3, PoolAssumption DEF PoolTypeOK
  <1>5. ThreadTypeOK'
    BY DEF MarkCurrentWorkerAsUnBlocked, ThreadTypeOK
  <1>6. Bookkeeping'
    BY <1>1, <1>3 DEF Bookkeeping
  <1>7. AwakeIdle' = AwakeIdle
    BY <1>1 DEF AwakeIdle, Waiting
  <1>8. TaskGuard'
    BY <1>1, <1>7 DEF TaskGuard
  <1>9. QED  BY <1>4, <1>5, <1>6, <1>8

(* The induction step: every action of the pool keeps the invariant. *)
LEMMA NextIInv == ASSUME SizeFacts, IInv, [Next]_vars PROVE IInv'
  <1>1. ASSUME NEW w \in Worker, WorkerStep(w) \/ BlockStep(w)
        PROVE  IInv'
    BY SMTT(30), <1>1, QuietStepsInv, LoopTakeTaskInv, IdleWorkerInv, FinishTaskInv,
       BlockedInv, UnBlockedInv DEF WorkerStep, BlockStep
  <1>2. CASE UNCHANGED vars
    <2>1. PoolTypeOK'
      BY <1>2 DEF vars, IInv, TypeOK, PoolTypeOK, queue, alive, limits, graveyard
    <2>2. ThreadTypeOK'
      BY <1>2 DEF vars, IInv, TypeOK, ThreadTypeOK, graveyard, shutdown
    <2>3. UNCHANGED <<queue, alive, dead_workers_, count_dead_, limits, pc, wake>>
      BY <1>2 DEF vars, graveyard
    <2>4. QED
      BY <2>1, <2>2, <2>3, QuietInv DEF TypeOK, Waiting
  <1>3. QED
    BY <1>1, <1>2, RunInv, QuietStepsInv, ShutdownInv DEF Next

(* A queued task has somebody awake to take it: what TaskGuard is for.     *)
LEMMA InvNoStranded == ASSUME SizeFacts, IInv PROVE NoStrandedTask
  <1> SUFFICES ASSUME tasks_ # <<>>
               PROVE  AwakeIdle \cup (running_workers_ \ is_blocked_) # {}
    BY DEF NoStrandedTask
  <1>1. pending_tasks_ > 0
    BY DEF IInv, TypeOK, PoolTypeOK, Bookkeeping
  <1>2. AwakeIdle \in SUBSET Worker
    BY DEF AwakeIdle, IInv, TypeOK, PoolTypeOK
  <1>3. Cardinality(AwakeIdle) >= pending_tasks_ => AwakeIdle # {}
    BY <1>1, <1>2, CardMono DEF IInv, TypeOK, PoolTypeOK
  <1>4. QED  BY <1>1, <1>3 DEF IInv, TaskGuard

-----------------------------------------------------------------------------
(* Joins and shutdown.  A worker with workers to join is on its way out,   *)
(* and no workers wait for each other: every set of them has one that none *)
(* of them has to join.                                                    *)
Joining == \A x \in Worker : to_join[x] # {} => pc[x] \in {"signal", "join"}
NoCycle ==
    \A S \in SUBSET Worker : S # {} => \E d \in S : \A x \in S : d \notin to_join[x]
Joins == JoinedOnce /\ Joining /\ NoCycle

(* all_workers_dead_ is final, and past the wait on exit_monitor_ it is    *)
(* set; the list Shutdown obtained is empty unless it joins.               *)
AllDead == shutting_down_ /\ idle_workers_ = {} /\ running_workers_ = {} /\ tasks_ = <<>>
Ends ==
    /\ all_workers_dead_ => AllDead
    /\ sd \in {"obtain", "join", "done"} => all_workers_dead_
    /\ sd \in {"join", "done"} => dead_workers_ = {}
    /\ sd = "waiting" /\ all_workers_dead_ => ~PoolMonitorFree
    /\ sd # "join" => sd_to_join = {}
JoinInv == Joins /\ Ends

(* A step that leaves the dead and those who join them alone, and a death. *)
Quiet ==
    /\ UNCHANGED <<dead_workers_, all_workers_dead_, to_join, sd, sd_to_join>>
    /\ \A x \in Worker : pc[x] \in DeadPC \/ pc'[x] \in DeadPC => pc'[x] = pc[x]
    /\ all_workers_dead_ => (AllDead => AllDead')
Dies(w) ==
    /\ pc[w] \notin DeadPC /\ ~all_workers_dead_
    /\ to_join' = [to_join EXCEPT ![w] = @ \cup dead_workers_] /\ dead_workers_' = {w}
    /\ pc'[w] \in {"signal", "join"} /\ \A x \in Worker : x # w => pc'[x] = pc[x]
    /\ all_workers_dead_' => AllDead' /\ pc'[w] = "signal"
    /\ UNCHANGED <<sd, sd_to_join>>

(* Quiet steps keep the join obligations.                                  *)
LEMMA QuietJoins == ASSUME JoinInv, Quiet PROVE JoinInv'
  <1>1. Joins'
    <2>1. \A x \in Worker : pc[x] \in DeadPC <=> pc'[x] \in DeadPC
      BY Zenon DEF Quiet
    <2>2. JoinedOnce'
      BY Zenon, <2>1 DEF JoinInv, Joins, JoinedOnce, Quiet
    <2>3. "signal" \in DeadPC /\ "join" \in DeadPC
      BY DEF DeadPC
    <2>4. Joining'
      BY <2>3 DEF JoinInv, Joins, Joining, Quiet
    <2>5. NoCycle'
      BY Zenon DEF JoinInv, Joins, NoCycle, Quiet
    <2>6. QED  BY Zenon, <2>2, <2>4, <2>5 DEF Joins
  <1>2. Ends'
    <2>1. "signal" \in DeadPC
      BY DEF DeadPC
    <2>2. ~PoolMonitorFree => ~PoolMonitorFree'
      BY Zenon, <2>1 DEF PoolMonitorFree, Quiet
    <2>3. QED  BY Zenon, <2>2 DEF JoinInv, Ends, Quiet
  <1>3. QED  BY Zenon, <1>1, <1>2 DEF JoinInv

(* A dying worker takes over the list of the dead and is the only one in   *)
(* the new list; nobody has to join it yet.                                *)
LEMMA DiesJoins == ASSUME JoinInv, TypeOK, NEW w \in Worker, Dies(w) PROVE JoinInv'
  <1>1. /\ to_join'[w] = to_join[w] \cup dead_workers_
        /\ \A x \in Worker : x # w => to_join'[x] = to_join[x] /\ pc'[x] = pc[x]
        /\ dead_workers_' = {w} /\ sd_to_join' = sd_to_join
        /\ pc[w] \notin DeadPC /\ pc'[w] \in DeadPC
    BY DEF Dies, TypeOK, ThreadTypeOK, DeadPC
  <1>2. w \notin dead_workers_ \cup sd_to_join /\ \A x \in Worker : w \notin to_join[x]
    BY Zenon, <1>1 DEF JoinInv, Joins, JoinedOnce
  <1>3. \A x \in Worker : w \notin to_join'[x]
    BY <1>1, <1>2
  <1>4. JoinedOnce'
    <2> SUFFICES ASSUME NEW d \in Worker
                 PROVE  /\ pc'[d] \in DeadPC <=>
                             \/ d \in dead_workers_' \cup sd_to_join'
                             \/ \E x \in Worker : d \in to_join'[x]
                        /\ d \in dead_workers_' => d \notin sd_to_join'
                        /\ \A x \in Worker : d \in to_join'[x] =>
                             /\ d \notin dead_workers_' \cup sd_to_join'
                             /\ \A y \in Worker : d \in to_join'[y] => x = y
      BY Zenon DEF JoinedOnce, DeadPC
    <2>1. CASE d = w
      BY Zenon, <1>1, <1>2, <1>3, <2>1
    <2>2. CASE d # w
      <3>1. d \notin dead_workers_'
        BY <1>1, <2>2
      <3>2. \A x \in Worker : d \in to_join'[x] <=>
               d \in to_join[x] \/ (x = w /\ d \in dead_workers_)
        BY <1>1
      <3>3. pc'[d] = pc[d]
        BY <1>1, <2>2
      <3>4. /\ pc[d] \in DeadPC <=>
                  d \in dead_workers_ \cup sd_to_join \/ \E x \in Worker : d \in to_join[x]
            /\ d \in dead_workers_ => d \notin sd_to_join
            /\ \A x \in Worker : d \in to_join[x] =>
                  /\ d \notin dead_workers_ \cup sd_to_join
                  /\ \A y \in Worker : d \in to_join[y] => x = y
        BY Zenon DEF JoinInv, Joins, JoinedOnce
      <3>5. sd_to_join' = sd_to_join
        BY Zenon, <1>1
      <3>6. pc'[d] \in DeadPC <=>
               d \in dead_workers_' \cup sd_to_join' \/ \E x \in Worker : d \in to_join'[x]
        BY Zenon, <3>1, <3>2, <3>3, <3>4, <3>5
      <3>7. ASSUME NEW x \in Worker, d \in to_join'[x]
            PROVE  /\ d \notin dead_workers_' \cup sd_to_join'
                   /\ \A y \in Worker : d \in to_join'[y] => x = y
        BY Zenon, <3>1, <3>2, <3>4, <3>5, <3>7
      <3>8. QED  BY Zenon, <3>1, <3>6, <3>7
    <2>3. QED  BY Zenon, <2>1, <2>2
  <1>5. Joining'
    BY <1>1 DEF JoinInv, Joins, Joining, Dies
  <1>6. NoCycle'
    <2> SUFFICES ASSUME NEW S \in SUBSET Worker, S # {}
                 PROVE  \E d \in S : \A x \in S : d \notin to_join'[x]
      BY Zenon DEF NoCycle
    <2>1. CASE w \in S
      BY Zenon, <1>3, <2>1
    <2>2. CASE w \notin S
      <3>1. \A x \in S : to_join'[x] = to_join[x]
        BY <1>1, <2>2
      <3>2. QED  BY Zenon, <3>1 DEF JoinInv, Joins, NoCycle
    <2>3. QED  BY Zenon, <2>1, <2>2
  <1>7. Ends'
    <2>1. sd' \notin {"obtain", "join", "done"} /\ sd' = sd /\ sd' # "join"
      BY DEF JoinInv, Ends, Dies
    <2>2. all_workers_dead_' => AllDead' /\ ~PoolMonitorFree'
      BY Zenon DEF Dies, PoolMonitorFree
    <2>3. sd' \notin {"join", "done"} /\ sd_to_join' = {}
      BY <1>1, <2>1 DEF JoinInv, Ends
    <2>4. QED  BY Zenon, <2>1, <2>2, <2>3 DEF Ends
  <1>8. QED  BY Zenon, <1>4, <1>5, <1>6, <1>7 DEF JoinInv, Joins

(* While a worker is idle or runs, all_workers_dead_ is not set.           *)
LEMMA AliveFacts ==
    ASSUME IInv, JoinInv, NEW w \in Worker, pc[w] \in IdlePC \cup {"run"}
    PROVE  ~all_workers_dead_ /\ pc[w] \notin DeadPC
  <1>1. w \in idle_workers_ \cup running_workers_
    BY DEF IInv, Bookkeeping
  <1>2. ~AllDead
    BY <1>1 DEF AllDead
  <1>3. QED  BY <1>2 DEF JoinInv, Ends, IdlePC, DeadPC

(* Die, in any of its callers, is a death.                                 *)
LEMMA DieDies ==
    ASSUME IInv, JoinInv, NEW w \in Worker, pc[w] \in IdlePC \cup {"run"}, NEW idle, NEW ci,
           Die(w, idle, ci, running_workers_'), tasks_' = <<>>,
           UNCHANGED <<shutting_down_, sd, sd_to_join>>
    PROVE  Dies(w)
  <1>1. ~all_workers_dead_ /\ pc[w] \notin DeadPC
    BY Zenon, AliveFacts
  <1> DEFINE last == LastDeath(w, idle, running_workers_')
  <1>2. /\ to_join' = [to_join EXCEPT ![w] = @ \cup dead_workers_] /\ dead_workers_' = {w}
        /\ all_workers_dead_' <=> last
        /\ idle_workers_' = idle \ {w}
        /\ pc' = [pc EXCEPT ![w] = IF last THEN "signal" ELSE "join"]
    BY Zenon, <1>1 DEF Die, ObtainDeadWorkersLocked, IdleToDeadLocked, AfterDeath
  <1>3. last => AllDead'
    BY Zenon, <1>2 DEF LastDeath, AllDead
  <1> HIDE DEF last
  <1>4. /\ pc'[w] \in {"signal", "join"} /\ \A x \in Worker : x # w => pc'[x] = pc[x]
        /\ last => pc'[w] = "signal"
    BY <1>2 DEF IInv, TypeOK, ThreadTypeOK
  <1>5. QED  BY Zenon, <1>1, <1>2, <1>3, <1>4 DEF Dies

(* A live worker that stays alive is quiet.                                *)
LEMMA LiveQuiet ==
    ASSUME IInv, JoinInv, NEW w \in Worker, pc[w] \in IdlePC \cup {"run"},
           NEW p \in IdlePC \cup {"run"}, pc' = [pc EXCEPT ![w] = p],
           UNCHANGED <<graveyard, shutdown>>
    PROVE  Quiet
  <1>1. ~all_workers_dead_ /\ pc[w] \notin DeadPC
    BY Zenon, AliveFacts
  <1>2. pc'[w] \notin DeadPC /\ \A x \in Worker : x # w => pc'[x] = pc[x]
    BY DEF IInv, TypeOK, ThreadTypeOK, IdlePC, DeadPC
  <1>3. QED  BY Zenon, <1>1, <1>2 DEF Quiet, graveyard, shutdown

(* WorkerLoop without a task: the worker stays idle or dies.               *)
LEMMA IdleJoins ==
    ASSUME IInv, JoinInv, NEW w \in Worker,
           LoopNoTask(w) \/ LeaveEnterIdle(w) \/ WaitReturns(w)
    PROVE  Quiet \/ Dies(w)
  <1> DEFINE dies == Die(w, idle_workers_, count_idle_, running_workers_)
             stays(p) == StayIdle(w, p, idle_workers_, count_idle_)
  <1>1. /\ UNCHANGED <<queue, running_workers_, shutting_down_, shutdown>>
        /\ pc[w] \in IdlePC
        /\ (tasks_ = <<>> /\ dies) \/ \E p \in {"loop", "wait", "idleWait", "notifyIdle"} : stays(p)
    BY Zenon DEF LoopNoTask, LeaveEnterIdle, WaitReturns, NoTaskLeft, DieOrWait,
           OnEnterIdleLocked, IdlePC
  <1>2. CASE tasks_ = <<>> /\ dies
    <2>1. /\ Die(w, idle_workers_, count_idle_, running_workers_') /\ tasks_' = <<>>
          /\ UNCHANGED <<shutting_down_, sd, sd_to_join>> /\ pc[w] \in IdlePC \cup {"run"}
      BY <1>1, <1>2 DEF queue, shutdown
    <2>2. QED  BY Zenon, <2>1, DieDies
  <1>3. ASSUME NEW p \in {"loop", "wait", "idleWait", "notifyIdle"}, stays(p) PROVE Quiet
    <2>1. /\ p \in IdlePC \cup {"run"} /\ pc[w] \in IdlePC \cup {"run"}
      BY <1>1 DEF IdlePC
    <2>2. pc' = [pc EXCEPT ![w] = p] /\ UNCHANGED <<graveyard, shutdown>>
      BY Zenon, <1>1, <1>3 DEF StayIdle
    <2>3. QED  BY Zenon, <2>1, <2>2, LiveQuiet
  <1>4. QED  BY Zenon, <1>1, <1>2, <1>3

(* After a task: the next one, or idle, or dead.                           *)
LEMMA FinishJoins ==
    ASSUME IInv, JoinInv, NEW w \in Worker, FinishTask(w) PROVE Quiet \/ Dies(w)
  <1> DEFINE idle == idle_workers_ \cup {w}
             dies == Die(w, idle, count_idle_ + 1, running_workers_')
             stays(p) == StayIdle(w, p, idle, count_idle_ + 1)
  <1>1. /\ UNCHANGED <<shutting_down_, shutdown>> /\ pc[w] = "run"
        /\ \/ UNCHANGED <<alive, graveyard, pc>>
           \/ tasks_' = <<>> /\ dies
           \/ \E p \in {"wait", "idleWait", "notifyIdle"} : stays(p)
    <2>1. /\ UNCHANGED <<shutting_down_, shutdown>> /\ pc[w] = "run"
          /\ \/ UNCHANGED <<alive, graveyard, pc>>
             \/ /\ tasks_' = <<>> /\ running_workers_' = running_workers_ \ {w}
                /\ NoTaskLeft(w, idle, count_idle_ + 1, running_workers_ \ {w})
      BY Zenon DEF FinishTask, queue
    <2>2. ASSUME NoTaskLeft(w, idle, count_idle_ + 1, running_workers_')
          PROVE  dies \/ \E p \in {"wait", "idleWait", "notifyIdle"} : stays(p)
      BY <2>2 DEF NoTaskLeft, DieOrWait, OnEnterIdleLocked
    <2>3. QED  BY Zenon, <2>1, <2>2
  <1>2. pc[w] \in IdlePC \cup {"run"}
    BY <1>1
  <1>3. CASE UNCHANGED <<alive, graveyard, pc>>
    <2>1. ~all_workers_dead_
      BY Zenon, <1>2, AliveFacts
    <2>2. QED  BY Zenon, <1>1, <1>3, <2>1 DEF Quiet, graveyard, shutdown
  <1>4. CASE tasks_' = <<>> /\ dies
    BY Zenon, <1>1, <1>2, <1>4, DieDies DEF shutdown
  <1>5. ASSUME NEW p \in {"wait", "idleWait", "notifyIdle"}, stays(p) PROVE Quiet
    <2>1. p \in IdlePC \cup {"run"}
      BY DEF IdlePC
    <2>2. pc' = [pc EXCEPT ![w] = p] /\ UNCHANGED <<graveyard, shutdown>>
      BY Zenon, <1>1, <1>5 DEF StayIdle
    <2>3. QED  BY Zenon, <1>2, <2>1, <2>2, LiveQuiet
  <1>6. QED  BY Zenon, <1>1, <1>3, <1>4, <1>5

(* Scheduling, blocking, starting and waking leave the dead alone; after   *)
(* all_workers_dead_ no task is accepted and no worker made.               *)
LEMMA OthersQuiet ==
    ASSUME IInv, JoinInv,
           \/ \E t \in Task : RunImpl(t)
           \/ \E w \in Worker : \/ StartThread(w) \/ LoopTakeTask(w) \/ BlockStep(w)
                                \/ TimeOut(w) \/ SpuriousWakeup(w)
           \/ UNCHANGED vars
    PROVE  Quiet
  <1>1. ASSUME NEW w \in Worker, NewWorker(w) \/ UNCHANGED pc
        PROVE  \A x \in Worker : pc[x] \in DeadPC \/ pc'[x] \in DeadPC => pc'[x] = pc[x]
    BY <1>1 DEF NewWorker, DeadPC, IInv, TypeOK, ThreadTypeOK
  <1>2. ASSUME NEW t \in Task, RunImpl(t) PROVE Quiet
    <2>1. /\ ~shutting_down_ /\ UNCHANGED <<graveyard, shutdown>>
          /\ UNCHANGED pc \/ \E w \in Worker : NewWorker(w)
      BY Zenon, <1>2 DEF RunImpl, ScheduleTaskLocked
    <2>2. QED  BY Zenon, <1>1, <2>1 DEF Quiet, AllDead, graveyard, shutdown
  <1>3. ASSUME NEW w \in Worker, StartThread(w) \/ LoopTakeTask(w) PROVE Quiet
    <2>1. PICK p \in {"loop", "run"} : pc' = [pc EXCEPT ![w] = p]
      BY <1>3 DEF StartThread, LoopTakeTask
    <2>2. pc[w] \in IdlePC \cup {"run"} /\ p \in IdlePC \cup {"run"}
      BY <1>3 DEF StartThread, LoopTakeTask, IdlePC
    <2>3. UNCHANGED <<graveyard, shutdown>>
      BY Zenon, <1>3 DEF StartThread, LoopTakeTask
    <2>4. QED  BY Zenon, <2>1, <2>2, <2>3, LiveQuiet
  <1>4. ASSUME NEW w \in Worker, MarkCurrentWorkerAsBlocked(w) PROVE Quiet
    <2>1. /\ pc[w] = "run" /\ UNCHANGED <<graveyard, shutdown>>
          /\ UNCHANGED pc \/ \E n \in Worker : NewWorker(n)
      BY Zenon, <1>4 DEF MarkCurrentWorkerAsBlocked
    <2>2. ~all_workers_dead_
      BY <2>1, AliveFacts
    <2>3. QED  BY Zenon, <1>1, <2>1, <2>2 DEF Quiet, graveyard, shutdown
  <1>5. CASE UNCHANGED <<queue, alive, graveyard, shutting_down_, pc, shutdown>>
    BY Zenon, <1>5 DEF Quiet, AllDead, queue, alive, graveyard, shutdown
  <1>6. ASSUME NEW w \in Worker,
               MarkCurrentWorkerAsUnBlocked(w) \/ TimeOut(w) \/ SpuriousWakeup(w)
        PROVE  UNCHANGED <<queue, alive, graveyard, shutting_down_, pc, shutdown>>
    BY Zenon, <1>6 DEF MarkCurrentWorkerAsUnBlocked, TimeOut, SpuriousWakeup, WaitEnds
  <1>7. QED  BY Zenon, <1>2, <1>3, <1>4, <1>5, <1>6 DEF BlockStep, vars

(* A dead worker is joined and deleted by the one whose list it is in.     *)
Joined(d) ==
    /\ pc[d] = "exited" /\ pc' = [pc EXCEPT ![d] = "none"] /\ UNCHANGED dead_workers_
    /\ \/ /\ \E w \in Worker : /\ d \in to_join[w]
                               /\ to_join' = [to_join EXCEPT ![w] = @ \ {d}]
          /\ UNCHANGED sd_to_join
       \/ d \in sd_to_join /\ sd_to_join' = sd_to_join \ {d} /\ UNCHANGED to_join

LEMMA JoinedJoins ==
    ASSUME Joins, TypeOK, NEW d \in Worker, Joined(d) PROVE Joins'
  <1>1. \A x \in Worker : x # d => pc'[x] = pc[x]
    BY DEF Joined, TypeOK, ThreadTypeOK
  <1>2. pc'[d] \notin DeadPC /\ pc[d] \in DeadPC /\ pc[d] \notin {"signal", "join"}
    BY DEF Joined, TypeOK, ThreadTypeOK, DeadPC
  <1>3. /\ \A x \in Worker : to_join'[x] = to_join[x] \ {d}
        /\ sd_to_join' = sd_to_join \ {d} /\ dead_workers_' = dead_workers_
        /\ d \notin dead_workers_
    <2>1. CASE d \in sd_to_join
      <3>1. d \notin dead_workers_ /\ \A x \in Worker : d \notin to_join[x]
        BY Zenon, <2>1 DEF Joins, JoinedOnce
      <3>2. sd_to_join' = sd_to_join \ {d} /\ to_join' = to_join /\ dead_workers_' = dead_workers_
        BY Zenon, <3>1 DEF Joined
      <3>3. QED  BY <3>1, <3>2
    <2>2. CASE d \notin sd_to_join
      <3>1. PICK w \in Worker : d \in to_join[w] /\ to_join' = [to_join EXCEPT ![w] = @ \ {d}]
        BY Zenon, <2>2 DEF Joined
      <3>2. d \notin dead_workers_ /\ \A x \in Worker : x # w => d \notin to_join[x]
        BY Zenon, <3>1 DEF Joins, JoinedOnce
      <3>3. sd_to_join' = sd_to_join /\ dead_workers_' = dead_workers_
        BY Zenon, <2>2 DEF Joined
      <3>4. QED  BY <2>2, <3>1, <3>2, <3>3 DEF TypeOK, ThreadTypeOK
    <2>3. QED  BY Zenon, <2>1, <2>2
  <1>4. \A x, y \in Worker : x \in to_join'[y] <=> x \in to_join[y] /\ x # d
    BY Zenon, <1>3
  <1>5. \A x \in Worker : /\ x \in sd_to_join' <=> x \in sd_to_join /\ x # d
                          /\ x \in dead_workers_' <=> x \in dead_workers_ /\ x # d
                          /\ pc'[x] \in DeadPC <=> pc[x] \in DeadPC /\ x # d
    BY <1>1, <1>2, <1>3
  <1>6. JoinedOnce'
    <2> SUFFICES ASSUME NEW e \in Worker
                 PROVE  /\ pc'[e] \in DeadPC <=>
                             \/ e \in dead_workers_' \cup sd_to_join'
                             \/ \E x \in Worker : e \in to_join'[x]
                        /\ e \in dead_workers_' => e \notin sd_to_join'
                        /\ \A x \in Worker : e \in to_join'[x] =>
                             /\ e \notin dead_workers_' \cup sd_to_join'
                             /\ \A y \in Worker : e \in to_join'[y] => x = y
      BY Zenon DEF JoinedOnce, DeadPC
    <2>1. CASE e = d
      BY Zenon, <1>4, <1>5, <2>1
    <2>2. CASE e # d
      BY Zenon, <1>4, <1>5, <2>2 DEF Joins, JoinedOnce
    <2>3. QED  BY Zenon, <2>1, <2>2
  <1>7. Joining'
    <2> SUFFICES ASSUME NEW x \in Worker, to_join'[x] # {} PROVE pc'[x] \in {"signal", "join"}
      BY Zenon DEF Joining
    <2>1. to_join[x] # {}
      BY <1>3
    <2>2. pc[x] \in {"signal", "join"}
      BY Zenon, <2>1 DEF Joins, Joining
    <2>3. QED  BY Zenon, <1>1, <1>2, <2>2
  <1>8. NoCycle'
    <2> SUFFICES ASSUME NEW S \in SUBSET Worker, S # {}
                 PROVE  \E e \in S : \A x \in S : e \notin to_join'[x]
      BY Zenon DEF NoCycle
    <2>1. PICK e \in S : \A x \in S : e \notin to_join[x]
      BY Zenon DEF Joins, NoCycle
    <2>2. \A x \in S : e \notin to_join'[x]
      BY <1>4, <2>1
    <2>3. QED  BY Zenon, <2>2
  <1>9. QED  BY Zenon, <1>6, <1>7, <1>8 DEF Joins

LEMMA SameAllDead ==
    ASSUME UNCHANGED <<queue, alive, shutting_down_>> PROVE AllDead <=> AllDead'
  BY DEF AllDead, queue, alive

(* The last steps of a dead worker: it wakes the caller of Shutdown, joins *)
(* the workers in its list and exits.                                      *)
LEMMA DeadJoins ==
    ASSUME IInv, JoinInv, NEW w \in Worker, SignalExit(w) \/ JoinOne(w) \/ Exit(w)
    PROVE  JoinInv'
  <1>1. /\ UNCHANGED <<dead_workers_, all_workers_dead_, sd_to_join>>
        /\ AllDead <=> AllDead'
    <2>1. UNCHANGED <<queue, alive, shutting_down_>>
      BY Zenon DEF SignalExit, JoinOne, Exit
    <2>2. UNCHANGED <<dead_workers_, all_workers_dead_, sd_to_join>>
      BY Zenon DEF SignalExit, JoinOne, Exit, graveyard, shutdown
    <2>3. QED  BY Zenon, <2>1, <2>2, SameAllDead
  <1>2. CASE SignalExit(w)
    <2>1. /\ \A x \in Worker : x # w => pc'[x] = pc[x]
          /\ pc[w] = "signal" /\ pc'[w] = "join" /\ to_join' = to_join
          /\ sd' = IF sd = "waiting" THEN "exitCheck" ELSE sd
      BY <1>2 DEF SignalExit, graveyard, IInv, TypeOK, ThreadTypeOK
    <2>2. \A x \in Worker : pc'[x] \in DeadPC <=> pc[x] \in DeadPC
      BY <2>1 DEF DeadPC
    <2>3. Joins'
      <3>1. JoinedOnce'
        BY Zenon, <1>1, <2>1, <2>2 DEF JoinInv, Joins, JoinedOnce
      <3>2. Joining'
        BY <2>1 DEF JoinInv, Joins, Joining
      <3>3. QED  BY Zenon, <2>1, <3>1, <3>2 DEF JoinInv, Joins, NoCycle
    <2>4. Ends'
      BY <1>1, <2>1 DEF JoinInv, Ends
    <2>5. QED  BY Zenon, <2>3, <2>4 DEF JoinInv
  <1>3. CASE JoinOne(w)
    <2>1. PICK d \in to_join[w] : /\ pc[d] = "exited" /\ pc' = [pc EXCEPT ![d] = "none"]
                                  /\ to_join' = [to_join EXCEPT ![w] = @ \ {d}]
      BY Zenon, <1>3 DEF JoinOne
    <2>2. d \in Worker /\ sd' = sd
      BY <1>3 DEF JoinOne, shutdown, IInv, TypeOK, ThreadTypeOK
    <2>3. Joins'
      BY Zenon, <1>1, <2>1, <2>2, JoinedJoins DEF Joined, JoinInv, IInv
    <2>4. \A x \in Worker : pc[x] = "signal" => pc'[x] = "signal"
      BY <2>1, <2>2 DEF IInv, TypeOK, ThreadTypeOK
    <2>5. Ends'
      BY Zenon, <1>1, <2>2, <2>4 DEF JoinInv, Ends, PoolMonitorFree
    <2>6. QED  BY Zenon, <2>3, <2>5 DEF JoinInv
  <1>4. CASE Exit(w)
    <2>1. /\ \A x \in Worker : x # w => pc'[x] = pc[x]
          /\ pc[w] = "join" /\ pc'[w] = "exited" /\ to_join[w] = {}
          /\ UNCHANGED <<to_join, sd>>
      BY <1>4 DEF Exit, graveyard, shutdown, IInv, TypeOK, ThreadTypeOK
    <2>2. \A x \in Worker : /\ pc'[x] \in DeadPC <=> pc[x] \in DeadPC
                            /\ pc'[x] = "signal" <=> pc[x] = "signal"
      BY Zenon, <2>1 DEF DeadPC
    <2>3. Joins'
      <3>1. JoinedOnce'
        BY Zenon, <1>1, <2>1, <2>2 DEF JoinInv, Joins, JoinedOnce
      <3>2. Joining'
        BY Zenon, <2>1 DEF JoinInv, Joins, Joining
      <3>3. QED  BY Zenon, <2>1, <3>1, <3>2 DEF JoinInv, Joins, NoCycle
    <2>4. Ends'
      BY Zenon, <1>1, <2>1, <2>2 DEF JoinInv, Ends, PoolMonitorFree
    <2>5. QED  BY Zenon, <2>3, <2>4 DEF JoinInv
  <1>5. QED  BY Zenon, <1>2, <1>3, <1>4

(* Without workers no task is queued: ScheduleTaskLocked saw to that.      *)
LEMMA NoWorkersNoTasks ==
    ASSUME IInv, idle_workers_ = {}, running_workers_ = {} PROVE tasks_ = <<>>
  <1>1. ~(pending_tasks_ > 0)
    BY DEF IInv, TaskGuard
  <1>2. QED  BY <1>1 DEF IInv, TypeOK, PoolTypeOK, Bookkeeping

(* The critical sections of Shutdown.                                      *)
LEMMA ShutdownJoins ==
    ASSUME IInv, JoinInv, ShutdownBegin \/ ShutdownStep \/ ShutdownSpuriousWakeup
    PROVE  JoinInv'
  <1>1. ASSUME UNCHANGED <<pc, to_join, dead_workers_, sd_to_join>> PROVE Joins'
    BY Zenon, <1>1 DEF JoinInv, Joins, JoinedOnce, Joining, NoCycle
  <1>2. CASE ShutdownBegin
    <2>1. /\ sd' = "exitCheck" /\ sd \in {"none", "done"} /\ shutting_down_'
          /\ UNCHANGED <<pc, to_join, dead_workers_, sd_to_join, queue, alive>>
          /\ \/ all_workers_dead_' = all_workers_dead_
             \/ idle_workers_ = {} /\ running_workers_ = {}
      BY Zenon, <1>2 DEF ShutdownBegin, graveyard
    <2>2. Joins'
      BY Zenon, <1>1, <2>1
    <2>3. all_workers_dead_' => AllDead'
      BY Zenon, <2>1, NoWorkersNoTasks DEF JoinInv, Ends, AllDead, queue, alive
    <2>4. sd # "join" /\ sd' \notin {"obtain", "join", "done"} /\ sd' \notin {"join", "done"}
          /\ sd' # "waiting"
      BY <2>1
    <2>5. Ends'
      BY Zenon, <2>1, <2>3, <2>4 DEF JoinInv, Ends
    <2>6. QED  BY Zenon, <2>2, <2>5 DEF JoinInv
  <1>3. CASE ShutdownExitCheck \/ ShutdownSpuriousWakeup
    <2>1. /\ \/ sd = "exitCheck" /\ sd' = IF all_workers_dead_ THEN "obtain" ELSE "waiting"
             \/ sd = "waiting" /\ sd' = "exitCheck"
          /\ UNCHANGED <<pc, to_join, dead_workers_, sd_to_join, all_workers_dead_>>
          /\ AllDead <=> AllDead'
      <3>1. UNCHANGED <<queue, alive, shutting_down_>>
        BY Zenon, <1>3 DEF ShutdownExitCheck, ShutdownSpuriousWakeup
      <3>2. QED  BY <1>3, <3>1, SameAllDead
                 DEF ShutdownExitCheck, ShutdownSpuriousWakeup, graveyard
    <2>2. Joins'
      BY Zenon, <1>1, <2>1
    <2>3. Ends'
      BY <2>1 DEF JoinInv, Ends
    <2>4. QED  BY Zenon, <2>2, <2>3 DEF JoinInv
  <1>4. CASE ShutdownObtainDead
    <2>1. /\ sd = "obtain" /\ sd' = "join" /\ sd_to_join' = dead_workers_ /\ dead_workers_' = {}
          /\ UNCHANGED <<pc, to_join, all_workers_dead_>>
          /\ AllDead <=> AllDead'
      BY Zenon, <1>4, SameAllDead DEF ShutdownObtainDead
    <2>2. sd_to_join = {} /\ all_workers_dead_
      BY <2>1 DEF JoinInv, Ends
    <2>3. \A d \in Worker : /\ d \in sd_to_join' <=> d \in dead_workers_
                            /\ d \notin dead_workers_' /\ d \notin sd_to_join
      BY <2>1, <2>2
    <2>4. JoinedOnce'
      BY Zenon, <2>1, <2>3 DEF JoinInv, Joins, JoinedOnce
    <2>5. Joins'
      BY Zenon, <2>1, <2>4 DEF JoinInv, Joins, Joining, NoCycle
    <2>6. Ends'
      BY <2>1, <2>2 DEF JoinInv, Ends
    <2>7. QED  BY Zenon, <2>5, <2>6 DEF JoinInv
  <1>5. CASE ShutdownJoin
    <2>1. /\ sd = "join" /\ UNCHANGED <<dead_workers_, to_join, all_workers_dead_>>
          /\ AllDead <=> AllDead'
      BY Zenon, <1>5, SameAllDead DEF ShutdownJoin, graveyard
    <2>2. CASE sd_to_join = {} /\ sd' = "done" /\ UNCHANGED <<pc, sd_to_join>>
      <3>1. Joins'
        BY Zenon, <1>1, <2>1, <2>2
      <3>2. Ends'
        BY <2>1, <2>2 DEF JoinInv, Ends
      <3>3. QED  BY Zenon, <3>1, <3>2 DEF JoinInv
    <2>3. ASSUME NEW d \in sd_to_join, pc[d] = "exited", pc' = [pc EXCEPT ![d] = "none"],
                 sd_to_join' = sd_to_join \ {d}, UNCHANGED sd
          PROVE  JoinInv'
      <3>1. d \in Worker
        BY DEF IInv, TypeOK, ThreadTypeOK
      <3>2. Joins'
        BY Zenon, <2>1, <2>3, <3>1, JoinedJoins DEF Joined, JoinInv, IInv
      <3>3. Ends'
        BY <2>1, <2>3 DEF JoinInv, Ends
      <3>4. QED  BY Zenon, <3>2, <3>3 DEF JoinInv
    <2>4. QED  BY Zenon, <1>5, <2>2, <2>3 DEF ShutdownJoin
  <1>6. QED  BY Zenon, <1>2, <1>3, <1>4, <1>5 DEF ShutdownStep

LEMMA InitJoins == Init => JoinInv
  <1> SUFFICES ASSUME Init PROVE JoinInv
    OBVIOUS
  <1>1. Joins
    BY DEF Init, Joins, JoinedOnce, Joining, NoCycle, DeadPC
  <1>2. Ends
    BY DEF Init, Ends
  <1>3. QED  BY Zenon, <1>1, <1>2 DEF JoinInv

LEMMA NextJoins == IInv /\ JoinInv /\ [Next]_vars => JoinInv'
  <1> SUFFICES ASSUME IInv, JoinInv, [Next]_vars PROVE JoinInv'
    OBVIOUS
  <1>1. ASSUME NEW w \in Worker, Dies(w) PROVE JoinInv'
    BY Zenon, <1>1, DiesJoins DEF IInv
  <1>2. ASSUME NEW w \in Worker, WorkerStep(w) PROVE JoinInv'
    BY Zenon, <1>1, <1>2, OthersQuiet, IdleJoins, FinishJoins, QuietJoins, DeadJoins DEF WorkerStep
  <1>3. QED  BY Zenon, <1>2, OthersQuiet, QuietJoins, ShutdownJoins DEF Next

(* What Shutdown relies on after its wait.                                *)
LEMMA InvDrained == ASSUME SizeFacts, IInv, JoinInv PROVE ShutdownDrained
  <1>1. ASSUME all_workers_dead_ PROVE AllDead /\ count_idle_ = 0 /\ count_running_ = 0
    <2>1. AllDead
      BY Zenon, <1>1 DEF JoinInv, Ends
    <2>2. count_idle_ = Cardinality({}) /\ count_running_ = Cardinality({})
      BY Zenon, <2>1 DEF AllDead, IInv, Bookkeeping
    <2>3. QED  BY Zenon, <2>1, <2>2 DEF SizeFacts, SizeEmpty
  <1>2. ASSUME sd = "done", NEW w \in Worker PROVE pc[w] = "none"
    <2>1. AllDead /\ dead_workers_ = {} /\ sd_to_join = {}
      BY <1>2 DEF JoinInv, Ends
    <2>2. pc[w] \notin IdlePC \cup {"run"}
      BY <2>1 DEF AllDead, IInv, Bookkeeping
    <2>3. pc[w] \notin DeadPC
      <3> DEFINE S == {x \in Worker : pc[x] \in DeadPC}
      <3>1. SUFFICES ASSUME w \in S PROVE FALSE
        BY Zenon
      <3>2. PICK d \in S : \A x \in S : d \notin to_join[x]
        BY Zenon, <3>1 DEF JoinInv, Joins, NoCycle
      <3>3. PICK x \in Worker : d \in to_join[x]
        BY <2>1, <3>2 DEF JoinInv, Joins, JoinedOnce
      <3>4. pc[x] \in DeadPC
        BY <3>3 DEF JoinInv, Joins, Joining, DeadPC
      <3>5. QED  BY Zenon, <3>2, <3>3, <3>4
    <2>4. QED  BY <2>2, <2>3 DEF IInv, TypeOK, ThreadTypeOK, PC, IdlePC, DeadPC
  <1>3. sd = "done" => dead_workers_ = {}
    BY DEF JoinInv, Ends
  <1>4. QED  BY Zenon, <1>1, <1>2, <1>3 DEF JoinInv, Ends, AllDead, ShutdownDrained

-----------------------------------------------------------------------------
FS == INSTANCE FiniteSetTheorems

(* The facts about sizes that the lemmas assume.                           *)
LEMMA SizesHold == SizeFacts
<1>1. \A S : IsFiniteSet(S) <=> FS!IsFiniteSet(S)
  BY DEF IsFiniteSet, FS!IsFiniteSet
<1>2. \A S : Cardinality(S) = FS!Cardinality(S)
  BY DEF Cardinality, FS!Cardinality
<1>3. SizeIsNat /\ SizeEmpty /\ SizeOne
  BY <1>1, <1>2, FS!FS_CardinalityType, FS!FS_EmptySet, FS!FS_Singleton
     DEF SizeIsNat, SizeEmpty, SizeOne
<1>4. SizeAdd /\ SizeRemove
  BY <1>1, <1>2, FS!FS_AddElement, FS!FS_RemoveElement DEF SizeAdd, SizeRemove
<1>5. SizeSubset
  BY <1>1, <1>2, FS!FS_Subset DEF SizeSubset
<1>6. SizeInterval /\ SizeProduct
  BY <1>1, <1>2, FS!FS_Interval, FS!FS_Product DEF SizeInterval, SizeProduct
<1> QED BY <1>3, <1>4, <1>5, <1>6 DEF SizeFacts

(* The pool's types, its lists and counters, and the guard of the queue    *)
(* hold in every reachable state (thread_pool.cc, all of it).              *)
THEOREM PoolInvariant == Spec => []IInv
  <1>1. Init => IInv
    BY Zenon, SizesHold, InitIInv
  <1>2. IInv /\ [Next]_vars => IInv'
    BY Zenon, SizesHold, NextIInv
  <1>3. QED  BY <1>1, <1>2, PTL DEF Spec

(* The counters ScheduleTaskLocked decides by always are the sizes of the  *)
(* worker lists, and max_pool_size_ is the limit plus the blocked workers. *)
THEOREM PoolBookkeeping == Spec => []Bookkeeping
  <1>1. IInv => Bookkeeping
    BY DEF IInv
  <1>2. QED  BY <1>1, PoolInvariant, PTL

(* ScheduleTaskLocked and MarkCurrentWorkerAsBlocked never leave a queued  *)
(* task with nobody awake to take it.                                      *)
THEOREM PoolNeverStrandsTask == Spec => []NoStrandedTask
  <1>1. IInv => NoStrandedTask
    BY Zenon, SizesHold, InvNoStranded
  <1>2. QED  BY <1>1, PoolInvariant, PTL

(* The bookkeeping of joins and of shutdown holds in every reachable state *)
(* (JoinDeadWorkersLocked, IdleToDeadLocked and Shutdown).                 *)
THEOREM PoolJoinInvariant == Spec => []JoinInv
  BY InitJoins, NextJoins, PoolInvariant, PTL DEF Spec

(* Every worker thread that ends is joined, and deleted, by exactly one    *)
(* other thread: by the worker that obtained the list it was in, or by     *)
(* Shutdown.                                                               *)
THEOREM PoolJoinsOnce == Spec => []JoinedOnce
  <1>1. JoinInv => JoinedOnce
    BY Zenon DEF JoinInv, Joins
  <1>2. QED  BY <1>1, PoolJoinInvariant, PTL

(* Past its wait Shutdown finds no task and no worker that is alive, when  *)
(* it returns every thread has been joined, though it joins only the last  *)
(* one itself, and its wakeup is not lost.                                 *)
THEOREM PoolShutdownDrains == Spec => []ShutdownDrained
  <1>1. IInv /\ JoinInv => ShutdownDrained
    BY Zenon, SizesHold, InvDrained
  <1>2. QED  BY <1>1, PoolInvariant, PoolJoinInvariant, PTL
=============================================================================
