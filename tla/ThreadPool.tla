----------------------------- MODULE ThreadPool -----------------------------
(***************************************************************************)
(* The VM's thread pool (runtime/vm/thread_pool.cc) with the idle hook of  *)
(* the mutator pool (MutatorThreadPool in runtime/vm/isolate.cc).          *)
(*                                                                         *)
(* Every action is one critical section of pool_monitor_, or one step a    *)
(* thread takes outside it.  The worker lists are sets; worker identities  *)
(* and tasks are reused once a worker has been joined and a task has       *)
(* finished, so behaviours are unbounded while the state space is finite.  *)
(* Dart::post_task_callback is null: tasks run on the pool's own threads.  *)
(***************************************************************************)
EXTENDS Integers, Sequences, FiniteSets

CONSTANTS
    Worker,        \* identities of Worker objects, reused after deletion
    Task,          \* identities of tasks, reused after a task has run
    MaxPoolSize,   \* the constructor's max_pool_size; 0 means unlimited
    NoTask         \* the task of a worker that runs none

ASSUME PoolAssumption ==
    /\ IsFiniteSet(Worker)
    /\ MaxPoolSize \in Nat
    /\ NoTask \notin Task

VARIABLES
    tasks_,             \* the queue of accepted tasks that nobody runs yet
    pending_tasks_,     \* its length, as the code counts it
    idle_workers_, running_workers_, dead_workers_,
    count_idle_, count_running_, count_dead_,
    max_pool_size_,
    is_blocked_,        \* the workers whose is_blocked_ flag is set
    shutting_down_, all_workers_dead_,
    pc,                 \* where each worker thread is
    wake,               \* why a worker left its wait on pool_monitor_
    task,               \* the task each worker runs
    to_join,            \* each worker's dead_workers_to_join
    sd,                 \* where the thread that calls Shutdown is
    sd_to_join          \* that thread's dead_workers_to_join

queue == <<tasks_, pending_tasks_>>
alive == <<idle_workers_, running_workers_, count_idle_, count_running_>>
graveyard == <<dead_workers_, count_dead_, all_workers_dead_, to_join>>
limits == <<max_pool_size_, is_blocked_>>
shutdown == <<sd, sd_to_join>>
vars == <<queue, alive, graveyard, limits, shutting_down_, pc, wake, task,
          shutdown>>

WaitPC == {"wait", "idleWait"}

(* Blocked in WaitMicros on pool_monitor_: only a notification, the        *)
(* timeout or a spurious wakeup moves such a worker.                       *)
Waiting(w) == pc[w] \in WaitPC /\ wake[w] = "none"
Waiters == {w \in Worker : Waiting(w)}

(* A worker that signals exit_monitor_ still holds pool_monitor_.          *)
PoolMonitorFree == \A w \in Worker : pc[w] # "signal"

Init ==
    /\ tasks_ = <<>> /\ pending_tasks_ = 0
    /\ idle_workers_ = {} /\ running_workers_ = {} /\ dead_workers_ = {}
    /\ count_idle_ = 0 /\ count_running_ = 0 /\ count_dead_ = 0
    /\ max_pool_size_ = MaxPoolSize
    /\ is_blocked_ = {}
    /\ shutting_down_ = FALSE /\ all_workers_dead_ = FALSE
    /\ pc = [w \in Worker |-> "none"]
    /\ wake = [w \in Worker |-> "none"]
    /\ task = [w \in Worker |-> NoTask]
    /\ to_join = [w \in Worker |-> {}]
    /\ sd = "none" /\ sd_to_join = {}

-----------------------------------------------------------------------------
(* Monitor::Notify wakes one waiter, if there is one.                      *)
Notify ==
    IF Waiters = {}
    THEN UNCHANGED wake
    ELSE \E w \in Waiters : wake' = [wake EXCEPT ![w] = "notified"]

(* Mutant: Shutdown forgets to notify.                                     *)
MutNotifyAll == UNCHANGED wake

NotifyAll ==
    wake' = [w \in Worker |-> IF Waiting(w) THEN "notified" ELSE wake[w]]

(* Mutant: the new worker is not counted as idle.                          *)
MutNewWorker(w) ==
    /\ pc[w] = "none"
    /\ pc' = [pc EXCEPT ![w] = "new"]
    /\ idle_workers_' = idle_workers_ \cup {w}
    /\ UNCHANGED count_idle_

(* new Worker(this), appended to idle_workers_; its thread starts later,   *)
(* outside the monitor.                                                    *)
NewWorker(w) ==
    /\ pc[w] = "none"
    /\ pc' = [pc EXCEPT ![w] = "new"]
    /\ idle_workers_' = idle_workers_ \cup {w}
    /\ count_idle_' = count_idle_ + 1

(* Mutant: the task being scheduled is not counted.                        *)
MutEnoughIdle == count_idle_ >= pending_tasks_

EnoughIdle == count_idle_ >= pending_tasks_ + 1
MaxedOut == max_pool_size_ > 0 /\ count_idle_ + count_running_ >= max_pool_size_

ScheduleTaskLocked(t) ==
    /\ tasks_' = Append(tasks_, t)
    /\ pending_tasks_' = pending_tasks_ + 1
    /\ \/ /\ EnoughIdle \/ (MaxedOut /\ idle_workers_ # {})
          /\ Notify
          /\ UNCHANGED <<pc, idle_workers_, count_idle_>>
       \/ /\ ~EnoughIdle /\ MaxedOut /\ idle_workers_ = {}
          /\ UNCHANGED <<wake, pc, idle_workers_, count_idle_>>
       \/ /\ ~EnoughIdle /\ ~MaxedOut
          /\ \E w \in Worker : NewWorker(w)
          /\ UNCHANGED wake

(* RunImpl: accepted unless the pool shuts down (then it changes nothing). *)
RunImpl(t) ==
    /\ PoolMonitorFree
    /\ ~shutting_down_
    /\ \A i \in DOMAIN tasks_ : tasks_[i] # t
    /\ \A w \in Worker : task[w] # t
    /\ ScheduleTaskLocked(t)
    /\ UNCHANGED <<running_workers_, count_running_, graveyard, limits,
                   shutting_down_, task, shutdown>>

StartThread(w) ==
    /\ pc[w] = "new"
    /\ pc' = [pc EXCEPT ![w] = "loop"]
    /\ UNCHANGED <<queue, alive, graveyard, limits, shutting_down_, wake, task,
                   shutdown>>

-----------------------------------------------------------------------------
(* A worker's own transitions, as functions of the idle list, its count    *)
(* and the running list at that point of the critical section.             *)
(* Mutant: a dying worker drops the list of the dead.                      *)
MutObtainDeadWorkersLocked(w) == UNCHANGED to_join

ObtainDeadWorkersLocked(w) ==
    to_join' = [to_join EXCEPT ![w] = @ \cup dead_workers_]

(* Mutant: exit_monitor_ is not notified by the death that publishes       *)
(* all_workers_dead_.                                                      *)
MutAfterDeath(last) == "join"

LastDeath(w, idle, running) ==
    shutting_down_ /\ running = {} /\ idle \ {w} = {}
AfterDeath(last) == IF last THEN "signal" ELSE "join"

(* The last death under shutdown publishes all_workers_dead_ before it has *)
(* exit_monitor_ and notifies; pool_monitor_ stays locked meanwhile.       *)
IdleToDeadLocked(w, idle, countIdle, running) ==
    LET last == LastDeath(w, idle, running)
    IN  /\ idle_workers_' = idle \ {w}
        /\ count_idle_' = countIdle - 1
        /\ dead_workers_' = {w}
        /\ count_dead_' = 1
        /\ all_workers_dead_' = (all_workers_dead_ \/ last)
        /\ pc' = [pc EXCEPT ![w] = AfterDeath(last)]

Die(w, idle, countIdle, running) ==
    /\ ObtainDeadWorkersLocked(w)
    /\ IdleToDeadLocked(w, idle, countIdle, running)
    /\ wake' = [wake EXCEPT ![w] = "none"]

(* The worker stays idle and goes to p, leaving the dead lists alone.      *)
StayIdle(w, p, idle, countIdle) ==
    /\ idle_workers_' = idle
    /\ count_idle_' = countIdle
    /\ pc' = [pc EXCEPT ![w] = p]
    /\ wake' = [wake EXCEPT ![w] = "none"]
    /\ UNCHANGED graveyard

(* The end of an iteration of WorkerLoop with no task left.                *)
DieOrWait(w, idle, countIdle, running) ==
    \/ shutting_down_ /\ Die(w, idle, countIdle, running)
    \/ ~shutting_down_ /\ StayIdle(w, "wait", idle, countIdle)

(* OnEnterIdleLocked may do nothing, wait for the idle timeout, or leave   *)
(* the monitor to run NotifyIdle; it is called only if nobody runs.        *)
OnEnterIdleLocked(w, idle, countIdle) ==
    \E p \in {"idleWait", "notifyIdle"} : StayIdle(w, p, idle, countIdle)

NoTaskLeft(w, idle, countIdle, running) ==
    \/ running = {} /\ OnEnterIdleLocked(w, idle, countIdle)
    \/ DieOrWait(w, idle, countIdle, running)

(* Mutant: the task that came last is taken first.                         *)
MutTakeTask(w) ==
    /\ tasks_ # <<>>
    /\ task' = [task EXCEPT ![w] = tasks_[Len(tasks_)]]
    /\ tasks_' = SubSeq(tasks_, 1, Len(tasks_) - 1)
    /\ pending_tasks_' = pending_tasks_ - 1

TakeTask(w) ==
    /\ tasks_ # <<>>
    /\ task' = [task EXCEPT ![w] = Head(tasks_)]
    /\ tasks_' = Tail(tasks_)
    /\ pending_tasks_' = pending_tasks_ - 1

(* The top of WorkerLoop.                                                  *)
LoopTakeTask(w) ==
    /\ PoolMonitorFree
    /\ pc[w] = "loop"
    /\ TakeTask(w)
    /\ idle_workers_' = idle_workers_ \ {w}
    /\ running_workers_' = running_workers_ \cup {w}
    /\ count_idle_' = count_idle_ - 1
    /\ count_running_' = count_running_ + 1
    /\ pc' = [pc EXCEPT ![w] = "run"]
    /\ UNCHANGED <<graveyard, limits, shutting_down_, wake, shutdown>>

LoopNoTask(w) ==
    /\ PoolMonitorFree
    /\ pc[w] = "loop"
    /\ tasks_ = <<>>
    /\ NoTaskLeft(w, idle_workers_, count_idle_, running_workers_)
    /\ UNCHANGED <<queue, running_workers_, count_running_, limits,
                   shutting_down_, task, shutdown>>

(* task->Run() has returned: take the next task, or become idle.           *)
FinishTask(w) ==
    /\ PoolMonitorFree
    /\ pc[w] = "run"
    /\ w \notin is_blocked_
    /\ \/ /\ TakeTask(w)
          /\ UNCHANGED <<alive, graveyard, pc, wake>>
       \/ /\ tasks_ = <<>>
          /\ task' = [task EXCEPT ![w] = NoTask]
          /\ running_workers_' = running_workers_ \ {w}
          /\ count_running_' = count_running_ - 1
          /\ NoTaskLeft(w, idle_workers_ \cup {w}, count_idle_ + 1,
                        running_workers_ \ {w})
          /\ UNCHANGED queue
    /\ UNCHANGED <<limits, shutting_down_, shutdown>>

(* NotifyIdle returns, or the wait inside OnEnterIdleLocked does.  With a  *)
(* task in the queue WorkerLoop continues: it unlocks and locks again.     *)
LeaveEnterIdle(w) ==
    /\ PoolMonitorFree
    /\ \/ pc[w] = "notifyIdle"
       \/ pc[w] = "idleWait" /\ wake[w] # "none"
    /\ \/ tasks_ # <<>> /\ StayIdle(w, "loop", idle_workers_, count_idle_)
       \/ /\ tasks_ = <<>>
          /\ DieOrWait(w, idle_workers_, count_idle_, running_workers_)
       \/ /\ tasks_ = <<>> /\ ~shutting_down_ /\ wake[w] = "timedOut"
          /\ StayIdle(w, "notifyIdle", idle_workers_, count_idle_)
    /\ UNCHANGED <<queue, running_workers_, count_running_, limits,
                   shutting_down_, task, shutdown>>

(* The inner wait loop of WorkerLoop.                                      *)
WaitReturns(w) ==
    /\ PoolMonitorFree
    /\ pc[w] = "wait" /\ wake[w] # "none"
    /\ \/ tasks_ # <<>> /\ StayIdle(w, "loop", idle_workers_, count_idle_)
       \/ /\ tasks_ = <<>>
          /\ shutting_down_ \/ wake[w] = "timedOut"
          /\ Die(w, idle_workers_, count_idle_, running_workers_)
       \/ /\ tasks_ = <<>> /\ ~shutting_down_ /\ wake[w] = "notified"
          /\ StayIdle(w, "wait", idle_workers_, count_idle_)
    /\ UNCHANGED <<queue, running_workers_, count_running_, limits,
                   shutting_down_, task, shutdown>>

(* A wait ends without a notification: its timeout expires, or it returns  *)
(* spuriously.                                                             *)
WaitEnds(w, result) ==
    /\ Waiting(w)
    /\ wake' = [wake EXCEPT ![w] = result]
    /\ UNCHANGED <<queue, alive, graveyard, limits, shutting_down_, pc, task,
                   shutdown>>

TimeOut(w) == WaitEnds(w, "timedOut")
SpuriousWakeup(w) == WaitEnds(w, "notified")

(* exit_monitor_ is taken and notified; then pool_monitor_ is released.    *)
SignalExit(w) ==
    /\ pc[w] = "signal"
    /\ pc' = [pc EXCEPT ![w] = "join"]
    /\ sd' = IF sd = "waiting" THEN "exitCheck" ELSE sd
    /\ UNCHANGED <<queue, alive, graveyard, limits, shutting_down_, wake, task,
                   sd_to_join>>

(* JoinDeadWorkersLocked: Join blocks until the thread has exited; then    *)
(* the Worker is deleted.                                                  *)
JoinOne(w) ==
    /\ pc[w] = "join"
    /\ \E d \in to_join[w] :
          /\ pc[d] = "exited"
          /\ pc' = [pc EXCEPT ![d] = "none"]
          /\ to_join' = [to_join EXCEPT ![w] = @ \ {d}]
    /\ UNCHANGED <<queue, alive, dead_workers_, count_dead_, all_workers_dead_,
                   limits, shutting_down_, wake, task, shutdown>>

(* The thread function Worker::Main returns.                               *)
Exit(w) ==
    /\ pc[w] = "join" /\ to_join[w] = {}
    /\ pc' = [pc EXCEPT ![w] = "exited"]
    /\ UNCHANGED <<queue, alive, graveyard, limits, shutting_down_, wake, task,
                   shutdown>>

-----------------------------------------------------------------------------
(* Called by the task a worker runs when it leaves its isolate with Dart   *)
(* frames on the stack, and when it enters it again.                       *)
MarkCurrentWorkerAsBlocked(w) ==
    /\ PoolMonitorFree
    /\ pc[w] = "run"
    /\ w \notin is_blocked_
    /\ is_blocked_' = is_blocked_ \cup {w}
    /\ max_pool_size_' = IF max_pool_size_ > 0 THEN max_pool_size_ + 1 ELSE 0
    /\ IF max_pool_size_ > 0 /\ idle_workers_ = {} /\ pending_tasks_ > 0
       THEN \E n \in Worker : NewWorker(n)
       ELSE UNCHANGED <<pc, idle_workers_, count_idle_>>
    /\ UNCHANGED <<queue, running_workers_, count_running_, graveyard,
                   shutting_down_, wake, task, shutdown>>

MarkCurrentWorkerAsUnBlocked(w) ==
    /\ PoolMonitorFree
    /\ w \in is_blocked_
    /\ is_blocked_' = is_blocked_ \ {w}
    /\ max_pool_size_' = IF max_pool_size_ > 0 THEN max_pool_size_ - 1 ELSE 0
    /\ UNCHANGED <<queue, alive, graveyard, shutting_down_, pc, wake, task,
                   shutdown>>

-----------------------------------------------------------------------------
(* Shutdown, called explicitly and again by the destructor.                *)
ShutdownBegin ==
    /\ PoolMonitorFree
    /\ sd \in {"none", "done"}
    /\ shutting_down_' = TRUE
    /\ sd' = "exitCheck"
    /\ IF running_workers_ = {} /\ idle_workers_ = {}
       THEN all_workers_dead_' = TRUE /\ UNCHANGED wake
       ELSE NotifyAll /\ UNCHANGED all_workers_dead_
    /\ UNCHANGED <<queue, alive, dead_workers_, count_dead_, to_join, limits,
                   pc, task, sd_to_join>>

(* The loop around eml.Wait(), one critical section of exit_monitor_.      *)
ShutdownExitCheck ==
    /\ sd = "exitCheck"
    /\ sd' = IF all_workers_dead_ THEN "obtain" ELSE "waiting"
    /\ UNCHANGED <<queue, alive, graveyard, limits, shutting_down_, pc, wake,
                   task, sd_to_join>>

ShutdownSpuriousWakeup ==
    /\ sd = "waiting"
    /\ sd' = "exitCheck"
    /\ UNCHANGED <<queue, alive, graveyard, limits, shutting_down_, pc, wake,
                   task, sd_to_join>>

ShutdownObtainDead ==
    /\ PoolMonitorFree
    /\ sd = "obtain"
    /\ sd' = "join"
    /\ sd_to_join' = dead_workers_
    /\ dead_workers_' = {}
    /\ count_dead_' = 0
    /\ UNCHANGED <<queue, alive, all_workers_dead_, to_join, limits,
                   shutting_down_, pc, wake, task>>

ShutdownJoin ==
    /\ sd = "join"
    /\ \/ /\ \E d \in sd_to_join :
                /\ pc[d] = "exited"
                /\ pc' = [pc EXCEPT ![d] = "none"]
                /\ sd_to_join' = sd_to_join \ {d}
          /\ UNCHANGED sd
       \/ /\ sd_to_join = {}
          /\ sd' = "done"
          /\ UNCHANGED <<pc, sd_to_join>>
    /\ UNCHANGED <<queue, alive, graveyard, limits, shutting_down_, wake, task>>

-----------------------------------------------------------------------------
WorkerStep(w) ==
    \/ StartThread(w) \/ LoopTakeTask(w) \/ LoopNoTask(w) \/ FinishTask(w)
    \/ LeaveEnterIdle(w) \/ WaitReturns(w)
    \/ SignalExit(w) \/ JoinOne(w) \/ Exit(w)

BlockStep(w) == MarkCurrentWorkerAsBlocked(w) \/ MarkCurrentWorkerAsUnBlocked(w)

ShutdownStep == ShutdownExitCheck \/ ShutdownObtainDead \/ ShutdownJoin

Next ==
    \/ \E t \in Task : RunImpl(t)
    \/ \E w \in Worker : \/ WorkerStep(w) \/ BlockStep(w)
                        \/ TimeOut(w) \/ SpuriousWakeup(w)
    \/ ShutdownBegin \/ ShutdownStep \/ ShutdownSpuriousWakeup

Spec == Init /\ [][Next]_vars

(* Threads that can move do: a started thread reaches its next critical    *)
(* section, a task returns, a caller of Shutdown goes on.  No timeout and  *)
(* no spurious wakeup is assumed to happen, and nobody has to schedule     *)
(* tasks, to shut down or to unblock.                                      *)
FairSpec ==
    /\ Spec
    /\ \A w \in Worker : WF_vars(WorkerStep(w))
    /\ WF_vars(ShutdownStep)

-----------------------------------------------------------------------------
PC == {"none", "new", "loop", "run", "wait", "idleWait", "notifyIdle",
       "signal", "join", "exited"}
IdlePC == {"new", "loop", "wait", "idleWait", "notifyIdle"}
DeadPC == {"signal", "join", "exited"}

PoolTypeOK ==
    /\ tasks_ \in Seq(Task) /\ pending_tasks_ \in Nat
    /\ idle_workers_ \subseteq Worker /\ running_workers_ \subseteq Worker
    /\ dead_workers_ \subseteq Worker
    /\ count_idle_ \in Nat /\ count_running_ \in Nat /\ count_dead_ \in Nat
    /\ max_pool_size_ \in Nat
    /\ is_blocked_ \subseteq Worker

ThreadTypeOK ==
    /\ shutting_down_ \in BOOLEAN /\ all_workers_dead_ \in BOOLEAN
    /\ pc \in [Worker -> PC]
    /\ wake \in [Worker -> {"none", "notified", "timedOut"}]
    /\ task \in [Worker -> Task \cup {NoTask}]
    /\ to_join \in [Worker -> SUBSET Worker]
    /\ sd \in {"none", "exitCheck", "waiting", "obtain", "join", "done"}
    /\ sd_to_join \subseteq Worker

TypeOK == PoolTypeOK /\ ThreadTypeOK

(* The lists say where every worker is, the counters the code keeps beside *)
(* the lists (the ones ScheduleTaskLocked decides by, and workers_started  *)
(* reports) are their sizes, and max_pool_size_ is the configured size     *)
(* plus the number of workers marked as blocked.                           *)
Bookkeeping ==
    /\ idle_workers_ = {w \in Worker : pc[w] \in IdlePC}
    /\ running_workers_ = {w \in Worker : pc[w] = "run"}
    /\ count_idle_ = Cardinality(idle_workers_)
    /\ count_running_ = Cardinality(running_workers_)
    /\ count_dead_ = Cardinality(dead_workers_)
    /\ pending_tasks_ = Len(tasks_)
    /\ is_blocked_ \subseteq running_workers_
    /\ max_pool_size_ = IF MaxPoolSize = 0 THEN 0
                        ELSE MaxPoolSize + Cardinality(is_blocked_)

AwakeIdle == {w \in idle_workers_ : ~Waiting(w)}

(* No queued task is stranded: somebody who is neither asleep on           *)
(* pool_monitor_ nor blocked outside its isolate will look at the queue.   *)
(* This is what the choice between Notify, a new worker and doing nothing  *)
(* in ScheduleTaskLocked, and the replacement worker of                    *)
(* MarkCurrentWorkerAsBlocked, have to guarantee.                          *)
NoStrandedTask ==
    tasks_ # <<>> => AwakeIdle \cup (running_workers_ \ is_blocked_) # {}

(* What makes NoStrandedTask inductive: either every idle worker is awake  *)
(* or there are as many awake ones as tasks; if none is idle somebody      *)
(* runs unblocked; an unlimited pool keeps one idle worker for each task.  *)
TaskGuard ==
    pending_tasks_ > 0 =>
       /\ Cardinality(AwakeIdle) >= pending_tasks_ \/ AwakeIdle = idle_workers_
       /\ idle_workers_ = {} => running_workers_ \ is_blocked_ # {}
       /\ MaxPoolSize = 0 => count_idle_ >= pending_tasks_

(* The join obligations: a worker that died and was not deleted yet is in  *)
(* exactly one of dead_workers_ and the lists obtained from it, and only   *)
(* such workers are: every thread is joined once and none is leaked.       *)
JoinedOnce ==
    \A d \in Worker :
       /\ pc[d] \in DeadPC <=>
             d \in dead_workers_ \cup sd_to_join \/ \E x \in Worker : d \in to_join[x]
       /\ d \in dead_workers_ => d \notin sd_to_join
       /\ \A x \in Worker : d \in to_join[x] =>
             /\ d \notin dead_workers_ \cup sd_to_join
             /\ \A y \in Worker : d \in to_join[y] => x = y

(* The assertions of Shutdown, and its promise in thread_pool.h: past the  *)
(* wait on exit_monitor_ all accepted tasks have run and no worker is left *)
(* but dead ones; when it returns every thread has been joined.  Its       *)
(* wakeup is never lost: while it sleeps on exit_monitor_ with all workers *)
(* dead, one of them is about to notify it.                                *)
ShutdownDrained ==
    /\ sd \in {"obtain", "join", "done"} =>
          /\ tasks_ = <<>>
          /\ idle_workers_ = {} /\ running_workers_ = {}
          /\ count_idle_ = 0 /\ count_running_ = 0
    /\ sd = "done" => dead_workers_ = {} /\ \A w \in Worker : pc[w] = "none"
    /\ sd = "waiting" /\ all_workers_dead_ => ~PoolMonitorFree

(* Every accepted task is taken by a worker, even if no wait ever times    *)
(* out and no blocked worker is ever unblocked.                            *)
EveryTaskTaken ==
    \A t \in Task : (\E i \in DOMAIN tasks_ : tasks_[i] = t)
                      ~> (\E w \in Worker : task[w] = t)

(* For Shutdown to return, blocked tasks have to get back into their       *)
(* isolates, a task has to return however often it blocks (SF: FinishTask  *)
(* is disabled while the worker is blocked), and the wait of               *)
(* OnEnterIdleLocked, which is entered without a look at shutting_down_,   *)
(* has to end by its timeout.  (It has none if the idle time is over at    *)
(* that very moment: WaitMicros(0) waits for a notification.)              *)
TasksReturn ==
    \A w \in Worker :
       /\ WF_vars(MarkCurrentWorkerAsUnBlocked(w))
       /\ SF_vars(FinishTask(w))
       /\ WF_vars(pc[w] = "idleWait" /\ TimeOut(w))

(* Shutdown returns, whatever was queued, running, waiting or dying.       *)
ShutdownReturns == TasksReturn => (sd = "exitCheck" ~> sd = "done")
=============================================================================
