# Verification of the Dart VM runtime

TLA+ models of the concurrent core of the Dart virtual machine in this
repository (`runtime/vm`), model-checked with TLC and, where the argument is a
safety argument, proved with TLAPS for every number of threads, tasks, ports
and handlers. `PROJECT.json` holds the machine-readable side: the components,
the runs, the source lines behind every definition, the mutants, the findings,
the hazards and the theorems.

## 1. The system and its parts

The repository is the Dart SDK with a prototype of a compiler from Dart to
WebAssembly: a virtual machine in C++, the core libraries, and compilers and
tools written in Dart. What a model checker is good for is concentrated in the
VM's runtime, in which the following parts meet:

| Part | Source | How it interacts |
|---|---|---|
| Thread pool | `thread_pool.cc` | runs the tasks of message handlers, the garbage collector's helpers and the background compiler |
| Message handlers and queues | `message_handler.cc`, `message.cc`, `native_message_handler.cc` | one task per handler on the pool; serves two queues; pauses, resumes, exits |
| Ports | `port.cc`, `port_set.h` | find the handler of a message, count what keeps an isolate alive |
| Isolates and isolate groups | `isolate.cc` | own a handler, ports, a share of the heap; schedule threads |
| Threads, interrupts | `thread.cc`, `thread.h` | the safepoint word, the stack limit that doubles as an interrupt flag |
| Safepoints, thread registry | `heap/safepoint.cc`, `thread_registry.cc` | stop all threads of a group for GC, deoptimization, reload |
| Locks | `lockers.cc`, `heap/safepoint.h` | block at a safepoint, read-write lock of program state |
| Collector | `heap/marker.cc`, `heap/scavenger.cc`, `heap/pages.cc`, `heap/sweeper.cc` | runs in safepoint operations and in tasks of its own |
| Service, debugger, reload, profiler, timeline | `service.cc`, `debugger.cc`, ... | arrive as out-of-band messages or run in safepoint operations |
| Kernel and service isolates | `kernel_isolate.cc`, `service_isolate.cc` | start-up and shutdown protocols |
| Compiler, object model, snapshots | `compiler/`, `object.cc`, ... | sequential |
| Core libraries | `sdk/lib` | timers, futures and streams on top of ports |
| dart2wasm, front end, analyzer, dart2js | `pkg/` | sequential program transformations |

`PROJECT.json` lists all of them with their status. Four are modelled: the
thread pool, safepoints with the thread registry, ports, and message handlers.
Of three more the part with the interleavings is modelled: the interrupts of
threads, the safepoint read-write lock, and the marker.

## 2. Modules

| Module | What it is |
|---|---|
| `ThreadPool` | the pool, its workers, blocking and shutdown |
| `ThreadPoolProofs` | its inductive invariants and theorems |
| `SetSizes` | the facts about sizes of finite sets that the proofs of the counters use |
| `StopTheWorld` | what a safepoint operation promises (abstract) |
| `Safepoint` | the protocol that keeps the promise |
| `SafepointProofs` | invariant, one lemma per action (of threads, of the handler), theorems and refinement |
| `PortRegistry` | what the port map promises (abstract) |
| `PortSet`, `PortMap` | the hash set as operators, and the map built from it |
| `MessageQueue`, `MessageHandler` | the queue's operators, and the handler |
| `MessageHandlerProofs` | its inductive invariant and theorems |
| `Interrupts` | the stack-limit word of a mutator and those who interrupt it |
| `IsolateProofs` | the invariants and theorems of `PortRegistry` and `Interrupts` |
| `SafepointRwLock`, `SafepointRwLockProofs` | the read-write lock among safepoint operations; invariant and theorems |
| `ParallelMark` | concurrent and parallel marking, with the barrier and the marking stack |
| `ParallelMarkProofs` | the lemmas about the barrier's counters and the rounds |
| `MarkingPhaseProofs` | those about the phases: types, where work can be left, which keys are dead |
| `MarkingProofs` | those about what is marked and listed, and the theorems about marking |
| `MCSafepoint`, `MCPortMap`, `MCMessageHandler`, `MCParallelMark` | instances for TLC: symmetry, port numbers, kinds of messages, heaps |

Variables have the names of the fields they stand for, trailing underscore
included; actions have the names of the functions. An operator whose name
begins with `Mut` is a mutant: a variant of the definition that follows it, with
a bug somebody could have written. Nothing uses it. Put in the place of the
definition it makes the property it belongs to fail, which shows that the
property depends on that code.

### 2.1 ThreadPool

An action is one critical section of `pool_monitor_`, or a step a thread takes
outside it (`StartThread`, `FinishTask`, `JoinOne`, `Exit`). `RunImpl` is the
caller of `Run`; a worker goes through `LoopTakeTask`/`LoopNoTask`, `FinishTask`
(which takes the next task in the same critical section, as
`RunningToIdleLocked` followed by the loop does), the waits, and its death:
`IdleToDeadLocked`, the join of earlier dead workers, the exit. The mutator
pool's `OnEnterIdleLocked` with its own timed wait is part of the same worker.
`MarkCurrentWorkerAsBlocked`/`UnBlocked` are called by the task a worker runs.
`Shutdown` is a thread of its own in four steps.

Waits may end by a notification, by the timeout or spuriously. The identities of
workers and tasks are reused, so behaviours are infinite while the state space
is finite. `Dart::post_task_callback`, with which an embedder replaces the pool,
is null.

### 2.2 Safepoint and StopTheWorld

`safepoint_state_` is split into its bits: the sets `at` and `req` per thread
over the two levels (`kGC`, `kGCAndDeopt`), `blocked_` and `bypass_`. Each level
has `owner_`, `operation_count_` and `num_threads_not_parked_`. The lock-free
paths (`TryEnterSafepoint`, `TryExitSafepoint`) are atomic steps of their own,
interleaved with a requester that visits the threads one at a time with
`threads_lock()` held. A thread is outside the group, in VM code, in generated
code, in native code or blocked; it polls for requests, makes runtime calls that
can or cannot deoptimize lazily, starts operations of either level, nests them,
and may leave the group or enter it. `StopTheWorld` knows none of this: there are
threads that run or are stopped, and operations that are alone from beginning to
end. The refinement mapping (`WorldMode`, `WorldOperation`) reads both from the
thread's position and its bits.

Assumed about the callers: a thread does not leave the group in a runtime call
without lazy deoptimization (only allocation entries are of that kind,
`runtime_entry.cc`); threads that bypass safepoints start no operations; a
native call in a no-callback scope, which does not enter a safepoint, counts as
VM code.

### 2.3 PortRegistry, PortSet and PortMap

`PortSet` models `port_set.h` slot by slot: linear probing, the markers of free
and deleted slots, `Insert` over a deleted slot, `MaintainInvariants` with
growth and `Rehash`. `PortMap` has one action per function of `port.cc`, each of
which holds the map's mutex: it changes the map's set, the handler's own set and
the handler's count together. `PortRegistry` is the same without tables: a
function from ports to handlers and states, and the counts. `PortMap` is shown
to implement it, with the slots as the refinement mapping.

Assumed about the callers: `SetPortState` does not make a live port live again
(`ReceivePort::New`, `Dart_NewNativePort`, and the timer's port, which is
switched in turn); a native handler has one port and becomes live before it is
used; an isolate closes all its ports and deletes its handler in the same
shutdown (`Isolate::LowLevelShutdown`); `Cleanup` runs when all isolates are
gone. `kControlPort` is set only by a test and is left out. Port numbers are
those of `AllocatePort`: multiples of four plus three.

### 2.4 MessageQueue and MessageHandler

One handler, of an isolate or of a native port (`handler`), and the threads that
serve it: a task of the pool, or the embedder through `HandleNextMessage`.
`monitor_` is a variable: a thread keeps it from step to step where the code
does, and the steps where it is released (entering the isolate, handling a
message, sending a pause event) are where posters get in. `HandleMessages` is a
procedure with a stack of calls per thread, as the code that handles an event may
be interrupted for messages out of band (`HandleInterrupts`) or wait for messages
itself (`PauseAndHandleAllMessages`). `TaskCallback` is a sequence of actions in
the order of the code, from the pause on start to the deletion of the handler.

Messages are an identity and a kind: events; pause and resume by capability;
kill with its three priorities (of which two are put off into the normal queue
by `HandleLibMessage`); the VM's own kill; the service's resume and its flag to
pause on exit. An event may change the number of live ports, and ends with
success, with an error or, for an isolate, never.

`MessageNotify` interrupts the code of an isolate, or finds it inside
`SetStackLimit`, which then overwrites the interrupt (finding 2; modelled in
detail by `Interrupts`): `overwritten` records that this has happened. The wait of
`PauseAndHandleAllMessages` may be without a timeout (`Dart_WaitForEvent(0)`): no
step out of it is fair but the one that a notification (`Woken`) brings about.

Left out: start callbacks (every caller in the VM passes null), isolates that
are not runnable when their task runs, more than one resume capability,
`AcquiredQueues` (it keeps the monitor), `Dart_SetPausedOnStart/Exit` and
`Dart_HandleServiceMessages`, and the out-of-band messages that leave queues and
pauses alone (ping, listeners, error handling, reload, low memory). Requests of
the service that run Dart code (`evaluate`) are left out too: only events open
ports, so `NoEarlyExit` says nothing of a request that opens one between the
decision to exit and the end (section 5). An error in a nested call unwinds the event around it with the same status. The pool takes
the task it is given: it is not shut down before the handlers are gone.

### 2.5 Interrupts

Below the one bit `vm_interrupt` of `Safepoint` lies a word with two uses:
`stack_limit_` is what generated code compares the stack pointer with, and
`ScheduleInterrupts` replaces it by a value that fails every comparison, with the
reasons in its low bits. A word is its low bits and the rest: a limit of an OS
thread, 0, or all ones. The compare-exchange loops are one step each.
`SetStackLimit` is two (a load and a store), because not everybody who schedules
interrupts holds its `thread_lock_`: a safepoint request does
(`ThreadLockFree`), `MessageNotify` and the profiler do not.

The mutator goes between the message loop, Dart code, VM code (natives, runtime
calls) and the `StackOverflow` entry, with `frames` for the limits that nested
`ScopedIsolateStackLimits` have saved. Between two messages the isolate may move
to another OS thread (`os`). A kill among the out-of-band messages unwinds
all invocations (`killed`). The reasons for an interrupt are variables of their
own, cleared by `HandleInterrupts` or, for a safepoint, by whatever else parks
the thread, so that a property can say that a reason still stands.

### 2.6 SafepointRwLock

`state_` and `writer_id_` as in the code, and per thread a stack of scopes:
those that hold the lock for reading or writing, and the read scopes of a
writer, which hold nothing and must release nothing. A section under `monitor_`
is one action. A thread that cannot get the lock at once goes to a safepoint
first, and may get the lock there while an operation runs; then it waits with
the lock in hand for the operation to end. Detached threads (no current
`Thread`) wait without a safepoint.

Of safepoints the module has the two levels with their owners and the rule of
`Safepoint` in one step: an operation begins when all others are safe for its
level. Threads in allocation entries, which cannot lazily deoptimize, are safe
for `kGC` only. Assumed about the callers: no thread upgrades from reading to
writing, allocation entries are called from generated code, which holds no lock,
and code inside an operation does not take the lock. The last is asserted by
`EnterRead` (`lockers.cc:110`) but not by `EnterWrite`; whoever has to wait for
the lock asserts it in `TransitionVMToBlocked` (`heap/safepoint.h:302`).

### 2.7 ParallelMark

From `StartConcurrentMark`, or from `MarkObjects` without concurrent marking, to
the release of the barrier. Each visitor has its own blocks, its list of weak
properties with unmarked keys and the pointers of the object at hand, which are
marked one per step. `Drain`, `ProcessPending` and `EndPending` are
`ProcessMarkingStack`; its budget shows only in that a batch may start with an
empty stack. `Flush` is one round of the loop in `MarkObjects`: tasks started in
earlier rounds run while later visitors are flushed. After it come the
barrier, `WaitForWork` with its `num_busy`, the rounds for weak properties with
their three barriers, deferred marking and mourning, in the order of
`RunEnteredIsolateGroup`. Positions `sync1` to `wait5` are the five calls of
`Sync`.

A block holds one object, and whether the output block was full at a push is
left open. The heap is fixed; mutators appear as write barriers, which mark an
object or defer one. With `FLAG_mark_when_idle` the last visitor belongs to the
main thread, which uses it now and then until marking is finished. That the
collection waits for the concurrent tasks (`phase_` in `pages.cc`) is the guard
of the first `Flush`. What is reachable (`Reachable`) is the intersection of the
sets that contain the roots and are closed under pointers and under weak
properties with a member as key: a definition without recursion, which the
proofs can use.

The key of a weak property is never an Instructions object (`MarkAssumption`):
keys are instances given to an `Expando` (`expando_patch.dart`, and its copies
in messages, `message_snapshot.cc`), the external typed data of loaded blobs
(`isolate.cc`) and Code (`weak_code.cc`). Deferred marking, which comes after the rounds, marks
Instructions and would otherwise bring a dead key back to life.

## 3. Runs

| Run | Instance | States | What it shows |
|---|---|---|---|
| `thread_pool` | 3 workers, 3 tasks, size 1 | 79 665 | lists and counters agree with the threads; a queued task always has somebody awake to run it and is run in the end; every thread is joined once; `Shutdown` leaves nothing behind, does not sleep through the last death, and returns |
| `safepoint_safety` | 2 mutators, 1 helper, nesting 2 | 34 153 | operations are alone, the park count is exact, owners and requests agree, no wakeup is lost; every behaviour is one of `StopTheWorld` |
| `safepoint_liveness` | 2 mutators, nesting 2 | 2 996 | a thread that got a level runs its operation |
| `ports` | 1 isolate, 1 native port, 4 numbers, tables of 4 and 8 | 70 269 | entries stay findable, a free slot is always left, the two kinds of sets agree, the map implements the registry |
| `handler_safety` | 2 threads, 8 kinds, 3 messages | 375 561 | one task at a time; no message out of band is missed when a task ends; normal messages wait only for a resume; order of the queue; no early exit; deletion once and by the right party |
| `handler_liveness` | 2 threads, 3 kinds, 3 messages | 65 665 | the VM's kill ends an isolate that is paused, waits without a timeout or computes for ever, the last unless an interrupt was overwritten (finding 2); a closed native port's handler is deleted |
| `handler_error` | isolate, 3 messages | violation | finding 1 |
| `interrupts` | 2 OS threads, 2 invocations, 2 messages | 36 662 | interrupts for safepoints and store buffers are not lost; the limit in force is the right one; a safepoint is reached though Dart code never returns; a message is handled at the latest when the event ends |
| `interrupts_busy` | the same | violation | finding 2 |
| `rw_lock` | 2 mutators, 1 detached thread, 2 scopes | 5 212 | readers, writer and count agree; nobody sleeps at a free lock; operations are alone, run and end whoever has the lock; waiting ends; no deadlock |
| `parallel_mark` | 4 heaps, 1 to 3 tasks | 172 372 | what is reachable is marked; weak properties are kept until decided and cleared only with dead keys; rounds start drained; nothing is used after `MarkObjects` has returned; marking ends |
| `parallel_mark_flush` | 3 tasks, 2 weak properties | violation | finding 3 |

### Bounds

* *Pool.* Three workers are needed for the hand-over of dead workers (one dies,
  one joins it, one joins that one) and for a blocked worker with its
  replacement. All numbers of the ports and pool models that are not bounded in
  the code stay unbounded in time, since identities are reused.
* *Safepoints.* Three threads give a requester, a thread that competes for the
  other level and a bystander that comes, goes or bypasses; nesting of two
  distinguishes the outermost scope from the others. Liveness with three threads
  and no nesting holds as well but takes longer than a regular run should.
* *Ports.* Tables of four slots make every number collide with every other
  (they are all 3 modulo 4), and growth to eight is reached; a set does not grow
  beyond `MaxCapacity`. An instance with two isolates (736 130 states) was
  checked once.
* *Handler.* Two threads, as the old task of a handler may still be in its end
  callback when the next one runs. Three messages cover an event
  between a pause and a resume, or before and after a kill; four (3 826 672
  states) were checked once. `MaxWaits` bounds waiting for messages inside an event to
  one level, `MaxPorts` the live ports to one.

* *Interrupts.* Two nested invocations give a limit to restore that is neither 0
  nor the current one; two limits make a wrong one visible; with two messages
  one can be posted while the other is handled.
* *Read-write lock.* Three threads: one in an operation, one that has the lock and
  one that waits for it, the last also detached. Two scopes are the least with
  nesting, of either kind in either.
* *Marker.* The heaps are chosen for the rounds: a chain of two weak properties
  whose keys become reachable one after the other and in different slices, with
  an Instructions object at its end; three tasks with a key in another slice
  than its property; a single task and a dead key; and the chain with marking in
  idle time. With two weak properties and three tasks finding 3 shows. Mutators
  defer at most one object (`maxDeferred`).

`CHECK_DEADLOCK FALSE` is set for ports, handlers, interrupts and the marker:
after `Cleanup`, after the deletion of the handler, with all messages posted and
handled, after the isolate's shutdown or when marking is over, nothing is left to
do. The pool, the safepoints and the lock are checked for deadlock.

### Fairness

* *Pool.* A thread that can move does. No wait has to time out, nobody has to
  unblock: `EveryTaskTaken` holds without either. `ShutdownReturns` states what it
  needs as an antecedent (`TasksReturn`): tasks return, blocked ones get back,
  and the wait of `OnEnterIdleLocked` ends by its timeout. It has none if the
  difference passed to `WaitMicros` is exactly 0 (`isolate.cc:301`,
  `os_thread_linux.cc:461`); the antecedent leaves that case out.
  Without the last TLC finds a `Shutdown` that waits for as long as the idle
  timeout: that wait is entered without a look at `shutting_down_`.
* *Safepoints.* Weak fairness of what a thread has begun; native code owes
  nothing. Strong fairness where a thread may do other things in between but
  tries again for ever: generated code tests the stack limit again and again,
  operations end however often they nest, calls that cannot deoptimize return.
  No monitor is assumed to be fair.
* *Handler.* Threads move, the pool runs the task it was given (which is what
  `EveryTaskTaken` establishes), and generated code polls for interrupts.
  A thread that waits for messages moves only when it is notified: a missing
  `Notify` breaks `KillObeyed` (its mutant of `Woken`). `KillObeyed` has as its
  antecedent that no interrupt is overwritten by `SetStackLimit` or that the code
  of events returns. Each of the two is enough; with neither TLC finds the
  behaviour of finding 2.
  `NativeDeleted` does, as an antecedent: a native port's function is C code that
  cannot be interrupted.

* *Interrupts.* Generated code tests the limit again and again, not every test
  finds the stack full, and runtime calls return (strong fairness of
  `ReturnToDart`, `StackCheck` and of taking the interrupt). Nothing makes a Dart
  function return; `OOBHandled` has that as its antecedent (`EventsEnd`), and
  `interrupts_busy` shows that it needs it.
* *Read-write lock.* Threads go on with what they have begun, and polls and
  returns from allocation entries come in the end. No scope has to end:
  `OperationEnds` holds without, and `LockAdmits` has as its antecedent that the
  lock is free again and again; then strong fairness of `Admitted` says that the
  monitor lets a waiter in some time.
* *Marker.* Every task moves: the pool runs it (`EveryTaskTaken`). Strong fairness
  of `Flush`: the collection that finishes marking comes, however often
  idle time is used before.

## 4. Theorems

All for arbitrary constants. Every proof is by an inductive invariant, with one
lemma for each action or group of actions that touch the same state. Where the
counters of the code are sizes of sets, the lemmas assume `SizeFacts` (`SetSizes`),
which the module proves from the library before its theorems: with the library in
their context the provers take several times as long.

* `PoolBookkeeping`, `PoolNeverStrandsTask` (`ThreadPoolProofs`), for any number
  of workers and tasks and any pool size, unlimited pools included.
  `NoStrandedTask` alone is not inductive: a worker that is awake may take a task
  while two are queued. `TaskGuard` adds the argument of `ScheduleTaskLocked`:
  either every idle worker is awake or there are as many awake ones as tasks; if
  none is idle somebody runs unblocked; an unlimited pool keeps an idle worker
  for each task. With `Bookkeeping`, the code's counters stand for these sets.
* `PoolJoinsOnce`, `PoolShutdownDrains` (`ThreadPoolProofs`), in the same
  generality. The invariant `JoinInv` says who is to join whom: a worker that
  ends is in `dead_workers_`, in the list of `Shutdown` or in that of one other
  worker; only workers on their way out have a list (`Joining`); and no workers
  wait for each other (`NoCycle`: every set of workers has one that none of them
  has to join), which is what makes it enough that `Shutdown` joins the last
  one. `Ends` is the state of `Shutdown` itself: from its wait on no worker is
  alive once `all_workers_dead_` is set, and a worker that has yet to signal is
  all it can be waiting for. That it then finds no task needs `TaskGuard`: no
  worker, no task.
* `SafepointParkedCount`, `SafepointOwnerConsistent`, `SafepointWorldStopped`,
  `SafepointNoLostWakeup`, and `SafepointStopsTheWorld`: the protocol implements
  `StopTheWorld` (`SafepointProofs`). The invariant `IInv` relates a thread's
  position to its bits and to the handlers, says who may be in `threads_lock()`,
  and what the requester has visited so far (`todo`); from it follows that a
  parked thread cannot run before the request is cleared. Assumed: finitely many
  threads, mutators among them, a positive bound on nesting.
* `RegistryTyped`, `RegistryLiveCount`, `RegistryNoDanglingHandler`
  (`IsolateProofs`): the count behind `HasLivePorts` is the number of live
  ports, and no port leads to a deleted handler. The second needs `SinglePort`, no
  two ports of one native handler, to be inductive: deletion goes with the
  first port that is closed. `PortMap` inherits both through the refinement,
  which TLC checks.
* `HandlerTypes`, `HandlerOneTask`, `HandlerNoMissedOOB`, `HandlerNoStranded`,
  `HandlerEventsInOrder`, `HandlerDeletedOnce` and the action property
  `HandlerNoEarlyExit` (`MessageHandlerProofs`), for any threads, queues of any
  length, any nesting of events and waits, isolates and native ports. None of
  the properties is inductive. `IInv` says that either nobody works for the
  handler (`Rests`) or one thread does (`Works`) and all others are idle. What
  that thread may rely on depends on where it is in `TaskCallback`, which its
  stack of nested `HandleMessages` calls hides: `Base` is where the outermost one
  returns to, and `Stack` says which calls can be nested in which. `Decides` is
  the argument of the code: what a decision taken in `monitor_` (to pause, to
  finish the task, to exit) still rests on when the thread has released the
  monitor and taken it again. The messages out of band are gone at the end of the
  task as every such release is followed by another look at the queue; live ports
  cannot appear during a pause on exit as no event runs then. `Clean` ties a
  status that is not `kOK` to `failed`, `Life` orders closing, unregistering and
  deleting, and `Messages` carries the order of the queue. The lemmas `Begins`
  and those after it are about one call of `HandleMessages` and are used for the
  main loop, the pauses and the nested waits alike; those about `Enqueue` say
  where it puts a message. `HandlerTypes` adds to `IInv` the ranges of the flags
  and counters, in two lemmas (`StepFlags`, `StepCounters`). Assumed:
  `HandlerAssumption`, the kinds of messages that there are and that the bounds
  are natural numbers, `MaxPorts` at least 1 (a native handler has one port).
* `LockIsExclusive`, `NobodySleepsInVain`, `OperationsAreAlone`
  (`SafepointRwLockProofs`), for any finite set of threads and any nesting. The
  inductive invariant has the types of the stacks of scopes, and that a waiter
  has room for the scope it waits to open. The count is a cardinality over pairs
  of a thread and a depth; the lemmas `HoldsPush` and `HoldsPop` say that a push
  or a pop changes it by one for the scope's kind and not for the others. The
  second is inductive with the first: `state_` becomes 0, or non-negative, only
  in steps that wake everybody. The third needs `Owners`: an operation that runs
  owns the lower level, so a second one cannot begin.
* `VMInterruptsSurvive`, `StackLimitIsRight` (`IsolateProofs`), for any limits,
  nesting and number of messages. The strengthening is `Stores`, which says what
  can have happened between `SetStackLimit`'s load and its store: if the load saw
  an interrupt the word still is an interrupt, and if not, no safepoint was
  requested and no store buffer overflowed since, as the first would take
  `thread_lock_` and the second is an act of the same thread. For messages and
  the profiler there is no such fact, and finding 2 is what is left.
* `BarrierHolds`, `BarrierReusable` (`MarkingProofs`), for any heap and any
  number of tasks: no round of `ThreadBarrier` ends before every participant is
  in its `Sync`, which is what the comment of the class promises
  (`thread_barrier.h:21`); a task that wakes up late is one generation behind at
  most. The hard part is that tasks join (`TryEnter`) while others already wait.
  `BarrierInv` says that the counters are exact: `participating_` is the number
  of tasks that joined, `remaining_` that of those not yet in the `Sync` of the
  current generation. Then the one that finds `remaining_` at 1 is the only one
  missing (`LastOne`). `Place` and `Generation` say where a task can be with which
  `gen`; they tell a task that left from one that was turned away. Nearly all
  actions leave the barrier alone (`TaskMoves`, `OtherMoves`) and are
  covered by one lemma, `StepInv`.
* `NothingUsedAfterReturn`, `RoundsStartDrained` (`MarkingProofs`), in the same
  generality: `MarkObjects` returns, and the barrier is deleted, when no task can
  touch either any more; a round starts with nobody busy and no block left.
  `RoundInv` adds to `BarrierInv` that participants are in the same stage of the
  same round (`Together`), that those between the second and the third `Sync` of
  a round agree on whether there is another one (`Decided`), and that `num_busy`
  is the number of tasks that count as working. `PhaseInv` then says where a task
  may still have a block, a list or a pointer; in particular the stack is empty
  unless somebody is active (`AnyActive`), since a task stops being active only
  when it finds it empty.
* `MournsDeadKeys`, `MarksReachable`, `KeepsWeakProperties`, `MarkingTypes`
  (`MarkingProofs`): what marking is for. `MarksReachable` is the tricolour
  argument for this marker. `KnownInv` says that a marked object is still to be
  visited or all it points to is known (`Black`), where known is marked, deferred
  or held by a visitor; and that a marked weak property is still to be visited,
  in a list, or decided (`Ephemeron`). At the last barrier nothing is to be
  visited or held and every listed property has an unmarked key (`KeysDead`), so
  the marked objects are closed in the sense of `Reachable` (`Finished`).
  `KeysDead` survives deferred marking since Instructions are no keys.
  `ListInv` says that stack, blocks and lists are disjoint, which is why a
  property is mourned once and clearing one list loses none. `MarkInv` is the
  conjunction of all of these with `HeadInv`, the list `MarkObjects` builds while
  it flushes, and `FinalInv`, which carries the result over to the steps
  after the last barrier.
  `MarksReachable` and `KeepsWeakProperties` have a hypothesis: at most two tasks
  (the default of `FLAG_marker_tasks`) or, for the first, a heap without weak
  properties. It is there because of finding 3: the run
  `parallel_mark_flush` shows that `WeakPropertyKept` fails without it, and with
  three tasks and two weak properties of a live key TLC finds a value that stays
  unmarked (checked once, with 1 169 820 states). `HeadInv` is where two
  tasks matter: with one visitor flushed before the last, the list in hand has
  its tail.
  Assumed: `MarkAssumption` (finite heaps, at least one task, and section 2.7).

The type invariants of `ThreadPool`, `Safepoint`, `PortRegistry`, `Interrupts` and
`SafepointRwLock` are conjuncts of the inductive invariants, so they are
proved and no run repeats them. Those of `MessageHandler` and `ParallelMark` are
theorems (`HandlerTypes`, `MarkingTypes`) and in their runs.

Only model-checked: everything under fairness (the prover has no rules for
it that would apply here), and of `PortMap` all of `TypeOK`, `PortsFindable`,
`SetsAgree` and its refinement of `PortRegistry`: probing and rehashing
are folds over a table, whose facts need induction over data. Three or more
marker tasks with weak properties are checked for the heaps of `parallel_mark`.

## 5. Findings

1. An isolate handles events after an error if it was paused in between: the
   status is a local of the task, and the task after the resume starts afresh
   (`message_handler.cc:411`; the comment at line 454 says that the isolate exits
   when it encounters an error).
2. A message interrupt that arrives between the load and the store of
   `SetStackLimit` is overwritten (`thread.cc:390`). The message loop handles
   the message after the current event; but if the function that is being entered
   never returns, a kill message does not stop it (`isolate.cc:1312`: "Handle out
   of band messages even if the mutator thread is busy").
3. `Flush` loses lists of weak properties with three or more marker tasks: a
   visitor without any sets the tail to null, and the next list is linked to null
   (or, from four tasks on, to the end of a list already lost) (`marker.cc:329`; the default is two tasks). The lists of weak
   references have the same code.

Seen while reading, and not part of a run:

* `AllocatePort` may return the number 3, which marks a deleted slot: `continue`
  in a do-while loop goes to the loop's condition, which is false (`port.cc:61`).
  The generator draws 3 with probability 2^-50.
* The decision to exit is not taken again after the pause on exit
  (`message_handler.cc:465`): a port that an `evaluate` of the service opens during
  that pause, in the call of `HandleMessages` that also handles the resume, does not
  keep the isolate alive.
* The function of a native port may be called after `ClosePort` with messages
  that were pending; `port.h:42` says that they are dropped.
* The profiler's interrupt can get lost like that of a message;
  `can_process_block_` then stays set and no later full block schedules another
  (`profiler.cc:355`), until some other VM interrupt comes.
* With `FLAG_mark_when_idle` and one marker task no concurrent task is started,
  so nobody ends the phase that `WaitForMarkerTasks` waits for (`marker.cc:880`).

## 6. Not modelled

The repository is the whole Dart SDK, more than half a million lines of
implementation, nearly all of it sequential: compilers, analyzers, libraries,
code generators. The modules cover a fraction of a percent of it by lines. They
were chosen by where interleavings decide about correctness, which tests hardly
reach; the rest is where tests work well, or where a model that TLC can
enumerate would say nothing about the code.

* Sequential parts whose data has no small instances: code generation,
  optimization, snapshots, the object model, regular expressions, the front
  ends. They have no interleavings, and their properties are about programs.
* Machine code, stubs and simulators. The safepoint model takes from
  `runtime_entry.h` how a runtime call checks for a request.
* Memory layout: free lists, forwarding, page arithmetic, and with it the
  scavenger's copying, the sweeper and the compactor.
* Of the marker: weak references, the slices of `IterateWeakRoots`,
  `FLAG_marker_tasks` = 0, the second barrier of debug builds, the page space's
  `phase_` and `tasks_`, and pointers that mutators change.
* Of the locks: `SafepointMutexLocker`, `SafepointMonitorLocker` and
  `WaitWithSafepointCheck`.
* Of isolates: the limit on concurrent mutators, the idle-time handler, start-up
  and group shutdown, which go through callbacks of the embedder.
* Operating-system I/O of the standalone embedder.
* The implementation of monitors and OS threads: they are primitives here, with
  spurious wakeups.
* Compositions: each module has the promise of the one below it as an assumption
  (the handler that the pool runs its task, the lock that operations are alone).
  A native port that is posted to while the pool shuts down
  (`message_handler.cc:173`) is a case that only the composition of handler, ports
  and pool would show.

## 7. What could come next

1. An abstract mailbox that `MessageHandler` implements, and its composition with
   ports and pool.
2. The phases of the page space with their tasks, around `ParallelMark`.
3. Timers (`timer_impl.dart`) and their port, above `PortRegistry`.
