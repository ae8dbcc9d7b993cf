--------------------------- MODULE MessageHandler ---------------------------
(***************************************************************************)
(* runtime/vm/message_handler.cc: the two message queues of a handler, the *)
(* one task that serves them on the thread pool, pausing, and the end of   *)
(* the handler.  A handler belongs to an isolate, or to a native port and  *)
(* then to the port map.                                                   *)
(*                                                                         *)
(* A thread holds monitor_ from one step to the next where the code does.  *)
(* HandleMessages is a procedure that may be nested: the code that handles *)
(* an event may be interrupted for messages out of band, or wait for       *)
(* messages itself.                                                        *)
(***************************************************************************)
EXTENDS MessageQueue

CONSTANTS
    Handlers,        \* what the handler may belong to: "isolate", "native"
    Threads,         \* those that run the handler: of the pool, or the embedder's
    NoThread,
    Kinds,           \* what is posted
    MayPause,        \* the flags pause_isolates_on_start and _on_exit may be set
    MaxPosts,        \* bound: messages posted in a behaviour
    MaxPorts,        \* bound: live ports
    MaxWaits         \* bound: nested waits for messages

(* Normal messages: events, and the kill messages that were put off.       *)
(* Out of band: pause and resume by capability, kill with its three        *)
(* priorities, the VM's own kill, and the requests of the service.         *)
OOBKinds == {"pause", "resume", "kill", "kill_before", "kill_as_event",
             "internal_kill", "service_resume", "service_pause_on_exit"}
PutOff == [kill_before |-> "killed_before", kill_as_event |-> "killed_as_event"]

ASSUME HandlerAssumption ==
    /\ Handlers \subseteq {"isolate", "native"} /\ MayPause \in BOOLEAN
    /\ ControlKinds = {"killed_before", "killed_as_event"}
    /\ Kinds \subseteq OOBKinds \cup {"event"}
    /\ NoThread \notin Threads
    /\ MaxPosts \in Nat /\ MaxPorts \in Nat \ {0} /\ MaxWaits \in Nat

VARIABLES
    handler,     \* an isolate's, or a native port's; never changes
    monitor_,    \* who holds MessageHandler::monitor_
    queue_, oob_queue_,
    live_ports_,
    paused_, should_pause_on_start_, should_pause_on_exit_,
    is_paused_on_start_, is_paused_on_exit_, paused_for_messages_,
    pool_,       \* whether pool_ is set
    task_running_, delete_me_,
    registered,  \* the port map leads to the handler
    deleted,     \* how often the handler has been deleted
    thread,      \* the threads: pc, status and HandleMessages' calls
    interrupt,   \* Thread::kMessageInterrupt
    overwritten, \* history: SetStackLimit has overwritten that interrupt
    notifying,   \* a poster is about to call MessageNotify, in PortMap::mutex_
    closing,     \* PortMap::ClosePort of the native port is past its mutex
    posted,      \* messages posted so far
    taken,       \* the last event that was dequeued
    failed       \* a message was handled with an error since the last Run

queues == <<queue_, oob_queue_>>
pausing == <<paused_, should_pause_on_start_, should_pause_on_exit_,
             is_paused_on_start_, is_paused_on_exit_>>
waiting == paused_for_messages_
running == <<pool_, task_running_>>
ending == <<handler, delete_me_, registered, deleted, closing>>
posting == <<interrupt, overwritten, notifying, posted>>
history == <<taken, failed>>
vars == <<monitor_, queues, live_ports_, pausing, waiting, running, ending,
          thread, posting, history>>

Status == 0..3
kOK == 0
kError == 1
kRestart == 2
kShutdown == 3

NoMessage == [id |-> 0, kind |-> "none"]
Idle == [pc |-> "idle", status |-> kOK, calls |-> <<>>]

OwnedByPortMap == handler = "native"

Init ==
    /\ handler \in Handlers
    /\ monitor_ = NoThread
    /\ queue_ = <<>> /\ oob_queue_ = <<>>
    /\ live_ports_ \in IF OwnedByPortMap THEN {1} ELSE 0..MaxPorts
    /\ paused_ = 0
    /\ should_pause_on_start_ \in {FALSE, MayPause}
    /\ should_pause_on_exit_ \in {FALSE, MayPause}
    /\ is_paused_on_start_ = FALSE /\ is_paused_on_exit_ = FALSE
    /\ paused_for_messages_ = FALSE
    /\ pool_ = FALSE /\ task_running_ = FALSE /\ delete_me_ = FALSE
    /\ registered = TRUE /\ deleted = 0 /\ closing = FALSE
    /\ thread = [t \in Threads |-> Idle]
    /\ interrupt = FALSE /\ overwritten = FALSE /\ notifying = FALSE /\ posted = 0
    /\ taken = 0 /\ failed = FALSE

(* Mutant: off by one.                                                     *)
MutHasLivePorts == live_ports_ > 1

HasLivePorts == live_ports_ > 0
paused == paused_ > 0
NobodyRuns == \A t \in Threads : thread[t].pc = "idle"
-----------------------------------------------------------------------------
(* HandleMessages.  The innermost call is the first of calls; it returns   *)
(* to the label ret with monitor_ held.                                    *)
NewCall(ret, normal, multiple) ==
    [ret |-> ret, normal |-> normal, multiple |-> multiple, max_status |-> kOK,
     message |-> NoMessage, status |-> kOK]

At(t, pc) == thread[t].pc = pc
Goto(t, pc) == thread' = [thread EXCEPT ![t].pc = pc]
TheCall(t) == Head(thread[t].calls)

(* The call lets go of monitor_ at once, to enter the isolate.             *)
HandleMessages(t, ret, normal, multiple) ==
    /\ thread' = [thread EXCEPT
                    ![t].pc = "enter",
                    ![t].calls = <<NewCall(ret, normal, multiple)>> \o @]
    /\ monitor_' = NoThread

Return(t, call) ==
    /\ thread' = [thread EXCEPT ![t] = [pc |-> call.ret, status |-> call.max_status,
                                        calls |-> Tail(@.calls)]]
    /\ monitor_' = t

MinPriorityNormal(call) == call.max_status = kOK /\ call.normal /\ ~ paused

Take(t, call, message) ==
    /\ thread' = [thread EXCEPT ![t].pc = "handle",
                                ![t].calls = <<[call EXCEPT !.message = message,
                                                            !.status = kOK]>> \o Tail(@)]
    /\ monitor_' = NoThread

(* Messages out of band come first; HandleMessages returns when there is   *)
(* nothing it may take.                                                    *)
DequeueMessage(t, call) ==
    \/ /\ oob_queue_ # <<>>
       /\ Take(t, call, Head(oob_queue_))
       /\ oob_queue_' = Tail(oob_queue_)
       /\ UNCHANGED <<queue_, taken>>
    \/ /\ oob_queue_ = <<>> /\ MinPriorityNormal(call) /\ queue_ # <<>>
       /\ Take(t, call, Head(queue_))
       /\ queue_' = Tail(queue_)
       /\ taken' = IF IsControl(Head(queue_)) THEN taken ELSE Head(queue_).id
       /\ UNCHANGED oob_queue_
    \/ /\ oob_queue_ = <<>> /\ ~ (MinPriorityNormal(call) /\ queue_ # <<>>)
       /\ Return(t, call)
       /\ UNCHANGED <<queues, taken>>

EnterIsolate(t) ==
    /\ At(t, "enter") /\ monitor_ = NoThread
    /\ DequeueMessage(t, TheCall(t))
    /\ UNCHANGED <<live_ports_, pausing, waiting, running, ending, posting, failed>>

IsOOB(message) == message.kind \in OOBKinds

MessageHandled(t) ==
    /\ At(t, "handled") /\ monitor_ = NoThread
    /\ LET call == TheCall(t)
           max == IF call.status > call.max_status THEN call.status ELSE call.max_status
           next == [call EXCEPT !.max_status = max,
                                !.normal = @ /\ (IsOOB(call.message) \/ call.multiple)]
       IN  \/ /\ call.status = kShutdown
              /\ oob_queue_' = <<>>
              /\ Return(t, next)
              /\ UNCHANGED <<queue_, taken>>
           \/ /\ call.status # kShutdown
              /\ DequeueMessage(t, next)
    /\ UNCHANGED <<live_ports_, pausing, waiting, running, ending, posting, failed>>
-----------------------------------------------------------------------------
(* HandleMessage of an isolate's handler, for messages that are no events. *)
StatusOf(kind) ==
    CASE kind \in {"kill", "killed_before", "killed_as_event"} -> kError
      [] kind = "internal_kill" -> kShutdown
      [] OTHER -> kOK

Finished(t, status) ==
    /\ thread' = [thread EXCEPT ![t].pc = "handled", ![t].calls[1].status = status]
    /\ failed' = (failed \/ status # kOK)

(* Mutant: the same capability counts again.                               *)
MutPausedAfter(kind) ==
    CASE kind = "pause" -> paused_ + 1 [] kind = "resume" -> 0 [] OTHER -> paused_

(* There is one resume capability: AddResumeCapability and                 *)
(* RemoveResumeCapability succeed once.                                    *)
PausedAfter(kind) ==
    CASE kind = "pause" -> 1 [] kind = "resume" -> 0 [] OTHER -> paused_

(* The service's resume ends the pause on start, or else the one on exit.  *)
ServiceResume ==
    \/ /\ is_paused_on_start_ \/ should_pause_on_start_
       /\ should_pause_on_start_' = FALSE
       /\ UNCHANGED should_pause_on_exit_
    \/ /\ ~ is_paused_on_start_ /\ ~ should_pause_on_start_
       /\ should_pause_on_exit_' = (should_pause_on_exit_ /\ ~ is_paused_on_exit_)
       /\ UNCHANGED should_pause_on_start_

HandleControlMessage(t) ==
    /\ At(t, "handle") /\ TheCall(t).message.kind # "event"
    /\ LET message == TheCall(t).message
           kind == message.kind
       IN  /\ Finished(t, StatusOf(kind))
           /\ paused_' = PausedAfter(kind)
           /\ \/ kind = "service_resume" /\ ServiceResume
              \/ /\ kind = "service_pause_on_exit"
                 /\ should_pause_on_exit_' \in BOOLEAN
                 /\ UNCHANGED should_pause_on_start_
              \/ /\ kind \notin {"service_resume", "service_pause_on_exit"}
                 /\ UNCHANGED <<should_pause_on_start_, should_pause_on_exit_>>
           /\ \/ /\ kind \in DOMAIN PutOff /\ monitor_ = NoThread
                 /\ queue_' \in Enqueue(queue_, [message EXCEPT !.kind = PutOff[kind]],
                                        kind = "kill_before")
              \/ kind \notin DOMAIN PutOff /\ UNCHANGED queue_
    /\ UNCHANGED <<monitor_, oob_queue_, live_ports_, is_paused_on_start_,
                   is_paused_on_exit_, waiting, running, ending, posting, taken>>
-----------------------------------------------------------------------------
(* Events: Dart code, or the function of a native port.                    *)
InEvent(t) == At(t, "handle") /\ TheCall(t).message.kind = "event"

(* Nothing is left of an event's code once a nested call has failed.       *)
FinishEvent(t) ==
    /\ InEvent(t)
    /\ \E status \in {kOK, kError} :
          /\ OwnedByPortMap => status = kOK
          /\ Finished(t, status)
    /\ UNCHANGED <<monitor_, queues, live_ports_, pausing, waiting, running, ending,
                   posting, taken>>

(* increment_live_ports, decrement_live_ports                              *)
ChangeLivePorts(t) ==
    /\ InEvent(t) /\ ~ OwnedByPortMap /\ monitor_ = NoThread
    /\ live_ports_' \in {live_ports_ - 1, live_ports_ + 1} \cap 0..MaxPorts
    /\ UNCHANGED <<monitor_, queues, pausing, waiting, running, ending, thread,
                   posting, history>>

(* Thread::HandleInterrupts: HandleOOBMessages.                            *)
HandleInterrupts(t) ==
    /\ InEvent(t) /\ interrupt /\ monitor_ = NoThread
    /\ interrupt' = FALSE
    /\ HandleMessages(t, "resume_event", FALSE, FALSE)
    /\ UNCHANGED <<queues, live_ports_, pausing, waiting, running, ending,
                   overwritten, notifying, posted, history>>

(* The end of PauseAndHandleAllMessages.                                   *)
HandleAllMessages(t) ==
    /\ paused_for_messages_' = FALSE
    /\ HandleMessages(t, "resume_event", TRUE, TRUE)

WaitOrHandleAll(t) ==
    IF queue_ = <<>> /\ oob_queue_ = <<>>
    THEN /\ paused_for_messages_' = TRUE
         /\ Goto(t, "waiting")
         /\ monitor_' = NoThread
    ELSE HandleAllMessages(t)

(* Dart_WaitForEvent, called by an event's code.                           *)
PauseAndHandleAllMessages(t) ==
    /\ InEvent(t) /\ task_running_ /\ ~ OwnedByPortMap /\ monitor_ = NoThread
    /\ Len(thread[t].calls) <= MaxWaits
    /\ WaitOrHandleAll(t)
    /\ UNCHANGED <<queues, live_ports_, pausing, running, ending, posting, history>>

(* The wait ends by a notification (woken), by itself, or by its timeout   *)
(* if it has one: timeout_millis = 0 is none.                              *)
WakeUp(t) ==
    /\ At(t, "waiting") \/ At(t, "woken")
    /\ monitor_ = NoThread
    /\ \/ HandleAllMessages(t)  \* a timeout, or there are normal messages
       \/ /\ queue_ = <<>>
          /\ HandleMessages(t, "check_wait", FALSE, FALSE)
          /\ UNCHANGED waiting
    /\ UNCHANGED <<queues, live_ports_, pausing, running, ending, posting, history>>

CheckWait(t) ==
    /\ At(t, "check_wait")
    /\ \/ /\ thread[t].status # kOK
          /\ paused_for_messages_' = FALSE
          /\ Goto(t, "resume_event")
          /\ UNCHANGED monitor_
       \/ thread[t].status = kOK /\ WaitOrHandleAll(t)
    /\ UNCHANGED <<queues, live_ports_, pausing, running, ending, posting, history>>

(* An error of a nested call is thrown through the event's code.           *)
ResumeEvent(t) ==
    /\ At(t, "resume_event")
    /\ monitor_' = NoThread
    /\ \/ thread[t].status = kOK /\ Goto(t, "handle")
       \/ /\ thread[t].status # kOK
          /\ thread' = [thread EXCEPT ![t].pc = "handled",
                                      ![t].calls[1].status = thread[t].status]
    /\ UNCHANGED <<queues, live_ports_, pausing, waiting, running, ending, posting,
                   history>>
-----------------------------------------------------------------------------
(* TaskCallback.                                                           *)
(* Mutant: a handler that is shut down is paused like any other.           *)
MutMayPauseWith(status) == status # kRestart

MayPauseWith(status) == status # kRestart /\ status # kShutdown
ShouldPauseOnStart(status) ==
    ~ OwnedByPortMap /\ MayPauseWith(status) /\ should_pause_on_start_
ShouldPauseOnExit(status) ==
    ~ OwnedByPortMap /\ MayPauseWith(status) /\ should_pause_on_exit_

(* The task ends, and another one may start.                               *)
StopTask(t, pc) ==
    /\ task_running_' = FALSE
    /\ thread' = [thread EXCEPT ![t] = [Idle EXCEPT !.pc = pc]]
    /\ monitor_' = NoThread

TaskCallback(t) ==
    /\ At(t, "queued") /\ monitor_ = NoThread
    /\ \/ /\ ShouldPauseOnStart(kOK) /\ ~ is_paused_on_start_
          /\ Goto(t, "notify_start") /\ UNCHANGED monitor_
       \/ /\ ShouldPauseOnStart(kOK) /\ is_paused_on_start_
          /\ HandleMessages(t, "after_start", FALSE, FALSE)
       \/ /\ ~ ShouldPauseOnStart(kOK)
          /\ Goto(t, "check_exit") /\ monitor_' = t
    /\ UNCHANGED <<queues, live_ports_, pausing, waiting, running, ending, posting,
                   history>>

(* NotifyPauseOnStart, without monitor_, then the messages that may have   *)
(* come in meanwhile.                                                      *)
PausedOnStart(t) ==
    /\ At(t, "notify_start") /\ monitor_ = NoThread
    /\ is_paused_on_start_' = TRUE
    /\ HandleMessages(t, "after_start", FALSE, FALSE)
    /\ UNCHANGED <<queues, live_ports_, paused_, should_pause_on_start_,
                   should_pause_on_exit_, is_paused_on_exit_, waiting, running, ending,
                   posting, history>>

AfterStart(t) ==
    /\ At(t, "after_start")
    /\ \/ /\ ShouldPauseOnStart(thread[t].status)
          /\ StopTask(t, "idle")
          /\ UNCHANGED is_paused_on_start_
       \/ /\ ~ ShouldPauseOnStart(thread[t].status)
          /\ is_paused_on_start_' = FALSE
          /\ Goto(t, "check_exit")
          /\ UNCHANGED <<monitor_, task_running_>>
    /\ UNCHANGED <<queues, live_ports_, paused_, should_pause_on_start_,
                   should_pause_on_exit_, is_paused_on_exit_, waiting, pool_, ending,
                   posting, history>>

CheckPausedOnExit(t) ==
    /\ At(t, "check_exit")
    /\ \/ is_paused_on_exit_ /\ HandleMessages(t, "after_exit", FALSE, FALSE)
       \/ ~ is_paused_on_exit_ /\ Goto(t, "main") /\ UNCHANGED monitor_
    /\ UNCHANGED <<queues, live_ports_, pausing, waiting, running, ending, posting,
                   history>>

(* Both after a pause on exit that lasted and after one that has just      *)
(* begun; only in the second case does the handler stop.                   *)
AfterExit(t) ==
    /\ At(t, "after_exit") \/ At(t, "after_notify")
    /\ \/ /\ ShouldPauseOnExit(thread[t].status)
          /\ StopTask(t, "idle")
          /\ UNCHANGED is_paused_on_exit_
       \/ /\ ~ ShouldPauseOnExit(thread[t].status)
          /\ is_paused_on_exit_' = FALSE
          /\ Goto(t, IF At(t, "after_exit") THEN "main" ELSE "stop")
          /\ UNCHANGED <<monitor_, task_running_>>
    /\ UNCHANGED <<queues, live_ports_, paused_, should_pause_on_start_,
                   should_pause_on_exit_, is_paused_on_start_, waiting, pool_, ending,
                   posting, history>>

(* Mutant: one message a task, as for the embedder.                        *)
MutHandlePendingMessages(t) ==
    /\ At(t, "main")
    /\ \/ thread[t].status = kOK /\ HandleMessages(t, "finish", TRUE, FALSE)
       \/ thread[t].status # kOK /\ Goto(t, "finish") /\ UNCHANGED monitor_
    /\ UNCHANGED <<queues, live_ports_, pausing, waiting, running, ending, posting,
                   history>>

HandlePendingMessages(t) ==
    /\ At(t, "main")
    /\ \/ thread[t].status = kOK /\ HandleMessages(t, "finish", TRUE, TRUE)
       \/ thread[t].status # kOK /\ Goto(t, "finish") /\ UNCHANGED monitor_
    /\ UNCHANGED <<queues, live_ports_, pausing, waiting, running, ending, posting,
                   history>>

(* "The isolate exits when it encounters an error or when it no longer has *)
(* live ports."                                                            *)
FinishTask(t) ==
    /\ At(t, "finish")
    /\ LET exits == thread[t].status # kOK \/ ~ HasLivePorts IN
         \/ /\ exits /\ ShouldPauseOnExit(thread[t].status)
            /\ Goto(t, "notify_exit")
            /\ monitor_' = NoThread
            /\ UNCHANGED task_running_
         \/ /\ exits /\ ~ ShouldPauseOnExit(thread[t].status)
            /\ Goto(t, "stop")
            /\ UNCHANGED <<monitor_, task_running_>>
         \/ ~ exits /\ StopTask(t, "idle")
    /\ UNCHANGED <<queues, live_ports_, pausing, waiting, pool_, ending, posting,
                   history>>

(* Mutant: what came in while monitor_ was released is left for later.     *)
MutPausedOnExit(t) ==
    /\ At(t, "notify_exit") /\ monitor_ = NoThread
    /\ is_paused_on_exit_' = TRUE
    /\ monitor_' = t /\ Goto(t, "after_notify")
    /\ UNCHANGED <<queues, live_ports_, paused_, should_pause_on_start_,
                   should_pause_on_exit_, is_paused_on_start_, waiting, running, ending,
                   posting, history>>

PausedOnExit(t) ==
    /\ At(t, "notify_exit") /\ monitor_ = NoThread
    /\ is_paused_on_exit_' = TRUE
    /\ HandleMessages(t, "after_notify", FALSE, FALSE)
    /\ UNCHANGED <<queues, live_ports_, paused_, should_pause_on_start_,
                   should_pause_on_exit_, is_paused_on_start_, waiting, running, ending,
                   posting, history>>

(* Mutant: the task of a handler to be deleted just ends.                  *)
MutAfterwards == IF OwnedByPortMap THEN "idle" ELSE "end_callback"

(* What is decided before monitor_ is released.                            *)
Afterwards ==
    IF ~ OwnedByPortMap THEN "end_callback" ELSE IF delete_me_ THEN "delete" ELSE "idle"

StopHandler(t) ==
    /\ At(t, "stop")
    /\ pool_' = FALSE
    /\ StopTask(t, Afterwards)
    /\ UNCHANGED <<queues, live_ports_, pausing, waiting, ending, posting, history>>

(* The end callback hands the isolate back, to be shut down or to be run   *)
(* again; a handler that deletes itself is gone.                           *)
EndCallback(t) ==
    /\ At(t, "end_callback") \/ At(t, "delete")
    /\ deleted' = deleted + IF At(t, "delete") THEN 1 ELSE 0
    /\ Goto(t, "idle")
    /\ UNCHANGED <<handler, monitor_, queues, live_ports_, pausing, waiting,
                   running, delete_me_, registered, closing, posting, history>>
-----------------------------------------------------------------------------
(* Run, which ThreadPool::Run follows with a task.                         *)
Run ==
    /\ registered /\ ~ pool_ /\ NobodyRuns /\ monitor_ = NoThread
    /\ pool_' = TRUE /\ task_running_' = TRUE
    /\ \E t \in Threads : Goto(t, "queued")
    /\ failed' = FALSE
    /\ UNCHANGED <<monitor_, queues, live_ports_, pausing, waiting, ending,
                   posting, taken>>

(* The embedder handles one message itself, with the isolate entered.      *)
HandleNextMessage(t) ==
    /\ registered /\ ~ OwnedByPortMap /\ ~ pool_ /\ NobodyRuns /\ monitor_ = NoThread
    /\ HandleMessages(t, "embedder", TRUE, FALSE)
    /\ UNCHANGED <<queues, live_ports_, pausing, waiting, running, ending, posting,
                   history>>

NextMessageHandled(t) ==
    /\ At(t, "embedder")
    /\ thread' = [thread EXCEPT ![t] = Idle]
    /\ monitor_' = NoThread
    /\ UNCHANGED <<queues, live_ports_, pausing, waiting, running, ending, posting,
                   history>>

(* Mutant: a task for every message.                                       *)
MutNeedsTask == pool_

NeedsTask == pool_ /\ ~ task_running_

(* Mutant: no Notify.                                                      *)
MutWoken == thread

Woken ==
    [t \in Threads |-> IF paused_for_messages_ /\ At(t, "waiting")
                       THEN [thread[t] EXCEPT !.pc = "woken"] ELSE thread[t]]

(* PortMap::PostMessage finds the handler; a task it starts is taken by    *)
(* the pool, which is not shut down before the handlers are gone.          *)
PostMessage(kind) ==
    /\ registered /\ ~ notifying /\ monitor_ = NoThread
    /\ OwnedByPortMap => pool_ /\ kind = "event"
    /\ posted < MaxPosts /\ posted' = posted + 1
    /\ LET message == [id |-> posted', kind |-> kind] IN
         IF IsOOB(message)
         THEN /\ oob_queue_' \in Enqueue(oob_queue_, message, FALSE)
              /\ UNCHANGED queue_
         ELSE /\ queue_' \in Enqueue(queue_, message, FALSE)
              /\ UNCHANGED oob_queue_
    /\ \/ /\ NeedsTask
          /\ task_running_' = TRUE
          /\ \E t \in Threads : At(t, "idle") /\ Goto(t, "queued")
       \/ ~ NeedsTask /\ thread' = Woken /\ UNCHANGED task_running_
    /\ notifying' = (kind \in OOBKinds)
    /\ UNCHANGED <<monitor_, live_ports_, pausing, waiting, pool_, ending, interrupt,
                   overwritten, history>>

(* An isolate is interrupted for a message out of band.  The interrupt is  *)
(* lost if it comes between the load and the store of Thread::             *)
(* SetStackLimit, which the code of an event calls whenever it enters or   *)
(* leaves an invocation: see SetStackLimit in Interrupts.                  *)
Overwrites == ~ OwnedByPortMap /\ ~ interrupt /\ \E t \in Threads : InEvent(t)

MessageNotify ==
    /\ notifying /\ notifying' = FALSE
    /\ \/ interrupt' = TRUE /\ UNCHANGED overwritten
       \/ Overwrites /\ overwritten' = TRUE /\ UNCHANGED interrupt
    /\ UNCHANGED <<monitor_, queues, live_ports_, pausing, waiting, running, ending,
                   thread, posted, history>>

(* PortMap::ClosePort of a native port: with the port map's mutex, ...     *)
ClosePort ==
    /\ OwnedByPortMap /\ registered /\ ~ notifying /\ monitor_ = NoThread
    /\ registered' = FALSE /\ live_ports_' = live_ports_ - 1 /\ closing' = TRUE
    /\ UNCHANGED <<handler, monitor_, queues, pausing, waiting, running,
                   delete_me_, deleted, thread, posting, history>>

(* Mutant: the handler is deleted whether or not its task runs.            *)
MutDeletesNow == TRUE

DeletesNow == ~ task_running_

(* ... and without it.                                                     *)
RequestDeletion ==
    /\ closing /\ monitor_ = NoThread
    /\ closing' = FALSE
    /\ deleted' = deleted + IF DeletesNow THEN 1 ELSE 0
    /\ delete_me_' = (delete_me_ \/ ~ DeletesNow)
    /\ UNCHANGED <<handler, monitor_, queues, live_ports_, pausing, waiting,
                   running, registered, thread, posting, history>>

(* Isolate::LowLevelShutdown: PortMap::ClosePorts, CloseAllPorts, delete.  *)
Shutdown ==
    /\ ~ OwnedByPortMap /\ registered /\ ~ pool_ /\ NobodyRuns /\ ~ notifying
    /\ registered' = FALSE /\ live_ports_' = 0 /\ deleted' = deleted + 1
    /\ queue_' = <<>> /\ oob_queue_' = <<>>
    /\ UNCHANGED <<handler, monitor_, pausing, waiting, running, delete_me_,
                   closing, thread, posting, history>>

(* What a thread does by itself, other than to get on with an event.       *)
Step(t) ==
    \/ EnterIsolate(t) \/ MessageHandled(t) \/ HandleControlMessage(t)
    \/ HandleInterrupts(t) \/ WakeUp(t) \/ CheckWait(t) \/ ResumeEvent(t)
    \/ TaskCallback(t) \/ PausedOnStart(t) \/ AfterStart(t) \/ CheckPausedOnExit(t)
    \/ AfterExit(t) \/ HandlePendingMessages(t) \/ FinishTask(t) \/ PausedOnExit(t)
    \/ StopHandler(t) \/ EndCallback(t) \/ NextMessageHandled(t)

Next ==
    \/ \E t \in Threads :
          \/ Step(t) \/ FinishEvent(t) \/ ChangeLivePorts(t)
          \/ PauseAndHandleAllMessages(t) \/ HandleNextMessage(t)
    \/ \E kind \in Kinds : PostMessage(kind)
    \/ Run \/ MessageNotify \/ ClosePort \/ RequestDeletion \/ Shutdown

Spec == Init /\ [][Next]_vars

(* Threads run, the pool runs the task it was given, and an isolate's code *)
(* polls for interrupts; the code of an event need not return, and a wait  *)
(* for messages need not end unless it is notified.                        *)
Fairness ==
    /\ \A t \in Threads : WF_vars(Step(t) /\ ~ At(t, "waiting"))
    /\ WF_vars(MessageNotify) /\ WF_vars(RequestDeletion)
FairSpec == Spec /\ Fairness
-----------------------------------------------------------------------------
Message == [id : 1..MaxPosts, kind : OOBKinds \cup ControlKinds \cup {"event"}]
Labels == {"idle", "queued", "enter", "handle", "handled", "resume_event", "waiting",
           "woken", "check_wait", "notify_start", "after_start", "check_exit",
           "after_exit", "main", "finish", "notify_exit", "after_notify", "stop",
           "end_callback", "delete", "embedder"}
Call == [ret : Labels, normal : BOOLEAN, multiple : BOOLEAN, max_status : Status,
         message : Message \cup {NoMessage}, status : Status]

TypeOK ==
    /\ monitor_ \in Threads \cup {NoThread}
    /\ queue_ \in Seq(Message) /\ oob_queue_ \in Seq(Message)
    /\ live_ports_ \in 0..MaxPorts /\ paused_ \in 0..1
    /\ {should_pause_on_start_, should_pause_on_exit_, is_paused_on_start_,
        is_paused_on_exit_, paused_for_messages_, pool_, task_running_, delete_me_,
        registered, interrupt, overwritten, notifying, closing, failed} \subseteq BOOLEAN
    /\ deleted \in Nat /\ posted \in 0..MaxPosts /\ taken \in 0..MaxPosts
    /\ thread \in [Threads -> [pc : Labels, status : Status, calls : Seq(Call)]]

(* The threads that are, or are about to be, in TaskCallback's monitor.    *)
Afterlife == {"idle", "end_callback", "delete", "embedder"}
InTask(t) ==
    /\ thread[t].pc \notin Afterlife
    /\ thread[t].calls # <<>> => thread[t].calls[Len(thread[t].calls)].ret # "embedder"

(* A handler has one task at most, and task_running_ says whether it has:  *)
(* "no other message handler tasks will be started until this one sets     *)
(* [task_running_] to false" (TaskCallback).                               *)
OneTask ==
    /\ \A t, u \in Threads : InTask(t) /\ InTask(u) => t = u
    /\ task_running_ <=> \E t \in Threads : InTask(t)
    /\ task_running_ => pool_

(* No message out of band is left when the task of a handler ends, however *)
(* often monitor_ was released meanwhile (the assertions in TaskCallback,  *)
(* "or we may miss a request for vm shutdown").                            *)
NoMissedOOBMessage == pool_ /\ ~ task_running_ => oob_queue_ = <<>>

(* With no task, a normal message waits only for a resume: of the          *)
(* isolate's capability or of the pause on start or on exit.               *)
NoStrandedMessage ==
    pool_ /\ ~ task_running_ /\ queue_ # <<>> =>
       paused \/ is_paused_on_start_ \/ is_paused_on_exit_

(* An isolate's handler stays as long as it has live ports, unless it had  *)
(* an error (Run's comment in message_handler.h).  Only events open ports  *)
(* here; requests of the service that run Dart code are left out.          *)
NoEarlyExit == [][pool_ /\ ~ pool_' /\ ~ failed => live_ports_ = 0]_vars

(* The handler is deleted once, when no thread runs or will run its code,  *)
(* and when the port map no longer leads to it (RequestDeletion against    *)
(* the end of TaskCallback).                                               *)
DeletedOnce ==
    deleted > 0 => deleted = 1 /\ ~ registered /\ NobodyRuns /\ ~ closing

(* Events are taken in the order they were posted in, whatever control     *)
(* messages are put before them (MessageQueue::Enqueue); and "If           *)
(* before_events is true, then the message is enqueued before any pending  *)
(* events" (PostMessage in message_handler.h), and stays there.            *)
EventsInOrder ==
    \A i \in 1..Len(queue_) :
       /\ ~ IsControl(queue_[i]) =>
             /\ taken < queue_[i].id
             /\ \A j \in 1..i - 1 : IsControl(queue_[j]) \/ queue_[j].id < queue_[i].id
       /\ queue_[i].kind = "killed_before" => \A j \in 1..i : IsControl(queue_[j])

(* "The isolate exits when it encounters an error" (TaskCallback): after   *)
(* an error the handler takes no event any more.                           *)
ErrorEndsEvents == [][pool_ /\ failed => taken' = taken]_vars

(* The VM's request to end an isolate is obeyed by a paused isolate and by *)
(* one that waits for messages without a timeout, and also by code that    *)
(* never returns unless SetStackLimit overwrote an interrupt (TaskCallback *)
(* and PauseAndHandleAllMessages, which must be notified, and              *)
(* HandleInterrupts).  If the code of events returns, the overwritten      *)
(* interrupt does no harm.                                                 *)
KillObeyed ==
    ([](~ overwritten) \/ \A t \in Threads : WF_vars(FinishEvent(t)))
      => ((\E i \in 1..Len(oob_queue_) : oob_queue_[i].kind = "internal_kill") ~> ~ pool_)

(* A native port's handler is deleted after its port has been closed, if   *)
(* the port's function returns (RequestDeletion).                          *)
NativeDeleted ==
    (\A t \in Threads : WF_vars(FinishEvent(t)))
      => ((OwnedByPortMap /\ ~ registered) ~> deleted = 1)
=============================================================================
